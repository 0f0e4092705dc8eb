--------------------------- MODULE MCCommandService ---------------------------
(***************************************************************************)
(* Instances of CommandService for TLC.                                    *)
(***************************************************************************)
EXTENDS CommandService, TLC

CONSTANTS a1, d1, d2

\* A backup (odd) and a restore that an old payload asks for with include_paths.
LongKind == [c \in Command |-> IF c % 2 = 1 THEN "backup_now" ELSE "restore_req"]

\* The commands an agent may be sent twice.
ShortKind == [c \in Command |-> IF c % 2 = 1 THEN "policy_push" ELSE "snapshot_list_req"]

OneAgent == [c \in Command |-> a1]
\* Of several commands the deadline of one passes.
OneDeadline == Cardinality(expired') <= 1
Symmetry == Permutations(Dispatcher)
===============================================================================
