---------------------------- MODULE MCAgentTasks -----------------------------
(* Two scheduled policies, and one command of each kind.  The policies are *)
(* interchangeable: the cron job of p1 is the first of them to fire.  A    *)
(* behaviour has at most MaxEvents cron jobs, deliveries and faults.       *)
EXTENDS AgentTasks
CONSTANTS p1, p2, backup1, verify1, restore1, MaxEvents
MCPolicy == {p1, p2}
MCCommand == {backup1, verify1, restore1}
MCKind == [c \in MCCommand |-> CASE c = backup1 -> "backup" [] c = verify1 -> "verify" [] OTHER -> "restore"]

FirstIsP1 == ticks = 0 => p2 \notin pending'
Bounded == ticks' + deliveries' + faults' <= MaxEvents
=============================================================================
