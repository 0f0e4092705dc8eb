--------------------------- MODULE MCConfiguration ---------------------------
(* Two agents.  Either their tokens change, or, with both enrolled and one *)
(* of them able to back up databases, the policies do.                     *)
EXTENDS PolicyConfig, TLC
CONSTANTS a1, a2, path, dbA, dbB
VARIABLE scenario
mcVars == <<agentVars, policyVars, scenario>>

MCAgent == {a1, a2}
MCSource == {path, dbA, dbB}
MCRequires == [s \in MCSource |-> IF s = path THEN {} ELSE {"database"}]
MCCapability == {"database"}
MCSymmetry == Permutations(Request) \cup Permutations(Policy) \cup Permutations({dbA, dbB})

Enrolled(caps) == [Absent EXCEPT !.row = TRUE, !.caps = caps]
MCInit ==
  /\ scenario \in {"tokens", "policies"}
  /\ tagging = [e \in Editor |-> Idle]
  /\ minted = 0 /\ exchanged = {} /\ dead = {} /\ stale = FALSE
  /\ IF scenario = "tokens" THEN agents = [a \in Agent |-> Absent]
     ELSE agents = [a \in Agent |-> Enrolled(IF a = a1 THEN {"database"} ELSE {})]
  /\ PolicyInit

MCNext ==
  /\ UNCHANGED scenario
  /\ \/ scenario = "tokens" /\ EnrollmentNext /\ UNCHANGED policyVars
     \/ scenario = "policies" /\ PolicyNext /\ UNCHANGED agentVars
     \/ /\ scenario = "policies" /\ UNCHANGED policyVars
        /\ \E a \in Agent : DeleteAgent(a) \/ Heartbeat(a, Capability)
MCSpec == MCInit /\ [][MCNext]_mcVars
=============================================================================
