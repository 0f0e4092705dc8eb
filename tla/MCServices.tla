----------------------------- MODULE MCServices -----------------------------
(* Two services of the Master that share nothing: the log of one task, or  *)
(* the replacement of the Master's data; each behaviour is of one of them. *)
EXTENDS TaskLogs, MasterRestore
CONSTANTS Scenarios
VARIABLE scenario
mcVars == <<logVars, restoreVars, scenario>>

MCInit == scenario \in Scenarios /\ LogInit /\ RestoreInit
MCNext ==
  /\ UNCHANGED scenario
  /\ \/ scenario = "logs" /\ LogNext /\ UNCHANGED restoreVars
     \/ scenario = "restore" /\ RestoreNext /\ UNCHANGED logVars
MCSpec ==
  /\ MCInit /\ [][MCNext]_mcVars
  /\ WF_mcVars(scenario = "restore" /\ Starting /\ UNCHANGED <<logVars, scenario>>)
=============================================================================
