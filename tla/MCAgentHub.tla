----------------------------- MODULE MCAgentHub -----------------------------
(* Instances of AgentHub for TLC.  Connections are interchangeable: they   *)
(* are dialled in the order of their numbers.  A silence is not combined   *)
(* with another event; a command and a restart are.                        *)
EXTENDS AgentHub

InOrder == \A c, d \in Conn : c < d /\ pc[c] = "unused" => pc'[d] = "unused"
SilenceAlone == bounds'.silences > 0 => bounds'.queued + bounds'.restarts = 0
=============================================================================
