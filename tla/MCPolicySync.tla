---------------------------- MODULE MCPolicySync -----------------------------
(* Two policies of one agent, one without encryption.                      *)
EXTENDS PolicySync
CONSTANTS p1, p2, g1, g2
MCPolicy == {p1, p2}
MCPlain == {p2}
MCRequest == {g1}
MCReader == {g2}
MCPushId == 1..4
=============================================================================
