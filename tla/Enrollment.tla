----------------------------- MODULE Enrollment ------------------------------
(***************************************************************************)
(* The rows of the agents and the tokens in them: create, delete,          *)
(* regenerate token, update tags (internal/master/api/agents.go), enroll   *)
(* (enroll.go), the capabilities that heartbeats report (agent_state.go,   *)
(* agent_capabilities.go) and the token check of a connection.             *)
(*                                                                         *)
(* Requests run at once.  Enroll and regenerate are each one conditional   *)
(* UPDATE; UpdateTags reads a row, and later saves all of it.              *)
(***************************************************************************)
EXTENDS Naturals, FiniteSets

CONSTANTS
  Agent,       \* ids of agents
  Editor,      \* requests that update tags
  Capability,  \* what a heartbeat may report
  MaxTokens    \* bound: tokens generated

ASSUME TokenAssumption == MaxTokens \in Nat

NoToken == 0
Token == 1..MaxTokens
Absent == [row |-> FALSE, enroll |-> NoToken, token |-> NoToken, caps |-> {}]
Idle == [agent |-> "none", read |-> Absent]

VARIABLES
  agents,      \* the table: [row, enroll, token, caps] of each id; ids are not used again
  tagging,     \* Editor -> the agent an UpdateTags has read, and the row
  minted,      \* tokens generated
  exchanged,   \* <<enrollment token, agent token>> of every enrollment
  dead,        \* agent tokens that were regenerated, or whose agent was deleted
  stale        \* a tag update has saved a row that had changed since it was read

agentVars == <<agents, tagging, minted, exchanged, dead, stale>>

EnrollmentInit ==
  /\ agents = [a \in Agent |-> Absent]
  /\ tagging = [e \in Editor |-> Idle]
  /\ minted = 0 /\ exchanged = {} /\ dead = {} /\ stale = FALSE

Tokens(row) == {row.token} \ {NoToken}
Mint == minted < MaxTokens /\ minted' = minted + 1

CreateAgent(a) ==
  /\ agents[a] = Absent /\ \A e \in Editor : tagging[e].agent # a
  /\ Mint
  /\ agents' = [agents EXCEPT ![a].row = TRUE, ![a].enroll = minted']
  /\ UNCHANGED <<tagging, exchanged, dead, stale>>

RedeemMutant(row, t, new) == IF row.enroll = t THEN {[row EXCEPT !.token = new]} ELSE {}
\* One UPDATE: the row is found by its enrollment token, and only while it has no agent
\* token; it gets one and loses the other.
Redeem(row, t, new) ==
  IF row.enroll = t /\ row.token = NoToken
    THEN {[row EXCEPT !.token = new, !.enroll = NoToken]} ELSE {}
\* The agent also reports what it can do.
Enroll(a, t) ==
  /\ Mint
  /\ \E row \in Redeem(agents[a], t, minted'), caps \in SUBSET Capability :
       agents' = [agents EXCEPT ![a] = [row EXCEPT !.caps = caps]]
  /\ exchanged' = exchanged \cup {<<t, minted'>>}
  /\ UNCHANGED <<tagging, dead, stale>>

\* A new enrollment token; the agent token is cleared, and no connection is closed.
Regenerated(row, t) == [row EXCEPT !.enroll = t, !.token = NoToken]
RegenerateToken(a) ==
  /\ agents[a].row
  /\ Mint
  /\ agents' = [agents EXCEPT ![a] = Regenerated(@, minted')]
  /\ dead' = dead \cup Tokens(agents[a])
  /\ UNCHANGED <<tagging, exchanged, stale>>

\* The policies of the agent stay.
DeleteAgent(a) ==
  /\ agents[a].row
  /\ agents' = [agents EXCEPT ![a] = Absent]
  /\ dead' = dead \cup Tokens(agents[a])
  /\ UNCHANGED <<tagging, minted, exchanged, stale>>

ReadTags(e, a) ==
  /\ tagging[e] = Idle /\ agents[a].row
  /\ tagging' = [tagging EXCEPT ![e] = [agent |-> a, read |-> agents[a]]]
  /\ UNCHANGED <<agents, minted, exchanged, dead, stale>>

\* Save writes every column, and inserts the row when it is gone.
SaveTags(e) ==
  /\ tagging[e] # Idle
  /\ LET a == tagging[e].agent IN
       /\ stale' = (stale \/ agents[a] # tagging[e].read)
       /\ agents' = [agents EXCEPT ![a] = tagging[e].read]
  /\ tagging' = [tagging EXCEPT ![e] = Idle]
  /\ UNCHANGED <<minted, exchanged, dead>>

RejectTags(e) ==
  /\ tagging[e] # Idle
  /\ tagging' = [tagging EXCEPT ![e] = Idle]
  /\ UNCHANGED <<agents, minted, exchanged, dead, stale>>

\* NewHeartbeatStateUpdater: a heartbeat that names capabilities replaces those in the row.
Heartbeat(a, caps) ==
  /\ agents[a].row /\ caps # {}
  /\ agents' = [agents EXCEPT ![a].caps = caps]
  /\ UNCHANGED <<tagging, minted, exchanged, dead, stale>>

\* authAgent of HandleWebSocket: the tokens that open a connection.
Accepted == UNION {Tokens(agents[a]) : a \in Agent}

EnrollmentNext ==
  \/ \E a \in Agent :
       \/ CreateAgent(a) \/ RegenerateToken(a) \/ DeleteAgent(a)
       \/ \E t \in Token : Enroll(a, t)
       \/ \E e \in Editor : ReadTags(e, a)
       \/ \E caps \in SUBSET Capability : Heartbeat(a, caps)
  \/ \E e \in Editor : SaveTags(e) \/ RejectTags(e)

EnrollmentSpec == EnrollmentInit /\ [][EnrollmentNext]_agentVars

-----------------------------------------------------------------------------
\* An enrollment token is exchanged for one agent token, however many agents present it.
UsedOnce == \A x, y \in exchanged : x[1] = y[1] => x = y

\* The same, unless an update of tags has put back a row that changed meanwhile.
EnrolledOnce == ~stale => UsedOnce

\* A token that was regenerated, or whose agent was deleted, opens no connection again,
\* unless an update of tags has put it back.
RevokedStaysRevoked == ~stale => Accepted \cap dead = {}

\* The life of a token: exchanged once, and dead once it was replaced.
TokensInv == EnrolledOnce /\ RevokedStaysRevoked
=============================================================================
