-------------------------- MODULE ConfigurationProofs --------------------------
(***************************************************************************)
(* Proofs about Enrollment and PolicyConfig: the life of a token, and what *)
(* requests that overlap may store.                                        *)
(***************************************************************************)
EXTENDS PolicyConfig, TLAPS

(* The tokens.                                                             *)

AgentRow == [row : BOOLEAN, enroll : Nat, token : Nat, caps : SUBSET Capability]

TokenTypes ==
  /\ minted \in Nat /\ minted <= MaxTokens /\ stale \in BOOLEAN
  /\ agents \in [Agent -> AgentRow]
  /\ tagging \in [Editor -> {Idle} \cup [agent : Agent, read : AgentRow]]

\* A token is in one row, for one purpose.
TokensAreDistinct ==
  /\ \A a \in Agent : agents[a].enroll <= minted /\ agents[a].token <= minted
  /\ \A a, b \in Agent : agents[a].enroll = agents[b].enroll /\ agents[a].enroll # NoToken => a = b
  /\ \A a, b \in Agent : agents[a].token = agents[b].token /\ agents[a].token # NoToken => a = b

\* A token that was exchanged, or is dead, is in no row any more.
TokensAreSpent ==
  /\ \A x \in exchanged : x[1] \in Nat /\ x[1] # NoToken /\ x[1] <= minted /\ \A a \in Agent : agents[a].enroll # x[1]
  /\ UsedOnce
  /\ \A t \in dead : t \in Nat /\ t # NoToken /\ t <= minted /\ \A a \in Agent : agents[a].token # t

TokensInd == TokenTypes /\ (~stale => TokensAreDistinct /\ TokensAreSpent)

LEMMA RowOf ==
  ASSUME agents \in [Agent -> AgentRow], NEW a \in Agent
  PROVE  agents[a] \in AgentRow /\ agents[a].enroll \in Nat /\ agents[a].token \in Nat
BY DEF AgentRow

LEMMA AbsentIsRow == Absent \in AgentRow /\ Absent.enroll = NoToken /\ Absent.token = NoToken
BY DEF Absent, AgentRow, NoToken

LEMMA TokensFirst == EnrollmentInit => TokensInd
<1> SUFFICES ASSUME EnrollmentInit PROVE TokensInd
  OBVIOUS
<1>1. /\ \A a \in Agent : agents[a] = Absent
      /\ agents \in [Agent -> AgentRow]
  BY AbsentIsRow DEF EnrollmentInit
<1>2. tagging \in [Editor -> {Idle} \cup [agent : Agent, read : AgentRow]]
  BY DEF EnrollmentInit
<1>3. minted = 0 /\ exchanged = {} /\ dead = {} /\ stale = FALSE /\ MaxTokens \in Nat
  BY TokenAssumption DEF EnrollmentInit
<1>4. TokenTypes
  <2>1. minted \in Nat /\ minted <= MaxTokens
    BY <1>3
  <2>2. stale \in BOOLEAN
    BY <1>3
  <2> QED
    BY <1>1, <1>2, <2>1, <2>2 DEF TokenTypes
<1>5. TokensAreDistinct
  BY <1>1, <1>3, AbsentIsRow DEF TokensAreDistinct, NoToken
<1>6. TokensAreSpent
  BY <1>3 DEF TokensAreSpent, UsedOnce
<1> QED
  BY <1>4, <1>5, <1>6 DEF TokensInd

\* What the operations have in common: one row changes, keeps its tokens, loses them or
\* gets the one just generated; an exchanged token and a dead one were in it.
RowChanges(a, new) ==
  /\ agents' = [agents EXCEPT ![a] = new]
  /\ minted' = minted \/ (minted' = minted + 1 /\ minted < MaxTokens)
  /\ new.enroll \in {NoToken, agents[a].enroll} \/ (new.enroll = minted' /\ minted' # minted)
  /\ new.token \in {NoToken, agents[a].token} \/ (new.token = minted' /\ minted' # minted)
  /\ \/ exchanged' = exchanged
     \/ /\ exchanged' = exchanged \cup {<<agents[a].enroll, minted'>>}
        /\ agents[a].enroll # NoToken /\ new.enroll = NoToken
  /\ \/ dead' = dead
     \/ dead' = dead \cup Tokens(agents[a]) /\ new.token # agents[a].token
     \/ dead' = dead \cup Tokens(agents[a]) /\ new.token = NoToken
  /\ UNCHANGED <<tagging, stale>>

LEMMA OneRow ==
  ASSUME TokensInd, NEW a \in Agent, NEW new \in AgentRow, RowChanges(a, new)
  PROVE  TokensInd'
<1> DEFINE old == agents[a]
<1>1. /\ agents' \in [Agent -> AgentRow] /\ agents'[a] = new
      /\ \A b \in Agent \ {a} : agents'[b] = agents[b]
  BY DEF RowChanges, TokensInd, TokenTypes
<1>2. /\ minted \in Nat /\ MaxTokens \in Nat /\ minted <= MaxTokens
      /\ minted' = minted \/ (minted' = minted + 1 /\ minted < MaxTokens)
  BY TokenAssumption DEF TokensInd, TokenTypes, RowChanges
<1>3. TokenTypes'
  <2>1. tagging' \in [Editor -> {Idle} \cup [agent : Agent, read : AgentRow]]
    BY DEF RowChanges, TokensInd, TokenTypes
  <2>2. minted' \in Nat /\ minted' <= MaxTokens
    BY <1>2
  <2>3. stale' \in BOOLEAN
    BY DEF RowChanges, TokensInd, TokenTypes
  <2> QED
    BY <1>1, <2>1, <2>2, <2>3 DEF TokenTypes
<1>4. ASSUME ~stale PROVE TokensAreDistinct' /\ TokensAreSpent'
  <2>1. TokensAreDistinct /\ TokensAreSpent
    BY <1>4 DEF TokensInd
  <2>2. \A b \in Agent : agents[b].enroll \in Nat /\ agents[b].token \in Nat
    BY RowOf DEF TokensInd, TokenTypes
  <2>3. \A b \in Agent : agents[b].enroll <= minted /\ agents[b].token <= minted
    BY <2>1 DEF TokensAreDistinct
  <2>4. /\ new.enroll \in {NoToken, old.enroll} \/ (new.enroll = minted' /\ minted' = minted + 1)
        /\ new.token \in {NoToken, old.token} \/ (new.token = minted' /\ minted' = minted + 1)
    BY <1>2 DEF RowChanges
  <2>5. TokensAreDistinct'
    <3>1. \A b \in Agent : agents'[b].enroll <= minted' /\ agents'[b].token <= minted'
      BY <1>1, <1>2, <2>2, <2>3, <2>4 DEF NoToken
    <3>2. \A b, c \in Agent : agents'[b].enroll = agents'[c].enroll /\ agents'[b].enroll # NoToken => b = c
      BY <1>1, <1>2, <2>1, <2>2, <2>3, <2>4 DEF NoToken, TokensAreDistinct
    <3>3. \A b, c \in Agent : agents'[b].token = agents'[c].token /\ agents'[b].token # NoToken => b = c
      BY <1>1, <1>2, <2>1, <2>2, <2>3, <2>4 DEF NoToken, TokensAreDistinct
    <3> QED
      BY <3>1, <3>2, <3>3 DEF TokensAreDistinct
  <2>6. \A x \in exchanged' : x[1] \in Nat /\ x[1] # NoToken /\ x[1] <= minted' /\ \A b \in Agent : agents'[b].enroll # x[1]
    <3> TAKE x \in exchanged'
    <3>1. CASE x \in exchanged
      <4>1. x[1] \in Nat /\ x[1] # NoToken /\ x[1] <= minted /\ \A b \in Agent : agents[b].enroll # x[1]
        BY <3>1, <2>1 DEF TokensAreSpent
      <4>2. x[1] # minted + 1 /\ x[1] <= minted'
        BY <4>1, <1>2, <2>1, <3>1
      <4> QED
        BY <4>1, <4>2, <1>1, <2>4
    <3>2. CASE x \notin exchanged
      <4>1. x = <<old.enroll, minted'>> /\ old.enroll # NoToken /\ new.enroll = NoToken
        BY <3>2 DEF RowChanges
      <4>2. x[1] = old.enroll
        BY <4>1
      <4>3. x[1] \in Nat /\ x[1] <= minted'
        BY <4>2, <1>2, <2>2, <2>3
      <4>4. \A b \in Agent \ {a} : agents[b].enroll # old.enroll
        BY <4>1, <2>1 DEF TokensAreDistinct
      <4> QED
        BY <4>1, <4>2, <4>3, <4>4, <1>1
    <3> QED
      BY <3>1, <3>2
  <2>7. UsedOnce'
    <3>1. \A x, y \in exchanged : x[1] = y[1] => x = y
      BY <2>1 DEF TokensAreSpent, UsedOnce
    <3>2. CASE exchanged' = exchanged
      BY <3>1, <3>2 DEF UsedOnce
    <3>3. CASE exchanged' # exchanged
      <4> DEFINE z == <<old.enroll, minted'>>
      <4>1. exchanged' = exchanged \cup {z}
        BY <3>3 DEF RowChanges
      <4>2. \A x \in exchanged : x[1] # old.enroll
        BY <2>1 DEF TokensAreSpent
      <4>3. z[1] = old.enroll
        OBVIOUS
      <4> HIDE DEF z
      <4> QED
        BY <3>1, <4>1, <4>2, <4>3 DEF UsedOnce
    <3> QED
      BY <3>2, <3>3
  <2>8. \A t \in dead' : t \in Nat /\ t # NoToken /\ t <= minted' /\ \A b \in Agent : agents'[b].token # t
    <3> TAKE t \in dead'
    <3>1. CASE t \in dead
      <4>1. t \in Nat /\ t # NoToken /\ t <= minted /\ \A b \in Agent : agents[b].token # t
        BY <3>1, <2>1 DEF TokensAreSpent
      <4>2. t # minted + 1 /\ t <= minted'
        BY <4>1, <1>2
      <4> QED
        BY <4>1, <4>2, <1>1, <2>4
    <3>2. CASE t \notin dead
      <4>1. t = old.token /\ t # NoToken /\ new.token # t
        BY <3>2 DEF RowChanges, Tokens
      <4>2. t \in Nat /\ t <= minted'
        BY <4>1, <1>2, <2>2, <2>3
      <4>3. \A b \in Agent \ {a} : agents[b].token # t
        BY <4>1, <2>1 DEF TokensAreDistinct
      <4> QED
        BY <4>1, <4>2, <4>3, <1>1
    <3> QED
      BY <3>1, <3>2
  <2> QED
    BY <2>5, <2>6, <2>7, <2>8 DEF TokensAreSpent
<1>5. stale' = stale
  BY DEF RowChanges
<1> QED
  BY <1>3, <1>4, <1>5 DEF TokensInd

LEMMA Minting == ASSUME TokensInd, Mint PROVE minted' = minted + 1 /\ minted < MaxTokens /\ minted' # minted
BY TokenAssumption DEF Mint, TokensInd, TokenTypes

LEMMA CreateTokens ==
  ASSUME TokensInd, NEW a \in Agent, CreateAgent(a) PROVE TokensInd'
<1> DEFINE new == [Absent EXCEPT !.row = TRUE, !.enroll = minted']
<1>1. minted' = minted + 1 /\ minted < MaxTokens /\ minted' # minted /\ minted' \in Nat
  BY Minting DEF CreateAgent, TokensInd, TokenTypes
<1>2. agents' = [agents EXCEPT ![a] = new] /\ agents[a].token = NoToken
  BY AbsentIsRow DEF CreateAgent, Absent
<1>3. new \in AgentRow /\ new.enroll = minted' /\ new.token = NoToken
  BY <1>1 DEF Absent, AgentRow, NoToken
<1> HIDE DEF new
<1>4. RowChanges(a, new)
  BY <1>1, <1>2, <1>3 DEF RowChanges, CreateAgent
<1> QED
  BY <1>3, <1>4, OneRow

LEMMA EnrollTokens ==
  ASSUME TokensInd, NEW a \in Agent, NEW t \in Token, Enroll(a, t) PROVE TokensInd'
<1>1. minted' = minted + 1 /\ minted < MaxTokens /\ minted' # minted /\ minted' \in Nat
  BY Minting DEF Enroll, TokensInd, TokenTypes
<1>2. agents[a] \in AgentRow
  BY DEF TokensInd, TokenTypes
<1>3. PICK row \in Redeem(agents[a], t, minted'), caps \in SUBSET Capability :
        agents' = [agents EXCEPT ![a] = [row EXCEPT !.caps = caps]]
  BY DEF Enroll
<1> DEFINE new == [row EXCEPT !.caps = caps]
<1>4. /\ row = [agents[a] EXCEPT !.token = minted', !.enroll = NoToken]
      /\ agents[a].enroll = t /\ agents[a].token = NoToken /\ t # NoToken
  BY <1>3, TokenAssumption DEF Redeem, Token, NoToken
<1>5. new \in AgentRow /\ new.enroll = NoToken /\ new.token = minted'
  BY <1>1, <1>2, <1>4 DEF AgentRow, NoToken
<1>6. agents' = [agents EXCEPT ![a] = new]
  BY <1>3
<1> HIDE DEF new
<1>7. RowChanges(a, new)
  BY <1>1, <1>4, <1>5, <1>6 DEF RowChanges, Enroll
<1> QED
  BY <1>5, <1>7, OneRow

LEMMA RegenerateTokens ==
  ASSUME TokensInd, NEW a \in Agent, RegenerateToken(a) PROVE TokensInd'
<1> DEFINE new == [agents[a] EXCEPT !.enroll = minted', !.token = NoToken]
<1>1. minted' = minted + 1 /\ minted < MaxTokens /\ minted' # minted /\ minted' \in Nat
  BY Minting DEF RegenerateToken, TokensInd, TokenTypes
<1>2. agents[a] \in AgentRow
  BY DEF TokensInd, TokenTypes
<1>3. agents' = [agents EXCEPT ![a] = new]
  BY DEF RegenerateToken, Regenerated
<1>4. new \in AgentRow /\ new.enroll = minted' /\ new.token = NoToken
  BY <1>1, <1>2 DEF AgentRow, NoToken
<1> HIDE DEF new
<1>5. RowChanges(a, new)
  BY <1>1, <1>3, <1>4 DEF RowChanges, RegenerateToken
<1> QED
  BY <1>4, <1>5, OneRow

LEMMA DeleteTokens ==
  ASSUME TokensInd, NEW a \in Agent, DeleteAgent(a) PROVE TokensInd'
<1>1. RowChanges(a, Absent)
  BY AbsentIsRow DEF RowChanges, DeleteAgent
<1> QED
  BY <1>1, AbsentIsRow, OneRow

LEMMA HeartbeatTokens ==
  ASSUME TokensInd, NEW a \in Agent, NEW caps \in SUBSET Capability, Heartbeat(a, caps) PROVE TokensInd'
<1> DEFINE new == [agents[a] EXCEPT !.caps = caps]
<1>1. agents[a] \in AgentRow
  BY DEF TokensInd, TokenTypes
<1>2. agents' = [agents EXCEPT ![a] = new]
  BY DEF Heartbeat
<1>3. new \in AgentRow /\ new.enroll = agents[a].enroll /\ new.token = agents[a].token
  BY <1>1 DEF AgentRow
<1> HIDE DEF new
<1>4. RowChanges(a, new)
  BY <1>2, <1>3 DEF RowChanges, Heartbeat
<1> QED
  BY <1>3, <1>4, OneRow

\* An update of tags that changes a row which changed meanwhile makes stale true.
LEMMA TagTokens ==
  ASSUME TokensInd, NEW e \in Editor, (\E a \in Agent : ReadTags(e, a)) \/ SaveTags(e) \/ RejectTags(e)
  PROVE  TokensInd'
<1> DEFINE Reading == {Idle} \cup [agent : Agent, read : AgentRow]
<1>1. /\ tagging \in [Editor -> Reading] /\ agents \in [Agent -> AgentRow]
      /\ minted \in Nat /\ minted <= MaxTokens /\ stale \in BOOLEAN
  BY DEF TokensInd, TokenTypes
<1>2. CASE \E a \in Agent : ReadTags(e, a)
  <2>1. PICK a \in Agent : ReadTags(e, a)
    BY <1>2
  <2> DEFINE new == [agent |-> a, read |-> agents[a]]
  <2>2. new \in [agent : Agent, read : AgentRow]
    BY <1>1
  <2>3. tagging' = [tagging EXCEPT ![e] = new]
    BY <2>1 DEF ReadTags
  <2> HIDE DEF new
  <2>4. tagging' \in [Editor -> Reading]
    BY <1>1, <2>2, <2>3
  <2>5. UNCHANGED <<agents, minted, exchanged, dead, stale>>
    BY <2>1 DEF ReadTags
  <2> QED
    BY <1>1, <2>4, <2>5 DEF TokensInd, TokenTypes, TokensAreDistinct, TokensAreSpent, UsedOnce
<1>3. CASE RejectTags(e)
  <2>1. tagging' = [tagging EXCEPT ![e] = Idle] /\ UNCHANGED <<agents, minted, exchanged, dead, stale>>
    BY <1>3 DEF RejectTags
  <2>2. tagging' \in [Editor -> Reading]
    BY <1>1, <2>1
  <2> QED
    BY <1>1, <2>1, <2>2 DEF TokensInd, TokenTypes, TokensAreDistinct, TokensAreSpent, UsedOnce
<1>4. CASE SaveTags(e)
  <2> DEFINE a == tagging[e].agent
             read == tagging[e].read
  <2>1. /\ tagging' = [tagging EXCEPT ![e] = Idle] /\ agents' = [agents EXCEPT ![a] = read]
        /\ stale' = (stale \/ agents[a] # read) /\ UNCHANGED <<minted, exchanged, dead>>
        /\ tagging[e] # Idle
    BY <1>4 DEF SaveTags
  <2>2. a \in Agent /\ read \in AgentRow
    BY <1>1, <2>1
  <2>3. tagging' \in [Editor -> Reading]
    BY <1>1, <2>1
  <2> HIDE DEF a, read
  <2>4. agents' \in [Agent -> AgentRow]
    BY <1>1, <2>1, <2>2
  <2>5. stale' \in BOOLEAN
    BY <2>1
  <2>6. TokenTypes'
    BY <1>1, <2>1, <2>3, <2>4, <2>5 DEF TokenTypes
  <2>7. ASSUME ~stale' PROVE ~stale /\ agents' = agents
    <3>1. ~stale /\ agents[a] = read
      BY <2>1, <2>7
    <3> QED
      BY <1>1, <2>1, <3>1
  <2> QED
    BY <2>1, <2>6, <2>7 DEF TokensInd, TokensAreDistinct, TokensAreSpent, UsedOnce
<1> QED
  BY <1>2, <1>3, <1>4

LEMMA TokensStep == ASSUME TokensInd, EnrollmentNext \/ UNCHANGED agentVars PROVE TokensInd'
<1>1. CASE UNCHANGED agentVars
  BY <1>1 DEF agentVars, TokensInd, TokenTypes, TokensAreDistinct, TokensAreSpent, UsedOnce
<1>2. CASE EnrollmentNext
  BY <1>2, CreateTokens, EnrollTokens, RegenerateTokens, DeleteTokens, HeartbeatTokens, TagTokens
     DEF EnrollmentNext
<1> QED
  BY <1>1, <1>2

LEMMA TokensMean == TokensInd => TokensInv
<1> SUFFICES ASSUME TokensInd, ~stale PROVE UsedOnce /\ Accepted \cap dead = {}
  BY DEF TokensInv, EnrolledOnce, RevokedStaysRevoked
<1> QED
  BY DEF TokensInd, TokensAreSpent, Accepted, Tokens

\* However agents are created, enrolled, regenerated and deleted, an enrollment token is
\* exchanged once and a dead agent token opens no connection, until an update of tags saves
\* a row that has changed since it was read (UpdateTags, agents.go).
THEOREM TokensCorrect == ConfigSpec => []TokensInv
<1>1. ConfigNext \/ UNCHANGED <<agentVars, policyVars>> => EnrollmentNext \/ UNCHANGED agentVars
  BY DEF ConfigNext
<1>2. TokensInd /\ [ConfigNext]_<<agentVars, policyVars>> => TokensInd'
  BY <1>1, TokensStep
<1> QED
  BY <1>2, TokensFirst, TokensMean, PTL DEF ConfigSpec

(* The policies.                                                           *)

\* What every check lets through, and every write keeps.
Good == {row \in Row : ~(row.mode = "archive" /\ row.verify) /\ row.secret \in {None, row.source}}

Asked ==
  {NoRequest}
  \cup [op : {"create"}, row : Good]
  \cup [op : {"save"}, id : Policy, row : Good]
  \cup [op : {"bulk"}, row : Good, todo : SUBSET Agent]
  \cup [op : {"delete"}, id : Policy]
  \cup [op : {"delete storage"}, id : Storage]

PolicyInd ==
  /\ storages \subseteq Storage
  /\ policies \in [Policy -> Good \cup {NoRow}]
  /\ requests \in [Request -> Asked]

LEMMA GoodIsGood ==
  ASSUME NEW a \in Agent, NEW st \in Storage, NEW m \in Mode, NEW v \in BOOLEAN, NEW s \in Source,
         NEW sec \in {None, s}, ~(m = "archive" /\ v)
  PROVE  [agent |-> a, storage |-> st, mode |-> m, verify |-> v, source |-> s, secret |-> sec] \in Good
BY DEF Good, Row

LEMMA GoodIsRow ==
  ASSUME NEW row \in Good
  PROVE  /\ row = [agent |-> row.agent, storage |-> row.storage, mode |-> row.mode, verify |-> row.verify,
                   source |-> row.source, secret |-> row.secret]
         /\ row.agent \in Agent /\ row.storage \in Storage /\ row.mode \in Mode /\ row.verify \in BOOLEAN
         /\ row.source \in Source /\ row.secret \in {None, row.source}
         /\ ~(row.mode = "archive" /\ row.verify)
BY DEF Good, Row

LEMMA SecretIsOwn ==
  ASSUME NEW s \in Source, NEW sent \in {"new", "kept", "none"}, NEW old \in Good \cup {NoRow}
  PROVE  Secret(s, sent, old) \in {None, s}
<1>1. CASE sent = "new"
  BY <1>1 DEF Secret
<1>2. CASE sent = "kept" /\ old # NoRow
  <2>1. old \in Good
    BY <1>2
  <2>2. Secret(s, sent, old) = Inherited(s, old)
    BY <1>2 DEF Secret
  <2> QED
    BY <2>1, <2>2, GoodIsRow DEF Inherited
<1>3. CASE sent # "new" /\ ~(sent = "kept" /\ old # NoRow)
  BY <1>3 DEF Secret
<1> QED
  BY <1>1, <1>2, <1>3

LEMMA PolicyFirst == PolicyInit => PolicyInd
BY DEF PolicyInit, PolicyInd, Asked

LEMMA Begun ==
  ASSUME PolicyInd, NEW r \in Request, NEW what \in Asked, Begin(r, what), UNCHANGED <<storages, policies, used>>
  PROVE  PolicyInd'
BY DEF PolicyInd, Begin

LEMMA CreateChecked ==
  ASSUME PolicyInd, NEW r \in Request, CheckCreate(r) PROVE PolicyInd'
<1>1. PICK a \in Agent, st \in storages, m \in Mode, v \in BOOLEAN, s \in Source, sent \in {"new", "none"} :
        /\ ArchiveRule(m, v, TRUE)
        /\ Begin(r, [op |-> "create", row |-> [agent |-> a, storage |-> st, mode |-> m, verify |-> v,
                                               source |-> s, secret |-> Secret(s, sent, NoRow)]])
        /\ UNCHANGED <<storages, policies, used>>
  BY ZenonT(30) DEF CheckCreate
<1> DEFINE sec == Secret(s, sent, NoRow)
           row == [agent |-> a, storage |-> st, mode |-> m, verify |-> v, source |-> s, secret |-> sec]
           what == [op |-> "create", row |-> row]
<1>2. st \in Storage /\ sec \in {None, s} /\ ~(m = "archive" /\ v)
  BY <1>1, SecretIsOwn DEF PolicyInd, ArchiveRule
<1>3. row \in Good
  <2> HIDE DEF sec
  <2> QED
    BY <1>2, GoodIsGood
<1>4. Begin(r, what)
  BY <1>1
<1>5. what \in Asked
  <2> HIDE DEF row
  <2> QED
    BY <1>3 DEF Asked
<1> HIDE DEF what
<1> QED
  BY <1>1, <1>4, <1>5, Begun

LEMMA CopyChecked ==
  ASSUME PolicyInd, NEW r \in Request, NEW p \in Policy, CheckCopy(r, p) PROVE PolicyInd'
<1> DEFINE what == [op |-> "create", row |-> policies[p]]
<1>1. policies[p] \in Good
  BY DEF CheckCopy, PolicyInd
<1>2. what \in Asked
  BY <1>1 DEF Asked
<1>3. Begin(r, what) /\ UNCHANGED <<storages, policies, used>>
  BY DEF CheckCopy
<1> HIDE DEF what
<1> QED
  BY <1>2, <1>3, Begun

\* Every form of an update leaves a row that the checks allow.
LEMMA UpdateIsGood ==
  ASSUME NEW old \in Good
  PROVE  /\ \A st \in Storage : [old EXCEPT !.storage = st] \in Good
         /\ \A m \in Mode : ~(m = "archive" /\ old.verify) => [old EXCEPT !.mode = m] \in Good
         /\ \A m \in Mode, v \in BOOLEAN : ~(m = "archive" /\ v) => [old EXCEPT !.mode = m, !.verify = v] \in Good
         /\ \A s \in Source : \A sec \in {None, s} : [old EXCEPT !.source = s, !.secret = sec] \in Good
BY GoodIsRow DEF Good, Row

LEMMA UpdateChecked ==
  ASSUME PolicyInd, NEW r \in Request, NEW p \in Policy, CheckUpdate(r, p) PROVE PolicyInd'
<1> DEFINE old == policies[p]
           What(row) == [op |-> "save", id |-> p, row |-> row]
<1>1. old \in Good /\ storages \subseteq Storage
  BY DEF CheckUpdate, PolicyInd
<1>2. \E row \in Good : Begin(r, What(row))
  <2>1. CASE \E st \in storages : Begin(r, What([old EXCEPT !.storage = st]))
    BY <1>1, <2>1, UpdateIsGood
  <2>2. CASE \E m \in Mode : ArchiveRule(m, old.verify, FALSE) /\ Begin(r, What([old EXCEPT !.mode = m]))
    BY <1>1, <2>2, UpdateIsGood DEF ArchiveRule
  <2>3. CASE \E m \in Mode, v \in BOOLEAN :
               ArchiveRule(m, v, TRUE) /\ Begin(r, What([old EXCEPT !.mode = m, !.verify = v]))
    BY <1>1, <2>3, UpdateIsGood DEF ArchiveRule
  <2>4. CASE \E s \in Source, sent \in {"new", "kept", "none"} :
               Begin(r, What([old EXCEPT !.source = s, !.secret = Secret(s, sent, old)]))
    <3>1. PICK s \in Source, sent \in {"new", "kept", "none"} :
                 Begin(r, What([old EXCEPT !.source = s, !.secret = Secret(s, sent, old)]))
      BY <2>4
    <3> DEFINE sec == Secret(s, sent, old)
    <3>2. sec \in {None, s}
      BY <1>1, SecretIsOwn
    <3> HIDE DEF sec
    <3>3. [old EXCEPT !.source = s, !.secret = sec] \in Good
      BY <1>1, <3>2, UpdateIsGood
    <3> QED
      BY <3>1, <3>3 DEF sec
  <2> QED
    BY <2>1, <2>2, <2>3, <2>4 DEF CheckUpdate
<1>3. PICK row \in Good : Begin(r, What(row))
  BY <1>2
<1>4. What(row) \in Asked
  BY DEF Asked
<1>5. UNCHANGED <<storages, policies, used>>
  BY DEF CheckUpdate
<1> QED
  BY <1>3, <1>4, <1>5, Begun

LEMMA OtherChecked ==
  ASSUME PolicyInd, NEW r \in Request,
         \/ \E p \in Policy : CheckBulk(r, p) \/ CheckDelete(r, p)
         \/ \E st \in Storage : CheckDeleteStorage(r, st)
  PROVE  PolicyInd'
<1>1. CASE \E p \in Policy : CheckBulk(r, p)
  <2>1. PICK p \in Policy : CheckBulk(r, p)
    BY <1>1
  <2>2. PICK targets \in SUBSET {a \in Agent : agents[a].row} :
          Begin(r, [op |-> "bulk", row |-> policies[p], todo |-> targets])
    BY <2>1 DEF CheckBulk
  <2> DEFINE what == [op |-> "bulk", row |-> policies[p], todo |-> targets]
  <2>3. policies[p] \in Good /\ UNCHANGED <<storages, policies, used>>
    BY <2>1 DEF CheckBulk, PolicyInd
  <2>4. what \in Asked
    BY <2>3 DEF Asked
  <2>5. Begin(r, what)
    BY <2>2
  <2> HIDE DEF what
  <2> QED
    BY <2>3, <2>4, <2>5, Begun
<1>2. CASE \E p \in Policy : CheckDelete(r, p)
  <2>1. PICK p \in Policy : CheckDelete(r, p)
    BY <1>2
  <2>2. [op |-> "delete", id |-> p] \in Asked
    BY DEF Asked
  <2> QED
    BY <2>1, <2>2, Begun DEF CheckDelete
<1>3. CASE \E st \in Storage : CheckDeleteStorage(r, st)
  <2>1. PICK st \in Storage : CheckDeleteStorage(r, st)
    BY <1>3
  <2>2. [op |-> "delete storage", id |-> st] \in Asked
    BY DEF Asked
  <2> QED
    BY <2>1, <2>2, Begun DEF CheckDeleteStorage
<1> QED
  BY <1>1, <1>2, <1>3

LEMMA AskedRow ==
  ASSUME PolicyInd, NEW r \in Request
  PROVE  /\ requests[r].op \in {"create", "save", "bulk"} => requests[r].row \in Good
         /\ requests[r].op = "save" => requests[r].id \in Policy
         /\ requests[r].op = "bulk" => requests[r].todo \subseteq Agent
                                       /\ requests[r] \in [op : {"bulk"}, row : Good, todo : SUBSET Agent]
         /\ requests[r].op = "delete" => requests[r].id \in Policy
         /\ requests[r].op = "delete storage" => requests[r].id \in Storage
<1>1. requests[r] \in Asked
  BY DEF PolicyInd
<1> DEFINE q == requests[r]
<1>2. CASE q = NoRequest
  BY <1>2 DEF NoRequest
<1>3. CASE q \in [op : {"create"}, row : Good]
  BY <1>3
<1>4. CASE q \in [op : {"save"}, id : Policy, row : Good]
  BY <1>4
<1>5. CASE q \in [op : {"bulk"}, row : Good, todo : SUBSET Agent]
  BY <1>5
<1>6. CASE q \in [op : {"delete"}, id : Policy]
  BY <1>6
<1>7. CASE q \in [op : {"delete storage"}, id : Storage]
  BY <1>7
<1> QED
  BY <1>1, <1>2, <1>3, <1>4, <1>5, <1>6, <1>7 DEF Asked

LEMMA Writes ==
  ASSUME PolicyInd, NEW r \in Request, WriteCreate(r) \/ WriteUpdate(r) PROVE PolicyInd'
<1>1. PICK p \in Policy : policies' = [policies EXCEPT ![p] = requests[r].row]
  BY AskedRow DEF WriteCreate, WriteUpdate, Insert, Written
<1>2. requests[r].row \in Good
  BY AskedRow DEF WriteCreate, WriteUpdate
<1>3. requests' = [requests EXCEPT ![r] = NoRequest] /\ storages' = storages
  BY DEF WriteCreate, WriteUpdate, End
<1>4. NoRequest \in Asked
  BY DEF Asked
<1> QED
  BY <1>1, <1>2, <1>3, <1>4 DEF PolicyInd

LEMMA BulkWrites ==
  ASSUME PolicyInd, NEW r \in Request, NEW a \in Agent, WriteBulk(r, a) PROVE PolicyInd'
<1> DEFINE row == [requests[r].row EXCEPT !.agent = a]
           left == [requests[r] EXCEPT !.todo = @ \ {a}]
<1>1. requests[r] \in [op : {"bulk"}, row : Good, todo : SUBSET Agent] /\ requests[r].row \in Good
  BY AskedRow DEF WriteBulk
<1>2. row \in Good
  BY <1>1 DEF Good, Row
<1>3. left \in Asked
  <2>1. left \in [op : {"bulk"}, row : Good, todo : SUBSET Agent]
    BY <1>1
  <2> HIDE DEF left
  <2> QED
    BY <2>1 DEF Asked
<1>4. requests' = [requests EXCEPT ![r] = left] /\ storages' = storages
  BY DEF WriteBulk
<1>5. \/ policies' = policies
      \/ \E p \in Policy : policies' = [policies EXCEPT ![p] = row]
  BY DEF WriteBulk, Insert, Written
<1> HIDE DEF row, left
<1> QED
  BY <1>2, <1>3, <1>4, <1>5 DEF PolicyInd

LEMMA OtherWrites ==
  ASSUME PolicyInd, NEW r \in Request, EndBulk(r) \/ WriteDelete(r) \/ WriteDeleteStorage(r) PROVE PolicyInd'
<1>1. requests' = [requests EXCEPT ![r] = NoRequest] /\ NoRequest \in Asked
  BY DEF EndBulk, WriteDelete, WriteDeleteStorage, End, Asked
<1>2. storages' \subseteq Storage
  BY DEF EndBulk, WriteDelete, WriteDeleteStorage, PolicyInd
<1>3. policies' \in [Policy -> Good \cup {NoRow}]
  BY DEF EndBulk, WriteDelete, WriteDeleteStorage, PolicyInd
<1> QED
  BY <1>1, <1>2, <1>3 DEF PolicyInd

LEMMA PolicyStep == ASSUME PolicyInd, PolicyNext \/ UNCHANGED policyVars PROVE PolicyInd'
<1>1. CASE UNCHANGED policyVars
  BY <1>1 DEF policyVars, PolicyInd
<1>2. CASE PolicyNext
  BY <1>2, CreateChecked, CopyChecked, UpdateChecked, OtherChecked, Writes, BulkWrites, OtherWrites
     DEF PolicyNext
<1> QED
  BY <1>1, <1>2

LEMMA PolicyMeans == PolicyInd => SecretsBelong /\ ArchivesAreNotVerified
<1> SUFFICES ASSUME PolicyInd, NEW row \in Rows
             PROVE  row.secret \in {None, row.source} /\ ~(row.mode = "archive" /\ row.verify)
  BY DEF SecretsBelong, ArchivesAreNotVerified
<1>1. row \in Good
  BY DEF Rows, PolicyInd
<1> QED
  BY <1>1, GoodIsRow

LEMMA PolicyAlways == ConfigSpec => []PolicyInd
<1>1. ConfigNext \/ UNCHANGED <<agentVars, policyVars>> => PolicyNext \/ UNCHANGED policyVars
  BY DEF ConfigNext
<1>2. PolicyInd /\ [ConfigNext]_<<agentVars, policyVars>> => PolicyInd'
  BY <1>1, PolicyStep
<1> QED
  BY <1>2, PolicyFirst, PTL DEF ConfigSpec

\* A password entered for one database is never stored with another, however creations,
\* copies, bulk assignments and partial updates overlap (prepareDatabaseSourcePassword).
THEOREM SecretsCorrect == ConfigSpec => []SecretsBelong
BY PolicyAlways, PolicyMeans, PTL

\* No policy makes archives and verifies them, however updates of the one and of the other
\* overlap: each writes a whole row that was checked as a whole.
THEOREM ArchivesCorrect == ConfigSpec => []ArchivesAreNotVerified
BY PolicyAlways, PolicyMeans, PTL

(* The storages: while requests come one after the other, each that is at  *)
(* work knows that the storage it names is there, or that nobody uses it.  *)

WithRow == {"create", "save", "bulk"}

KnowsStorage(q) ==
  /\ q.op \in WithRow => q.row.storage \in storages
  /\ q.op = "delete storage" => ~HasPolicies(q.id)

Alone == \A q, r \in Request : requests[q] # NoRequest /\ requests[r] # NoRequest => q = r

StoragesInd ==
  ~overlapped =>
    /\ Alone
    /\ \A p \in Policy : policies[p] # NoRow => policies[p].storage \in storages
    /\ \A r \in Request : KnowsStorage(requests[r])

LEMMA NoRequestKnows == ASSUME NEW q, q = NoRequest PROVE KnowsStorage(q)
BY DEF KnowsStorage, WithRow, NoRequest

LEMMA StoragesFirst == PolicyInit => StoragesInd
<1> SUFFICES ASSUME PolicyInit PROVE StoragesInd
  OBVIOUS
<1>1. \A r \in Request : requests[r] = NoRequest
  BY DEF PolicyInit
<1>2. \A p \in Policy : policies[p] = NoRow
  BY DEF PolicyInit
<1> QED
  BY <1>1, <1>2, NoRequestKnows DEF StoragesInd, Alone

LEMMA BegunAlone ==
  ASSUME PolicyInd, StoragesInd, NEW r \in Request, NEW what, Begin(r, what),
         ~overlapped => KnowsStorage(what), UNCHANGED <<storages, policies, used>>
  PROVE  StoragesInd'
<1> SUFFICES ASSUME ~overlapped' PROVE StoragesInd'
  BY DEF StoragesInd
<1>1. ~overlapped /\ \A q \in Request : requests[q] = NoRequest
  BY DEF Begin
<1>2. /\ \A q \in Request \ {r} : requests'[q] = NoRequest
      /\ requests'[r] = what
  BY <1>1 DEF Begin, PolicyInd
<1>3. \A q : KnowsStorage(q) => KnowsStorage(q)'
  BY DEF KnowsStorage, HasPolicies
<1>4. \A q \in Request : KnowsStorage(requests'[q])
  BY <1>1, <1>2, NoRequestKnows
<1>5. \A q \in Request : KnowsStorage(requests[q])'
  BY <1>4 DEF KnowsStorage, HasPolicies
<1>6. Alone'
  BY <1>2 DEF Alone
<1> QED
  BY <1>1, <1>5, <1>6 DEF StoragesInd

LEMMA StoragesChecked ==
  ASSUME PolicyInd, StoragesInd, NEW r \in Request,
         \/ CheckCreate(r)
         \/ \E p \in Policy : CheckCopy(r, p) \/ CheckUpdate(r, p) \/ CheckBulk(r, p) \/ CheckDelete(r, p)
         \/ \E st \in Storage : CheckDeleteStorage(r, st)
  PROVE  StoragesInd'
<1>1. CASE CheckCreate(r)
  <2>1. \E what : Begin(r, what) /\ what.op = "create" /\ what.row.storage \in storages
    BY <1>1 DEF CheckCreate
  <2> QED
    BY <1>1, <2>1, BegunAlone DEF CheckCreate, KnowsStorage
<1>2. ASSUME NEW p \in Policy, CheckCopy(r, p) PROVE StoragesInd'
  <2>1. \E what : Begin(r, what) /\ what.op = "create" /\ what.row = policies[p] /\ policies[p] # NoRow
    BY <1>2 DEF CheckCopy
  <2> QED
    BY <1>2, <2>1, BegunAlone DEF CheckCopy, KnowsStorage, StoragesInd
<1>3. ASSUME NEW p \in Policy, CheckUpdate(r, p) PROVE StoragesInd'
  <2> DEFINE old == policies[p]
             What(row) == [op |-> "save", id |-> p, row |-> row]
  <2>1. old \in Good /\ old # NoRow /\ UNCHANGED <<storages, policies, used>>
    BY <1>3 DEF CheckUpdate, PolicyInd
  <2>2. ASSUME NEW row, row.storage = old.storage \/ row.storage \in storages, Begin(r, What(row))
        PROVE  StoragesInd'
    <3> DEFINE what == What(row)
    <3>1. what.op = "save" /\ what.row = row
      OBVIOUS
    <3>2. ~overlapped => row.storage \in storages
      BY <2>1, <2>2 DEF StoragesInd
    <3>3. Begin(r, what)
      BY <2>2
    <3> HIDE DEF what
    <3> QED
      BY <2>1, <3>1, <3>2, <3>3, BegunAlone DEF KnowsStorage
  <2>3. CASE \E st \in storages : Begin(r, What([old EXCEPT !.storage = st]))
    <3>1. PICK st \in storages : Begin(r, What([old EXCEPT !.storage = st]))
      BY <2>3
    <3>2. [old EXCEPT !.storage = st].storage = st
      BY <2>1 DEF Good, Row
    <3> HIDE DEF What
    <3> QED
      BY <2>2, <3>1, <3>2
  <2>4. CASE \E m \in Mode : Begin(r, What([old EXCEPT !.mode = m]))
    <3>1. PICK m \in Mode : Begin(r, What([old EXCEPT !.mode = m]))
      BY <2>4
    <3>2. [old EXCEPT !.mode = m].storage = old.storage
      BY <2>1 DEF Good, Row
    <3> HIDE DEF What
    <3> QED
      BY <2>2, <3>1, <3>2
  <2>5. CASE \E m \in Mode, v \in BOOLEAN : Begin(r, What([old EXCEPT !.mode = m, !.verify = v]))
    <3>1. PICK m \in Mode, v \in BOOLEAN : Begin(r, What([old EXCEPT !.mode = m, !.verify = v]))
      BY <2>5
    <3>2. [old EXCEPT !.mode = m, !.verify = v].storage = old.storage
      BY <2>1 DEF Good, Row
    <3> HIDE DEF What
    <3> QED
      BY <2>2, <3>1, <3>2
  <2>6. CASE \E s \in Source, sent \in {"new", "kept", "none"} :
               Begin(r, What([old EXCEPT !.source = s, !.secret = Secret(s, sent, old)]))
    <3>1. PICK s \in Source, sent \in {"new", "kept", "none"} :
                 Begin(r, What([old EXCEPT !.source = s, !.secret = Secret(s, sent, old)]))
      BY <2>6
    <3>2. [old EXCEPT !.source = s, !.secret = Secret(s, sent, old)].storage = old.storage
      BY <2>1 DEF Good, Row
    <3> HIDE DEF What
    <3> QED
      BY <2>2, <3>1, <3>2
  <2> QED
    BY <1>3, <2>3, <2>4, <2>5, <2>6 DEF CheckUpdate
<1>4. ASSUME NEW p \in Policy, CheckBulk(r, p) PROVE StoragesInd'
  <2>1. \E what : Begin(r, what) /\ what.op = "bulk" /\ what.row.storage \in storages
    BY <1>4 DEF CheckBulk
  <2> QED
    BY <1>4, <2>1, BegunAlone DEF CheckBulk, KnowsStorage
<1>5. ASSUME NEW p \in Policy, CheckDelete(r, p) PROVE StoragesInd'
  <2>1. \E what : Begin(r, what) /\ what.op = "delete"
    BY <1>5 DEF CheckDelete
  <2> QED
    BY <1>5, <2>1, BegunAlone DEF CheckDelete, KnowsStorage, WithRow
<1>6. ASSUME NEW st \in Storage, CheckDeleteStorage(r, st) PROVE StoragesInd'
  <2>1. \E what : Begin(r, what) /\ what.op = "delete storage" /\ what.id = st /\ ~HasPolicies(st)
    BY <1>6 DEF CheckDeleteStorage
  <2> QED
    BY <1>6, <2>1, BegunAlone DEF CheckDeleteStorage, KnowsStorage, WithRow
<1> QED
  BY <1>1, <1>2, <1>3, <1>4, <1>5, <1>6

\* A request that writes is the only one at work.
LEMMA WritesAlone ==
  ASSUME PolicyInd, StoragesInd, NEW r \in Request, requests[r] # NoRequest, NEW left,
         requests' = [requests EXCEPT ![r] = left], overlapped' = overlapped,
         left.op # "delete storage",
         ~overlapped => (left.op \in WithRow => left.row.storage \in storages'),
         ~overlapped => \A p \in Policy : policies'[p] # NoRow => policies'[p].storage \in storages'
  PROVE  StoragesInd'
<1> SUFFICES ASSUME ~overlapped PROVE StoragesInd'
  BY DEF StoragesInd
<1>1. /\ \A q \in Request \ {r} : requests'[q] = NoRequest
      /\ requests'[r] = left
  BY DEF PolicyInd, StoragesInd, Alone
<1>2. \A q \in Request : KnowsStorage(requests[q])'
  <2> SUFFICES ASSUME NEW q \in Request PROVE KnowsStorage(requests[q])'
    OBVIOUS
  <2>1. NoRequest.op # "delete storage" /\ NoRequest.op \notin WithRow
    BY DEF NoRequest, WithRow
  <2>2. requests'[q] = NoRequest \/ requests'[q] = left
    BY <1>1
  <2>3. /\ requests'[q].op # "delete storage"
        /\ requests'[q].op \in WithRow => requests'[q].row.storage \in storages'
    BY <2>1, <2>2
  <2> QED
    BY <2>3 DEF KnowsStorage
<1>3. Alone'
  BY <1>1 DEF Alone
<1> QED
  BY <1>2, <1>3 DEF StoragesInd

LEMMA StoragesWritten ==
  ASSUME PolicyInd, StoragesInd, NEW r \in Request,
         \/ WriteCreate(r) \/ WriteUpdate(r) \/ EndBulk(r) \/ WriteDelete(r) \/ WriteDeleteStorage(r)
         \/ \E a \in Agent : WriteBulk(r, a)
  PROVE  StoragesInd'
<1> DEFINE Kept == ~overlapped => \A p \in Policy : policies'[p] # NoRow => policies'[p].storage \in storages'
<1>1. requests[r] # NoRequest /\ overlapped' = overlapped
  <2>1. requests[r].op # "none"
    BY DEF WriteCreate, WriteUpdate, EndBulk, WriteDelete, WriteDeleteStorage, WriteBulk
  <2>2. overlapped' = overlapped
    BY DEF WriteCreate, WriteUpdate, EndBulk, WriteDelete, WriteDeleteStorage, WriteBulk
  <2> QED
    BY <2>1, <2>2 DEF NoRequest
<1>2. NoRequest.op # "delete storage" /\ NoRequest.op \notin WithRow
  BY DEF WithRow, NoRequest
<1>3. CASE WriteCreate(r) \/ WriteUpdate(r)
  <2>1. requests[r].op \in WithRow /\ requests' = [requests EXCEPT ![r] = NoRequest] /\ storages' = storages
    BY <1>3 DEF WriteCreate, WriteUpdate, End, WithRow
  <2>2. PICK p \in Policy : policies' = [policies EXCEPT ![p] = requests[r].row]
    BY <1>3, AskedRow DEF WriteCreate, WriteUpdate, Insert, Written
  <2>3. Kept
    BY <2>1, <2>2 DEF StoragesInd, KnowsStorage, PolicyInd
  <2> QED
    BY <1>1, <1>2, <2>1, <2>3, WritesAlone
<1>4. CASE EndBulk(r) \/ WriteDelete(r)
  <2>1. requests' = [requests EXCEPT ![r] = NoRequest] /\ storages' = storages
    BY <1>4 DEF EndBulk, WriteDelete, End
  <2>2. \A p \in Policy : policies'[p] \in {NoRow, policies[p]}
    BY <1>4 DEF EndBulk, WriteDelete, PolicyInd
  <2>3. Kept
    BY <2>1, <2>2 DEF StoragesInd
  <2> QED
    BY <1>1, <1>2, <2>1, <2>3, WritesAlone
<1>5. CASE WriteDeleteStorage(r)
  <2>1. requests' = [requests EXCEPT ![r] = NoRequest] /\ storages' = storages \ {requests[r].id}
        /\ policies' = policies /\ requests[r].op = "delete storage"
    BY <1>5 DEF WriteDeleteStorage, End
  <2>2. Kept
    BY <2>1 DEF StoragesInd, KnowsStorage, HasPolicies
  <2> QED
    BY <1>1, <1>2, <2>1, <2>2, WritesAlone
<1>6. CASE \E a \in Agent : WriteBulk(r, a)
  <2>1. PICK a \in Agent : WriteBulk(r, a)
    BY <1>6
  <2> DEFINE left == [requests[r] EXCEPT !.todo = @ \ {a}]
             row == [requests[r].row EXCEPT !.agent = a]
  <2>2. requests[r] \in [op : {"bulk"}, row : Good, todo : SUBSET Agent]
    BY <2>1, AskedRow DEF WriteBulk
  <2>3. left.op = "bulk" /\ left.row = requests[r].row /\ row.storage = requests[r].row.storage
    BY <2>2 DEF Good, Row
  <2>4. requests' = [requests EXCEPT ![r] = left] /\ storages' = storages
    BY <2>1 DEF WriteBulk
  <2>5. policies' = policies \/ \E p \in Policy : policies' = [policies EXCEPT ![p] = row]
    BY <2>1 DEF WriteBulk, Insert, Written
  <2>6. requests[r].op = "bulk"
    BY <2>1 DEF WriteBulk
  <2> HIDE DEF left, row
  <2>7. ~overlapped => requests[r].row.storage \in storages
    BY <2>6 DEF StoragesInd, KnowsStorage, WithRow
  <2>8. left.op # "delete storage" /\ (~overlapped => left.row.storage \in storages')
    BY <2>3, <2>4, <2>7
  <2>9. Kept
    BY <2>3, <2>4, <2>5, <2>7 DEF StoragesInd, PolicyInd
  <2> QED
    BY <1>1, <2>4, <2>8, <2>9, WritesAlone
<1> QED
  BY <1>3, <1>4, <1>5, <1>6

LEMMA StoragesStep ==
  ASSUME PolicyInd, StoragesInd, PolicyNext \/ UNCHANGED policyVars PROVE StoragesInd'
<1>1. CASE UNCHANGED policyVars
  BY <1>1 DEF policyVars, StoragesInd, Alone, KnowsStorage, HasPolicies
<1>2. CASE PolicyNext
  BY <1>2, StoragesChecked, StoragesWritten DEF PolicyNext
<1> QED
  BY <1>1, <1>2

\* Requests made one after the other leave no policy without its storage: DeleteStorage
\* counts the policies, and every other check has found the storage (storage.go, policy.go).
THEOREM StoragesCorrect == ConfigSpec => []StorageIsThere
<1>1. ConfigNext \/ UNCHANGED <<agentVars, policyVars>> => PolicyNext \/ UNCHANGED policyVars
  BY DEF ConfigNext
<1>2. PolicyInd /\ StoragesInd /\ [ConfigNext]_<<agentVars, policyVars>> => StoragesInd'
  BY <1>1, StoragesStep
<1>3. StoragesInd => StorageIsThere
  BY DEF StoragesInd, StorageIsThere, Rows
<1> QED
  BY <1>2, <1>3, StoragesFirst, PolicyAlways, PTL DEF ConfigSpec

(* The capabilities: the source of what is stored, or about to be, is one  *)
(* that its agent can run, as long as agents keep what they can do.        *)

Runnable(row) == agents[row.agent].row => Capable(row.agent, row.source)
SupportInd == \A row \in Rows \cup Writing : Runnable(row)

\* A row that is stored is the row of a policy, a request's that is about to write is one.
LEMMA RowsAre ==
  ASSUME SupportInd
  PROVE  /\ \A p \in Policy : policies[p] # NoRow => Runnable(policies[p])
         /\ \A r \in Request : requests[r].op \in {"create", "save"} => Runnable(requests[r].row)
BY DEF SupportInd, Rows, Writing

LEMMA RowsMake ==
  ASSUME \A p \in Policy : policies'[p] # NoRow => Runnable(policies[p])',
         \A r \in Request : requests'[r].op \in {"create", "save"} => Runnable(requests[r].row)'
  PROVE  SupportInd'
BY DEF SupportInd, Rows, Writing

LEMMA SupportFirst == PolicyInit => SupportInd
BY DEF PolicyInit, SupportInd, Rows, Writing, NoRequest

\* A request that begins has checked its row, or has read it from a policy.
LEMMA SupportBegun ==
  ASSUME PolicyInd, SupportInd, NEW r \in Request, NEW what, Begin(r, what),
         what.op \in {"create", "save"} => Runnable(what.row),
         UNCHANGED <<storages, policies, used>>, UNCHANGED agentVars
  PROVE  SupportInd'
<1>1. requests' = [requests EXCEPT ![r] = what] /\ agents' = agents /\ policies' = policies
  BY DEF Begin, agentVars
<1>2. \A p \in Policy : policies'[p] # NoRow => Runnable(policies[p])'
  BY <1>1, RowsAre DEF Runnable, Capable
<1>3. \A q \in Request : requests'[q].op \in {"create", "save"} => Runnable(requests[q].row)'
  <2> TAKE q \in Request
  <2>1. requests'[q] = IF q = r THEN what ELSE requests[q]
    BY <1>1 DEF PolicyInd
  <2> QED
    BY <1>1, <2>1, RowsAre DEF Runnable, Capable
<1> QED
  BY <1>2, <1>3, RowsMake

LEMMA SupportChecked ==
  ASSUME PolicyInd, SupportInd, NEW r \in Request, UNCHANGED agentVars,
         \/ CheckCreate(r)
         \/ \E p \in Policy : CheckCopy(r, p) \/ CheckUpdate(r, p) \/ CheckBulk(r, p) \/ CheckDelete(r, p)
         \/ \E st \in Storage : CheckDeleteStorage(r, st)
  PROVE  SupportInd'
<1>1. CASE CheckCreate(r)
  <2>1. PICK a \in Agent, st \in storages, m \in Mode, v \in BOOLEAN, s \in Source, sent \in {"new", "none"} :
          /\ Supported(a, s)
          /\ Begin(r, [op |-> "create", row |-> [agent |-> a, storage |-> st, mode |-> m, verify |-> v,
                                                 source |-> s, secret |-> Secret(s, sent, NoRow)]])
    BY <1>1 DEF CheckCreate
  <2> DEFINE row == [agent |-> a, storage |-> st, mode |-> m, verify |-> v,
                     source |-> s, secret |-> Secret(s, sent, NoRow)]
             what == [op |-> "create", row |-> row]
  <2>2. row.agent = a /\ row.source = s /\ what.row = row /\ Begin(r, what)
    BY <2>1
  <2> HIDE DEF row, what
  <2>3. Runnable(what.row)
    BY <2>1, <2>2 DEF Runnable, Supported, Capable
  <2> QED
    BY <1>1, <2>2, <2>3, SupportBegun DEF CheckCreate
<1>2. ASSUME NEW p \in Policy, CheckCopy(r, p) PROVE SupportInd'
  <2>1. \E what : Begin(r, what) /\ what.op = "create" /\ what.row = policies[p] /\ policies[p] # NoRow
    BY <1>2 DEF CheckCopy
  <2> QED
    BY <1>2, <2>1, SupportBegun, RowsAre DEF CheckCopy
<1>3. ASSUME NEW p \in Policy, CheckUpdate(r, p) PROVE SupportInd'
  <2> DEFINE old == policies[p]
             What(row) == [op |-> "save", id |-> p, row |-> row]
  <2>1. old \in Good /\ Runnable(old) /\ UNCHANGED <<storages, policies, used>>
    BY <1>3, RowsAre DEF CheckUpdate, PolicyInd
  <2>2. ASSUME NEW row, Runnable(row), Begin(r, What(row)) PROVE SupportInd'
    <3> DEFINE what == What(row)
    <3>1. what.row = row /\ Begin(r, what)
      BY <2>2
    <3> HIDE DEF what
    <3> QED
      BY <2>1, <2>2, <3>1, SupportBegun
  <2>3. \A row : row.agent = old.agent /\ row.source = old.source => Runnable(row)
    BY <2>1 DEF Runnable
  <2>4. CASE \E st \in storages : Begin(r, What([old EXCEPT !.storage = st]))
    <3>1. PICK st \in storages : Begin(r, What([old EXCEPT !.storage = st]))
      BY <2>4
    <3>2. /\ [old EXCEPT !.storage = st].agent = old.agent
          /\ [old EXCEPT !.storage = st].source = old.source
      BY <2>1 DEF Good, Row
    <3> HIDE DEF What, old
    <3> QED
      BY <2>2, <2>3, <3>1, <3>2
  <2>5. CASE \E m \in Mode : Begin(r, What([old EXCEPT !.mode = m]))
    <3>1. PICK m \in Mode : Begin(r, What([old EXCEPT !.mode = m]))
      BY <2>5
    <3>2. /\ [old EXCEPT !.mode = m].agent = old.agent
          /\ [old EXCEPT !.mode = m].source = old.source
      BY <2>1 DEF Good, Row
    <3> HIDE DEF What, old
    <3> QED
      BY <2>2, <2>3, <3>1, <3>2
  <2>6. CASE \E m \in Mode, v \in BOOLEAN : Begin(r, What([old EXCEPT !.mode = m, !.verify = v]))
    <3>1. PICK m \in Mode, v \in BOOLEAN : Begin(r, What([old EXCEPT !.mode = m, !.verify = v]))
      BY <2>6
    <3>2. /\ [old EXCEPT !.mode = m, !.verify = v].agent = old.agent
          /\ [old EXCEPT !.mode = m, !.verify = v].source = old.source
      BY <2>1 DEF Good, Row
    <3> HIDE DEF What, old
    <3> QED
      BY <2>2, <2>3, <3>1, <3>2
  <2>7. CASE \E s \in Source, sent \in {"new", "kept", "none"} :
               /\ Supported(old.agent, s)
               /\ Begin(r, What([old EXCEPT !.source = s, !.secret = Secret(s, sent, old)]))
    <3>1. PICK s \in Source, sent \in {"new", "kept", "none"} :
                 /\ Supported(old.agent, s)
                 /\ Begin(r, What([old EXCEPT !.source = s, !.secret = Secret(s, sent, old)]))
      BY <2>7
    <3> DEFINE new == [old EXCEPT !.source = s, !.secret = Secret(s, sent, old)]
    <3>2. new.agent = old.agent /\ new.source = s
      BY <2>1 DEF Good, Row
    <3>3. Begin(r, What(new)) /\ Supported(old.agent, s)
      BY <3>1
    <3> HIDE DEF What, old, new
    <3>4. Runnable(new)
      BY <3>2, <3>3 DEF Runnable, Supported, Capable
    <3> QED
      BY <2>2, <3>3, <3>4
  <2> QED
    BY <1>3, <2>4, <2>5, <2>6, <2>7 DEF CheckUpdate
<1>4. ASSUME NEW p \in Policy, CheckBulk(r, p) PROVE SupportInd'
  <2>1. PICK todo : Begin(r, [op |-> "bulk", row |-> policies[p], todo |-> todo])
    BY <1>4 DEF CheckBulk
  <2> DEFINE what == [op |-> "bulk", row |-> policies[p], todo |-> todo]
  <2>2. Begin(r, what) /\ what.op = "bulk"
    BY <2>1
  <2> HIDE DEF what
  <2> QED
    BY <1>4, <2>2, SupportBegun DEF CheckBulk
<1>5. ASSUME NEW p \in Policy, CheckDelete(r, p) PROVE SupportInd'
  <2> DEFINE what == [op |-> "delete", id |-> p]
  <2>1. Begin(r, what) /\ what.op = "delete"
    BY <1>5 DEF CheckDelete
  <2> HIDE DEF what
  <2> QED
    BY <1>5, <2>1, SupportBegun DEF CheckDelete
<1>6. ASSUME NEW st \in Storage, CheckDeleteStorage(r, st) PROVE SupportInd'
  <2> DEFINE what == [op |-> "delete storage", id |-> st]
  <2>1. Begin(r, what) /\ what.op = "delete storage"
    BY <1>6 DEF CheckDeleteStorage
  <2> HIDE DEF what
  <2> QED
    BY <1>6, <2>1, SupportBegun DEF CheckDeleteStorage
<1> QED
  BY <1>1, <1>2, <1>3, <1>4, <1>5, <1>6

LEMMA SupportWritten ==
  ASSUME PolicyInd, SupportInd, NEW r \in Request, UNCHANGED agentVars,
         \/ WriteCreate(r) \/ WriteUpdate(r) \/ EndBulk(r) \/ WriteDelete(r) \/ WriteDeleteStorage(r)
         \/ \E a \in Agent : WriteBulk(r, a)
  PROVE  SupportInd'
<1>1. agents' = agents
  BY DEF agentVars
<1>2. \A q \in Request : requests'[q].op \in {"create", "save"} => requests'[q] = requests[q]
  <2>1. NoRequest.op = "none"
    BY DEF NoRequest
  <2>2. CASE requests' = [requests EXCEPT ![r] = NoRequest]
    BY <2>1, <2>2 DEF PolicyInd
  <2>3. CASE \E a \in Agent : WriteBulk(r, a)
    <3>1. PICK a \in Agent : WriteBulk(r, a)
      BY <2>3
    <3> DEFINE left == [requests[r] EXCEPT !.todo = @ \ {a}]
    <3>2. requests' = [requests EXCEPT ![r] = left]
      BY <3>1 DEF WriteBulk
    <3>3. left.op = "bulk"
      BY <3>1, AskedRow DEF WriteBulk
    <3> HIDE DEF left
    <3> QED
      BY <3>2, <3>3 DEF PolicyInd
  <2> QED
    BY <2>2, <2>3 DEF WriteCreate, WriteUpdate, EndBulk, WriteDelete, WriteDeleteStorage, End
<1>3. \A q \in Request : requests'[q].op \in {"create", "save"} => Runnable(requests[q].row)'
  BY <1>1, <1>2, RowsAre DEF Runnable, Capable
<1>4. \A p \in Policy : policies'[p] # NoRow => policies'[p] = policies[p] \/ Runnable(policies'[p])
  <2>1. CASE WriteCreate(r) \/ WriteUpdate(r)
    <3>1. PICK p \in Policy : policies' = [policies EXCEPT ![p] = requests[r].row]
      BY <2>1, AskedRow DEF WriteCreate, WriteUpdate, Insert, Written
    <3>2. Runnable(requests[r].row)
      BY <2>1, RowsAre DEF WriteCreate, WriteUpdate
    <3> QED
      BY <3>1, <3>2 DEF PolicyInd
  <2>2. CASE EndBulk(r) \/ WriteDelete(r) \/ WriteDeleteStorage(r)
    BY <2>2 DEF EndBulk, WriteDelete, WriteDeleteStorage, PolicyInd
  <2>3. CASE \E a \in Agent : WriteBulk(r, a)
    <3>1. PICK a \in Agent : WriteBulk(r, a)
      BY <2>3
    <3> DEFINE row == [requests[r].row EXCEPT !.agent = a]
    <3>2. row.agent = a /\ row.source = requests[r].row.source
      BY <3>1, AskedRow DEF WriteBulk, Good, Row
    <3>3. \/ policies' = policies
          \/ /\ Supported(a, requests[r].row.source)
             /\ \E p \in Policy : policies' = [policies EXCEPT ![p] = row]
      BY <3>1 DEF WriteBulk, Insert, Written
    <3> HIDE DEF row
    <3>4. Supported(a, requests[r].row.source) => Runnable(row)
      BY <3>2 DEF Runnable, Supported, Capable
    <3> QED
      BY <3>3, <3>4 DEF PolicyInd
  <2> QED
    BY <2>1, <2>2, <2>3
<1>5. \A p \in Policy : policies'[p] # NoRow => Runnable(policies[p])'
  BY <1>1, <1>4, RowsAre DEF Runnable, Capable
<1> QED
  BY <1>3, <1>5, RowsMake

\* What agents do disturbs no row while they keep what they can do.
LEMMA SupportLasts ==
  ASSUME PolicyInd, SupportInd, Lasting, UNCHANGED policyVars PROVE SupportInd'
<1>1. policies' = policies /\ requests' = requests
  BY DEF policyVars
<1>2. Rows' = Rows /\ Writing' = Writing
  BY <1>1 DEF Rows, Writing
<1>3. \A row \in Rows \cup Writing : row.agent \in Agent
  BY AskedRow, GoodIsRow DEF Rows, Writing, PolicyInd
<1>4. \A row \in Rows \cup Writing : agents'[row.agent].row => agents[row.agent].row
                                                 /\ agents[row.agent].caps \subseteq agents'[row.agent].caps
  BY <1>3 DEF Lasting
<1>5. \A row \in Rows \cup Writing : Runnable(row)'
  BY <1>4 DEF SupportInd, Runnable, Capable
<1> QED
  BY <1>2, <1>5 DEF SupportInd

LEMMA SupportStep ==
  ASSUME PolicyInd, SupportInd, ConfigNext \/ UNCHANGED <<agentVars, policyVars>>,
         Lasting \/ UNCHANGED <<agentVars, policyVars>>
  PROVE  SupportInd'
<1>1. CASE UNCHANGED <<agentVars, policyVars>>
  BY <1>1 DEF agentVars, policyVars, SupportInd, Rows, Writing, Runnable, Capable
<1>2. CASE PolicyNext /\ UNCHANGED agentVars
  BY <1>2, SupportChecked, SupportWritten DEF PolicyNext
<1>3. CASE Lasting /\ EnrollmentNext /\ UNCHANGED policyVars
  BY <1>3, SupportLasts
<1> QED
  BY <1>1, <1>2, <1>3 DEF ConfigNext

(* The types of the two modules, with the bounds of the counters.          *)

Bounded(row) == row.enroll <= MaxTokens /\ row.token <= MaxTokens

BoundsInd ==
  /\ \A a \in Agent : Bounded(agents[a])
  /\ \A e \in Editor : Bounded(tagging[e].read)
  /\ exchanged \subseteq Token \X Token /\ dead \subseteq Token

UsedInd == \A p \in Policy : policies[p] # NoRow => p \in used

LEMMA BoundsFirst == EnrollmentInit => BoundsInd
<1> SUFFICES ASSUME EnrollmentInit PROVE BoundsInd
  OBVIOUS
<1>1. \A a \in Agent : agents[a] = Absent
  BY DEF EnrollmentInit
<1>2. \A e \in Editor : tagging[e].read = Absent
  BY DEF EnrollmentInit, Idle
<1>3. Bounded(Absent)
  BY TokenAssumption, AbsentIsRow DEF Bounded, NoToken
<1> QED
  BY <1>1, <1>2, <1>3 DEF BoundsInd, EnrollmentInit

\* A row that changes by RowChanges gets no token above the last one.
LEMMA BoundsOneRow ==
  ASSUME TokensInd, BoundsInd, NEW a \in Agent, NEW new \in AgentRow, minted' <= MaxTokens,
         agents' = [agents EXCEPT ![a] = new],
         new.enroll \in {NoToken, agents[a].enroll, minted'}, new.token \in {NoToken, agents[a].token, minted'},
         exchanged' \subseteq Token \X Token, dead' \subseteq dead \cup Tokens(agents[a]),
         UNCHANGED tagging
  PROVE  BoundsInd'
<1>1. MaxTokens \in Nat /\ agents \in [Agent -> AgentRow]
  BY TokenAssumption DEF TokensInd, TokenTypes
<1>2. agents[a].enroll \in Nat /\ agents[a].token \in Nat /\ Bounded(agents[a])
  BY <1>1, RowOf DEF BoundsInd
<1>3. Bounded(new)
  BY <1>1, <1>2 DEF Bounded, NoToken
<1>4. \A b \in Agent : Bounded(agents'[b])
  BY <1>1, <1>3 DEF BoundsInd
<1>5. dead' \subseteq Token
  BY <1>1, <1>2 DEF BoundsInd, Tokens, Token, NoToken, Bounded
<1> QED
  BY <1>4, <1>5 DEF BoundsInd, Bounded

LEMMA BoundsStep ==
  ASSUME TokensInd, TokensInd', BoundsInd, EnrollmentNext \/ UNCHANGED agentVars
  PROVE  BoundsInd'
<1>1. agents \in [Agent -> AgentRow] /\ agents' \in [Agent -> AgentRow] /\ minted' \in Nat /\ minted' <= MaxTokens
  BY DEF TokensInd, TokenTypes
<1>2. CASE UNCHANGED agentVars
  BY <1>2 DEF agentVars, BoundsInd, Bounded
<1>3. ASSUME NEW a \in Agent, CreateAgent(a) PROVE BoundsInd'
  <2> DEFINE new == [Absent EXCEPT !.row = TRUE, !.enroll = minted']
  <2>1. agents' = [agents EXCEPT ![a] = new]
    BY <1>3 DEF CreateAgent, Absent
  <2>2. new \in AgentRow /\ new.enroll = minted' /\ new.token = NoToken
    BY <1>1 DEF Absent, AgentRow, NoToken
  <2> HIDE DEF new
  <2> QED
    BY <1>1, <1>3, <2>1, <2>2, BoundsOneRow DEF CreateAgent, BoundsInd
<1>4. ASSUME NEW a \in Agent, NEW t \in Token, Enroll(a, t) PROVE BoundsInd'
  <2>1. PICK row \in Redeem(agents[a], t, minted'), caps \in SUBSET Capability :
          agents' = [agents EXCEPT ![a] = [row EXCEPT !.caps = caps]]
    BY <1>4 DEF Enroll
  <2> DEFINE new == [row EXCEPT !.caps = caps]
  <2>2. row = [agents[a] EXCEPT !.token = minted', !.enroll = NoToken]
    BY <2>1 DEF Redeem
  <2>3. new \in AgentRow /\ new.enroll = NoToken /\ new.token = minted'
    BY <1>1, <2>2 DEF AgentRow, NoToken
  <2>4. agents' = [agents EXCEPT ![a] = new]
    BY <2>1
  <2>5. minted' \in Token
    BY <1>1, <1>4, Minting, TokenAssumption DEF Enroll, Token, TokensInd, TokenTypes
  <2>6. exchanged' \subseteq Token \X Token
    BY <1>4, <2>5 DEF Enroll, BoundsInd
  <2> HIDE DEF new
  <2> QED
    BY <1>1, <1>4, <2>3, <2>4, <2>6, BoundsOneRow DEF Enroll
<1>5. ASSUME NEW a \in Agent, RegenerateToken(a) PROVE BoundsInd'
  <2> DEFINE new == [agents[a] EXCEPT !.enroll = minted', !.token = NoToken]
  <2>1. agents' = [agents EXCEPT ![a] = new]
    BY <1>5 DEF RegenerateToken, Regenerated
  <2>2. new \in AgentRow /\ new.enroll = minted' /\ new.token = NoToken
    BY <1>1 DEF AgentRow, NoToken
  <2> HIDE DEF new
  <2> QED
    BY <1>1, <1>5, <2>1, <2>2, BoundsOneRow DEF RegenerateToken, BoundsInd
<1>6. ASSUME NEW a \in Agent, DeleteAgent(a) PROVE BoundsInd'
  BY <1>1, <1>6, AbsentIsRow, BoundsOneRow DEF DeleteAgent, BoundsInd
<1>7. ASSUME NEW a \in Agent, NEW caps \in SUBSET Capability, Heartbeat(a, caps) PROVE BoundsInd'
  <2> DEFINE new == [agents[a] EXCEPT !.caps = caps]
  <2>1. agents' = [agents EXCEPT ![a] = new]
    BY <1>7 DEF Heartbeat
  <2>2. new \in AgentRow /\ new.enroll = agents[a].enroll /\ new.token = agents[a].token
    BY <1>1 DEF AgentRow
  <2> HIDE DEF new
  <2> QED
    BY <1>1, <1>7, <2>1, <2>2, BoundsOneRow DEF Heartbeat, BoundsInd
<1>8. ASSUME NEW e \in Editor, (\E a \in Agent : ReadTags(e, a)) \/ SaveTags(e) \/ RejectTags(e) PROVE BoundsInd'
  <2>1. UNCHANGED <<exchanged, dead>>
    BY <1>8 DEF ReadTags, SaveTags, RejectTags
  <2>2. tagging \in [Editor -> {Idle} \cup [agent : Agent, read : AgentRow]]
    BY DEF TokensInd, TokenTypes
  <2>3. Bounded(Idle.read)
    BY TokenAssumption, AbsentIsRow DEF Bounded, Idle, NoToken
  <2>4. CASE \E a \in Agent : ReadTags(e, a)
    <3>1. PICK a \in Agent : ReadTags(e, a)
      BY <2>4
    <3> DEFINE new == [agent |-> a, read |-> agents[a]]
    <3>2. tagging' = [tagging EXCEPT ![e] = new] /\ agents' = agents /\ new.read = agents[a]
      BY <3>1 DEF ReadTags
    <3> HIDE DEF new
    <3> QED
      BY <2>1, <2>2, <3>2 DEF BoundsInd, Bounded
  <2>5. CASE SaveTags(e)
    <3> DEFINE b == tagging[e].agent
               read == tagging[e].read
    <3>1. tagging' = [tagging EXCEPT ![e] = Idle] /\ agents' = [agents EXCEPT ![b] = read]
      BY <2>5 DEF SaveTags
    <3>2. Bounded(read)
      BY DEF BoundsInd
    <3> HIDE DEF b, read
    <3>3. \A c \in Agent : Bounded(agents'[c])
      BY <1>1, <3>1, <3>2 DEF BoundsInd
    <3>4. \A d \in Editor : Bounded(tagging'[d].read)
      BY <2>2, <2>3, <3>1 DEF BoundsInd
    <3> QED
      BY <2>1, <3>3, <3>4 DEF BoundsInd, Bounded
  <2>6. CASE RejectTags(e)
    <3>1. tagging' = [tagging EXCEPT ![e] = Idle] /\ agents' = agents
      BY <2>6 DEF RejectTags
    <3>2. \A d \in Editor : Bounded(tagging'[d].read)
      BY <2>2, <2>3, <3>1 DEF BoundsInd
    <3> QED
      BY <2>1, <3>1, <3>2 DEF BoundsInd, Bounded
  <2> QED
    BY <1>8, <2>4, <2>5, <2>6
<1> QED
  BY <1>2, <1>3, <1>4, <1>5, <1>6, <1>7, <1>8 DEF EnrollmentNext

LEMMA UsedStep ==
  ASSUME PolicyInd, UsedInd, PolicyNext \/ UNCHANGED policyVars PROVE UsedInd'
<1>1. CASE UNCHANGED <<policies, used>>
  BY <1>1 DEF UsedInd
<1>2. ASSUME NEW p \in Policy, NEW row, Written(p, row) PROVE UsedInd'
  BY <1>2 DEF Written, UsedInd, PolicyInd
<1>3. ASSUME NEW r \in Request, WriteCreate(r) \/ WriteUpdate(r) PROVE UsedInd'
  <2>1. \E p \in Policy : \E row : Written(p, row)
    BY <1>3, AskedRow DEF WriteCreate, WriteUpdate, Insert
  <2> QED
    BY <1>2, <2>1
<1>4. ASSUME NEW r \in Request, NEW a \in Agent, WriteBulk(r, a) PROVE UsedInd'
  <2>1. UNCHANGED <<policies, used>> \/ \E p \in Policy : \E row : Written(p, row)
    BY <1>4 DEF WriteBulk, Insert
  <2> QED
    BY <1>1, <1>2, <2>1
<1>5. ASSUME NEW r \in Request, WriteDelete(r) PROVE UsedInd'
  BY <1>5 DEF WriteDelete, UsedInd, PolicyInd
<1>6. ASSUME NEW r \in Request PROVE CheckCreate(r) \/ EndBulk(r) \/ WriteDeleteStorage(r) => UNCHANGED <<policies, used>>
  BY DEF CheckCreate, EndBulk, WriteDeleteStorage
<1>7. ASSUME NEW r \in Request, NEW p \in Policy, CheckCopy(r, p) \/ CheckUpdate(r, p) \/ CheckBulk(r, p) \/ CheckDelete(r, p)
      PROVE  UNCHANGED <<policies, used>>
  BY <1>7 DEF CheckCopy, CheckUpdate, CheckBulk, CheckDelete
<1>8. ASSUME NEW r \in Request, NEW st \in Storage, CheckDeleteStorage(r, st) PROVE UNCHANGED <<policies, used>>
  BY <1>8 DEF CheckDeleteStorage
<1>9. CASE UNCHANGED policyVars
  BY <1>1, <1>9 DEF policyVars
<1>10. CASE PolicyNext
  BY <1>1, <1>3, <1>4, <1>5, <1>6, <1>7, <1>8, <1>10 DEF PolicyNext
<1> QED
  BY <1>9, <1>10

LEMMA TypesMean == TokensInd /\ BoundsInd /\ PolicyInd /\ UsedInd => TypeOK
<1> SUFFICES ASSUME TokensInd, BoundsInd, PolicyInd, UsedInd PROVE TypeOK
  OBVIOUS
<1> DEFINE Small == [row : BOOLEAN, enroll : 0..MaxTokens, token : 0..MaxTokens, caps : SUBSET Capability]
<1>1. agents \in [Agent -> AgentRow]
  BY DEF TokensInd, TokenTypes
<1>2. ASSUME NEW a \in Agent PROVE agents[a] \in Small
  <2>1. agents[a] \in AgentRow /\ Bounded(agents[a])
    BY <1>1 DEF BoundsInd
  <2>2. agents[a].enroll \in 0..MaxTokens /\ agents[a].token \in 0..MaxTokens
    BY <1>1, <2>1, RowOf, TokenAssumption DEF Bounded
  <2> QED
    BY <2>1, <2>2 DEF AgentRow
<1>3. agents \in [Agent -> Small]
  BY <1>1, <1>2
<1>4. \A p \in Policy : policies[p] = NoRow \/ (policies[p] \in Row /\ p \in used)
  BY DEF PolicyInd, UsedInd, Good
<1>5. \A r \in Request : requests[r].op \in {"create", "save", "bulk"} => requests[r].row \in Row
  BY AskedRow DEF Good
<1> QED
  BY <1>3, <1>4, <1>5 DEF TypeOK, BoundsInd

LEMMA TypesAlways == ConfigSpec => []TypeOK
<1>1. ConfigNext \/ UNCHANGED <<agentVars, policyVars>> => EnrollmentNext \/ UNCHANGED agentVars
  BY DEF ConfigNext
<1>2. ConfigNext \/ UNCHANGED <<agentVars, policyVars>> => PolicyNext \/ UNCHANGED policyVars
  BY DEF ConfigNext
<1>3. TokensInd /\ [ConfigNext]_<<agentVars, policyVars>> => TokensInd'
  BY <1>1, TokensStep
<1>4. TokensInd /\ TokensInd' /\ BoundsInd /\ [ConfigNext]_<<agentVars, policyVars>> => BoundsInd'
  BY <1>1, BoundsStep
<1>5. PolicyInd /\ UsedInd /\ [ConfigNext]_<<agentVars, policyVars>> => UsedInd'
  BY <1>2, UsedStep
<1>6. PolicyInit => UsedInd
  BY DEF PolicyInit, UsedInd
<1> QED
  BY <1>3, <1>4, <1>5, <1>6, TokensFirst, BoundsFirst, PolicyAlways, TypesMean, PTL DEF ConfigSpec

\* A stored policy is one that its checks allow, however requests, heartbeats, enrollments
\* and deletions overlap, as long as agents keep their capabilities (Lasting): no update,
\* copy or bulk assignment puts a source on an agent that cannot run it (policy.go).
THEOREM StoredCorrect ==
  ConfigSpec /\ [][Lasting]_<<agentVars, policyVars>> => []StoredIsAllowed
<1>1. PolicyInd /\ SupportInd /\ [ConfigNext]_<<agentVars, policyVars>>
        /\ [Lasting]_<<agentVars, policyVars>> => SupportInd'
  BY SupportStep
<1>2. SupportInd => SourcesAreSupported
  BY DEF SupportInd, SourcesAreSupported, Runnable
<1>3. TypeOK /\ ArchivesAreNotVerified /\ SourcesAreSupported /\ StorageIsThere => StoredIsAllowed
  BY DEF StoredIsAllowed
<1> QED
  BY <1>1, <1>2, <1>3, SupportFirst, PolicyAlways, TypesAlways, ArchivesCorrect, StoragesCorrect, PTL DEF ConfigSpec
================================================================================
