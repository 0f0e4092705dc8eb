-------------------------- MODULE AgentRolloutProofs --------------------------
(***************************************************************************)
(* Theorems about rollouts, for every finite set of agents, every set of   *)
(* rollouts, every number of coordinators that run at once, every canary   *)
(* count and batch size, and all the faults.                               *)
(***************************************************************************)
EXTENDS AgentRollout, FiniteSetTheorems, TLAPS

-----------------------------------------------------------------------------
(* Type correctness.                                                       *)

LEMMA BatchIndexType == ASSUME NEW i \in Nat PROVE BatchIndex(i) \in Nat
<1> USE SizeAssumption
<1>1. CASE i < CanaryCount
  BY <1>1 DEF BatchIndex
<1>2. CASE ~(i < CanaryCount)
  <2>1. i - CanaryCount \in Nat
    BY <1>2
  <2>2. ASSUME NEW d \in Nat, NEW b \in Nat \ {0} PROVE d \div b \in Nat
    BY <2>2
  <2>3. (i - CanaryCount) \div BatchSize \in Nat
    BY <2>1, <2>2
  <2> QED
    BY <1>2, <2>3 DEF BatchIndex
<1> QED
  BY <1>1, <1>2

LEMMA PlanType ==
  ASSUME TypeOK, NEW r \in Rollout, NEW skipped \in SUBSET Agent, PlanItems(r, skipped)
  PROVE  /\ item' \in [Rollout -> [Agent -> ItemStatus]]
         /\ batch' \in [Rollout -> [Agent -> Nat \cup {-1}]]
<1> DEFINE runnable == Targets[r] \ (skipped \cup {a \in Targets[r] \ skipped : version[a] = "target"})
           before(a) == {b \in runnable : b < a}
<1>1. ASSUME NEW a \in Agent PROVE BatchIndex(Cardinality(before(a))) \in Nat
  <2>1. before(a) \subseteq Agent
    BY TargetsAssumption
  <2>2. IsFiniteSet(before(a))
    BY <2>1, AgentAssumption, FS_Subset
  <2>3. Cardinality(before(a)) \in Nat
    BY <2>2, FS_CardinalityType
  <2> QED
    BY <2>3, BatchIndexType
<1>2. batch' = [batch EXCEPT ![r] = [a \in Agent |->
                  IF a \in runnable THEN BatchIndex(Cardinality(before(a))) ELSE -1]]
  BY DEF PlanItems
<1>3. [a \in Agent |-> IF a \in runnable THEN BatchIndex(Cardinality(before(a))) ELSE -1]
        \in [Agent -> Nat \cup {-1}]
  BY <1>1
<1>4. batch' \in [Rollout -> [Agent -> Nat \cup {-1}]]
  <2> HIDE DEF before, runnable
  <2> QED
    BY <1>2, <1>3 DEF TypeOK
<1>5. item' \in [Rollout -> [Agent -> ItemStatus]]
  BY TargetsAssumption DEF PlanItems, TypeOK, ItemStatus
<1> QED
  BY <1>4, <1>5

LEMMA InitType == Init => TypeOK
BY FaultAssumption DEF Init, TypeOK, Steps, ItemStatus, Active, Ended

LEMMA RequestType ==
  ASSUME TypeOK, NEW r \in Rollout, CheckConflict(r) \/ CreateRollout(r) \/ CancelRollout(r)
  PROVE  TypeOK'
<1> USE DEF workVars, agentVars, ghostVars, rowVars
<1>1. CASE CheckConflict(r)
  BY <1>1 DEF TypeOK, CheckConflict
<1>2. CASE CreateRollout(r)
  <2>1. PICK skipped \in SUBSET Agent : PlanItems(r, skipped)
    BY <1>2, TargetsAssumption DEF CreateRollout
  <2>2. /\ item' \in [Rollout -> [Agent -> ItemStatus]]
        /\ batch' \in [Rollout -> [Agent -> Nat \cup {-1}]]
    BY <2>1, PlanType
  <2> QED
    BY <1>2, <2>2 DEF TypeOK, CreateRollout, Active
<1>3. CASE CancelRollout(r)
  BY <1>3 DEF TypeOK, CancelRollout, EndRollout, Active, Ended, ItemStatus
<1> QED
  BY <1>1, <1>2, <1>3

LEMMA OneElement ==
  ASSUME NEW S, NEW T, NEW f \in [S -> SUBSET T], NEW x \in S, NEW e \in T
  PROVE  /\ [f EXCEPT ![x] = @ \cup {e}] \in [S -> SUBSET T]
         /\ [f EXCEPT ![x] = @ \ {e}] \in [S -> SUBSET T]
OBVIOUS

LEMMA ReturnType == ASSUME NEW w \in Worker PROVE Return(w) \in Steps
BY DEF Return, Steps

\* A step that only moves its worker or ends the rollout.
LEMMA GotoType ==
  ASSUME TypeOK, NEW w \in Worker, NEW from, NEW to \in Steps, Goto(w, from, to)
  PROVE  pc' \in [Worker -> Steps]
BY DEF TypeOK, Goto

LEMMA EndRolloutType ==
  ASSUME TypeOK, NEW r \in Rollout, NEW status \in Active \cup Ended, EndRollout(r, status)
  PROVE  rollout' \in [Rollout -> Active \cup Ended \cup {"absent"}]
BY DEF TypeOK, EndRollout

LEMMA SetItemType ==
  ASSUME TypeOK, NEW r \in Rollout, NEW a \in Agent, NEW status \in ItemStatus, SetItem(r, a, status)
  PROVE  item' \in [Rollout -> [Agent -> ItemStatus]]
BY DEF TypeOK, SetItem

LEMMA QueryType ==
  ASSUME TypeOK, NEW w \in Worker,
         FindOverdue(w) \/ Decide(w) \/ PendingCanaries(w) \/ FirstBatch(w) \/ PickBatch(w)
  PROVE  TypeOK'
<1> USE DEF agentVars, ghostVars, rowVars
<1>1. CASE FindOverdue(w)
  <2>1. pc' \in [Worker -> Steps]
    BY <1>1 DEF TypeOK, FindOverdue, Goto, Steps
  <2>2. todo' \in [Worker -> SUBSET Agent]
    BY <1>1 DEF TypeOK, FindOverdue, Todo, ItemsIn
  <2> QED
    BY <1>1, <2>1, <2>2 DEF TypeOK, FindOverdue
<1>2. CASE Decide(w)
  <2>1. PICK from, to \in Steps : Goto(w, from, to)
    BY <1>2, ReturnType DEF Decide, LoadRollout, CountFailed, CountRunning, CountPending,
       CountFailedAgain, CheckCanaries, Steps
  <2>2. pc' \in [Worker -> Steps]
    BY <2>1, GotoType
  <2> QED
    BY <1>2, <2>2 DEF TypeOK, Decide
<1>3. CASE PendingCanaries(w)
  <2>1. pc' \in [Worker -> Steps]
    BY <1>3 DEF TypeOK, PendingCanaries, Goto, Steps
  <2>2. todo' \in [Worker -> SUBSET Agent]
    BY <1>3 DEF TypeOK, PendingCanaries, Todo, ItemsIn, Canaries
  <2> QED
    BY <1>3, <2>1, <2>2 DEF TypeOK, PendingCanaries
<1>4. CASE FirstBatch(w)
  <2>1. pc' \in [Worker -> Steps]
    BY <1>4 DEF TypeOK, FirstBatch, Goto, Steps
  <2>2. todo' \in [Worker -> SUBSET Agent]
    BY <1>4 DEF TypeOK, FirstBatch, Todo, ItemsIn, Canaries
  <2> QED
    BY <1>4, <2>1, <2>2 DEF TypeOK, FirstBatch
<1>5. CASE PickBatch(w)
  <2>1. pc' \in [Worker -> Steps]
    BY <1>5 DEF TypeOK, PickBatch, Goto, Steps
  <2>2. todo' \in [Worker -> SUBSET Agent]
    BY <1>5 DEF TypeOK, PickBatch, Todo, ItemsIn
  <2> QED
    BY <1>5, <2>1, <2>2 DEF TypeOK, PickBatch
<1> QED
  BY <1>1, <1>2, <1>3, <1>4, <1>5

LEMMA UpdateType ==
  ASSUME TypeOK, NEW w \in Worker,
         \/ ItemSucceeds(w) \/ FailItem(w) \/ FailRollout(w) \/ CompleteRollout(w)
         \/ MarkRolloutRunning(w) \/ StartItem(w)
  PROVE  TypeOK'
<1> USE DEF agentVars, ghostVars, rowVars
<1>1. cur[w] \in Rollout /\ todo[w] \subseteq Agent /\ Return(w) \in Steps
  BY ReturnType DEF TypeOK
<1>2. CASE ItemSucceeds(w)
  BY <1>2 DEF TypeOK, ItemSucceeds, ItemStatus, Goto, SetItem, Steps
<1>3. CASE FailItem(w)
  <2>1. pc' \in [Worker -> Steps]
    BY <1>3, GotoType DEF FailItem, Steps
  <2>2. PICK a \in todo[w] : SetItem(cur[w], a, "failed")
    BY <1>3 DEF FailItem
  <2>3. item' \in [Rollout -> [Agent -> ItemStatus]]
    BY <1>1, <2>2, SetItemType DEF ItemStatus
  <2> QED
    BY <1>3, <2>1, <2>3 DEF TypeOK, FailItem
<1>4. CASE FailRollout(w)
  <2>1. rollout' \in [Rollout -> Active \cup Ended \cup {"absent"}]
    BY <1>1, <1>4, EndRolloutType DEF FailRollout, Ended
  <2>2. item' \in [Rollout -> [Agent -> ItemStatus]]
    BY <1>4 DEF TypeOK, FailRollout, SkipPending, ItemStatus
  <2>3. pc' \in [Worker -> Steps]
    BY <1>4, GotoType DEF FailRollout, Steps, Return
  <2>4. todo' \in [Worker -> SUBSET Agent]
    <3>1. Todo(w, Rest(w)) \/ UNCHANGED todo
      BY <1>4 DEF FailRollout
    <3> QED
      BY <3>1 DEF TypeOK, Todo, Rest
  <2> QED
    BY <1>4, <2>1, <2>2, <2>3, <2>4 DEF TypeOK, FailRollout
<1>5. CASE CompleteRollout(w)
  <2>1. rollout' \in [Rollout -> Active \cup Ended \cup {"absent"}]
    BY <1>1, <1>5, EndRolloutType DEF CompleteRollout, Ended
  <2>2. pc' \in [Worker -> Steps]
    BY <1>1, <1>5, GotoType DEF CompleteRollout
  <2> QED
    BY <1>5, <2>1, <2>2 DEF TypeOK, CompleteRollout
<1>6. CASE MarkRolloutRunning(w)
  <2>1. rollout' \in [Rollout -> Active \cup Ended \cup {"absent"}]
    BY <1>1, <1>6, EndRolloutType DEF MarkRolloutRunning, Active
  <2>2. (IF todo[w] = {} THEN Return(w) ELSE "start") \in Steps
    BY <1>1 DEF Steps
  <2>3. pc' \in [Worker -> Steps]
    BY <1>6, <2>2, GotoType DEF MarkRolloutRunning
  <2> QED
    BY <1>6, <2>1, <2>3 DEF TypeOK, MarkRolloutRunning
<1>7. CASE StartItem(w)
  <2>1. PICK a \in todo[w] : StartItem(w)!(a)
    BY <1>7 DEF StartItem
  <2>2. pc' \in [Worker -> Steps]
    BY <2>1, GotoType DEF Steps
  <2>3. item' \in [Rollout -> [Agent -> ItemStatus]]
    BY <1>1, <2>1, SetItemType DEF ItemStatus, TypeOK
  <2>4. overdue' \in [Rollout -> SUBSET Agent]
    <3>1. [overdue EXCEPT ![cur[w]] = @ \ {a}] \in [Rollout -> SUBSET Agent]
      BY <1>1, OneElement DEF TypeOK
    <3> QED
      BY <2>1, <3>1 DEF TypeOK
  <2> QED
    BY <2>1, <2>2, <2>3, <2>4 DEF TypeOK
<1> QED
  BY <1>2, <1>3, <1>4, <1>5, <1>6, <1>7

LEMMA MessageType ==
  ASSUME TypeOK, NEW w \in Worker, SendUpdate(w) \/ TakeReply(w) \/ AckTimeout(w)
  PROVE  TypeOK'
<1> USE DEF agentVars, ghostVars, rowVars
<1>1. Return(w) \in Steps
  BY ReturnType
<1>2. CASE SendUpdate(w)
  <2>1. PICK a \in todo[w] : SendUpdate(w)!(a)
    BY <1>2 DEF SendUpdate
  <2>2. a \in Agent
    BY <2>1 DEF TypeOK
  <2>3. pc' \in [Worker -> Steps]
    BY <2>1, GotoType DEF Steps
  <2>4. asked' \in [Agent -> SUBSET (Worker \cup {Nobody})]
    <3>1. [asked EXCEPT ![a] = @ \cup {w}] \in [Agent -> SUBSET (Worker \cup {Nobody})]
      BY <2>2, OneElement DEF TypeOK
    <3> QED
      BY <2>1, <3>1 DEF TypeOK
  <2>5. sent' \in [Rollout -> SUBSET Agent]
    <3>1. [sent EXCEPT ![cur[w]] = @ \cup {a}] \in [Rollout -> SUBSET Agent]
      BY <2>2, OneElement DEF TypeOK
    <3> QED
      BY <2>1, <3>1 DEF TypeOK
  <2> QED
    BY <2>1, <2>3, <2>4, <2>5 DEF TypeOK
<1>3. CASE TakeReply(w)
  <2>1. (IF Rest(w) = {} THEN Return(w) ELSE "start") \in Steps
    BY <1>1 DEF Steps
  <2>2. pc' \in [Worker -> Steps]
    BY <1>3, <2>1, GotoType DEF TakeReply, Steps
  <2>3. todo' \in [Worker -> SUBSET Agent]
    <3>1. Rest(w) \subseteq Agent
      BY DEF TypeOK, Rest
    <3>2. todo' = todo \/ Todo(w, Rest(w))
      BY <1>3 DEF TakeReply
    <3> QED
      BY <3>1, <3>2 DEF TypeOK, Todo
  <2>4. reply' \in [Worker -> {"none", "accepted", "rejected"}]
    BY <1>3 DEF TypeOK, TakeReply
  <2> QED
    BY <1>3, <2>2, <2>3, <2>4 DEF TypeOK, TakeReply
<1>4. CASE AckTimeout(w)
  <2>1. pc' \in [Worker -> Steps]
    BY <1>4, GotoType DEF AckTimeout, Steps
  <2>2. asked' \in [Agent -> SUBSET (Worker \cup {Nobody})]
    BY <1>4 DEF TypeOK, AckTimeout
  <2> QED
    BY <1>4, <2>1, <2>2 DEF TypeOK, AckTimeout
<1> QED
  BY <1>2, <1>3, <1>4

LEMMA TriggerType ==
  ASSUME TypeOK, NEW w \in Worker,
         (\E r \in Rollout : CreateAdvance(w, r)) \/ (\E a \in Agent : HandleHeartbeat(w, a))
  PROVE  TypeOK'
<1> USE DEF agentVars, ghostVars, rowVars, Goto, Steps
<1>1. CASE \E r \in Rollout : CreateAdvance(w, r)
  BY <1>1 DEF TypeOK, CreateAdvance
<1>2. CASE \E a \in Agent : HandleHeartbeat(w, a)
  BY <1>2 DEF TypeOK, HandleHeartbeat
<1> QED
  BY <1>1, <1>2

LEMMA OutsideType ==
  ASSUME TypeOK,
         \/ \E a \in Agent : HandleUpdateAgent(a) \/ Install(a) \/ Disconnect(a) \/ Connect(a)
         \/ \E r \in Rollout, a \in Agent : DeadlinePasses(r, a)
         \/ MasterRestart
  PROVE  TypeOK'
<1> USE DEF workVars, agentVars, ghostVars, rowVars
<1>1. ASSUME NEW a \in Agent, HandleUpdateAgent(a) PROVE TypeOK'
  <2>1. PICK w \in asked[a], accepted \in BOOLEAN : HandleUpdateAgent(a)!(w, accepted)
    BY <1>1 DEF HandleUpdateAgent
  <2>2. asked' \in [Agent -> SUBSET (Worker \cup {Nobody})]
    BY <2>1 DEF TypeOK
  <2>3. reply' \in [Worker -> {"none", "accepted", "rejected"}]
    BY <2>1 DEF TypeOK
  <2>4. installing' \subseteq Agent
    BY <2>1 DEF TypeOK
  <2> QED
    BY <2>1, <2>2, <2>3, <2>4 DEF TypeOK
<1>2. ASSUME NEW a \in Agent, Install(a) PROVE TypeOK'
  <2>1. version' \in [Agent -> {"old", "target"}]
    BY <1>2 DEF TypeOK, Install
  <2> QED
    BY <1>2, <2>1 DEF TypeOK, Install
<1>3. ASSUME NEW a \in Agent, Disconnect(a) \/ Connect(a) PROVE TypeOK'
  BY <1>3 DEF TypeOK, Disconnect, Connect
<1>4. ASSUME NEW r \in Rollout, NEW a \in Agent, DeadlinePasses(r, a) PROVE TypeOK'
  BY <1>4 DEF TypeOK, DeadlinePasses
<1>5. ASSUME MasterRestart PROVE TypeOK'
  BY <1>5, FaultAssumption DEF TypeOK, MasterRestart, Steps
<1> QED
  BY <1>1, <1>2, <1>3, <1>4, <1>5

LEMMA TypePreserved == TypeOK /\ [Next]_vars => TypeOK'
<1>1. TypeOK /\ UNCHANGED vars => TypeOK'
  BY DEF vars, rowVars, workVars, agentVars, ghostVars, TypeOK
<1> QED
  BY <1>1, RequestType, TriggerType, QueryType, UpdateType, MessageType, OutsideType
  DEF Next, AdvanceRollout

-----------------------------------------------------------------------------
(* What every step keeps of the rows of a rollout that exists.             *)

Same(r) ==
  /\ rollout'[r] = rollout[r] /\ item'[r] = item[r] /\ batch'[r] = batch[r]
  /\ sent'[r] = sent[r] /\ confirmed'[r] = confirmed[r]

Kept(r) ==
  /\ batch'[r] = batch[r] /\ confirmed[r] \subseteq confirmed'[r]
  /\ NothingWaits(r) => NothingWaits(r)'
  /\ rollout'[r] # "absent"

Updates(w) ==
  \/ ItemSucceeds(w) \/ FailItem(w) \/ FailRollout(w) \/ CompleteRollout(w)
  \/ MarkRolloutRunning(w) \/ StartItem(w) \/ SendUpdate(w)

Writes(r) == CreateRollout(r) \/ CancelRollout(r)

Quiet == UNCHANGED <<rollout, item, batch, sent, confirmed>>

\* The steps that write a row, or ask an agent.
LEMMA WhoWrites ==
  [Next]_vars => Quiet \/ (\E r \in Rollout : Writes(r)) \/ (\E w \in Worker : Updates(w))
<1> USE DEF vars, rowVars, workVars, agentVars, ghostVars, Quiet, Writes, Updates
<1>1. UNCHANGED vars => Quiet
  OBVIOUS
<1>2. ASSUME NEW r \in Rollout, CheckConflict(r) PROVE Quiet
  BY <1>2 DEF CheckConflict
<1>3. ASSUME NEW w \in Worker, NEW r \in Rollout, CreateAdvance(w, r) PROVE Quiet
  BY <1>3 DEF CreateAdvance
<1>4. ASSUME NEW w \in Worker, NEW a \in Agent, HandleHeartbeat(w, a) PROVE Quiet
  BY <1>4 DEF HandleHeartbeat
<1>5. ASSUME NEW w \in Worker, FindOverdue(w) \/ Decide(w) \/ PendingCanaries(w) \/ FirstBatch(w)
                                 \/ PickBatch(w) \/ TakeReply(w) \/ AckTimeout(w)
      PROVE  Quiet
  BY <1>5 DEF FindOverdue, Decide, PendingCanaries, FirstBatch, PickBatch, TakeReply, AckTimeout
<1>6. ASSUME NEW a \in Agent, HandleUpdateAgent(a) \/ Install(a) \/ Disconnect(a) \/ Connect(a)
      PROVE  Quiet
  BY <1>6 DEF HandleUpdateAgent, Install, Disconnect, Connect
<1>7. ASSUME NEW r \in Rollout, NEW a \in Agent, DeadlinePasses(r, a) PROVE Quiet
  BY <1>7 DEF DeadlinePasses
<1>8. ASSUME MasterRestart PROVE Quiet
  BY <1>8 DEF MasterRestart
<1> QED
  BY <1>1, <1>2, <1>3, <1>4, <1>5, <1>6, <1>7, <1>8 DEF Next, AdvanceRollout

LEMMA SetItemKeeps ==
  ASSUME TypeOK, NEW q \in Rollout, NEW b, NEW status, status # "pending", SetItem(q, b, status),
         NEW r \in Rollout, NothingWaits(r)
  PROVE  NothingWaits(r)'
BY DEF TypeOK, SetItem, NothingWaits, ItemsIn

LEMMA SetItemSets ==
  ASSUME TypeOK, NEW q \in Rollout, NEW b, NEW status, SetItem(q, b, status),
         NEW r \in Rollout, NEW a \in Agent, item'[r][a] # item[r][a]
  PROVE  item'[r][a] = status
BY DEF TypeOK, SetItem

LEMMA EndRolloutKeeps ==
  ASSUME TypeOK, NEW q \in Rollout, NEW status \in Active \cup Ended, EndRollout(q, status),
         NEW r \in Rollout, rollout[r] # "absent"
  PROVE  rollout'[r] # "absent"
BY DEF TypeOK, EndRollout, Active, Ended

LEMMA NextKeeps ==
  ASSUME RolloutInv, [Next]_vars, NEW r \in Rollout, rollout[r] # "absent"
  PROVE  Kept(r)
<1> USE DEF rowVars, workVars, agentVars, ghostVars
<1>1. TypeOK
  BY DEF RolloutInv
<1>2. CASE Quiet
  BY <1>2 DEF Quiet, Kept, NothingWaits, ItemsIn
<1>3. ASSUME NEW q \in Rollout, CreateRollout(q) PROVE Kept(r)
  <2>1. q # r
    BY <1>3 DEF RolloutInv, RowsInv, CreateRollout
  <2>2. rollout'[r] = rollout[r] /\ item'[r] = item[r] /\ batch'[r] = batch[r]
    BY <1>1, <1>3, <2>1 DEF TypeOK, CreateRollout, PlanItems
  <2> QED
    BY <1>3, <2>2 DEF Kept, NothingWaits, ItemsIn, CreateRollout
<1>4. ASSUME NEW q \in Rollout, CancelRollout(q) PROVE Kept(r)
  <2>1. NothingWaits(r) => NothingWaits(r)'
    BY <1>1, <1>4 DEF TypeOK, CancelRollout, NothingWaits, ItemsIn, Active
  <2>2. rollout'[r] # "absent"
    BY <1>1, <1>4, EndRolloutKeeps DEF CancelRollout, Ended
  <2> QED
    BY <1>4, <2>1, <2>2 DEF Kept, CancelRollout
<1>5. ASSUME NEW w \in Worker, Updates(w) PROVE Kept(r)
  <2> USE <1>1
  <2>1. cur[w] \in Rollout
    BY DEF TypeOK
  <2>2. CASE ItemSucceeds(w)
    <3>1. PICK beat \in beats[w] : ItemSucceeds(w)!(beat)
      BY <2>2 DEF ItemSucceeds
    <3>2. beat[1] \in Rollout
      BY <3>1 DEF TypeOK
    <3>3. NothingWaits(r) => NothingWaits(r)'
      BY <3>1, <3>2, SetItemKeeps
    <3> QED
      BY <3>1, <3>2, <3>3 DEF Kept, TypeOK
  <2>3. CASE FailItem(w)
    <3>1. PICK a \in todo[w] : SetItem(cur[w], a, "failed")
      BY <2>3 DEF FailItem
    <3>2. NothingWaits(r) => NothingWaits(r)'
      BY <2>1, <3>1, SetItemKeeps
    <3> QED
      BY <2>3, <3>2 DEF Kept, FailItem
  <2>4. CASE FailRollout(w)
    <3>1. NothingWaits(r) => NothingWaits(r)'
      BY <2>1, <2>4 DEF TypeOK, FailRollout, SkipPending, NothingWaits, ItemsIn
    <3>2. rollout'[r] # "absent"
      BY <2>1, <2>4, EndRolloutKeeps DEF FailRollout, Ended
    <3> QED
      BY <2>4, <3>1, <3>2 DEF Kept, FailRollout
  <2>5. CASE CompleteRollout(w) \/ MarkRolloutRunning(w)
    <3>1. rollout'[r] # "absent"
      BY <2>1, <2>5, EndRolloutKeeps DEF CompleteRollout, MarkRolloutRunning, Ended, Active
    <3> QED
      BY <2>5, <3>1 DEF Kept, CompleteRollout, MarkRolloutRunning, NothingWaits, ItemsIn
  <2>6. CASE StartItem(w)
    <3>1. PICK a \in todo[w] : StartItem(w)!(a)
      BY <2>6 DEF StartItem
    <3>2. NothingWaits(r) => NothingWaits(r)'
      <4>1. CASE UNCHANGED item
        BY <4>1 DEF NothingWaits, ItemsIn
      <4>2. CASE SetItem(cur[w], a, "running")
        BY <4>2, <2>1, SetItemKeeps
      <4> QED
        BY <3>1, <4>1, <4>2
    <3> QED
      BY <3>1, <3>2 DEF Kept
  <2>7. CASE SendUpdate(w)
    BY <2>7 DEF Kept, SendUpdate, NothingWaits, ItemsIn
  <2> QED
    BY <1>5, <2>2, <2>3, <2>4, <2>5, <2>6, <2>7 DEF Updates
<1> QED
  BY <1>2, <1>3, <1>4, <1>5, WhoWrites DEF Writes
-----------------------------------------------------------------------------
(* The invariant of the rows.                                              *)

LEMMA CreatedOnce ==
  ASSUME RolloutInv, [Next]_vars, NEW r \in Rollout
  PROVE  /\ create'[r] \in {"idle", "checked"} => create[r] \in {"idle", "checked"}
         /\ create'[r] = "spawned" =>
              create[r] = "spawned" \/ CreateRollout(r)
         /\ CreateRollout(r) => create'[r] = "spawned" /\ rollout'[r] = "pending"
         /\ rollout[r] = "absent" => rollout'[r] = "absent" \/ CreateRollout(r)
<1> USE DEF vars, rowVars, workVars, agentVars, ghostVars
<1>1. TypeOK
  BY DEF RolloutInv
<1>2. CreateRollout(r) => create'[r] = "spawned" /\ rollout'[r] = "pending"
  BY <1>1 DEF TypeOK, CreateRollout
<1>3. /\ create'[r] \in {"idle", "checked"} => create[r] \in {"idle", "checked"}
      /\ create'[r] = "spawned" => create[r] = "spawned" \/ CreateRollout(r)
  <2> USE <1>1
  <2>1. CASE create' = create
    BY <2>1
  <2>2. ASSUME NEW q \in Rollout, CheckConflict(q) PROVE <1>3
    BY <2>2 DEF TypeOK, CheckConflict
  <2>3. ASSUME NEW q \in Rollout, CreateRollout(q) PROVE <1>3
    BY <2>3 DEF TypeOK, CreateRollout
  <2>4. ASSUME NEW w \in Worker, NEW q \in Rollout, CreateAdvance(w, q) PROVE <1>3
    BY <2>4 DEF TypeOK, CreateAdvance
  <2>5. CASE MasterRestart
    BY <2>5 DEF TypeOK, MasterRestart
  <2>6. ASSUME NEW w \in Worker, AdvanceRollout(w) PROVE create' = create
    BY <2>6 DEF AdvanceRollout, ItemSucceeds, FindOverdue, FailItem, FailRollout, Decide,
       CompleteRollout, PendingCanaries, FirstBatch, PickBatch, MarkRolloutRunning, StartItem,
       SendUpdate, TakeReply, AckTimeout
  <2>7. ASSUME NEW q \in Rollout, CancelRollout(q) PROVE create' = create
    BY <2>7 DEF CancelRollout
  <2>8. ASSUME NEW w \in Worker, NEW a \in Agent, HandleHeartbeat(w, a) PROVE create' = create
    BY <2>8 DEF HandleHeartbeat
  <2>9. ASSUME NEW a \in Agent, HandleUpdateAgent(a) \/ Install(a) \/ Disconnect(a) \/ Connect(a)
        PROVE  create' = create
    BY <2>9 DEF HandleUpdateAgent, Install, Disconnect, Connect
  <2>10. ASSUME NEW q \in Rollout, NEW a \in Agent, DeadlinePasses(q, a) PROVE create' = create
    BY <2>10 DEF DeadlinePasses
  <2> QED
    BY <2>1, <2>2, <2>3, <2>4, <2>5, <2>6, <2>7, <2>8, <2>9, <2>10 DEF Next
<1>4. rollout[r] = "absent" => rollout'[r] = "absent" \/ CreateRollout(r)
  <2> SUFFICES ASSUME rollout[r] = "absent", ~CreateRollout(r) PROVE rollout'[r] = "absent"
    OBVIOUS
  <2> USE <1>1
  <2>1. CASE Quiet
    BY <2>1 DEF Quiet
  <2>2. ASSUME NEW q \in Rollout, Writes(q) PROVE rollout'[r] = "absent"
    BY <2>2 DEF TypeOK, Writes, CreateRollout, CancelRollout, EndRollout, Active
  <2>3. ASSUME NEW w \in Worker, Updates(w) PROVE rollout'[r] = "absent"
    <3>1. cur[w] \in Rollout
      BY DEF TypeOK
    <3>2. CASE FailRollout(w) \/ CompleteRollout(w) \/ MarkRolloutRunning(w)
      <4>1. PICK status : EndRollout(cur[w], status)
        BY <3>2 DEF FailRollout, CompleteRollout, MarkRolloutRunning
      <4> QED
        BY <3>1, <4>1 DEF TypeOK, EndRollout, Active
    <3>3. CASE ItemSucceeds(w) \/ FailItem(w) \/ StartItem(w) \/ SendUpdate(w)
      BY <3>3 DEF ItemSucceeds, FailItem, StartItem, SendUpdate
    <3> QED
      BY <2>3, <3>2, <3>3 DEF Updates
  <2> QED
    BY <2>1, <2>2, <2>3, WhoWrites
<1> QED
  BY <1>2, <1>3, <1>4

\* A rollout that has ended has nothing left to start.
LEMMA EndedPreserved ==
  ASSUME RolloutInv, [Next]_vars, NEW r \in Rollout, rollout'[r] \in Ended
  PROVE  NothingWaits(r)'
<1>1. TypeOK
  BY DEF RolloutInv
<1>2. CASE rollout[r] \in Ended
  <2>1. NothingWaits(r) /\ rollout[r] # "absent"
    BY <1>2 DEF RolloutInv, NothingWaitsInEnded, Ended
  <2> QED
    BY <2>1, NextKeeps DEF Kept
<1>3. CASE rollout[r] \notin Ended
  <2> USE <1>1, <1>3
  <2>1. CASE Quiet
    BY <2>1 DEF Quiet
  <2>2. ASSUME NEW q \in Rollout, CreateRollout(q) PROVE FALSE
    BY <2>2 DEF TypeOK, CreateRollout, Ended
  <2>3. ASSUME NEW q \in Rollout, CancelRollout(q) PROVE NothingWaits(r)'
    <3>1. q = r
      BY <2>3 DEF TypeOK, CancelRollout, EndRollout
    <3> QED
      BY <2>3, <3>1 DEF TypeOK, CancelRollout, NothingWaits, ItemsIn, Active
  <2>4. ASSUME NEW w \in Worker, Updates(w) PROVE NothingWaits(r)'
    <3>1. cur[w] \in Rollout
      BY DEF TypeOK
    <3>2. CASE FailRollout(w)
      <4>1. cur[w] = r
        BY <3>1, <3>2 DEF TypeOK, FailRollout, EndRollout
      <4> QED
        BY <3>2, <4>1 DEF TypeOK, FailRollout, SkipPending, NothingWaits, ItemsIn
    <3>3. CASE CompleteRollout(w)
      <4>1. cur[w] = r
        BY <3>1, <3>3 DEF TypeOK, CompleteRollout, EndRollout
      <4>2. NothingWaits(r)
        BY <3>3, <4>1 DEF RolloutInv, WorkerInv, CompleteRollout, Goto
      <4> QED
        BY <3>3, <4>2 DEF CompleteRollout, NothingWaits, ItemsIn
    <3>4. CASE MarkRolloutRunning(w)
      BY <3>1, <3>4 DEF TypeOK, MarkRolloutRunning, EndRollout, Ended
    <3>5. CASE ItemSucceeds(w) \/ FailItem(w) \/ StartItem(w) \/ SendUpdate(w)
      BY <3>5 DEF ItemSucceeds, FailItem, StartItem, SendUpdate, rowVars
    <3> QED
      BY <2>4, <3>2, <3>3, <3>4, <3>5 DEF Updates
  <2> QED
    BY <2>1, <2>2, <2>3, <2>4, WhoWrites DEF Writes
<1> QED
  BY <1>2, <1>3

\* A canary that is over is confirmed, or the rollout was stopped.
LEMMA CanariesPreserved ==
  ASSUME RolloutInv, [Next]_vars, NEW r \in Rollout, NEW a \in Canaries(r)'
  PROVE  /\ item'[r][a] = "success" => a \in confirmed'[r]
         /\ item'[r][a] = "skipped" => NothingWaits(r)'
<1>1. TypeOK /\ a \in Agent
  BY DEF RolloutInv, Canaries
<1> USE <1>1
<1>2. CASE CreateRollout(r)
  <2>1. PICK skipped : PlanItems(r, skipped)
    BY <1>2 DEF CreateRollout
  <2>2. batch'[r][a] = 0
    BY DEF Canaries
  <2>3. item'[r][a] = "pending"
    BY <2>1, <2>2 DEF TypeOK, PlanItems
  <2> QED
    BY <2>3
<1>3. CASE ~CreateRollout(r) /\ rollout[r] = "absent"
  <2>1. item'[r][a] \notin {"success", "skipped"}
    <3>1. item[r][a] = "absent"
      BY <1>3 DEF RolloutInv, RowsInv
    <3>2. CASE Quiet
      BY <3>1, <3>2 DEF Quiet
    <3>3. ASSUME NEW q \in Rollout, Writes(q) PROVE item'[r] = item[r]
      <4>1. q # r
        BY <1>3, <3>3 DEF Writes, CancelRollout
      <4>2. CASE CreateRollout(q)
        BY <4>1, <4>2 DEF TypeOK, CreateRollout, PlanItems
      <4>3. CASE CancelRollout(q)
        BY <4>1, <4>3 DEF TypeOK, CancelRollout
      <4> QED
        BY <3>3, <4>2, <4>3 DEF Writes
    <3>4. ASSUME NEW w \in Worker, Updates(w) PROVE item'[r] = item[r]
      <4>1. pc[w] # "beat" => cur[w] # r
        BY <1>3, <3>4 DEF RolloutInv, WorkerInv, Updates, Goto, ItemSucceeds, FailItem, FailRollout,
           CompleteRollout, MarkRolloutRunning, StartItem, SendUpdate
      <4>2. CASE ItemSucceeds(w)
        BY <1>3, <4>2 DEF RolloutInv, WorkerInv, TypeOK, ItemSucceeds, SetItem
      <4>3. CASE ~ItemSucceeds(w)
        <5>1. cur[w] # r
          BY <3>4, <4>1, <4>3 DEF Updates, Goto, FailItem, FailRollout, CompleteRollout,
             MarkRolloutRunning, StartItem, SendUpdate
        <5>2. CASE FailItem(w)
          BY <5>1, <5>2 DEF TypeOK, FailItem, SetItem
        <5>3. CASE FailRollout(w)
          BY <5>1, <5>3 DEF TypeOK, FailRollout, SkipPending
        <5>4. CASE StartItem(w)
          BY <5>1, <5>4 DEF TypeOK, StartItem, SetItem
        <5>5. CASE CompleteRollout(w) \/ MarkRolloutRunning(w) \/ SendUpdate(w)
          BY <5>5 DEF CompleteRollout, MarkRolloutRunning, SendUpdate, rowVars
        <5> QED
          BY <3>4, <4>3, <5>2, <5>3, <5>4, <5>5 DEF Updates
      <4> QED
        BY <4>2, <4>3
    <3> QED
      BY <3>1, <3>2, <3>3, <3>4, WhoWrites
  <2> QED
    BY <2>1
<1>4. CASE rollout[r] # "absent"
  <2>1. Kept(r)
    BY <1>4, NextKeeps
  <2>2. /\ item[r][a] = "success" => a \in confirmed[r]
        /\ item[r][a] = "skipped" => NothingWaits(r)
    BY <2>1 DEF RolloutInv, RowsInv, Kept, Canaries
  <2>3. CASE item'[r][a] = item[r][a]
    BY <2>1, <2>2, <2>3 DEF Kept
  <2>4. ASSUME NEW q \in Rollout, CreateRollout(q) PROVE item'[r] = item[r]
    <3>1. q # r
      BY <1>4, <2>4 DEF RolloutInv, RowsInv, CreateRollout
    <3> QED
      BY <2>4, <3>1 DEF TypeOK, CreateRollout, PlanItems
  <2>5. ASSUME NEW q \in Rollout, CancelRollout(q), item'[r][a] # item[r][a]
        PROVE  item'[r][a] # "success" /\ NothingWaits(r)'
    <3>1. q = r
      BY <2>5 DEF TypeOK, CancelRollout
    <3> QED
      BY <2>5, <3>1 DEF TypeOK, CancelRollout, NothingWaits, ItemsIn, Active
  <2>6. ASSUME NEW w \in Worker, Updates(w), item'[r][a] # item[r][a]
        PROVE  /\ item'[r][a] = "success" => a \in confirmed'[r]
               /\ item'[r][a] = "skipped" => NothingWaits(r)'
    <3>1. cur[w] \in Rollout
      BY DEF TypeOK
    <3>2. CASE ItemSucceeds(w)
      <4>1. PICK beat \in beats[w] : ItemSucceeds(w)!(beat)
        BY <3>2 DEF ItemSucceeds
      <4>2. beat[1] \in Rollout /\ beat[2] \in Agent
        BY <4>1 DEF TypeOK
      <4>3. beat[1] = r /\ beat[2] = a
        BY <2>6, <4>1, <4>2 DEF TypeOK, SetItem
      <4>4. item'[r][a] = "success" /\ a \in confirmed'[r]
        BY <4>1, <4>2, <4>3 DEF TypeOK, SetItem
      <4> QED
        BY <4>4
    <3>3. CASE FailItem(w)
      <4>1. PICK b \in todo[w] : SetItem(cur[w], b, "failed")
        BY <3>3 DEF FailItem
      <4> QED
        BY <2>6, <3>1, <4>1, SetItemSets
    <3>4. CASE FailRollout(w)
      <4>1. cur[w] = r
        BY <2>6, <3>1, <3>4 DEF TypeOK, FailRollout, SkipPending
      <4>2. NothingWaits(r)'
        BY <3>4, <4>1 DEF TypeOK, FailRollout, SkipPending, NothingWaits, ItemsIn
      <4> QED
        BY <2>6, <3>4, <4>1, <4>2 DEF TypeOK, FailRollout, SkipPending
    <3>5. CASE StartItem(w)
      <4>1. PICK b \in todo[w] : UNCHANGED item \/ SetItem(cur[w], b, "running")
        BY <3>5 DEF StartItem
      <4>2. SetItem(cur[w], b, "running")
        BY <2>6, <4>1
      <4> QED
        BY <2>6, <3>1, <4>2, SetItemSets
    <3>6. CASE CompleteRollout(w) \/ MarkRolloutRunning(w) \/ SendUpdate(w)
      BY <2>6, <3>6 DEF CompleteRollout, MarkRolloutRunning, SendUpdate, rowVars
    <3> QED
      BY <2>6, <3>2, <3>3, <3>4, <3>5, <3>6 DEF Updates
  <2> QED
    BY <2>1, <2>3, <2>4, <2>5, <2>6, WhoWrites DEF Quiet, Writes
<1> QED
  BY <1>2, <1>3, <1>4

\* Only a worker at "send" asks an agent, one of those it had to handle.
LEMMA AskedOne ==
  ASSUME RolloutInv, [Next]_vars, NEW r \in Rollout, sent'[r] # sent[r]
  PROVE  \E w \in Worker : /\ pc[w] = "send" /\ cur[w] = r
                           /\ \E a \in todo[w] : sent'[r] = sent[r] \cup {a}
                           /\ UNCHANGED <<rollout, item, batch, confirmed>>
<1> USE DEF rowVars, ghostVars
<1>1. TypeOK
  BY DEF RolloutInv
<1>2. ~Quiet
  BY DEF Quiet
<1>3. ASSUME NEW q \in Rollout, Writes(q) PROVE FALSE
  BY <1>3 DEF Writes, CreateRollout, CancelRollout
<1>4. PICK w \in Worker : Updates(w)
  BY <1>2, <1>3, WhoWrites
<1>5. SendUpdate(w)
  BY <1>4 DEF Updates, ItemSucceeds, FailItem, FailRollout, CompleteRollout, MarkRolloutRunning,
     StartItem
<1>6. PICK a \in todo[w] : SendUpdate(w)!(a)
  BY <1>5 DEF SendUpdate
<1>7. pc[w] = "send" /\ sent' = [sent EXCEPT ![cur[w]] = @ \cup {a}]
  BY <1>6 DEF Goto
<1>8. cur[w] = r /\ sent'[r] = sent[r] \cup {a}
  BY <1>1, <1>7 DEF TypeOK
<1> QED
  BY <1>6, <1>7, <1>8

LEMMA RowsPreserved ==
  ASSUME RolloutInv, [Next]_vars, NEW r \in Rollout
  PROVE  RowsInv(r)'
<1>1. create'[r] \in {"idle", "checked"} => rollout'[r] = "absent"
  <2>1. CreateRollout(r) => create'[r] = "spawned"
    BY CreatedOnce
  <2> QED
    BY <2>1, CreatedOnce DEF RolloutInv, RowsInv
<1>2. create'[r] = "spawned" => rollout'[r] # "absent"
  <2>1. CreateRollout(r) => rollout'[r] = "pending"
    BY CreatedOnce
  <2>2. rollout[r] # "absent" => rollout'[r] # "absent"
    BY NextKeeps DEF Kept
  <2> QED
    BY <2>1, <2>2, CreatedOnce DEF RolloutInv, RowsInv
<1>3. ASSUME rollout'[r] = "absent"
      PROVE  sent'[r] = {} /\ \A a \in Agent : item'[r][a] = "absent"
  <2>1. rollout[r] = "absent"
    BY <1>3, NextKeeps DEF Kept
  <2>2. sent[r] = {} /\ \A a \in Agent : item[r][a] = "absent"
    BY <2>1 DEF RolloutInv, RowsInv
  <2>3. sent'[r] = sent[r]
    BY <2>1, AskedOne DEF RolloutInv, WorkerInv
  <2>4. TypeOK /\ TypeOK'
    BY TypePreserved DEF RolloutInv
  <2>5. ASSUME NEW a \in Agent, item'[r][a] # item[r][a] PROVE FALSE
    <3>1. ~Quiet
      BY <2>5 DEF Quiet
    <3>2. ASSUME NEW q \in Rollout, Writes(q) PROVE FALSE
      <4>1. q # r
        BY <1>3, <2>1, <3>2, CreatedOnce DEF Writes, CancelRollout
      <4>2. CASE CreateRollout(q)
        BY <2>4, <2>5, <4>1, <4>2 DEF TypeOK, CreateRollout, PlanItems
      <4>3. CASE CancelRollout(q)
        BY <2>4, <2>5, <4>1, <4>3 DEF TypeOK, CancelRollout
      <4> QED
        BY <3>2, <4>2, <4>3 DEF Writes
    <3>3. PICK w \in Worker : Updates(w)
      BY <3>1, <3>2, WhoWrites
    <3>4. CASE ItemSucceeds(w)
      <4>1. PICK beat \in beats[w] : ItemSucceeds(w)!(beat)
        BY <3>4 DEF ItemSucceeds
      <4>2. beat[1] # r
        BY <2>1, <4>1 DEF RolloutInv, WorkerInv
      <4> QED
        BY <2>4, <2>5, <4>1, <4>2 DEF TypeOK, SetItem
    <3>5. CASE ~ItemSucceeds(w)
      <4>1. cur[w] # r
        <5>1. pc[w] \notin {"idle", "beat"}
          BY <3>3, <3>5 DEF Updates, Goto, FailItem, FailRollout, CompleteRollout,
             MarkRolloutRunning, StartItem, SendUpdate
        <5> QED
          BY <2>1, <5>1 DEF RolloutInv, WorkerInv
      <4>2. CASE FailItem(w)
        BY <2>4, <2>5, <4>1, <4>2 DEF TypeOK, FailItem, SetItem
      <4>3. CASE FailRollout(w)
        BY <2>4, <2>5, <4>1, <4>3 DEF TypeOK, FailRollout, SkipPending
      <4>4. CASE StartItem(w)
        BY <2>4, <2>5, <4>1, <4>4 DEF TypeOK, StartItem, SetItem
      <4>5. CASE CompleteRollout(w) \/ MarkRolloutRunning(w) \/ SendUpdate(w)
        BY <2>5, <4>5 DEF CompleteRollout, MarkRolloutRunning, SendUpdate, rowVars
      <4> QED
        BY <3>3, <3>5, <4>2, <4>3, <4>4, <4>5 DEF Updates
    <3> QED
      BY <3>4, <3>5
  <2> QED
    BY <2>2, <2>3, <2>5
<1> QED
  BY <1>1, <1>2, <1>3, CanariesPreserved DEF RowsInv

LEMMA CanariesFirstPreserved == RolloutInv /\ [Next]_vars => CanariesFirst'
<1> SUFFICES ASSUME RolloutInv, [Next]_vars, NEW r \in Rollout, NEW a \in sent'[r], batch'[r][a] # 0
             PROVE  CanariesConfirmed(r)'
  BY DEF CanariesFirst
<1>1. CASE sent'[r] = sent[r]
  <2>1. rollout[r] # "absent"
    BY <1>1 DEF RolloutInv, RowsInv
  <2>2. Kept(r)
    BY <2>1, NextKeeps
  <2>3. CanariesConfirmed(r)
    BY <1>1, <2>2 DEF RolloutInv, CanariesFirst, Kept
  <2> QED
    BY <2>2, <2>3 DEF Kept, CanariesConfirmed, Canaries
<1>2. CASE sent'[r] # sent[r]
  <2>1. PICK w \in Worker : /\ pc[w] = "send" /\ cur[w] = r
                            /\ \E b \in todo[w] : sent'[r] = sent[r] \cup {b}
                            /\ UNCHANGED <<rollout, item, batch, confirmed>>
    BY <1>2, AskedOne
  <2>2. CASE a \in sent[r]
    BY <2>1, <2>2 DEF RolloutInv, CanariesFirst, CanariesConfirmed, Canaries
  <2>3. CASE a \in todo[w]
    BY <2>1, <2>3 DEF RolloutInv, WorkerInv, CanariesConfirmed, Canaries
  <2> QED
    BY <2>1, <2>2, <2>3
<1> QED
  BY <1>1, <1>2

-----------------------------------------------------------------------------
(* The invariant of the workers.                                           *)

NoPending == {"countFailedAgain", "succeed", "fail"}
NoTodo == {"load", "countFailed", "countRunning", "checkCanaries"}
Chosen == {"pickBatch", "mark", "start", "send", "wait", "refused", "stopRefused"}

\* What a worker has read stays good in any step that does not contradict it.
LEMMA StaysGood ==
  ASSUME RolloutInv, [Next]_vars, NEW w \in Worker,
         pc'[w] \notin {"idle", "beat"} => cur'[w] = cur[w] /\ rollout[cur[w]] # "absent",
         beats'[w] \subseteq beats[w],
         pc'[w] \in NoPending => NothingWaits(cur[w]),
         pc'[w] \in NoTodo => todo'[w] = {},
         pc'[w] = "firstBatch" => CanariesConfirmed(cur[w]) \/ NothingWaits(cur[w]),
         pc'[w] \in Chosen => \A a \in todo'[w] : batch[cur[w]][a] # 0 => CanariesConfirmed(cur[w])
  PROVE  WorkerInv(w)'
<1>1. cur[w] \in Rollout /\ \A beat \in beats[w] : beat[1] \in Rollout
  BY DEF RolloutInv, TypeOK
<1>2. \A beat \in beats'[w] : rollout'[beat[1]] # "absent"
  BY <1>1, NextKeeps DEF RolloutInv, WorkerInv, Kept
<1>3. CASE pc'[w] \in {"idle", "beat"}
  BY <1>2, <1>3 DEF WorkerInv
<1>4. CASE pc'[w] \notin {"idle", "beat"}
  <2>1. cur'[w] = cur[w] /\ Kept(cur[w])
    BY <1>1, <1>4, NextKeeps
  <2>2. NothingWaits(cur[w]) => NothingWaits(cur[w])'
    BY <2>1 DEF Kept
  <2>3. CanariesConfirmed(cur[w]) => CanariesConfirmed(cur[w])'
    BY <2>1 DEF Kept, CanariesConfirmed, Canaries
  <2> QED
    BY <1>2, <2>1, <2>2, <2>3 DEF WorkerInv, Kept, NoPending, NoTodo, Chosen
<1> QED
  BY <1>3, <1>4

Moves(w) ==
  AdvanceRollout(w) \/ (\E r \in Rollout : CreateAdvance(w, r)) \/ (\E a \in Agent : HandleHeartbeat(w, a))

Rests(w) == pc'[w] = pc[w] /\ cur'[w] = cur[w] /\ todo'[w] = todo[w] /\ beats'[w] = beats[w]

LEMMA WhoMoves ==
  ASSUME TypeOK, [Next]_vars, NEW w \in Worker
  PROVE  Rests(w) \/ Moves(w) \/ MasterRestart
<1> USE DEF vars, workVars, Rests, Goto, Todo
<1>1. CASE UNCHANGED vars
  BY <1>1
<1>2. ASSUME NEW r \in Rollout, CheckConflict(r) \/ CreateRollout(r) \/ CancelRollout(r) PROVE Rests(w)
  BY <1>2 DEF CheckConflict, CreateRollout, CancelRollout
<1>3. ASSUME NEW a \in Agent, HandleUpdateAgent(a) \/ Install(a) \/ Disconnect(a) \/ Connect(a)
      PROVE  Rests(w)
  BY <1>3 DEF HandleUpdateAgent, Install, Disconnect, Connect
<1>4. ASSUME NEW r \in Rollout, NEW a \in Agent, DeadlinePasses(r, a) PROVE Rests(w)
  BY <1>4 DEF DeadlinePasses
<1>5. ASSUME NEW v \in Worker, v # w, Moves(v) PROVE Rests(w)
  <2>1. CASE \E r \in Rollout : CreateAdvance(v, r)
    BY <1>5, <2>1 DEF TypeOK, CreateAdvance
  <2>2. CASE \E a \in Agent : HandleHeartbeat(v, a)
    BY <1>5, <2>2 DEF TypeOK, HandleHeartbeat
  <2>3. CASE ItemSucceeds(v)
    BY <1>5, <2>3 DEF TypeOK, ItemSucceeds
  <2>4. CASE FindOverdue(v) \/ PendingCanaries(v) \/ FirstBatch(v) \/ PickBatch(v)
    BY <1>5, <2>4 DEF TypeOK, FindOverdue, PendingCanaries, FirstBatch, PickBatch
  <2>5. CASE FailItem(v) \/ FailRollout(v)
    BY <1>5, <2>5 DEF TypeOK, FailItem, FailRollout
  <2>6. CASE Decide(v)
    BY <1>5, <2>6 DEF TypeOK, Decide, LoadRollout, CountFailed, CountRunning, CountPending,
       CountFailedAgain, CheckCanaries
  <2>7. CASE CompleteRollout(v) \/ MarkRolloutRunning(v)
    BY <1>5, <2>7 DEF TypeOK, CompleteRollout, MarkRolloutRunning
  <2>8. CASE StartItem(v) \/ SendUpdate(v)
    BY <1>5, <2>8 DEF TypeOK, StartItem, SendUpdate
  <2>9. CASE TakeReply(v) \/ AckTimeout(v)
    BY <1>5, <2>9 DEF TypeOK, TakeReply, AckTimeout
  <2> QED
    BY <1>5, <2>1, <2>2, <2>3, <2>4, <2>5, <2>6, <2>7, <2>8, <2>9 DEF Moves, AdvanceRollout
<1> QED
  BY <1>1, <1>2, <1>3, <1>4, <1>5 DEF Next, Moves

LEMMA TriggersKeepWorker ==
  ASSUME RolloutInv, [Next]_vars, NEW w \in Worker,
         \/ \E r \in Rollout : CreateAdvance(w, r)
         \/ \E a \in Agent : HandleHeartbeat(w, a)
         \/ ItemSucceeds(w)
         \/ MasterRestart
  PROVE  WorkerInv(w)'
<1> USE DEF Goto
<1>1. TypeOK
  BY DEF RolloutInv
<1>2. ASSUME NEW r \in Rollout, CreateAdvance(w, r) PROVE WorkerInv(w)'
  <2>1. rollout[r] # "absent"
    BY <1>2 DEF RolloutInv, RowsInv, CreateAdvance
  <2>2. pc'[w] = "overdue" /\ cur'[w] = r /\ beats' = beats /\ rollout' = rollout
    BY <1>1, <1>2 DEF TypeOK, CreateAdvance, rowVars
  <2> QED
    BY <2>1, <2>2 DEF RolloutInv, WorkerInv
<1>3. ASSUME NEW a \in Agent, HandleHeartbeat(w, a) PROVE WorkerInv(w)'
  <2>1. ASSUME NEW beat \in beats'[w] PROVE rollout'[beat[1]] # "absent"
    <3>1. beat[1] \in Rollout /\ item[beat[1]][a] = "running"
      BY <1>1, <1>3, <2>1 DEF TypeOK, HandleHeartbeat
    <3>2. rollout[beat[1]] # "absent"
      BY <3>1 DEF RolloutInv, RowsInv
    <3> QED
      BY <1>3, <3>2 DEF HandleHeartbeat, rowVars
  <2>2. pc'[w] = "beat"
    BY <1>1, <1>3 DEF TypeOK, HandleHeartbeat
  <2> QED
    BY <2>1, <2>2 DEF WorkerInv
<1>4. CASE ItemSucceeds(w)
  <2>1. PICK beat \in beats[w] : ItemSucceeds(w)!(beat)
    BY <1>4 DEF ItemSucceeds
  <2>2. rollout[beat[1]] # "absent" /\ beat[1] \in Rollout
    BY <1>1, <2>1 DEF RolloutInv, WorkerInv, TypeOK
  <2>3. pc'[w] = "overdue" /\ cur'[w] = beat[1] /\ beats'[w] \subseteq beats[w] /\ rollout' = rollout
    BY <1>1, <2>1 DEF TypeOK
  <2> QED
    BY <2>2, <2>3 DEF RolloutInv, WorkerInv
<1>5. CASE MasterRestart
  BY <1>5 DEF MasterRestart, WorkerInv
<1> QED
  BY <1>2, <1>3, <1>4, <1>5

LEMMA QueriesKeepWorker ==
  ASSUME RolloutInv, [Next]_vars, NEW w \in Worker,
         FindOverdue(w) \/ Decide(w) \/ PendingCanaries(w) \/ FirstBatch(w) \/ PickBatch(w)
  PROVE  WorkerInv(w)'
<1> USE DEF Goto, Todo, NoPending, NoTodo, Chosen, Return
<1>1. TypeOK
  BY DEF RolloutInv
<1>2. cur'[w] = cur[w] /\ beats'[w] = beats[w]
  BY DEF FindOverdue, Decide, PendingCanaries, FirstBatch, PickBatch
<1>3. pc[w] \notin {"idle", "beat"}
  BY DEF FindOverdue, Decide, LoadRollout, CountFailed, CountRunning, CountPending,
     CountFailedAgain, CheckCanaries, PendingCanaries, FirstBatch, PickBatch
<1>4. cur[w] \in Rollout /\ rollout[cur[w]] # "absent"
  BY <1>1, <1>3 DEF RolloutInv, WorkerInv, TypeOK
<1>5. CASE FindOverdue(w)
  <2>1. pc'[w] = "expire" \/ (pc'[w] = "load" /\ todo'[w] = {})
    BY <1>1, <1>5 DEF TypeOK, FindOverdue
  <2> QED
    BY <1>2, <1>4, <2>1, StaysGood
<1>6. CASE Decide(w)
  <2> USE <1>1
  <2>1. todo'[w] = todo[w]
    BY <1>6 DEF Decide
  <2>2. CASE LoadRollout(w) \/ CountFailed(w)
    <3>1. pc'[w] \in {"idle", "beat", "countFailed", "stop", "countRunning"} /\ todo[w] = {}
      BY <2>2 DEF TypeOK, RolloutInv, WorkerInv, LoadRollout, CountFailed
    <3> QED
      BY <1>2, <1>4, <2>1, <3>1, StaysGood
  <2>3. CASE CountRunning(w)
    <3>1. pc'[w] = "countPending" \/ (pc'[w] = "mark" /\ todo[w] = {})
      BY <2>3 DEF TypeOK, RolloutInv, WorkerInv, CountRunning
    <3> QED
      BY <1>2, <1>4, <2>1, <3>1, StaysGood
  <2>4. CASE CountPending(w)
    <3>1. pc'[w] = "canaries" \/ (pc'[w] = "countFailedAgain" /\ NothingWaits(cur[w]))
      BY <2>4 DEF TypeOK, CountPending, NothingWaits
    <3> QED
      BY <1>2, <1>4, <2>1, <3>1, StaysGood
  <2>5. CASE CountFailedAgain(w)
    <3>1. pc'[w] \in {"fail", "succeed"} /\ NothingWaits(cur[w])
      BY <2>5 DEF TypeOK, RolloutInv, WorkerInv, CountFailedAgain
    <3> QED
      BY <1>2, <1>4, <2>1, <3>1, StaysGood
  <2>6. CASE CheckCanaries(w)
    <3>1. todo[w] = {}
      BY <2>6 DEF RolloutInv, WorkerInv, CheckCanaries
    <3>2. CanariesOver(cur[w]) => CanariesConfirmed(cur[w]) \/ NothingWaits(cur[w])
      BY <1>4 DEF RolloutInv, RowsInv, CanariesOver, CanariesConfirmed, ItemsIn
    <3>3. pc'[w] = "mark" \/ (pc'[w] = "firstBatch" /\ CanariesOver(cur[w]))
      BY <2>6 DEF TypeOK, CheckCanaries
    <3> QED
      BY <1>2, <1>4, <2>1, <3>1, <3>2, <3>3, StaysGood
  <2> QED
    BY <1>6, <2>2, <2>3, <2>4, <2>5, <2>6 DEF Decide
<1>7. CASE PendingCanaries(w)
  <2>1. \/ pc'[w] = "mark" /\ \A a \in todo'[w] : batch[cur[w]][a] = 0
        \/ pc'[w] = "checkCanaries" /\ todo'[w] = {}
    BY <1>1, <1>7 DEF TypeOK, PendingCanaries, Canaries
  <2> QED
    BY <1>2, <1>4, <2>1, StaysGood
<1>8. CASE FirstBatch(w)
  <2>1. \/ pc'[w] = "pickBatch" /\ ~NothingWaits(cur[w])
        \/ pc'[w] = "mark" /\ todo'[w] = {}
    BY <1>1, <1>8 DEF TypeOK, FirstBatch, NothingWaits
  <2>2. CanariesConfirmed(cur[w]) \/ NothingWaits(cur[w])
    BY <1>8 DEF RolloutInv, WorkerInv, FirstBatch
  <2> QED
    BY <1>2, <1>4, <2>1, <2>2, StaysGood
<1>9. CASE PickBatch(w)
  <2>1. pc'[w] = "mark" /\ todo'[w] \subseteq todo[w]
    BY <1>1, <1>9 DEF TypeOK, PickBatch
  <2>2. \A a \in todo[w] : batch[cur[w]][a] # 0 => CanariesConfirmed(cur[w])
    BY <1>9 DEF RolloutInv, WorkerInv, PickBatch
  <2> QED
    BY <1>2, <1>4, <2>1, <2>2, StaysGood
<1> QED
  BY <1>5, <1>6, <1>7, <1>8, <1>9

LEMMA UpdatesKeepWorker ==
  ASSUME RolloutInv, [Next]_vars, NEW w \in Worker,
         \/ FailItem(w) \/ FailRollout(w) \/ CompleteRollout(w) \/ MarkRolloutRunning(w)
         \/ StartItem(w) \/ SendUpdate(w) \/ TakeReply(w) \/ AckTimeout(w)
  PROVE  WorkerInv(w)'
<1> USE DEF Goto, Todo, NoPending, NoTodo, Chosen, Return
<1>1. TypeOK
  BY DEF RolloutInv
<1>2. cur'[w] = cur[w] /\ beats'[w] = beats[w]
  BY DEF FailItem, FailRollout, CompleteRollout, MarkRolloutRunning, StartItem, SendUpdate,
     TakeReply, AckTimeout
<1>3. pc[w] \notin {"idle", "beat"}
  BY DEF FailItem, FailRollout, CompleteRollout, MarkRolloutRunning, StartItem, SendUpdate,
     TakeReply, AckTimeout
<1>4. cur[w] \in Rollout /\ rollout[cur[w]] # "absent"
  BY <1>1, <1>3 DEF RolloutInv, WorkerInv, TypeOK
<1>5. pc[w] \in Chosen => \A a \in todo[w] : batch[cur[w]][a] # 0 => CanariesConfirmed(cur[w])
  BY DEF RolloutInv, WorkerInv
<1>6. Rest(w) \subseteq todo[w]
  BY DEF Rest
<1>7. \/ pc'[w] \in {"idle", "beat", "stopExpired", "expire"}
      \/ pc'[w] = "load" /\ todo'[w] = {}
      \/ pc[w] \in Chosen /\ pc'[w] \in Chosen /\ todo'[w] \subseteq todo[w]
  <2> USE <1>1
  <2>1. CASE FailItem(w)
    BY <2>1 DEF TypeOK, FailItem
  <2>2. CASE FailRollout(w)
    BY <1>6, <2>2 DEF TypeOK, FailRollout
  <2>3. CASE CompleteRollout(w)
    BY <2>3 DEF TypeOK, CompleteRollout
  <2>4. CASE MarkRolloutRunning(w)
    BY <2>4 DEF TypeOK, MarkRolloutRunning
  <2>5. CASE StartItem(w)
    BY <2>5 DEF TypeOK, StartItem
  <2>6. CASE SendUpdate(w)
    BY <2>6 DEF TypeOK, SendUpdate
  <2>7. CASE TakeReply(w)
    BY <1>6, <2>7 DEF TypeOK, TakeReply
  <2>8. CASE AckTimeout(w)
    BY <2>8 DEF TypeOK, AckTimeout
  <2> QED
    BY <2>1, <2>2, <2>3, <2>4, <2>5, <2>6, <2>7, <2>8
<1> QED
  BY <1>2, <1>4, <1>5, <1>7, StaysGood

LEMMA WorkersPreserved ==
  ASSUME RolloutInv, [Next]_vars, NEW w \in Worker
  PROVE  WorkerInv(w)'
<1>1. TypeOK
  BY DEF RolloutInv
<1>2. CASE Rests(w)
  <2>1. pc[w] \notin {"idle", "beat"} => rollout[cur[w]] # "absent"
    BY DEF RolloutInv, WorkerInv
  <2> QED
    BY <1>2, <2>1, StaysGood DEF Rests, RolloutInv, WorkerInv, NoPending, NoTodo, Chosen
<1>3. CASE Moves(w) \/ MasterRestart
  BY <1>3, TriggersKeepWorker, QueriesKeepWorker, UpdatesKeepWorker DEF Moves, AdvanceRollout
<1> QED
  BY <1>1, <1>2, <1>3, WhoMoves

-----------------------------------------------------------------------------
(* The outcome.                                                            *)

\* The status of a rollout that has ended is not written again.
LEMMA EndedStays ==
  ASSUME RolloutInv, [Next]_vars, NEW r \in Rollout, rollout[r] \in Ended
  PROVE  rollout'[r] = rollout[r]
<1>1. TypeOK
  BY DEF RolloutInv
<1> USE <1>1
<1>2. CASE Quiet
  BY <1>2 DEF Quiet
<1>3. ASSUME NEW q \in Rollout, CreateRollout(q) PROVE rollout'[r] = rollout[r]
  <2>1. q # r
    BY <1>3 DEF RolloutInv, RowsInv, CreateRollout, Ended
  <2> QED
    BY <1>3, <2>1 DEF TypeOK, CreateRollout
<1>4. ASSUME NEW q \in Rollout, NEW status, EndRollout(q, status) PROVE rollout'[r] = rollout[r]
  BY <1>4 DEF TypeOK, EndRollout, Active, Ended
<1>5. ASSUME NEW q \in Rollout, CancelRollout(q) PROVE rollout'[r] = rollout[r]
  BY <1>4, <1>5 DEF CancelRollout
<1>6. ASSUME NEW w \in Worker, Updates(w) PROVE rollout'[r] = rollout[r]
  <2>1. cur[w] \in Rollout
    BY DEF TypeOK
  <2>2. CASE FailRollout(w) \/ CompleteRollout(w) \/ MarkRolloutRunning(w)
    BY <1>4, <2>1, <2>2 DEF FailRollout, CompleteRollout, MarkRolloutRunning
  <2>3. CASE ItemSucceeds(w) \/ FailItem(w) \/ StartItem(w) \/ SendUpdate(w)
    BY <2>3 DEF ItemSucceeds, FailItem, StartItem, SendUpdate, rowVars
  <2> QED
    BY <1>6, <2>2, <2>3 DEF Updates
<1> QED
  BY <1>2, <1>3, <1>5, <1>6, WhoWrites DEF Writes

-----------------------------------------------------------------------------
(* One run of the coordinator at a time.                                   *)

OneWorker == \A v, w \in Worker : v = w

\* Every way in which the row of an item changes.
LEMMA ItemChange ==
  ASSUME RolloutInv, [Next]_vars, NEW r \in Rollout, NEW a \in Agent, item'[r][a] # item[r][a]
  PROVE  \/ CreateRollout(r)
         \/ CancelRollout(r)
         \/ \E w \in Worker :
              /\ pc'[w] # pc[w]
              /\ \/ ItemSucceeds(w) /\ item'[r][a] = "success" /\ a \in confirmed'[r]
                 \/ FailItem(w) /\ cur[w] = r /\ item'[r][a] = "failed"
                 \/ FailRollout(w) /\ cur[w] = r /\ item'[r][a] = "skipped"
                 \/ StartItem(w) /\ cur[w] = r /\ a \in todo[w] /\ item'[r][a] = "running"
<1> USE DEF Goto
<1>1. TypeOK
  BY DEF RolloutInv
<1>2. ASSUME NEW q \in Rollout, Writes(q) PROVE Writes(r)
  <2>1. PICK new : item' = [item EXCEPT ![q] = new]
    BY <1>2 DEF Writes, CreateRollout, PlanItems, CancelRollout
  <2>2. q = r
    BY <1>1, <2>1 DEF TypeOK
  <2> QED
    BY <1>2, <2>2
<1>3. ASSUME NEW w \in Worker, Updates(w)
      PROVE  /\ pc'[w] # pc[w]
             /\ \/ ItemSucceeds(w) /\ item'[r][a] = "success" /\ a \in confirmed'[r]
                \/ FailItem(w) /\ cur[w] = r /\ item'[r][a] = "failed"
                \/ FailRollout(w) /\ cur[w] = r /\ item'[r][a] = "skipped"
                \/ StartItem(w) /\ cur[w] = r /\ a \in todo[w] /\ item'[r][a] = "running"
  <2> USE <1>1
  <2>1. cur[w] \in Rollout /\ todo[w] \subseteq Agent
    BY DEF TypeOK
  <2>2. CASE ItemSucceeds(w)
    <3>1. PICK beat \in beats[w] : ItemSucceeds(w)!(beat)
      BY <2>2 DEF ItemSucceeds
    <3>2. beat[1] \in Rollout /\ beat[2] \in Agent
      BY <3>1 DEF TypeOK
    <3>3. beat[1] = r /\ beat[2] = a
      BY <3>1, <3>2 DEF TypeOK, SetItem
    <3>4. item'[r][a] = "success" /\ a \in confirmed'[r]
      BY <3>1, <3>2, <3>3 DEF TypeOK, SetItem
    <3>5. pc'[w] # pc[w]
      BY <3>1 DEF TypeOK
    <3> QED
      BY <2>2, <3>4, <3>5
  <2>3. CASE FailItem(w)
    <3>1. PICK b \in todo[w] : SetItem(cur[w], b, "failed")
      BY <2>3 DEF FailItem
    <3>2. cur[w] = r /\ item'[r][a] = "failed"
      BY <2>1, <3>1 DEF TypeOK, SetItem
    <3>3. pc'[w] # pc[w]
      BY <2>3 DEF TypeOK, FailItem
    <3> QED
      BY <2>3, <3>2, <3>3
  <2>4. CASE FailRollout(w)
    <3>1. cur[w] = r /\ item'[r][a] = "skipped"
      BY <2>1, <2>4 DEF TypeOK, FailRollout, SkipPending
    <3>2. pc'[w] # pc[w]
      BY <2>4 DEF TypeOK, FailRollout, Return
    <3> QED
      BY <2>4, <3>1, <3>2
  <2>5. CASE StartItem(w)
    <3>1. PICK b \in todo[w] : StartItem(w)!(b)
      BY <2>5 DEF StartItem
    <3>2. SetItem(cur[w], b, "running")
      BY <3>1
    <3>3. cur[w] = r /\ a = b /\ item'[r][a] = "running"
      BY <2>1, <3>2 DEF TypeOK, SetItem
    <3>4. pc'[w] # pc[w]
      BY <3>1 DEF TypeOK
    <3> QED
      BY <2>5, <3>3, <3>4
  <2>6. CASE CompleteRollout(w) \/ MarkRolloutRunning(w) \/ SendUpdate(w)
    BY <2>6 DEF CompleteRollout, MarkRolloutRunning, SendUpdate, rowVars
  <2> QED
    BY <1>3, <2>2, <2>3, <2>4, <2>5, <2>6 DEF Updates
<1> QED
  BY <1>2, <1>3, WhoWrites DEF Quiet, Writes

\* What the request leaves of the items of the rollout.
LEMMA CreatedItems ==
  ASSUME RolloutInv, NEW r \in Rollout, CreateRollout(r), NEW a \in Agent
  PROVE  /\ item'[r][a] \in {"pending", "skipped", "success", "absent"}
         /\ batch'[r][a] # -1 => item'[r][a] = "pending"
         /\ rollout'[r] = "pending"
<1>1. TypeOK
  BY DEF RolloutInv
<1>2. PICK skipped : PlanItems(r, skipped)
  BY DEF CreateRollout
<1> QED
  BY <1>1, <1>2 DEF TypeOK, CreateRollout, PlanItems

LEMMA CancelledItems ==
  ASSUME RolloutInv, NEW r \in Rollout, CancelRollout(r), NEW a \in Agent, item'[r][a] # item[r][a]
  PROVE  item'[r][a] = "skipped"
BY DEF RolloutInv, TypeOK, CancelRollout

\* A rollout that has not been created yet stays as it is or is created.
LEMMA NotYet ==
  ASSUME RolloutInv, [Next]_vars, NEW r \in Rollout
  PROVE  \/ CreateRollout(r)
         \/ rollout'[r] = "absent" /\ \A a \in Agent : item'[r][a] = "absent"
         \/ rollout[r] # "absent" /\ Kept(r)
BY NextKeeps, CreatedOnce, RowsPreserved DEF RowsInv

Completes(w, r) ==
  CompleteRollout(w) /\ pc[w] = "succeed" /\ cur[w] = r /\ rollout[r] \in Active

\* Only its creation writes the batches of a rollout, only its run completes it.
LEMMA RolloutChange ==
  ASSUME RolloutInv, [Next]_vars, NEW r \in Rollout
  PROVE  /\ batch'[r] = batch[r] \/ CreateRollout(r)
         /\ rollout'[r] = "succeeded" =>
              rollout[r] = "succeeded" \/ \E w \in Worker : Completes(w, r)
<1> USE DEF Goto, ghostVars
<1>1. TypeOK
  BY DEF RolloutInv
<1>2. CASE Quiet
  BY <1>2 DEF Quiet
<1>3. ASSUME NEW q \in Rollout, CreateRollout(q)
      PROVE  /\ rollout'[r] = rollout[r] \/ rollout'[r] = "pending"
             /\ batch'[r] = batch[r] \/ q = r
  BY <1>1, <1>3 DEF TypeOK, CreateRollout, PlanItems
<1>4. ASSUME NEW q \in Rollout, CancelRollout(q)
      PROVE  batch'[r] = batch[r] /\ (rollout'[r] = rollout[r] \/ rollout'[r] = "cancelled")
  BY <1>1, <1>4 DEF TypeOK, CancelRollout, EndRollout
<1>5. ASSUME NEW w \in Worker, Updates(w)
      PROVE  /\ batch'[r] = batch[r]
             /\ rollout'[r] = "succeeded" =>
                  rollout[r] = "succeeded" \/ Completes(w, r)
  <2> USE <1>1
  <2>1. cur[w] \in Rollout
    BY DEF TypeOK
  <2>2. CASE FailRollout(w)
    BY <2>2 DEF TypeOK, FailRollout, EndRollout
  <2>3. CASE MarkRolloutRunning(w)
    BY <2>3 DEF TypeOK, MarkRolloutRunning, EndRollout
  <2>4. CASE CompleteRollout(w)
    BY <2>1, <2>4 DEF TypeOK, Completes, CompleteRollout, EndRollout
  <2>5. CASE ItemSucceeds(w) \/ FailItem(w) \/ StartItem(w) \/ SendUpdate(w)
    BY <2>5 DEF ItemSucceeds, FailItem, StartItem, SendUpdate, rowVars
  <2> QED
    BY <1>5, <2>2, <2>3, <2>4, <2>5 DEF Updates
<1> QED
  BY <1>2, <1>3, <1>4, <1>5, WhoWrites DEF Writes

LEMMA PlannedPreserved ==
  ASSUME RolloutInv, SerialInv, [Next]_vars, NEW r \in Rollout
  PROVE  PlannedInv(r)'
<1> SUFFICES ASSUME NEW a \in Agent, batch'[r][a] >= 0
             PROVE  /\ item'[r][a] # "absent"
                    /\ item'[r][a] = "success" => a \in confirmed'[r]
                    /\ item'[r][a] = "skipped" => rollout'[r] \in Ended
  BY DEF PlannedInv, Planned
<1>1. TypeOK
  BY DEF RolloutInv
<1>2. CASE CreateRollout(r)
  BY <1>2, CreatedItems
<1>3. CASE ~CreateRollout(r)
  <2>1. /\ batch[r][a] >= 0 /\ item[r][a] # "absent"
        /\ item[r][a] = "success" => a \in confirmed[r]
        /\ item[r][a] = "skipped" => rollout[r] \in Ended
    BY <1>3, RolloutChange DEF SerialInv, PlannedInv, Planned
  <2>2. rollout[r] # "absent" /\ Kept(r)
    BY <2>1, NextKeeps DEF RolloutInv, RowsInv
  <2>3. CASE item'[r][a] = item[r][a]
    BY <2>1, <2>2, <2>3, EndedStays DEF Kept
  <2>4. CASE item'[r][a] # item[r][a]
    <3>1. ASSUME NEW status \in Ended, EndRollout(r, status) PROVE rollout'[r] \in Ended
      BY <1>1, <2>2, <3>1 DEF TypeOK, EndRollout
    <3>2. ASSUME CancelRollout(r) PROVE item'[r][a] = "skipped" /\ rollout'[r] \in Ended
      BY <2>4, <3>1, <3>2, CancelledItems DEF CancelRollout, Ended
    <3>3. ASSUME NEW w \in Worker, FailRollout(w), cur[w] = r PROVE rollout'[r] \in Ended
      BY <3>1, <3>3 DEF FailRollout, Ended
    <3> QED
      BY <1>3, <2>4, <3>2, <3>3, ItemChange
  <2> QED
    BY <2>3, <2>4
<1> QED
  BY <1>2, <1>3

LEMMA SucceededPreserved ==
  ASSUME RolloutInv, SerialInv, [Next]_vars
  PROVE  SucceededIsUpgraded'
<1> SUFFICES ASSUME NEW r \in Rollout, rollout'[r] = "succeeded", NEW a \in Agent, batch'[r][a] >= 0
             PROVE  a \in confirmed'[r]
  BY DEF SucceededIsUpgraded, Planned
<1>1. rollout[r] # "absent" /\ Kept(r)
  BY NotYet, CreatedItems
<1>2. CASE rollout[r] = "succeeded"
  BY <1>1, <1>2 DEF SerialInv, SucceededIsUpgraded, Planned, Kept
<1>3. CASE rollout[r] # "succeeded"
  <2>1. PICK w \in Worker : Completes(w, r)
    BY <1>3, RolloutChange
  <2>2. item[r][a] \notin {"pending", "running", "failed"}
    BY <2>1 DEF Completes, RolloutInv, WorkerInv, NothingWaits, SerialInv, ChoiceInv, NoneRunning, ItemsIn
  <2>3. item[r][a] \notin {"absent", "skipped"} /\ (item[r][a] = "success" => a \in confirmed[r])
    BY <1>1, <2>1 DEF Completes, SerialInv, PlannedInv, Planned, Kept, Active, Ended
  <2>4. item[r][a] \in ItemStatus
    BY DEF RolloutInv, TypeOK
  <2>5. a \in confirmed[r]
    BY <2>2, <2>3, <2>4 DEF ItemStatus
  <2> QED
    BY <1>1, <2>5 DEF Kept
<1> QED
  BY <1>2, <1>3

LEMMA OneBatchPreserved ==
  ASSUME OneWorker, RolloutInv, SerialInv, [Next]_vars
  PROVE  OneBatchAtATime'
<1> SUFFICES ASSUME NEW r \in Rollout, NEW a \in Agent, NEW b \in Agent,
                    item'[r][a] = "running", item'[r][b] = "running"
             PROVE  batch'[r][a] = batch'[r][b]
  BY DEF OneBatchAtATime, ItemsIn
<1>1. rollout[r] # "absent" /\ Kept(r)
  BY NotYet, CreatedItems
<1>2. ASSUME NEW x \in Agent, item'[r][x] = "running", item[r][x] # "running"
      PROVE  \E w \in Worker : StartItem(w) /\ cur[w] = r /\ x \in todo[w]
  <2>1. ~CreateRollout(r) /\ ~CancelRollout(r)
    BY <1>2, CreatedItems, CancelledItems
  <2> QED
    BY <1>2, <2>1, ItemChange
<1>3. ASSUME NEW w \in Worker, StartItem(w), cur[w] = r, NEW x \in todo[w],
             NEW y \in todo[w] \cup ItemsIn(r, {"running"})
      PROVE  batch[r][x] = batch[r][y]
  BY <1>3 DEF SerialInv, ChoiceInv, BatchChosen, StartItem, Goto
<1>4. CASE item[r][a] = "running" /\ item[r][b] = "running"
  BY <1>1, <1>4 DEF SerialInv, OneBatchAtATime, ItemsIn, Kept
<1>5. CASE item[r][a] # "running"
  <2>1. PICK w \in Worker : StartItem(w) /\ cur[w] = r /\ a \in todo[w]
    BY <1>2, <1>5
  <2>2. b \in todo[w] \cup ItemsIn(r, {"running"})
    BY <1>2, <2>1 DEF OneWorker, ItemsIn
  <2> QED
    BY <1>1, <1>3, <2>1, <2>2 DEF Kept
<1>6. CASE item[r][b] # "running"
  <2>1. PICK w \in Worker : StartItem(w) /\ cur[w] = r /\ b \in todo[w]
    BY <1>2, <1>6
  <2>2. a \in todo[w] \cup ItemsIn(r, {"running"})
    BY <1>2, <2>1 DEF OneWorker, ItemsIn
  <2> QED
    BY <1>1, <1>3, <2>1, <2>2 DEF Kept
<1> QED
  BY <1>4, <1>5, <1>6

\* What a worker has counted and chosen stays good in any step after which it
\* still finds the rows so.
LEMMA StaysChosen ==
  ASSUME RolloutInv, [Next]_vars, NEW w \in Worker,
         cur'[w] = cur[w], pc'[w] \notin {"idle", "beat"} => rollout[cur[w]] # "absent",
         pc'[w] = "succeed" => ItemsIn(cur[w], {"failed"})' = {},
         pc'[w] \in NoneRunning => ItemsIn(cur[w], {"running"})' = {},
         pc'[w] \in BatchChosen =>
           \A a \in todo'[w], b \in todo'[w] \cup ItemsIn(cur[w], {"running"})' :
              batch[cur[w]][a] = batch[cur[w]][b]
  PROVE  ChoiceInv(w)'
<1>1. cur[w] \in Rollout
  BY DEF RolloutInv, TypeOK
<1>2. CASE pc'[w] \in {"idle", "beat"}
  BY <1>2 DEF ChoiceInv, NoneRunning, BatchChosen
<1>3. CASE pc'[w] \notin {"idle", "beat"}
  <2>1. batch'[cur[w]] = batch[cur[w]]
    BY <1>1, <1>3, NextKeeps DEF Kept
  <2> QED
    BY <2>1 DEF ChoiceInv, ItemsIn
<1> QED
  BY <1>2, <1>3

Counts(w) ==
  FindOverdue(w) \/ Decide(w) \/ PendingCanaries(w) \/ FirstBatch(w) \/ PickBatch(w)
  \/ CompleteRollout(w) \/ MarkRolloutRunning(w) \/ SendUpdate(w) \/ TakeReply(w) \/ AckTimeout(w)

\* The steps that leave the items alone.
LEMMA CountsKeepChoice ==
  ASSUME RolloutInv, SerialInv, [Next]_vars, NEW w \in Worker, Counts(w)
  PROVE  ChoiceInv(w)'
<1> USE DEF Goto, Todo, Return, NoneRunning, BatchChosen, rowVars
<1>1. TypeOK
  BY DEF RolloutInv
<1>2. cur'[w] = cur[w] /\ item' = item
  BY DEF Counts, FindOverdue, Decide, PendingCanaries, FirstBatch, PickBatch, CompleteRollout,
     MarkRolloutRunning, SendUpdate, TakeReply, AckTimeout
<1>3. pc[w] \notin {"idle", "beat"}
  BY DEF Counts, FindOverdue, Decide, LoadRollout, CountFailed, CountRunning, CountPending,
     CountFailedAgain, CheckCanaries, PendingCanaries, FirstBatch, PickBatch, CompleteRollout,
     MarkRolloutRunning, SendUpdate, TakeReply, AckTimeout
<1>4. cur[w] \in Rollout /\ rollout[cur[w]] # "absent"
  BY <1>1, <1>3 DEF RolloutInv, WorkerInv, TypeOK
<1>5. \A s : ItemsIn(cur[w], s)' = ItemsIn(cur[w], s)
  BY <1>2 DEF ItemsIn
<1> DEFINE running == ItemsIn(cur[w], {"running"})
           OneBatch(set) == \A a \in set, b \in set \cup running : batch[cur[w]][a] = batch[cur[w]][b]
<1>6. /\ pc[w] \in NoneRunning => running = {}
      /\ pc[w] \in BatchChosen => OneBatch(todo[w])
  BY DEF SerialInv, ChoiceInv
<1>7. SUFFICES /\ pc'[w] = "succeed" => ItemsIn(cur[w], {"failed"}) = {}
               /\ pc'[w] \in NoneRunning => running = {}
               /\ pc'[w] \in BatchChosen => OneBatch(todo'[w])
  <2> HIDE DEF NoneRunning, BatchChosen, Return
  <2> QED
    BY <1>2, <1>4, <1>5, StaysChosen
<1> USE <1>1
<1>8. CASE FindOverdue(w)
  BY <1>8 DEF TypeOK, FindOverdue
<1>9. CASE Decide(w)
  <2>1. todo' = todo
    BY <1>9 DEF Decide
  <2>2. CASE LoadRollout(w) \/ CountFailed(w)
    BY <2>2 DEF TypeOK, LoadRollout, CountFailed
  <2>3. CASE CountRunning(w)
    <3>1. \/ pc'[w] = "mark" /\ todo[w] = {}
          \/ pc'[w] = "countPending" /\ running = {}
      BY <2>3 DEF TypeOK, RolloutInv, WorkerInv, CountRunning
    <3> QED
      BY <2>1, <3>1
  <2>4. CASE CountPending(w)
    <3>1. pc'[w] \in {"canaries", "countFailedAgain"} /\ running = {}
      BY <1>6, <2>4 DEF TypeOK, CountPending
    <3> QED
      BY <3>1
  <2>5. CASE CountFailedAgain(w)
    <3>1. /\ pc'[w] \in {"fail", "succeed"} /\ running = {}
          /\ pc'[w] = "succeed" => ItemsIn(cur[w], {"failed"}) = {}
      BY <1>6, <2>5 DEF TypeOK, CountFailedAgain
    <3> QED
      BY <3>1
  <2>6. CASE CheckCanaries(w)
    <3>1. pc'[w] \in {"mark", "firstBatch"} /\ running = {} /\ todo[w] = {}
      BY <1>6, <2>6 DEF TypeOK, RolloutInv, WorkerInv, CheckCanaries
    <3> QED
      BY <2>1, <3>1
  <2> QED
    BY <1>9, <2>2, <2>3, <2>4, <2>5, <2>6 DEF Decide
<1>10. CASE PendingCanaries(w)
  <2>1. /\ pc'[w] \in {"mark", "checkCanaries"} /\ running = {}
        /\ \A a \in todo'[w] : batch[cur[w]][a] = 0
    BY <1>6, <1>10 DEF TypeOK, PendingCanaries, Canaries
  <2> QED
    BY <2>1
<1>11. CASE FirstBatch(w)
  <2>1. /\ pc'[w] \in {"pickBatch", "mark"} /\ running = {}
        /\ \A a, b \in todo'[w] : batch[cur[w]][a] <= batch[cur[w]][b]
    BY <1>6, <1>11 DEF TypeOK, FirstBatch
  <2>2. \A a \in todo'[w] : batch[cur[w]][a] \in Int
    BY <1>4, <1>11 DEF TypeOK, FirstBatch, ItemsIn
  <2>3. \A a, b \in todo'[w] : batch[cur[w]][a] = batch[cur[w]][b]
    BY <2>1, <2>2
  <2> QED
    BY <2>1, <2>3
<1>12. CASE PickBatch(w)
  <2>1. pc'[w] = "mark" /\ todo'[w] \subseteq todo[w] /\ OneBatch(todo[w])
    BY <1>6, <1>12 DEF TypeOK, PickBatch
  <2> QED
    BY <2>1
<1>13. CASE CompleteRollout(w)
  BY <1>13 DEF TypeOK, CompleteRollout
<1>14. CASE MarkRolloutRunning(w)
  <2>1. pc'[w] \in {"idle", "beat", "start"} /\ todo' = todo /\ OneBatch(todo[w])
    BY <1>6, <1>14 DEF TypeOK, MarkRolloutRunning
  <2> QED
    BY <2>1
<1>15. CASE SendUpdate(w)
  <2>1. pc'[w] \in {"refused", "wait"} /\ todo' = todo /\ OneBatch(todo[w])
    BY <1>6, <1>15 DEF TypeOK, SendUpdate
  <2> QED
    BY <2>1
<1>16. CASE TakeReply(w)
  <2>1. Rest(w) \subseteq todo[w]
    BY DEF Rest
  <2>2. pc'[w] \in {"idle", "beat", "start", "refused"} /\ todo'[w] \subseteq todo[w] /\ OneBatch(todo[w])
    BY <1>6, <1>16, <2>1 DEF TypeOK, TakeReply
  <2> QED
    BY <2>2
<1>17. CASE AckTimeout(w)
  <2>1. pc'[w] = "refused" /\ todo' = todo /\ OneBatch(todo[w])
    BY <1>6, <1>17 DEF TypeOK, AckTimeout
  <2> QED
    BY <2>1
<1> QED
  BY <1>8, <1>9, <1>10, <1>11, <1>12, <1>13, <1>14, <1>15, <1>16, <1>17 DEF Counts

\* The steps that write items, and those that leave the coordinator idle.
LEMMA WritesKeepChoice ==
  ASSUME RolloutInv, SerialInv, [Next]_vars, NEW w \in Worker,
         \/ \E r \in Rollout : CreateAdvance(w, r)
         \/ \E a \in Agent : HandleHeartbeat(w, a)
         \/ ItemSucceeds(w) \/ FailItem(w) \/ FailRollout(w) \/ StartItem(w) \/ MasterRestart
  PROVE  ChoiceInv(w)'
<1> USE DEF Goto, Todo, Return, NoneRunning, BatchChosen
<1>1. TypeOK
  BY DEF RolloutInv
<1> USE <1>1
<1>2. cur[w] \in Rollout /\ todo[w] \subseteq Agent
  BY DEF TypeOK
<1>3. ASSUME pc'[w] \in {"idle", "beat", "overdue", "stopExpired", "expire", "load"} PROVE ChoiceInv(w)'
  BY <1>3 DEF ChoiceInv
<1>4. CASE \/ \E r \in Rollout : CreateAdvance(w, r)
           \/ \E a \in Agent : HandleHeartbeat(w, a)
           \/ ItemSucceeds(w) \/ MasterRestart
  <2>1. pc'[w] \in {"idle", "beat", "overdue"}
    BY <1>4 DEF TypeOK, CreateAdvance, HandleHeartbeat, ItemSucceeds, MasterRestart
  <2> QED
    BY <1>3, <2>1
<1>5. CASE FailItem(w)
  <2>1. CASE pc[w] # "refused"
    BY <1>3, <1>5, <2>1 DEF TypeOK, FailItem
  <2>2. CASE pc[w] = "refused"
    <3>1. PICK c \in todo[w] : SetItem(cur[w], c, "failed")
      BY <1>5 DEF FailItem
    <3>2. pc'[w] = "stopRefused" /\ cur'[w] = cur[w] /\ todo'[w] = todo[w]
      BY <1>5, <2>2 DEF TypeOK, FailItem
    <3>3. ItemsIn(cur[w], {"running"})' \subseteq ItemsIn(cur[w], {"running"})
      BY <1>2, <3>1, <3>2 DEF TypeOK, SetItem, ItemsIn
    <3>4. rollout[cur[w]] # "absent"
      BY <2>2 DEF RolloutInv, WorkerInv
    <3>5. \A a \in todo[w], b \in todo[w] \cup ItemsIn(cur[w], {"running"}) : batch[cur[w]][a] = batch[cur[w]][b]
      BY <2>2 DEF SerialInv, ChoiceInv
    <3> QED
      BY <3>2, <3>3, <3>4, <3>5, StaysChosen
  <2> QED
    BY <2>1, <2>2
<1>6. CASE FailRollout(w)
  <2>1. CASE pc[w] # "stopRefused"
    BY <1>3, <1>6, <2>1 DEF TypeOK, FailRollout
  <2>2. CASE pc[w] = "stopRefused"
    <3>1. pc'[w] \in {"idle", "beat", "start"} /\ cur'[w] = cur[w] /\ todo'[w] \subseteq todo[w]
      BY <1>6, <2>2 DEF TypeOK, FailRollout, Rest
    <3>2. ItemsIn(cur[w], {"running"})' \subseteq ItemsIn(cur[w], {"running"})
      BY <1>2, <1>6 DEF TypeOK, FailRollout, SkipPending, ItemsIn
    <3>3. rollout[cur[w]] # "absent"
      BY <2>2 DEF RolloutInv, WorkerInv
    <3>4. \A a \in todo[w], b \in todo[w] \cup ItemsIn(cur[w], {"running"}) : batch[cur[w]][a] = batch[cur[w]][b]
      BY <2>2 DEF SerialInv, ChoiceInv
    <3> QED
      BY <3>1, <3>2, <3>3, <3>4, StaysChosen
  <2> QED
    BY <2>1, <2>2
<1>7. CASE StartItem(w)
  <2>1. PICK a \in todo[w] : StartItem(w)!(a)
    BY <1>7 DEF StartItem
  <2>2. pc[w] = "start" /\ pc'[w] \in {"refused", "send"} /\ cur'[w] = cur[w] /\ todo'[w] = todo[w]
    BY <2>1 DEF TypeOK
  <2>3. ItemsIn(cur[w], {"running"})' \subseteq ItemsIn(cur[w], {"running"}) \cup {a}
    BY <1>2, <2>1 DEF TypeOK, SetItem, ItemsIn
  <2>4. rollout[cur[w]] # "absent"
    BY <2>2 DEF RolloutInv, WorkerInv
  <2>5. \A x \in todo[w], y \in todo[w] \cup ItemsIn(cur[w], {"running"}) : batch[cur[w]][x] = batch[cur[w]][y]
    BY <2>2 DEF SerialInv, ChoiceInv
  <2> QED
    BY <2>1, <2>2, <2>3, <2>4, <2>5, StaysChosen
<1> QED
  BY <1>4, <1>5, <1>6, <1>7

\* While the only coordinator rests, requests may only cancel what it has counted.
LEMMA RestKeepsChoice ==
  ASSUME OneWorker, RolloutInv, SerialInv, [Next]_vars, NEW w \in Worker, Rests(w)
  PROVE  ChoiceInv(w)'
<1>1. CASE pc[w] \in {"idle", "beat"}
  BY <1>1 DEF Rests, ChoiceInv, NoneRunning, BatchChosen
<1>2. CASE pc[w] \notin {"idle", "beat"}
  <2>1. rollout[cur[w]] # "absent" /\ cur[w] \in Rollout
    BY <1>2 DEF RolloutInv, WorkerInv, TypeOK
  <2>2. ~CreateRollout(cur[w])
    BY <2>1 DEF CreateRollout, RolloutInv, RowsInv
  <2>3. ASSUME NEW a \in Agent, item'[cur[w]][a] # item[cur[w]][a] PROVE item'[cur[w]][a] = "skipped"
    <3>1. CancelRollout(cur[w])
      BY <2>1, <2>2, <2>3, ItemChange DEF OneWorker, Rests
    <3> QED
      BY <2>1, <2>3, <3>1, CancelledItems
  <2>4. /\ ItemsIn(cur[w], {"running"})' \subseteq ItemsIn(cur[w], {"running"})
        /\ ItemsIn(cur[w], {"failed"})' \subseteq ItemsIn(cur[w], {"failed"})
    BY <2>3 DEF ItemsIn, Rests
  <2> QED
    BY <2>1, <2>4, StaysChosen DEF Rests, SerialInv, ChoiceInv
<1> QED
  BY <1>1, <1>2

-----------------------------------------------------------------------------
(* The theorems.                                                           *)

\* However many runs of AdvanceRollout interleave with requests, heartbeats and
\* restarts, what each has read stays good until it acts (service.go:159-221).
THEOREM RolloutCorrect == Spec => []RolloutInv
<1>1. Init => RolloutInv
  <2> SUFFICES ASSUME Init PROVE RolloutInv
    OBVIOUS
  <2>1. TypeOK
    BY InitType
  <2>2. NothingWaitsInEnded /\ CanariesFirst
    BY DEF Init, NothingWaitsInEnded, CanariesFirst, Ended
  <2>3. \A r \in Rollout : RowsInv(r)
    BY DEF Init, RowsInv, Canaries
  <2>4. \A w \in Worker : WorkerInv(w)
    BY DEF Init, WorkerInv
  <2> QED
    BY <2>1, <2>2, <2>3, <2>4 DEF RolloutInv
<1>2. RolloutInv /\ [Next]_vars => RolloutInv'
  <2> SUFFICES ASSUME RolloutInv, [Next]_vars PROVE RolloutInv'
    OBVIOUS
  <2>1. TypeOK'
    BY TypePreserved DEF RolloutInv
  <2>2. NothingWaitsInEnded'
    BY EndedPreserved DEF NothingWaitsInEnded
  <2> QED
    BY <2>1, <2>2, CanariesFirstPreserved, RowsPreserved, WorkersPreserved DEF RolloutInv
<1> QED
  BY <1>1, <1>2, PTL DEF Spec

\* No item waits in a rollout that failed, succeeded or was cancelled: failRollout,
\* completeRollout and CancelRollout leave nothing behind (service.go:275, 380, 430).
THEOREM NothingLeftWaiting == Spec => []NothingWaitsInEnded
<1>1. RolloutInv => NothingWaitsInEnded
  BY DEF RolloutInv
<1> QED
  BY <1>1, RolloutCorrect, PTL

\* No agent of a later batch is asked before every canary has reported the target
\* version (nextItems, service.go:480).
THEOREM CanariesGoFirst == Spec => []CanariesFirst
<1>1. RolloutInv => CanariesFirst
  BY DEF RolloutInv
<1> QED
  BY <1>1, RolloutCorrect, PTL

\* The first outcome of a rollout stands: every update of the status is guarded by
\* status IN (pending, running) (service.go:385, 445).
THEOREM OutcomeStands == Spec => OutcomeIsFinal
<1>1. RolloutInv /\ [Next]_vars =>
        [\A r \in Rollout : rollout[r] \in Ended => rollout'[r] = rollout[r]]_vars
  BY EndedStays
<1> QED
  BY <1>1, RolloutCorrect, PTL DEF Spec, OutcomeIsFinal

\* With one run of AdvanceRollout at a time, a rollout is reported successful only
\* when every planned agent has reported the target version, and no batch starts
\* before the one before it is over, whatever requests, cancels, lost messages and
\* restarts come between its queries and its updates (service.go:159-262, 480-517).
THEOREM OneCoordinator == ASSUME OneWorker PROVE Spec => []SerialInv
<1>1. Init => SerialInv
  BY DEF Init, SerialInv, SucceededIsUpgraded, OneBatchAtATime, PlannedInv, Planned, ItemsIn,
     ChoiceInv, NoneRunning, BatchChosen
<1>2. RolloutInv /\ SerialInv /\ [Next]_vars => SerialInv'
  <2> SUFFICES ASSUME RolloutInv, SerialInv, [Next]_vars PROVE SerialInv'
    OBVIOUS
  <2>1. \A r \in Rollout : PlannedInv(r)'
    BY PlannedPreserved
  <2>2. SucceededIsUpgraded' /\ OneBatchAtATime'
    BY SucceededPreserved, OneBatchPreserved
  <2>3. ASSUME NEW w \in Worker PROVE ChoiceInv(w)'
    <3>1. Rests(w) \/ Moves(w) \/ MasterRestart
      BY WhoMoves DEF RolloutInv
    <3> QED
      BY <3>1, RestKeepsChoice, WritesKeepChoice, CountsKeepChoice DEF Moves, AdvanceRollout, Counts
  <2> QED
    BY <2>1, <2>2, <2>3 DEF SerialInv
<1> QED
  BY <1>1, <1>2, RolloutCorrect, PTL DEF Spec
=============================================================================
