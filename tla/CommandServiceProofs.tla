------------------------- MODULE CommandServiceProofs -------------------------
(***************************************************************************)
(* Theorems about the command service, for every set of commands, agents   *)
(* and dispatchers and every bound.                                        *)
(***************************************************************************)
EXTENDS CommandService, TLAPS

-----------------------------------------------------------------------------
(* Type correctness.                                                       *)

LEMMA WriteType ==
  ASSUME TypeOK, NEW m \in Message, Write(m)
  PROVE  wire' \in [Agent -> Seq(Message)]
<1>1. AgentOf[m.cmd] \in Agent
  BY KindAssumption DEF Message
<1>2. wire[AgentOf[m.cmd]] \in Seq(Message)
  BY <1>1 DEF TypeOK
<1>3. Append(wire[AgentOf[m.cmd]], m) \in Seq(Message)
  BY <1>2
<1> QED
  BY <1>1, <1>3 DEF TypeOK, Write

LEMMA MessageType ==
  ASSUME NEW c \in Command
  PROVE  CommandMsg(c) \in Message /\ CancelMsg(c) \in Message
BY DEF CommandMsg, CancelMsg, Message

LEMMA DeliverType ==
  ASSUME TypeOK, NEW c \in Command, Deliver(c)
  PROVE  /\ wire' \in [Agent -> Seq(Message)]
         /\ delivered' \subseteq Command /\ resent' \subseteq Command
BY WriteType, MessageType DEF Deliver, TypeOK

LEMMA MarkType ==
  ASSUME TypeOK, NEW c \in Command, MarkDispatched(c) \/ MarkPending(c)
  PROVE  /\ status' \in [Command -> Active \cup Terminal \cup {"absent"}]
         /\ task' \in [Command -> TaskActive \cup TaskTerminal \cup {"none"}]
         /\ UNCHANGED ctype
<1>1. DispatchedStatus(c) \in Active
  BY DEF DispatchedStatus, Active
<1>2. "pending" \in Active /\ "pending" \in TaskActive /\ "running" \in TaskActive
  BY DEF Active, TaskActive
<1>3. CASE MarkDispatched(c)
  BY <1>1, <1>2, <1>3 DEF TypeOK, MarkDispatched
<1>4. CASE MarkPending(c)
  BY <1>2, <1>4 DEF TypeOK, MarkPending
<1> QED
  BY <1>3, <1>4

LEMMA FinishType ==
  ASSUME TypeOK, NEW c \in Command, NEW s \in Terminal, Finish(c, s)
  PROVE  status' \in [Command -> Active \cup Terminal \cup {"absent"}]
BY DEF TypeOK, Finish

LEMMA TypeDispatch ==
  ASSUME TypeOK, NEW d \in Dispatcher, Dispatch(d)
  PROVE  TypeOK'
<1>1. ASSUME NEW a \in Agent, NEW redeliver \in BOOLEAN, DispatchForAgent(d, a, redeliver)
      PROVE  TypeOK'
  BY <1>1 DEF TypeOK, DispatchForAgent, dbVars, ghostVars, scanVars, refreshVars
<1>2. CASE LockAndSelect(d)
  BY <1>2 DEF TypeOK, LockAndSelect, Batch, Eligible, dbVars, ghostVars, scanVars, refreshVars
<1>3. CASE DispatchAborts(d)
  BY <1>3 DEF TypeOK, DispatchAborts, dbVars, ghostVars, scanVars, refreshVars
<1>4. ASSUME NEW c \in Command, PrepareMessageForDispatch(d, c)
      PROVE  TypeOK'
  BY <1>4 DEF TypeOK, PrepareMessageForDispatch, Goto, LongTypes, ShortTypes,
     ghostVars, scanVars, refreshVars
<1>5. ASSUME NEW c \in Command, CapabilitiesUnknown(d, c)
      PROVE  TypeOK'
  BY <1>5 DEF TypeOK, CapabilitiesUnknown, Advance, dbVars, ghostVars, scanVars, refreshVars
<1>6. ASSUME NEW c \in Command, FailCommandAndTask(d, c)
      PROVE  TypeOK'
  BY <1>6 DEF TypeOK, FailCommandAndTask, Advance, Terminal, TaskTerminal,
     ghostVars, scanVars, refreshVars
<1>7. ASSUME NEW c \in Command, RecordDispatchSuccess(d, c)
      PROVE  TypeOK'
  <2>1. dpc' \in [Dispatcher -> {"idle", "lock", "prepare", "record", "send", "rollback"}]
        /\ todo' \in [Dispatcher -> SUBSET Command] /\ UNCHANGED dreq
    <3>1. CASE Goto(d, "send")
      BY <3>1 DEF TypeOK, Goto
    <3>2. CASE Advance(d, c)
      BY <3>2 DEF TypeOK, Advance
    <3> QED
      BY <1>7, <3>1, <3>2 DEF RecordDispatchSuccess
  <2>2. /\ status' \in [Command -> Active \cup Terminal \cup {"absent"}]
        /\ task' \in [Command -> TaskActive \cup TaskTerminal \cup {"none"}]
        /\ UNCHANGED ctype
    BY <1>7, MarkType DEF RecordDispatchSuccess
  <2>3. UNCHANGED <<expired, conn, wire, agent, ghostVars, cancel, scanVars, refreshVars, restarts>>
    BY <1>7 DEF RecordDispatchSuccess
  <2> QED
    BY <2>1, <2>2, <2>3 DEF TypeOK, ghostVars, scanVars, refreshVars
<1>8. ASSUME NEW c \in Command, HubSend(d, c)
      PROVE  TypeOK'
  BY <1>8, DeliverType DEF TypeOK, HubSend, Advance, dbVars, scanVars, refreshVars
<1>9. ASSUME NEW c \in Command, HubSendFails(d, c)
      PROVE  TypeOK'
  BY <1>9 DEF TypeOK, HubSendFails, Goto, dbVars, ghostVars, scanVars, refreshVars
<1>10. ASSUME NEW c \in Command, RollbackDispatchFailure(d, c)
       PROVE  TypeOK'
  BY <1>10, MarkType DEF TypeOK, RollbackDispatchFailure, Advance, ghostVars, scanVars,
     refreshVars
<1> QED
  BY <1>1, <1>2, <1>3, <1>4, <1>5, <1>6, <1>7, <1>8, <1>9, <1>10 DEF Dispatch

LEMMA TypeRequest ==
  ASSUME TypeOK, NEW c \in Command, Request(c)
  PROVE  TypeOK'
<1>1. CASE CreateCommand(c)
  BY <1>1 DEF TypeOK, CreateCommand, Active, TaskActive, dispVars, ghostVars, scanVars
<1>2. CASE CancelTask(c)
  BY <1>2 DEF TypeOK, CancelTask, dbVars, dispVars, ghostVars, scanVars, refreshVars
<1>3. CASE CancelPending(c)
  BY <1>3 DEF TypeOK, CancelPending, Terminal, TaskTerminal, dispVars, ghostVars, scanVars,
     refreshVars
<1>4. CASE CancelOverWS(c)
  BY <1>4, WriteType, MessageType DEF TypeOK, CancelOverWS, dbVars, dispVars, ghostVars,
     scanVars, refreshVars
<1>5. CASE DeleteTask(c)
  BY <1>5 DEF TypeOK, DeleteTask, dispVars, ghostVars, scanVars, refreshVars
<1>6. CASE RegisterWaiter(c)
  BY <1>6 DEF TypeOK, RegisterWaiter, dbVars, dispVars, ghostVars, scanVars
<1>7. CASE SendAndWait(c)
  <2>1. /\ wire' \in [Agent -> Seq(Message)]
        /\ delivered' \subseteq Command /\ resent' \subseteq Command
    BY <1>7, DeliverType DEF TypeOK, SendAndWait, ghostVars
  <2>2. /\ refresh' \in [Command -> {"idle", "register", "send", "record", "failed", "wait"}]
        /\ chan' \in [Command -> {"none", "open", "ok", "error", "closed"}]
    <3>1. CASE refresh' = [refresh EXCEPT ![c] = "record"] /\ UNCHANGED chan
      BY <3>1 DEF TypeOK
    <3>2. CASE /\ refresh' = [refresh EXCEPT ![c] = "failed"]
               /\ chan' = [chan EXCEPT ![c] = "none"]
      BY <3>2 DEF TypeOK
    <3> QED
      BY <1>7, <3>1, <3>2 DEF SendAndWait
  <2>3. UNCHANGED <<dbVars, expired, conn, agent, dispVars, cancel, scanVars, restarts>>
    BY <1>7 DEF SendAndWait
  <2> QED
    BY <2>1, <2>2, <2>3 DEF TypeOK, dbVars, dispVars, scanVars
<1>8. CASE RefreshRecords(c)
  <2>1. /\ status' \in [Command -> Active \cup Terminal \cup {"absent"}]
        /\ task' \in [Command -> TaskActive \cup TaskTerminal \cup {"none"}]
        /\ UNCHANGED ctype
    <3>1. MarkDispatched(c) \/ MarkPending(c)
      BY <1>8 DEF RefreshRecords
    <3> QED
      BY <3>1, MarkType
  <2>2. refresh' \in [Command -> {"idle", "register", "send", "record", "failed", "wait"}]
    <3>1. PICK next \in {"wait", "idle"} : refresh' = [refresh EXCEPT ![c] = next]
      BY <1>8 DEF RefreshRecords
    <3>2. refresh \in [Command -> {"idle", "register", "send", "record", "failed", "wait"}]
      BY DEF TypeOK
    <3> QED
      BY <3>1, <3>2
  <2>3. UNCHANGED <<expired, conn, wire, agent, ghostVars, dispVars, cancel, scanVars, chan, restarts>>
    BY <1>8 DEF RefreshRecords
  <2> QED
    BY <2>1, <2>2, <2>3 DEF TypeOK, dispVars, ghostVars, scanVars
<1>9. CASE TimeoutWaiter(c)
  BY <1>9 DEF TypeOK, TimeoutWaiter, dbVars, dispVars, ghostVars, scanVars
<1>10. CASE RefreshFinishes(c)
  BY <1>10 DEF TypeOK, RefreshFinishes, Finish, Terminal, dispVars, ghostVars, scanVars
<1> QED
  BY <1>1, <1>2, <1>3, <1>4, <1>5, <1>6, <1>7, <1>8, <1>9, <1>10 DEF Request

LEMMA TypeAnswer ==
  ASSUME TypeOK, NEW c \in Command, Answer(c)
  PROVE  TypeOK'
<1>1. ASSUME NEW r \in {"success", "partial_success", "failed", "cancelled"},
             CompleteTaskResult(c, r)
      PROVE  TypeOK'
  <2>1. CommandStatusOf(r) \in Terminal /\ r \in TaskTerminal
    BY DEF CommandStatusOf, Terminal, TaskTerminal
  <2> QED
    BY <1>1, <2>1, FinishType DEF TypeOK, CompleteTaskResult, dispVars, ghostVars, scanVars,
       refreshVars
<1>2. ASSUME NEW ok \in BOOLEAN, CompletePolicyAck(c, ok)
      PROVE  TypeOK'
  BY <1>2 DEF TypeOK, CompletePolicyAck, Finish, Terminal, dispVars, ghostVars, scanVars,
     refreshVars
<1>3. ASSUME NEW r \in {"ok", "error"}, SnapshotListResponse(c, r)
      PROVE  TypeOK'
  <2>1. chan' \in [Command -> {"none", "open", "ok", "error", "closed"}]
    BY <1>3 DEF TypeOK, SnapshotListResponse
  <2>2. status' \in [Command -> Active \cup Terminal \cup {"absent"}]
    BY <1>3, FinishType DEF TypeOK, SnapshotListResponse, Terminal
  <2> QED
    BY <1>3, <2>1, <2>2 DEF TypeOK, SnapshotListResponse, dispVars, ghostVars, scanVars
<1> QED
  BY <1>1, <1>2, <1>3 DEF Answer

LEMMA TypeScanner ==
  ASSUME TypeOK, Scanner
  PROVE  TypeOK'
<1>1. CASE TimeoutExpired
  BY <1>1 DEF TypeOK, TimeoutExpired, Overdue, dbVars, dispVars, ghostVars, refreshVars
<1>2. ASSUME NEW c \in Command, TimeoutCommandAndTask(c)
      PROVE  TypeOK'
  BY <1>2 DEF TypeOK, TimeoutCommandAndTask, Terminal, TaskTerminal, dispVars, ghostVars,
     refreshVars
<1>3. ASSUME NEW c \in Command, SendTimeoutCancel(c)
      PROVE  TypeOK'
  BY <1>3, WriteType, MessageType DEF TypeOK, SendTimeoutCancel, dbVars, dispVars, ghostVars,
     refreshVars
<1> QED
  BY <1>1, <1>2, <1>3 DEF Scanner

LEMMA TypeEnvironment ==
  ASSUME TypeOK, Environment
  PROVE  TypeOK'
<1>1. ASSUME NEW c \in Command, DeadlinePasses(c)
      PROVE  TypeOK'
  BY <1>1 DEF TypeOK, DeadlinePasses, dbVars, dispVars, ghostVars, scanVars, refreshVars
<1>2. ASSUME NEW a \in Agent, Connect(a)
      PROVE  TypeOK'
  <2>1. wire' \in [Agent -> Seq(Message)]
    <3>1. CASE wire' = [wire EXCEPT ![a] = << >>]
      BY <3>1 DEF TypeOK
    <3>2. CASE UNCHANGED wire
      BY <3>2 DEF TypeOK
    <3> QED
      BY <1>2, <3>1, <3>2 DEF Connect
  <2>2. /\ conn' \in [Agent -> {"none", "online", "stale"}]
        /\ UNCHANGED <<dbVars, expired, agent, ghostVars, dispVars, cancel, scanVars,
                       refreshVars, restarts>>
    BY <1>2 DEF TypeOK, Connect
  <2> QED
    BY <2>1, <2>2 DEF TypeOK, dbVars, dispVars, ghostVars, scanVars, refreshVars
<1>3. ASSUME NEW a \in Agent, Disconnect(a)
      PROVE  TypeOK'
  BY <1>3 DEF TypeOK, Disconnect, dbVars, dispVars, ghostVars, scanVars, refreshVars
<1>4. ASSUME NEW a \in Agent, MarkOffline(a)
      PROVE  TypeOK'
  BY <1>4 DEF TypeOK, MarkOffline, dbVars, dispVars, ghostVars, scanVars, refreshVars
<1>5. ASSUME NEW a \in Agent, AgentReceive(a)
      PROVE  TypeOK'
  <2>1. Head(wire[a]) \in Message /\ Tail(wire[a]) \in Seq(Message)
    BY <1>5 DEF TypeOK, AgentReceive
  <2> QED
    BY <1>5, <2>1 DEF TypeOK, AgentReceive, Message, dbVars, dispVars, ghostVars, scanVars,
       refreshVars
<1>6. CASE MasterRestart
  BY <1>6, BoundAssumption DEF TypeOK, MasterRestart, dbVars, ghostVars
<1> QED
  BY <1>1, <1>2, <1>3, <1>4, <1>5, <1>6 DEF Environment

LEMMA TypeStep == TypeOK /\ [Next]_vars => TypeOK'
<1> SUFFICES ASSUME TypeOK, [Next]_vars
             PROVE  TypeOK'
  OBVIOUS
<1>1. CASE Next
  BY <1>1, TypeDispatch, TypeRequest, TypeAnswer, TypeScanner, TypeEnvironment DEF Next
<1>2. CASE UNCHANGED vars
  BY <1>2 DEF TypeOK, vars, dbVars, dispVars, ghostVars, scanVars, refreshVars
<1> QED
  BY <1>1, <1>2

LEMMA TypeInit == Init => TypeOK
BY KindAssumption, BoundAssumption DEF Init, TypeOK

\* Every variable keeps its type: in particular a status column only ever holds
\* one of the statuses of service.go, and a dispatcher its own program counter.
THEOREM TypeCorrect == Spec => []TypeOK
BY TypeInit, TypeStep, PTL DEF Spec

-----------------------------------------------------------------------------
(* The dispatch invariant.  Each part speaks of few variables, so a step    *)
(* that leaves them alone keeps the part.                                   *)

LEMMA FrameKinds ==
  ASSUME KindsKept, UNCHANGED <<ctype, refresh>>
  PROVE  KindsKept'
BY DEF KindsKept, LongRunning

LEMMA FrameDispatcher ==
  ASSUME OneDispatcher, UNCHANGED dispVars
  PROVE  OneDispatcher'
BY DEF OneDispatcher, dispVars

LEMMA FrameHeld ==
  ASSUME HeldRows, UNCHANGED <<status, delivered, dispVars>>
  PROVE  HeldRows'
BY DEF HeldRows, IsCurrent, Sending, dispVars

LEMMA FrameAgent ==
  ASSUME AgentKnowsDelivered, UNCHANGED <<agent, wire, delivered>>
  PROVE  AgentKnowsDelivered'
BY DEF AgentKnowsDelivered

LEMMA FrameDelivered ==
  ASSUME DeliveredIsNotQueued, AtMostOnce, UNCHANGED <<status, ghostVars>>
  PROVE  DeliveredIsNotQueued' /\ AtMostOnce'
BY DEF DeliveredIsNotQueued, AtMostOnce, ghostVars

\* A step that changes only the status of one command, and how.
LEMMA StatusStep ==
  ASSUME TypeOK, HeldRows, DeliveredIsNotQueued, AtMostOnce,
         NEW c \in Command, NEW s,
         status' = [status EXCEPT ![c] = s],
         UNCHANGED <<ghostVars, dispVars>>,
         c \in LongCommand => \/ s = status[c]
                              \/ s = "timeout"
                              \/ s = "cancelled" /\ status[c] = "pending"
                              \/ /\ s \notin {"absent", "dispatched"}
                                 /\ s = "pending" => c \notin delivered
                                 /\ \A d \in Dispatcher : c \notin todo[d]
  PROVE  HeldRows' /\ DeliveredIsNotQueued' /\ AtMostOnce'
<1>1. \A b \in Command : status'[b] = IF b = c THEN s ELSE status[b]
  BY DEF TypeOK
<1>2. HeldRows'
  BY <1>1 DEF HeldRows, IsCurrent, Sending, dispVars, ghostVars, LongCommand, Terminal
<1>3. DeliveredIsNotQueued'
  BY <1>1 DEF DeliveredIsNotQueued, ghostVars, LongCommand
<1> QED
  BY <1>2, <1>3 DEF AtMostOnce, ghostVars

\* A message appended to a connection is known to be delivered.
LEMMA WriteKnown ==
  ASSUME TypeOK, AgentKnowsDelivered, NEW m \in Message, Write(m), UNCHANGED agent,
         delivered \subseteq delivered', m.type = "command" => m.cmd \in delivered'
  PROVE  AgentKnowsDelivered'
<1>1. AgentOf[m.cmd] \in Agent
  BY KindAssumption DEF Message
<1>2. ASSUME NEW a \in Agent, NEW i \in DOMAIN wire'[a], wire'[a][i].type = "command"
      PROVE  wire'[a][i].cmd \in delivered'
  <2>1. CASE a # AgentOf[m.cmd]
    <3>1. wire'[a] = wire[a]
      BY <2>1, <1>1 DEF TypeOK, Write
    <3> QED
      BY <3>1, <1>2 DEF AgentKnowsDelivered
  <2>2. CASE a = AgentOf[m.cmd]
    <3>1. wire[a] \in Seq(Message) /\ wire'[a] = Append(wire[a], m)
      BY <2>2, <1>1 DEF TypeOK, Write
    <3>2. CASE i \in DOMAIN wire[a]
      <4>1. wire'[a][i] = wire[a][i]
        BY <3>1, <3>2
      <4> QED
        BY <4>1, <3>2, <1>2 DEF AgentKnowsDelivered
    <3>3. CASE i \notin DOMAIN wire[a]
      <4>1. wire'[a][i] = m
        BY <3>1, <3>3
      <4> QED
        BY <4>1, <1>2
    <3> QED
      BY <3>2, <3>3
  <2> QED
    BY <2>1, <2>2
<1>3. \A c \in Command : agent'[c] # "none" => c \in delivered'
  BY DEF AgentKnowsDelivered
<1> QED
  BY <1>2, <1>3 DEF AgentKnowsDelivered

LEMMA ClearKnown ==
  ASSUME TypeOK, AgentKnowsDelivered, UNCHANGED <<agent, delivered>>,
         \A a \in Agent : wire'[a] = wire[a] \/ wire'[a] = << >>
  PROVE  AgentKnowsDelivered'
BY DEF AgentKnowsDelivered

LEMMA OnlyCurrent ==
  ASSUME TypeOK, NEW d \in Dispatcher, NEW c \in Command, IsCurrent(d, c),
         NEW b \in todo[d], b # c
  PROVE  ~ IsCurrent(d, b)
<1>1. b \in Nat /\ c \in Nat
  BY CommandAssumption DEF TypeOK
<1> QED
  BY <1>1 DEF IsCurrent

\* The dispatcher goes on to the next row, and changed at most the current one.
LEMMA AdvanceHeld ==
  ASSUME DispatchInv, NEW d \in Dispatcher, NEW c \in Command,
         dpc[d] \notin {"idle", "lock"}, IsCurrent(d, c), Advance(d, c),
         \A b \in LongCommand : b # c => /\ status'[b] = status[b]
                                         /\ b \in delivered' => b \in delivered
  PROVE  HeldRows'
<1> USE DEF DispatchInv
<1> SUFFICES ASSUME NEW e \in Dispatcher, NEW b \in LongCommand, b \in todo'[e]
             PROVE  /\ b \notin delivered'
                    /\ ~ Sending(e, b)'
                    /\ status'[b] \in {"pending"} \cup Terminal
  BY DEF HeldRows, Terminal
<1>1. c \in todo[d]
  BY DEF IsCurrent
<1>2. e = d
  <2>1. SUFFICES ASSUME e # d
                 PROVE  FALSE
    OBVIOUS
  <2>2. todo'[e] = todo[e]
    BY <2>1 DEF Advance, TypeOK
  <2>3. dpc[e] \notin {"idle", "lock"}
    BY <2>2 DEF OneDispatcher
  <2> QED
    BY <2>1, <2>3 DEF OneDispatcher
<1>3. b \in todo[d] /\ b # c /\ dpc'[d] \in {"idle", "prepare"}
  BY <1>2 DEF Advance, TypeOK
<1>4. ~ Sending(d, b)
  BY <1>3, OnlyCurrent DEF Sending
<1> QED
  BY <1>2, <1>3, <1>4 DEF HeldRows, Sending, Terminal

LEMMA InvDispatch ==
  ASSUME DispatchInv, NEW d \in Dispatcher, Dispatch(d)
  PROVE  DispatchInv'
<1> USE DEF DispatchInv
<1>0. TypeOK'
  BY TypeDispatch
<1>a. ASSUME NEW c, d \in Dispatcher, c \in todo[d]
      PROVE  /\ c \in Command
             /\ \A e \in Dispatcher : e # d => todo[e] = {} /\ dpc[e] \in {"idle", "lock"}
  BY <1>a DEF OneDispatcher, TypeOK
<1>1. ASSUME NEW a \in Agent, NEW redeliver \in BOOLEAN, DispatchForAgent(d, a, redeliver)
      PROVE  DispatchInv'
  <2>1. OneDispatcher' /\ HeldRows'
    BY <1>1 DEF DispatchForAgent, TypeOK, OneDispatcher, HeldRows, Sending, IsCurrent, dbVars, ghostVars
  <2> QED
    BY <1>0, <1>1, <2>1, FrameKinds, FrameAgent, FrameDelivered
       DEF DispatchForAgent, dbVars, ghostVars, refreshVars
<1>2. CASE LockAndSelect(d)
  <2>1. PICK req \in dreq[d] : /\ todo' = [todo EXCEPT ![d] = Batch(req)]
                               /\ dpc' = [dpc EXCEPT ![d] = IF Batch(req) = {} THEN "idle"
                                                            ELSE "prepare"]
    BY <1>2 DEF LockAndSelect
  <2>2. OneDispatcher'
    BY <1>2, <2>1 DEF LockAndSelect, MutexFree, TypeOK, OneDispatcher
  <2>3. \A c \in Batch(req) : status[c] \in {"pending", "dispatched"}
    BY DEF Batch, Eligible
  <2>4. HeldRows'
    <3>1. /\ todo'[d] = Batch(req) /\ dpc'[d] \in {"idle", "prepare"}
          /\ \A e \in Dispatcher : e # d => todo'[e] = todo[e] /\ dpc'[e] = dpc[e]
      BY <2>1 DEF TypeOK
    <3>2. \A c \in LongCommand \cap Batch(req) : c \notin delivered /\ status[c] = "pending"
      BY <2>3 DEF DeliveredIsNotQueued
    <3>3. UNCHANGED <<status, delivered>>
      BY <1>2 DEF LockAndSelect, dbVars, ghostVars
    <3>4. \A c \in Command : Sending(d, c)' <=> FALSE
      BY <3>1 DEF Sending
    <3>5. \A e \in Dispatcher, c \in Command : e # d => (Sending(e, c)' <=> Sending(e, c))
      BY <3>1 DEF Sending, IsCurrent
    <3> QED
      BY <3>1, <3>2, <3>3, <3>4, <3>5 DEF HeldRows, LongCommand
  <2> QED
    BY <1>0, <1>2, <2>2, <2>4, FrameKinds, FrameAgent, FrameDelivered
       DEF LockAndSelect, dbVars, ghostVars, refreshVars
<1>3. CASE DispatchAborts(d)
  <2>1. OneDispatcher' /\ HeldRows'
    BY <1>3 DEF DispatchAborts, TypeOK, OneDispatcher, HeldRows, Sending, IsCurrent, dbVars, ghostVars
  <2> QED
    BY <1>0, <1>3, <2>1, FrameKinds, FrameAgent, FrameDelivered
       DEF DispatchAborts, dbVars, ghostVars, refreshVars
<1>4. ASSUME NEW c \in Command, PrepareMessageForDispatch(d, c)
      PROVE  DispatchInv'
  <2>1. OneDispatcher' /\ HeldRows'
    BY <1>4 DEF PrepareMessageForDispatch, Goto, TypeOK, OneDispatcher, HeldRows, Sending, IsCurrent,
       ghostVars
  <2>2. KindsKept'
    BY <1>4, KindAssumption DEF PrepareMessageForDispatch, TypeOK, KindsKept, LongRunning,
       LongCommand, LongTypes, refreshVars
  <2> QED
    BY <1>0, <1>4, <2>1, <2>2, FrameAgent, FrameDelivered
       DEF PrepareMessageForDispatch, ghostVars
<1>5. ASSUME NEW c \in Command, CapabilitiesUnknown(d, c)
      PROVE  DispatchInv'
  <2>1. OneDispatcher' /\ HeldRows'
    BY <1>5 DEF CapabilitiesUnknown, Advance, TypeOK, OneDispatcher, HeldRows, Sending, IsCurrent,
       dbVars, ghostVars
  <2> QED
    BY <1>0, <1>5, <2>1, FrameKinds, FrameAgent, FrameDelivered
       DEF CapabilitiesUnknown, dbVars, ghostVars, refreshVars
<1>6. ASSUME NEW c \in Command, FailCommandAndTask(d, c)
      PROVE  DispatchInv'
  <2>1. OneDispatcher'
    BY <1>6 DEF FailCommandAndTask, Advance, TypeOK, OneDispatcher, IsCurrent
  <2>2. HeldRows'
    BY <1>6, <1>a DEF FailCommandAndTask, Advance, TypeOK, HeldRows, Sending, IsCurrent, ghostVars
  <2>3. DeliveredIsNotQueued' /\ AtMostOnce'
    BY <1>6 DEF FailCommandAndTask, TypeOK, DeliveredIsNotQueued, AtMostOnce, ghostVars
  <2> QED
    BY <1>0, <1>6, <2>1, <2>2, <2>3, FrameKinds, FrameAgent
       DEF FailCommandAndTask, ghostVars, refreshVars
<1>7. ASSUME NEW c \in Command, RecordDispatchSuccess(d, c)
      PROVE  DispatchInv'
  <2>1. c \in LongCommand => DispatchedStatus(c) = "running"
    BY DEF DispatchedStatus, KindsKept
  <2>2. OneDispatcher'
    <3>1. CASE Goto(d, "send")
      BY <1>7, <3>1 DEF RecordDispatchSuccess, Goto, TypeOK, OneDispatcher
    <3>2. CASE Advance(d, c)
      BY <1>7, <3>2 DEF RecordDispatchSuccess, Advance, TypeOK, OneDispatcher, IsCurrent
    <3> QED
      BY <1>7, <3>1, <3>2 DEF RecordDispatchSuccess
  <2>3. \A b \in Command : status'[b] = IF b = c /\ StillActive(c) THEN DispatchedStatus(c)
                                                                   ELSE status[b]
    BY <1>7 DEF RecordDispatchSuccess, MarkDispatched, StillActive, TypeOK
  <2>4. HeldRows'
    <3>1. CASE StillActive(c)
      <4>1. dpc' = [dpc EXCEPT ![d] = "send"] /\ todo' = todo /\ delivered' = delivered
        BY <1>7, <3>1 DEF RecordDispatchSuccess, Goto, ghostVars
      <4>2. c \in todo[d] /\ IsCurrent(d, c)
        BY <1>7 DEF RecordDispatchSuccess, IsCurrent
      <4>3. \A e \in Dispatcher : e # d => todo[e] = {}
        BY <1>a, <4>2
      <4>4. \A b \in todo[d] : IsCurrent(d, b) => b = c
        BY <4>2, OnlyCurrent
      <4>5. c \in LongCommand => status'[c] = "running"
        BY <2>1, <2>3, <3>1
      <4>6. \A b \in LongCommand : b # c => status'[b] = status[b]
        BY <2>3 DEF LongCommand
      <4>7. \A b \in LongCommand \cap todo[d] : b # c => ~ Sending(d, b) /\ ~ Sending(d, b)'
        BY <4>1, <4>4 DEF Sending, IsCurrent
      <4>8. c \in LongCommand => c \notin delivered /\ Sending(d, c)'
        BY <1>7, <4>1, <4>2 DEF RecordDispatchSuccess, HeldRows, Sending, IsCurrent, TypeOK
      <4> QED
        BY <4>1, <4>3, <4>5, <4>6, <4>7, <4>8 DEF HeldRows
    <3>2. CASE ~ StillActive(c)
      <4>1. /\ dpc' = [dpc EXCEPT ![d] = IF todo[d] = {c} THEN "idle" ELSE "prepare"]
            /\ todo' = [todo EXCEPT ![d] = @ \ {c}] /\ delivered' = delivered
        BY <1>7, <3>2 DEF RecordDispatchSuccess, Advance, ghostVars
      <4> QED
        BY <1>7, <1>a, <2>3, <3>2, <4>1
           DEF RecordDispatchSuccess, TypeOK, HeldRows, Sending, IsCurrent, LongCommand
    <3> QED
      BY <3>1, <3>2
  <2>5. DeliveredIsNotQueued' /\ AtMostOnce'
    BY <1>7, <2>1, <2>3 DEF RecordDispatchSuccess, DeliveredIsNotQueued, AtMostOnce, LongCommand,
       ghostVars
  <2> QED
    BY <1>0, <1>7, <2>2, <2>4, <2>5, FrameKinds, FrameAgent
       DEF RecordDispatchSuccess, MarkDispatched, ghostVars, refreshVars
<1>8. ASSUME NEW c \in Command, HubSend(d, c)
      PROVE  DispatchInv'
  <2>1. OneDispatcher'
    BY <1>8 DEF HubSend, Advance, TypeOK, OneDispatcher, IsCurrent
  <2>2. HeldRows'
    BY <1>8, AdvanceHeld DEF HubSend, Deliver, dbVars
  <2>3. DeliveredIsNotQueued' /\ AtMostOnce'
    <3>1. c \in todo[d] /\ Sending(d, c)
      BY <1>8 DEF HubSend, IsCurrent, Sending
    <3> QED
      BY <1>8, <3>1 DEF HubSend, Deliver, HeldRows, DeliveredIsNotQueued, AtMostOnce, dbVars
  <2>4. AgentKnowsDelivered'
    BY <1>8, WriteKnown, MessageType DEF HubSend, Deliver, CommandMsg
  <2> QED
    BY <1>0, <1>8, <2>1, <2>2, <2>3, <2>4, FrameKinds DEF HubSend, dbVars, refreshVars
<1>9. ASSUME NEW c \in Command, HubSendFails(d, c)
      PROVE  DispatchInv'
  <2>1. OneDispatcher' /\ HeldRows'
    BY <1>9 DEF HubSendFails, Goto, TypeOK, OneDispatcher, HeldRows, Sending, IsCurrent, dbVars, ghostVars
  <2> QED
    BY <1>0, <1>9, <2>1, FrameKinds, FrameAgent, FrameDelivered
       DEF HubSendFails, dbVars, ghostVars, refreshVars
<1>10. ASSUME NEW c \in Command, RollbackDispatchFailure(d, c)
       PROVE  DispatchInv'
  <2>1. OneDispatcher'
    BY <1>10 DEF RollbackDispatchFailure, Advance, TypeOK, OneDispatcher, IsCurrent
  <2>2. \A b \in Command : status'[b] = IF b = c /\ status[c] \notin Terminal THEN "pending"
                                                                            ELSE status[b]
    BY <1>10 DEF RollbackDispatchFailure, MarkPending, TypeOK
  <2>3. HeldRows'
    BY <1>10, <2>2, AdvanceHeld DEF RollbackDispatchFailure, LongCommand, ghostVars
  <2>4. DeliveredIsNotQueued' /\ AtMostOnce'
    BY <1>10, <2>2 DEF RollbackDispatchFailure, HeldRows, Sending, IsCurrent, DeliveredIsNotQueued,
       AtMostOnce, LongCommand, ghostVars
  <2> QED
    BY <1>0, <1>10, <2>1, <2>3, <2>4, FrameKinds, FrameAgent
       DEF RollbackDispatchFailure, MarkPending, ghostVars, refreshVars
<1> QED
  BY <1>1, <1>2, <1>3, <1>4, <1>5, <1>6, <1>7, <1>8, <1>9, <1>10 DEF Dispatch

LEMMA InvRequest ==
  ASSUME DispatchInv, NEW c \in Command, Request(c)
  PROVE  DispatchInv'
<1> USE DEF DispatchInv
<1>0. TypeOK'
  BY TypeRequest
<1>1. CASE CreateCommand(c)
  <2>1. \A d \in Dispatcher : c \in LongCommand => c \notin todo[d]
    BY <1>1 DEF CreateCommand, NextToCreate, HeldRows, Terminal
  <2>2. c \in LongCommand => c \notin delivered
    BY <1>1 DEF CreateCommand, NextToCreate, DeliveredIsNotQueued
  <2>3. HeldRows' /\ DeliveredIsNotQueued' /\ AtMostOnce'
    BY <1>1, <2>1, <2>2, StatusStep DEF CreateCommand
  <2>4. KindsKept'
    BY <1>1 DEF CreateCommand, KindsKept, TypeOK, LongRunning, LongCommand, LongTypes
  <2> QED
    BY <1>0, <1>1, <2>3, <2>4, FrameDispatcher, FrameAgent DEF CreateCommand, ghostVars
<1>2. CASE CancelTask(c)
  BY <1>0, <1>2, FrameKinds, FrameDispatcher, FrameHeld, FrameAgent, FrameDelivered
     DEF CancelTask, dbVars, ghostVars, refreshVars
<1>3. CASE CancelPending(c)
  <2>1. PICK s : s = (IF status[c] = "pending" THEN "cancelled" ELSE status[c])
    OBVIOUS
  <2>2. status' = [status EXCEPT ![c] = s]
    BY <1>3, <2>1 DEF CancelPending
  <2>3. HeldRows' /\ DeliveredIsNotQueued' /\ AtMostOnce'
    BY <1>3, <2>1, <2>2, StatusStep DEF CancelPending
  <2> QED
    BY <1>0, <1>3, <2>3, FrameKinds, FrameDispatcher, FrameAgent
       DEF CancelPending, ghostVars, refreshVars
<1>4. CASE CancelOverWS(c)
  <2>1. AgentKnowsDelivered'
    BY <1>4, WriteKnown, MessageType, FrameAgent DEF CancelOverWS, CancelMsg, ghostVars
  <2> QED
    BY <1>0, <1>4, <2>1, FrameKinds, FrameDispatcher, FrameHeld, FrameDelivered
       DEF CancelOverWS, dbVars, ghostVars, refreshVars
<1>5. CASE DeleteTask(c)
  BY <1>0, <1>5, FrameKinds, FrameDispatcher, FrameHeld, FrameAgent, FrameDelivered
     DEF DeleteTask, ghostVars, refreshVars
<1>6. CASE RegisterWaiter(c)
  <2>1. KindsKept'
    BY <1>6 DEF RegisterWaiter, KindsKept, TypeOK, LongRunning, LongCommand, dbVars
  <2> QED
    BY <1>0, <1>6, <2>1, FrameDispatcher, FrameHeld, FrameAgent, FrameDelivered
       DEF RegisterWaiter, dbVars, ghostVars
<1>7. CASE SendAndWait(c)
  <2>1. c \notin LongCommand
    BY <1>7 DEF SendAndWait, KindsKept
  <2>2. refresh' = [refresh EXCEPT ![c] = "record"] \/ refresh' = [refresh EXCEPT ![c] = "failed"]
    BY <1>7 DEF SendAndWait
  <2>3. KindsKept'
    BY <1>7, <2>1, <2>2 DEF SendAndWait, KindsKept, TypeOK, LongRunning, LongCommand, dbVars
  <2>4. /\ delivered \subseteq delivered' /\ delivered' \subseteq delivered \cup {c}
        /\ resent' \subseteq resent \cup {c}
    BY <1>7 DEF SendAndWait, Deliver, ghostVars
  <2>5. HeldRows' /\ DeliveredIsNotQueued' /\ AtMostOnce'
    BY <1>7, <2>1, <2>4 DEF SendAndWait, HeldRows, DeliveredIsNotQueued, AtMostOnce, Sending,
       IsCurrent, dbVars, dispVars
  <2>6. AgentKnowsDelivered'
    <3>1. CASE Deliver(c)
      BY <1>7, <3>1, WriteKnown, MessageType DEF SendAndWait, Deliver, CommandMsg
    <3>2. CASE UNCHANGED <<wire, ghostVars>>
      BY <1>7, <3>2, FrameAgent DEF SendAndWait, ghostVars
    <3> QED
      BY <1>7, <3>1, <3>2 DEF SendAndWait
  <2> QED
    BY <1>0, <1>7, <2>3, <2>5, <2>6, FrameDispatcher DEF SendAndWait
<1>8. CASE RefreshRecords(c)
  <2>1. c \notin LongCommand
    BY <1>8 DEF RefreshRecords, KindsKept
  <2>2. PICK s : status' = [status EXCEPT ![c] = s]
    BY <1>8 DEF RefreshRecords, MarkDispatched, MarkPending
  <2>3. HeldRows' /\ DeliveredIsNotQueued' /\ AtMostOnce'
    BY <1>8, <2>1, <2>2, StatusStep DEF RefreshRecords
  <2>4. refresh' = [refresh EXCEPT ![c] = "wait"] \/ refresh' = [refresh EXCEPT ![c] = "idle"]
    BY <1>8 DEF RefreshRecords
  <2>5. KindsKept'
    BY <1>8, <2>1, <2>4 DEF RefreshRecords, MarkDispatched, MarkPending, KindsKept, TypeOK,
       LongRunning, LongCommand
  <2> QED
    BY <1>0, <1>8, <2>3, <2>5, FrameDispatcher, FrameAgent DEF RefreshRecords, ghostVars
<1>9. CASE TimeoutWaiter(c)
  BY <1>0, <1>9, FrameKinds, FrameDispatcher, FrameHeld, FrameAgent, FrameDelivered
     DEF TimeoutWaiter, dbVars, ghostVars
<1>10. CASE RefreshFinishes(c)
  <2>1. c \notin LongCommand
    BY <1>10 DEF RefreshFinishes, KindsKept
  <2>2. PICK s : status' = [status EXCEPT ![c] = s]
    BY <1>10 DEF RefreshFinishes, Finish
  <2>3. HeldRows' /\ DeliveredIsNotQueued' /\ AtMostOnce'
    BY <1>10, <2>1, <2>2, StatusStep DEF RefreshFinishes
  <2>4. KindsKept'
    BY <1>10, <2>1 DEF RefreshFinishes, KindsKept, TypeOK, LongRunning, LongCommand
  <2> QED
    BY <1>0, <1>10, <2>3, <2>4, FrameDispatcher, FrameAgent DEF RefreshFinishes, ghostVars
<1> QED
  BY <1>1, <1>2, <1>3, <1>4, <1>5, <1>6, <1>7, <1>8, <1>9, <1>10 DEF Request

LEMMA InvAnswer ==
  ASSUME DispatchInv, NEW c \in Command, Answer(c)
  PROVE  DispatchInv'
<1> USE DEF DispatchInv
<1>0. TypeOK'
  BY TypeAnswer
<1>a. ASSUME agent[c] # "none", NEW s \in Terminal, Finish(c, s), UNCHANGED <<ghostVars, dispVars>>
      PROVE  HeldRows' /\ DeliveredIsNotQueued' /\ AtMostOnce'
  <2>1. c \in delivered
    BY <1>a DEF AgentKnowsDelivered
  <2>2. \A d \in Dispatcher : c \in LongCommand => c \notin todo[d]
    BY <2>1 DEF HeldRows
  <2>3. PICK t : t = (IF status[c] \in Terminal THEN status[c] ELSE s)
    OBVIOUS
  <2>4. status' = [status EXCEPT ![c] = t]
    BY <1>a, <2>3 DEF Finish
  <2>5. t = status[c] \/ t \in {"succeeded", "failed", "timeout", "cancelled"}
    BY <1>a, <2>3 DEF Terminal
  <2> QED
    BY <1>a, <2>2, <2>4, <2>5, StatusStep
<1>1. ASSUME NEW r \in {"success", "partial_success", "failed", "cancelled"},
             CompleteTaskResult(c, r)
      PROVE  DispatchInv'
  <2>1. CommandStatusOf(r) \in Terminal
    BY DEF CommandStatusOf, Terminal
  <2>2. HeldRows' /\ DeliveredIsNotQueued' /\ AtMostOnce'
    BY <1>1, <1>a, <2>1 DEF CompleteTaskResult
  <2> QED
    BY <1>0, <1>1, <2>2, FrameKinds, FrameDispatcher, FrameAgent
       DEF CompleteTaskResult, ghostVars, refreshVars
<1>2. ASSUME NEW ok \in BOOLEAN, CompletePolicyAck(c, ok)
      PROVE  DispatchInv'
  <2>1. (IF ok THEN "succeeded" ELSE "failed") \in Terminal
    BY DEF Terminal
  <2>2. HeldRows' /\ DeliveredIsNotQueued' /\ AtMostOnce'
    BY <1>2, <1>a, <2>1 DEF CompletePolicyAck
  <2> QED
    BY <1>0, <1>2, <2>2, FrameKinds, FrameDispatcher, FrameAgent
       DEF CompletePolicyAck, ghostVars, refreshVars
<1>3. ASSUME NEW r \in {"ok", "error"}, SnapshotListResponse(c, r)
      PROVE  DispatchInv'
  <2>1. (IF r = "ok" THEN "succeeded" ELSE "failed") \in Terminal
    BY DEF Terminal
  <2>2. HeldRows' /\ DeliveredIsNotQueued' /\ AtMostOnce'
    <3>1. CASE chan[c] = "open"
      BY <1>3, <3>1, FrameHeld, FrameDelivered DEF SnapshotListResponse, ghostVars
    <3>2. CASE chan[c] # "open"
      BY <1>3, <1>a, <2>1, <3>2 DEF SnapshotListResponse
    <3> QED
      BY <3>1, <3>2
  <2> QED
    BY <1>0, <1>3, <2>2, FrameKinds, FrameDispatcher, FrameAgent
       DEF SnapshotListResponse, ghostVars
<1> QED
  BY <1>1, <1>2, <1>3 DEF Answer

LEMMA InvScanner ==
  ASSUME DispatchInv, Scanner
  PROVE  DispatchInv'
<1> USE DEF DispatchInv
<1>0. TypeOK'
  BY TypeScanner
<1>1. CASE TimeoutExpired
  BY <1>0, <1>1, FrameKinds, FrameDispatcher, FrameHeld, FrameAgent, FrameDelivered
     DEF TimeoutExpired, dbVars, ghostVars, refreshVars
<1>2. ASSUME NEW c \in Command, TimeoutCommandAndTask(c)
      PROVE  DispatchInv'
  <2>1. HeldRows' /\ DeliveredIsNotQueued' /\ AtMostOnce'
    <3>1. PICK s : s = (IF status[c] \in Active THEN "timeout" ELSE status[c])
      OBVIOUS
    <3>2. status' = [status EXCEPT ![c] = s]
      BY <1>2, <3>1 DEF TimeoutCommandAndTask
    <3> QED
      BY <1>2, <3>1, <3>2, StatusStep DEF TimeoutCommandAndTask
  <2> QED
    BY <1>0, <1>2, <2>1, FrameKinds, FrameDispatcher, FrameAgent
       DEF TimeoutCommandAndTask, ghostVars, refreshVars
<1>3. ASSUME NEW c \in Command, SendTimeoutCancel(c)
      PROVE  DispatchInv'
  <2>1. AgentKnowsDelivered'
    BY <1>3, WriteKnown, MessageType, FrameAgent DEF SendTimeoutCancel, CancelMsg, ghostVars
  <2> QED
    BY <1>0, <1>3, <2>1, FrameKinds, FrameDispatcher, FrameHeld, FrameDelivered
       DEF SendTimeoutCancel, dbVars, ghostVars, refreshVars
<1> QED
  BY <1>1, <1>2, <1>3 DEF Scanner

LEMMA InvEnvironment ==
  ASSUME DispatchInv, Environment
  PROVE  DispatchInv'
<1> USE DEF DispatchInv
<1>0. TypeOK'
  BY TypeEnvironment
<1>1. ASSUME NEW c \in Command, DeadlinePasses(c)
      PROVE  DispatchInv'
  BY <1>0, <1>1, FrameKinds, FrameDispatcher, FrameHeld, FrameAgent, FrameDelivered
     DEF DeadlinePasses, dbVars, ghostVars, refreshVars
<1>2. ASSUME NEW a \in Agent, Connect(a) \/ Disconnect(a) \/ MarkOffline(a)
      PROVE  DispatchInv'
  <2>1. /\ UNCHANGED <<dbVars, agent, ghostVars, dispVars, refreshVars>>
        /\ \A b \in Agent : wire'[b] = wire[b] \/ wire'[b] = << >>
    BY <1>2 DEF Connect, Disconnect, MarkOffline, TypeOK
  <2> QED
    BY <1>0, <2>1, FrameKinds, FrameDispatcher, FrameHeld, ClearKnown, FrameDelivered
       DEF dbVars, ghostVars, refreshVars
<1>3. ASSUME NEW a \in Agent, AgentReceive(a)
      PROVE  DispatchInv'
  <2>1. wire[a] \in Seq(Message) /\ wire[a] # << >>
    BY <1>3 DEF AgentReceive, TypeOK
  <2>2. Head(wire[a]) = wire[a][1] /\ 1 \in DOMAIN wire[a]
    BY <2>1
  <2>3. \A i \in DOMAIN Tail(wire[a]) : i + 1 \in DOMAIN wire[a] /\ Tail(wire[a])[i] = wire[a][i + 1]
    BY <2>1
  <2>4. \A b \in Agent : wire'[b] = IF b = a THEN Tail(wire[a]) ELSE wire[b]
    BY <1>3 DEF AgentReceive, TypeOK
  <2>5. \A b \in Agent : \A i \in DOMAIN wire'[b] :
          wire'[b][i].type = "command" => wire'[b][i].cmd \in delivered
    <3>1. TAKE b \in Agent
    <3>2. CASE b # a
      BY <2>4, <3>2 DEF AgentKnowsDelivered
    <3>3. CASE b = a
      <4>1. wire'[b] = Tail(wire[a])
        BY <2>4, <3>3
      <4> QED
        BY <2>3, <3>3, <4>1 DEF AgentKnowsDelivered
    <3> QED
      BY <3>2, <3>3
  <2>6. ASSUME NEW c \in Command, agent'[c] # "none"
        PROVE  c \in delivered
    <3>1. CASE agent[c] # "none"
      BY <3>1 DEF AgentKnowsDelivered
    <3>2. CASE agent[c] = "none"
      <4>1. c = Head(wire[a]).cmd /\ Head(wire[a]).type = "command"
        BY <1>3, <2>6, <3>2 DEF AgentReceive, TypeOK
      <4> QED
        BY <2>2, <4>1 DEF AgentKnowsDelivered
    <3> QED
      BY <3>1, <3>2
  <2>7. AgentKnowsDelivered'
    BY <1>3, <2>5, <2>6 DEF AgentKnowsDelivered, AgentReceive, ghostVars
  <2> QED
    BY <1>0, <1>3, <2>7, FrameKinds, FrameDispatcher, FrameHeld, FrameDelivered
       DEF AgentReceive, dbVars, ghostVars, refreshVars
<1>4. CASE MasterRestart
  <2>1. OneDispatcher' /\ HeldRows' /\ KindsKept' /\ AgentKnowsDelivered'
    BY <1>4 DEF MasterRestart, OneDispatcher, HeldRows, KindsKept, AgentKnowsDelivered,
       LongRunning, dbVars, ghostVars
  <2> QED
    BY <1>0, <1>4, <2>1, FrameDelivered DEF MasterRestart, dbVars
<1> QED
  BY <1>1, <1>2, <1>3, <1>4 DEF Environment

LEMMA InvInit == Init => DispatchInv
<1> SUFFICES ASSUME Init
             PROVE  DispatchInv
  OBVIOUS
<1>1. TypeOK
  BY TypeInit
<1>2. KindsKept /\ OneDispatcher /\ HeldRows /\ AgentKnowsDelivered
  BY KindAssumption DEF Init, KindsKept, LongRunning, LongCommand, OneDispatcher, HeldRows,
     AgentKnowsDelivered
<1>3. DeliveredIsNotQueued /\ AtMostOnce
  BY DEF Init, DeliveredIsNotQueued, AtMostOnce, LongCommand
<1> QED
  BY <1>1, <1>2, <1>3 DEF DispatchInv

LEMMA InvStep == DispatchInv /\ [Next]_vars => DispatchInv'
<1> SUFFICES ASSUME DispatchInv, [Next]_vars
             PROVE  DispatchInv'
  OBVIOUS
<1>1. CASE Next
  BY <1>1, InvDispatch, InvRequest, InvAnswer, InvScanner, InvEnvironment DEF Next
<1>2. CASE UNCHANGED vars
  <2>1. TypeOK'
    BY <1>2, TypeStep DEF DispatchInv
  <2> QED
    BY <1>2, <2>1, FrameKinds, FrameDispatcher, FrameHeld, FrameAgent, FrameDelivered
       DEF DispatchInv, vars, dbVars, ghostVars, refreshVars
<1> QED
  BY <1>1, <1>2

\* The dispatch invariant holds of every reachable state: one dispatcher at a time
\* holds rows, and those rows have not been sent.
THEOREM DispatchCorrect == Spec => []DispatchInv
BY InvInit, InvStep, PTL DEF Spec

\* A backup, verification or restore is written to a connection at most once.
THEOREM SentAtMostOnce == Spec => []AtMostOnce
<1>1. DispatchInv => AtMostOnce
  BY DEF DispatchInv
<1> QED
  BY <1>1, DispatchCorrect, PTL

\* A task an agent may be running is never queued again.
THEOREM DeliveredStaysOut == Spec => []DeliveredIsNotQueued
<1>1. DispatchInv => DeliveredIsNotQueued
  BY DEF DispatchInv
<1> QED
  BY <1>1, DispatchCorrect, PTL

-----------------------------------------------------------------------------
(* The two tables agree.                                                   *)

\* A step that writes the two rows of one command.
LEMMA MirrorStep ==
  ASSUME TypeOK, TaskMirrorsCommand, NEW c \in Command, NEW s, NEW t,
         status' = [status EXCEPT ![c] = s], task' = [task EXCEPT ![c] = t],
         c \in LongCommand => t = "none" \/ (s \in DOMAIN Mirror /\ t \in Mirror[s])
  PROVE  TaskMirrorsCommand'
<1>1. \A b \in Command : status'[b] = IF b = c THEN s ELSE status[b]
  BY DEF TypeOK
<1>2. \A b \in Command : task'[b] = IF b = c THEN t ELSE task[b]
  BY DEF TypeOK
<1> QED
  BY <1>1, <1>2 DEF TaskMirrorsCommand, LongCommand

LEMMA FrameMirror ==
  ASSUME TaskMirrorsCommand, UNCHANGED <<status, task>>
  PROVE  TaskMirrorsCommand'
BY DEF TaskMirrorsCommand

LEMMA MirrorNow ==
  ASSUME TaskMirrorsCommand, NEW c \in LongCommand, task[c] # "none"
  PROVE  /\ status[c] \in DOMAIN Mirror /\ task[c] \in Mirror[status[c]]
         /\ status[c] \notin Terminal => task[c] = status[c] /\ status[c] \in {"pending", "running"}
BY DEF TaskMirrorsCommand, Mirror, Terminal

LEMMA MirrorMark ==
  ASSUME DispatchInv, TaskMirrorsCommand, NEW c \in Command, MarkDispatched(c) \/ MarkPending(c)
  PROVE  TaskMirrorsCommand'
<1>1. CASE MarkDispatched(c)
  <2>1. PICK s : s = (IF status[c] \in Terminal THEN status[c] ELSE DispatchedStatus(c))
    OBVIOUS
  <2>2. PICK t : t = (IF status[c] \notin Terminal /\ LongRunning(c) /\ task[c] = "pending"
                     THEN "running" ELSE task[c])
    OBVIOUS
  <2>3. status' = [status EXCEPT ![c] = s] /\ task' = [task EXCEPT ![c] = t]
    BY <1>1, <2>1, <2>2 DEF MarkDispatched
  <2>4. ASSUME c \in LongCommand, t # "none"
        PROVE  s \in DOMAIN Mirror /\ t \in Mirror[s]
    <3>1. LongRunning(c) /\ task[c] # "none"
      BY <2>2, <2>4 DEF DispatchInv, KindsKept
    <3> QED
      BY <2>1, <2>2, <2>4, <3>1, MirrorNow DEF DispatchedStatus, Mirror
  <2> QED
    BY <2>3, <2>4, MirrorStep DEF DispatchInv
<1>2. CASE MarkPending(c)
  <2>1. PICK s : s = (IF status[c] \in Terminal THEN status[c] ELSE "pending")
    OBVIOUS
  <2>2. PICK t : t = (IF status[c] \notin Terminal /\ LongRunning(c) /\ task[c] = "running"
                     THEN "pending" ELSE task[c])
    OBVIOUS
  <2>3. status' = [status EXCEPT ![c] = s] /\ task' = [task EXCEPT ![c] = t]
    BY <1>2, <2>1, <2>2 DEF MarkPending
  <2>4. ASSUME c \in LongCommand, t # "none"
        PROVE  s \in DOMAIN Mirror /\ t \in Mirror[s]
    <3>1. LongRunning(c) /\ task[c] # "none"
      BY <2>2, <2>4 DEF DispatchInv, KindsKept
    <3> QED
      BY <2>1, <2>2, <2>4, <3>1, MirrorNow DEF Mirror
  <2> QED
    BY <2>3, <2>4, MirrorStep DEF DispatchInv
<1> QED
  BY <1>1, <1>2

LEMMA MirrorFinish ==
  ASSUME TypeOK, TaskMirrorsCommand, NEW c \in Command, NEW s, Finish(c, s), UNCHANGED task,
         c \notin LongCommand
  PROVE  TaskMirrorsCommand'
<1>1. task' = [task EXCEPT ![c] = task[c]]
  BY DEF TypeOK
<1>2. PICK u : status' = [status EXCEPT ![c] = u]
  BY DEF Finish
<1> QED
  BY <1>1, <1>2, MirrorStep

LEMMA MirrorNext ==
  ASSUME DispatchInv, TaskMirrorsCommand, [Next]_vars
  PROVE  TaskMirrorsCommand'
<1>0. TypeOK /\ KindsKept
  BY DEF DispatchInv
<1>1. ASSUME NEW d \in Dispatcher, Dispatch(d)
      PROVE  TaskMirrorsCommand'
  <2>1. ASSUME NEW c \in Command, FailCommandAndTask(d, c)
        PROVE  TaskMirrorsCommand'
    <3>1. PICK s, t : /\ s = (IF status[c] \in Terminal THEN status[c] ELSE "failed")
                      /\ t = (IF status[c] \notin Terminal /\ task[c] \in TaskActive THEN "failed"
                                                                              ELSE task[c])
      OBVIOUS
    <3>2. status' = [status EXCEPT ![c] = s] /\ task' = [task EXCEPT ![c] = t]
      BY <2>1, <3>1 DEF FailCommandAndTask
    <3>3. c \in LongCommand => t = "none" \/ (s \in DOMAIN Mirror /\ t \in Mirror[s])
      BY <3>1, MirrorNow DEF Mirror, TaskActive
    <3> QED
      BY <1>0, <3>2, <3>3, MirrorStep
  <2>2. ASSUME NEW c \in Command, RecordDispatchSuccess(d, c) \/ RollbackDispatchFailure(d, c)
        PROVE  TaskMirrorsCommand'
    BY <2>2, MirrorMark DEF RecordDispatchSuccess, RollbackDispatchFailure
  <2>3. CASE UNCHANGED <<status, task>>
    BY <2>3, FrameMirror
  <2>4. \/ UNCHANGED <<status, task>>
        \/ \E c \in Command : \/ FailCommandAndTask(d, c)
                             \/ RecordDispatchSuccess(d, c) \/ RollbackDispatchFailure(d, c)
    BY <1>1 DEF Dispatch, DispatchForAgent, LockAndSelect, DispatchAborts,
       PrepareMessageForDispatch, CapabilitiesUnknown, HubSend, HubSendFails, dbVars
  <2> QED
    BY <2>1, <2>2, <2>3, <2>4
<1>2. ASSUME NEW c \in Command, Request(c)
      PROVE  TaskMirrorsCommand'
  <2>1. CASE CreateCommand(c)
    <3>1. c \in LongCommand => LongRunning(c)
      BY <1>0 DEF KindsKept
    <3>2. PICK t : t = (IF LongRunning(c) THEN "pending" ELSE "none")
      OBVIOUS
    <3>3. status' = [status EXCEPT ![c] = "pending"] /\ task' = [task EXCEPT ![c] = t]
      BY <2>1, <3>2 DEF CreateCommand
    <3> QED
      BY <1>0, <3>1, <3>2, <3>3, MirrorStep DEF Mirror
  <2>2. CASE CancelPending(c)
    <3>1. PICK s, t : /\ s = (IF status[c] = "pending" THEN "cancelled" ELSE status[c])
                      /\ t = (IF status[c] = "pending" /\ task[c] \in TaskActive THEN "cancelled"
                                                                             ELSE task[c])
      OBVIOUS
    <3>2. status' = [status EXCEPT ![c] = s] /\ task' = [task EXCEPT ![c] = t]
      BY <2>2, <3>1 DEF CancelPending
    <3>3. c \in LongCommand => t = "none" \/ (s \in DOMAIN Mirror /\ t \in Mirror[s])
      BY <3>1, MirrorNow DEF Mirror, TaskActive, Terminal
    <3> QED
      BY <1>0, <3>2, <3>3, MirrorStep
  <2>3. CASE DeleteTask(c)
    <3>1. status' = [status EXCEPT ![c] = status[c]] /\ task' = [task EXCEPT ![c] = "none"]
      BY <1>0, <2>3 DEF DeleteTask, TypeOK
    <3> QED
      BY <1>0, <3>1, MirrorStep
  <2>4. CASE RefreshRecords(c)
    BY <2>4, MirrorMark DEF RefreshRecords
  <2>5. CASE RefreshFinishes(c)
    BY <1>0, <2>5, MirrorFinish DEF RefreshFinishes, KindsKept
  <2>6. CASE UNCHANGED <<status, task>>
    BY <2>6, FrameMirror
  <2>7. \/ CreateCommand(c) \/ CancelPending(c) \/ DeleteTask(c) \/ RefreshRecords(c)
        \/ RefreshFinishes(c) \/ UNCHANGED <<status, task>>
    BY <1>2 DEF Request, CancelTask, CancelOverWS, RegisterWaiter, SendAndWait, TimeoutWaiter, dbVars
  <2> QED
    BY <2>1, <2>2, <2>3, <2>4, <2>5, <2>6, <2>7
<1>3. ASSUME NEW c \in Command, Answer(c)
      PROVE  TaskMirrorsCommand'
  <2>1. ASSUME NEW r \in {"success", "partial_success", "failed", "cancelled"},
               CompleteTaskResult(c, r)
        PROVE  TaskMirrorsCommand'
    <3>1. PICK s, t : /\ s = (IF status[c] \in Terminal THEN status[c] ELSE CommandStatusOf(r))
                      /\ t = (IF status[c] \notin Terminal /\ task[c] # "none" THEN r ELSE task[c])
      OBVIOUS
    <3>2. status' = [status EXCEPT ![c] = s] /\ task' = [task EXCEPT ![c] = t]
      BY <2>1, <3>1 DEF CompleteTaskResult, Finish
    <3>3. CommandStatusOf(r) \in DOMAIN Mirror /\ r \in Mirror[CommandStatusOf(r)]
      BY DEF CommandStatusOf, Mirror
    <3>4. c \in LongCommand => t = "none" \/ (s \in DOMAIN Mirror /\ t \in Mirror[s])
      BY <3>1, <3>3, MirrorNow
    <3> QED
      BY <1>0, <3>2, <3>4, MirrorStep
  <2>2. ASSUME NEW ok \in BOOLEAN, CompletePolicyAck(c, ok)
        PROVE  TaskMirrorsCommand'
    <3>1. c \notin LongCommand
      BY <1>0, <2>2 DEF CompletePolicyAck, KindsKept, LongRunning, LongTypes
    <3> QED
      BY <1>0, <2>2, <3>1, MirrorFinish DEF CompletePolicyAck
  <2>3. ASSUME NEW r \in {"ok", "error"}, SnapshotListResponse(c, r)
        PROVE  TaskMirrorsCommand'
    <3>1. c \notin LongCommand
      BY <1>0, <2>3 DEF SnapshotListResponse, KindsKept, LongRunning, LongTypes
    <3> QED
      BY <1>0, <2>3, <3>1, MirrorFinish, FrameMirror DEF SnapshotListResponse
  <2> QED
    BY <1>3, <2>1, <2>2, <2>3 DEF Answer
<1>4. CASE Scanner
  <2>1. ASSUME NEW c \in Command, TimeoutCommandAndTask(c)
        PROVE  TaskMirrorsCommand'
    <3>1. PICK s, t : /\ s = (IF status[c] \in Active THEN "timeout" ELSE status[c])
                      /\ t = (IF status[c] \in Active /\ task[c] \in TaskActive THEN "timeout"
                                                                           ELSE task[c])
      OBVIOUS
    <3>2. status' = [status EXCEPT ![c] = s] /\ task' = [task EXCEPT ![c] = t]
      BY <2>1, <3>1 DEF TimeoutCommandAndTask
    <3>3. c \in LongCommand => t = "none" \/ (s \in DOMAIN Mirror /\ t \in Mirror[s])
      BY <3>1, MirrorNow DEF Mirror, TaskActive, Active, Terminal
    <3> QED
      BY <1>0, <3>2, <3>3, MirrorStep
  <2>2. CASE UNCHANGED <<status, task>>
    BY <2>2, FrameMirror
  <2> QED
    BY <1>4, <2>1, <2>2 DEF Scanner, TimeoutExpired, SendTimeoutCancel, dbVars
<1>5. CASE Environment \/ UNCHANGED vars
  <2>1. UNCHANGED <<status, task>>
    BY <1>5 DEF Environment, DeadlinePasses, Connect, Disconnect, MarkOffline, AgentReceive,
       MasterRestart, vars, dbVars
  <2> QED
    BY <2>1, FrameMirror
<1> QED
  BY <1>1, <1>2, <1>3, <1>4, <1>5 DEF Next

\* task_histories never contradicts agent_commands about a long-running task.
THEOREM TablesAgree == Spec => []TaskMirrorsCommand
<1>1. Init => TaskMirrorsCommand
  BY DEF Init, TaskMirrorsCommand, LongCommand
<1>2. DispatchInv /\ TaskMirrorsCommand /\ [Next]_vars => TaskMirrorsCommand'
  BY MirrorNext
<1> QED
  BY <1>1, <1>2, DispatchCorrect, PTL DEF Spec

-----------------------------------------------------------------------------
(* The service implements TaskContract.                                    *)

\* The contract sees a step that changes the status of one long-running command.
LEMMA ContractMove ==
  ASSUME TypeOK, NEW c \in LongCommand, NEW s, status' = [status EXCEPT ![c] = s],
         UNCHANGED delivered
  PROVE  /\ Contract!Move(c, {status[c]}, s)
         /\ \A from : status[c] \in from => Contract!Move(c, from, s)
BY DEF TypeOK, Contract!Move, LongCommand

LEMMA ContractStutter ==
  ASSUME \A c \in LongCommand : status'[c] = status[c],
         LongCommand \cap delivered' = LongCommand \cap delivered
  PROVE  UNCHANGED Contract!vars
BY DEF Contract!vars

\* A final status, or a command that is not long-running, changes nothing.
LEMMA ContractFinish ==
  ASSUME DispatchInv, NEW c \in Command, NEW s \in Terminal, Finish(c, s), UNCHANGED delivered,
         c \in LongCommand => c \in delivered
  PROVE  [Contract!Next]_Contract!vars
<1>1. CASE c \in LongCommand /\ status[c] \notin Terminal
  <2>1. status[c] = "running" /\ status' = [status EXCEPT ![c] = s]
    BY <1>1 DEF DispatchInv, DeliveredIsNotQueued, TypeOK, Active, Terminal, Finish
  <2>2. Contract!Finish(c, s)
    BY <1>1, <2>1, ContractMove DEF DispatchInv, Contract!Finish, Contract!Outcome, Terminal
  <2>3. s \in Contract!Outcome
    BY DEF Contract!Outcome, Terminal
  <2> QED
    BY <1>1, <2>2, <2>3 DEF Contract!Next
<1>2. CASE c \notin LongCommand \/ status[c] \in Terminal
  BY <1>2, ContractStutter DEF Finish, DispatchInv, TypeOK, LongCommand
<1> QED
  BY <1>1, <1>2

LEMMA ContractWithdraw ==
  ASSUME DispatchInv, NEW c \in LongCommand, NEW s \in Terminal \ {"succeeded"},
         status[c] = "pending", status' = [status EXCEPT ![c] = s], UNCHANGED delivered
  PROVE  Contract!Next
<1>1. c \notin delivered
  BY DEF DispatchInv, DeliveredIsNotQueued
<1>2. Contract!Withdraw(c, s) /\ s \in Contract!Outcome
  BY <1>1, ContractMove DEF DispatchInv, Contract!Withdraw, Contract!Outcome, Terminal
<1> QED
  BY <1>2 DEF Contract!Next

LEMMA ContractDispatch ==
  ASSUME DispatchInv, NEW d \in Dispatcher, Dispatch(d)
  PROVE  [Contract!Next]_Contract!vars
<1> USE DEF DispatchInv
<1>a. ASSUME NEW c \in Command, IsCurrent(d, c), c \in LongCommand
      PROVE  /\ c \notin delivered
             /\ dpc[d] \in {"send", "rollback"} => status[c] \in {"running", "timeout"}
             /\ dpc[d] \notin {"send", "rollback"} => status[c] \in {"pending"} \cup Terminal
  BY <1>a DEF HeldRows, Sending, IsCurrent
<1>1. ASSUME NEW c \in Command, FailCommandAndTask(d, c)
      PROVE  [Contract!Next]_Contract!vars
  <2>1. CASE c \in LongCommand /\ status[c] \notin Terminal
    <3>1. status[c] = "pending"
      BY <1>1, <1>a, <2>1 DEF FailCommandAndTask
    <3>2. status' = [status EXCEPT ![c] = "failed"] /\ UNCHANGED delivered
      BY <1>1, <2>1 DEF FailCommandAndTask, ghostVars
    <3> QED
      BY <2>1, <3>1, <3>2, ContractWithdraw DEF Terminal
  <2>2. CASE c \notin LongCommand \/ status[c] \in Terminal
    BY <1>1, <2>2, ContractStutter DEF FailCommandAndTask, TypeOK, LongCommand, ghostVars
  <2> QED
    BY <2>1, <2>2
<1>2. ASSUME NEW c \in Command, RecordDispatchSuccess(d, c)
      PROVE  [Contract!Next]_Contract!vars
  <2>1. CASE c \in LongCommand /\ status[c] \notin Terminal
    <3>1. status[c] = "pending" /\ c \notin delivered
      BY <1>2, <1>a, <2>1 DEF RecordDispatchSuccess
    <3>2. status' = [status EXCEPT ![c] = "running"] /\ UNCHANGED delivered
      BY <1>2, <2>1 DEF RecordDispatchSuccess, MarkDispatched, DispatchedStatus, KindsKept, ghostVars
    <3>3. Contract!Start(c)
      BY <2>1, <3>1, <3>2, ContractMove DEF Contract!Start
    <3> QED
      BY <2>1, <3>3 DEF Contract!Next
  <2>2. CASE c \notin LongCommand \/ status[c] \in Terminal
    BY <1>2, <2>2, ContractStutter DEF RecordDispatchSuccess, MarkDispatched, TypeOK, LongCommand,
       ghostVars
  <2> QED
    BY <2>1, <2>2
<1>3. ASSUME NEW c \in Command, HubSend(d, c)
      PROVE  [Contract!Next]_Contract!vars
  <2>1. UNCHANGED status /\ delivered' = delivered \cup {c}
    BY <1>3 DEF HubSend, Deliver, dbVars
  <2>2. CASE c \in LongCommand
    <3>1. status[c] \in {"running", "timeout"} /\ c \notin delivered
      BY <1>3, <1>a, <2>2 DEF HubSend
    <3>2. Contract!HandOver(c)
      BY <2>1, <2>2, <3>1 DEF Contract!HandOver
    <3> QED
      BY <2>2, <3>2 DEF Contract!Next
  <2>3. CASE c \notin LongCommand
    BY <2>1, <2>3, ContractStutter
  <2> QED
    BY <2>2, <2>3
<1>4. ASSUME NEW c \in Command, RollbackDispatchFailure(d, c)
      PROVE  [Contract!Next]_Contract!vars
  <2>1. CASE c \in LongCommand /\ status[c] \notin Terminal
    <3>1. status[c] = "running" /\ c \notin delivered
      BY <1>4, <1>a, <2>1 DEF RollbackDispatchFailure, Terminal
    <3>2. status' = [status EXCEPT ![c] = "pending"] /\ UNCHANGED delivered
      BY <1>4, <2>1 DEF RollbackDispatchFailure, MarkPending, ghostVars
    <3>3. Contract!Requeue(c)
      BY <2>1, <3>1, <3>2, ContractMove DEF Contract!Requeue
    <3> QED
      BY <2>1, <3>3 DEF Contract!Next
  <2>2. CASE c \notin LongCommand \/ status[c] \in Terminal
    BY <1>4, <2>2, ContractStutter DEF RollbackDispatchFailure, MarkPending, TypeOK, LongCommand,
       ghostVars
  <2> QED
    BY <2>1, <2>2
<1>5. CASE UNCHANGED <<status, delivered>>
  BY <1>5, ContractStutter
<1>6. \/ UNCHANGED <<status, delivered>>
      \/ \E c \in Command : \/ FailCommandAndTask(d, c) \/ RecordDispatchSuccess(d, c)
                           \/ HubSend(d, c) \/ RollbackDispatchFailure(d, c)
  BY DEF Dispatch, DispatchForAgent, LockAndSelect, DispatchAborts, PrepareMessageForDispatch,
     CapabilitiesUnknown, HubSendFails, dbVars, ghostVars
<1> QED
  BY <1>1, <1>2, <1>3, <1>4, <1>5, <1>6

LEMMA ContractRequest ==
  ASSUME DispatchInv, NEW c \in Command, Request(c)
  PROVE  [Contract!Next]_Contract!vars
<1> USE DEF DispatchInv
<1>1. CASE CreateCommand(c)
  <2>1. status[c] = "absent" /\ status' = [status EXCEPT ![c] = "pending"] /\ UNCHANGED delivered
    BY <1>1 DEF CreateCommand, NextToCreate, ghostVars
  <2>2. CASE c \in LongCommand
    <3>1. Contract!Submit(c)
      BY <2>1, <2>2, ContractMove DEF Contract!Submit
    <3> QED
      BY <2>2, <3>1 DEF Contract!Next
  <2>3. CASE c \notin LongCommand
    BY <2>1, <2>3, ContractStutter DEF TypeOK, LongCommand
  <2> QED
    BY <2>2, <2>3
<1>2. CASE CancelPending(c)
  <2>1. CASE c \in LongCommand /\ status[c] = "pending"
    <3>1. status' = [status EXCEPT ![c] = "cancelled"] /\ UNCHANGED delivered
      BY <1>2, <2>1 DEF CancelPending, ghostVars
    <3> QED
      BY <2>1, <3>1, ContractWithdraw DEF Terminal
  <2>2. CASE c \notin LongCommand \/ status[c] # "pending"
    BY <1>2, <2>2, ContractStutter DEF CancelPending, TypeOK, LongCommand, ghostVars
  <2> QED
    BY <2>1, <2>2
<1>3. CASE SendAndWait(c) \/ RefreshRecords(c) \/ RefreshFinishes(c)
  <2>1. c \notin LongCommand
    BY <1>3 DEF SendAndWait, RefreshRecords, RefreshFinishes, KindsKept
  <2>2. \A b \in Command : b # c => status'[b] = status[b]
    BY <1>3 DEF SendAndWait, RefreshRecords, MarkDispatched, MarkPending, RefreshFinishes, Finish,
       TypeOK, dbVars
  <2>3. delivered' = delivered \/ delivered' = delivered \cup {c}
    BY <1>3 DEF SendAndWait, Deliver, RefreshRecords, RefreshFinishes, ghostVars
  <2> QED
    BY <2>1, <2>2, <2>3, ContractStutter DEF LongCommand
<1>4. CASE UNCHANGED <<status, delivered>>
  BY <1>4, ContractStutter
<1>5. \/ CreateCommand(c) \/ CancelPending(c) \/ UNCHANGED <<status, delivered>>
      \/ SendAndWait(c) \/ RefreshRecords(c) \/ RefreshFinishes(c)
  BY DEF Request, CancelTask, CancelOverWS, DeleteTask, RegisterWaiter, TimeoutWaiter, dbVars,
     ghostVars
<1> QED
  BY <1>1, <1>2, <1>3, <1>4, <1>5

LEMMA ContractAnswer ==
  ASSUME DispatchInv, NEW c \in Command, Answer(c)
  PROVE  [Contract!Next]_Contract!vars
<1>1. ASSUME NEW r \in {"success", "partial_success", "failed", "cancelled"},
             CompleteTaskResult(c, r)
      PROVE  [Contract!Next]_Contract!vars
  <2>1. CommandStatusOf(r) \in Terminal
    BY DEF CommandStatusOf, Terminal
  <2>2. c \in delivered
    BY <1>1 DEF CompleteTaskResult, DispatchInv, AgentKnowsDelivered
  <2> QED
    BY <1>1, <2>1, <2>2, ContractFinish DEF CompleteTaskResult, ghostVars
<1>2. ASSUME NEW ok \in BOOLEAN, CompletePolicyAck(c, ok)
      PROVE  [Contract!Next]_Contract!vars
  <2>1. (IF ok THEN "succeeded" ELSE "failed") \in Terminal
    BY DEF Terminal
  <2>2. c \in delivered
    BY <1>2 DEF CompletePolicyAck, DispatchInv, AgentKnowsDelivered
  <2> QED
    BY <1>2, <2>1, <2>2, ContractFinish DEF CompletePolicyAck, ghostVars
<1>3. ASSUME NEW r \in {"ok", "error"}, SnapshotListResponse(c, r)
      PROVE  [Contract!Next]_Contract!vars
  <2>1. (IF r = "ok" THEN "succeeded" ELSE "failed") \in Terminal
    BY DEF Terminal
  <2>2. c \in delivered
    BY <1>3 DEF SnapshotListResponse, DispatchInv, AgentKnowsDelivered
  <2>3. CASE chan[c] = "open"
    BY <1>3, <2>3, ContractStutter DEF SnapshotListResponse, ghostVars
  <2>4. CASE chan[c] # "open"
    BY <1>3, <2>1, <2>2, <2>4, ContractFinish DEF SnapshotListResponse, ghostVars
  <2> QED
    BY <2>3, <2>4
<1> QED
  BY <1>1, <1>2, <1>3 DEF Answer

LEMMA ContractScanner ==
  ASSUME DispatchInv, Scanner
  PROVE  [Contract!Next]_Contract!vars
<1> USE DEF DispatchInv
<1>1. ASSUME NEW c \in Command, TimeoutCommandAndTask(c)
      PROVE  [Contract!Next]_Contract!vars
  <2>1. status' = [status EXCEPT ![c] = IF @ \in Active THEN "timeout" ELSE @]
        /\ UNCHANGED delivered
    BY <1>1 DEF TimeoutCommandAndTask, ghostVars
  <2>2. CASE c \in LongCommand /\ status[c] = "pending"
    <3>1. status' = [status EXCEPT ![c] = "timeout"] /\ UNCHANGED delivered
      BY <2>1, <2>2 DEF Active
    <3>2. "timeout" \in Terminal \ {"succeeded"}
      BY DEF Terminal
    <3> QED
      BY <2>2, <3>1, <3>2, ContractWithdraw
  <2>3. CASE c \in LongCommand /\ status[c] = "running"
    <3>1. Contract!Timeout(c)
      BY <2>1, <2>3, ContractMove DEF Active, Contract!Timeout
    <3> QED
      BY <2>3, <3>1 DEF Contract!Next
  <2>4. CASE c \notin LongCommand \/ status[c] \notin {"pending", "running"}
    BY <2>1, <2>4, ContractStutter DEF DeliveredIsNotQueued, Active, TypeOK, LongCommand
  <2> QED
    BY <2>2, <2>3, <2>4
<1>2. CASE UNCHANGED <<status, delivered>>
  BY <1>2, ContractStutter
<1> QED
  BY <1>1, <1>2 DEF Scanner, TimeoutExpired, SendTimeoutCancel, dbVars, ghostVars

LEMMA ContractNext ==
  ASSUME DispatchInv, [Next]_vars
  PROVE  [Contract!Next]_Contract!vars
<1>1. CASE Environment \/ UNCHANGED vars
  <2>1. UNCHANGED <<status, delivered>>
    BY <1>1 DEF Environment, DeadlinePasses, Connect, Disconnect, MarkOffline, AgentReceive,
       MasterRestart, vars, dbVars, ghostVars
  <2> QED
    BY <2>1, ContractStutter
<1> QED
  BY <1>1, ContractDispatch, ContractRequest, ContractAnswer, ContractScanner DEF Next

\* Dispatchers, cancel requests, the timeout scanner, late results and restarts,
\* in any interleaving, keep the contract of long-running tasks.
THEOREM Implementation == Spec => ImplementsTaskContract
<1>1. Init => Contract!Init
  BY DEF Init, Contract!Init, LongCommand
<1>2. DispatchInv /\ [Next]_vars => [Contract!Next]_Contract!vars
  BY ContractNext
<1> QED
  BY <1>1, <1>2, DispatchCorrect, PTL DEF Spec, ImplementsTaskContract, Contract!Spec

-----------------------------------------------------------------------------
(* Action properties.                                                      *)

\* A task withdrawn while it was queued is never handed to the agent.
THEOREM WithdrawnStays == Spec => CancelledIsNotHandedOver
<1>1. ASSUME DispatchInv, [Next]_vars, NEW c \in LongCommand, status[c] = "cancelled",
             c \notin delivered
      PROVE  c \notin delivered'
  <2>1. Contract!HandOver(c) => status[c] \in {"running", "timeout"}
    BY <1>1 DEF Contract!HandOver
  <2>2. \A t \in LongCommand : Contract!HandOver(t) /\ t # c => c \notin delivered'
    BY <1>1 DEF Contract!HandOver
  <2>3. (LongCommand \cap delivered)' = LongCommand \cap delivered => c \notin delivered'
    BY <1>1
  <2>4. [Contract!Next]_Contract!vars
    BY <1>1, ContractNext
  <2> QED
    BY <1>1, <2>1, <2>2, <2>3, <2>4 DEF Contract!Next, Contract!vars, Contract!Submit,
       Contract!Start, Contract!Requeue, Contract!Timeout, Contract!Withdraw, Contract!Finish,
       Contract!Move
<1>2. DispatchInv /\ [Next]_vars =>
        [\A c \in LongCommand :
           status[c] = "cancelled" /\ c \notin delivered => c \notin delivered']_vars
  BY <1>1
<1> QED
  BY <1>2, DispatchCorrect, PTL DEF Spec, CancelledIsNotHandedOver

\* A late result, acknowledgement, dispatch or timeout does not rewrite the
\* outcome of a command, whatever its type.
THEOREM OutcomeIsFinal == Spec => TerminalIsFinal
<1>1. ASSUME TypeOK, [Next]_vars, NEW c \in Command, status[c] \in Terminal
      PROVE  status'[c] = status[c]
  <2>1. CASE Environment \/ UNCHANGED vars
    BY <2>1 DEF Environment, DeadlinePasses, Connect, Disconnect, MarkOffline, AgentReceive,
       MasterRestart, vars, dbVars
  <2>2. ASSUME NEW d \in Dispatcher, Dispatch(d)
        PROVE  status'[c] = status[c]
    BY <1>1, <2>2 DEF Dispatch, DispatchForAgent, LockAndSelect, DispatchAborts,
       PrepareMessageForDispatch, CapabilitiesUnknown, FailCommandAndTask, RecordDispatchSuccess,
       MarkDispatched, HubSend, HubSendFails, RollbackDispatchFailure, MarkPending, TypeOK, dbVars
  <2>3. ASSUME NEW b \in Command, Request(b)
        PROVE  status'[c] = status[c]
    <3>1. CASE CreateCommand(b)
      BY <1>1, <3>1 DEF CreateCommand, NextToCreate, TypeOK, Terminal
    <3>2. CASE CancelPending(b)
      BY <1>1, <3>2 DEF CancelPending, TypeOK, Terminal
    <3>3. CASE RefreshRecords(b) \/ RefreshFinishes(b)
      BY <1>1, <3>3 DEF RefreshRecords, MarkDispatched, MarkPending, RefreshFinishes, Finish, TypeOK
    <3> QED
      BY <2>3, <3>1, <3>2, <3>3 DEF Request, CancelTask, CancelOverWS, DeleteTask, RegisterWaiter,
         SendAndWait, TimeoutWaiter, dbVars
  <2>4. ASSUME NEW b \in Command, Answer(b)
        PROVE  status'[c] = status[c]
    BY <1>1, <2>4 DEF Answer, CompleteTaskResult, CompletePolicyAck, SnapshotListResponse, Finish,
       TypeOK
  <2>5. CASE Scanner
    BY <1>1, <2>5 DEF Scanner, TimeoutExpired, TimeoutCommandAndTask, SendTimeoutCancel, TypeOK,
       Active, Terminal, dbVars
  <2> QED
    BY <1>1, <2>1, <2>2, <2>3, <2>4, <2>5 DEF Next
<1>2. TypeOK /\ [Next]_vars =>
        [\A c \in Command : status[c] \in Terminal => status'[c] = status[c]]_vars
  BY <1>1
<1> QED
  BY <1>2, TypeCorrect, PTL DEF Spec, TerminalIsFinal
===============================================================================
