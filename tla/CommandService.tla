--------------------------- MODULE CommandService ---------------------------
(***************************************************************************)
(* The durable command service of the Master                              *)
(* (internal/master/commands/service.go) with the HTTP handlers that drive *)
(* it (internal/master/api/tasks.go, snapshots.go) and the pump of the     *)
(* agent's WebSocket (internal/master/ws/handler.go).                      *)
(*                                                                         *)
(* A command is a row of agent_commands; a long-running command also owns  *)
(* a row of task_histories.  Several goroutines act on the rows: the       *)
(* dispatchers (connection goroutines and API requests, serialised by      *)
(* dispatchMu), the cancel requests, the timeout scanner, the snapshot     *)
(* refresh requests and the read loops that apply the agents' answers.     *)
(* Every database transaction is one step; between two steps of a          *)
(* goroutine every other goroutine may move, and the Master may restart.   *)
(*                                                                         *)
(* Time is abstract: a command's deadline passes once (DeadlinePasses).    *)
(* The agent is the environment: it runs what it received and may answer   *)
(* late, several times, or never.                                          *)
(*                                                                         *)
(* An operator whose name ends in Mutant is the operator that follows it   *)
(* with a plausible bug in it; no action uses one.  They show which bugs   *)
(* of the code the properties at the end of the module would find.         *)
(***************************************************************************)
EXTENDS Integers, Sequences, FiniteSets

CONSTANTS
  Command,      \* command ids, numbered in the order of created_at
  Agent,        \* registered agents
  AgentOf,      \* the agent_id of each command
  Kind,         \* the type each command is created with
  Selective,    \* restore_req commands whose payload carries include_paths
  Dispatcher,   \* goroutines that call DispatchPending/NewPendingForAgent
  BatchLimit,   \* the LIMIT of the dispatch query
  MaxWire,      \* messages a connection buffers before the writer blocks
  MaxRestarts,  \* bound on the restarts of the Master
  None          \* no command

LongTypes == {"backup_now", "backup_verify_req", "restore_req", "selective_restore_req"}
ShortTypes == {"snapshot_list_req", "policy_push"}

ASSUME CommandAssumption == Command \subseteq Nat /\ None \notin Command
ASSUME KindAssumption ==
  /\ AgentOf \in [Command -> Agent]
  /\ Kind \in [Command -> LongTypes \cup ShortTypes]
  /\ Selective \subseteq {c \in Command : Kind[c] = "restore_req"}
ASSUME BoundAssumption ==
  /\ BatchLimit \in Nat \ {0}
  /\ MaxWire \in Nat \ {0}
  /\ MaxRestarts \in Nat

VARIABLES
  status,     \* agent_commands.status, "absent" before the row exists
  ctype,      \* agent_commands.type
  task,       \* task_histories.status, "none" when there is no row
  expired,    \* commands whose deadline_at has passed
  conn,       \* the Hub's view of each agent
  wire,       \* messages written to the current connection and not yet read
  agent,      \* what each agent (external) did with each command
  delivered,  \* commands ever written to a connection
  resent,     \* commands written again after a first write
  dpc,        \* program counter of each dispatcher
  dreq,       \* the call with which it waits for dispatchMu, if any
  todo,       \* the commands its query returned and it has not finished
  cancel,     \* progress of the cancel request of each command
  scanTodo,   \* expired commands the scanner has read and not processed
  scanLive,   \* those of them it read as dispatched or running
  scanCancel, \* the command whose cancel the scanner is about to send
  refresh,    \* progress of the snapshot refresh request of each command
  chan,       \* the response channel of that request
  restarts    \* restarts of the Master so far

dbVars == <<status, ctype, task>>
dispVars == <<dpc, dreq, todo>>
scanVars == <<scanTodo, scanLive, scanCancel>>
refreshVars == <<refresh, chan>>
ghostVars == <<delivered, resent>>
vars == <<dbVars, expired, conn, wire, agent, ghostVars, dispVars, cancel,
          scanVars, refreshVars, restarts>>

-----------------------------------------------------------------------------
Active == {"pending", "dispatched", "running"}
Terminal == {"succeeded", "failed", "timeout", "cancelled"}
TaskActive == {"pending", "running"}
TaskTerminal == {"success", "partial_success", "failed", "timeout", "cancelled"}

LongRunning(c) == ctype[c] \in LongTypes
Cancelable(c) == LongRunning(c) \/ ctype[c] = "snapshot_list_req"

Message == [type : {"command", "cancel_task"}, cmd : Command]
CommandMsg(c) == [type |-> "command", cmd |-> c]
CancelMsg(c) == [type |-> "cancel_task", cmd |-> c]

Online(a) == conn[a] = "online"
CanWrite(c) == Online(AgentOf[c]) /\ Len(wire[AgentOf[c]]) < MaxWire
Write(m) == wire' = [wire EXCEPT ![AgentOf[m.cmd]] = Append(@, m)]

\* A command message reaches the connection: the two histories record it.
Deliver(c) ==
  /\ CanWrite(c)
  /\ Write(CommandMsg(c))
  /\ delivered' = delivered \cup {c}
  /\ resent' = resent \cup ({c} \cap delivered)

TypeOK ==
  /\ status \in [Command -> Active \cup Terminal \cup {"absent"}]
  /\ ctype \in [Command -> LongTypes \cup ShortTypes]
  /\ task \in [Command -> TaskActive \cup TaskTerminal \cup {"none"}]
  /\ expired \subseteq Command
  /\ conn \in [Agent -> {"none", "online", "stale"}]
  /\ wire \in [Agent -> Seq(Message)]
  /\ agent \in [Command -> {"none", "received", "cancelling"}]
  /\ delivered \subseteq Command /\ resent \subseteq Command
  /\ dpc \in [Dispatcher -> {"idle", "lock", "prepare", "record", "send", "rollback"}]
  /\ dreq \in [Dispatcher -> SUBSET [agent : Agent, redeliver : BOOLEAN]]
  /\ todo \in [Dispatcher -> SUBSET Command]
  /\ cancel \in [Command -> {"idle", "tx", "send"}]
  /\ scanTodo \subseteq Command /\ scanLive \subseteq Command
  /\ scanCancel \in Command \cup {None}
  /\ refresh \in [Command -> {"idle", "register", "send", "record", "failed", "wait"}]
  /\ chan \in [Command -> {"none", "open", "ok", "error", "closed"}]
  /\ restarts \in 0..MaxRestarts

Init ==
  /\ status = [c \in Command |-> "absent"]
  /\ ctype = Kind
  /\ task = [c \in Command |-> "none"]
  /\ expired = {}
  /\ conn = [a \in Agent |-> "none"]
  /\ wire = [a \in Agent |-> << >>]
  /\ agent = [c \in Command |-> "none"]
  /\ delivered = {} /\ resent = {}
  /\ dpc = [d \in Dispatcher |-> "idle"]
  /\ dreq = [d \in Dispatcher |-> {}]
  /\ todo = [d \in Dispatcher |-> {}]
  /\ cancel = [c \in Command |-> "idle"]
  /\ scanTodo = {} /\ scanLive = {} /\ scanCancel = None
  /\ refresh = [c \in Command |-> "idle"]
  /\ chan = [c \in Command |-> "none"]
  /\ restarts = 0

-----------------------------------------------------------------------------
(* Creation.  A long-running command gets its task row in the same          *)
(* transaction; a snapshot refresh goes on to write the request itself.     *)

NextToCreate(c) ==
  /\ status[c] = "absent"
  /\ \A b \in Command : b < c => status[b] # "absent"

CreateCommand(c) ==
  /\ NextToCreate(c)
  /\ status' = [status EXCEPT ![c] = "pending"]
  /\ task' = [task EXCEPT ![c] = IF LongRunning(c) THEN "pending" ELSE "none"]
  /\ refresh' = [refresh EXCEPT ![c] =
       IF ctype[c] = "snapshot_list_req" /\ Online(AgentOf[c]) THEN "register" ELSE "idle"]
  /\ UNCHANGED <<ctype, expired, conn, wire, agent, ghostVars, dispVars, cancel,
                 scanVars, chan, restarts>>

DeadlinePasses(c) ==
  /\ status[c] \in Active /\ c \notin expired
  /\ expired' = expired \cup {c}
  /\ UNCHANGED <<dbVars, conn, wire, agent, ghostVars, dispVars, cancel, scanVars,
                 refreshVars, restarts>>

-----------------------------------------------------------------------------
(* Dispatch.  dispatchForAgent checks the Hub, takes dispatchMu, runs its   *)
(* query and then treats the rows one by one, oldest first.                 *)

MutexFreeMutant == TRUE     \* dispatchMu is not taken
MutexFree == \A d \in Dispatcher : dpc[d] \in {"idle", "lock"}

Eligible(req) ==
  {c \in Command : /\ AgentOf[c] = req.agent
                   /\ status[c] \in {"pending"} \cup (IF req.redeliver THEN {"dispatched"} ELSE {})
                   /\ c \notin expired}

Batch(req) ==
  {c \in Eligible(req) : Cardinality({b \in Eligible(req) : b < c}) < BatchLimit}

IsCurrent(d, c) == c \in todo[d] /\ \A b \in todo[d] : c <= b

\* The current command is finished: go on with the next one or unlock.
Advance(d, c) ==
  /\ todo' = [todo EXCEPT ![d] = @ \ {c}]
  /\ dpc' = [dpc EXCEPT ![d] = IF todo[d] = {c} THEN "idle" ELSE "prepare"]
  /\ UNCHANGED dreq

Goto(d, pc) == dpc' = [dpc EXCEPT ![d] = pc] /\ UNCHANGED <<dreq, todo>>

DispatchForAgent(d, a, redeliver) ==
  /\ dpc[d] = "idle"
  /\ Online(a)
  /\ dpc' = [dpc EXCEPT ![d] = "lock"]
  /\ dreq' = [dreq EXCEPT ![d] = {[agent |-> a, redeliver |-> redeliver]}]
  /\ UNCHANGED <<dbVars, expired, conn, wire, agent, ghostVars, todo, cancel, scanVars,
                 refreshVars, restarts>>

LockAndSelect(d) ==
  /\ dpc[d] = "lock"
  /\ MutexFree
  /\ \E req \in dreq[d] :
       /\ todo' = [todo EXCEPT ![d] = Batch(req)]
       /\ dpc' = [dpc EXCEPT ![d] = IF Batch(req) = {} THEN "idle" ELSE "prepare"]
  /\ dreq' = [dreq EXCEPT ![d] = {}]
  /\ UNCHANGED <<dbVars, expired, conn, wire, agent, ghostVars, cancel, scanVars,
                 refreshVars, restarts>>

\* prepareMessageForDispatch: a restore with include paths is stored again as a
\* selective restore, unless the row has reached a terminal status meanwhile.
PrepareMessageForDispatch(d, c) ==
  /\ dpc[d] = "prepare" /\ IsCurrent(d, c)
  /\ ctype' = IF c \in Selective /\ status[c] \notin Terminal
              THEN [ctype EXCEPT ![c] = "selective_restore_req"] ELSE ctype
  /\ Goto(d, "record")
  /\ UNCHANGED <<status, task, expired, conn, wire, agent, ghostVars, cancel, scanVars,
                 refreshVars, restarts>>

\* The agent has not reported its capabilities: the command stays pending.
CapabilitiesUnknown(d, c) ==
  /\ dpc[d] = "prepare" /\ IsCurrent(d, c)
  /\ c \in Selective /\ ctype[c] = "restore_req"
  /\ Advance(d, c)
  /\ UNCHANGED <<dbVars, expired, conn, wire, agent, ghostVars, cancel, scanVars,
                 refreshVars, restarts>>

\* failCommandAndTask: the payload is invalid, or the agent cannot restore a
\* selection of paths.
FailCommandAndTask(d, c) ==
  /\ dpc[d] = "prepare" /\ IsCurrent(d, c)
  /\ status' = [status EXCEPT ![c] = IF @ \in Terminal THEN @ ELSE "failed"]
  /\ task' = [task EXCEPT ![c] =
       IF status[c] \notin Terminal /\ @ \in TaskActive THEN "failed" ELSE @]
  /\ Advance(d, c)
  /\ UNCHANGED <<ctype, expired, conn, wire, agent, ghostVars, cancel, scanVars,
                 refreshVars, restarts>>

\* The status of a command that was sent: a long-running one is not sent again.
DispatchedStatusMutant(c) == "dispatched"
DispatchedStatus(c) == IF LongRunning(c) THEN "running" ELSE "dispatched"

\* recordDispatchSuccessForCommand: the row is active before the message leaves.
MarkDispatched(c) ==
  /\ status' = [status EXCEPT ![c] =
       IF @ \in Terminal THEN @ ELSE DispatchedStatus(c)]
  /\ task' = [task EXCEPT ![c] =
       IF status[c] \notin Terminal /\ LongRunning(c) /\ @ = "pending" THEN "running" ELSE @]
  /\ UNCHANGED ctype

\* recordDispatchFailure: the row is queued again.
MarkPending(c) ==
  /\ status' = [status EXCEPT ![c] = IF @ \in Terminal THEN @ ELSE "pending"]
  /\ task' = [task EXCEPT ![c] =
       IF status[c] \notin Terminal /\ LongRunning(c) /\ @ = "running" THEN "pending" ELSE @]
  /\ UNCHANGED ctype

StillActiveMutant(c) == TRUE     \* dispatch ignores that no row was updated
StillActive(c) == status[c] \notin Terminal

RecordDispatchSuccess(d, c) ==
  /\ dpc[d] = "record" /\ IsCurrent(d, c)
  /\ MarkDispatched(c)
  /\ IF StillActive(c) THEN Goto(d, "send") ELSE Advance(d, c)
  /\ UNCHANGED <<expired, conn, wire, agent, ghostVars, cancel, scanVars, refreshVars, restarts>>

HubSend(d, c) ==
  /\ dpc[d] = "send" /\ IsCurrent(d, c)
  /\ Deliver(c)
  /\ Advance(d, c)
  /\ UNCHANGED <<dbVars, expired, conn, agent, cancel, scanVars, refreshVars, restarts>>

HubSendFails(d, c) ==
  /\ dpc[d] = "send" /\ IsCurrent(d, c)
  /\ Goto(d, "rollback")
  /\ UNCHANGED <<dbVars, expired, conn, wire, agent, ghostVars, cancel, scanVars,
                 refreshVars, restarts>>

RollbackDispatchFailure(d, c) ==
  /\ dpc[d] = "rollback" /\ IsCurrent(d, c)
  /\ MarkPending(c)
  /\ Advance(d, c)
  /\ UNCHANGED <<expired, conn, wire, agent, ghostVars, cancel, scanVars, refreshVars, restarts>>

\* A database operation fails (the request's context was cancelled): the call
\* returns the error, drops the rest of its batch and unlocks.
DispatchAborts(d) ==
  /\ dpc[d] \in {"lock", "prepare", "record", "rollback"}
  /\ dpc' = [dpc EXCEPT ![d] = "idle"]
  /\ dreq' = [dreq EXCEPT ![d] = {}]
  /\ todo' = [todo EXCEPT ![d] = {}]
  /\ UNCHANGED <<dbVars, expired, conn, wire, agent, ghostVars, cancel, scanVars,
                 refreshVars, restarts>>

-----------------------------------------------------------------------------
(* User cancellation: CancelTask reads the rows, then either cancels the    *)
(* pending row or asks the agent over the WebSocket.                        *)

CancelTask(c) ==
  /\ cancel[c] = "idle"
  /\ task[c] \in TaskActive /\ status[c] \in Active
  /\ cancel' = [cancel EXCEPT ![c] = IF status[c] = "pending" THEN "tx" ELSE "send"]
  /\ UNCHANGED <<dbVars, expired, conn, wire, agent, ghostVars, dispVars, scanVars,
                 refreshVars, restarts>>

CancelPending(c) ==
  /\ cancel[c] = "tx"
  /\ status' = [status EXCEPT ![c] = IF @ = "pending" THEN "cancelled" ELSE @]
  /\ task' = [task EXCEPT ![c] =
       IF status[c] = "pending" /\ @ \in TaskActive THEN "cancelled" ELSE @]
  /\ cancel' = [cancel EXCEPT ![c] = "idle"]
  /\ UNCHANGED <<ctype, expired, conn, wire, agent, ghostVars, dispVars, scanVars,
                 refreshVars, restarts>>

CancelOverWS(c) ==
  /\ cancel[c] = "send"
  /\ cancel' = [cancel EXCEPT ![c] = "idle"]
  /\ \/ CanWrite(c) /\ Write(CancelMsg(c))
     \/ UNCHANGED wire     \* offline or the write failed: 503 to the user
  /\ UNCHANGED <<dbVars, expired, conn, agent, ghostVars, dispVars, scanVars, refreshVars,
                 restarts>>

\* DeleteTask: only a finished task may be deleted; its command row stays.
DeleteTask(c) ==
  /\ task[c] \in TaskTerminal
  /\ task' = [task EXCEPT ![c] = "none"]
  /\ UNCHANGED <<status, ctype, expired, conn, wire, agent, ghostVars, dispVars, cancel,
                 scanVars, refreshVars, restarts>>

-----------------------------------------------------------------------------
(* The timeout scanner: one query, then a transaction per expired row and   *)
(* a cancel message for those the QUERY saw at the agent.                   *)

OverdueMutant == {c \in expired : status[c] \in {"dispatched", "running"}}
Overdue == {c \in expired : status[c] \in Active}

TimeoutExpired ==
  /\ scanTodo = {} /\ scanCancel = None
  /\ scanTodo' = Overdue
  /\ scanTodo' # {}
  /\ scanLive' = {c \in scanTodo' : status[c] \in {"dispatched", "running"}}
  /\ UNCHANGED <<dbVars, expired, conn, wire, agent, ghostVars, dispVars, cancel,
                 scanCancel, refreshVars, restarts>>

TimeoutCommandAndTask(c) ==
  /\ c \in scanTodo /\ scanCancel = None
  /\ scanTodo' = scanTodo \ {c}
  /\ scanLive' = scanLive \ {c}
  /\ scanCancel' = IF status[c] \in Active /\ c \in scanLive /\ Cancelable(c) THEN c ELSE None
  /\ status' = [status EXCEPT ![c] = IF @ \in Active THEN "timeout" ELSE @]
  /\ task' = [task EXCEPT ![c] =
       IF status[c] \in Active /\ @ \in TaskActive THEN "timeout" ELSE @]
  /\ UNCHANGED <<ctype, expired, conn, wire, agent, ghostVars, dispVars, cancel,
                 refreshVars, restarts>>

SendTimeoutCancel(c) ==
  /\ scanCancel = c
  /\ scanCancel' = None
  /\ \/ CanWrite(c) /\ Write(CancelMsg(c))
     \/ UNCHANGED wire
  /\ UNCHANGED <<dbVars, expired, conn, agent, ghostVars, dispVars, cancel, scanTodo,
                 scanLive, refreshVars, restarts>>

-----------------------------------------------------------------------------
(* Answers of the agents, applied by the read loop of a connection.         *)

\* The statuses CompleteTaskResultWith stores for the result of an agent.
CommandStatusOf(r) ==
  CASE r = "success" -> "succeeded" [] r = "cancelled" -> "cancelled" [] OTHER -> "failed"

FinishMutant(c, s) == status' = [status EXCEPT ![c] = s]
Finish(c, s) == status' = [status EXCEPT ![c] = IF @ \in Terminal THEN @ ELSE s]

CompleteTaskResult(c, r) ==
  /\ conn[AgentOf[c]] # "none"
  /\ agent[c] # "none" /\ LongRunning(c)
  /\ r = "cancelled" => agent[c] = "cancelling"
  /\ r = "partial_success" => ctype[c] \in {"restore_req", "selective_restore_req"}
  /\ Finish(c, CommandStatusOf(r))
  /\ task' = [task EXCEPT ![c] = IF status[c] \notin Terminal /\ @ # "none" THEN r ELSE @]
  /\ UNCHANGED <<ctype, expired, conn, wire, agent, ghostVars, dispVars, cancel, scanVars,
                 refreshVars, restarts>>

CompletePolicyAck(c, ok) ==
  /\ conn[AgentOf[c]] # "none"
  /\ agent[c] # "none" /\ ctype[c] = "policy_push"
  /\ Finish(c, IF ok THEN "succeeded" ELSE "failed")
  /\ UNCHANGED <<ctype, task, expired, conn, wire, agent, ghostVars, dispVars, cancel,
                 scanVars, refreshVars, restarts>>

\* A snapshot list goes to the waiting request if there is one, else it is
\* applied by NewSnapshotListResponseProcessor.
SnapshotListResponse(c, r) ==
  /\ conn[AgentOf[c]] # "none"
  /\ agent[c] # "none" /\ ctype[c] = "snapshot_list_req"
  /\ IF chan[c] = "open"
     THEN chan' = [chan EXCEPT ![c] = r] /\ UNCHANGED status
     ELSE Finish(c, IF r = "ok" THEN "succeeded" ELSE "failed") /\ UNCHANGED chan
  /\ UNCHANGED <<ctype, task, expired, conn, wire, agent, ghostVars, dispVars, cancel,
                 scanVars, refresh, restarts>>

-----------------------------------------------------------------------------
(* RefreshSnapshots writes its request itself, outside dispatchMu, and      *)
(* records the outcome afterwards.                                          *)

RegisterWaiter(c) ==
  /\ refresh[c] = "register"
  /\ refresh' = [refresh EXCEPT ![c] = "send"]
  /\ chan' = [chan EXCEPT ![c] = "open"]
  /\ UNCHANGED <<dbVars, expired, conn, wire, agent, ghostVars, dispVars, cancel, scanVars,
                 restarts>>

SendAndWait(c) ==
  /\ refresh[c] = "send"
  /\ \/ /\ Deliver(c)
        /\ refresh' = [refresh EXCEPT ![c] = "record"]
        /\ UNCHANGED chan
     \/ /\ refresh' = [refresh EXCEPT ![c] = "failed"]
        /\ chan' = [chan EXCEPT ![c] = "none"]
        /\ UNCHANGED <<wire, ghostVars>>
  /\ UNCHANGED <<dbVars, expired, conn, agent, dispVars, cancel, scanVars, restarts>>

RefreshRecords(c) ==
  /\ \/ /\ refresh[c] = "record"
        /\ MarkDispatched(c)
        /\ refresh' = [refresh EXCEPT ![c] = "wait"]
     \/ /\ refresh[c] = "failed"
        /\ MarkPending(c)
        /\ refresh' = [refresh EXCEPT ![c] = "idle"]
  /\ UNCHANGED <<expired, conn, wire, agent, ghostVars, dispVars, cancel, scanVars, chan,
                 restarts>>

TimeoutWaiter(c) ==
  /\ chan[c] = "open" /\ refresh[c] \in {"record", "wait"}
  /\ chan' = [chan EXCEPT ![c] = "closed"]
  /\ UNCHANGED <<dbVars, expired, conn, wire, agent, ghostVars, dispVars, cancel, scanVars,
                 refresh, restarts>>

RefreshFinishes(c) ==
  /\ refresh[c] = "wait" /\ chan[c] \in {"ok", "error", "closed"}
  /\ Finish(c, CASE chan[c] = "ok" -> "succeeded"
                 [] chan[c] = "error" -> "failed"
                 [] chan[c] = "closed" -> "timeout")
  /\ refresh' = [refresh EXCEPT ![c] = "idle"]
  /\ chan' = [chan EXCEPT ![c] = "none"]
  /\ UNCHANGED <<ctype, task, expired, conn, wire, agent, ghostVars, dispVars, cancel,
                 scanVars, restarts>>

-----------------------------------------------------------------------------
(* The environment: connections, the agents and restarts of the Master.     *)

Connect(a) ==
  /\ conn[a] # "online"
  /\ conn' = [conn EXCEPT ![a] = "online"]
  /\ \/ UNCHANGED wire                               \* a heartbeat after MarkOffline
     \/ wire' = [wire EXCEPT ![a] = << >>]           \* a new connection
  /\ UNCHANGED <<dbVars, expired, agent, ghostVars, dispVars, cancel, scanVars,
                 refreshVars, restarts>>

Disconnect(a) ==
  /\ conn[a] # "none"
  /\ conn' = [conn EXCEPT ![a] = "none"]
  /\ wire' = [wire EXCEPT ![a] = << >>]
  /\ UNCHANGED <<dbVars, expired, agent, ghostVars, dispVars, cancel, scanVars,
                 refreshVars, restarts>>

\* The monitor marks a silent agent offline; its connection stays open.
MarkOffline(a) ==
  /\ conn[a] = "online"
  /\ conn' = [conn EXCEPT ![a] = "stale"]
  /\ UNCHANGED <<dbVars, expired, wire, agent, ghostVars, dispVars, cancel, scanVars,
                 refreshVars, restarts>>

\* The agent cancels a task it knows and ignores the cancel of any other.
AgentReceive(a) ==
  /\ wire[a] # << >>
  /\ wire' = [wire EXCEPT ![a] = Tail(@)]
  /\ LET m == Head(wire[a]) IN
       agent' = [agent EXCEPT ![m.cmd] =
         IF m.type = "command" THEN (IF @ = "none" THEN "received" ELSE @)
         ELSE IF @ = "received" THEN "cancelling" ELSE @]
  /\ UNCHANGED <<dbVars, expired, conn, ghostVars, dispVars, cancel, scanVars,
                 refreshVars, restarts>>

MasterRestart ==
  /\ restarts < MaxRestarts
  /\ restarts' = restarts + 1
  /\ conn' = [a \in Agent |-> "none"]
  /\ wire' = [a \in Agent |-> << >>]
  /\ dpc' = [d \in Dispatcher |-> "idle"]
  /\ dreq' = [d \in Dispatcher |-> {}]
  /\ todo' = [d \in Dispatcher |-> {}]
  /\ cancel' = [c \in Command |-> "idle"]
  /\ scanTodo' = {} /\ scanLive' = {} /\ scanCancel' = None
  /\ refresh' = [c \in Command |-> "idle"]
  /\ chan' = [c \in Command |-> "none"]
  /\ UNCHANGED <<dbVars, expired, agent, ghostVars>>

-----------------------------------------------------------------------------
Dispatch(d) ==
  \/ \E a \in Agent, redeliver \in BOOLEAN : DispatchForAgent(d, a, redeliver)
  \/ LockAndSelect(d)
  \/ DispatchAborts(d)
  \/ \E c \in Command :
       \/ PrepareMessageForDispatch(d, c)
       \/ CapabilitiesUnknown(d, c)
       \/ FailCommandAndTask(d, c)
       \/ RecordDispatchSuccess(d, c)
       \/ HubSend(d, c)
       \/ HubSendFails(d, c)
       \/ RollbackDispatchFailure(d, c)

Request(c) ==
  \/ CreateCommand(c)
  \/ CancelTask(c) \/ CancelPending(c) \/ CancelOverWS(c)
  \/ DeleteTask(c)
  \/ RegisterWaiter(c) \/ SendAndWait(c) \/ RefreshRecords(c) \/ TimeoutWaiter(c) \/ RefreshFinishes(c)

Scanner == TimeoutExpired \/ \E c \in Command : TimeoutCommandAndTask(c) \/ SendTimeoutCancel(c)

Answer(c) ==
  \/ \E r \in {"success", "partial_success", "failed", "cancelled"} : CompleteTaskResult(c, r)
  \/ \E ok \in BOOLEAN : CompletePolicyAck(c, ok)
  \/ \E r \in {"ok", "error"} : SnapshotListResponse(c, r)

Environment ==
  \/ \E c \in Command : DeadlinePasses(c)
  \/ \E a \in Agent : Connect(a) \/ Disconnect(a) \/ MarkOffline(a) \/ AgentReceive(a)
  \/ MasterRestart

Next ==
  \/ \E d \in Dispatcher : Dispatch(d)
  \/ \E c \in Command : Request(c) \/ Answer(c)
  \/ Scanner
  \/ Environment

Spec == Init /\ [][Next]_vars

\* The clock advances and the scanner's ticker keeps firing
\* (RunTimeoutScanner); nothing is assumed of agents, users or connections.
Fairness ==
  /\ \A c \in Command : WF_vars(DeadlinePasses(c))
  /\ WF_vars(Scanner)

FairSpec == Spec /\ Fairness

-----------------------------------------------------------------------------
(* Properties.                                                             *)

LongCommand == {c \in Command : Kind[c] \in LongTypes}

\* The user's view of a task (task_histories) never contradicts the command
\* that drives it: the two rows are written by nine different transactions.
Mirror == [pending |-> {"pending"}, running |-> {"running"}, succeeded |-> {"success"},
           failed |-> {"failed", "partial_success"}, timeout |-> {"timeout"},
           cancelled |-> {"cancelled"}]

TaskMirrorsCommand ==
  \A c \in LongCommand : task[c] # "none" =>
    /\ status[c] \in DOMAIN Mirror
    /\ task[c] \in Mirror[status[c]]

\* A backup, verification or restore is written to a connection at most once,
\* whatever the reconnections, concurrent dispatches and restarts of the Master
\* (TestDispatchPendingForAgentConcurrentDispatchSendsLongCommandAtMostOnce).
AtMostOnce == LongCommand \cap resent = {}

\* A long-running command an agent may be executing is never queued again, so
\* that neither a dispatcher nor CancelPending treats it as not yet started; and
\* none is "dispatched", the status that is redelivered on a reconnection.
DeliveredIsNotQueued ==
  \A c \in LongCommand : /\ status[c] # "dispatched"
                         /\ c \in delivered => status[c] \notin {"absent", "pending"}

\* A terminal command keeps its status: a late result, acknowledgement, dispatch
\* or timeout does not rewrite what the user was told.
TerminalIsFinal ==
  [][\A c \in Command : status[c] \in Terminal => status'[c] = status[c]]_vars

\* A task that was cancelled while still queued never reaches the agent, even
\* when a dispatcher had already selected it.
CancelledIsNotHandedOver ==
  [][\A c \in LongCommand :
       status[c] = "cancelled" /\ c \notin delivered => c \notin delivered']_vars

\* Every command reaches a terminal status, even if its message or its answer is
\* lost, its agent never comes back, or the Master restarts while handling it.
EventuallyTerminal ==
  \A c \in Command : status[c] \in Active ~> status[c] \in Terminal

\* The service implements the contract of long-running tasks: every step on the
\* rows, in any interleaving, is a step of TaskContract or changes nothing there.
Contract == INSTANCE TaskContract WITH
  Task <- LongCommand,
  state <- [c \in LongCommand |-> status[c]],
  handed <- LongCommand \cap delivered

ImplementsTaskContract == Contract!Spec

\* Why the contract holds: the inductive strengthening of the invariants above.

\* Storing a legacy restore again as a selective one keeps it long-running, and
\* only a snapshot request is written by RefreshSnapshots.
KindsKept ==
  /\ \A c \in Command : LongRunning(c) <=> c \in LongCommand
  /\ \A c \in Command : refresh[c] # "idle" => c \notin LongCommand

\* dispatchMu: one dispatcher at a time holds rows it selected.
OneDispatcher ==
  /\ \A d, e \in Dispatcher :
       dpc[d] \notin {"idle", "lock"} /\ dpc[e] \notin {"idle", "lock"} => d = e
  /\ \A d \in Dispatcher : dpc[d] \in {"idle", "lock"} => todo[d] = {}

\* A row that a dispatcher holds was not sent; it is still queued unless it was
\* withdrawn, and the one about to be sent can only be changed by the scanner.
Sending(d, c) == dpc[d] \in {"send", "rollback"} /\ IsCurrent(d, c)
HeldRows ==
  \A d \in Dispatcher : \A c \in LongCommand \cap todo[d] :
    /\ c \notin delivered
    /\ Sending(d, c) => status[c] \in {"running", "timeout"}
    /\ ~ Sending(d, c) => status[c] \in {"pending"} \cup Terminal

\* What an agent knows or will read was delivered to it.
AgentKnowsDelivered ==
  /\ \A c \in Command : agent[c] # "none" => c \in delivered
  /\ \A a \in Agent : \A i \in DOMAIN wire[a] :
       wire[a][i].type = "command" => wire[a][i].cmd \in delivered

\* The dispatch invariant: whatever requests, dispatchers, the scanner, answers
\* and restarts do, the rows a dispatcher holds were not sent, so a backup, a
\* verification or a restore is sent at most once and is not queued again
\* once it was.
DispatchInv ==
  /\ TypeOK /\ KindsKept /\ OneDispatcher /\ HeldRows /\ AgentKnowsDelivered
  /\ DeliveredIsNotQueued /\ AtMostOnce

\* NOT true of the code: a long-running command whose timeout is recorded while
\* the agent may run it gets a cancel_task (TestTimeoutExpiredSendsCancelForRunningCommand).
RunningTimeoutSendsCancel ==
  [][\A c \in LongCommand :
       status[c] = "running" /\ c \in delivered /\ status'[c] = "timeout"
         => scanCancel' = c]_vars
=============================================================================
