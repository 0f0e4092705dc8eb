----------------------------- MODULE AgentTasks ------------------------------
(***************************************************************************)
(* The jobs of an agent and the delivery of their results: taskManager     *)
(* (internal/agent/task_manager.go), the queue of scheduled backups, the   *)
(* handlers of backup_now, backup_verify_req, restore_req and cancel_task, *)
(* the results kept for later (internal/agent/handler.go,                  *)
(* policy/store.go) and the client that dials, flushes them and reads      *)
(* messages, one after the other (connect/client.go).                      *)
(*                                                                         *)
(* A job is a goroutine: it runs, sends its result, keeps it in            *)
(* pending_results.json when there is no connection, and only then leaves  *)
(* the task manager.  The read loop answers a command it cannot start in   *)
(* the same way; that answer is a job of kind "answer", without a slot.    *)
(***************************************************************************)
EXTENDS Naturals, Sequences, Functions

CONSTANTS
  Policy,        \* the scheduled policies
  Command,       \* the ids of the commands that the Master sends
  Kind,          \* Command -> {"backup", "verify", "restore"}
  MaxTicks,      \* bound: how often the cron jobs fire
  MaxDeliveries, \* bound: how often commands are delivered, again included
  MaxFaults      \* bound: cancellations, broken connections, restarts, failing reads
                 \* and writes of pending_results.json

Slot == {"backup", "verify", "restore"}
Scheduled == 1..MaxTicks     \* the ids that NewMessageID makes
ASSUME TaskAssumption ==
  Kind \in [Command -> Slot] /\ Command \cap Scheduled = {} /\ MaxTicks \in Nat

VARIABLES
  slots,      \* backupSlot, verifySlot, restoreSlot: those taken
  tasks,      \* taskManager.tasks: the ids registered
  jobs,       \* the goroutines: [id, kind, step, status]
  queue,      \* scheduledQueue
  pending,    \* scheduledPending
  worker,     \* runScheduledBackupQueue: [pc, policy, id]
  client,     \* Client.Run: "dial", "flush", "read", or "answer" in a handler
  conn,       \* Client.conn: "none", "up", or "dead" until the read loop sees it
  file,       \* pending_results.json, or Torn
  flush,      \* FlushPendingResults, with pendingResultsMu: [todo, kept]
  wire,       \* results written to the connection
  owed,       \* results the Master has still to get: ended, and neither received nor
              \* lost with a connection, in a restart or with a failing read or write
  ticks, ids, deliveries, faults  \* counters: cron jobs fired, ids made, commands, faults

taskVars == <<slots, tasks, jobs>>
queueVars == <<queue, pending, worker>>
clientVars == <<client, conn>>
resultVars == <<file, flush, wire, owed>>
counters == <<ticks, ids, deliveries, faults>>
vars == <<taskVars, queueVars, clientVars, resultVars, counters>>

Torn == <<[id |-> 0, status |-> "torn"]>>  \* a file that was not written to its end
NoFlush == [on |-> FALSE, todo |-> <<>>, kept |-> <<>>]
NoPolicy == "none"
Id == Command \cup Scheduled
Result == [id : Id, status : {"done", "cancelled", "refused"}]
Job == [id : Id, kind : Slot \cup {"answer"}, step : {"run", "send", "persist", "return"},
        status : {"done", "cancelled", "refused"}]
ResultOf(j) == [id |-> j.id, status |-> j.status]
Idle == [pc |-> "off", policy |-> NoPolicy, id |-> 0]

Init ==
  /\ slots = {} /\ tasks = {} /\ jobs = {}
  /\ queue = <<>> /\ pending = {} /\ worker = Idle
  /\ client = "dial" /\ conn = "none"
  /\ file = <<>> /\ flush = NoFlush
  /\ wire = {} /\ owed = {}
  /\ ticks = 0 /\ ids = 0 /\ deliveries = 0 /\ faults = 0

-----------------------------------------------------------------------------
\* The task manager.

\* Start refuses: backups and verifications share what they write.
Busy(kind) ==
  IF kind = "restore" THEN "restore" \in slots ELSE slots \cap {"backup", "verify"} # {}

Start(id, kind) ==
  /\ ~Busy(kind)
  /\ slots' = slots \cup {kind}
  /\ tasks' = tasks \cup {id}
  /\ jobs' = jobs \cup {[id |-> id, kind |-> kind, step |-> "run", status |-> "done"]}

\* The job with its next step: the others stay.
Advance(j, step) == jobs' = (jobs \ {j}) \cup {[j EXCEPT !.step = step]}

\* The job's own function ends: finished, failed, or stopped by its context.
EndJob(j) ==
  /\ j.step = "run"
  /\ Advance(j, "send")
  /\ owed' = owed \cup {ResultOf(j)}
  /\ UNCHANGED <<slots, tasks, queueVars, clientVars, file, flush, wire, counters>>

\* sendTaskResultWithID.  A connection that broke and was not read since takes the
\* result without an error, or reports one.
SendResult(j) ==
  /\ j.step = "send"
  /\ \/ conn = "up" /\ wire' = wire \cup {ResultOf(j)} /\ Advance(j, "return") /\ UNCHANGED owed
     \/ conn = "dead" /\ owed' = owed \ {ResultOf(j)} /\ Advance(j, "return") /\ UNCHANGED wire
     \/ conn # "up" /\ Advance(j, "persist") /\ UNCHANGED <<wire, owed>>
  /\ UNCHANGED <<slots, tasks, queueVars, clientVars, file, flush, counters>>

PendingFreeMutant == TRUE
PendingFree == ~flush.on
\* persistPendingResult: a file it cannot read is replaced.
Readable == IF file = Torn THEN <<>> ELSE file
Persist(j) ==
  /\ j.step = "persist" /\ PendingFree
  /\ file' = Append(Readable, ResultOf(j))
  /\ Advance(j, "return")
  /\ UNCHANGED <<slots, tasks, queueVars, clientVars, flush, wire, owed, counters>>

Fault ==
  /\ faults < MaxFaults /\ faults' = faults + 1
  /\ UNCHANGED <<ticks, ids, deliveries>>

\* What goes with a file that is torn or replaced by one without what it held.
Loses(written, held) == owed \ (written \cup held)

\* An error of LoadPendingResults or SavePendingResults is logged, and the result
\* is not kept: the file could not be read and is replaced, could not be opened
\* and stays, or was truncated and not written to its end.
PersistFails(j) ==
  /\ j.step = "persist" /\ PendingFree /\ Fault
  /\ \/ file' = <<ResultOf(j)>> /\ owed' = Loses({}, Range(Readable) \ {ResultOf(j)})
     \/ UNCHANGED file /\ owed' = Loses({ResultOf(j)}, {})
     \/ file' = Torn /\ owed' = Loses({ResultOf(j)}, Range(Readable))
  /\ Advance(j, "return")
  /\ UNCHANGED <<slots, tasks, queueVars, clientVars, flush, wire>>

FreedMutant(j) == IF j.status = "cancelled" THEN {} ELSE {j.kind}
Freed(j) == {j.kind}
\* The deferred function of Start; for the read loop, the return of its handler.
Return(j) ==
  /\ j.step = "return"
  /\ jobs' = jobs \ {j}
  /\ IF j.kind = "answer" THEN client' = "read" /\ UNCHANGED <<slots, tasks>>
     ELSE slots' = slots \ Freed(j) /\ tasks' = tasks \ {j.id} /\ UNCHANGED client
  /\ UNCHANGED <<queueVars, conn, resultVars, counters>>

-----------------------------------------------------------------------------
\* Scheduled work.

IsQueuedMutant(p) == \E i \in DOMAIN queue : queue[i] = p
IsQueued(p) == p \in pending
\* startScheduledBackup: one run of a policy is queued at a time, the running one included.
ScheduleBackup(p) ==
  /\ ticks < MaxTicks /\ ticks' = ticks + 1
  /\ ~IsQueued(p)
  /\ pending' = pending \cup {p}
  /\ queue' = Append(queue, p)
  /\ worker' = IF worker.pc = "off" THEN [worker EXCEPT !.pc = "pop"] ELSE worker
  /\ UNCHANGED <<taskVars, clientVars, resultVars, ids, deliveries, faults>>

\* The cron job of a verification starts it once, and skips it when it may not run.
ScheduleVerify ==
  /\ ticks < MaxTicks /\ ticks' = ticks + 1 /\ ids' = ids + 1
  /\ Start(ids', "verify")
  /\ UNCHANGED <<queueVars, clientVars, resultVars, deliveries, faults>>

\* One critical section: the worker never leaves a queue that is not empty.
WorkerParks ==
  /\ worker.pc = "pop" /\ queue = <<>>
  /\ worker' = Idle
  /\ UNCHANGED <<taskVars, queue, pending, clientVars, resultVars, counters>>

WorkerPops ==
  /\ worker.pc = "pop" /\ queue # <<>>
  /\ ids' = ids + 1
  /\ worker' = [pc |-> "start", policy |-> Head(queue), id |-> ids']
  /\ queue' = Tail(queue)
  /\ UNCHANGED <<taskVars, pending, clientVars, resultVars, ticks, deliveries, faults>>

\* It tries again every second while the slot is taken.
WorkerStarts ==
  /\ worker.pc = "start"
  /\ Start(worker.id, "backup")
  /\ worker' = [worker EXCEPT !.pc = "wait"]
  /\ UNCHANGED <<queue, pending, clientVars, resultVars, counters>>

ForgetsMutant == pending
Forgets == pending \ {worker.policy}
\* The run closes its channel after its result and before it frees the slot.
WorkerGoesOn ==
  /\ worker.pc = "wait"
  /\ \A j \in jobs : j.id = worker.id => j.step = "return"
  /\ pending' = Forgets
  /\ worker' = [Idle EXCEPT !.pc = "pop"]
  /\ UNCHANGED <<taskVars, queue, clientVars, resultVars, counters>>

-----------------------------------------------------------------------------
\* The client and the messages it reads.

\* Run dials again after its backoff, and setConn comes before onConnect.
Dial ==
  /\ client = "dial"
  /\ client' = "flush" /\ conn' = "up"
  /\ UNCHANGED <<taskVars, queueVars, resultVars, counters>>

\* FlushPendingResults is onConnect: a file it cannot read stays as it is.
LoadPending ==
  /\ client = "flush" /\ ~flush.on
  /\ IF file \in {Torn, <<>>} THEN client' = "read" /\ UNCHANGED flush
     ELSE flush' = [on |-> TRUE, todo |-> file, kept |-> <<>>] /\ UNCHANGED client
  /\ UNCHANGED <<taskVars, queueVars, conn, file, wire, owed, counters>>

FlushSends ==
  /\ flush.on /\ flush.todo # <<>>
  /\ LET r == Head(flush.todo)
         sent == [flush EXCEPT !.todo = Tail(@)]
     IN \/ conn = "up" /\ wire' = wire \cup {r} /\ flush' = sent /\ UNCHANGED owed
        \/ conn = "dead" /\ owed' = owed \ {r} /\ flush' = sent /\ UNCHANGED wire
        \/ conn = "dead" /\ flush' = [sent EXCEPT !.kept = Append(@, r)] /\ UNCHANGED <<wire, owed>>
  /\ UNCHANGED <<taskVars, queueVars, clientVars, file, counters>>

Kept == flush.kept
\* The file is cleared, or holds what could not be sent.
FlushEnds ==
  /\ flush.on /\ flush.todo = <<>>
  /\ file' = Kept
  /\ flush' = NoFlush
  /\ client' = "read"
  /\ UNCHANGED <<taskVars, queueVars, conn, wire, owed, counters>>

\* The pending results cannot be loaded, and stay for the next connection.
LoadPendingFails ==
  /\ client = "flush" /\ ~flush.on /\ Fault
  /\ client' = "read"
  /\ UNCHANGED <<taskVars, queueVars, conn, resultVars>>

\* The file stays as it was, and its results are sent again; or what was to remain
\* in it was truncated and not written to its end.
FlushFails ==
  /\ flush.on /\ flush.todo = <<>> /\ Fault
  /\ \/ UNCHANGED <<file, owed>>
     \/ Kept # <<>> /\ file' = Torn /\ owed' = Loses(Range(Kept), {})
  /\ flush' = NoFlush
  /\ client' = "read"
  /\ UNCHANGED <<taskVars, queueVars, conn, wire>>

Reading == client = "read" /\ conn = "up"
Answers(c) ==
  /\ client' = "answer"
  /\ LET answer == [id |-> c, kind |-> "answer", step |-> "send", status |-> "refused"]
     IN jobs' = jobs \cup {answer} /\ owed' = owed \cup {ResultOf(answer)}
  /\ UNCHANGED <<slots, tasks>>

\* handleBackupNow, handleBackupVerifyReq, handleRestoreReq: the command is answered at
\* once when it cannot be parsed or its policy not be read, or when it may not start.
ReceiveCommand(c) ==
  /\ Reading /\ deliveries < MaxDeliveries /\ deliveries' = deliveries + 1
  /\ \/ Start(c, Kind[c]) /\ UNCHANGED <<client, owed>>
     \/ Answers(c)
  /\ UNCHANGED <<queueVars, conn, file, flush, wire, ticks, ids, faults>>

\* handleCancelTask ends the context of the job with that id.
ReceiveCancel(c) ==
  /\ Reading /\ faults < MaxFaults /\ faults' = faults + 1
  /\ c \in tasks
  /\ \E j \in jobs : /\ j.id = c /\ j.step = "run"
                     /\ jobs' = (jobs \ {j}) \cup {[j EXCEPT !.status = "cancelled"]}
  /\ UNCHANGED <<slots, tasks, queueVars, clientVars, resultVars, ticks, ids, deliveries>>

\* The Master reads what arrives.
Deliver(r) ==
  /\ r \in wire
  /\ wire' = wire \ {r}
  /\ owed' = owed \ {r}
  /\ UNCHANGED <<taskVars, queueVars, clientVars, file, flush, counters>>

\* The connection breaks, with what is on it; the read loop sees it when it reads again.
Break ==
  /\ conn = "up" /\ faults < MaxFaults /\ faults' = faults + 1
  /\ conn' = "dead" /\ wire' = {} /\ owed' = owed \ wire
  /\ UNCHANGED <<taskVars, queueVars, client, file, flush, ticks, ids, deliveries>>

ReadFails ==
  /\ client = "read" /\ conn = "dead"
  /\ client' = "dial" /\ conn' = "none"
  /\ UNCHANGED <<taskVars, queueVars, resultVars, counters>>

\* The agent stops and starts again: jobs, queue and connection are gone, and a file
\* that was being written is torn.
Writing ==
  \/ ~flush.on /\ \E j \in jobs : j.step = "persist"
  \/ flush.on /\ flush.todo = <<>> /\ flush.kept # <<>>
Restart ==
  /\ faults < MaxFaults /\ faults' = faults + 1
  /\ \E torn \in {FALSE} \cup (IF Writing THEN {TRUE} ELSE {}) :
       /\ file' = IF torn THEN Torn ELSE file
       /\ owed' = IF torn THEN {} ELSE owed \cap Range(Readable)
  /\ slots' = {} /\ tasks' = {} /\ jobs' = {}
  /\ queue' = <<>> /\ pending' = {} /\ worker' = Idle
  /\ client' = "dial" /\ conn' = "none" /\ flush' = NoFlush /\ wire' = {}
  /\ UNCHANGED <<ticks, ids, deliveries>>

-----------------------------------------------------------------------------
\* What the agent does of itself; the rest is its surroundings.
Work ==
  \/ \E j \in jobs : EndJob(j) \/ SendResult(j) \/ Persist(j) \/ Return(j)
  \/ WorkerParks \/ WorkerPops \/ WorkerStarts \/ WorkerGoesOn
  \/ Dial \/ LoadPending \/ FlushSends \/ FlushEnds \/ ReadFails

Next ==
  \/ Work
  \/ \E p \in Policy : ScheduleBackup(p)
  \/ ScheduleVerify
  \/ \E c \in Command : ReceiveCommand(c) \/ ReceiveCancel(c)
  \/ \E r \in wire : Deliver(r)
  \/ Break \/ Restart \/ LoadPendingFails \/ FlushFails
  \/ \E j \in jobs : PersistFails(j)

Spec == Init /\ [][Next]_vars
\* Runners end, sleeps end, and a dialled connection is set up in the end.  No step of
\* Work is taken for ever without another of them, so one condition is enough.
FairSpec == Spec /\ WF_vars(Work)

-----------------------------------------------------------------------------
\* Every variable has its type: a job has a step of its function, the worker one of its loop.
TypeOK ==
  /\ slots \subseteq Slot /\ tasks \subseteq Id
  /\ jobs \subseteq Job
  /\ queue \in Seq(Policy) /\ pending \subseteq Policy
  /\ worker \in [pc : {"off", "pop", "start", "wait"}, policy : Policy \cup {NoPolicy}, id : {0} \cup Scheduled]
  /\ client \in {"dial", "flush", "read", "answer"} /\ conn \in {"none", "up", "dead"}
  /\ file = Torn \/ file \in Seq(Result)
  /\ flush \in [on : BOOLEAN, todo : Seq(Result), kept : Seq(Result)]
  /\ wire \cup owed \subseteq Result
  /\ {ticks, ids, deliveries, faults} \subseteq Nat

\* Backups and verifications work on the same repository and the same staged files:
\* whatever starts them - a command, a cron job, the queue - only one of them runs, until
\* its result is out; and of restores only one.
OneWriter ==
  \A i, j \in jobs : i # j =>
    /\ ~(i.kind \in {"backup", "verify"} /\ j.kind \in {"backup", "verify"})
    /\ ~(i.kind = "restore" /\ j.kind = "restore")

\* A slot is taken exactly while its job is there, and a job can be cancelled exactly
\* while it is there: a slot that outlives its job would end all backups of the agent.
SlotsHaveJobs ==
  /\ slots = {j.kind : j \in jobs} \ {"answer"}
  /\ tasks = {j.id : j \in {i \in jobs : i.kind # "answer"}}

\* An id names one job, and a command's job is of the command's kind.
IdsNameJobs ==
  \A i \in jobs : i.kind # "answer" =>
    /\ \A j \in jobs : j.kind # "answer" /\ i.id = j.id => i = j
    /\ i.id \in Command => i.kind = Kind[i.id]

\* The ids still to be made are fresh, and there are enough for what is queued.
IdsAreFresh ==
  /\ ids + Len(queue) <= ticks /\ ticks <= MaxTicks
  /\ \A j \in jobs : j.id \in Scheduled => j.id <= ids
  /\ worker.pc = "start" => worker.id \in 1..ids /\ \A j \in jobs : j.id # worker.id

\* What TaskManager promises whoever calls Start, Cancel and the function it returns:
\* one writer at a time, and slots and ids that are those of the running jobs.
TasksInv == TypeOK /\ OneWriter /\ SlotsHaveJobs /\ IdsNameJobs /\ IdsAreFresh

\* A policy waits in the queue exactly while it is marked pending - else its cron job
\* would be skipped for ever, or run twice - and the queue is never without its worker.
Served == IF worker.pc \in {"start", "wait"} THEN {worker.policy} ELSE {}
QueueIsServed ==
  /\ worker.pc = "off" => queue = <<>>
  /\ pending = Range(queue) \cup Served
  /\ Range(queue) \cap Served = {} /\ IsInjective(queue)

Unsent == {ResultOf(j) : j \in {i \in jobs : i.step \in {"send", "persist"}}}
\* A result is with the Master, on its way, kept in the file, or about to be, whatever
\* jobs, handlers and flushes run at once.  Only a broken connection, a restart or a
\* read or write of the file that fails loses one (the error is logged and nothing
\* tries again), and such a failure only what was to be written or what the file held.
ResultsAreKept == owed \subseteq wire \cup Range(Readable) \cup Unsent

\* A scheduled run leaves the queue: it runs in the end, or the agent restarts.
QueuedRuns == \A p \in Policy : (p \in pending) ~> (p \notin pending)
=============================================================================
