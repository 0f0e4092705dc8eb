--------------------------- MODULE AgentTasksProofs ---------------------------
(***************************************************************************)
(* Proofs about AgentTasks: the task manager, the queue of scheduled       *)
(* backups and the results kept for later.                                 *)
(***************************************************************************)
EXTENDS AgentTasks, TLAPS

\* What Append and Tail do to the elements of a queue.
LEMMA RangeAppend ==
  ASSUME NEW S, NEW s \in Seq(S), NEW e \in S
  PROVE  Range(Append(s, e)) = Range(s) \cup {e}
<1> DEFINE t == Append(s, e)
           n == Len(s)
<1>1. /\ n \in Nat /\ DOMAIN s = 1..n /\ DOMAIN t = 1..(n + 1)
      /\ t[n + 1] = e /\ \A i \in 1..n : t[i] = s[i]
  OBVIOUS
<1> HIDE DEF t, n
<1>2. \A i \in DOMAIN t : (i \in DOMAIN s /\ t[i] = s[i]) \/ t[i] = e
  BY <1>1
<1>3. n + 1 \in DOMAIN t /\ \A i \in DOMAIN s : i \in DOMAIN t /\ t[i] = s[i]
  BY <1>1
<1> QED
  BY <1>1, <1>2, <1>3 DEF Range, t

LEMMA RangeTail ==
  ASSUME NEW S, NEW s \in Seq(S), s # <<>>
  PROVE  /\ Range(s) = Range(Tail(s)) \cup {Head(s)}
         /\ Head(s) \in S /\ Tail(s) \in Seq(S) /\ Len(Tail(s)) = Len(s) - 1
<1>1. /\ Tail(s) \in Seq(S) /\ Len(s) >= 1 /\ Head(s) = s[1] /\ Head(s) \in S
      /\ DOMAIN s = 1..Len(s) /\ DOMAIN Tail(s) = 1..(Len(s) - 1)
      /\ Len(Tail(s)) = Len(s) - 1
      /\ \A i \in DOMAIN Tail(s) : Tail(s)[i] = s[i + 1]
  OBVIOUS
<1>2. Range(s) \subseteq Range(Tail(s)) \cup {Head(s)}
  <2> SUFFICES ASSUME NEW i \in DOMAIN s PROVE s[i] \in Range(Tail(s)) \cup {Head(s)}
    BY DEF Range
  <2>1. CASE i = 1
    BY <1>1, <2>1
  <2>2. CASE i # 1
    <3>1. i - 1 \in DOMAIN Tail(s) /\ Tail(s)[i - 1] = s[i]
      BY <1>1, <2>2
    <3> QED
      BY <3>1 DEF Range
  <2> QED
    BY <2>1, <2>2
<1>3. Range(Tail(s)) \cup {Head(s)} \subseteq Range(s)
  <2> SUFFICES ASSUME NEW i \in DOMAIN Tail(s) PROVE Tail(s)[i] \in Range(s) /\ Head(s) \in Range(s)
    <3>1. 1 \in DOMAIN s /\ Head(s) = s[1]
      BY <1>1
    <3> QED
      BY <3>1 DEF Range
  <2>1. i + 1 \in DOMAIN s /\ Tail(s)[i] = s[i + 1] /\ 1 \in DOMAIN s /\ Head(s) = s[1]
    BY <1>1
  <2> QED
    BY <2>1 DEF Range
<1> QED
  BY <1>1, <1>2, <1>3

LEMMA RangeIsIn ==
  ASSUME NEW S, NEW s \in Seq(S) PROVE Range(s) \subseteq S
BY DEF Range

\* A sequence without repetitions keeps that when a new element is appended, and when
\* its head is taken, which then is not in it.
LEMMA InjectiveAppend ==
  ASSUME NEW S, NEW s \in Seq(S), NEW e \in S, IsInjective(s), e \notin Range(s)
  PROVE  IsInjective(Append(s, e))
<1>1. /\ DOMAIN s = 1..Len(s) /\ DOMAIN Append(s, e) = 1..(Len(s) + 1) /\ Len(s) \in Nat
      /\ \A i \in DOMAIN s : Append(s, e)[i] = s[i] /\ s[i] # e
      /\ Append(s, e)[Len(s) + 1] = e
  BY DEF Range
<1> QED
  BY <1>1 DEF IsInjective

LEMMA InjectiveTail ==
  ASSUME NEW S, NEW s \in Seq(S), s # <<>>, IsInjective(s)
  PROVE  IsInjective(Tail(s)) /\ Head(s) \notin Range(Tail(s))
<1>1. /\ DOMAIN s = 1..Len(s) /\ DOMAIN Tail(s) = 1..(Len(s) - 1) /\ Len(s) \in Nat
      /\ Len(s) >= 1 /\ Head(s) = s[1]
      /\ \A i \in DOMAIN Tail(s) : Tail(s)[i] = s[i + 1]
  OBVIOUS
<1> QED
  BY <1>1 DEF IsInjective, Range

-----------------------------------------------------------------------------
(* The task manager.                                                       *)

TaskCore ==
  /\ slots \subseteq Slot /\ tasks \subseteq Id /\ jobs \subseteq Job
  /\ OneWriter /\ SlotsHaveJobs /\ IdsNameJobs

\* A slot is taken by the job of its kind, and a registered id is that of a job.
LEMMA SlotsAndIds ==
  ASSUME TaskCore
  PROVE  /\ \A k \in Slot : k \in slots <=> \E j \in jobs : j.kind = k
         /\ \A t : t \in tasks <=> \E j \in jobs : j.kind # "answer" /\ j.id = t
         /\ \A j \in jobs : j.kind # "answer" => j.kind \in slots /\ j.id \in tasks
BY DEF TaskCore, SlotsHaveJobs, Slot, Job

\* The next step of a job.
LEMMA MoveKeeps ==
  ASSUME TaskCore, NEW j \in jobs, NEW k \in Job, k.id = j.id, k.kind = j.kind,
         jobs' = (jobs \ {j}) \cup {k}, UNCHANGED <<slots, tasks>>
  PROVE  TaskCore'
<1>1. OneWriter'
  BY DEF TaskCore, OneWriter
<1>2. SlotsHaveJobs'
  <2>1. {i.kind : i \in jobs'} = {i.kind : i \in jobs}
    OBVIOUS
  <2>2. {i.id : i \in {h \in jobs' : h.kind # "answer"}}
          = {i.id : i \in {h \in jobs : h.kind # "answer"}}
    OBVIOUS
  <2> QED
    BY <2>1, <2>2 DEF TaskCore, SlotsHaveJobs
<1>3. IdsNameJobs'
  BY DEF TaskCore, IdsNameJobs
<1> QED
  BY <1>1, <1>2, <1>3 DEF TaskCore

\* A job leaves, and with it its slot and its id.
LEMMA LeaveKeeps ==
  ASSUME TaskCore, NEW j \in jobs, j.kind # "answer", jobs' = jobs \ {j},
         slots' = slots \ {j.kind}, tasks' = tasks \ {j.id}
  PROVE  TaskCore'
<1>1. OneWriter' /\ IdsNameJobs'
  BY DEF TaskCore, OneWriter, IdsNameJobs
<1>2. \A i \in jobs' : i.kind # j.kind
  BY DEF TaskCore, OneWriter, Job, Slot
<1>3. \A i \in jobs' : i.kind # "answer" => i.id # j.id
  BY DEF TaskCore, IdsNameJobs
<1>4. slots' = {i.kind : i \in jobs'} \ {"answer"}
  BY <1>2 DEF TaskCore, SlotsHaveJobs
<1>5. tasks' = {i.id : i \in {h \in jobs' : h.kind # "answer"}}
  BY <1>3 DEF TaskCore, SlotsHaveJobs
<1> QED
  BY <1>1, <1>4, <1>5 DEF TaskCore, SlotsHaveJobs

LEMMA AnswerLeaves ==
  ASSUME TaskCore, NEW j \in jobs, j.kind = "answer", jobs' = jobs \ {j},
         UNCHANGED <<slots, tasks>>
  PROVE  TaskCore'
<1>1. OneWriter' /\ IdsNameJobs'
  BY DEF TaskCore, OneWriter, IdsNameJobs
<1>2. slots' = {i.kind : i \in jobs'} \ {"answer"}
  BY DEF TaskCore, SlotsHaveJobs
<1>3. tasks' = {i.id : i \in {h \in jobs' : h.kind # "answer"}}
  BY DEF TaskCore, SlotsHaveJobs
<1> QED
  BY <1>1, <1>2, <1>3 DEF TaskCore, SlotsHaveJobs

LEMMA AnswerKeeps ==
  ASSUME TaskCore, NEW k \in Job, k.kind = "answer", jobs' = jobs \cup {k},
         UNCHANGED <<slots, tasks>>
  PROVE  TaskCore'
<1>1. OneWriter' /\ IdsNameJobs'
  BY DEF TaskCore, OneWriter, IdsNameJobs
<1>2. slots' = {i.kind : i \in jobs'} \ {"answer"}
  BY DEF TaskCore, SlotsHaveJobs
<1>3. tasks' = {i.id : i \in {h \in jobs' : h.kind # "answer"}}
  BY DEF TaskCore, SlotsHaveJobs
<1> QED
  BY <1>1, <1>2, <1>3 DEF TaskCore, SlotsHaveJobs

\* A job is started when its slot is free; the id is new, or that of a command.
LEMMA StartKeeps ==
  ASSUME TaskCore, NEW id \in Id, NEW kind \in Slot, Start(id, kind),
         id \in Command => kind = Kind[id],
         id \in Command \/ \A j \in jobs : j.id # id
  PROVE  TaskCore'
<1> DEFINE k == [id |-> id, kind |-> kind, step |-> "run", status |-> "done"]
<1>1. k \in Job /\ k.id = id /\ k.kind = kind /\ kind # "answer" /\ jobs' = jobs \cup {k}
      /\ slots' = slots \cup {kind} /\ tasks' = tasks \cup {id}
  BY DEF Job, Start, Slot
<1>2. \A j \in jobs : /\ kind = "restore" => j.kind # "restore"
                      /\ kind # "restore" => j.kind \notin {"backup", "verify"}
  BY SlotsAndIds DEF Start, Busy, Slot
<1>3. \A j \in jobs : j.kind # "answer" => j.id # id
  <2> SUFFICES ASSUME NEW j \in jobs, j.kind # "answer", j.id = id PROVE FALSE
    OBVIOUS
  <2>1. id \in Command /\ j.kind = kind
    BY DEF TaskCore, IdsNameJobs
  <2> QED
    BY <1>2, <2>1 DEF Slot
<1> HIDE DEF k
<1>4. OneWriter'
  BY <1>1, <1>2 DEF TaskCore, OneWriter, Slot
<1>5. IdsNameJobs'
  BY <1>1, <1>3 DEF TaskCore, IdsNameJobs
<1>6. slots' = {i.kind : i \in jobs'} \ {"answer"}
  BY <1>1 DEF TaskCore, SlotsHaveJobs
<1>7. tasks' = {i.id : i \in {h \in jobs' : h.kind # "answer"}}
  BY <1>1 DEF TaskCore, SlotsHaveJobs
<1> QED
  BY <1>1, <1>4, <1>5, <1>6, <1>7 DEF TaskCore, SlotsHaveJobs

-----------------------------------------------------------------------------
(* TasksInv is inductive.                                                  *)

LEMMA Parts == TasksInv <=> TypeOK /\ TaskCore /\ IdsAreFresh
BY DEF TasksInv, TypeOK, TaskCore

LEMMA PartsNext == TasksInv' <=> TypeOK' /\ TaskCore' /\ IdsAreFresh'
BY DEF TasksInv, TypeOK, TaskCore

\* What a step leaves alone, its invariants speak of as before.
LEMMA JobsAlone ==
  ASSUME TaskCore, UNCHANGED taskVars PROVE TaskCore'
BY DEF TaskCore, taskVars, OneWriter, SlotsHaveJobs, IdsNameJobs

LEMMA FreshAlone ==
  ASSUME IdsAreFresh, UNCHANGED <<queueVars, counters>>, {j.id : j \in jobs'} \subseteq {j.id : j \in jobs}
  PROVE  IdsAreFresh'
BY DEF IdsAreFresh, queueVars, counters

\* A job's own steps: it ends, sends or keeps its result, and leaves.
LEMMA JobStep ==
  ASSUME TasksInv, NEW j \in jobs, EndJob(j) \/ SendResult(j) \/ Persist(j) \/ Return(j)
  PROVE  TasksInv'
<1> USE Parts, PartsNext
<1> DEFINE next(step) == [j EXCEPT !.step = step]
<1>1. /\ j \in Job /\ ResultOf(j) \in Result
      /\ \A step \in {"send", "persist", "return"} :
           next(step) \in Job /\ next(step).id = j.id /\ next(step).kind = j.kind
  BY DEF TypeOK, Job, ResultOf, Result
<1>2. ASSUME NEW step \in {"send", "persist", "return"}, Advance(j, step),
             UNCHANGED <<slots, tasks, queueVars, counters>>
      PROVE  TaskCore' /\ IdsAreFresh'
  <2>1. TaskCore'
    BY <1>1, <1>2, MoveKeeps DEF Advance
  <2>2. {i.id : i \in jobs'} \subseteq {i.id : i \in jobs}
    BY <1>1, <1>2 DEF Advance
  <2> QED
    BY <1>2, <2>1, <2>2, FreshAlone
<1> HIDE DEF next
<1>3. CASE EndJob(j)
  <2>1. TaskCore' /\ IdsAreFresh'
    BY <1>2, <1>3 DEF EndJob
  <2> QED
    BY <1>1, <1>3, <2>1 DEF EndJob, TypeOK, TaskCore, queueVars, clientVars, counters
<1>4. CASE SendResult(j)
  <2>1. TaskCore' /\ IdsAreFresh'
    BY <1>2, <1>4 DEF SendResult
  <2> QED
    BY <1>1, <1>4, <2>1 DEF SendResult, TypeOK, TaskCore, queueVars, clientVars, counters
<1>5. CASE Persist(j)
  <2>1. TaskCore' /\ IdsAreFresh'
    BY <1>2, <1>5 DEF Persist
  <2>2. Readable \in Seq(Result)
    BY DEF TypeOK, Readable
  <2>3. file' \in Seq(Result)
    BY <1>1, <1>5, <2>2 DEF Persist
  <2> QED
    BY <1>5, <2>1, <2>3 DEF Persist, TypeOK, TaskCore, queueVars, clientVars, counters
<1>6. CASE Return(j)
  <2>1. TaskCore'
    <3>1. CASE j.kind = "answer"
      BY <1>6, <3>1, AnswerLeaves DEF Return
    <3>2. CASE j.kind # "answer"
      BY <1>6, <3>2, LeaveKeeps DEF Return, Freed
    <3> QED
      BY <3>1, <3>2
  <2>2. IdsAreFresh'
    BY <1>6, FreshAlone DEF Return
  <2> QED
    BY <1>6, <2>1, <2>2 DEF Return, TypeOK, TaskCore, queueVars, resultVars, counters
<1> QED
  BY <1>3, <1>4, <1>5, <1>6

\* Scheduled work: an id is made for each run that leaves the queue.
LEMMA QueueStep ==
  ASSUME TasksInv,
         (\E p \in Policy : ScheduleBackup(p)) \/ WorkerParks \/ WorkerPops \/ WorkerGoesOn
  PROVE  TasksInv'
<1> USE Parts, PartsNext
<1>1. TaskCore'
  BY JobsAlone DEF ScheduleBackup, WorkerParks, WorkerPops, WorkerGoesOn, taskVars
<1>2. ASSUME NEW p \in Policy, ScheduleBackup(p) PROVE TypeOK' /\ IdsAreFresh'
  <2>1. queue' \in Seq(Policy) /\ Len(queue') = Len(queue) + 1 /\ Len(queue) \in Nat
    BY <1>2 DEF ScheduleBackup, TypeOK
  <2>2. /\ worker' \in [pc : {"off", "pop", "start", "wait"}, policy : Policy \cup {NoPolicy},
                        id : {0} \cup Scheduled]
        /\ worker'.pc = "start" => worker' = worker
    BY <1>2 DEF ScheduleBackup, TypeOK
  <2>3. ticks \in Nat /\ ids \in Nat /\ ticks' = ticks + 1 /\ ticks' <= MaxTicks
    BY <1>2, TaskAssumption DEF ScheduleBackup, TypeOK
  <2>4. IdsAreFresh'
    BY <1>2, <2>1, <2>2, <2>3 DEF ScheduleBackup, IdsAreFresh, taskVars
  <2> QED
    BY <1>2, <2>1, <2>2, <2>3, <2>4
    DEF ScheduleBackup, TypeOK, taskVars, clientVars, resultVars
<1>3. CASE WorkerParks
  BY <1>1, <1>3 DEF WorkerParks, Idle, TypeOK, IdsAreFresh, taskVars, clientVars, resultVars, counters
<1>4. CASE WorkerGoesOn
  BY <1>1, <1>4 DEF WorkerGoesOn, Forgets, Idle, TypeOK, IdsAreFresh, taskVars, clientVars, resultVars,
              counters
<1>5. CASE WorkerPops
  <2>1. /\ Head(queue) \in Policy /\ queue' \in Seq(Policy) /\ Len(queue') = Len(queue) - 1
        /\ Len(queue) \in Nat /\ Len(queue) >= 1
    BY <1>5, RangeTail DEF WorkerPops, TypeOK
  <2>2. ticks \in Nat /\ ids \in Nat /\ ids' = ids + 1 /\ ids' <= MaxTicks /\ ids' \in Scheduled
    BY <1>5, <2>1, TaskAssumption DEF WorkerPops, TypeOK, IdsAreFresh, Scheduled
  <2>3. \A j \in jobs : j.id # ids'
    BY <2>2 DEF IdsAreFresh
  <2>4. IdsAreFresh'
    BY <1>5, <2>1, <2>2, <2>3 DEF WorkerPops, IdsAreFresh, taskVars, Scheduled
  <2> QED
    BY <1>1, <1>5, <2>1, <2>2, <2>4 DEF WorkerPops, TypeOK, taskVars, clientVars, resultVars
<1> QED
  BY <1>1, <1>2, <1>3, <1>4, <1>5

\* Jobs start: the worker's, a cron job's, a command's.
LEMMA StartStep ==
  ASSUME TasksInv,
         ScheduleVerify \/ WorkerStarts \/ (\E c \in Command : ReceiveCommand(c))
  PROVE  TasksInv'
<1> USE Parts, PartsNext
<1>1. CASE ScheduleVerify
  <2>1. /\ ticks \in Nat /\ ids \in Nat /\ Len(queue) \in Nat /\ ids' = ids + 1
        /\ ticks' = ticks + 1 /\ ids' \in Scheduled /\ ids' \in Id
    BY <1>1, TaskAssumption DEF ScheduleVerify, TypeOK, IdsAreFresh, Scheduled, Id
  <2>2. \A j \in jobs : j.id # ids'
    BY <2>1 DEF IdsAreFresh
  <2>3. TaskCore'
    BY <1>1, <2>1, <2>2, StartKeeps, TaskAssumption DEF ScheduleVerify, Slot
  <2>4. IdsAreFresh'
    BY <1>1, <2>1, <2>2, TaskAssumption DEF ScheduleVerify, Start, IdsAreFresh, queueVars, Scheduled
  <2> QED
    BY <1>1, <2>1, <2>3, <2>4
    DEF ScheduleVerify, TypeOK, TaskCore, queueVars, clientVars, resultVars
<1>2. CASE WorkerStarts
  <2>1. worker.id \in Scheduled /\ worker.id \in Id /\ worker.id <= ids /\ \A j \in jobs : j.id # worker.id
    BY <1>2 DEF WorkerStarts, TypeOK, IdsAreFresh, Scheduled, Id
  <2>2. TaskCore'
    BY <1>2, <2>1, StartKeeps, TaskAssumption DEF WorkerStarts, Slot
  <2>3. IdsAreFresh'
    BY <1>2, <2>1 DEF WorkerStarts, Start, IdsAreFresh, TypeOK, counters
  <2> QED
    BY <1>2, <2>2, <2>3 DEF WorkerStarts, TypeOK, TaskCore, clientVars, resultVars, counters
<1>3. ASSUME NEW c \in Command, ReceiveCommand(c) PROVE TasksInv'
  <2>1. c \in Id /\ c \notin Scheduled /\ Kind[c] \in Slot
    BY TaskAssumption DEF Id
  <2>2. CASE Answers(c)
    <3> DEFINE k == [id |-> c, kind |-> "answer", step |-> "send", status |-> "refused"]
    <3>1. k \in Job /\ k.kind = "answer" /\ k.id = c /\ ResultOf(k) \in Result
      BY <2>1 DEF Job, ResultOf, Result
    <3>2. jobs' = jobs \cup {k} /\ owed' = owed \cup {ResultOf(k)} /\ UNCHANGED <<slots, tasks>>
          /\ client' = "answer"
      BY <2>2 DEF Answers
    <3> HIDE DEF k
    <3>3. TaskCore'
      BY <3>1, <3>2, AnswerKeeps
    <3>4. IdsAreFresh'
      BY <1>3, <2>1, <3>1, <3>2 DEF ReceiveCommand, IdsAreFresh, TypeOK, queueVars, Scheduled
    <3> QED
      BY <1>3, <3>1, <3>2, <3>3, <3>4 DEF ReceiveCommand, TypeOK, TaskCore, queueVars
  <2>3. CASE Start(c, Kind[c]) /\ UNCHANGED <<client, owed>>
    <3>1. TaskCore'
      BY <2>1, <2>3, StartKeeps
    <3>2. IdsAreFresh'
      BY <1>3, <2>1, <2>3 DEF ReceiveCommand, Start, IdsAreFresh, TypeOK, queueVars, Scheduled
    <3> QED
      BY <1>3, <2>3, <3>1, <3>2 DEF ReceiveCommand, TypeOK, TaskCore, queueVars
  <2> QED
    BY <1>3, <2>2, <2>3 DEF ReceiveCommand
<1> QED
  BY <1>1, <1>2, <1>3

\* The client, the connection and the Master: they leave jobs and queue alone.
LEMMA ClientStep ==
  ASSUME TasksInv,
         Dial \/ LoadPending \/ FlushSends \/ FlushEnds \/ ReadFails \/ Break
           \/ (\E r \in wire : Deliver(r)) \/ UNCHANGED vars
  PROVE  TasksInv'
<1> USE Parts, PartsNext
<1>1. UNCHANGED <<taskVars, queueVars, ticks, ids, deliveries>>
  BY DEF Dial, LoadPending, FlushSends, FlushEnds, ReadFails, Break, Deliver, vars, counters
<1>2. TaskCore' /\ IdsAreFresh'
  BY <1>1, JobsAlone DEF IdsAreFresh, taskVars, queueVars
<1>3. /\ client' \in {"dial", "flush", "read", "answer"} /\ conn' \in {"none", "up", "dead"}
      /\ faults' \in Nat
  BY DEF Dial, LoadPending, FlushSends, FlushEnds, ReadFails, Break, Deliver, vars, counters,
         clientVars, TypeOK
<1>4. wire' \cup owed' \subseteq Result /\ (file' = Torn \/ file' \in Seq(Result))
      /\ flush' \in [on : BOOLEAN, todo : Seq(Result), kept : Seq(Result)]
  <2>1. CASE Dial \/ ReadFails \/ UNCHANGED vars
    <3>1. wire' = wire /\ owed' = owed /\ file' = file /\ flush' = flush
      BY <2>1 DEF Dial, ReadFails, vars, resultVars
    <3> QED
      BY <3>1 DEF TypeOK
  <2>2. CASE LoadPending
    <3>1. wire' = wire /\ owed' = owed /\ file' = file
      BY <2>2 DEF LoadPending
    <3>2. CASE flush' = flush
      BY <3>1, <3>2 DEF TypeOK
    <3>3. CASE flush' = [on |-> TRUE, todo |-> file, kept |-> <<>>] /\ file # Torn
      <4>1. file \in Seq(Result) /\ <<>> \in Seq(Result)
        BY <3>3 DEF TypeOK
      <4> QED
        BY <3>1, <3>3, <4>1 DEF TypeOK
    <3> QED
      BY <2>2, <3>2, <3>3 DEF LoadPending
  <2>3. CASE FlushSends
    <3> DEFINE r == Head(flush.todo)
    <3>1. /\ flush.todo \in Seq(Result) /\ flush.kept \in Seq(Result) /\ flush.on \in BOOLEAN
          /\ r \in Result /\ Tail(flush.todo) \in Seq(Result) /\ Append(flush.kept, r) \in Seq(Result)
      BY <2>3, RangeTail DEF FlushSends, TypeOK
    <3>2. /\ wire' \subseteq wire \cup {r} /\ owed' \subseteq owed /\ file' = file
          /\ \/ flush' = [flush EXCEPT !.todo = Tail(@)]
             \/ flush' = [flush EXCEPT !.todo = Tail(@), !.kept = Append(@, r)]
      BY <2>3 DEF FlushSends
    <3> HIDE DEF r
    <3>3. flush' \in [on : BOOLEAN, todo : Seq(Result), kept : Seq(Result)]
      BY <3>1, <3>2 DEF TypeOK
    <3> QED
      BY <3>1, <3>2, <3>3 DEF TypeOK
  <2>4. CASE FlushEnds
    BY <2>4 DEF FlushEnds, Kept, NoFlush, TypeOK
  <2>5. CASE Break \/ \E r \in wire : Deliver(r)
    BY <2>5 DEF Break, Deliver, TypeOK
  <2> QED
    BY <2>1, <2>2, <2>3, <2>4, <2>5
<1> QED
  BY <1>1, <1>2, <1>3, <1>4 DEF TypeOK, taskVars, queueVars

LEMMA CancelStep ==
  ASSUME TasksInv, NEW c \in Command, ReceiveCancel(c) PROVE TasksInv'
<1> USE Parts, PartsNext
<1>1. PICK j \in jobs : jobs' = (jobs \ {j}) \cup {[j EXCEPT !.status = "cancelled"]}
  BY DEF ReceiveCancel
<1> DEFINE k == [j EXCEPT !.status = "cancelled"]
<1>2. k \in Job /\ k.id = j.id /\ k.kind = j.kind /\ jobs' = (jobs \ {j}) \cup {k}
  BY <1>1 DEF TypeOK, Job
<1> HIDE DEF k
<1>3. TaskCore'
  BY <1>2, MoveKeeps DEF ReceiveCancel
<1>4. IdsAreFresh'
  BY <1>2 DEF ReceiveCancel, IdsAreFresh, queueVars
<1> QED
  BY <1>3, <1>4 DEF ReceiveCancel, TypeOK, TaskCore, queueVars, clientVars, resultVars

LEMMA RestartStep ==
  ASSUME TasksInv, Restart PROVE TasksInv'
<1> USE Parts, PartsNext
<1>1. TaskCore'
  BY DEF Restart, TaskCore, OneWriter, SlotsHaveJobs, IdsNameJobs
<1>2. IdsAreFresh'
  <2>1. ids \in Nat /\ ticks \in Nat /\ Len(queue) \in Nat /\ queue' = <<>> /\ jobs' = {}
        /\ worker'.pc = "off" /\ ids' = ids /\ ticks' = ticks
    BY DEF Restart, TypeOK, Idle
  <2> QED
    BY <2>1 DEF IdsAreFresh
<1>3. file' = Torn \/ file' \in Seq(Result)
  BY DEF Restart, TypeOK
<1>4. owed' \subseteq Result
  BY DEF Restart, TypeOK
<1> QED
  BY <1>1, <1>2, <1>3, <1>4 DEF Restart, TypeOK, TaskCore, Idle, NoFlush

\* The file could not be read or written.
LEMMA FaultStep ==
  ASSUME TasksInv, LoadPendingFails \/ FlushFails \/ \E j \in jobs : PersistFails(j)
  PROVE  TasksInv'
<1> USE Parts, PartsNext
<1>1. CASE LoadPendingFails \/ FlushFails
  <2>1. UNCHANGED <<taskVars, queueVars, ticks, ids, deliveries, conn, wire>> /\ client' = "read"
    BY <1>1 DEF LoadPendingFails, FlushFails, Fault, resultVars
  <2>2. TaskCore' /\ IdsAreFresh'
    BY <2>1, JobsAlone DEF IdsAreFresh, taskVars, queueVars
  <2>3. /\ faults' \in Nat /\ owed' \subseteq owed /\ file' \in {file, Torn} /\ flush' \in {flush, NoFlush}
    BY <1>1 DEF LoadPendingFails, FlushFails, Fault, Loses, resultVars, TypeOK
  <2>4. flush' \in [on : BOOLEAN, todo : Seq(Result), kept : Seq(Result)]
    <3>1. NoFlush \in [on : BOOLEAN, todo : Seq(Result), kept : Seq(Result)]
      BY DEF NoFlush
    <3> QED
      BY <2>3, <3>1 DEF TypeOK
  <2> QED
    BY <2>1, <2>2, <2>3, <2>4 DEF TypeOK, taskVars, queueVars
<1>2. ASSUME NEW j \in jobs, PersistFails(j) PROVE TasksInv'
  <2>1. UNCHANGED <<slots, tasks, queueVars, clientVars, flush, wire, ticks, ids, deliveries>>
        /\ Advance(j, "return") /\ faults' \in Nat /\ owed' \subseteq owed
    BY <1>2 DEF PersistFails, Fault, Loses, TypeOK
  <2>2. j \in Job /\ ResultOf(j) \in Result
    BY DEF TypeOK, Job, ResultOf, Result
  <2>3. file' \in {file, Torn, <<ResultOf(j)>>} /\ <<ResultOf(j)>> \in Seq(Result)
    BY <1>2, <2>2 DEF PersistFails
  <2> DEFINE k == [j EXCEPT !.step = "return"]
  <2>4. k \in Job /\ k.id = j.id /\ k.kind = j.kind /\ jobs' = (jobs \ {j}) \cup {k}
    BY <2>1, <2>2 DEF Advance, Job
  <2> HIDE DEF k
  <2>5. TaskCore'
    BY <2>1, <2>4, MoveKeeps
  <2>6. IdsAreFresh'
    BY <2>1, <2>4 DEF IdsAreFresh, queueVars
  <2> QED
    BY <2>1, <2>3, <2>5, <2>6 DEF TypeOK, TaskCore, queueVars, clientVars
<1> QED
  BY <1>1, <1>2

LEMMA TasksInit == Init => TasksInv
BY TaskAssumption
DEF Init, TasksInv, TypeOK, Idle, NoFlush, OneWriter, SlotsHaveJobs, IdsNameJobs, IdsAreFresh

LEMMA TasksStep == TasksInv /\ [Next]_vars => TasksInv'
BY JobStep, QueueStep, StartStep, ClientStep, CancelStep, RestartStep, FaultStep DEF Next, Work

\* One backup or verification and one restore run at a time, whatever starts them, and
\* the slots and ids of the task manager are those of the running jobs (Start, Cancel).
THEOREM TasksCorrect == Spec => []TasksInv
BY TasksInit, TasksStep, PTL DEF Spec

-----------------------------------------------------------------------------
(* The queue.                                                              *)

LEMMA QueueInit == Init => QueueIsServed
BY DEF Init, QueueIsServed, Served, Idle, Range, IsInjective

\* A step that leaves the queue and its worker alone.
LEMMA QueueAlone ==
  ASSUME QueueIsServed, UNCHANGED queueVars PROVE QueueIsServed'
BY DEF QueueIsServed, Served, queueVars

LEMMA QueueServedStep ==
  ASSUME TasksInv, QueueIsServed, [Next]_vars PROVE QueueIsServed'
<1>1. queue \in Seq(Policy) /\ pending \subseteq Policy /\ worker.pc \in {"off", "pop", "start", "wait"}
  BY DEF TasksInv, TypeOK
<1>2. ASSUME NEW p \in Policy, ScheduleBackup(p) PROVE QueueIsServed'
  <2>1. /\ queue' = Append(queue, p) /\ p \notin pending /\ pending' = pending \cup {p}
        /\ worker' = IF worker.pc = "off" THEN [worker EXCEPT !.pc = "pop"] ELSE worker
    BY <1>2 DEF ScheduleBackup, IsQueued
  <2>2. Range(queue') = Range(queue) \cup {p}
    BY <1>1, <2>1, RangeAppend
  <2>3. p \notin Range(queue) /\ p \notin Served
    BY <2>1 DEF QueueIsServed
  <2>4. IsInjective(queue')
    BY <1>1, <2>1, <2>3, InjectiveAppend DEF QueueIsServed
  <2>5. Served' = Served /\ worker'.pc # "off"
    BY <1>1, <2>1 DEF Served, TasksInv, TypeOK
  <2> QED
    BY <2>1, <2>2, <2>3, <2>4, <2>5 DEF QueueIsServed
<1>3. CASE WorkerParks
  <2>1. queue = <<>> /\ UNCHANGED <<queue, pending>> /\ worker.pc = "pop" /\ worker'.pc = "off"
    BY <1>3 DEF WorkerParks, Idle
  <2>2. Served = {} /\ Served' = {}
    BY <2>1 DEF Served
  <2> QED
    BY <2>1, <2>2 DEF QueueIsServed
<1>4. CASE WorkerPops
  <2>1. /\ queue # <<>> /\ queue' = Tail(queue) /\ pending' = pending /\ worker.pc = "pop"
        /\ worker'.pc = "start" /\ worker'.policy = Head(queue)
    BY <1>4 DEF WorkerPops
  <2>2. Range(queue) = Range(queue') \cup {Head(queue)}
    BY <1>1, <2>1, RangeTail
  <2>3. IsInjective(queue') /\ Head(queue) \notin Range(queue')
    BY <1>1, <2>1, InjectiveTail DEF QueueIsServed
  <2>4. Served = {} /\ Served' = {Head(queue)}
    BY <2>1 DEF Served
  <2> QED
    BY <2>1, <2>2, <2>3, <2>4 DEF QueueIsServed
<1>5. CASE WorkerStarts
  <2>1. /\ UNCHANGED <<queue, pending>> /\ worker.pc = "start" /\ worker'.pc = "wait"
        /\ worker'.policy = worker.policy
    BY <1>5 DEF WorkerStarts, TasksInv, TypeOK
  <2>2. Served' = Served
    BY <2>1 DEF Served
  <2> QED
    BY <2>1, <2>2 DEF QueueIsServed
<1>6. CASE WorkerGoesOn
  <2>1. /\ queue' = queue /\ pending' = pending \ {worker.policy} /\ worker.pc = "wait"
        /\ worker'.pc = "pop"
    BY <1>6 DEF WorkerGoesOn, Forgets, Idle
  <2>2. Served = {worker.policy} /\ Served' = {}
    BY <2>1 DEF Served
  <2> QED
    BY <2>1, <2>2 DEF QueueIsServed
<1>7. CASE Restart
  BY <1>7 DEF Restart, QueueIsServed, Served, Idle, Range, IsInjective
<1>8. ASSUME NEW j \in jobs, EndJob(j) \/ SendResult(j) \/ Persist(j) \/ Return(j) PROVE QueueIsServed'
  BY <1>8, QueueAlone DEF EndJob, SendResult, Persist, Return
<1>9. CASE Dial \/ LoadPending \/ FlushSends \/ FlushEnds \/ ReadFails \/ ScheduleVerify \/ Break
           \/ (\E c \in Command : ReceiveCommand(c) \/ ReceiveCancel(c))
           \/ (\E r \in wire : Deliver(r)) \/ UNCHANGED vars
           \/ LoadPendingFails \/ FlushFails \/ (\E j \in jobs : PersistFails(j))
  BY <1>9, QueueAlone DEF LoadPendingFails, FlushFails, PersistFails, Dial, LoadPending, FlushSends, FlushEnds, ReadFails, ScheduleVerify, Break,
     ReceiveCommand, ReceiveCancel, Deliver, vars
<1> QED
  BY <1>2, <1>3, <1>4, <1>5, <1>6, <1>7, <1>8, <1>9 DEF Next, Work

\* The queue of scheduled backups is never without its worker, and exactly the policies
\* in it and the one being served are marked (startScheduledBackup and its worker).
THEOREM QueueServed == Spec => []QueueIsServed
<1>1. TasksInv /\ QueueIsServed /\ [Next]_vars => QueueIsServed'
  BY QueueServedStep
<1> QED
  BY QueueInit, <1>1, TasksCorrect, PTL DEF Spec

-----------------------------------------------------------------------------
(* The results.                                                            *)

\* While the file is flushed, what it holds and the Master still has to get is in the
\* flush, on the wire, or about to be sent once more.
FlushHolds ==
  flush.on => Range(Readable) \cap owed
                \subseteq wire \cup Range(flush.todo) \cup Range(flush.kept) \cup Unsent
ResultsInv == ResultsAreKept /\ FlushHolds

LEMMA Reads ==
  ASSUME TasksInv
  PROVE  /\ Readable \in Seq(Result)
         /\ flush.todo \in Seq(Result) /\ flush.kept \in Seq(Result) /\ flush.on \in BOOLEAN
BY DEF TasksInv, TypeOK, Readable

\* A file that holds results is not torn.
LEMMA ReadsWhatWasWritten ==
  ASSUME file' \in Seq(Result) PROVE Readable' = file'
<1>1. file' # Torn
  <2> SUFFICES ASSUME file' = Torn PROVE FALSE
    OBVIOUS
  <2>1. Len(Torn) = 1 /\ Torn[1].status = "torn"
    BY DEF Torn
  <2>2. file'[1] \in Result
    BY <2>1
  <2> QED
    BY <2>1, <2>2 DEF Result
<1> QED
  BY <1>1 DEF Readable

\* A job that takes a step leaves the results of the others unsent, and its own, too,
\* unless the step was its last with it.
LEMMA AdvanceUnsent ==
  ASSUME NEW j \in jobs, j \in Job, NEW step \in {"send", "persist", "return"}, Advance(j, step)
  PROVE  /\ Unsent \subseteq Unsent' \cup {ResultOf(j)}
         /\ step # "return" => ResultOf(j) \in Unsent'
<1> DEFINE k == [j EXCEPT !.step = step]
<1>1. k.step = step /\ ResultOf(k) = ResultOf(j) /\ jobs' = (jobs \ {j}) \cup {k}
  BY DEF Advance, Job, ResultOf
<1> HIDE DEF k
<1> QED
  BY <1>1 DEF Unsent

LEMMA JobResults ==
  ASSUME TasksInv, ResultsInv, NEW j \in jobs,
         EndJob(j) \/ SendResult(j) \/ Persist(j) \/ Return(j)
  PROVE  ResultsInv'
<1>1. j \in Job /\ ResultOf(j) \in Result
  BY DEF TasksInv, TypeOK, Job, ResultOf, Result
<1>2. CASE EndJob(j)
  <2>1. Unsent \subseteq Unsent' \cup {ResultOf(j)} /\ ResultOf(j) \in Unsent'
    BY <1>1, <1>2, AdvanceUnsent DEF EndJob
  <2>2. owed' = owed \cup {ResultOf(j)} /\ wire' = wire /\ Readable' = Readable /\ flush' = flush
    BY <1>2 DEF EndJob, Readable
  <2> QED
    BY <2>1, <2>2 DEF ResultsInv, ResultsAreKept, FlushHolds
<1>3. CASE SendResult(j)
  <2>1. Readable' = Readable /\ flush' = flush
    BY <1>3 DEF SendResult, Readable
  <2>2. \/ wire' = wire \cup {ResultOf(j)} /\ owed' = owed /\ Advance(j, "return")
        \/ wire' = wire /\ owed' = owed \ {ResultOf(j)} /\ Advance(j, "return")
        \/ wire' = wire /\ owed' = owed /\ Advance(j, "persist")
    BY <1>3 DEF SendResult
  <2>3. Unsent \subseteq Unsent' \cup {ResultOf(j)}
    BY <1>1, <2>2, AdvanceUnsent
  <2>4. ResultOf(j) \in wire' \/ ResultOf(j) \notin owed' \/ ResultOf(j) \in Unsent'
    BY <1>1, <2>2, AdvanceUnsent
  <2>5. wire \subseteq wire' /\ owed' \subseteq owed
    BY <2>2
  <2> QED
    BY <2>1, <2>3, <2>4, <2>5 DEF ResultsInv, ResultsAreKept, FlushHolds
<1>4. CASE Persist(j)
  <2>1. /\ file' = Append(Readable, ResultOf(j)) /\ wire' = wire /\ owed' = owed
        /\ flush' = flush /\ ~flush.on /\ Advance(j, "return")
    BY <1>4 DEF Persist, PendingFree
  <2>2. Range(Readable') = Range(Readable) \cup {ResultOf(j)}
    <3>1. Readable \in Seq(Result) /\ file' \in Seq(Result)
      BY <1>1, <2>1, Reads
    <3>2. Readable' = Append(Readable, ResultOf(j))
      BY <2>1, <3>1, ReadsWhatWasWritten
    <3> QED
      BY <1>1, <3>1, <3>2, RangeAppend
  <2>3. Unsent \subseteq Unsent' \cup {ResultOf(j)}
    BY <1>1, <2>1, AdvanceUnsent
  <2> QED
    BY <2>1, <2>2, <2>3 DEF ResultsInv, ResultsAreKept, FlushHolds
<1>5. CASE Return(j)
  <2>1. wire' = wire /\ owed' = owed /\ flush' = flush /\ Readable' = Readable
    BY <1>5 DEF Return, resultVars, Readable
  <2>2. Unsent' = Unsent
    BY <1>5 DEF Return, Unsent
  <2> QED
    BY <2>1, <2>2 DEF ResultsInv, ResultsAreKept, FlushHolds
<1> QED
  BY <1>2, <1>3, <1>4, <1>5

\* Steps that start or cancel a job, or touch neither jobs nor results.
LEMMA OtherResults ==
  ASSUME TasksInv, ResultsInv, UNCHANGED <<file, flush, wire>>,
         Unsent \subseteq Unsent', owed' \subseteq owed \cup Unsent'
  PROVE  ResultsInv'
BY DEF ResultsInv, ResultsAreKept, FlushHolds, Readable

LEMMA JobsResults ==
  ASSUME TasksInv, ResultsInv,
         ScheduleVerify \/ WorkerStarts \/ (\E c \in Command : ReceiveCommand(c) \/ ReceiveCancel(c))
  PROVE  ResultsInv'
<1>1. ASSUME NEW id, NEW kind, Start(id, kind) PROVE Unsent \subseteq Unsent'
  BY <1>1 DEF Start, Unsent
<1>2. CASE ScheduleVerify
  BY <1>1, <1>2, OtherResults DEF ScheduleVerify, resultVars
<1>3. CASE WorkerStarts
  BY <1>1, <1>3, OtherResults DEF WorkerStarts, resultVars
<1>4. ASSUME NEW c \in Command, ReceiveCommand(c) PROVE ResultsInv'
  <2>1. CASE Answers(c)
    <3> DEFINE k == [id |-> c, kind |-> "answer", step |-> "send", status |-> "refused"]
    <3>1. jobs' = jobs \cup {k} /\ owed' = owed \cup {ResultOf(k)} /\ k.step = "send"
      BY <2>1 DEF Answers
    <3> HIDE DEF k
    <3>2. Unsent' = Unsent \cup {ResultOf(k)}
      BY <3>1 DEF Unsent
    <3> QED
      BY <1>4, <3>1, <3>2, OtherResults DEF ReceiveCommand
  <2>2. CASE Start(c, Kind[c]) /\ owed' = owed
    BY <1>1, <1>4, <2>2, OtherResults DEF ReceiveCommand
  <2> QED
    BY <1>4, <2>1, <2>2 DEF ReceiveCommand
<1>5. ASSUME NEW c \in Command, ReceiveCancel(c) PROVE ResultsInv'
  <2>1. PICK j \in jobs : j.step = "run" /\ jobs' = (jobs \ {j}) \cup {[j EXCEPT !.status = "cancelled"]}
    BY <1>5 DEF ReceiveCancel
  <2>2. Unsent \subseteq Unsent'
    BY <2>1 DEF Unsent
  <2> QED
    BY <1>5, <2>2, OtherResults DEF ReceiveCancel, resultVars
<1> QED
  BY <1>2, <1>3, <1>4, <1>5

\* The flush, the connection and the Master.
LEMMA DeliveryResults ==
  ASSUME TasksInv, ResultsInv,
         LoadPending \/ FlushSends \/ FlushEnds \/ Break \/ (\E r \in wire : Deliver(r)) \/ Restart
  PROVE  ResultsInv'
<1>1. CASE LoadPending
  <2>1. UNCHANGED <<jobs, file, wire, owed>> /\ Readable' = Readable /\ Unsent' = Unsent
    BY <1>1 DEF LoadPending, taskVars, Readable, Unsent
  <2>2. flush' = flush \/ (flush'.todo = file /\ file # Torn)
    BY <1>1 DEF LoadPending
  <2>3. flush' = flush \/ flush'.todo = Readable
    BY <2>2 DEF Readable
  <2> QED
    BY <2>1, <2>3 DEF ResultsInv, ResultsAreKept, FlushHolds
<1>2. CASE FlushSends
  <2> DEFINE r == Head(flush.todo)
  <2>1. flush.on /\ UNCHANGED <<jobs, file>> /\ Readable' = Readable /\ Unsent' = Unsent
    BY <1>2 DEF FlushSends, taskVars, Readable, Unsent
  <2>2. /\ Range(flush.todo) = Range(Tail(flush.todo)) \cup {r} /\ r \in Result
        /\ Range(Append(flush.kept, r)) = Range(flush.kept) \cup {r}
    BY <1>2, Reads, RangeTail, RangeAppend DEF FlushSends
  <2>3. /\ flush'.todo = Tail(flush.todo)
        /\ \/ wire' = wire \cup {r} /\ owed' = owed /\ flush'.kept = flush.kept
           \/ wire' = wire /\ owed' = owed \ {r} /\ flush'.kept = flush.kept
           \/ wire' = wire /\ owed' = owed /\ flush'.kept = Append(flush.kept, r)
    BY <1>2 DEF FlushSends, TasksInv, TypeOK
  <2> HIDE DEF r
  <2> QED
    BY <2>1, <2>2, <2>3 DEF ResultsInv, ResultsAreKept, FlushHolds
<1>3. CASE FlushEnds
  <2>1. /\ flush.on /\ flush.todo = <<>> /\ file' = flush.kept /\ ~flush'.on
        /\ UNCHANGED <<jobs, wire, owed>> /\ Unsent' = Unsent
    BY <1>3 DEF FlushEnds, Kept, NoFlush, taskVars, Unsent
  <2>2. Readable' = flush.kept
    BY <2>1, Reads, ReadsWhatWasWritten
  <2>3. Range(flush.todo) = {}
    BY <2>1 DEF Range
  <2> QED
    BY <2>1, <2>2, <2>3 DEF ResultsInv, ResultsAreKept, FlushHolds
<1>4. CASE Break
  <2>1. /\ wire' = {} /\ owed' = owed \ wire /\ flush' = flush /\ Readable' = Readable
        /\ Unsent' = Unsent
    BY <1>4 DEF Break, taskVars, Readable, Unsent
  <2> QED
    BY <2>1 DEF ResultsInv, ResultsAreKept, FlushHolds
<1>5. ASSUME NEW r \in wire, Deliver(r) PROVE ResultsInv'
  <2>1. /\ wire' = wire \ {r} /\ owed' = owed \ {r} /\ flush' = flush /\ Readable' = Readable
        /\ Unsent' = Unsent
    BY <1>5 DEF Deliver, taskVars, Readable, Unsent
  <2> QED
    BY <2>1 DEF ResultsInv, ResultsAreKept, FlushHolds
<1>6. CASE Restart
  <2>1. ~flush'.on /\ (owed' = {} \/ (owed' = owed \cap Range(Readable) /\ file' = file))
    BY <1>6 DEF Restart, NoFlush
  <2>2. file' = file => Readable' = Readable
    BY DEF Readable
  <2> QED
    BY <2>1, <2>2 DEF ResultsInv, ResultsAreKept, FlushHolds
<1> QED
  BY <1>1, <1>2, <1>3, <1>4, <1>5, <1>6

\* The file could not be read or written: what is lost is not owed any more.
LEMMA FaultResults ==
  ASSUME TasksInv, ResultsInv, LoadPendingFails \/ FlushFails \/ \E j \in jobs : PersistFails(j)
  PROVE  ResultsInv'
<1>1. CASE LoadPendingFails
  <2>1. UNCHANGED <<jobs, file, flush, wire, owed>>
    BY <1>1 DEF LoadPendingFails, taskVars, resultVars
  <2>2. Unsent' = Unsent
    BY <2>1 DEF Unsent
  <2> QED
    BY <2>1, <2>2, OtherResults
<1>2. CASE FlushFails
  <2>1. /\ flush.on /\ flush.todo = <<>> /\ ~flush'.on /\ UNCHANGED <<jobs, wire>> /\ Unsent' = Unsent
        /\ (file' = file /\ owed' = owed) \/ (file' = Torn /\ owed' = owed \ Range(flush.kept))
    BY <1>2 DEF FlushFails, Kept, NoFlush, Loses, taskVars, Unsent
  <2>2. CASE file' = file /\ owed' = owed
    BY <2>1, <2>2 DEF ResultsInv, ResultsAreKept, FlushHolds, Readable
  <2>3. CASE file' = Torn /\ owed' = owed \ Range(flush.kept)
    <3>1. Range(flush.todo) = {}
      BY <2>1 DEF Range
    <3>2. owed' \cap Range(Readable) \subseteq wire \cup Unsent
      BY <2>1, <2>3, <3>1 DEF ResultsInv, FlushHolds
    <3> QED
      BY <2>1, <2>3, <3>2 DEF ResultsInv, ResultsAreKept, FlushHolds
  <2> QED
    BY <2>1, <2>2, <2>3
<1>3. ASSUME NEW j \in jobs, PersistFails(j) PROVE ResultsInv'
  <2> DEFINE r == ResultOf(j)
  <2>1. /\ ~flush.on /\ flush' = flush /\ wire' = wire /\ Advance(j, "return")
        /\ \/ file' = <<r>> /\ owed' = owed \ (Range(Readable) \ {r})
           \/ file' = file /\ owed' = owed \ {r}
           \/ file' = Torn /\ owed' = owed \ ({r} \cup Range(Readable))
    BY <1>3 DEF PersistFails, PendingFree, Loses
  <2>2. j \in Job /\ r \in Result
    BY DEF TasksInv, TypeOK, Job, ResultOf, Result
  <2>3. Unsent \subseteq Unsent' \cup {r}
    BY <2>1, <2>2, AdvanceUnsent
  <2> HIDE DEF r
  <2>4. CASE file' = <<r>> /\ owed' = owed \ (Range(Readable) \ {r})
    <3>1. Readable' = <<r>>
      BY <2>2, <2>4, ReadsWhatWasWritten
    <3>2. r \in Range(Readable')
      BY <3>1 DEF Range
    <3> QED
      BY <2>1, <2>3, <2>4, <3>2 DEF ResultsInv, ResultsAreKept, FlushHolds
  <2>5. CASE file' = file /\ owed' = owed \ {r}
    BY <2>1, <2>3, <2>5 DEF ResultsInv, ResultsAreKept, FlushHolds, Readable
  <2>6. CASE file' = Torn /\ owed' = owed \ ({r} \cup Range(Readable))
    BY <2>1, <2>3, <2>6 DEF ResultsInv, ResultsAreKept, FlushHolds
  <2> QED
    BY <2>1, <2>4, <2>5, <2>6
<1> QED
  BY <1>1, <1>2, <1>3

LEMMA ResultsStep ==
  ASSUME TasksInv, ResultsInv, [Next]_vars PROVE ResultsInv'
<1>1. CASE (\E p \in Policy : ScheduleBackup(p)) \/ WorkerParks \/ WorkerPops \/ WorkerGoesOn
           \/ Dial \/ ReadFails \/ UNCHANGED vars
  <2>1. UNCHANGED <<jobs, file, flush, wire, owed>>
    BY <1>1 DEF ScheduleBackup, WorkerParks, WorkerPops, WorkerGoesOn, Dial, ReadFails, vars,
       taskVars, resultVars
  <2>2. Unsent' = Unsent
    BY <2>1 DEF Unsent
  <2> QED
    BY <2>1, <2>2, OtherResults
<1> QED
  BY <1>1, JobResults, JobsResults, DeliveryResults, FaultResults DEF Next, Work

\* Only a broken connection, a restart or a read or write of the file that fails loses a
\* result: jobs, handlers and the flush of a new connection, which write one file, never
\* do (sendTaskResultWithID, persistPendingResult, FlushPendingResults).
THEOREM ResultsKept == Spec => []ResultsAreKept
<1>1. Init => ResultsInv
  BY DEF Init, ResultsInv, ResultsAreKept, FlushHolds, NoFlush
<1>2. TasksInv /\ ResultsInv /\ [Next]_vars => ResultsInv'
  BY ResultsStep
<1>3. ResultsInv => ResultsAreKept
  BY DEF ResultsInv
<1> QED
  BY <1>1, <1>2, <1>3, TasksCorrect, PTL DEF Spec
===============================================================================
