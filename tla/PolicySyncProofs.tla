--------------------------- MODULE PolicySyncProofs ---------------------------
(***************************************************************************)
(* Proofs about PolicySync, for any number of policies, handlers, message  *)
(* ids, edits and faults: one active push of a policy at most, jobs that   *)
(* match the policy files, refused pushes that change neither, versions    *)
(* that only grow on the agent, and a truthful synced.                     *)
(***************************************************************************)
EXTENDS PolicySync, FiniteSetTheorems, TLAPS

-----------------------------------------------------------------------------
(* The agent, and what each end of a push leaves of it.                    *)

AnyPolicy == Policy \cup {NoPolicy}
AgentState ==
  [store : [Policy -> Int], jobs : [Policy -> Int],
   conf : [policy : AnyPolicy, ver : Int], password : AnyPolicy, unrestored : SUBSET Policy]
Push == [type : {"policy_push"}, id : PushId, policy : Policy, ver : Int]

Matches(a) == LoadFails(a) \/ \A p \in Policy \ a.unrestored : a.jobs[p] = a.store[p]

LEMMA CommitKeeps ==
  ASSUME NEW a \in AgentState, NEW m \in Push
  PROVE  /\ CommitConf(a, m) \in AgentState /\ Committed(a, m) \in AgentState
         /\ CommitConf(a, m).store = a.store /\ CommitConf(a, m).jobs = a.jobs
         /\ Committed(a, m).store = a.store /\ Committed(a, m).jobs = a.jobs
         /\ CommitConf(a, m).unrestored = a.unrestored /\ Committed(a, m).unrestored = a.unrestored
<1> DEFINE c == CommitConf(a, m)
<1>1. c \in AgentState /\ c.store = a.store /\ c.jobs = a.jobs /\ c.unrestored = a.unrestored
  BY DEF AgentState, Push, CommitConf, AnyPolicy
<1> HIDE DEF c
<1>2. /\ CommitPassword(c, m) \in AgentState
      /\ CommitPassword(c, m).store = c.store /\ CommitPassword(c, m).jobs = c.jobs
      /\ CommitPassword(c, m).unrestored = c.unrestored
  BY <1>1 DEF AgentState, Push, CommitPassword, AnyPolicy
<1> QED
  BY <1>1, <1>2 DEF Committed, c

\* A write touches the file of its own policy alone.
LEMMA WrittenKeeps ==
  ASSUME NEW a \in AgentState, NEW m \in Push, NEW b \in Written(a, m)
  PROVE  /\ b \in AgentState /\ b.jobs = a.jobs /\ b.unrestored = a.unrestored
         /\ b.store[m.policy] \in {a.store[m.policy], m.ver, Torn}
         /\ b.store = [a.store EXCEPT ![m.policy] = b.store[m.policy]]
<1> DEFINE c == Committed(a, m)
<1>1. c \in AgentState /\ c.store = a.store /\ c.jobs = a.jobs /\ c.unrestored = a.unrestored
  BY CommitKeeps
<1>2. b = c \/ b = [c EXCEPT !.store[m.policy] = m.ver] \/ b = [c EXCEPT !.store[m.policy] = Torn]
  BY DEF Written, SavePolicy
<1> HIDE DEF c
<1>3. m.policy \in Policy /\ m.ver \in Int /\ Torn \in Int
  BY DEF Push, Torn
<1> QED
  BY <1>1, <1>2, <1>3 DEF AgentState

\* The agent stops in a push: the file of its policy has the new version, is torn, or is
\* as it was, and no other file has changed.
LEMMA InterruptedKeeps ==
  ASSUME NEW a \in AgentState, NEW m \in Push, NEW b \in PushInterrupted(a, m)
  PROVE  /\ b \in AgentState
         /\ \A p \in Policy :
              b.store[p] \in {a.store[p], Torn} \/ (p = m.policy /\ b.store[p] = m.ver)
<1> DEFINE c == Committed(a, m)
<1>1. /\ CommitConf(a, m) \in AgentState /\ CommitConf(a, m).store = a.store
      /\ c \in AgentState /\ c.store = a.store
  BY CommitKeeps
<1>2. CASE b = a \/ b = CommitConf(a, m) \/ b = c
  BY <1>1, <1>2
<1> HIDE DEF c
<1>3. m.policy \in Policy /\ m.ver \in Int /\ Torn \in Int
  BY DEF Push, Torn
<1>4. CASE b = [c EXCEPT !.store[m.policy] = m.ver] \/ b = [c EXCEPT !.store[m.policy] = Torn]
  <2>1. b \in AgentState
    BY <1>1, <1>3, <1>4 DEF AgentState
  <2>2. b.store = [a.store EXCEPT ![m.policy] = m.ver] \/ b.store = [a.store EXCEPT ![m.policy] = Torn]
    BY <1>1, <1>4 DEF AgentState
  <2>3. a.store \in [Policy -> Int]
    BY DEF AgentState
  <2> QED
    BY <1>3, <2>1, <2>2, <2>3
<1> QED
  BY <1>2, <1>4 DEF PushInterrupted, Written, SavePolicy, c

\* A rollback brings back what it remembers; the cleanup that follows it may take
\* the password file.
LEMMA RollbackRestores ==
  ASSUME NEW a \in AgentState, NEW m \in Push, NEW b \in AgentState,
         b.jobs = a.jobs, b.unrestored = a.unrestored,
         b.store = [a.store EXCEPT ![m.policy] = b.store[m.policy]]
  PROVE  LET r == RestorePolicy(RestoreConfig(b, a), a, m)
         IN r \in AgentState /\ r.store = a.store /\ r.jobs = a.jobs /\ r.conf = a.conf /\ r.unrestored = a.unrestored
<1> DEFINE c == RestoreConfig(b, a)
<1>1. c \in AgentState /\ c.store = b.store /\ c.jobs = b.jobs /\ c.conf = a.conf /\ c.unrestored = a.unrestored
  BY DEF RestoreConfig, AgentState
<1> HIDE DEF c
<1>2. [b.store EXCEPT ![m.policy] = a.store[m.policy]] = a.store
  BY DEF AgentState, Push
<1> QED
  BY <1>1, <1>2 DEF RestorePolicy, AgentState, Push, c

LEMMA CleanupRestores ==
  ASSUME NEW a \in AgentState, NEW m \in Push, NEW b \in AgentState,
         b.jobs = a.jobs, b.store = a.store, b.unrestored = a.unrestored,
         NEW r \in StagedCleanup(RestoreConfig(b, a), m)
  PROVE  r \in AgentState /\ r.store = a.store /\ r.jobs = a.jobs /\ r.conf = a.conf /\ r.unrestored = a.unrestored
<1> DEFINE c == RestoreConfig(b, a)
<1>1. c \in AgentState /\ c.store = a.store /\ c.jobs = a.jobs /\ c.conf = a.conf /\ c.unrestored = a.unrestored
  BY DEF RestoreConfig, AgentState
<1>2. r = c \/ r = [c EXCEPT !.password = NoPolicy]
  BY DEF StagedCleanup
<1> HIDE DEF c
<1> QED
  BY <1>1, <1>2 DEF AgentState, AnyPolicy

LEMMA RefusedKeeps ==
  ASSUME NEW a \in AgentState, NEW m \in Push, NEW r \in PushRefused(a, m)
  PROVE  r \in AgentState /\ r.store = a.store /\ r.jobs = a.jobs /\ r.conf = a.conf /\ r.unrestored = a.unrestored
<1>1. CASE r = a
  BY <1>1
<1>2. CASE r \in StagedCleanup(RestoreConfig(a, a), m)
  BY <1>2, CleanupRestores
<1>3. CASE r \in StagedCleanup(RestoreConfig(CommitConf(a, m), a), m)
  <2>1. /\ CommitConf(a, m) \in AgentState /\ CommitConf(a, m).jobs = a.jobs
        /\ CommitConf(a, m).store = a.store /\ CommitConf(a, m).unrestored = a.unrestored
    BY CommitKeeps
  <2> QED
    BY <1>3, <2>1, CleanupRestores
<1>4. ASSUME NEW b \in Written(a, m), r = RestorePolicy(RestoreConfig(b, a), a, m)
      PROVE  r \in AgentState /\ r.store = a.store /\ r.jobs = a.jobs /\ r.conf = a.conf /\ r.unrestored = a.unrestored
  <2>1. /\ b \in AgentState /\ b.jobs = a.jobs /\ b.unrestored = a.unrestored
        /\ b.store = [a.store EXCEPT ![m.policy] = b.store[m.policy]]
    BY WrittenKeeps
  <2> QED
    BY <1>4, <2>1, RollbackRestores
<1> QED
  BY <1>1, <1>2, <1>3, <1>4 DEF PushRefused

LEMMA ConfigEndsKeep ==
  ASSUME NEW a \in AgentState, NEW b \in AgentState, NEW r \in RestoreConfigEnds(b, a)
  PROVE  r \in AgentState /\ r.store = b.store /\ r.jobs = b.jobs /\ r.unrestored = b.unrestored
<1>1. PICK c \in {a.conf, b.conf}, w \in {a.password, b.password} :
        r = [b EXCEPT !.conf = c, !.password = w]
  BY DEF RestoreConfigEnds
<1>2. c \in [policy : AnyPolicy, ver : Int] /\ w \in AnyPolicy
  BY DEF AgentState
<1> QED
  BY <1>1, <1>2 DEF AgentState

\* What a rollback that fails leaves: the jobs, and every file but that of the policy.
Unrestored(r, a, m) ==
  /\ r \in AgentState /\ r.jobs = a.jobs
  /\ \A p \in Policy \ {m.policy} : r.store[p] = a.store[p]
  /\ r.store[m.policy] \in {a.store[m.policy], m.ver, Torn}
  /\ r.unrestored = IF r.store[m.policy] = a.store[m.policy] THEN a.unrestored
                    ELSE a.unrestored \cup {m.policy}

LEMMA PolicyEndsKeep ==
  ASSUME NEW a \in AgentState, NEW m \in Push, NEW b \in AgentState,
         b.jobs = a.jobs, b.unrestored = a.unrestored,
         b.store = [a.store EXCEPT ![m.policy] = b.store[m.policy]],
         b.store[m.policy] \in {a.store[m.policy], m.ver, Torn},
         NEW r \in RestorePolicyEnds(b, a, m)
  PROVE  Unrestored(r, a, m)
<1>1. PICK v \in {a.store[m.policy], b.store[m.policy], Torn} :
        r = [b EXCEPT !.store[m.policy] = v,
                      !.unrestored = IF v = a.store[m.policy] THEN @ ELSE @ \cup {m.policy}]
  BY DEF RestorePolicyEnds, PolicyLeft
<1>2. m.policy \in Policy /\ m.ver \in Int /\ Torn \in Int
  BY DEF Push, Torn
<1>3. v \in Int /\ v \in {a.store[m.policy], m.ver, Torn}
  BY <1>1, <1>2 DEF AgentState
<1>4. /\ r \in AgentState /\ r.jobs = b.jobs
      /\ r.store = [b.store EXCEPT ![m.policy] = v]
      /\ r.unrestored = IF v = a.store[m.policy] THEN b.unrestored ELSE b.unrestored \cup {m.policy}
  BY <1>1, <1>2, <1>3 DEF AgentState
<1>5. r.store = [a.store EXCEPT ![m.policy] = v] /\ a.store \in [Policy -> Int]
  BY <1>4 DEF AgentState
<1> QED
  BY <1>2, <1>3, <1>4, <1>5 DEF Unrestored

LEMMA UnrestoredKeeps ==
  ASSUME NEW a \in AgentState, NEW m \in Push, NEW r \in PushUnrestored(a, m)
  PROVE  Unrestored(r, a, m)
<1>1. ASSUME NEW b \in RestoreConfigEnds(CommitConf(a, m), a), r \in StagedCleanup(b, m)
      PROVE  Unrestored(r, a, m)
  <2>1. /\ CommitConf(a, m) \in AgentState /\ CommitConf(a, m).jobs = a.jobs
        /\ CommitConf(a, m).store = a.store /\ CommitConf(a, m).unrestored = a.unrestored
    BY CommitKeeps
  <2>2. b \in AgentState /\ b.store = a.store /\ b.jobs = a.jobs /\ b.unrestored = a.unrestored
    BY <1>1, <2>1, ConfigEndsKeep
  <2>3. r = b \/ r = [b EXCEPT !.password = NoPolicy]
    BY <1>1 DEF StagedCleanup
  <2>4. r \in AgentState /\ r.store = a.store /\ r.jobs = a.jobs /\ r.unrestored = a.unrestored
    BY <2>2, <2>3 DEF AgentState, AnyPolicy
  <2> QED
    BY <2>4 DEF Unrestored
<1>2. ASSUME NEW w \in Written(a, m), NEW b \in RestoreConfigEnds(w, a), r \in RestorePolicyEnds(b, a, m)
      PROVE  Unrestored(r, a, m)
  <2>1. /\ w \in AgentState /\ w.jobs = a.jobs /\ w.unrestored = a.unrestored
        /\ w.store[m.policy] \in {a.store[m.policy], m.ver, Torn}
        /\ w.store = [a.store EXCEPT ![m.policy] = w.store[m.policy]]
    BY WrittenKeeps
  <2>2. b \in AgentState /\ b.store = w.store /\ b.jobs = w.jobs /\ b.unrestored = w.unrestored
    BY <1>2, <2>1, ConfigEndsKeep
  <2> QED
    BY <1>2, <2>1, <2>2, PolicyEndsKeep
<1> QED
  BY <1>1, <1>2, Zenon DEF PushUnrestored

\* What is left still matches, but for the file that was not brought back.
LEMMA UnrestoredMatches ==
  ASSUME NEW a \in AgentState, NEW m \in Push, ~SnapshotFails(a, m), Matches(a), NEW r, Unrestored(r, a, m)
  PROVE  Matches(r)
<1>1. CASE LoadFails(a)
  BY <1>1 DEF LoadFails, SnapshotFails, Matches, Unrestored
<1>2. CASE ~LoadFails(a)
  BY <1>2 DEF Matches, Unrestored
<1> QED
  BY <1>1, <1>2

\* An accepted push gives the file and the job of its policy one version.
LEMMA AcceptedMatches ==
  ASSUME NEW a \in AgentState, NEW m \in Push, ~SnapshotFails(a, m), Matches(a)
  PROVE  PushAccepted(a, m) \in AgentState /\ Matches(PushAccepted(a, m))
<1> DEFINE c == Committed(a, m)
           b == PushAccepted(a, m)
<1>1. c \in AgentState /\ c.store = a.store /\ c.jobs = a.jobs /\ c.unrestored = a.unrestored
  BY CommitKeeps
<1> HIDE DEF c
<1>2. /\ b \in AgentState
      /\ b.store = [a.store EXCEPT ![m.policy] = m.ver]
      /\ b.jobs = [a.jobs EXCEPT ![m.policy] = m.ver] /\ b.unrestored = a.unrestored \ {m.policy}
  BY <1>1 DEF PushAccepted, SavePolicy, UpdateSchedule, AgentState, Push, c
<1> HIDE DEF b
<1>3. m.policy \in Policy /\ a.store \in [Policy -> Int] /\ a.jobs \in [Policy -> Int]
  BY DEF Push, AgentState
<1>4. LoadFails(a) => LoadFails(b)
  BY <1>2, <1>3 DEF LoadFails, SnapshotFails
<1>5. ASSUME NEW p \in Policy \ b.unrestored, ~LoadFails(b) PROVE b.jobs[p] = b.store[p]
  <2>1. CASE p = m.policy
    BY <1>2, <1>3, <2>1
  <2>2. CASE p # m.policy
    <3>1. p \in Policy \ a.unrestored /\ ~LoadFails(a)
      BY <1>2, <1>4, <1>5, <2>2
    <3>2. b.jobs[p] = a.jobs[p] /\ b.store[p] = a.store[p]
      BY <1>2, <1>3, <2>2
    <3> QED
      BY <3>1, <3>2 DEF Matches
  <2> QED
    BY <2>1, <2>2
<1> QED
  BY <1>2, <1>5 DEF Matches, b

LEMMA ReconcileMatches ==
  ASSUME NEW a \in AgentState, NEW keep, Matches(a)
  PROVE  HandlePolicyReconcile(a, keep) \in AgentState /\ Matches(HandlePolicyReconcile(a, keep))
<1> DEFINE stale == {p \in Policy \ keep : a.store[p] # None}
           f == [p \in Policy |-> IF p \in stale THEN None ELSE a.store[p]]
           g == [p \in Policy |-> IF p \in stale THEN None ELSE a.jobs[p]]
           u == a.unrestored \ stale
           b == HandlePolicyReconcile(a, keep)
<1>1. CASE LoadFails(a)
  BY <1>1 DEF HandlePolicyReconcile
<1>2. CASE ~LoadFails(a)
  <2>1. f \in [Policy -> Int] /\ g \in [Policy -> Int] /\ u \in SUBSET Policy
    BY DEF AgentState, None
  <2>2. b = [a EXCEPT !.store = f, !.jobs = g, !.unrestored = u]
    BY <1>2 DEF HandlePolicyReconcile
  <2>3. \A p \in Policy \ u : g[p] = f[p]
    BY <1>2 DEF Matches
  <2> HIDE DEF f, g, u, b
  <2>4. b \in AgentState /\ b.store = f /\ b.jobs = g /\ b.unrestored = u
    BY <2>1, <2>2 DEF AgentState
  <2> QED
    BY <2>3, <2>4 DEF Matches, b
<1> QED
  BY <1>1, <1>2

\* A new process schedules what the files say.
LEMMA RestartMatches ==
  ASSUME NEW a \in AgentState
  PROVE  RestoreSavedPolicySchedule(a) \in AgentState /\ Matches(RestoreSavedPolicySchedule(a))
<1> DEFINE b == RestoreSavedPolicySchedule(a)
<1>1. NoVersion \in [Policy -> Int]
  BY DEF NoVersion, None
<1>2. /\ b \in AgentState /\ b.store = a.store /\ b.unrestored = {}
      /\ b.jobs = IF LoadFails(a) THEN NoVersion ELSE a.store
  BY <1>1 DEF RestoreSavedPolicySchedule, AgentState
<1>3. LoadFails(b) = LoadFails(a)
  BY <1>2 DEF LoadFails
<1> QED
  BY <1>2, <1>3 DEF Matches

-----------------------------------------------------------------------------
(* The state.                                                              *)

RowState == [ver : Int, synced : BOOLEAN]
CommandState == [policy : AnyPolicy, ver : Int, status : {"none", "pending", "dispatched", "ended"}]
Label == {"idle", "update", "pluck", "reconcile", "lookup", "ensure", "dispatch", "send", "synced"}
Cause == {"", "created", "updated", "deleted", "storage_updated", "agent_online", "ack"}
RunState ==
  [at : Label, action : Cause, policy : AnyPolicy, ver : Int,
   keep : SUBSET Policy, todo : SUBSET PushId]
Reconcile == [type : {"policy_reconcile"}, keep : SUBSET Policy]
Ack == [id : PushId, success : BOOLEAN]

MasterTypes ==
  /\ row \in [Policy -> RowState] /\ \A p \in Policy : row[p].ver \in 0..clock
  /\ command \in [PushId -> CommandState] /\ tracker \in SUBSET PushId
  /\ clock \in 1..MaxClock
RunTypes ==
  /\ run \in [Goroutine -> RunState] /\ loop \in Goroutine \cup {Nobody}
  /\ {pusherMu, dispatchMu} \subseteq Goroutine \cup {Nobody}
  /\ \A g \in Goroutine : (pusherMu = g) = At(g, "ensure") /\ (dispatchMu = g) = At(g, "send")
LinkTypes ==
  /\ online \in BOOLEAN /\ heartbeat \in BOOLEAN /\ down \in Seq(Push \cup Reconcile) /\ up \in Seq(Ack)
  /\ faults \in 0..MaxFaults /\ torn \in BOOLEAN

\* Two active commands are never of one policy.
Distinct(c) ==
  /\ \A i \in PushId : c[i].status \in {"pending", "dispatched"} => c[i].policy \in Policy
  /\ \A i, j \in PushId :
        /\ c[i].status \in {"pending", "dispatched"} /\ c[j].status \in {"pending", "dispatched"}
        /\ c[i].policy = c[j].policy
        => i = j

IInv ==
  /\ MasterTypes /\ RunTypes /\ LinkTypes /\ Distinct(command)
  /\ agent \in AgentState /\ Matches(agent)

LEMMA AtMostOne == ASSUME NEW S, NEW x, S \subseteq {x} PROVE Cardinality(S) <= 1
<1>1. S = {} \/ S = {x}
  OBVIOUS
<1>2. CASE S = {}
  BY <1>2, FS_EmptySet
<1>3. CASE S = {x}
  <2>1. Cardinality({x}) = 1
    BY FS_Singleton
  <2> QED
    BY <1>3, <2>1
<1> QED
  BY <1>1, <1>2, <1>3

LEMMA IdleState == Idle \in RunState /\ Idle.at = "idle"
<1>1. /\ Idle.at \in Label /\ Idle.action \in Cause /\ Idle.policy \in AnyPolicy /\ Idle.ver \in Int
      /\ Idle.keep \in SUBSET Policy /\ Idle.todo \in SUBSET PushId
  BY DEF Idle, Label, Cause, AnyPolicy, None
<1> QED
  BY <1>1 DEF Idle, RunState

LEMMA IInvImplies == ASSUME IInv PROVE PushInv
<1>1. TypeOK
  BY DEF IInv, TypeOK, MasterTypes, RunTypes, LinkTypes, AgentTypeOK, AgentState, AnyPolicy
<1>2. JobsMatchFiles
  BY DEF IInv, JobsMatchFiles, Matches
<1>3. ASSUME NEW p \in Policy
      PROVE  Cardinality({i \in PushId : Active(i) /\ command[i].policy = p}) <= 1
  <2> DEFINE S == {i \in PushId : Active(i) /\ command[i].policy = p}
  <2>1. \A i, j \in S : i = j
    BY DEF IInv, Distinct, Active
  <2>2. \E x : S \subseteq {x}
    BY <2>1
  <2> HIDE DEF S
  <2>3. Cardinality(S) <= 1
    BY <2>2, AtMostOne
  <2> QED
    BY <2>3 DEF S
<1> QED
  BY <1>1, <1>2, <1>3 DEF PushInv, OneActivePush

LEMMA InvHoldsFirst == Init => IInv
<1> SUFFICES ASSUME Init PROVE IInv
  OBVIOUS
<1> USE SyncAssumption DEF Init
<1>1. MasterTypes
  <2>1. row \in [Policy -> RowState] /\ \A p \in Policy : row[p].ver \in 0..clock
    BY DEF RowState, NoRow, None
  <2> QED
    BY <2>1 DEF MasterTypes, NoRow, NoCommand, None, RowState, CommandState, AnyPolicy
<1>2. RunTypes
  <2>1. /\ run = [g \in Goroutine |-> Idle] /\ loop = Nobody
        /\ pusherMu = Nobody /\ dispatchMu = Nobody /\ Nobody \notin Goroutine
    OBVIOUS
  <2> QED
    BY ONLY <2>1, IdleState DEF RunTypes, At
<1>3. LinkTypes
  <2>1. /\ online = FALSE /\ heartbeat = FALSE /\ down = <<>> /\ up = <<>> /\ torn = FALSE
        /\ faults = 0 /\ MaxFaults \in Nat
    OBVIOUS
  <2>2. online \in BOOLEAN /\ heartbeat \in BOOLEAN /\ torn \in BOOLEAN
    BY <2>1, Zenon
  <2>3. down \in Seq(Push \cup Reconcile) /\ up \in Seq(Ack) /\ faults \in 0..MaxFaults
    BY ONLY <2>1
  <2> QED
    BY <2>2, <2>3, Zenon DEF LinkTypes
<1>4. Distinct(command)
  BY DEF Distinct, NoCommand
<1>5. agent \in AgentState /\ Matches(agent)
  BY DEF AgentInit, AgentState, Matches, NoVersion, None, AnyPolicy
<1> QED
  BY <1>1, <1>2, <1>3, <1>4, <1>5 DEF IInv

\* A goroutine that holds no lock, before the step or after it, disturbs none.
LEMMA Moves ==
  ASSUME RunTypes, NEW g \in Goroutine, NEW r \in RunState, Goto(g, r),
         loop' \in Goroutine \cup {Nobody},
         r.at = "ensure" <=> pusherMu' = g, r.at = "send" <=> dispatchMu' = g,
         \/ pusherMu' = pusherMu
         \/ pusherMu \in {g, Nobody} /\ pusherMu' \in {g, Nobody},
         \/ dispatchMu' = dispatchMu
         \/ dispatchMu \in {g, Nobody} /\ dispatchMu' \in {g, Nobody}
  PROVE  RunTypes'
<1> USE SyncAssumption DEF RunTypes, Goto, At
<1>1. run' \in [Goroutine -> RunState] /\ {pusherMu', dispatchMu'} \subseteq Goroutine \cup {Nobody}
  OBVIOUS
<1>2. ASSUME NEW h \in Goroutine
      PROVE  (pusherMu' = h) = At(h, "ensure")' /\ (dispatchMu' = h) = At(h, "send")'
  <2>1. CASE h = g
    BY <2>1
  <2>2. CASE h # g
    BY <2>2
  <2> QED
    BY <2>1, <2>2
<1> QED
  BY <1>1, <1>2

\* The steps of a goroutine that leave both locks alone and hold neither.
LEMMA Wanders ==
  ASSUME RunTypes, NEW g \in Goroutine, ~At(g, "ensure"), ~At(g, "send"),
         UNCHANGED <<pusherMu, dispatchMu>>,
         \/ \E r \in RunState : Goto(g, r) /\ r.at \notin {"ensure", "send"} /\ loop' \in Goroutine \cup {Nobody}
         \/ Return(g)
         \/ \E action \in Cause : Handle(g, action)
  PROVE  RunTypes'
<1>1. Idle \in RunState /\ Idle.at = "idle"
  BY IdleState
<1>2. pusherMu # g /\ dispatchMu # g
  BY DEF RunTypes
<1>3. CASE \E r \in RunState : Goto(g, r) /\ r.at \notin {"ensure", "send"} /\ loop' \in Goroutine \cup {Nobody}
  BY <1>2, <1>3, Moves
<1>4. ASSUME Return(g) PROVE RunTypes'
  BY <1>1, <1>2, <1>4, Moves DEF Return, RunTypes
<1>5. ASSUME NEW action \in Cause, Handle(g, action) PROVE RunTypes'
  <2> DEFINE r == [Idle EXCEPT !.at = IF action \in {"deleted", "agent_online"} THEN "pluck" ELSE "lookup",
                               !.action = action]
  <2>1. CASE ~online
    BY <1>4, <1>5, <2>1 DEF Handle
  <2>2. CASE online
    <3>1. Goto(g, r) /\ loop' = loop
      BY <1>5, <2>2 DEF Handle
    <3>2. r \in RunState /\ r.at \in {"pluck", "lookup"}
      BY <1>1 DEF Idle, RunState, Label, Cause
    <3> QED
      BY <1>2, <3>1, <3>2, Moves DEF RunTypes
  <2> QED
    BY <2>1, <2>2
<1> QED
  BY <1>3, <1>4, <1>5

-----------------------------------------------------------------------------
(* The steps of an HTTP handler.                                           *)

LEMMA Edits ==
  ASSUME IInv, NEW g \in Goroutine, EditStep(g)
  PROVE  IInv'
<1> USE DEF IInv
<1>1. RunTypes /\ MasterTypes /\ clock \in Nat
  BY DEF MasterTypes
<1>2. ASSUME EditKeeps, MasterTypes', RunTypes' PROVE IInv'
  <2>1. UNCHANGED <<agent, torn, online, heartbeat, down, up, command, faults>>
    BY <1>2 DEF EditKeeps, linkVars
  <2> QED
    BY <1>2, <2>1 DEF LinkTypes, Distinct, Matches, LoadFails
<1>3. ASSUME NEW p \in Policy, CreatePolicy(g, p) PROVE IInv'
  <2>1. RunTypes'
    BY <1>3, <1>1, Wanders DEF CreatePolicy, EditKeeps, At, Cause
  <2>2. MasterTypes'
    BY <1>3, <1>1, SyncAssumption DEF CreatePolicy, EditKeeps, Edit, MasterTypes, RowState
  <2> QED
    BY <1>3, <2>1, <2>2, <1>2 DEF CreatePolicy
<1>4. ASSUME NEW p \in Policy, ReadPolicy(g, p) PROVE IInv'
  <2>1. RunTypes'
    <3> DEFINE r == [Idle EXCEPT !.at = "update", !.policy = p]
    <3>1. r \in RunState /\ r.at = "update"
      BY IdleState DEF RunState, Label, AnyPolicy
    <3>2. Goto(g, r) /\ loop' = loop
      BY <1>4 DEF ReadPolicy
    <3> HIDE DEF r
    <3> QED
      BY <1>4, <1>1, <3>1, <3>2, Wanders DEF ReadPolicy, EditKeeps, At, RunTypes
  <2>2. MasterTypes'
    BY <1>4, <1>1 DEF ReadPolicy, EditKeeps, MasterTypes
  <2> QED
    BY <1>4, <2>1, <2>2, <1>2 DEF ReadPolicy
<1>5. ASSUME NEW p \in Policy, DeletePolicy(g, p) PROVE IInv'
  <2>1. RunTypes'
    BY <1>5, <1>1, Wanders DEF DeletePolicy, EditKeeps, At, Cause
  <2>2. MasterTypes'
    <3>1. row' = [row EXCEPT ![p] = NoRow] /\ UNCHANGED <<command, tracker>>
      BY <1>5 DEF DeletePolicy, EditKeeps
    <3>2. clock' = clock + 1 /\ clock + 1 \in 1..MaxClock
      BY <1>5, <1>1, SyncAssumption DEF DeletePolicy, Edit, MasterTypes
    <3>3. NoRow \in RowState /\ NoRow.ver = 0
      BY DEF RowState, NoRow, None
    <3>4. row' \in [Policy -> RowState]
      BY ONLY <1>1, <3>1, <3>3 DEF MasterTypes
    <3>5. \A q \in Policy : row'[q].ver \in 0..clock'
      BY ONLY <1>1, <3>1, <3>2, <3>3 DEF MasterTypes
    <3> QED
      BY <1>1, <3>1, <3>2, <3>4, <3>5 DEF MasterTypes
  <2> QED
    BY <1>5, <2>1, <2>2, <1>2 DEF DeletePolicy
<1>6. ASSUME UpdatePolicy(g) PROVE IInv'
  <2>1. RunTypes'
    BY <1>6, <1>1, Wanders DEF UpdatePolicy, EditKeeps, At, Cause
  <2>2. MasterTypes'
    <3> DEFINE q == run[g].policy
    <3>1. row' = [row EXCEPT ![q] = [ver |-> clock + 1, synced |-> FALSE]]
      BY <1>6 DEF UpdatePolicy
    <3>2. clock' = clock + 1 /\ clock + 1 \in 1..MaxClock /\ UNCHANGED <<command, tracker>>
      BY <1>6, <1>1, SyncAssumption DEF UpdatePolicy, EditKeeps, Edit, MasterTypes
    <3> HIDE DEF q
    <3>3. [ver |-> clock + 1, synced |-> FALSE] \in RowState
      BY <1>1 DEF RowState
    <3>4. row' \in [Policy -> RowState]
      BY ONLY <1>1, <3>1, <3>3 DEF MasterTypes
    <3>5. \A p \in Policy : row'[p].ver \in 0..clock'
      BY ONLY <1>1, <3>1, <3>2 DEF MasterTypes
    <3> QED
      BY ONLY <1>1, <3>2, <3>4, <3>5 DEF MasterTypes
  <2> QED
    BY <1>6, <2>1, <2>2, <1>2 DEF UpdatePolicy
<1>7. ASSUME RejectUpdate(g) PROVE IInv'
  <2>1. RunTypes'
    BY <1>7, <1>1, Wanders DEF RejectUpdate, EditKeeps, At
  <2>2. MasterTypes'
    BY <1>7, <1>1 DEF RejectUpdate, EditKeeps, MasterTypes
  <2> QED
    BY <1>7, <2>1, <2>2, <1>2 DEF RejectUpdate
<1>8. ASSUME StorageUpdated(g) PROVE IInv'
  <2>1. RunTypes'
    BY <1>8, <1>1, Wanders DEF StorageUpdated, EditKeeps, At, Cause
  <2>2. MasterTypes'
    <3>1. \A p \in Policy : row'[p] \in RowState /\ row'[p].ver \in 0..clock'
      BY <1>8, <1>1 DEF StorageUpdated, Edit, MasterTypes, RowState, NoRow, None
    <3>2. row' = [p \in Policy |-> row'[p]]
      BY <1>8 DEF StorageUpdated
    <3>3. row' \in [Policy -> RowState]
      BY ONLY <3>1, <3>2
    <3>4. clock' \in 1..MaxClock /\ UNCHANGED <<command, tracker>>
      BY <1>8, <1>1, SyncAssumption DEF StorageUpdated, EditKeeps, Edit, MasterTypes
    <3> QED
      BY <1>1, <3>1, <3>3, <3>4 DEF MasterTypes
  <2> QED
    BY <1>8, <2>1, <2>2, <1>2 DEF StorageUpdated
<1> QED
  BY <1>3, <1>4, <1>5, <1>6, <1>7, <1>8 DEF EditStep

-----------------------------------------------------------------------------
(* The commands: what retires, dispatches or ends them.                    *)

Commands(c) == c \in [PushId -> CommandState] /\ Distinct(c)

LEMMA RetireKeeps ==
  ASSUME Commands(command), NEW p, NEW v
  PROVE  /\ Commands(Retire(p, v))
         /\ \A i \in PushId : Retire(p, v)[i].status \in {"pending", "dispatched"}
              => Retire(p, v)[i] = command[i] /\ Active(i) /\ ~Retired(command[i], p, v)
<1> DEFINE c == Retire(p, v)
<1>1. \A i \in PushId : c[i] = IF Active(i) /\ Retired(command[i], p, v)
                               THEN [command[i] EXCEPT !.status = "ended"] ELSE command[i]
  BY DEF Retire
<1>2. c = [i \in PushId |-> c[i]]
  BY DEF Retire
<1> HIDE DEF c
<1>3. \A i \in PushId : c[i] \in CommandState
  BY <1>1 DEF Commands, CommandState
<1>4. c \in [PushId -> CommandState]
  BY ONLY <1>2, <1>3
<1>5. \A i \in PushId : c[i].status \in {"pending", "dispatched"}
        => c[i] = command[i] /\ Active(i) /\ ~Retired(command[i], p, v)
  BY <1>1 DEF Commands, CommandState, Active
<1>6. Distinct(c)
  BY <1>5 DEF Commands, Distinct
<1> QED
  BY <1>4, <1>5, <1>6 DEF Commands, c

\* A push is created only when no other one of its policy is left active.
LEMMA CreateKeeps ==
  ASSUME Commands(command), NEW p \in Policy, NEW v \in Int, NEW f \in PushId, ~HasActive(p, v)
  PROVE  Commands([Retire(p, v) EXCEPT ![f] = [policy |-> p, ver |-> v, status |-> "pending"]])
<1> DEFINE c == Retire(p, v)
           new == [policy |-> p, ver |-> v, status |-> "pending"]
           d == [c EXCEPT ![f] = new]
<1>1. Commands(c)
  BY RetireKeeps
<1>2. \A i \in PushId : c[i].status \in {"pending", "dispatched"} => c[i].policy # p
  BY RetireKeeps DEF HasActive, Retired
<1> HIDE DEF c
<1>3. new \in CommandState /\ new.policy = p
  BY DEF CommandState, AnyPolicy
<1> HIDE DEF new
<1>4. d \in [PushId -> CommandState] /\ d[f] = new /\ \A i \in PushId : i # f => d[i] = c[i]
  BY <1>1, <1>3 DEF Commands
<1> HIDE DEF d
<1>5. Distinct(d)
  BY <1>1, <1>2, <1>3, <1>4 DEF Commands, Distinct
<1> QED
  BY <1>4, <1>5 DEF Commands, c, d, new

LEMMA StatusKeeps ==
  ASSUME Commands(command), NEW i \in PushId, NEW s \in {"pending", "dispatched", "ended"},
         Active(i) \/ s = "ended"
  PROVE  Commands([command EXCEPT ![i].status = s])
<1> DEFINE d == [command EXCEPT ![i].status = s]
<1>1. /\ d \in [PushId -> CommandState] /\ d[i].policy = command[i].policy /\ d[i].status = s
      /\ \A j \in PushId : j # i => d[j] = command[j]
  BY DEF Commands, CommandState
<1> HIDE DEF d
<1>2. Distinct(d)
  BY <1>1 DEF Commands, Distinct, Active
<1> QED
  BY <1>1, <1>2 DEF Commands, d

\* A command that is forgotten leaves the others.
LEMMA ForgetKeeps ==
  ASSUME Commands(command), NEW d, d = [i \in PushId |-> d[i]],
         \A i \in PushId : d[i] \in {command[i], NoCommand}
  PROVE  Commands(d)
<1>1. NoCommand \in CommandState /\ NoCommand.status = "none"
  BY DEF NoCommand, CommandState, AnyPolicy, None
<1>2. \A i \in PushId : d[i] \in CommandState
  BY <1>1 DEF Commands
<1>3. d \in [PushId -> CommandState]
  BY <1>2
<1>4. Distinct(d)
  BY <1>1 DEF Commands, Distinct
<1> QED
  BY <1>3, <1>4 DEF Commands

-----------------------------------------------------------------------------
(* The pusher.                                                             *)

AgentInv == agent \in AgentState /\ Matches(agent)

LEMMA PushFrame ==
  ASSUME IInv, PushKeeps, UNCHANGED <<faults, up, online, heartbeat>>,
         RunTypes', Commands(command)', (tracker \in SUBSET PushId)',
         down' \in Seq(Push \cup Reconcile)
  PROVE  IInv'
<1>1. UNCHANGED <<agent, torn, row, clock, faults, up, online, heartbeat>>
  BY DEF PushKeeps
<1>2. AgentInv /\ AgentInv'
  BY <1>1 DEF IInv, AgentInv, Matches, LoadFails
<1>3. MasterTypes'
  BY <1>1 DEF IInv, MasterTypes, Commands
<1>4. LinkTypes'
  BY <1>1 DEF IInv, LinkTypes
<1> QED
  BY <1>2, <1>3, <1>4 DEF IInv, AgentInv, Commands

LEMMA Pushes ==
  ASSUME IInv, NEW g \in Goroutine, PusherStep(g)
  PROVE  IInv'
<1>1. /\ RunTypes /\ Commands(command) /\ tracker \in SUBSET PushId
      /\ down \in Seq(Push \cup Reconcile) /\ run[g] \in RunState /\ online \in BOOLEAN
  BY DEF IInv, MasterTypes, RunTypes, LinkTypes, Commands
<1>2. CASE Pluck(g)
  <2> DEFINE r == [run[g] EXCEPT !.at = "reconcile", !.keep = Rows]
  <2>1. r \in RunState /\ r.at = "reconcile"
    BY <1>1 DEF RunState, Label, Rows
  <2>2. Goto(g, r) /\ loop' = loop
    BY <1>2 DEF Pluck
  <2> HIDE DEF r
  <2>3. RunTypes'
    BY <1>1, <1>2, <2>1, <2>2, Wanders DEF Pluck, At, RunTypes
  <2> QED
    BY <1>1, <1>2, <2>3, PushFrame DEF Pluck, linkVars, Commands, Distinct
<1>3. CASE SendPolicyReconcile(g)
  <2> DEFINE r == [run[g] EXCEPT !.at = "lookup", !.keep = {}]
             m == [type |-> "policy_reconcile", keep |-> run[g].keep]
  <2>1. r \in RunState /\ r.at = "lookup"
    BY <1>1 DEF RunState, Label
  <2>2. Goto(g, r) /\ loop' = loop
    BY <1>3 DEF SendPolicyReconcile
  <2> HIDE DEF r
  <2>3. RunTypes'
    BY <1>1, <1>3, <2>1, <2>2, Wanders DEF SendPolicyReconcile, At, RunTypes
  <2>4. m \in Reconcile
    BY <1>1 DEF RunState, Reconcile
  <2>5. down' = down \/ down' = Append(down, m)
    BY <1>3 DEF SendPolicyReconcile
  <2> HIDE DEF m
  <2>6. down' \in Seq(Push \cup Reconcile)
    BY <1>1, <2>4, <2>5
  <2> QED
    BY <1>1, <1>3, <2>3, <2>6, PushFrame DEF SendPolicyReconcile, Commands, Distinct
<1>4. CASE LookupCommand(g)
  <2>1. PICK r \in RunState : Goto(g, r) /\ r.at = "ensure"
    <3>1. CASE Goto(g, [run[g] EXCEPT !.at = "ensure", !.policy = NoPolicy])
      <4> DEFINE q == [run[g] EXCEPT !.at = "ensure", !.policy = NoPolicy]
      <4>1. q \in RunState /\ q.at = "ensure"
        BY <1>1 DEF RunState, Label, AnyPolicy
      <4> QED
        BY <3>1, <4>1
    <3>2. ASSUME NEW p \in Latest, Goto(g, [run[g] EXCEPT !.at = "ensure", !.policy = p, !.ver = row[p].ver])
          PROVE  \E r \in RunState : Goto(g, r) /\ r.at = "ensure"
      <4>1. p \in Policy /\ row[p].ver \in Int
        BY DEF Latest, Rows, IInv, MasterTypes, RowState
      <4> DEFINE q == [run[g] EXCEPT !.at = "ensure", !.policy = p, !.ver = row[p].ver]
      <4>2. q \in RunState /\ q.at = "ensure"
        BY <1>1, <4>1 DEF RunState, Label, AnyPolicy
      <4> QED
        BY <3>2, <4>2
    <3> QED
      BY <1>4, <3>1, <3>2 DEF LookupCommand
  <2>2. dispatchMu # g
    BY <1>1, <1>4 DEF LookupCommand, RunTypes, At
  <2>3. RunTypes'
    BY <1>1, <1>4, <2>1, <2>2, Moves DEF LookupCommand, RunTypes
  <2> QED
    BY <1>1, <1>4, <2>3, PushFrame DEF LookupCommand, linkVars, Commands, Distinct
<1>5. CASE EnsureDurableCommand(g)
  <2> DEFINE p == run[g].policy
             v == run[g].ver
             r == [run[g] EXCEPT !.at = "dispatch", !.policy = NoPolicy, !.ver = None]
  <2>1. r \in RunState /\ r.at = "dispatch" /\ p \in AnyPolicy /\ v \in Int
    <3>1. "dispatch" \in Label /\ NoPolicy \in AnyPolicy /\ None \in Int
      BY DEF Label, AnyPolicy, None
    <3> QED
      BY <1>1, <3>1 DEF RunState
  <2>2. \/ command' = Retire(p, v) /\ tracker' = tracker
        \/ /\ p # NoPolicy /\ ~HasActive(p, v) /\ \E i \in PushId : Unused(i)
           /\ command' = [Retire(p, v) EXCEPT ![FreeId] = [policy |-> p, ver |-> v, status |-> "pending"]]
           /\ tracker' = tracker \cup {FreeId}
    BY <1>5 DEF EnsureDurableCommand
  <2>3. (\E i \in PushId : Unused(i)) => FreeId \in PushId
    BY DEF FreeId
  <2>4. Commands(command)' /\ (tracker \in SUBSET PushId)'
    <3> HIDE DEF p, v
    <3>1. CASE command' = Retire(p, v) /\ tracker' = tracker
      BY <1>1, <3>1, RetireKeeps
    <3>2. CASE /\ p # NoPolicy /\ ~HasActive(p, v) /\ \E i \in PushId : Unused(i)
               /\ command' = [Retire(p, v) EXCEPT ![FreeId] = [policy |-> p, ver |-> v, status |-> "pending"]]
               /\ tracker' = tracker \cup {FreeId}
      <4>1. FreeId \in PushId /\ p \in Policy
        BY <2>1, <2>3, <3>2 DEF AnyPolicy
      <4>2. Commands([Retire(p, v) EXCEPT ![FreeId] = [policy |-> p, ver |-> v, status |-> "pending"]])
        BY <1>1, <2>1, <3>2, <4>1, CreateKeeps
      <4> QED
        BY <1>1, <3>2, <4>1, <4>2
    <3> QED
      BY <2>2, <3>1, <3>2
  <2>5. (Goto(g, r) /\ loop' = loop) \/ Return(g)
    BY <1>5 DEF EnsureDurableCommand
  <2>6. pusherMu = g /\ pusherMu' = Nobody /\ dispatchMu # g /\ dispatchMu' = dispatchMu
    BY <1>1, <1>5 DEF EnsureDurableCommand, RunTypes, At
  <2> HIDE DEF r
  <2>7. RunTypes'
    BY <1>1, <2>1, <2>5, <2>6, IdleState, SyncAssumption, Moves DEF Return, RunTypes
  <2> QED
    BY <1>1, <1>5, <2>4, <2>7, PushFrame DEF EnsureDurableCommand, linkVars
<1>6. CASE TakeDispatch(g)
  <2> DEFINE r == [run[g] EXCEPT !.at = "send", !.todo = Due(g)]
  <2>1. r \in RunState /\ r.at = "send"
    BY <1>1 DEF RunState, Label, Due
  <2>2. ~At(g, "ensure") /\ ~At(g, "send") /\ pusherMu # g /\ pusherMu' = pusherMu
    BY <1>1, <1>6 DEF TakeDispatch, RunTypes, At
  <2> HIDE DEF r
  <2>3. RunTypes'
    <3>1. CASE ~online
      <4>1. Return(g) /\ UNCHANGED <<pusherMu, dispatchMu>>
        BY <1>6, <3>1 DEF TakeDispatch
      <4> QED
        BY <1>1, <2>2, <4>1, Wanders
    <3>2. CASE online
      <4>1. dispatchMu = Nobody /\ dispatchMu' = g /\ Goto(g, r) /\ loop' = loop
        BY <1>6, <3>2 DEF TakeDispatch, r
      <4>2. loop \in Goroutine \cup {Nobody}
        BY <1>1 DEF RunTypes
      <4> QED
        BY <1>1, <2>1, <2>2, <4>1, <4>2, Moves
    <3> QED
      BY <3>1, <3>2
  <2> QED
    BY <1>1, <1>6, <2>3, PushFrame DEF TakeDispatch, linkVars, Commands, Distinct
<1>7. CASE SendPush(g)
  <2>1. PICK i \in run[g].todo :
          \/ /\ ~Active(i) /\ Goto(g, [run[g] EXCEPT !.todo = @ \ {i}])
             /\ UNCHANGED <<down, command>>
          \/ /\ Active(i) /\ online /\ Goto(g, [run[g] EXCEPT !.todo = @ \ {i}])
             /\ command' = [command EXCEPT ![i].status = "dispatched"]
             /\ down' = Append(down, [type |-> "policy_push", id |-> i, policy |-> command[i].policy, ver |-> command[i].ver])
          \/ /\ Active(i) /\ ~online /\ Goto(g, [run[g] EXCEPT !.todo = {}])
             /\ command' = [command EXCEPT ![i].status = "pending"] /\ UNCHANGED down
    BY <1>7 DEF SendPush
  <2>2. i \in PushId
    BY <1>1 DEF RunState
  <2>3. RunTypes'
    <3>1. PICK r \in RunState : Goto(g, r) /\ r.at = "send"
      <4> DEFINE q == [run[g] EXCEPT !.todo = @ \ {i}]
                 e == [run[g] EXCEPT !.todo = {}]
      <4>1. q \in RunState /\ q.at = "send" /\ e \in RunState /\ e.at = "send"
        BY <1>1, <1>7 DEF SendPush, At, RunState
      <4>2. Goto(g, q) \/ Goto(g, e)
        BY <2>1
      <4> HIDE DEF q, e
      <4> QED
        BY <4>1, <4>2
    <3>2. /\ dispatchMu = g /\ pusherMu # g /\ loop \in Goroutine \cup {Nobody}
          /\ UNCHANGED <<pusherMu, dispatchMu, loop>>
      BY <1>1, <1>7 DEF SendPush, RunTypes, At
    <3> QED
      BY <1>1, <3>1, <3>2, Moves
  <2>4. Commands(command)'
    <3>1. CASE UNCHANGED command
      BY <1>1, <3>1
    <3>2. CASE Active(i) /\ \E s \in {"pending", "dispatched"} : command' = [command EXCEPT ![i].status = s]
      BY <1>1, <2>2, <3>2, StatusKeeps
    <3> QED
      BY <2>1, <3>1, <3>2
  <2>5. down' \in Seq(Push \cup Reconcile)
    <3> DEFINE m == [type |-> "policy_push", id |-> i, policy |-> command[i].policy, ver |-> command[i].ver]
    <3>1. ASSUME Active(i) PROVE m \in Push
      <4>1. command[i].policy \in Policy /\ command[i].ver \in Int
        BY <1>1, <2>2, <3>1 DEF Commands, Distinct, CommandState, Active
      <4> QED
        BY <2>2, <4>1 DEF Push
    <3>2. down' = down \/ (Active(i) /\ down' = Append(down, m))
      BY <2>1
    <3> HIDE DEF m
    <3> QED
      BY <1>1, <3>1, <3>2
  <2> QED
    BY <1>1, <1>7, <2>3, <2>4, <2>5, PushFrame DEF SendPush
<1>8. CASE EndDispatch(g)
  <2>1. dispatchMu = g /\ dispatchMu' = Nobody /\ pusherMu # g /\ pusherMu' = pusherMu /\ Return(g)
    BY <1>1, <1>8 DEF EndDispatch, RunTypes, At
  <2>2. RunTypes'
    BY <1>1, <2>1, IdleState, SyncAssumption, Moves DEF Return, RunTypes
  <2> QED
    BY <1>1, <1>8, <2>2, PushFrame DEF EndDispatch, linkVars, Commands, Distinct
<1> QED
  BY <1>2, <1>3, <1>4, <1>5, <1>6, <1>7, <1>8 DEF PusherStep

-----------------------------------------------------------------------------
(* The read loop and the connection.                                       *)

LEMMA AckKeeps ==
  ASSUME IInv, NEW g \in Goroutine, PolicyAck(g)
  PROVE  IInv'
<1> DEFINE ack == Head(up)
           r == IF KnownPush(ack.id) /\ ack.success
                THEN [Idle EXCEPT !.at = "synced", !.policy = command[ack.id].policy,
                                  !.ver = command[ack.id].ver]
                ELSE [Idle EXCEPT !.at = "synced"]
<1>1. /\ RunTypes /\ Commands(command) /\ tracker \in SUBSET PushId /\ up \in Seq(Ack)
  BY DEF IInv, MasterTypes, LinkTypes, Commands
<1>2. ack \in Ack /\ ack.id \in PushId /\ up' \in Seq(Ack)
  <2>1. up # <<>> /\ up' = Tail(up)
    BY DEF PolicyAck
  <2>2. ack \in Ack /\ up' \in Seq(Ack)
    BY <1>1, <2>1
  <2> QED
    BY <2>2 DEF Ack
<1>3. r \in RunState /\ r.at = "synced"
  <2>1. command[ack.id].policy \in AnyPolicy /\ command[ack.id].ver \in Int /\ "synced" \in Label
    BY <1>1, <1>2 DEF Commands, CommandState, Label
  <2> HIDE DEF ack
  <2>2. CASE KnownPush(ack.id) /\ ack.success
    BY <2>1, <2>2, IdleState DEF RunState
  <2>3. CASE ~(KnownPush(ack.id) /\ ack.success)
    BY <2>1, <2>3, IdleState DEF RunState
  <2> QED
    BY <2>2, <2>3
<1>4. /\ Goto(g, r) /\ loop' = g /\ At(g, "idle")
      /\ command' = [command EXCEPT ![ack.id] = NoCommand] /\ tracker' = tracker \ {ack.id}
      /\ UNCHANGED <<agent, torn, online, heartbeat, down, row, clock, pusherMu, dispatchMu, faults>>
  BY DEF PolicyAck
<1> HIDE DEF ack, r
<1>5. RunTypes'
  BY <1>1, <1>3, <1>4, Wanders DEF At
<1>6. Commands(command)'
  <2>1. /\ command' = [i \in PushId |-> command'[i]]
        /\ \A i \in PushId : command'[i] \in {command[i], NoCommand}
    BY <1>1, <1>2, <1>4 DEF Commands
  <2> QED
    BY ONLY <1>1, <2>1, ForgetKeeps
<1>7. MasterTypes'
  BY <1>1, <1>4, <1>6 DEF IInv, MasterTypes, Commands
<1>8. LinkTypes' /\ AgentInv'
  BY <1>2, <1>4 DEF IInv, LinkTypes, AgentInv, Matches, LoadFails
<1> QED
  BY <1>5, <1>6, <1>7, <1>8 DEF IInv, AgentInv, Commands

LEMMA SyncedKeeps ==
  ASSUME IInv, NEW g \in Goroutine, MarkSynced(g)
  PROVE  IInv'
<1>1. /\ Handle(g, "ack") /\ At(g, "synced")
      /\ UNCHANGED <<agent, torn, online, heartbeat, down, up, command, tracker, clock, pusherMu, dispatchMu, faults>>
  BY DEF MarkSynced, PublishAck, linkVars
<1>2. RunTypes'
  BY <1>1, Wanders DEF IInv, At, Cause
<1>3. MasterTypes'
  <2>1. row' = row \/ row' = [row EXCEPT ![run[g].policy].synced = TRUE]
    BY DEF MarkSynced
  <2>2. row' \in [Policy -> RowState] /\ \A p \in Policy : row'[p].ver = row[p].ver
    <3> DEFINE q == run[g].policy
    <3>1. row \in [Policy -> RowState] /\ (row' = row \/ row' = [row EXCEPT ![q].synced = TRUE])
      BY <2>1 DEF IInv, MasterTypes
    <3>2. \A r \in RowState : [r EXCEPT !.synced = TRUE] \in RowState /\ [r EXCEPT !.synced = TRUE].ver = r.ver
      BY ONLY TRUE DEF RowState
    <3> HIDE DEF q
    <3>3. DOMAIN row' = Policy /\ row' = [p \in Policy |-> row'[p]]
      BY ONLY <3>1
    <3>4. \A p \in Policy : row'[p] = row[p] \/ row'[p] = [row[p] EXCEPT !.synced = TRUE]
      BY ONLY <3>1
    <3>5. \A p \in Policy : row'[p] \in RowState /\ row'[p].ver = row[p].ver
      BY ONLY <3>1, <3>2, <3>4, ZenonT(30)
    <3> QED
      BY ONLY <3>3, <3>5
  <2> QED
    BY <1>1, <2>2 DEF IInv, MasterTypes
<1>4. LinkTypes' /\ AgentInv' /\ Distinct(command)'
  BY <1>1 DEF IInv, LinkTypes, AgentInv, Matches, LoadFails, Distinct
<1> QED
  BY <1>2, <1>3, <1>4 DEF IInv, AgentInv

LEMMA ConnectKeeps ==
  ASSUME IInv, NEW g \in Goroutine, Connect(g)
  PROVE  IInv'
<1> DEFINE r == [Idle EXCEPT !.at = "pluck", !.action = "agent_online"]
<1>1. r \in RunState /\ r.at = "pluck"
  BY IdleState DEF RunState, Label, Cause
<1>2. /\ Goto(g, r) /\ At(g, "idle") /\ online' = TRUE /\ heartbeat' = FALSE /\ down' = <<>> /\ up' = <<>> /\ loop' = g
      /\ row' = [p \in Policy |-> [row[p] EXCEPT !.synced = FALSE]]
      /\ UNCHANGED <<agent, torn, command, tracker, clock, pusherMu, dispatchMu, faults>>
  BY DEF Connect
<1> HIDE DEF r
<1>3. RunTypes'
  BY <1>1, <1>2, Wanders DEF IInv, At
<1>4. MasterTypes'
  <2>1. \A p \in Policy : row'[p] \in RowState /\ row'[p].ver = row[p].ver
    BY <1>2 DEF IInv, MasterTypes, RowState
  <2>2. row' \in [Policy -> RowState]
    BY ONLY <1>2, <2>1
  <2> QED
    BY <1>2, <2>1, <2>2 DEF IInv, MasterTypes
<1>5. LinkTypes'
  <2>1. online' \in BOOLEAN /\ heartbeat' \in BOOLEAN
    BY <1>2, Zenon
  <2>2. down' \in Seq(Push \cup Reconcile) /\ up' \in Seq(Ack)
    BY ONLY <1>2
  <2>3. faults' \in 0..MaxFaults /\ torn' \in BOOLEAN
    BY <1>2 DEF IInv, LinkTypes
  <2> QED
    BY <2>1, <2>2, <2>3, Zenon DEF LinkTypes
<1>6. AgentInv' /\ Distinct(command)'
  BY <1>2 DEF IInv, AgentInv, Matches, LoadFails, Distinct
<1> QED
  BY <1>3, <1>4, <1>5, <1>6 DEF IInv, AgentInv

LEMMA HeartbeatKeeps ==
  ASSUME IInv, NEW g \in Goroutine, Heartbeat(g)
  PROVE  IInv'
<1> DEFINE r == [Idle EXCEPT !.at = "lookup", !.action = "agent_online"]
<1>1. r \in RunState /\ r.at = "lookup"
  BY IdleState DEF RunState, Label, Cause
<1>2. /\ Goto(g, r) /\ At(g, "idle") /\ heartbeat' = TRUE /\ loop' = g
      /\ UNCHANGED <<agent, torn, online, down, up, row, command, tracker, clock, pusherMu, dispatchMu, faults>>
  BY DEF Heartbeat
<1> HIDE DEF r
<1>3. RunTypes'
  BY <1>1, <1>2, Wanders DEF IInv, At
<1>4. LinkTypes'
  <2>1. heartbeat' \in BOOLEAN
    BY <1>2, Zenon
  <2> QED
    BY <1>2, <2>1 DEF IInv, LinkTypes
<1>5. MasterTypes' /\ AgentInv' /\ Distinct(command)'
  BY <1>2 DEF IInv, MasterTypes, AgentInv, Matches, LoadFails, Distinct
<1> QED
  BY <1>3, <1>4, <1>5 DEF IInv, AgentInv

-----------------------------------------------------------------------------
(* Faults and the agent.                                                   *)

LEMMA ExpireKeeps ==
  ASSUME IInv, NEW i \in PushId, ExpirePush(i)
  PROVE  IInv'
<1>1. /\ command' = [command EXCEPT ![i].status = "ended"] /\ faults' \in 0..MaxFaults
      /\ UNCHANGED <<agent, torn, online, heartbeat, down, up, row, tracker, clock, run, pusherMu, dispatchMu, loop>>
  BY SyncAssumption DEF ExpirePush, linkVars, IInv, LinkTypes
<1>2. Commands(command)'
  BY <1>1, StatusKeeps DEF IInv, MasterTypes, Commands
<1> QED
  BY <1>1, <1>2
  DEF IInv, MasterTypes, RunTypes, LinkTypes, At, Matches, LoadFails, Commands

\* The connection is gone, and perhaps the process behind it.
LEMMA Cut ==
  ASSUME IInv, faults < MaxFaults, faults' = faults + 1,
         online' = FALSE, heartbeat' = FALSE, down' = <<>>, up' = <<>>, torn' \in BOOLEAN,
         RunTypes', Commands(command)', AgentInv',
         UNCHANGED <<row, clock>>, tracker' \subseteq tracker
  PROVE  IInv'
<1>1. faults' \in 0..MaxFaults
  BY SyncAssumption DEF IInv, LinkTypes
<1>2. LinkTypes'
  <2>1. online' \in BOOLEAN /\ heartbeat' \in BOOLEAN
    BY Zenon
  <2>2. down' \in Seq(Push \cup Reconcile) /\ up' \in Seq(Ack)
    OBVIOUS
  <2> QED
    BY <1>1, <2>1, <2>2, Zenon DEF LinkTypes
<1>3. MasterTypes'
  BY DEF IInv, MasterTypes, Commands
<1> QED
  BY <1>2, <1>3 DEF IInv, Commands, AgentInv

LEMMA DisconnectKeeps == ASSUME IInv, Disconnect PROVE IInv'
<1>1. /\ faults < MaxFaults /\ faults' = faults + 1 /\ online' = FALSE /\ heartbeat' = FALSE /\ down' = <<>> /\ up' = <<>>
      /\ loop' = Nobody /\ UNCHANGED <<agent, torn, row, command, tracker, clock, run, pusherMu, dispatchMu>>
  BY DEF Disconnect
<1>2. RunTypes' /\ Commands(command)' /\ AgentInv' /\ torn' \in BOOLEAN
  BY <1>1 DEF IInv, MasterTypes, LinkTypes, RunTypes, At, Commands, Distinct, AgentInv, Matches, LoadFails
<1> QED
  BY <1>1, <1>2, Cut

LEMMA MasterRestartKeeps == ASSUME IInv, MasterRestart PROVE IInv'
<1>1. /\ faults < MaxFaults /\ faults' = faults + 1 /\ online' = FALSE /\ heartbeat' = FALSE /\ down' = <<>> /\ up' = <<>>
      /\ tracker' = {} /\ run' = [g \in Goroutine |-> Idle]
      /\ pusherMu' = Nobody /\ dispatchMu' = Nobody /\ loop' = Nobody
      /\ command' = [i \in PushId |-> IF Active(i) THEN command[i] ELSE NoCommand]
      /\ UNCHANGED <<agent, torn, row, clock>>
  BY DEF MasterRestart
<1>2. RunTypes'
  BY <1>1, IdleState, SyncAssumption DEF RunTypes, At
<1>3. Commands(command)'
  <2>1. /\ command' = [i \in PushId |-> command'[i]]
        /\ \A i \in PushId : command'[i] \in {command[i], NoCommand}
    BY <1>1
  <2> QED
    BY <2>1, ForgetKeeps DEF IInv, MasterTypes, Commands
<1>4. AgentInv' /\ torn' \in BOOLEAN
  BY <1>1 DEF IInv, LinkTypes, AgentInv, Matches, LoadFails
<1> QED
  BY <1>1, <1>2, <1>3, <1>4, Cut

LEMMA AgentRestartKeeps ==
  ASSUME IInv, NEW disk \in AgentState, AgentRestarts(disk)
  PROVE  IInv'
<1>1. /\ faults < MaxFaults /\ faults' = faults + 1 /\ online' = FALSE /\ heartbeat' = FALSE /\ down' = <<>> /\ up' = <<>>
      /\ loop' = Nobody /\ UNCHANGED <<row, command, tracker, clock, run, pusherMu, dispatchMu>>
      /\ agent' = RestoreSavedPolicySchedule(disk) /\ torn' = (torn \/ LoadFails(disk))
  BY DEF AgentRestarts
<1>2. RunTypes' /\ Commands(command)'
  BY <1>1 DEF IInv, MasterTypes, RunTypes, At, Commands, Distinct
<1>3. AgentInv'
  BY <1>1, RestartMatches DEF AgentInv
<1>4. torn' \in BOOLEAN
  BY <1>1 DEF LoadFails
<1> QED
  BY <1>1, <1>2, <1>3, <1>4, Cut

\* The message an agent handles is one that was sent.
LEMMA Received ==
  ASSUME IInv, Message("policy_push") \/ Message("policy_reconcile"), down' = Tail(down)
  PROVE  /\ down' \in Seq(Push \cup Reconcile)
         /\ Message("policy_push") => Head(down) \in Push
<1>1. down # <<>> /\ down \in Seq(Push \cup Reconcile)
  BY DEF IInv, LinkTypes, Message
<1>2. Head(down) \in Push \cup Reconcile /\ down' \in Seq(Push \cup Reconcile)
  BY <1>1
<1> QED
  BY <1>2 DEF Message, Reconcile

LEMMA Answers ==
  ASSUME IInv, AcceptPush \/ RefusePush \/ ReceiveReconcile
  PROVE  IInv'
<1>1. ASSUME NEW m \in Push, NEW b, up' = Append(up, [id |-> m.id, success |-> b]), b \in BOOLEAN
      PROVE  up' \in Seq(Ack)
  <2>1. [id |-> m.id, success |-> b] \in Ack /\ up \in Seq(Ack)
    BY <1>1 DEF Push, Ack, IInv, LinkTypes
  <2> QED
    BY <1>1, <2>1
<1>2. ASSUME AgentInv', down' \in Seq(Push \cup Reconcile), up' \in Seq(Ack), faults' \in 0..MaxFaults,
             UNCHANGED <<row, command, tracker, clock, run, pusherMu, dispatchMu, loop, online, heartbeat, torn>>
      PROVE  IInv'
  BY <1>2 DEF IInv, MasterTypes, RunTypes, LinkTypes, At, Distinct, AgentInv
<1>3. agent \in AgentState /\ Matches(agent) /\ faults \in 0..MaxFaults /\ up \in Seq(Ack)
  BY DEF IInv, LinkTypes
<1>4. CASE AcceptPush
  <2> DEFINE m == Head(down)
  <2>1. /\ Message("policy_push") /\ ~SnapshotFails(agent, m) /\ agent' = PushAccepted(agent, m)
        /\ down' = Tail(down) /\ up' = Append(up, [id |-> m.id, success |-> TRUE])
        /\ UNCHANGED <<row, command, tracker, clock, run, pusherMu, dispatchMu, loop, online, heartbeat, faults, torn>>
    BY <1>4 DEF AcceptPush, Answer
  <2>2. m \in Push /\ down' \in Seq(Push \cup Reconcile)
    BY <2>1, Received
  <2> HIDE DEF m
  <2>3. AgentInv'
    BY <1>3, <2>1, <2>2, AcceptedMatches DEF AgentInv
  <2> QED
    BY <1>1, <1>2, <1>3, <2>1, <2>2, <2>3
<1>5. CASE RefusePush
  <2> DEFINE m == Head(down)
  <2>1. /\ Message("policy_push") /\ down' = Tail(down) /\ up' = Append(up, [id |-> m.id, success |-> FALSE])
        /\ UNCHANGED <<row, command, tracker, clock, run, pusherMu, dispatchMu, loop, online, heartbeat, torn>>
        /\ IF SnapshotFails(agent, m) THEN UNCHANGED <<agent, torn, faults>>
           ELSE faults < MaxFaults /\ faults' = faults + 1 /\ agent' \in PushRefused(agent, m)
    BY <1>5 DEF RefusePush, Answer, masterVars
  <2>2. m \in Push /\ down' \in Seq(Push \cup Reconcile)
    BY <2>1, Received
  <2> HIDE DEF m
  <2>3. faults' \in 0..MaxFaults
    BY <1>3, <2>1, SyncAssumption
  <2>4. AgentInv'
    <3>1. CASE UNCHANGED agent
      BY <1>3, <3>1 DEF AgentInv, Matches, LoadFails
    <3>2. CASE agent' \in PushRefused(agent, m)
      <4>1. /\ agent' \in AgentState /\ agent'.store = agent.store /\ agent'.jobs = agent.jobs
            /\ agent'.unrestored = agent.unrestored
        BY <1>3, <2>2, <3>2, RefusedKeeps
      <4> QED
        BY <1>3, <4>1 DEF AgentInv, Matches, LoadFails
    <3> QED
      BY <2>1, <3>1, <3>2
  <2> QED
    BY <1>1, <1>2, <2>1, <2>2, <2>3, <2>4
<1>6. CASE ReceiveReconcile
  <2>1. /\ Message("policy_reconcile") /\ agent' = HandlePolicyReconcile(agent, Head(down).keep)
        /\ down' = Tail(down)
        /\ UNCHANGED <<row, command, tracker, clock, run, pusherMu, dispatchMu, loop, online, heartbeat, up, faults, torn>>
    BY <1>6 DEF ReceiveReconcile, masterVars
  <2>2. AgentInv'
    BY <1>3, <2>1, ReconcileMatches DEF AgentInv
  <2> QED
    BY <1>2, <1>3, <2>1, <2>2, Received
<1> QED
  BY <1>4, <1>5, <1>6

\* A refusal with a rollback that fails.
LEMMA RollbackKeeps ==
  ASSUME IInv, RollbackFails
  PROVE  /\ IInv' /\ Head(down) \in Push
         /\ Unrestored(agent', agent, Head(down))
<1> DEFINE m == Head(down)
<1>1. /\ Message("policy_push") /\ ~SnapshotFails(agent, m)
      /\ faults < MaxFaults /\ faults' = faults + 1
      /\ agent' \in PushUnrestored(agent, m) /\ torn' = (torn \/ LoadFails(agent'))
      /\ down' = Tail(down) /\ up' = Append(up, [id |-> m.id, success |-> FALSE])
      /\ UNCHANGED <<row, command, tracker, clock, run, pusherMu, dispatchMu, loop, online, heartbeat>>
  BY DEF RollbackFails, Answer, masterVars
<1>2. m \in Push /\ down' \in Seq(Push \cup Reconcile)
  BY <1>1, Received
<1> HIDE DEF m
<1>3. agent \in AgentState /\ Matches(agent) /\ faults \in 0..MaxFaults /\ up \in Seq(Ack)
  BY DEF IInv, LinkTypes
<1>4. Unrestored(agent', agent, m)
  BY <1>1, <1>2, <1>3, UnrestoredKeeps
<1>5. AgentInv'
  BY <1>1, <1>2, <1>3, <1>4, UnrestoredMatches DEF AgentInv, Unrestored
<1>6. faults' \in 0..MaxFaults
  BY <1>1, <1>3, SyncAssumption
<1>7. up' \in Seq(Ack)
  <2>1. [id |-> m.id, success |-> FALSE] \in Ack
    BY <1>2 DEF Push, Ack
  <2> QED
    BY <1>1, <1>3, <2>1
<1>8. torn' \in BOOLEAN
  BY <1>1 DEF LoadFails
<1>9. IInv'
  BY <1>1, <1>2, <1>5, <1>6, <1>7, <1>8
  DEF IInv, MasterTypes, RunTypes, LinkTypes, At, Distinct, AgentInv
<1> QED
  BY <1>2, <1>4, <1>9 DEF m

LEMMA Faults == ASSUME IInv, Fault PROVE IInv'
<1>1. CASE AgentRestart
  BY <1>1, AgentRestartKeeps DEF AgentRestart, IInv
<1>2. CASE InterruptPush
  <2>1. Head(down) \in Push
    <3>1. Message("policy_push") /\ down \in Seq(Push \cup Reconcile) /\ down # <<>>
      BY <1>2 DEF InterruptPush, Message, IInv, LinkTypes
    <3>2. Head(down) \in Push \cup Reconcile
      BY <3>1
    <3> QED
      BY <3>1, <3>2 DEF Message, Reconcile
  <2> QED
    BY <1>2, <2>1, InterruptedKeeps, AgentRestartKeeps DEF InterruptPush, IInv
<1> QED
  BY <1>1, <1>2, ExpireKeeps, DisconnectKeeps, MasterRestartKeeps, RollbackKeeps DEF Fault

-----------------------------------------------------------------------------
(* The theorems.                                                           *)

LEMMA InvHolds == Spec => []IInv
<1>1. ASSUME IInv, [Next]_vars PROVE IInv'
  <2>1. CASE UNCHANGED vars
    <3>1. UNCHANGED <<agent, torn, row, command, tracker, clock, run, pusherMu, dispatchMu, loop,
                      online, heartbeat, down, up, faults>>
      BY <2>1 DEF vars, masterVars, linkVars
    <3> QED
      BY <1>1, <3>1 DEF IInv, MasterTypes, RunTypes, LinkTypes, At, Distinct, Matches, LoadFails
  <2>2. ASSUME NEW g \in Reader, AckStep(g) \/ Connect(g) \/ Heartbeat(g) PROVE IInv'
    BY <1>1, <2>2, AckKeeps, SyncedKeeps, ConnectKeeps, HeartbeatKeeps DEF AckStep, Goroutine
  <2>3. ASSUME NEW g \in Request, EditStep(g) PROVE IInv'
    BY <1>1, <2>3, Edits DEF Goroutine
  <2>4. CASE AgentStep
    BY <1>1, <2>4, Answers DEF AgentStep
  <2> QED
    BY <1>1, <2>1, <2>2, <2>3, <2>4, Pushes, Faults DEF Next
<1> QED
  BY <1>1, InvHoldsFirst, PTL DEF Spec

\* Edits, answers, new connections, restarts and refused pushes, in any order, leave the
\* agent's jobs equal to its policy files and one active push of a policy at most
\* (handler.go, handlePolicyPush; service.go, EnsureDurableCommand).
THEOREM PushesCorrect == Spec => []PushInv
<1>1. IInv => PushInv
  BY IInvImplies
<1> QED
  BY <1>1, InvHolds, PTL

\* A refused push leaves policy files, jobs and rclone.conf as they were when its rollback
\* succeeds, and the jobs and the files of the other policies whatever part of it fails
\* (handler.go, policyRollbackState).
THEOREM RefusalsCorrect == Spec => RefusedPushRestores
<1> DEFINE Restores == /\ agent'.store = agent.store /\ agent'.jobs = agent.jobs
                       /\ agent'.conf = agent.conf
           Others == /\ agent'.jobs = agent.jobs
                     /\ \A p \in Policy \ {Head(down).policy} : agent'.store[p] = agent.store[p]
<1>1. ASSUME IInv, RefusePush PROVE Restores
  <2>1. Message("policy_push") /\ down' = Tail(down)
    BY <1>1 DEF RefusePush
  <2>2. Head(down) \in Push
    BY <1>1, <2>1, Received
  <2> QED
    BY <1>1, <2>2, RefusedKeeps DEF RefusePush, IInv
<1>2. ASSUME IInv, RollbackFails PROVE Others
  BY <1>2, RollbackKeeps DEF Unrestored
<1>3. IInv /\ [Next]_vars
      => [(RefusePush => Restores) /\ (RollbackFails => Others)]_vars
  BY <1>1, <1>2
<1> QED
  BY <1>3, InvHolds, PTL DEF Spec, RefusedPushRestores

-----------------------------------------------------------------------------
(* Versions: each stage of a push has one that is no older than what the   *)
(* stages behind it have, and no newer than the row.                       *)

Carries(n, p) == down[n].type = "policy_push" /\ down[n].policy = p
Pending(i, p) == Active(i) /\ command[i].policy = p
Ensuring(g, p) == At(g, "ensure") /\ run[g].policy = p

\* x is at least what the agent has of p; what is on the connection; what is anywhere.
Held(p, x) == accepted[p] <= x /\ agent.store[p] <= x
Sent(p, x) == Held(p, x) /\ \A n \in DOMAIN down : Carries(n, p) => down[n].ver <= x
AtMost(p, x) ==
  /\ Sent(p, x)
  /\ \A i \in PushId : Pending(i, p) => command[i].ver <= x
  /\ \A g \in Goroutine : Ensuring(g, p) => run[g].ver <= x

Bounded ==
  \A p \in Policy : AtMost(p, clock) /\ (row[p] # NoRow => AtMost(p, row[p].ver))
Ordered ==
  \A p \in Policy :
    /\ \A n \in DOMAIN down : Carries(n, p) =>
         /\ Held(p, down[n].ver)
         /\ \A m \in DOMAIN down : n < m /\ Carries(m, p) => down[n].ver <= down[m].ver
    /\ \A i \in PushId : Pending(i, p) => Sent(p, command[i].ver)
    /\ \A g \in Goroutine : Ensuring(g, p) =>
         /\ Sent(p, run[g].ver)
         /\ \A i \in PushId : Pending(i, p) => command[i].ver <= run[g].ver

\* What an id is remembered for is what was sent under it, and once a good answer is on
\* its way or being handled, what the agent has accepted.
SameId(i, m) == command[i].policy = m.policy /\ command[i].ver = m.ver
Confirmed(c) == \A p \in Policy : c.policy = p => c.ver <= accepted[p]
Remembered ==
  /\ \A n \in DOMAIN down :
        down[n].type = "policy_push" /\ KnownPush(down[n].id) => SameId(down[n].id, down[n])
  /\ \A n \in DOMAIN up : up[n].success /\ KnownPush(up[n].id) => Confirmed(command[up[n].id])
  /\ \A g \in Goroutine : At(g, "synced") => Confirmed(run[g])

VInv ==
  /\ accepted \in [Policy -> Nat]
  /\ Bounded /\ Ordered /\ Remembered /\ SyncedIsAccepted

\* What the steps change that create, send and accept no push.
StoreShrinks == \A p \in Policy : agent'.store[p] \in {agent.store[p], None, Torn}
DownShrinks ==
  \E k \in Nat : \A n \in DOMAIN down' :
    down'[n].type = "policy_push" => n + k \in DOMAIN down /\ down'[n] = down[n + k]
UpShrinks ==
  \A n \in DOMAIN up' : up'[n].success => \E m \in DOMAIN up : up'[n] = up[m]
CommandsShrink ==
  \A i \in PushId :
    /\ Active(i)' => Active(i)
    /\ KnownPush(i)' => /\ KnownPush(i) /\ command'[i].policy = command[i].policy
                        /\ command'[i].ver = command[i].ver
RunsShrink ==
  \A g \in Goroutine :
    /\ At(g, "ensure")' => At(g, "ensure") /\ run'[g].policy = run[g].policy /\ run'[g].ver = run[g].ver
    /\ At(g, "synced")' => Confirmed(run'[g])
RowsGrow ==
  /\ clock' \in Nat /\ clock <= clock'
  /\ \A p \in Policy :
       /\ row'[p] # NoRow => \/ row[p] # NoRow /\ row'[p].ver = row[p].ver
                             \/ row'[p].ver = clock'
       /\ row'[p].synced => accepted[p] = row'[p].ver

\* What everything has a version of.
LEMMA Versions ==
  ASSUME IInv, VInv
  PROVE  /\ accepted \in [Policy -> Nat] /\ agent.store \in [Policy -> Int]
         /\ \A p \in Policy, n \in DOMAIN down : Carries(n, p) => down[n].ver \in Int
         /\ \A i \in PushId : command[i].ver \in Int
         /\ \A g \in Goroutine : run[g].ver \in Int
         /\ \A p \in Policy : row[p].ver \in Int
         /\ clock \in Int
<1>1. \A n \in DOMAIN down : down[n] \in Push \cup Reconcile
  BY DEF IInv, LinkTypes
<1>2. \A p \in Policy, n \in DOMAIN down : Carries(n, p) => down[n].ver \in Int
  BY <1>1 DEF Carries, Push, Reconcile
<1>3. (\A i \in PushId : command[i].ver \in Int) /\ (\A p \in Policy : row[p].ver \in Int) /\ clock \in Int
  BY DEF IInv, MasterTypes, CommandState, RowState
<1>4. \A g \in Goroutine : run[g].ver \in Int
  BY DEF IInv, RunTypes, RunState
<1>5. accepted \in [Policy -> Nat] /\ agent.store \in [Policy -> Int]
  BY DEF VInv, IInv, AgentState
<1> QED
  BY <1>2, <1>3, <1>4, <1>5

LEMMA Later ==
  ASSUME IInv, VInv, NEW p \in Policy, NEW x \in Int, NEW y \in Int, x <= y
  PROVE  /\ Held(p, x) => Held(p, y)
         /\ Sent(p, x) => Sent(p, y)
         /\ AtMost(p, x) => AtMost(p, y)
<1>1. Held(p, x) => Held(p, y)
  BY Versions DEF Held
<1>2. Sent(p, x) => Sent(p, y)
  BY <1>1, Versions DEF Sent
<1>3. AtMost(p, x) => AtMost(p, y)
  BY <1>2, Versions DEF AtMost
<1> QED
  BY <1>1, <1>2, <1>3

LEMMA Shrinks ==
  ASSUME IInv, VInv, IInv', UNCHANGED accepted,
         StoreShrinks, DownShrinks, UpShrinks, CommandsShrink, RunsShrink, RowsGrow
  PROVE  VInv'
<1>1. PICK k \in Nat : \A n \in DOMAIN down' :
        down'[n].type = "policy_push" => n + k \in DOMAIN down /\ down'[n] = down[n + k]
  BY DEF DownShrinks
<1>2. /\ accepted \in [Policy -> Nat] /\ agent.store \in [Policy -> Int] /\ agent'.store \in [Policy -> Int]
      /\ None = 0 /\ Torn = -1
  BY DEF VInv, IInv, AgentState, None, Torn
<1>3. \A n \in DOMAIN down : down[n] \in Push \cup Reconcile
  BY DEF IInv, LinkTypes
<1>4. \A p \in Policy, x \in Int : Held(p, x) => Held(p, x)'
  BY <1>2 DEF Held, StoreShrinks
<1>5. \A p \in Policy, x \in Int : Sent(p, x) => Sent(p, x)'
  BY <1>1, <1>4 DEF Sent, Carries
<1>6. \A p \in Policy, i \in PushId :
        Pending(i, p)' => Pending(i, p) /\ command'[i].ver = command[i].ver
  BY DEF Pending, CommandsShrink, KnownPush
<1>7. \A p \in Policy, g \in Goroutine :
        Ensuring(g, p)' => Ensuring(g, p) /\ run'[g].ver = run[g].ver
  BY DEF Ensuring, RunsShrink
<1>8. \A p \in Policy, x \in Int : AtMost(p, x) => AtMost(p, x)'
  BY <1>5, <1>6, <1>7 DEF AtMost
<1>9. Bounded'
  <2> SUFFICES ASSUME NEW p \in Policy
               PROVE  AtMost(p, clock)' /\ (row'[p] # NoRow => AtMost(p, row[p].ver)')
    BY DEF Bounded
  <2>1. clock' \in Int /\ clock \in Int /\ row[p].ver \in Int
    BY Versions DEF RowsGrow
  <2>2. AtMost(p, clock')
    BY <2>1, Later DEF VInv, Bounded, RowsGrow
  <2>3. AtMost(p, clock)'
    BY <1>8, <2>1, <2>2 DEF AtMost, Sent, Held, Carries, Pending, Ensuring
  <2>4. ASSUME row[p] # NoRow, row'[p].ver = row[p].ver PROVE AtMost(p, row[p].ver)'
    <3>1. AtMost(p, row[p].ver)
      BY <2>4 DEF VInv, Bounded
    <3> QED
      BY <1>8, <2>1, <2>4, <3>1 DEF AtMost, Sent, Held, Carries, Pending, Ensuring
  <2>5. ASSUME row'[p].ver = clock' PROVE AtMost(p, row[p].ver)'
    BY <2>3, <2>5 DEF AtMost, Sent, Held, Carries, Pending, Ensuring
  <2> QED
    BY <2>3, <2>4, <2>5 DEF RowsGrow
<1>10. Ordered'
  <2> SUFFICES ASSUME NEW p \in Policy
               PROVE
      /\ \A n \in DOMAIN down' : Carries(n, p)' =>
           /\ Held(p, down[n].ver)'
           /\ \A m \in DOMAIN down' : n < m /\ Carries(m, p)' => down'[n].ver <= down'[m].ver
      /\ \A i \in PushId : Pending(i, p)' => Sent(p, command[i].ver)'
      /\ \A g \in Goroutine : Ensuring(g, p)' =>
           /\ Sent(p, run[g].ver)'
           /\ \A i \in PushId : Pending(i, p)' => command'[i].ver <= run'[g].ver
    BY DEF Ordered
  <2>1. ASSUME NEW n \in DOMAIN down', Carries(n, p)'
        PROVE  /\ Held(p, down[n].ver)'
               /\ \A m \in DOMAIN down' : n < m /\ Carries(m, p)' => down'[n].ver <= down'[m].ver
    <3>1. n + k \in DOMAIN down /\ down'[n] = down[n + k] /\ Carries(n + k, p)
      BY <1>1, <2>1 DEF Carries
    <3>2. down[n + k].ver \in Int
      BY <3>1, Versions
    <3>3. Held(p, down[n + k].ver)
      BY <3>1 DEF VInv, Ordered
    <3>4. Held(p, down[n].ver)'
      BY <1>4, <3>1, <3>2, <3>3 DEF Held
    <3>5. ASSUME NEW m \in DOMAIN down', n < m, Carries(m, p)' PROVE down'[n].ver <= down'[m].ver
      <4>1. m + k \in DOMAIN down /\ down'[m] = down[m + k] /\ Carries(m + k, p)
        BY <1>1, <3>5 DEF Carries
      <4>2. n + k < m + k
        BY <3>5 DEF IInv, LinkTypes
      <4> QED
        BY <3>1, <4>1, <4>2 DEF VInv, Ordered
    <3> QED
      BY <3>4, <3>5
  <2>2. ASSUME NEW i \in PushId, Pending(i, p)' PROVE Sent(p, command[i].ver)'
    <3>1. Sent(p, command[i].ver) /\ command'[i].ver = command[i].ver /\ command[i].ver \in Int
      BY <1>6, <2>2, Versions DEF VInv, Ordered
    <3> QED
      BY <1>5, <3>1 DEF Sent, Held, Carries
  <2>3. ASSUME NEW g \in Goroutine, Ensuring(g, p)'
        PROVE  /\ Sent(p, run[g].ver)'
               /\ \A i \in PushId : Pending(i, p)' => command'[i].ver <= run'[g].ver
    <3>1. Ensuring(g, p) /\ Sent(p, run[g].ver) /\ run'[g].ver = run[g].ver /\ run[g].ver \in Int
      BY <1>7, <2>3, Versions DEF VInv, Ordered
    <3>2. Sent(p, run[g].ver)'
      BY <1>5, <3>1 DEF Sent, Held, Carries
    <3>3. \A i \in PushId : Pending(i, p)' => command'[i].ver <= run'[g].ver
      BY <1>6, <3>1 DEF VInv, Ordered
    <3> QED
      BY <3>2, <3>3
  <2> QED
    BY <2>1, <2>2, <2>3
<1>11. Remembered'
  <2>1. ASSUME NEW n \in DOMAIN down', down'[n].type = "policy_push", KnownPush(down[n].id)'
        PROVE  SameId(down[n].id, down[n])'
    <3>1. n + k \in DOMAIN down /\ down'[n] = down[n + k] /\ down[n + k] \in Push
      BY <1>1, <1>3, <2>1 DEF Reconcile
    <3>2. PICK i \in PushId : i = down[n + k].id /\ down[n + k].type = "policy_push"
      BY <3>1 DEF Push
    <3>3. KnownPush(i)'
      BY <2>1, <3>1, <3>2 DEF KnownPush, Active
    <3>4. KnownPush(i) /\ command'[i].policy = command[i].policy /\ command'[i].ver = command[i].ver
      BY <3>3 DEF CommandsShrink
    <3>5. SameId(i, down[n + k])
      BY <3>1, <3>2, <3>4 DEF VInv, Remembered
    <3> QED
      BY <3>1, <3>2, <3>4, <3>5 DEF SameId
  <2>2. ASSUME NEW n \in DOMAIN up', up'[n].success, KnownPush(up[n].id)'
        PROVE  Confirmed(command[up[n].id])'
    <3>1. PICK m \in DOMAIN up : up'[n] = up[m]
      BY <2>2 DEF UpShrinks
    <3>2. up[m] \in Ack
      BY DEF IInv, LinkTypes
    <3>3. PICK i \in PushId : i = up[m].id /\ up[m].success
      BY <2>2, <3>1, <3>2 DEF Ack
    <3>4. KnownPush(i)'
      BY <2>2, <3>1, <3>3 DEF KnownPush, Active
    <3>5. KnownPush(i) /\ command'[i].policy = command[i].policy /\ command'[i].ver = command[i].ver
      BY <3>4 DEF CommandsShrink
    <3>6. Confirmed(command[i])
      BY <3>3, <3>5 DEF VInv, Remembered
    <3> QED
      BY <3>1, <3>3, <3>5, <3>6 DEF Confirmed
  <2>3. ASSUME NEW g \in Goroutine, At(g, "synced")' PROVE Confirmed(run[g])'
    BY <2>3 DEF RunsShrink, VInv, Remembered, Confirmed
  <2> QED
    BY <2>1, <2>2, <2>3 DEF Remembered
<1>12. SyncedIsAccepted' /\ (accepted \in [Policy -> Nat])'
  BY <1>2 DEF SyncedIsAccepted, RowsGrow
<1> QED
  BY <1>9, <1>10, <1>11, <1>12 DEF VInv

\* What a step that leaves some of the state alone does not grow.
LEMMA SameLink == ASSUME IInv, UNCHANGED <<down, up>> PROVE DownShrinks /\ UpShrinks
<1>1. \A n \in DOMAIN down' : n + 0 \in DOMAIN down /\ down'[n] = down[n + 0]
  BY DEF IInv, LinkTypes
<1>2. DownShrinks
  BY ONLY <1>1, 0 \in Nat DEF DownShrinks
<1> QED
  BY <1>2 DEF UpShrinks

LEMMA NoLink == ASSUME down' = <<>>, up' = <<>> PROVE DownShrinks /\ UpShrinks
BY DEF DownShrinks, UpShrinks

LEMMA SameCommands == ASSUME UNCHANGED <<command, tracker>> PROVE CommandsShrink
BY DEF CommandsShrink, Active, KnownPush

LEMMA SameRows == ASSUME IInv, VInv, UNCHANGED <<row, clock, accepted>> PROVE RowsGrow
BY DEF RowsGrow, IInv, MasterTypes, VInv, SyncedIsAccepted

LEMMA SameStore == ASSUME agent'.store = agent.store PROVE StoreShrinks
BY DEF StoreShrinks

LEMMA Goes ==
  ASSUME IInv, VInv, NEW g \in Goroutine, NEW r \in RunState, Goto(g, r),
         r.at # "ensure", r.at = "synced" => Confirmed(r)
  PROVE  RunsShrink
BY DEF IInv, RunTypes, RunsShrink, VInv, Remembered, Goto, At

LEMMA Handles ==
  ASSUME IInv, VInv, NEW g \in Goroutine, Return(g) \/ \E action \in Cause : Handle(g, action)
  PROVE  RunsShrink
<1>1. ASSUME Return(g) PROVE RunsShrink
  BY <1>1, Goes, IdleState DEF Return
<1>2. ASSUME NEW action \in Cause, Handle(g, action), online PROVE RunsShrink
  <2> DEFINE r == [Idle EXCEPT !.at = IF action \in {"deleted", "agent_online"} THEN "pluck" ELSE "lookup",
                               !.action = action]
  <2>1. r \in RunState /\ r.at \in {"pluck", "lookup"}
    BY IdleState DEF RunState, Label
  <2>2. Goto(g, r)
    BY <1>2 DEF Handle
  <2> HIDE DEF r
  <2> QED
    BY <2>1, <2>2, Goes
<1> QED
  BY <1>1, <1>2 DEF Handle

LEMMA EditVersions ==
  ASSUME IInv, VInv, IInv', NEW g \in Goroutine, EditStep(g)
  PROVE  VInv'
<1>1. ASSUME EditKeeps, RunsShrink, RowsGrow PROVE VInv'
  <2>1. UNCHANGED <<agent, accepted, down, up, command, tracker>>
    BY <1>1 DEF EditKeeps, linkVars
  <2> QED
    BY <1>1, <2>1, SameLink, SameCommands, SameStore, Shrinks
<1>2. ASSUME NEW p \in Policy, CreatePolicy(g, p) PROVE VInv'
  <2>1. RunsShrink /\ EditKeeps
    BY <1>2, Handles DEF CreatePolicy, Cause
  <2>2. RowsGrow
    BY <1>2 DEF CreatePolicy, Edit, RowsGrow, IInv, MasterTypes, RowState, VInv, SyncedIsAccepted
  <2> QED
    BY <1>1, <2>1, <2>2
<1>3. ASSUME NEW p \in Policy, ReadPolicy(g, p) PROVE VInv'
  <2> DEFINE r == [Idle EXCEPT !.at = "update", !.policy = p]
  <2>1. r \in RunState /\ r.at = "update"
    BY IdleState DEF RunState, Label, AnyPolicy
  <2>2. Goto(g, r) /\ EditKeeps /\ UNCHANGED <<row, clock, accepted>>
    BY <1>3 DEF ReadPolicy, EditKeeps
  <2> HIDE DEF r
  <2> QED
    BY <1>1, <2>1, <2>2, Goes, SameRows
<1>4. ASSUME NEW p \in Policy, DeletePolicy(g, p) PROVE VInv'
  <2>1. RunsShrink /\ EditKeeps
    BY <1>4, Handles DEF DeletePolicy, Cause
  <2>2. RowsGrow
    <3>1. /\ row' = [row EXCEPT ![p] = NoRow] /\ clock' = clock + 1 /\ clock \in Nat
          /\ row \in [Policy -> RowState]
      BY <1>4 DEF DeletePolicy, Edit, IInv, MasterTypes
    <3>2. row'[p] = NoRow /\ ~row'[p].synced /\ \A q \in Policy : q # p => row'[q] = row[q]
      BY <3>1 DEF NoRow
    <3> QED
      BY <3>1, <3>2 DEF RowsGrow, VInv, SyncedIsAccepted
  <2> QED
    BY <1>1, <2>1, <2>2
<1>5. ASSUME UpdatePolicy(g) PROVE VInv'
  <2>1. RunsShrink /\ EditKeeps
    BY <1>5, Handles DEF UpdatePolicy, Cause
  <2>2. RowsGrow
    <3> DEFINE q == run[g].policy
    <3>1. /\ row' = [row EXCEPT ![q] = [ver |-> clock + 1, synced |-> FALSE]] /\ clock' = clock + 1
          /\ row \in [Policy -> RowState] /\ clock \in Nat
      BY <1>5 DEF UpdatePolicy, Edit, IInv, MasterTypes
    <3> HIDE DEF q
    <3> QED
      BY <3>1 DEF RowsGrow, RowState, VInv, SyncedIsAccepted
  <2> QED
    BY <1>1, <2>1, <2>2
<1>6. ASSUME RejectUpdate(g) PROVE VInv'
  BY <1>1, <1>6, Handles, SameRows DEF RejectUpdate, EditKeeps
<1>7. ASSUME StorageUpdated(g) PROVE VInv'
  <2>1. RunsShrink /\ EditKeeps
    BY <1>7, Handles DEF StorageUpdated, Cause
  <2>2. RowsGrow
    <3>1. /\ row' = [p \in Policy |-> IF p \in Rows THEN [ver |-> clock + 1, synced |-> FALSE] ELSE NoRow]
          /\ clock' = clock + 1 /\ clock \in Nat
      BY <1>7 DEF StorageUpdated, Edit, IInv, MasterTypes
    <3>2. \A p \in Policy : ~row'[p].synced /\ (row'[p] # NoRow => row'[p].ver = clock')
      BY ONLY <3>1 DEF NoRow
    <3> QED
      BY ONLY <3>1, <3>2 DEF RowsGrow
  <2> QED
    BY <1>1, <2>1, <2>2
<1> QED
  BY <1>2, <1>3, <1>4, <1>5, <1>6, <1>7 DEF EditStep

\* The steps of the pusher that neither read a version nor send one.
LEMMA QuietVersions ==
  ASSUME IInv, VInv, IInv', NEW g \in Goroutine, Pluck(g) \/ TakeDispatch(g) \/ EndDispatch(g)
  PROVE  VInv'
<1>1. UNCHANGED <<agent, row, clock, accepted, down, up, command, tracker>>
  BY DEF Pluck, TakeDispatch, EndDispatch, PushKeeps, linkVars
<1>2. RunsShrink
  <2>1. run[g] \in RunState
    BY DEF IInv, RunTypes
  <2>2. CASE Pluck(g)
    <3> DEFINE r == [run[g] EXCEPT !.at = "reconcile", !.keep = Rows]
    <3>1. r \in RunState /\ r.at = "reconcile"
      BY <2>1 DEF RunState, Label, Rows
    <3>2. Goto(g, r)
      BY <2>2 DEF Pluck
    <3> HIDE DEF r
    <3> QED
      BY <3>1, <3>2, Goes
  <2>3. CASE TakeDispatch(g)
    <3> DEFINE r == [run[g] EXCEPT !.at = "send", !.todo = Due(g)]
    <3>1. r \in RunState /\ r.at = "send"
      BY <2>1 DEF RunState, Label, Due
    <3>2. Goto(g, r) \/ Return(g)
      BY <2>3 DEF TakeDispatch
    <3> HIDE DEF r
    <3> QED
      BY <3>1, <3>2, Goes, Handles
  <2>4. CASE EndDispatch(g)
    BY <2>4, Handles DEF EndDispatch
  <2> QED
    BY <2>2, <2>3, <2>4
<1> QED
  BY <1>1, <1>2, SameLink, SameCommands, SameRows, SameStore, Shrinks

\* What is appended to a connection is all that it carries, and the last of it.
LEMMA Appended ==
  ASSUME IInv, NEW m, down' = Append(down, m)
  PROVE  /\ DOMAIN down' = 1..(Len(down) + 1) /\ Len(down) \in Nat /\ DOMAIN down = 1..Len(down)
         /\ \A n \in 1..Len(down) : down'[n] = down[n]
         /\ down'[Len(down) + 1] = m
BY DEF IInv, LinkTypes

LEMMA ReconcileVersions ==
  ASSUME IInv, VInv, IInv', NEW g \in Goroutine, SendPolicyReconcile(g)
  PROVE  VInv'
<1> DEFINE r == [run[g] EXCEPT !.at = "lookup", !.keep = {}]
           m == [type |-> "policy_reconcile", keep |-> run[g].keep]
<1>1. /\ UNCHANGED <<agent, row, clock, accepted, up, command, tracker>>
      /\ down' = (IF online THEN Append(down, m) ELSE down) /\ Goto(g, r)
  BY DEF SendPolicyReconcile, PushKeeps
<1>2. r \in RunState /\ r.at = "lookup" /\ m.type = "policy_reconcile"
  <2>1. run[g] \in RunState
    BY DEF IInv, RunTypes
  <2> QED
    BY <2>1 DEF RunState, Label
<1> HIDE DEF r, m
<1>3. RunsShrink
  BY <1>1, <1>2, Goes
<1>4. DownShrinks
  <2>1. CASE down' = down
    BY <1>1, <2>1, SameLink
  <2>2. CASE down' = Append(down, m)
    <3>1. \A n \in DOMAIN down' :
            down'[n].type = "policy_push" => n + 0 \in DOMAIN down /\ down'[n] = down[n + 0]
      BY <1>2, <2>2, Appended
    <3> QED
      BY ONLY <3>1, 0 \in Nat DEF DownShrinks
  <2> QED
    BY <1>1, <2>1, <2>2
<1> QED
  BY <1>1, <1>3, <1>4, SameCommands, SameRows, SameStore, Shrinks DEF UpShrinks

LEMMA LookupVersions ==
  ASSUME IInv, VInv, IInv', NEW g \in Goroutine, LookupCommand(g)
  PROVE  VInv'
<1>1. /\ UNCHANGED <<agent, row, clock, accepted, down, up, command, tracker>>
      /\ run \in [Goroutine -> RunState] /\ pusherMu = Nobody
  BY DEF LookupCommand, PushKeeps, linkVars, IInv, RunTypes
\* No other goroutine holds the lock.
<1>2. \A h \in Goroutine, p \in Policy : ~Ensuring(h, p)
  BY <1>1, SyncAssumption DEF Ensuring, IInv, RunTypes
<1>3. /\ \A h \in Goroutine : h # g => run'[h] = run[h]
      /\ run'[g].at = "ensure"
      /\ \/ run'[g].policy = NoPolicy
         \/ \E p \in Latest : run'[g].policy = p /\ run'[g].ver = row[p].ver
  <2>1. run[g] \in RunState /\ \A r : Goto(g, r) => run'[g] = r /\ \A h \in Goroutine : h # g => run'[h] = run[h]
    BY <1>1 DEF Goto
  <2>2. CASE Goto(g, [run[g] EXCEPT !.at = "ensure", !.policy = NoPolicy])
    <3> DEFINE r == [run[g] EXCEPT !.at = "ensure", !.policy = NoPolicy]
    <3>1. r.at = "ensure" /\ r.policy = NoPolicy
      BY ONLY <2>1 DEF RunState
    <3>2. Goto(g, r)
      BY <2>2
    <3> HIDE DEF r
    <3> QED
      BY <2>1, <3>1, <3>2
  <2>3. ASSUME NEW p \in Latest, Goto(g, [run[g] EXCEPT !.at = "ensure", !.policy = p, !.ver = row[p].ver])
        PROVE  /\ \A h \in Goroutine : h # g => run'[h] = run[h]
               /\ run'[g].at = "ensure" /\ run'[g].policy = p /\ run'[g].ver = row[p].ver
    <3> DEFINE r == [run[g] EXCEPT !.at = "ensure", !.policy = p, !.ver = row[p].ver]
    <3>1. r.at = "ensure" /\ r.policy = p /\ r.ver = row[p].ver
      BY ONLY <2>1 DEF RunState
    <3>2. Goto(g, r)
      BY <2>3
    <3> HIDE DEF r
    <3> QED
      BY <2>1, <3>1, <3>2
  <2> QED
    BY <2>2, <2>3 DEF LookupCommand
<1>4. ASSUME NEW p \in Policy, Ensuring(g, p)'
      PROVE  /\ AtMost(p, run'[g].ver) /\ run'[g].ver = row[p].ver
             /\ run'[g].ver \in Int /\ run'[g].ver <= clock
  <2>1. p \in Latest /\ run'[g].ver = row[p].ver
    BY <1>3, <1>4, PlainAssumption DEF Ensuring
  <2>2. row[p] # NoRow
    BY <2>1 DEF Latest, Rows
  <2> QED
    BY <2>1, <2>2, Versions DEF VInv, Bounded, IInv, MasterTypes, RowState
<1>5. \A p \in Policy, h \in Goroutine : Ensuring(h, p)' => h = g
  BY <1>2, <1>3 DEF Ensuring, At
<1>6. \A p \in Policy, x \in Int : Sent(p, x)' <=> Sent(p, x)
  BY <1>1 DEF Sent, Held, Carries
<1>7. \A p \in Policy, i \in PushId : Pending(i, p)' <=> Pending(i, p)
  BY <1>1 DEF Pending, Active
<1>8. Bounded'
  <2> SUFFICES ASSUME NEW p \in Policy
               PROVE  AtMost(p, clock)' /\ (row'[p] # NoRow => AtMost(p, row[p].ver)')
    BY DEF Bounded
  <2>1. ASSUME NEW x \in Int, AtMost(p, x), x = clock \/ x = row[p].ver
        PROVE  AtMost(p, x)'
    <3>1. \A h \in Goroutine : Ensuring(h, p)' => run'[h].ver <= x
      BY <1>4, <1>5, <2>1
    <3> QED
      BY <1>1, <1>6, <1>7, <2>1, <3>1 DEF AtMost
  <2>2. AtMost(p, clock) /\ (row[p] # NoRow => AtMost(p, row[p].ver)) /\ clock \in Int /\ row[p].ver \in Int
    BY Versions DEF VInv, Bounded
  <2> QED
    BY <1>1, <2>1, <2>2 DEF AtMost, Sent, Held, Carries, Pending, Ensuring
<1>9. Ordered'
  <2>1. ASSUME NEW p \in Policy, NEW h \in Goroutine, Ensuring(h, p)'
        PROVE  Sent(p, run[h].ver)' /\ \A i \in PushId : Pending(i, p)' => command'[i].ver <= run'[h].ver
    <3>1. h = g /\ AtMost(p, run'[h].ver) /\ run'[h].ver \in Int
      BY <1>4, <1>5, <2>1
    <3> QED
      BY <1>1, <1>6, <1>7, <3>1 DEF AtMost, Sent, Held, Carries
  <2>2. \A p \in Policy :
          /\ \A n \in DOMAIN down' : Carries(n, p)' =>
               /\ Held(p, down[n].ver)'
               /\ \A m \in DOMAIN down' : n < m /\ Carries(m, p)' => down'[n].ver <= down'[m].ver
          /\ \A i \in PushId : Pending(i, p)' => Sent(p, command[i].ver)'
    BY <1>1 DEF VInv, Ordered, Sent, Held, Carries, Pending, Active
  <2> QED
    BY <2>1, <2>2 DEF Ordered
<1>10. Remembered'
  BY <1>1, <1>3 DEF VInv, Remembered, SameId, Confirmed, KnownPush, Active, At
<1> QED
  BY <1>1, <1>8, <1>9, <1>10 DEF VInv, SyncedIsAccepted

LEMMA EnsureVersions ==
  ASSUME IInv, VInv, IInv', NEW g \in Goroutine, EnsureDurableCommand(g)
  PROVE  VInv'
<1> DEFINE p == run[g].policy
           v == run[g].ver
           r == [run[g] EXCEPT !.at = "dispatch", !.policy = NoPolicy, !.ver = None]
<1>1. /\ UNCHANGED <<agent, row, clock, accepted, down, up>>
      /\ run[g] \in RunState /\ Commands(command) /\ pusherMu = g /\ At(g, "ensure")
      /\ p \in AnyPolicy /\ v \in Int
  BY DEF EnsureDurableCommand, PushKeeps, linkVars, IInv, RunTypes, RunState, MasterTypes, Commands
<1>2. RunsShrink /\ ~At(g, "ensure")'
  <2>1. r \in RunState /\ r.at = "dispatch"
    <3>1. "dispatch" \in Label /\ NoPolicy \in AnyPolicy /\ None \in Int
      BY DEF Label, AnyPolicy, None
    <3> QED
      BY <1>1, <3>1 DEF RunState
  <2>2. Goto(g, r) \/ Return(g)
    BY DEF EnsureDurableCommand
  <2> HIDE DEF r
  <2> QED
    BY <2>1, <2>2, Goes, Handles, IdleState DEF Return, Goto, At, IInv, RunTypes
<1>3. ASSUME NEW i \in PushId
      PROVE  /\ Retire(p, v)[i].policy = command[i].policy /\ Retire(p, v)[i].ver = command[i].ver
             /\ Retire(p, v)[i].status \in {"pending", "dispatched"} => Active(i)
  BY <1>1 DEF Retire, Commands, CommandState, Active
<1>4. CASE command' = Retire(p, v) /\ tracker' = tracker
  <2>1. CommandsShrink
    BY <1>3, <1>4 DEF CommandsShrink, KnownPush, Active
  <2> QED
    BY <1>1, <1>2, <2>1, SameLink, SameRows, SameStore, Shrinks
<1>5. CASE /\ p # NoPolicy /\ ~HasActive(p, v) /\ \E i \in PushId : Unused(i)
           /\ command' = [Retire(p, v) EXCEPT ![FreeId] = [policy |-> p, ver |-> v, status |-> "pending"]]
           /\ tracker' = tracker \cup {FreeId}
  <2>1. PICK f \in PushId : f = FreeId /\ Unused(f)
    BY <1>5 DEF FreeId
  <2>2. /\ command'[f] = [policy |-> p, ver |-> v, status |-> "pending"]
        /\ \A i \in PushId : i # f => command'[i] = Retire(p, v)[i]
    BY <1>1, <1>5, <2>1, RetireKeeps DEF Commands
  <2>3. p \in Policy /\ Ensuring(g, p)
    BY <1>1, <1>5 DEF AnyPolicy, Ensuring
  <2> HIDE DEF p, v
  <2>4. \A h \in Goroutine, q \in Policy : ~Ensuring(h, q)'
    BY <1>1, <1>2 DEF RunsShrink, Ensuring, IInv, RunTypes, At
  <2>5. \A i \in PushId, q \in Policy :
          Pending(i, q)' => \/ Pending(i, q) /\ command'[i].ver = command[i].ver
                            \/ i = f /\ q = p /\ command'[i].ver = v
    BY <1>3, <2>2 DEF Pending, Active
  <2>6. \A q \in Policy, x \in Int : (Held(q, x)' <=> Held(q, x)) /\ (Sent(q, x)' <=> Sent(q, x))
    BY <1>1 DEF Held, Sent, Carries
  <2>7. Bounded'
    <3>1. \A q \in Policy, x \in Int : AtMost(q, x) /\ (q = p => v <= x) => AtMost(q, x)'
      BY <2>4, <2>5, <2>6 DEF AtMost
    <3>2. \A x \in Int : AtMost(p, x) => v <= x
      BY <2>3 DEF AtMost, v, p
    <3>3. \A q \in Policy : row[q].ver \in Int /\ clock \in Int
      BY Versions
    <3> QED
      BY <1>1, <3>1, <3>2, <3>3 DEF VInv, Bounded, AtMost, Sent, Held, Carries, Pending, Ensuring
  <2>8. Ordered'
    <3>1. Sent(p, v)
      BY <2>3 DEF VInv, Ordered, v, p
    <3>2. ASSUME NEW q \in Policy, NEW i \in PushId, Pending(i, q)' PROVE Sent(q, command[i].ver)'
      BY <1>1, <2>5, <2>6, <3>1, <3>2, Versions DEF VInv, Ordered, Sent, Held, Carries
    <3>3. ASSUME NEW q \in Policy, NEW n \in DOMAIN down', Carries(n, q)'
          PROVE  /\ Held(q, down[n].ver)'
                 /\ \A m \in DOMAIN down' : n < m /\ Carries(m, q)' => down'[n].ver <= down'[m].ver
      BY <1>1, <3>3 DEF VInv, Ordered, Held, Carries
    <3> QED
      BY <2>4, <3>2, <3>3 DEF Ordered
  <2>9. \A i \in PushId : i # f /\ KnownPush(i)' =>
          KnownPush(i) /\ command'[i].policy = command[i].policy /\ command'[i].ver = command[i].ver
    BY <1>3, <1>5, <2>1, <2>2 DEF KnownPush, Active
  <2>10. Remembered'
    <3>1. ASSUME NEW n \in DOMAIN down', down'[n].type = "policy_push", KnownPush(down[n].id)'
          PROVE  SameId(down[n].id, down[n])'
      <4>1. PICK i \in PushId : i = down[n].id /\ i # f
        <5>1. down[n] \in Push \cup Reconcile /\ down[n].type = "policy_push" /\ n \in DOMAIN down
          BY <1>1, <3>1 DEF IInv, LinkTypes
        <5>2. down[n].id \in PushId
          BY <5>1 DEF Push, Reconcile
        <5> QED
          BY <2>1, <5>1, <5>2 DEF Unused
      <4>2. KnownPush(i)'
        BY <1>1, <3>1, <4>1 DEF KnownPush, Active
      <4> QED
        BY <1>1, <2>9, <3>1, <4>1, <4>2 DEF VInv, Remembered, SameId
    <3>2. ASSUME NEW n \in DOMAIN up', up'[n].success, KnownPush(up[n].id)'
          PROVE  Confirmed(command[up[n].id])'
      <4>1. PICK i \in PushId : i = up[n].id /\ i # f
        <5>1. up[n] \in Ack /\ n \in DOMAIN up
          BY <1>1, <3>2 DEF IInv, LinkTypes
        <5> QED
          BY <2>1, <5>1 DEF Unused, Ack
      <4>2. KnownPush(i)'
        BY <1>1, <3>2, <4>1 DEF KnownPush, Active
      <4> QED
        BY <1>1, <2>9, <3>2, <4>1, <4>2 DEF VInv, Remembered, Confirmed
    <3>3. \A h \in Goroutine : At(h, "synced")' => Confirmed(run[h])'
      BY <1>1, <1>2 DEF RunsShrink, Confirmed
    <3> QED
      BY <3>1, <3>2, <3>3 DEF Remembered
  <2> QED
    BY <1>1, <2>7, <2>8, <2>10 DEF VInv, SyncedIsAccepted
<1> QED
  BY <1>4, <1>5 DEF EnsureDurableCommand

LEMMA SendVersions ==
  ASSUME IInv, VInv, IInv', NEW g \in Goroutine, SendPush(g)
  PROVE  VInv'
<1>1. /\ UNCHANGED <<agent, row, clock, accepted, up, tracker>>
      /\ run[g] \in RunState /\ run[g].at = "send" /\ Commands(command)
  BY DEF SendPush, PushKeeps, IInv, RunTypes, MasterTypes, Commands, At
<1>2. PICK i \in PushId :
        \/ Goto(g, [run[g] EXCEPT !.todo = @ \ {i}]) /\ UNCHANGED <<down, command>>
        \/ /\ Active(i) /\ Goto(g, [run[g] EXCEPT !.todo = @ \ {i}])
           /\ command' = [command EXCEPT ![i].status = "dispatched"]
           /\ down' = Append(down, [type |-> "policy_push", id |-> i, policy |-> command[i].policy, ver |-> command[i].ver])
        \/ /\ Active(i) /\ Goto(g, [run[g] EXCEPT !.todo = {}])
           /\ command' = [command EXCEPT ![i].status = "pending"] /\ UNCHANGED down
  <2>1. run[g].todo \subseteq PushId
    BY <1>1 DEF RunState
  <2> QED
    BY <2>1 DEF SendPush
<1>3. RunsShrink
  <2> DEFINE q == [run[g] EXCEPT !.todo = @ \ {i}]
             e == [run[g] EXCEPT !.todo = {}]
  <2>1. q \in RunState /\ q.at = "send" /\ e \in RunState /\ e.at = "send"
    BY <1>1 DEF RunState
  <2>2. Goto(g, q) \/ Goto(g, e)
    BY <1>2
  <2> HIDE DEF q, e
  <2> QED
    BY <2>1, <2>2, Goes
<1>4. /\ \A j \in PushId : /\ command'[j].policy = command[j].policy /\ command'[j].ver = command[j].ver
                           /\ Active(j)' <=> Active(j)
      /\ CommandsShrink
  <2>1. command' = command \/ (Active(i) /\ \E s \in {"pending", "dispatched"} : command' = [command EXCEPT ![i].status = s])
    BY <1>2
  <2>2. \A j \in PushId : /\ command'[j].policy = command[j].policy /\ command'[j].ver = command[j].ver
                          /\ Active(j)' <=> Active(j)
    BY <1>1, <2>1 DEF Commands, CommandState, Active
  <2> QED
    BY <1>1, <2>2 DEF CommandsShrink, KnownPush
<1>5. CASE UNCHANGED down
  BY <1>1, <1>3, <1>4, <1>5, SameLink, SameRows, SameStore, Shrinks
<1> DEFINE m == [type |-> "policy_push", id |-> i, policy |-> command[i].policy, ver |-> command[i].ver]
           L == Len(down)
<1>6. CASE Active(i) /\ down' = Append(down, m)
  <2>1. /\ DOMAIN down' = 1..(L + 1) /\ L \in Nat /\ DOMAIN down = 1..L
        /\ \A n \in 1..L : down'[n] = down[n]
        /\ down'[L + 1] = m
    BY <1>6, Appended
  <2>2. m.type = "policy_push" /\ m.id = i /\ m.policy = command[i].policy /\ m.ver = command[i].ver
    OBVIOUS
  <2> HIDE DEF m, L
  <2>3. m.policy \in Policy /\ Pending(i, m.policy) /\ m.ver \in Int
    BY <1>1, <1>6, <2>2, Versions DEF Commands, Distinct, Pending, Active
  <2>4. \A p \in Policy, x \in Int :
          /\ Held(p, x)' <=> Held(p, x)
          /\ Sent(p, x) /\ (p = m.policy => m.ver <= x) => Sent(p, x)'
    BY <1>1, <2>1 DEF Held, Sent, Carries
  <2>5. \A p \in Policy, j \in PushId :
          Pending(j, p)' => Pending(j, p) /\ command'[j].ver = command[j].ver
    BY <1>4 DEF Pending
  <2>6. \A p \in Policy, h \in Goroutine :
          Ensuring(h, p)' => Ensuring(h, p) /\ run'[h].ver = run[h].ver
    BY <1>3 DEF RunsShrink, Ensuring
  <2>7. Bounded'
    <3>1. \A p \in Policy, x \in Int : AtMost(p, x) => AtMost(p, x)'
      BY <2>2, <2>3, <2>4, <2>5, <2>6 DEF AtMost
    <3>2. \A p \in Policy : row[p].ver \in Int /\ clock \in Int
      BY Versions
    <3> QED
      BY <1>1, <3>1, <3>2 DEF VInv, Bounded, AtMost, Sent, Held, Carries, Pending, Ensuring
  <2>8. Ordered'
    <3>1. ASSUME NEW p \in Policy, NEW n \in DOMAIN down', Carries(n, p)'
          PROVE  /\ Held(p, down[n].ver)'
                 /\ \A k \in DOMAIN down' : n < k /\ Carries(k, p)' => down'[n].ver <= down'[k].ver
      <4>1. CASE n = L + 1
        <5>1. p = m.policy /\ Held(p, m.ver)
          BY <2>1, <2>2, <2>3, <3>1, <4>1 DEF Carries, VInv, Ordered, Sent
        <5> QED
          BY <1>1, <2>1, <4>1, <5>1 DEF Held
      <4>2. CASE n \in 1..L
        <5>1. Carries(n, p) /\ down'[n] = down[n] /\ n \in DOMAIN down
          BY <2>1, <3>1, <4>2 DEF Carries
        <5>2. Held(p, down[n].ver)'
          BY <1>1, <5>1 DEF VInv, Ordered, Held
        <5>3. ASSUME NEW k \in DOMAIN down', n < k, Carries(k, p)' PROVE down'[n].ver <= down'[k].ver
          <6>1. CASE k \in 1..L
            BY <2>1, <5>1, <5>3, <6>1 DEF VInv, Ordered, Carries
          <6>2. CASE k = L + 1
            <7>1. p = m.policy /\ Sent(p, m.ver)
              BY <2>1, <2>2, <2>3, <5>3, <6>2 DEF Carries, VInv, Ordered
            <7> QED
              BY <2>1, <5>1, <6>2, <7>1 DEF Sent
          <6> QED
            BY <2>1, <6>1, <6>2
        <5> QED
          BY <5>2, <5>3
      <4> QED
        BY <2>1, <4>1, <4>2
    <3>2. ASSUME NEW p \in Policy, NEW j \in PushId, Pending(j, p)' PROVE Sent(p, command[j].ver)'
      <4>1. Pending(j, p) /\ Sent(p, command[j].ver) /\ command'[j].ver = command[j].ver /\ command[j].ver \in Int
        BY <2>5, <3>2, Versions DEF VInv, Ordered
      <4>2. p = m.policy => j = i
        BY <1>1, <1>6, <2>2, <4>1 DEF Commands, Distinct, Pending, Active
      <4>3. p = m.policy => m.ver <= command[j].ver
        BY <2>2, <4>1, <4>2
      <4> QED
        BY <1>1, <2>1, <4>1, <4>3 DEF Sent, Held, Carries
    <3>3. ASSUME NEW p \in Policy, NEW h \in Goroutine, Ensuring(h, p)'
          PROVE  /\ Sent(p, run[h].ver)'
                 /\ \A j \in PushId : Pending(j, p)' => command'[j].ver <= run'[h].ver
      <4>1. Ensuring(h, p) /\ Sent(p, run[h].ver) /\ run'[h].ver = run[h].ver /\ run[h].ver \in Int
        BY <2>6, <3>3, Versions DEF VInv, Ordered
      <4>2. p = m.policy => m.ver <= run[h].ver
        BY <2>2, <2>3, <4>1 DEF VInv, Ordered
      <4>3. Sent(p, run[h].ver)'
        BY <1>1, <2>1, <4>1, <4>2 DEF Sent, Held, Carries
      <4> QED
        BY <2>5, <4>1, <4>3 DEF VInv, Ordered
    <3> QED
      BY <3>1, <3>2, <3>3 DEF Ordered
  <2>9. Remembered'
    <3>1. ASSUME NEW n \in DOMAIN down', down'[n].type = "policy_push", KnownPush(down[n].id)'
          PROVE  SameId(down[n].id, down[n])'
      <4>1. CASE n = L + 1
        BY <1>4, <2>1, <2>2, <4>1 DEF SameId
      <4>2. CASE n \in 1..L
        <5>1. down'[n] = down[n] /\ n \in DOMAIN down /\ down[n].type = "policy_push"
          BY <2>1, <3>1, <4>2
        <5>2. PICK j \in PushId : j = down[n].id
          BY <5>1 DEF IInv, LinkTypes, Push, Reconcile
        <5>3. KnownPush(j)
          BY <1>1, <1>4, <3>1, <5>1, <5>2 DEF KnownPush, Active
        <5> QED
          BY <1>4, <5>1, <5>2, <5>3 DEF VInv, Remembered, SameId
      <4> QED
        BY <2>1, <4>1, <4>2
    <3>2. ASSUME NEW n \in DOMAIN up', up'[n].success, KnownPush(up[n].id)'
          PROVE  Confirmed(command[up[n].id])'
      <4>1. PICK j \in PushId : j = up[n].id
        <5>1. up[n] \in Ack
          BY <1>1, <3>2 DEF IInv, LinkTypes
        <5> QED
          BY <5>1 DEF Ack
      <4> QED
        BY <1>1, <1>4, <3>2, <4>1 DEF VInv, Remembered, Confirmed, KnownPush, Active
    <3>3. \A h \in Goroutine : At(h, "synced")' => Confirmed(run[h])'
      BY <1>1, <1>3 DEF RunsShrink, Confirmed
    <3> QED
      BY <3>1, <3>2, <3>3 DEF Remembered
  <2> QED
    BY <1>1, <2>7, <2>8, <2>9 DEF VInv, SyncedIsAccepted
<1> QED
  BY <1>2, <1>5, <1>6

LEMMA AckVersions ==
  ASSUME IInv, VInv, IInv', NEW g \in Goroutine, PolicyAck(g)
  PROVE  VInv'
<1> DEFINE ack == Head(up)
           r == IF KnownPush(ack.id) /\ ack.success
                THEN [Idle EXCEPT !.at = "synced", !.policy = command[ack.id].policy,
                                  !.ver = command[ack.id].ver]
                ELSE [Idle EXCEPT !.at = "synced"]
<1>1. /\ up \in Seq(Ack) /\ up # <<>> /\ up' = Tail(up) /\ Commands(command) /\ run \in [Goroutine -> RunState]
      /\ tracker \in SUBSET PushId
  BY DEF IInv, MasterTypes, RunTypes, LinkTypes, Commands, PolicyAck
<1>2. ack \in Ack /\ 1 \in DOMAIN up /\ ack = up[1]
  BY <1>1
<1>3. /\ Goto(g, r) /\ command' = [command EXCEPT ![ack.id] = NoCommand] /\ tracker' = tracker \ {ack.id}
      /\ UNCHANGED <<agent, down, row, clock, accepted>>
  BY DEF PolicyAck
<1>4. ack.id \in PushId
  BY <1>2 DEF Ack
<1>5. UpShrinks
  <2>1. \A n \in DOMAIN up' : n + 1 \in DOMAIN up /\ up'[n] = up[n + 1]
    BY <1>1
  <2> QED
    BY <2>1 DEF UpShrinks
<1>6. CommandsShrink
  <2>1. command'[ack.id].status = "none" /\ \A i \in PushId : i # ack.id => command'[i] = command[i]
    BY <1>1, <1>3, <1>4 DEF Commands, NoCommand
  <2> HIDE DEF ack
  <2> QED
    BY <1>3, <2>1 DEF CommandsShrink, KnownPush, Active
<1>7. r.at = "synced" /\ Confirmed(r)
  <2>1. ASSUME KnownPush(ack.id), ack.success PROVE Confirmed(command[ack.id])
    BY <1>2, <2>1 DEF VInv, Remembered
  <2> HIDE DEF ack
  <2> QED
    BY <2>1, PlainAssumption DEF Idle, Confirmed
<1> HIDE DEF ack, r
<1>8. run'[g] = r /\ \A h \in Goroutine : h # g => run'[h] = run[h]
  BY <1>1, <1>3 DEF Goto
<1>9. RunsShrink
  BY <1>7, <1>8 DEF RunsShrink, At, VInv, Remembered
<1>10. DownShrinks
  <2>1. \A n \in DOMAIN down' : n + 0 \in DOMAIN down /\ down'[n] = down[n + 0]
    BY <1>3 DEF IInv, LinkTypes
  <2> QED
    BY ONLY <2>1, 0 \in Nat DEF DownShrinks
<1> QED
  BY <1>3, <1>5, <1>6, <1>9, <1>10, SameRows, SameStore, Shrinks

\* The row becomes synced with a version that the agent accepted, and that is its latest.
LEMMA SyncedVersions ==
  ASSUME IInv, VInv, IInv', NEW g \in Goroutine, MarkSynced(g)
  PROVE  VInv'
<1> DEFINE p == run[g].policy
<1>1. /\ At(g, "synced") /\ UNCHANGED <<agent, down, up, command, tracker, clock, accepted>>
      /\ row' = row \/ (row[p] # NoRow /\ row[p].ver = run[g].ver /\ row' = [row EXCEPT ![p].synced = TRUE])
      /\ RunsShrink
  BY Handles DEF MarkSynced, PublishAck, MarksSynced, linkVars, Cause
<1>2. row \in [Policy -> RowState] /\ clock \in Nat
  BY DEF IInv, MasterTypes
<1>3. ASSUME p \in Policy, row[p] # NoRow, row[p].ver = run[g].ver PROVE accepted[p] = row[p].ver
  <2>1. run[g].ver <= accepted[p]
    BY <1>1, <1>3 DEF VInv, Remembered, Confirmed
  <2>2. accepted[p] <= row[p].ver
    BY <1>3 DEF VInv, Bounded, AtMost, Sent, Held
  <2> QED
    BY <1>3, <2>1, <2>2, Versions
<1> HIDE DEF p
<1>4. RowsGrow
  <2>1. CASE row' = row
    BY <1>1, <2>1, SameRows
  <2>2. CASE row[p] # NoRow /\ row[p].ver = run[g].ver /\ row' = [row EXCEPT ![p].synced = TRUE]
    <3>1. \A q \in Policy : row'[q].ver = row[q].ver /\ (q # p => row'[q] = row[q])
      BY <1>2, <2>2 DEF RowState
    <3>2. \A q \in Policy : row'[q] # NoRow => row[q] # NoRow
      BY <2>2, <3>1
    <3> QED
      BY <1>1, <1>2, <1>3, <2>2, <3>1, <3>2 DEF RowsGrow, VInv, SyncedIsAccepted
  <2> QED
    BY <1>1, <2>1, <2>2
<1> QED
  BY <1>1, <1>4, SameLink, SameCommands, SameStore, Shrinks

LEMMA ConnectVersions ==
  ASSUME IInv, VInv, IInv', NEW g \in Goroutine, Connect(g)
  PROVE  VInv'
<1> DEFINE r == [Idle EXCEPT !.at = "pluck", !.action = "agent_online"]
<1>1. r \in RunState /\ r.at = "pluck"
  BY IdleState DEF RunState, Label, Cause
<1>2. /\ Goto(g, r) /\ down' = <<>> /\ up' = <<>>
      /\ row' = [p \in Policy |-> [row[p] EXCEPT !.synced = FALSE]]
      /\ UNCHANGED <<agent, command, tracker, clock, accepted>>
  BY DEF Connect
<1> HIDE DEF r
<1>3. RowsGrow
  <2>1. row \in [Policy -> RowState] /\ clock \in Nat
    BY DEF IInv, MasterTypes
  <2>2. \A p \in Policy : row'[p].ver = row[p].ver /\ ~row'[p].synced /\ (row[p] = NoRow => row'[p] = NoRow)
    <3>1. [NoRow EXCEPT !.synced = FALSE] = NoRow
      <4>1. \A a, b \in RowState : a.ver = b.ver /\ a.synced = b.synced => a = b
        BY DEF RowState
      <4>2. NoRow \in RowState /\ NoRow.synced = FALSE
        BY DEF NoRow, RowState, None
      <4>3. /\ [NoRow EXCEPT !.synced = FALSE] \in RowState
            /\ [NoRow EXCEPT !.synced = FALSE].ver = NoRow.ver
            /\ [NoRow EXCEPT !.synced = FALSE].synced = NoRow.synced
        BY ONLY <4>2 DEF RowState
      <4> QED
        BY ONLY <4>1, <4>2, <4>3
    <3>2. \A p \in Policy : row'[p] = [row[p] EXCEPT !.synced = FALSE] /\ row[p] \in RowState
      BY <1>2, <2>1
    <3>3. \A p \in Policy : row'[p].ver = row[p].ver /\ row'[p].synced = FALSE
      BY ONLY <3>2 DEF RowState
    <3> QED
      BY <3>1, <3>2, <3>3
  <2> QED
    BY <1>2, <2>1, <2>2 DEF RowsGrow
<1> QED
  BY <1>1, <1>2, <1>3, Goes, NoLink, SameCommands, SameStore, Shrinks

LEMMA HeartbeatVersions ==
  ASSUME IInv, VInv, IInv', NEW g \in Goroutine, Heartbeat(g)
  PROVE  VInv'
<1> DEFINE r == [Idle EXCEPT !.at = "lookup", !.action = "agent_online"]
<1>1. r \in RunState /\ r.at = "lookup"
  BY IdleState DEF RunState, Label, Cause
<1>2. Goto(g, r) /\ UNCHANGED <<agent, down, up, row, command, tracker, clock, accepted>>
  BY DEF Heartbeat
<1> HIDE DEF r
<1> QED
  BY <1>1, <1>2, Goes, SameLink, SameCommands, SameRows, SameStore, Shrinks

\* A fault forgets, or puts an older state back.
LEMMA FaultVersions ==
  ASSUME IInv, VInv, IInv',
         \/ \E i \in PushId : ExpirePush(i)
         \/ Disconnect \/ MasterRestart \/ AgentRestart
  PROVE  VInv'
<1>1. ASSUME UNCHANGED <<row, clock, accepted>>, agent'.store = agent.store,
             DownShrinks, UpShrinks, CommandsShrink, RunsShrink
      PROVE  VInv'
  BY <1>1, SameRows, SameStore, Shrinks
<1>2. UNCHANGED run => RunsShrink
  BY DEF RunsShrink, At, VInv, Remembered
<1>3. ASSUME NEW i \in PushId, ExpirePush(i) PROVE VInv'
  <2>1. /\ command' = [command EXCEPT ![i].status = "ended"] /\ command \in [PushId -> CommandState]
        /\ UNCHANGED <<agent, down, up, row, tracker, clock, run, accepted>>
    BY <1>3 DEF ExpirePush, linkVars, IInv, MasterTypes
  <2>2. CommandsShrink
    BY <2>1 DEF CommandsShrink, KnownPush, Active, CommandState
  <2> QED
    BY <1>1, <1>2, <2>1, <2>2, SameLink
<1>4. ASSUME Disconnect PROVE VInv'
  BY <1>1, <1>2, <1>4, NoLink, SameCommands DEF Disconnect
<1>5. ASSUME MasterRestart PROVE VInv'
  <2>1. /\ down' = <<>> /\ up' = <<>> /\ tracker' = {} /\ run' = [g \in Goroutine |-> Idle]
        /\ command' = [i \in PushId |-> IF Active(i) THEN command[i] ELSE NoCommand]
        /\ UNCHANGED <<agent, row, clock, accepted>>
    BY <1>5 DEF MasterRestart
  <2>2. RunsShrink
    BY <2>1, IdleState DEF RunsShrink, At
  <2>3. CommandsShrink
    BY <2>1 DEF CommandsShrink, KnownPush, Active, NoCommand
  <2> QED
    BY <1>1, <2>1, <2>2, <2>3, NoLink
<1>6. ASSUME AgentRestart PROVE VInv'
  <2>1. /\ agent' = RestoreSavedPolicySchedule(agent) /\ down' = <<>> /\ up' = <<>>
        /\ UNCHANGED <<row, command, tracker, clock, run, accepted>>
    BY <1>6 DEF AgentRestart, AgentRestarts
  <2>2. agent'.store = agent.store
    BY <2>1 DEF RestoreSavedPolicySchedule, IInv, AgentState
  <2> QED
    BY <1>1, <1>2, <2>1, <2>2, NoLink, SameCommands
<1> QED
  BY <1>3, <1>4, <1>5, <1>6

\* What the agent does with the first message of the connection, when it is a push.
LEMMA Reaches ==
  ASSUME IInv, VInv, IInv', NEW m, 1 \in DOMAIN down, m = down[1], m \in Push,
         UNCHANGED <<row, command, tracker, clock, run>>,
         \A n \in DOMAIN down' : n + 1 \in DOMAIN down /\ down'[n] = down[n + 1],
         \A p \in Policy : \/ agent'.store[p] \in {agent.store[p], None, Torn}
                           \/ p = m.policy /\ agent'.store[p] = m.ver,
         \/ accepted' = accepted /\ up' = <<>>
         \/ accepted' = accepted /\ up' = Append(up, [id |-> m.id, success |-> FALSE])
         \/ /\ accepted' = [accepted EXCEPT ![m.policy] = m.ver]
            /\ up' = Append(up, [id |-> m.id, success |-> TRUE])
  PROVE  VInv'
<1>1. /\ Carries(1, m.policy) /\ m.policy \in Policy /\ m.ver \in Int /\ m.id \in PushId
      /\ None = 0 /\ Torn = -1 /\ agent'.store \in [Policy -> Int]
  BY DEF Carries, Push, None, Torn, IInv, AgentState
<1>2. Held(m.policy, m.ver)
  <2>1. Held(m.policy, down[1].ver)
    BY <1>1 DEF VInv, Ordered
  <2> QED
    BY <2>1
<1>3. m.ver \in Nat /\ accepted' \in [Policy -> Nat] /\ \A p \in Policy : accepted[p] <= accepted'[p]
  <2>1. accepted \in [Policy -> Nat] /\ accepted[m.policy] <= m.ver /\ m.ver \in Nat
    BY <1>1, <1>2, Versions DEF Held
  <2>2. accepted' = accepted \/ accepted' = [accepted EXCEPT ![m.policy] = m.ver]
    OBVIOUS
  <2> QED
    BY ONLY <1>1, <2>1, <2>2
<1>4. \A p \in Policy, x \in Int : Held(p, x) /\ (p = m.policy => m.ver <= x) => Held(p, x)'
  <2>1. \A p \in Policy : accepted'[p] = accepted[p] \/ (p = m.policy /\ accepted'[p] = m.ver)
    BY <1>1, Versions
  <2>2. \A p \in Policy : accepted[p] \in Nat
    BY Versions
  <2>3. \A p \in Policy : \/ agent'.store[p] = agent.store[p]
                           \/ agent'.store[p] = 0
                           \/ agent'.store[p] = -1
                           \/ (p = m.policy /\ agent'.store[p] = m.ver)
    BY <1>1
  <2>4. agent.store \in [Policy -> Int]
    BY Versions
  <2>5. SUFFICES ASSUME NEW p \in Policy, NEW x \in Int, Held(p, x), p = m.policy => m.ver <= x
                 PROVE  accepted'[p] <= x /\ agent'.store[p] <= x
    BY DEF Held
  <2>6. accepted[p] \in Nat /\ accepted[p] <= x /\ agent.store[p] \in Int /\ agent.store[p] <= x
    BY <2>2, <2>4, <2>5 DEF Held
  <2> QED
    BY ONLY <2>1, <2>3, <2>5, <2>6
<1>5. \A p \in Policy, x \in Int : Sent(p, x) => (p = m.policy => m.ver <= x)
  BY <1>1 DEF Sent
<1>6. \A p \in Policy, x \in Int : Sent(p, x) => Sent(p, x)'
  BY <1>4, <1>5 DEF Sent, Carries
<1>7. \A p \in Policy, x \in Int : AtMost(p, x) => AtMost(p, x)'
  BY <1>6 DEF AtMost, Pending, Active, Ensuring, At
<1>8. Bounded'
  <2> SUFFICES ASSUME NEW p \in Policy
               PROVE  AtMost(p, clock)' /\ (row'[p] # NoRow => AtMost(p, row[p].ver)')
    BY DEF Bounded
  <2>1. row[p].ver \in Int /\ clock \in Int /\ UNCHANGED <<row, clock>>
    BY Versions
  <2>2. AtMost(p, clock) /\ (row[p] # NoRow => AtMost(p, row[p].ver))
    BY DEF VInv, Bounded
  <2>3. AtMost(p, clock)'
    BY <1>7, <2>1, <2>2 DEF AtMost, Sent, Held, Carries, Pending, Ensuring
  <2>4. row'[p] # NoRow => AtMost(p, row[p].ver)'
    BY <1>7, <2>1, <2>2 DEF AtMost, Sent, Held, Carries, Pending, Ensuring
  <2> QED
    BY <2>3, <2>4
<1>9. Ordered'
  <2>1. ASSUME NEW p \in Policy, NEW n \in DOMAIN down', Carries(n, p)'
        PROVE  /\ Held(p, down[n].ver)'
               /\ \A k \in DOMAIN down' : n < k /\ Carries(k, p)' => down'[n].ver <= down'[k].ver
    <3>1. n + 1 \in DOMAIN down /\ down'[n] = down[n + 1] /\ Carries(n + 1, p) /\ 1 < n + 1
      BY <2>1 DEF Carries, IInv, LinkTypes
    <3>2. Held(p, down[n + 1].ver) /\ (p = m.policy => m.ver <= down[n + 1].ver) /\ down[n + 1].ver \in Int
      BY <1>1, <3>1, Versions DEF VInv, Ordered
    <3>3. Held(p, down[n].ver)'
      BY <1>4, <3>1, <3>2 DEF Held
    <3>4. ASSUME NEW k \in DOMAIN down', n < k, Carries(k, p)' PROVE down'[n].ver <= down'[k].ver
      <4>1. k + 1 \in DOMAIN down /\ down'[k] = down[k + 1]
        OBVIOUS
      <4>2. Carries(k + 1, p)
        BY <3>4, <4>1 DEF Carries
      <4>3. n + 1 < k + 1
        BY <3>4 DEF IInv, LinkTypes
      <4> QED
        BY <3>1, <4>1, <4>2, <4>3 DEF VInv, Ordered
    <3> QED
      BY <3>3, <3>4
  <2>2. \A p \in Policy :
          /\ \A i \in PushId : Pending(i, p)' => Sent(p, command[i].ver)'
          /\ \A g \in Goroutine : Ensuring(g, p)' =>
               /\ Sent(p, run[g].ver)'
               /\ \A i \in PushId : Pending(i, p)' => command'[i].ver <= run'[g].ver
    BY <1>6, Versions DEF VInv, Ordered, Pending, Active, Ensuring, At, Sent, Held, Carries
  <2> QED
    BY <2>1, <2>2 DEF Ordered
<1>10. Remembered'
  <2>1. ASSUME NEW n \in DOMAIN down', down'[n].type = "policy_push", KnownPush(down[n].id)'
        PROVE  SameId(down[n].id, down[n])'
    <3>1. n + 1 \in DOMAIN down /\ down'[n] = down[n + 1]
      OBVIOUS
    <3> QED
      BY <2>1, <3>1 DEF VInv, Remembered, SameId, KnownPush, Active
  <2>2. ASSUME NEW i \in PushId, Confirmed(command[i]) PROVE Confirmed(command[i])'
    <3>1. command'[i] = command[i] /\ command[i].ver \in Int /\ accepted \in [Policy -> Nat]
      BY Versions
    <3>2. \A p \in Policy : command[i].policy = p => command[i].ver <= accepted[p]
      BY <2>2 DEF Confirmed
    <3>3. \A p \in Policy : command[i].policy = p => command[i].ver <= accepted'[p]
      BY <1>3, <3>1, <3>2
    <3> QED
      BY <3>1, <3>3 DEF Confirmed
  <2>3. ASSUME KnownPush(m.id), accepted' = [accepted EXCEPT ![m.policy] = m.ver]
        PROVE  Confirmed(command[m.id])'
    <3>1. SameId(m.id, m)
      BY <2>3 DEF VInv, Remembered, Push
    <3>2. accepted' = [accepted EXCEPT ![m.policy] = m.ver] /\ accepted \in [Policy -> Nat]
      BY <2>3, Versions
    <3>3. \A p \in Policy : command[m.id].policy = p => command[m.id].ver <= accepted'[p]
      BY <1>1, <3>1, <3>2 DEF SameId
    <3>4. command' = command
      OBVIOUS
    <3> QED
      BY <3>3, <3>4 DEF Confirmed
  <2>4. ASSUME NEW n \in DOMAIN up', up'[n].success, KnownPush(up[n].id)'
        PROVE  Confirmed(command[up[n].id])'
    <3>1. up \in Seq(Ack)
      BY DEF IInv, LinkTypes
    <3>2. \/ n \in DOMAIN up /\ up'[n] = up[n]
          \/ up'[n].id = m.id /\ accepted' = [accepted EXCEPT ![m.policy] = m.ver]
      <4>1. ASSUME NEW ack, up' = Append(up, ack)
            PROVE  (n \in DOMAIN up /\ up'[n] = up[n]) \/ up'[n] = ack
        BY <2>4, <3>1, <4>1
      <4>2. CASE up' = Append(up, [id |-> m.id, success |-> FALSE])
        <5>1. (n \in DOMAIN up /\ up'[n] = up[n]) \/ up'[n] = [id |-> m.id, success |-> FALSE]
          BY <4>1, <4>2
        <5> QED
          BY <2>4, <5>1
      <4>3. CASE up' = Append(up, [id |-> m.id, success |-> TRUE]) /\ accepted' = [accepted EXCEPT ![m.policy] = m.ver]
        <5>1. (n \in DOMAIN up /\ up'[n] = up[n]) \/ up'[n] = [id |-> m.id, success |-> TRUE]
          BY <4>1, <4>3
        <5> QED
          BY <4>3, <5>1
      <4> QED
        BY <2>4, <4>2, <4>3
    <3>3. CASE n \in DOMAIN up /\ up'[n] = up[n]
      <4>1. up[n].id \in PushId
        <5>1. up[n] \in Ack
          BY <3>1, <3>3
        <5> QED
          BY <5>1 DEF Ack
      <4>2. KnownPush(up[n].id) /\ up[n].success
        BY <2>4, <3>3 DEF KnownPush, Active
      <4>3. PICK i \in PushId : i = up[n].id /\ Confirmed(command[i])
        BY <3>3, <4>1, <4>2 DEF VInv, Remembered
      <4> QED
        BY <2>2, <3>3, <4>3 DEF Confirmed
    <3>4. CASE up'[n].id = m.id /\ accepted' = [accepted EXCEPT ![m.policy] = m.ver]
      <4>1. KnownPush(m.id)
        BY <2>4, <3>4 DEF KnownPush, Active
      <4> QED
        BY <2>3, <3>4, <4>1 DEF Confirmed
    <3> QED
      BY <3>2, <3>3, <3>4
  <2>5. ASSUME NEW g \in Goroutine, At(g, "synced")' PROVE Confirmed(run[g])'
    <3>1. run' = run /\ run[g].ver \in Int /\ accepted \in [Policy -> Nat]
      BY Versions
    <3>2. Confirmed(run[g])
      BY <2>5, <3>1 DEF VInv, Remembered, At
    <3> QED
      BY ONLY <1>3, <3>1, <3>2 DEF Confirmed
  <2> QED
    BY <2>1, <2>4, <2>5 DEF Remembered
<1>11. SyncedIsAccepted'
  <2> SUFFICES ASSUME NEW p \in Policy, row[p].synced PROVE accepted'[p] = row[p].ver
    BY DEF SyncedIsAccepted
  <2>1. accepted[p] = row[p].ver
    BY DEF VInv, SyncedIsAccepted
  <2>2. CASE accepted'[p] = accepted[p]
    BY <2>1, <2>2
  <2>3. CASE p = m.policy /\ accepted'[p] = m.ver
    <3>1. row[p] # NoRow
      BY DEF NoRow
    <3>2. Sent(p, row[p].ver)
      BY <3>1 DEF VInv, Bounded, AtMost
    <3>3. m.ver <= row[p].ver
      BY <1>5, <2>3, <3>2, Versions
    <3>4. accepted[p] <= m.ver
      BY <1>2, <2>3 DEF Held
    <3> QED
      BY <1>1, <2>1, <2>3, <3>3, <3>4, Versions
  <2> QED
    BY <1>1, <2>2, <2>3, Versions
<1> QED
  BY <1>3, <1>8, <1>9, <1>10, <1>11 DEF VInv

\* The version the agent takes was at the head of the connection: nothing is before it.
LEMMA AcceptVersions ==
  ASSUME IInv, VInv, IInv', AcceptPush
  PROVE  VInv'
<1> DEFINE m == Head(down)
<1>1. /\ m \in Push /\ 1 \in DOMAIN down /\ m = down[1] /\ down' = Tail(down)
      /\ \A n \in DOMAIN down' : n + 1 \in DOMAIN down /\ down'[n] = down[n + 1]
  <2>1. Message("policy_push")
    BY DEF AcceptPush
  <2>2. down \in Seq(Push \cup Reconcile) /\ down # <<>> /\ down' = Tail(down)
    BY <2>1 DEF AcceptPush, IInv, LinkTypes, Message
  <2> QED
    BY <2>1, <2>2, Received
<1>2. /\ agent' = PushAccepted(agent, m) /\ accepted' = [accepted EXCEPT ![m.policy] = m.ver]
      /\ up' = Append(up, [id |-> m.id, success |-> TRUE])
      /\ UNCHANGED <<row, command, tracker, clock, run>>
  BY DEF AcceptPush, Answer
<1> HIDE DEF m
<1>3. \A p \in Policy :
        agent'.store[p] \in {agent.store[p], None, Torn} \/ (p = m.policy /\ agent'.store[p] = m.ver)
  <2>1. agent \in AgentState
    BY DEF IInv
  <2>2. agent'.store = [agent.store EXCEPT ![m.policy] = m.ver]
    BY <1>2, <2>1 DEF PushAccepted, SavePolicy, UpdateSchedule, Committed, CommitConf, CommitPassword, AgentState
  <2> QED
    BY <2>1, <2>2 DEF AgentState
<1> QED
  BY <1>1, <1>2, <1>3, Reaches

\* An agent that stops while it handles a push may have written the file, or torn it.
LEMMA InterruptVersions ==
  ASSUME IInv, VInv, IInv', InterruptPush
  PROVE  VInv'
<1> DEFINE m == Head(down)
<1>1. m \in Push /\ 1 \in DOMAIN down /\ m = down[1]
  <2>1. Message("policy_push") /\ down \in Seq(Push \cup Reconcile) /\ down # <<>>
    BY DEF InterruptPush, IInv, LinkTypes, Message
  <2>2. Head(down) \in Push \cup Reconcile /\ 1 \in DOMAIN down /\ Head(down) = down[1]
    BY <2>1
  <2> QED
    BY <2>1, <2>2 DEF Message, Reconcile
<1>2. PICK disk \in PushInterrupted(agent, m) :
        /\ agent' = RestoreSavedPolicySchedule(disk) /\ down' = <<>> /\ up' = <<>>
        /\ UNCHANGED <<row, command, tracker, clock, run, accepted>>
  BY DEF InterruptPush, AgentRestarts
<1> HIDE DEF m
<1>3. agent \in AgentState
  BY DEF IInv
<1>4. /\ disk \in AgentState
      /\ \A p \in Policy :
           disk.store[p] \in {agent.store[p], Torn} \/ (p = m.policy /\ disk.store[p] = m.ver)
  BY <1>1, <1>3, InterruptedKeeps
<1>5. agent'.store = disk.store
  BY <1>2, <1>4 DEF RestoreSavedPolicySchedule, AgentState
<1>6. \A p \in Policy :
        agent'.store[p] \in {agent.store[p], None, Torn} \/ (p = m.policy /\ agent'.store[p] = m.ver)
  BY <1>4, <1>5
<1>7. \A n \in DOMAIN down' : n + 1 \in DOMAIN down /\ down'[n] = down[n + 1]
  BY <1>2
<1> QED
  BY <1>1, <1>2, <1>6, <1>7, Reaches

\* A rollback that fails leaves the version of the push, or a torn file.
LEMMA RollbackVersions ==
  ASSUME IInv, VInv, IInv', RollbackFails
  PROVE  VInv'
<1> DEFINE m == Head(down)
<1>1. m \in Push /\ Unrestored(agent', agent, m)
  BY RollbackKeeps
<1>2. /\ 1 \in DOMAIN down /\ m = down[1]
      /\ \A n \in DOMAIN down' : n + 1 \in DOMAIN down /\ down'[n] = down[n + 1]
  <2>1. down \in Seq(Push \cup Reconcile) /\ down # <<>> /\ down' = Tail(down)
    BY DEF RollbackFails, IInv, LinkTypes, Message
  <2> QED
    BY <2>1
<1>3. /\ UNCHANGED <<row, command, tracker, clock, run, accepted>>
      /\ up' = Append(up, [id |-> m.id, success |-> FALSE])
  BY DEF RollbackFails, Answer, masterVars
<1> HIDE DEF m
<1>4. \A p \in Policy :
        agent'.store[p] \in {agent.store[p], None, Torn} \/ (p = m.policy /\ agent'.store[p] = m.ver)
  BY <1>1 DEF Unrestored
<1> QED
  BY <1>1, <1>2, <1>3, <1>4, Reaches

\* A refused push and a reconciliation give the agent no version.
LEMMA KeptVersions ==
  ASSUME IInv, VInv, IInv', RefusePush \/ ReceiveReconcile
  PROVE  VInv' /\ StoreShrinks
<1>1. /\ down \in Seq(Push \cup Reconcile) /\ down # <<>> /\ down' = Tail(down)
      /\ UNCHANGED <<row, command, tracker, clock, run, accepted>>
      /\ agent \in AgentState /\ up \in Seq(Ack)
  BY DEF RefusePush, ReceiveReconcile, masterVars, Message, IInv, LinkTypes
<1>2. DownShrinks
  <2>1. \A n \in DOMAIN down' : n + 1 \in DOMAIN down /\ down'[n] = down[n + 1]
    BY <1>1
  <2> QED
    BY ONLY <2>1, 1 \in Nat DEF DownShrinks
<1>3. UpShrinks
  <2>1. CASE up' = up
    BY <2>1 DEF UpShrinks
  <2>2. CASE RefusePush
    <3> DEFINE a == [id |-> Head(down).id, success |-> FALSE]
    <3>1. up' = Append(up, a) /\ a.success = FALSE
      BY <2>2 DEF RefusePush, Answer
    <3> HIDE DEF a
    <3>2. \A n \in DOMAIN up' : (n \in DOMAIN up /\ up'[n] = up[n]) \/ up'[n] = a
      BY <1>1, <3>1
    <3> QED
      BY <3>1, <3>2 DEF UpShrinks
  <2> QED
    BY <2>1, <2>2 DEF ReceiveReconcile
<1>4. StoreShrinks
  <2>1. CASE RefusePush
    <3>1. Head(down) \in Push
      BY <1>1, <2>1, Received DEF RefusePush
    <3>2. agent'.store = agent.store
      BY <1>1, <2>1, <3>1, RefusedKeeps DEF RefusePush
    <3> QED
      BY <3>2, SameStore
  <2>2. CASE ReceiveReconcile
    <3> DEFINE keep == Head(down).keep
    <3>1. agent' = HandlePolicyReconcile(agent, keep)
      BY <2>2 DEF ReceiveReconcile
    <3> HIDE DEF keep
    <3> QED
      BY <1>1, <3>1 DEF HandlePolicyReconcile, StoreShrinks, AgentState
  <2> QED
    BY <2>1, <2>2
<1>5. RunsShrink
  BY <1>1 DEF RunsShrink, At, VInv, Remembered
<1> QED
  BY <1>1, <1>2, <1>3, <1>4, <1>5, SameCommands, SameRows, Shrinks

LEMMA VersionsFirst == Init => VInv
<1> SUFFICES ASSUME Init PROVE VInv
  OBVIOUS
<1>1. /\ accepted = NoVersion /\ agent.store = NoVersion /\ down = <<>> /\ up = <<>> /\ clock = 1
      /\ command = [i \in PushId |-> NoCommand] /\ run = [g \in Goroutine |-> Idle] /\ tracker = {}
      /\ row = [p \in Policy |-> IF p \in Existing THEN [ver |-> 1, synced |-> FALSE] ELSE NoRow]
  BY DEF Init, AgentInit
<1>2. /\ \A i \in PushId : ~Active(i)
      /\ \A g \in Goroutine : ~At(g, "ensure") /\ ~At(g, "synced")
  BY <1>1 DEF Active, NoCommand, At, Idle
<1>3. \A p \in Policy : /\ accepted[p] = 0 /\ agent.store[p] = 0 /\ ~row[p].synced
                        /\ row[p] # NoRow => row[p].ver = 1
  BY <1>1 DEF NoVersion, None, NoRow
<1>4. \A p \in Policy, x \in Nat : AtMost(p, x)
  BY <1>1, <1>2, <1>3 DEF AtMost, Sent, Held, Pending, Ensuring
<1>5. Bounded
  BY <1>1, <1>3, <1>4 DEF Bounded
<1>6. Ordered /\ Remembered /\ SyncedIsAccepted
  BY <1>1, <1>2, <1>3 DEF Ordered, Remembered, Pending, Ensuring, SyncedIsAccepted
<1>7. accepted \in [Policy -> Nat]
  BY <1>1 DEF NoVersion, None
<1> QED
  BY <1>5, <1>6, <1>7 DEF VInv

\* One step of the whole system.
LEMMA VersionsStep == ASSUME IInv, VInv, IInv', [Next]_vars PROVE VInv'
<1>1. CASE UNCHANGED vars
  <2>1. UNCHANGED <<agent, row, command, tracker, clock, run, down, up, accepted>>
    BY <1>1 DEF vars, masterVars, linkVars
  <2>2. RunsShrink
    BY <2>1 DEF RunsShrink, At, VInv, Remembered
  <2> QED
    BY <2>1, <2>2, SameLink, SameCommands, SameRows, SameStore, Shrinks
<1>2. ASSUME NEW g \in Request, EditStep(g) PROVE VInv'
  BY <1>2, EditVersions DEF Goroutine
<1>3. ASSUME NEW g \in Reader, AckStep(g) \/ Connect(g) \/ Heartbeat(g) PROVE VInv'
  BY <1>3, AckVersions, SyncedVersions, ConnectVersions, HeartbeatVersions DEF AckStep, Goroutine
<1>4. ASSUME NEW g \in Goroutine, PusherStep(g) PROVE VInv'
  BY <1>4, QuietVersions, ReconcileVersions, LookupVersions, EnsureVersions, SendVersions DEF PusherStep
<1>5. CASE AgentStep
  BY <1>5, AcceptVersions, KeptVersions DEF AgentStep
<1>6. CASE Fault
  BY <1>6, FaultVersions, InterruptVersions, RollbackVersions DEF Fault
<1> QED
  BY <1>1, <1>2, <1>3, <1>4, <1>5, <1>6 DEF Next

LEMMA VersionsHold == Spec => [](IInv /\ VInv)
BY InvHolds, VersionsFirst, VersionsStep, PTL DEF Spec

\* A policy is shown as synced only with the version that the agent accepted last
\* (policy_pusher.go and router.go: NewPolicyAckProcessor compares updated_at).
THEOREM SyncedCorrect == Spec => []SyncedIsAccepted
<1>1. VInv => SyncedIsAccepted
  BY DEF VInv
<1> QED
  BY <1>1, VersionsHold, PTL

\* A step of the agent's files is an accepted or an interrupted push, whose version is at
\* least the one there, or takes a version away.
LEMMA StoreGrows ==
  ASSUME IInv, VInv, IInv', [Next]_vars, NEW p \in Policy,
         agent.store[p] > None, agent'.store[p] > None
  PROVE  agent'.store[p] >= agent.store[p]
<1>1. /\ None = 0 /\ Torn = -1 /\ agent \in AgentState /\ agent.store \in [Policy -> Int]
  BY DEF None, Torn, IInv, AgentState
<1>2. StoreShrinks => agent'.store[p] >= agent.store[p]
  BY <1>1 DEF StoreShrinks
<1>3. ASSUME NEW m, m \in Push, 1 \in DOMAIN down, m = down[1],
             agent'.store[p] \in {agent.store[p], Torn} \/ (p = m.policy /\ agent'.store[p] = m.ver)
      PROVE  agent'.store[p] >= agent.store[p]
  <2>1. Carries(1, m.policy) /\ m.policy \in Policy
    BY <1>3 DEF Carries, Push
  <2>2. Held(m.policy, m.ver)
    BY <1>3, <2>1 DEF VInv, Ordered
  <2> QED
    BY <1>1, <1>3, <2>2 DEF Held
<1>4. ASSUME Message("policy_push")
      PROVE  Head(down) \in Push /\ 1 \in DOMAIN down /\ Head(down) = down[1]
  <2>1. down \in Seq(Push \cup Reconcile) /\ down # <<>>
    BY <1>4 DEF IInv, LinkTypes, Message
  <2>2. Head(down) \in Push \cup Reconcile /\ 1 \in DOMAIN down /\ Head(down) = down[1]
    BY <2>1
  <2> QED
    BY <1>4, <2>2 DEF Message, Reconcile
<1>5. CASE AcceptPush
  <2> DEFINE m == Head(down)
  <2>1. m \in Push /\ 1 \in DOMAIN down /\ m = down[1] /\ agent' = PushAccepted(agent, m)
    BY <1>4, <1>5 DEF AcceptPush
  <2> HIDE DEF m
  <2>2. agent'.store = [agent.store EXCEPT ![m.policy] = m.ver]
    BY <1>1, <2>1 DEF PushAccepted, SavePolicy, UpdateSchedule, Committed, CommitConf, CommitPassword, AgentState
  <2>3. agent'.store[p] = agent.store[p] \/ (p = m.policy /\ agent'.store[p] = m.ver)
    BY <1>1, <2>2
  <2> QED
    BY <1>3, <2>1, <2>3
<1>6. CASE InterruptPush
  <2> DEFINE m == Head(down)
  <2>1. m \in Push /\ 1 \in DOMAIN down /\ m = down[1]
    BY <1>4, <1>6 DEF InterruptPush
  <2>2. PICK disk \in PushInterrupted(agent, m) : agent' = RestoreSavedPolicySchedule(disk)
    BY <1>6 DEF InterruptPush, AgentRestarts
  <2> HIDE DEF m
  <2>3. /\ disk \in AgentState
        /\ disk.store[p] \in {agent.store[p], Torn} \/ (p = m.policy /\ disk.store[p] = m.ver)
    BY <1>1, <2>1, InterruptedKeeps
  <2>4. agent'.store = disk.store
    BY <2>2, <2>3 DEF RestoreSavedPolicySchedule, AgentState
  <2> QED
    BY <1>3, <2>1, <2>3, <2>4
<1>7. CASE RefusePush \/ ReceiveReconcile
  BY <1>2, <1>7, KeptVersions
<1>8. CASE AgentRestart
  <2>1. agent'.store = agent.store
    BY <1>1, <1>8 DEF AgentRestart, AgentRestarts, RestoreSavedPolicySchedule, AgentState
  <2> QED
    BY <1>2, <2>1, SameStore
<1>12. CASE RollbackFails
  <2> DEFINE m == Head(down)
  <2>1. m \in Push /\ 1 \in DOMAIN down /\ m = down[1]
    BY <1>4, <1>12 DEF RollbackFails
  <2>2. Unrestored(agent', agent, m)
    BY <1>12, RollbackKeeps
  <2> HIDE DEF m
  <2>3. agent'.store[p] \in {agent.store[p], Torn} \/ (p = m.policy /\ agent'.store[p] = m.ver)
    BY <2>2 DEF Unrestored
  <2> QED
    BY <1>3, <2>1, <2>3
<1>9. CASE UNCHANGED agent
  BY <1>2, <1>9, SameStore
<1>10. ASSUME NEW g \in Goroutine, EditStep(g) \/ AckStep(g) \/ Connect(g) \/ Heartbeat(g) \/ PusherStep(g)
       PROVE  UNCHANGED agent
  <2>1. EditStep(g) => UNCHANGED agent
    BY DEF EditStep, CreatePolicy, ReadPolicy, DeletePolicy, UpdatePolicy, RejectUpdate, StorageUpdated, EditKeeps
  <2>2. PusherStep(g) => UNCHANGED agent
    BY DEF PusherStep, Pluck, SendPolicyReconcile, LookupCommand, EnsureDurableCommand, TakeDispatch,
           SendPush, EndDispatch, PushKeeps
  <2>3. AckStep(g) \/ Connect(g) \/ Heartbeat(g) => UNCHANGED agent
    BY DEF AckStep, PolicyAck, MarkSynced, Connect, Heartbeat
  <2> QED
    BY <1>10, <2>1, <2>2, <2>3
<1>11. (\E i \in PushId : ExpirePush(i)) \/ Disconnect \/ MasterRestart \/ UNCHANGED vars => UNCHANGED agent
  BY DEF ExpirePush, Disconnect, MasterRestart, vars
<1> QED
  BY <1>5, <1>6, <1>7, <1>8, <1>9, <1>10, <1>11, <1>12 DEF Next, AgentStep, Fault, Goroutine

\* Pushes of several goroutines, redelivered, interrupted or from before a restart, never
\* replace a version on the agent by an older one (handler.go, handlePolicyPush).
THEOREM AgentCorrect == Spec => AgentNeverGoesBack
<1> DEFINE Grows == \A p \in Policy : agent.store[p] > None /\ agent'.store[p] > None
                                       => agent'.store[p] >= agent.store[p]
<1>1. IInv /\ VInv /\ IInv' /\ [Next]_vars => Grows
  BY StoreGrows
<1>2. IInv /\ VInv /\ IInv' /\ [Next]_vars => [Grows]_vars
  BY <1>1
<1> HIDE DEF Grows
<1>3. Spec => [][Grows]_vars
  BY <1>2, VersionsHold, PTL DEF Spec
<1> QED
  BY <1>3 DEF AgentNeverGoesBack, Grows
===============================================================================
