----------------------------- MODULE PolicyStore -----------------------------
(***************************************************************************)
(* The policies an agent keeps: handlePolicyPush with its staged files and *)
(* their rollback, handlePolicyReconcile and restoreSavedPolicySchedule    *)
(* (internal/agent/handler.go), the policy files (policy/store.go) and the *)
(* cron jobs (scheduler/scheduler.go).                                     *)
(*                                                                         *)
(* A policy has a file and a job each, but rclone.conf and .restic-password *)
(* are one file for all of them.  A policy is told apart by the version    *)
(* that the Master gave it.  The state of the agent is one record, and     *)
(* each stage of a push is a function of it: a stage may fail, or the      *)
(* agent stop in it, and every such end is an element of PushEnds.         *)
(***************************************************************************)
EXTENDS Integers

CONSTANTS
  Policy,     \* the policies of the agent
  PlainPolicy \* those without a restic password

None == 0     \* no version
Torn == -1    \* a policy file that the agent could not write to its end
NoPolicy == "none"

ASSUME PlainAssumption == PlainPolicy \subseteq Policy /\ NoPolicy \notin Policy

VARIABLE
  agent       \* store: policies/<id>.json, the version in it
              \* jobs: the cron jobs, the version their closure holds
              \* conf: rclone.conf, the storage of which policy and version
              \* password: .restic-password, the password of which policy
              \* unrestored: history, the policies whose file a rollback did not bring back

NoVersion == [p \in Policy |-> None]
AgentInit ==
  agent = [store |-> NoVersion, jobs |-> NoVersion,
           conf |-> [policy |-> NoPolicy, ver |-> None], password |-> NoPolicy,
           unrestored |-> {}]

\* LoadPolicies returns the first error: one torn file hides all policies.
LoadFails(a) == \E p \in Policy : a.store[p] = Torn

-----------------------------------------------------------------------------
\* handlePolicyPush of m = [policy, ver].  The Master validates schedules with
\* the parser of the agent, so only files can fail.

Plain(m) == m.policy \in PlainPolicy
\* The rename of rclone.conf, and of the password file, which a plain policy removes.
CommitConf(a, m) == [a EXCEPT !.conf = [policy |-> m.policy, ver |-> m.ver]]
CommitPassword(a, m) == [a EXCEPT !.password = IF Plain(m) THEN NoPolicy ELSE m.policy]
SavePolicy(a, m) == [a EXCEPT !.store[m.policy] = m.ver]
\* The jobs of the backup and of its verification.
UpdateSchedule(a, m) == [a EXCEPT !.jobs[m.policy] = m.ver]

RestoreConfigMutant(b, a) == [b EXCEPT !.password = a.password]
\* policyRollbackState remembers the state a before the push.
RestoreConfig(b, a) == [b EXCEPT !.conf = a.conf, !.password = a.password]
RestorePolicy(b, a, m) == [b EXCEPT !.store[m.policy] = a.store[m.policy]]
\* stagedFiles.cleanup runs after the rollback.  What a plain policy staged is the
\* path of the password file itself, which only a finished commit forgets.
StagedCleanup(b, m) == {b} \cup IF Plain(m) THEN {[b EXCEPT !.password = NoPolicy]} ELSE {}

Committed(a, m) == CommitPassword(CommitConf(a, m), m)

\* A write that fails leaves the file whole, torn or as it was.
Written(a, m) ==
  {Committed(a, m), SavePolicy(Committed(a, m), m), [Committed(a, m) EXCEPT !.store[m.policy] = Torn]}

\* How a push can be refused, and what is left when its rollback succeeds.
PushRefused(a, m) ==
  LET half == CommitConf(a, m)
  IN {a}                                          \* snapshot or staging
     \cup StagedCleanup(RestoreConfig(a, a), m) \cup StagedCleanup(RestoreConfig(half, a), m)
     \cup {RestorePolicy(RestoreConfig(b, a), a, m) : b \in Written(a, m)}

\* A rollback is not checked: restoreConfig and restorePolicy only log what fails.  A rename
\* or a removal that fails leaves what the push wrote.  SavePolicy truncates the file first,
\* so on the full disk that refused the push it may leave it torn.
RestoreConfigEnds(b, a) ==
  {[b EXCEPT !.conf = c, !.password = w] : c \in {a.conf, b.conf}, w \in {a.password, b.password}}
PolicyLeft(b, a, p, v) ==
  [b EXCEPT !.store[p] = v, !.unrestored = IF v = a.store[p] THEN @ ELSE @ \cup {p}]
RestorePolicyEnds(b, a, m) ==
  LET p == m.policy
  IN {PolicyLeft(b, a, p, v) : v \in {a.store[p], b.store[p]} \cup IF a.store[p] = None THEN {} ELSE {Torn}}

\* What a refused push leaves when parts of its rollback fail.
PushUnrestored(a, m) ==
  LET Uncommitted == RestoreConfigEnds(CommitConf(a, m), a)
      Unsaved == UNION {RestoreConfigEnds(b, a) : b \in Written(a, m)}
  IN UNION ({StagedCleanup(b, m) : b \in Uncommitted} \cup {RestorePolicyEnds(b, a, m) : b \in Unsaved})

\* A policy file that does not parse cannot be snapshot: no push replaces it.
SnapshotFails(a, m) == a.store[m.policy] = Torn

PushAccepted(a, m) ==
  [UpdateSchedule(SavePolicy(Committed(a, m), m), m) EXCEPT !.unrestored = @ \ {m.policy}]

\* The disk when the agent stops before the end of a push.
PushInterrupted(a, m) ==
  {a, CommitConf(a, m)} \cup Written(a, m)

-----------------------------------------------------------------------------
\* handlePolicyReconcile: every stored policy that the list does not have loses
\* its jobs and its file.
HandlePolicyReconcile(a, keep) ==
  LET stale == {p \in Policy \ keep : a.store[p] # None}
      Without(f) == [p \in Policy |-> IF p \in stale THEN None ELSE f[p]]
  IN IF LoadFails(a) THEN a ELSE [a EXCEPT !.store = Without(@), !.jobs = Without(@),
                                              !.unrestored = @ \ stale]

\* restoreSavedPolicySchedule in a new process schedules what LoadPolicies returns.
RestoreSavedPolicySchedule(a) ==
  [a EXCEPT !.jobs = IF LoadFails(a) THEN NoVersion ELSE a.store, !.unrestored = {}]

\* NewExecutor decides by the policy and by the file, whosever password it is.
UsePlain(a, p) == p \in PlainPolicy \/ a.password = NoPolicy

-----------------------------------------------------------------------------
AgentTypeOK ==
  /\ DOMAIN agent.store = Policy /\ DOMAIN agent.jobs = Policy /\ agent.unrestored \subseteq Policy
  /\ agent.password \in Policy \cup {NoPolicy} /\ agent.conf.policy \in Policy \cup {NoPolicy}

\* The jobs hold exactly the versions in the policy files, through pushes that fail at any
\* stage, reconciliations and restarts: no job runs a policy that was rolled back or
\* removed.  Two exceptions: a torn file hides every other file from the next start, and
\* a rollback that fails (handler.go:661-671) leaves the file of its own policy changed
\* until the next push, reconciliation or start.
JobsMatchFiles ==
  LoadFails(agent) \/ \A p \in Policy \ agent.unrestored : agent.jobs[p] = agent.store[p]

\* README.md:23, "restic 加密仓库：每台 Agent 使用独立 restic 仓库密码": a policy with a password
\* is never backed up without one.  NewExecutor falls back to the plain runner when the
\* file is missing, and the push of a plain policy removes it.
EncryptedStaysEncrypted ==
  \A p \in Policy \ PlainPolicy : agent.jobs[p] \notin {None, Torn} => ~UsePlain(agent, p)
=============================================================================
