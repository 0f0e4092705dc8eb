----------------------------- MODULE BackupJob ------------------------------
(***************************************************************************)
(* A backup and a verification on the agent, from the accepted command to  *)
(* the result it sends: runBackupForPolicy and runBackupVerificationForPo- *)
(* licy (internal/agent/handler.go), the executor with its restic and      *)
(* plain runners, RunVerificationJob, docker.Resolve and manifest.Build.   *)
(*                                                                         *)
(* One job runs at a time.  Every external command (restic, rclone, docker *)
(* API, hooks, dumps) ends well or badly, and badly once the context is    *)
(* done; what a command that fails leaves behind is any of what it could.  *)
(* The agent may stop at any point.                                        *)
(***************************************************************************)
EXTENDS ArchiveJob

CONSTANTS
  Container,  \* the containers that may run on the host
  MaxJobs,    \* bound: jobs started
  MaxDate     \* bound: days they are started on, two times each

ASSUME JobAssumption ==
  /\ MaxJobs \in Nat /\ MaxDate \in Nat
  /\ \A p \in Policy : p.keepLast \in Nat

VARIABLES
  step,          \* where the job is
  kind,          \* "backup" or "verify"
  jobs,          \* jobs started so far
  timedOut,      \* the deadline of a verification passed
  status,        \* result.Status
  hooks,         \* hooks of this job that ended well
  manifestStage, \* the staging directory of the manifest exists
  manifest,      \* paths that the manifest lists
  todo,          \* directories that the plain runner has not copied
  repo,          \* the restic repository is initialized
  snapshots,     \* its snapshots
  data,          \* plain backup: what is under data/, and of which job
  marker,        \* plain backup: .vaultfleet-backup-meta
  checks,        \* verification: status of each check made
  tempDir,       \* the directory of the sample restore exists
  left           \* an agent that stopped left staging directories behind

destVars == <<repo, snapshots, data, marker>>
jobVars == <<kind, jobs, now, policy>>
workVars == <<hooks, manifestStage, manifest, todo, checks, tempDir, backupDirs, container>>
vars == <<dumpVars, archiveVars, destVars, jobVars, workVars, step, cancelled, timedOut,
          status, left>>

Steps == {"idle", "conf", "resolve", "prehook", "dumps", "manifest", "archive", "init", "backup",
          "marker", "forget", "list", "size", "verdict", "posthook", "send", "cleanup",
          "vconf", "vlist", "vcheck", "vls", "vsample", "vrestore", "vremove", "vverdict"}
Staging == stage \/ manifestStage \/ tempDir

Archive == policy.mode = "archive"
Plain == policy.plain
ContextDone == cancelled \/ timedOut

Later(a, b) == a.date > b.date \/ (a.date = b.date /\ a.time > b.time)

\* Paths of files in the staging directories of a job: new in every job.
StagedDump(name) == [made |-> now, file |-> name]
StagedManifest == [made |-> now, file |-> <<"manifest">>]
DumpPaths == {StagedDump(dumps[i].name) : i \in DOMAIN dumps}

-----------------------------------------------------------------------------
\* docker.Resolve: which container a source means, and its paths.

UniqueOrNone(S) == IF Cardinality(S) = 1 THEN S ELSE {}
MatchContainer(s, running) ==
  LET byID == {c \in running : s.id # "" /\ c.id = s.id}
      byCompose == {c \in running : s.service # "" /\ c.service = s.service}
      byName == {c \in running : s.name # "" /\ c.name = s.name}
  IN IF byID # {} THEN byID
     ELSE IF byCompose # {} THEN UniqueOrNone(byCompose) ELSE UniqueOrNone(byName)

\* Mounts must be readable; a compose file that is not only gives a warning.
ResolveInspect(s, c, unreadable) ==
  (IF s.binds THEN c.binds ELSE {}) \cup (IF s.volumes THEN c.volumes ELSE {})
  \cup (IF s.compose THEN c.compose \ unreadable ELSE {})

NoName == [path |-> <<>>, warned |-> FALSE]

-----------------------------------------------------------------------------
TypeOK ==
  /\ step \in Steps /\ kind \in {"backup", "verify"} /\ jobs \in 0..MaxJobs
  /\ cancelled \in BOOLEAN /\ timedOut \in BOOLEAN /\ left \in BOOLEAN
  /\ status \in {"failed", "success", "cancelled"}
  /\ hooks \subseteq {"pre", "post"}
  /\ dumpStep \in DumpSteps /\ archStep \in ArchSteps
  /\ {stage, secret, manifestStage, tempDir, repo} \subseteq BOOLEAN
  /\ policy \in Policy

Init ==
  /\ policy \in Policy
  /\ step = "idle" /\ kind = "backup" /\ jobs = 0 /\ now = [date |-> 0, time |-> 0]
  /\ cancelled = FALSE /\ timedOut = FALSE /\ status = "failed" /\ left = FALSE
  /\ dumpStep = "idle" /\ sources = <<>> /\ databases = <<>> /\ stage = FALSE
  /\ files = <<>> /\ secret = FALSE /\ dumps = <<>>
  /\ archStep = "idle" /\ naming = NoName /\ walk = {}
  /\ planned = <<>> /\ missed = {} /\ missedLate = {} /\ toWrite = {} /\ artifact = <<>>
  /\ done = 0 /\ total = 0 /\ torn = FALSE /\ remote = <<>>
  /\ hooks = {} /\ manifestStage = FALSE /\ manifest = {} /\ todo = {} /\ checks = <<>>
  /\ tempDir = FALSE /\ backupDirs = {} /\ container = ""
  /\ repo \in BOOLEAN /\ snapshots = {} /\ data = <<>> /\ marker = [made |-> now, dirs |-> {}]

\* A command or a cron job.  Results are told apart by their start.
StartJob ==
  /\ step = "idle" /\ jobs < MaxJobs
  /\ \E k \in {"backup", "verify"}, t \in [date : 0..MaxDate, time : 0..1] :
       /\ Later(t, now) \/ jobs = 0
       /\ kind' = k /\ now' = t
       /\ step' = IF k = "backup" THEN "conf" ELSE "vconf"
  /\ jobs' = jobs + 1 /\ cancelled' = FALSE /\ timedOut' = FALSE /\ status' = "failed"
  /\ hooks' = {} /\ manifest' = {} /\ todo' = {} /\ checks' = <<>> /\ backupDirs' = {}
  /\ container' = "" /\ dumpStep' = "idle" /\ sources' = <<>> /\ databases' = <<>> /\ dumps' = <<>>
  /\ archStep' = "idle" /\ naming' = NoName /\ walk' = {} /\ planned' = <<>> /\ missed' = {}
  /\ missedLate' = {} /\ toWrite' = {} /\ artifact' = <<>> /\ done' = 0 /\ total' = 0 /\ torn' = FALSE
  /\ UNCHANGED <<policy, destVars, stage, files, secret, remote, manifestStage, tempDir, left>>

Cancel ==
  /\ step # "idle" /\ ~ContextDone /\ cancelled' = TRUE
  /\ UNCHANGED <<dumpVars, archiveVars, destVars, jobVars, workVars, step, timedOut, status, left>>

Timeout ==
  /\ kind = "verify" /\ step # "idle" /\ policy.timeout /\ ~ContextDone /\ timedOut' = TRUE
  /\ UNCHANGED <<dumpVars, archiveVars, destVars, jobVars, workVars, step, cancelled, status, left>>

\* The process ends; its staging directories stay on the disk.
Crash ==
  /\ step # "idle" /\ step' = "idle"
  /\ left' = (left \/ Staging)
  /\ CleanupDumps /\ manifestStage' = FALSE /\ tempDir' = FALSE
  /\ dumpStep' = "idle" /\ archStep' = "idle"
  /\ UNCHANGED <<sources, databases, dumps, naming, walk, planned, missed, missedLate, toWrite,
                 artifact, done, total, torn, remote, destVars, jobVars, hooks, manifest, todo,
                 checks, backupDirs, container, cancelled, timedOut, status>>

-----------------------------------------------------------------------------
\* runBackupForPolicy.  A job fails with status "failed", which it starts with.
Kept == UNCHANGED <<jobVars, cancelled, timedOut, left>>

EnsureRcloneConf ==
  /\ step = "conf" /\ step' \in {"resolve", "send"}
  /\ Kept /\ UNCHANGED <<dumpVars, archiveVars, destVars, workVars, status>>

ResolvePolicyBackupSources ==
  /\ step = "resolve"
  /\ \/ /\ policy.containers = <<>> /\ step' = "prehook"
        /\ backupDirs' = policy.paths /\ UNCHANGED container
     \/ /\ policy.containers # <<>> /\ step' = "send" /\ UNCHANGED <<backupDirs, container>>
     \/ /\ policy.containers # <<>> /\ ~cancelled /\ step' = "prehook"
        /\ \E running \in SUBSET Container, unreadable \in SUBSET File :
             LET match == [i \in DOMAIN policy.containers |->
                             MatchContainer(policy.containers[i], running)]
                 of(i) == CHOOSE c \in match[i] : TRUE
                 paths == [i \in DOMAIN match |->
                             ResolveInspect(policy.containers[i], of(i), unreadable)]
             IN /\ \A i \in DOMAIN match : match[i] # {}
                /\ \A i \in DOMAIN match : paths[i] # {}
                /\ backupDirs' = policy.paths \cup UNION {paths[i] : i \in DOMAIN match}
                /\ container' = of(1).name
  /\ Kept
  /\ UNCHANGED <<dumpVars, archiveVars, destVars, hooks, manifestStage, manifest, todo, checks,
                 tempDir, status>>

\* A hook that fails or times out ends the job.
PreHookFailsMutant == policy.preHook /\ step' = "dumps" /\ dumpStep' = "called" /\ UNCHANGED hooks
PreHookFails == policy.preHook /\ step' = "send" /\ UNCHANGED <<hooks, dumpStep>>

RunPreHook ==
  /\ step = "prehook"
  /\ \/ PreHookFails
     \/ /\ policy.preHook => ~cancelled
        /\ step' = "dumps" /\ dumpStep' = "called"
        /\ hooks' = IF policy.preHook THEN hooks \cup {"pre"} ELSE hooks
  /\ Kept
  /\ UNCHANGED <<sources, databases, stage, files, secret, dumps, archiveVars, destVars,
                 manifestStage, manifest, todo, checks, tempDir, backupDirs, container, status>>

PrepareDatabaseBackupSources ==
  /\ step = "dumps" /\ DumpNext
  /\ Kept /\ UNCHANGED <<archiveVars, destVars, workVars, status, step, policy, cancelled>>

DumpsPrepared ==
  /\ step = "dumps" /\ dumpStep \in {"ok", "failed"}
  /\ IF dumpStep = "ok" THEN step' = "manifest" /\ backupDirs' = backupDirs \cup DumpPaths
     ELSE step' = "send" /\ UNCHANGED backupDirs
  /\ Kept
  /\ UNCHANGED <<dumpVars, archiveVars, destVars, hooks, manifestStage, manifest, todo, checks,
                 tempDir, container, status>>

\* A snapshot stores the manifest's own path; an archive gets its content.
PrepareBackupManifest ==
  /\ step = "manifest"
  /\ \/ step' = "send" /\ UNCHANGED <<manifestStage, manifest, backupDirs, archStep>>
     \/ /\ manifestStage' = TRUE
        /\ backupDirs' = IF Archive THEN backupDirs ELSE backupDirs \cup {StagedManifest}
        /\ manifest' = backupDirs'
        /\ IF Archive THEN step' = "archive" /\ archStep' = "naming"
           ELSE step' = "init" /\ UNCHANGED archStep
  /\ Kept
  /\ UNCHANGED <<dumpVars, naming, walk, planned, missed, missedLate, toWrite, artifact, done,
                 total, torn, remote, destVars, hooks, todo, checks, tempDir, container, status>>

RunArchiveJob ==
  /\ step = "archive" /\ ArchiveNext
  /\ Kept /\ UNCHANGED <<dumpVars, destVars, workVars, status, step>>

ArchiveJobReturns ==
  /\ step = "archive" /\ archStep \in {"ok", "failed"} /\ step' = "verdict"
  /\ status' = IF archStep = "ok" THEN "success" ELSE "failed"
  /\ Kept /\ UNCHANGED <<dumpVars, archiveVars, destVars, workVars>>

-----------------------------------------------------------------------------
\* RunBackupJobWithProgress.  A step ends well (and goes on) or ends the run;
\* an external command ends well only while the context is not done.
RunnerOutcomes(from, to) == {to, "verdict"}

RunnerStep(from, to, external) ==
  /\ step = from
  /\ step' \in RunnerOutcomes(from, to) /\ (external /\ step' = to => ~cancelled)
  /\ Kept /\ UNCHANGED <<dumpVars, archiveVars, manifest, manifestStage, hooks, checks, tempDir,
                         backupDirs, container>>

\* restic: snapshots may take an existing repository for a missing one; the
\* init that follows then finds it and ends well.  plain: rclone mkdir.
InitRepo ==
  /\ RunnerStep("init", "backup", TRUE)
  /\ todo' = IF Plain THEN backupDirs ELSE {}
  /\ repo' = IF Plain \/ step' # "backup" THEN repo ELSE TRUE
  /\ UNCHANGED <<snapshots, data, marker, status>>

Snapshot(whole) == [made |-> now, paths |-> backupDirs, items |-> backupDirs \ policy.excludes, whole |-> whole]

\* restic backup; with unreadable files it stores the rest and fails.
ResticBackup ==
  /\ ~Plain /\ RunnerStep("backup", "forget", TRUE)
  /\ \/ step' = "forget" /\ snapshots' = snapshots \cup {Snapshot(TRUE)}
     \/ step' = "verdict" /\ snapshots' \in {snapshots, snapshots \cup {Snapshot(FALSE)}}
  /\ UNCHANGED <<repo, data, marker, todo, status>>

\* rclone sync of a directory or copyto of a file.
SyncDir ==
  /\ Plain /\ todo # {} /\ RunnerStep("backup", "backup", TRUE)
  /\ \E d \in todo :
       \/ /\ step' = "backup" /\ todo' = todo \ {d}
          /\ data' = Set(data, d, [made |-> now, whole |-> TRUE])
       \/ /\ step' = "verdict" /\ UNCHANGED todo
          /\ data' \in {data, Set(data, d, [made |-> now, whole |-> FALSE])}
  /\ UNCHANGED <<repo, snapshots, marker, status>>

PlainCopiedMutant == step = "backup"
PlainCopied == step = "backup" /\ todo = {}

WriteBackupMarker ==
  /\ Plain /\ PlainCopied /\ RunnerStep("backup", "forget", TRUE)
  /\ marker' = IF step' = "forget" THEN [made |-> now, dirs |-> backupDirs] ELSE marker
  /\ UNCHANGED <<repo, snapshots, data, todo, status>>

\* restic forget groups snapshots by their paths and applies keep_last to each
\* group; without a rule it removes nothing.
Forget(S) ==
  IF policy.keepLast = 0 THEN S
  ELSE {s \in S : Cardinality({t \in S : t.paths = s.paths /\ Later(t.made, s.made)}) < policy.keepLast}

RunForget ==
  /\ RunnerStep("forget", "list", ~Plain) /\ (Plain => step' = "list")
  /\ snapshots' = IF Plain \/ step' # "list" THEN snapshots ELSE Forget(snapshots)
  /\ UNCHANGED <<repo, data, marker, todo, status>>

ListSnapshots ==
  /\ RunnerStep("list", "size", ~Plain)
  /\ UNCHANGED <<destVars, todo, status>>

RepositorySize ==
  /\ step = "size" /\ step' = "verdict"
  /\ status' \in {"success", "failed"} /\ (cancelled => status' = "failed")
  /\ Kept /\ UNCHANGED <<dumpVars, archiveVars, destVars, workVars>>

-----------------------------------------------------------------------------
\* The end of runBackupForPolicy.  The deferred cleanups run after the result
\* was sent.
Verdict ==
  /\ step = "verdict"
  /\ IF cancelled THEN status' = "cancelled" /\ step' = "send"
     ELSE /\ UNCHANGED status
          /\ step' = IF status = "success" /\ policy.postHook THEN "posthook" ELSE "send"
  /\ Kept /\ UNCHANGED <<dumpVars, archiveVars, destVars, workVars>>

RunPostHook ==
  /\ step = "posthook" /\ step' = "send"
  /\ \/ status' = "failed" /\ UNCHANGED hooks
     \/ ~cancelled /\ hooks' = hooks \cup {"post"} /\ UNCHANGED status
  /\ Kept
  /\ UNCHANGED <<dumpVars, archiveVars, destVars, manifestStage, manifest, todo, checks, tempDir,
                 backupDirs, container>>

SendTaskResult ==
  /\ step = "send" /\ step' = "cleanup"
  /\ Kept /\ UNCHANGED <<dumpVars, archiveVars, destVars, workVars, status>>

Cleanup ==
  /\ step = "cleanup" /\ step' = "idle"
  /\ CleanupDumps /\ manifestStage' = FALSE
  /\ Kept
  /\ UNCHANGED <<dumpStep, sources, databases, dumps, archiveVars, destVars, hooks, manifest, todo,
                 checks, tempDir, backupDirs, container, status>>

-----------------------------------------------------------------------------
\* runBackupVerificationForPolicy and RunVerificationJob.
VerifyConf ==
  /\ step = "vconf"
  /\ \/ step' = "send" /\ UNCHANGED checks         \* archive mode, or no rclone.conf
     \/ /\ ~Archive
        /\ IF Plain THEN step' = "vverdict" /\ checks' = Set(checks, "repository_type", "failed")
           ELSE step' = "vlist" /\ UNCHANGED checks
  /\ Kept
  /\ UNCHANGED <<dumpVars, archiveVars, destVars, hooks, manifestStage, manifest, todo, tempDir,
                 backupDirs, container, status>>

\* One check; after it the job looks at the context.
Check(from, code, to) ==
  /\ step = from /\ step' = to
  /\ \E result \in {"passed", "failed"} :
       /\ result = "passed" => ~ContextDone
       /\ checks' = Set(checks, code, result)
  /\ Kept
  /\ UNCHANGED <<dumpVars, archiveVars, destVars, hooks, manifestStage, manifest, todo, tempDir,
                 backupDirs, container, status>>

VerifyStops ==
  /\ step \in {"vcheck", "vls", "vsample", "vrestore"} /\ ContextDone /\ step' = "vverdict"
  /\ Kept /\ UNCHANGED <<dumpVars, archiveVars, destVars, workVars, status>>

ListForVerification == Check("vlist", "snapshot_list", "vcheck")

NoSnapshots ==
  /\ step = "vcheck" /\ ~ContextDone /\ step' = "vverdict"
  /\ snapshots = {} \/ checks["snapshot_list"] = "failed"
  /\ checks' = Set(checks, "snapshot_available", "failed")
  /\ Kept
  /\ UNCHANGED <<dumpVars, archiveVars, destVars, hooks, manifestStage, manifest, todo, tempDir,
                 backupDirs, container, status>>

CheckRepository ==
  /\ step = "vcheck" /\ ~ContextDone /\ snapshots # {} /\ checks["snapshot_list"] = "passed"
  /\ Check("vcheck", "restic_check", "vls")

LsSnapshot == ~ContextDone /\ Check("vls", "snapshot_ls", "vsample")
SampleLs == ~ContextDone /\ Check("vsample", "sample_ls", "vrestore")

\* The sample is restored to a temporary directory, if a regular file was
\* listed and the settings ask for it.
SampleRestore ==
  /\ step = "vrestore" /\ ~ContextDone
  /\ \/ /\ step' = "vverdict" /\ checks' = Set(checks, "sample_restore", "skipped")
        /\ UNCHANGED tempDir
     \/ /\ policy.sampleRestore /\ step' = "vverdict"
        /\ checks' = Set(checks, "sample_restore", "failed") /\ UNCHANGED tempDir
     \/ /\ policy.sampleRestore /\ checks["snapshot_ls"] = "passed"
        /\ step' = "vremove" /\ tempDir' = TRUE /\ UNCHANGED checks
  /\ Kept
  /\ UNCHANGED <<dumpVars, archiveVars, destVars, hooks, manifestStage, manifest, todo,
                 backupDirs, container, status>>

SampleRestored ==
  /\ step = "vremove" /\ step' = "vverdict" /\ tempDir' = FALSE
  /\ \E result \in {"passed", "failed"} :
       /\ result = "passed" => ~ContextDone
       /\ checks' = Set(checks, "sample_restore", result)
  /\ Kept
  /\ UNCHANGED <<dumpVars, archiveVars, destVars, hooks, manifestStage, manifest, todo,
                 backupDirs, container, status>>

VerificationOverallStatus ==
  IF \E c \in DOMAIN checks : checks[c] = "failed" THEN "failed" ELSE "success"

\* The verdict of the checks, unless the context is done.
VerifyVerdictMutant ==
  IF cancelled THEN "cancelled" ELSE VerificationOverallStatus
VerifyVerdict ==
  IF timedOut THEN "failed" ELSE IF cancelled THEN "cancelled" ELSE VerificationOverallStatus

VerificationEnds ==
  /\ step = "vverdict" /\ step' = "send" /\ status' = VerifyVerdict
  /\ Kept /\ UNCHANGED <<dumpVars, archiveVars, destVars, workVars>>

-----------------------------------------------------------------------------
Backup ==
  EnsureRcloneConf \/ ResolvePolicyBackupSources \/ RunPreHook \/ PrepareDatabaseBackupSources
  \/ DumpsPrepared \/ PrepareBackupManifest \/ RunArchiveJob \/ ArchiveJobReturns \/ InitRepo
  \/ ResticBackup \/ SyncDir \/ WriteBackupMarker \/ RunForget \/ ListSnapshots
  \/ RepositorySize \/ Verdict \/ RunPostHook \/ SendTaskResult \/ Cleanup

Verification ==
  VerifyConf \/ VerifyStops \/ ListForVerification \/ NoSnapshots \/ CheckRepository
  \/ LsSnapshot \/ SampleLs \/ SampleRestore \/ SampleRestored \/ VerificationEnds

Next == StartJob \/ Cancel \/ Timeout \/ Crash \/ Backup \/ Verification

Spec == Init /\ [][Next]_vars

-----------------------------------------------------------------------------
RequiredChecks == {"snapshot_list", "restic_check", "snapshot_ls", "sample_ls", "sample_restore"}

\* When no job runs, nothing of one is left on the disk of a process that did
\* not stop: no dumps, no manifest, no sample, no file with a password
\* (the cleanups returned by Prepare, prepareBackupManifest and the deferred
\* calls of runBackupForPolicy).
StagingRemoved == step = "idle" => ~stage /\ ~secret /\ ~manifestStage /\ ~tempDir

\* What the steps of a job rely on.  Temporary files:
StagingInv ==
  /\ StagingRemoved
  /\ tempDir => step = "vremove"

\* Times: nothing in the storage is later than the job.
TimeInv ==
  /\ ~Later(marker.made, now)
  /\ \A d \in DOMAIN data : ~Later(data[d].made, now)
  /\ \A s \in snapshots : ~Later(s.made, now)

\* What has been stored at each step of the runner.
AfterBackup == {"forget", "list", "size"}
PreparedSteps == {"archive", "init", "backup"} \cup AfterBackup
SnapshotStored == \E s \in snapshots : s.made = now /\ s.whole /\ backupDirs \ policy.excludes \subseteq s.items
RunInv ==
  /\ step \in {"manifest"} \cup PreparedSteps => policy.paths \cup DumpPaths \subseteq backupDirs
  /\ step \in PreparedSteps => manifest = backupDirs /\ (step = "archive" <=> Archive)
  /\ Plain /\ step = "backup" => todo \subseteq backupDirs
  /\ Plain /\ step \in {"backup"} \cup AfterBackup =>
       \A d \in backupDirs : (step = "backup" /\ d \in todo)
         \/ (d \in DOMAIN data /\ data[d] = [made |-> now, whole |-> TRUE])
  /\ ~Plain /\ step \in AfterBackup => SnapshotStored
  /\ status = "success" => step \in {"verdict", "posthook", "send", "cleanup", "idle"}

\* What has become of the planned files at each step of an archive.
Archived(f) == f \in DOMAIN artifact \/ f \in missedLate \/ (policy.format = "zip" /\ ~Regular(f))
ArchiveInv ==
  step = "archive" =>
    /\ archStep \in {"plan", "write", "upload", "stat", "ok"} =>
         \A f \in backupDirs : (archStep = "plan" /\ f \in walk) \/ f \in DOMAIN planned \/ f \in missed \/ Excluded(f)
    /\ archStep \in {"write", "upload", "stat", "ok"} =>
         \A f \in DOMAIN planned : (archStep = "write" /\ f \in toWrite) \/ Archived(f)
    /\ archStep \in {"stat", "ok"} =>
         /\ naming.path \in DOMAIN remote
         /\ remote[naming.path] = [made |-> now, entries |-> DOMAIN artifact, whole |-> ~torn]

\* The checks a verification has made at each step.
VerifyInv ==
  /\ step \in {"vls", "vsample", "vrestore", "vremove"} => {"snapshot_list", "restic_check"} \subseteq DOMAIN checks
  /\ step \in {"vsample", "vrestore", "vremove"} => "snapshot_ls" \in DOMAIN checks
  /\ step \in {"vrestore", "vremove"} => "sample_ls" \in DOMAIN checks
  /\ step = "vverdict" /\ ~ContextDone =>
       (\A c \in RequiredChecks : c \in DOMAIN checks) \/ \E c \in DOMAIN checks : checks[c] = "failed"

\* What a job keeps true at every step, whichever of its commands fails or is
\* cut short: temporary files are gone when it ends, no dump is overwritten by
\* one whose name is not the same, the archive is well formed, and each step finds
\* stored, archived or checked what the steps before it were to store, archive or
\* check.
BackupInv ==
  /\ TypeOK /\ StagingInv /\ DumpsKept /\ ArchiveWellFormed
  /\ TimeInv /\ RunInv /\ ArchiveInv /\ VerifyInv

Stored(f) ==
  IF Archive THEN
    LET a == remote[naming.path]
    IN /\ naming.path \in DOMAIN remote /\ a.made = now
       /\ \/ a.whole /\ f \in a.entries
          \/ f \in missed \cup missedLate
          \/ policy.format = "zip" /\ ~Regular(f)
  ELSE IF Plain THEN f \in DOMAIN data /\ data[f] = [made |-> now, whole |-> TRUE]
  ELSE \E s \in snapshots : s.made = now /\ s.whole /\ f \in s.items

\* A backup that ends well has stored all it was to store: what the policy
\* names and the manifest lists, dumps included, is in the storage, or the
\* policy excludes it, or a warning of the result names it.  Two cases are left
\* out: a zip drops files that are not regular without a warning, and an archive
\* whose end could not be written (FinishArchive) is uploaded and reported as a
\* success although nobody can read it.
SuccessIsComplete ==
  status = "success" /\ kind = "backup" /\ ~torn =>
    /\ policy.paths \cup DumpPaths \subseteq manifest
    /\ \A f \in manifest : Stored(f) \/ Excluded(f)

\* The same without the second exception, which the code does not keep: the
\* deferred Close calls of writeTarGzArchive and writeZipArchive write the end
\* of the archive, and their errors are dropped.
SuccessIsStored ==
  status = "success" /\ kind = "backup" => \A f \in manifest : Stored(f) \/ Excluded(f)

\* Data goes to the storage only between the hooks: after the pre-backup hook
\* ended well (it stops or freezes what is backed up) and before the
\* post-backup hook (that starts it again).
HooksBracketData ==
  [][<<snapshots, data, marker, remote>>' # <<snapshots, data, marker, remote>>
       => (policy.preHook => "pre" \in hooks) /\ "post" \notin hooks']_vars

\* The marker of a plain backup, from which restores take the directories,
\* never names data that is older than itself: a job that fails before it
\* copied everything leaves the former marker (writeBackupMarker).
MarkerAfterData ==
  \A d \in marker.dirs :
    d \in DOMAIN data /\ ~Later(marker.made, data[d].made)

\* A verification that ends well has listed, checked and sampled a snapshot;
\* one that was cancelled or timed out halfway never ends well
\* (the checks made by then may all have passed).
PassedMeansChecked ==
  status = "success" /\ kind = "verify" =>
    \A c \in RequiredChecks : c \in DOMAIN checks /\ checks[c] # "failed"
=============================================================================
