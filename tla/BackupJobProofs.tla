---------------------------- MODULE BackupJobProofs ----------------------------
(***************************************************************************)
(* Proofs about BackupJob, for any policies, containers, files and sizes,  *)
(* any number of jobs, and any command that fails, is cancelled or is cut  *)
(* short.                                                                  *)
(***************************************************************************)
EXTENDS BackupJob, FiniteSetTheorems, SequenceTheorems, TLAPS

RunSteps    == {"conf", "resolve", "prehook", "dumps", "manifest", "archive", "init", "backup", "marker",
                "forget", "list", "size", "verdict", "posthook"}
EarlySteps  == {"conf", "resolve", "prehook", "dumps", "manifest"}
HookedSteps == RunSteps \ {"conf", "resolve", "prehook"}
EndSteps    == {"send", "cleanup"}
VerifySteps == {"vconf", "vlist", "vcheck", "vls", "vsample", "vrestore", "vremove", "vverdict"}

Stores == ResticBackup \/ SyncDir \/ WriteBackupMarker \/ RunForget

-----------------------------------------------------------------------------
(***************************************************************************)
(* The inductive invariant, in layers: each relies on those before it.     *)
(***************************************************************************)
Times == [date : 0..MaxDate, time : 0..1]

\* A job is where its kind may be; the hooks it ran are those on its way.
JobInv ==
  /\ now \in Times
  /\ step \in RunSteps => kind = "backup"
  /\ step \in VerifySteps => kind = "verify"
  /\ step \in RunSteps => "post" \notin hooks
  /\ step \in HookedSteps /\ policy.preHook => "pre" \in hooks

\* TimeInv for the artifacts too.  The first job may start when the host's clock begins.
Made ==
  {marker.made} \cup {data[d].made : d \in DOMAIN data} \cup {s.made : s \in snapshots}
  \cup {remote[p].made : p \in DOMAIN remote}
ClockInv ==
  /\ \A t \in Made : t \in Times /\ ~Later(t, now)
  /\ jobs = 0 => step = "idle" /\ Made = {now} /\ now = [date |-> 0, time |-> 0] /\ remote = <<>>

\* The paths of the policy are in the backup from the start.
PathsInv == step \in {"prehook", "dumps"} => policy.paths \subseteq backupDirs

\* An artifact bears the time it was made at, if its name has one; the job's own is not
\* stored before its upload.
BearsTime(name, t) == "datetime" \in DOMAIN name => name["datetime"] = <<t.date, t.time>>
NotStored ==
  \/ step \in EarlySteps
  \/ step = "archive" /\ archStep \in {"naming", "plan", "write", "upload"}
NamesInv ==
  /\ \A p \in DOMAIN remote : BearsTime(p[2], remote[p].made)
  /\ NotStored => \A p \in DOMAIN remote : remote[p].made # now
  /\ step = "archive" /\ archStep \in {"plan", "write", "upload"} =>
       /\ BearsTime(naming.path[2], now)
       /\ ~naming.warned /\ policy.nameTemplate \cap {"date", "time"} = {} =>
            "datetime" \in DOMAIN naming.path[2]

\* What is still to be written fits between what is done and the total: each file has a
\* place there, and no two places overlap.
Bytes(sizes, f) == IF Regular(f) THEN sizes[f] ELSE 0
Fits(S, sizes, from, to) ==
  /\ from \in Int /\ to \in Int /\ from <= to
  /\ \E place \in [S -> Int] : \A f \in S :
       /\ from <= place[f] /\ place[f] + Bytes(sizes, f) <= to
       /\ \A g \in S \ {f} : \/ place[f] + Bytes(sizes, f) <= place[g]
                             \/ place[g] + Bytes(sizes, g) <= place[f]
SizesInv ==
  /\ \A f \in DOMAIN planned : planned[f] \in 0..MaxSize
  /\ archStep = "plan" => walk \cap DOMAIN planned = {} /\ Fits(DOMAIN planned, planned, ManifestSize, total)
  /\ archStep = "write" => toWrite \subseteq DOMAIN planned /\ Fits(toWrite, planned, done, total)

\* Where Prepare is in the databases of the policy: it has handled the first of the
\* sources, and has dumped the first databases of the next.
Handled == Len(policy.databases) - Len(sources)
Taken == Len(Dumps(Head(sources))) - Len(databases)
Dumped(m) ==
  \E k \in DOMAIN policy.databases : \E i \in DOMAIN Dumps(policy.databases[k]) :
    /\ dumps[m] = Dumps(policy.databases[k])[i]
    /\ k <= Handled \/ (dumpStep = "dump" /\ k = Handled + 1 /\ i <= Taken)
AllDumps == UNION {Range(Dumps(s)) : s \in Range(policy.databases)}
SourcesPlace ==
  /\ sources \in Seq(Range(policy.databases)) /\ Len(sources) <= Len(policy.databases)
  /\ \A n \in DOMAIN sources : sources[n] = policy.databases[Handled + n]
  /\ dumpStep \in {"list", "dump"} => sources # <<>>
  /\ dumpStep = "list" => Head(sources).all
DatabasesPlace ==
  /\ databases \in Seq(Range(Dumps(Head(sources)))) /\ databases # <<>>
  /\ Len(databases) <= Len(Dumps(Head(sources)))
  /\ \A n \in DOMAIN databases : databases[n] = Dumps(Head(sources))[Taken + n]
PlaceInv ==
  step = "dumps" /\ dumpStep \in {"source", "list", "dump"} =>
    /\ SourcesPlace
    /\ dumpStep = "dump" => DatabasesPlace
    /\ dumps \in Seq(AllDumps) /\ \A m \in DOMAIN dumps : Dumped(m)
KeptInv ==
  stage /\ NamesApart(policy) /\ dumpStep \in {"source", "list", "dump", "ok"} =>
    \A m \in DOMAIN dumps : dumps[m].name \in DOMAIN files /\ files[dumps[m].name] = dumps[m]

-----------------------------------------------------------------------------
(***************************************************************************)
(* What the steps leave alone.                                             *)
(***************************************************************************)
LEMMA DumpSteady ==
  ASSUME DumpNext
  PROVE  /\ dumpStep \in {"called", "source", "list", "dump"}
         /\ dumpStep' \in {"source", "list", "dump", "ok", "failed"}
         /\ stage \in BOOLEAN => stage' \in BOOLEAN
         /\ secret \in BOOLEAN => secret' \in BOOLEAN
<1>1. CASE Prepare
  BY <1>1 DEF Prepare
<1>2. CASE NextSource
  BY <1>2 DEF NextSource
<1>3. CASE ListDatabases
  BY <1>3 DEF ListDatabases, PrepareFails, CleanupDumps, WritesDefaultsFile
<1>4. CASE DumpSingleDatabase
  BY <1>4 DEF DumpSingleDatabase, PrepareFails, CleanupDumps, WritesDefaultsFile
<1> QED
  BY <1>1, <1>2, <1>3, <1>4 DEF DumpNext

LEMMA ArchiveSteady ==
  ASSUME ArchiveNext
  PROVE  /\ archStep \in {"naming", "plan", "write", "upload", "stat"}
         /\ archStep' \in {"plan", "write", "upload", "stat", "ok", "failed"}
<1>1. CASE RenderName
  BY <1>1 DEF RenderName
<1>2. CASE PlanArchiveFiles
  BY <1>2 DEF PlanArchiveFiles
<1>3. CASE CreateArchive
  BY <1>3 DEF CreateArchive
<1>4. CASE WriteArchive
  BY <1>4 DEF WriteArchive
<1>5. CASE FinishArchive
  BY <1>5 DEF FinishArchive
<1>6. CASE CopyFileToRemote
  BY <1>6 DEF CopyFileToRemote
<1>7. CASE StatArtifact
  BY <1>7 DEF StatArtifact
<1> QED
  BY <1>1, <1>2, <1>3, <1>4, <1>5, <1>6, <1>7 DEF ArchiveNext

\* A step of a backup moves it on, and changes what it works on: the dumps, the archive
\* or the repository.
Steady ==
  /\ UNCHANGED <<kind, jobs, now, policy, cancelled, timedOut, left, checks, tempDir>>
  /\ step \in RunSteps \cup EndSteps /\ step' \in RunSteps \cup EndSteps \cup {"idle"}
  /\ step' \in RunSteps => step \in RunSteps
  /\ step' \in HookedSteps => step \in HookedSteps \/ RunPreHook
  /\ step' \in EarlySteps => step \in EarlySteps
  /\ step' = "dumps" => RunPreHook \/ PrepareDatabaseBackupSources
  /\ step' = "archive" => PrepareBackupManifest \/ RunArchiveJob
  /\ step' = "idle" => Cleanup
  /\ Stores \/ UNCHANGED <<snapshots, data, marker>>
  /\ RunPreHook \/ RunPostHook \/ UNCHANGED hooks
  /\ RunPreHook \/ PrepareDatabaseBackupSources \/ Cleanup \/ UNCHANGED dumpVars
  /\ PrepareBackupManifest \/ RunArchiveJob \/ UNCHANGED archiveVars
  /\ ResolvePolicyBackupSources \/ DumpsPrepared \/ PrepareBackupManifest \/ UNCHANGED backupDirs
  /\ PrepareBackupManifest \/ UNCHANGED manifest
  /\ PrepareBackupManifest \/ Cleanup \/ UNCHANGED manifestStage
  /\ InitRepo \/ SyncDir \/ UNCHANGED todo
  /\ InitRepo \/ UNCHANGED repo
  /\ ArchiveJobReturns \/ RepositorySize \/ Verdict \/ RunPostHook \/ UNCHANGED status

LEMMA BackupSteady == Backup => Steady
<1> USE DEF Steady, RunSteps, EarlySteps, HookedSteps, EndSteps, Stores, Kept, jobVars, workVars, destVars, dumpVars, archiveVars
<1>1. CASE EnsureRcloneConf
  BY <1>1 DEF EnsureRcloneConf
<1>2. CASE ResolvePolicyBackupSources
  BY <1>2 DEF ResolvePolicyBackupSources
<1>3. CASE RunPreHook
  BY <1>3 DEF RunPreHook, PreHookFails
<1>4. CASE PrepareDatabaseBackupSources
  BY <1>4 DEF PrepareDatabaseBackupSources
<1>5. CASE DumpsPrepared
  BY <1>5 DEF DumpsPrepared
<1>6. CASE PrepareBackupManifest
  BY <1>6 DEF PrepareBackupManifest
<1>7. CASE RunArchiveJob
  BY <1>7 DEF RunArchiveJob
<1>8. CASE ArchiveJobReturns
  BY <1>8 DEF ArchiveJobReturns
<1>9. CASE InitRepo
  BY <1>9 DEF InitRepo, RunnerStep, RunnerOutcomes
<1>10. CASE ResticBackup
  BY <1>10 DEF ResticBackup, RunnerStep, RunnerOutcomes
<1>11. CASE SyncDir
  BY <1>11 DEF SyncDir, RunnerStep, RunnerOutcomes
<1>12. CASE WriteBackupMarker
  BY <1>12 DEF WriteBackupMarker, RunnerStep, RunnerOutcomes
<1>13. CASE RunForget
  BY <1>13 DEF RunForget, RunnerStep, RunnerOutcomes
<1>14. CASE ListSnapshots
  BY <1>14 DEF ListSnapshots, RunnerStep, RunnerOutcomes
<1>15. CASE RepositorySize
  BY <1>15 DEF RepositorySize
<1>16. CASE Verdict
  BY <1>16 DEF Verdict
<1>17. CASE RunPostHook
  BY <1>17 DEF RunPostHook
<1>18. CASE SendTaskResult
  BY <1>18 DEF SendTaskResult
<1>19. CASE Cleanup
  BY <1>19 DEF Cleanup
<1> QED
  BY <1>1, <1>2, <1>3, <1>4, <1>5, <1>6, <1>7, <1>8, <1>9, <1>10, <1>11, <1>12, <1>13, <1>14, <1>15, <1>16,
     <1>17, <1>18, <1>19 DEF Backup

\* A step of a verification makes a check, or ends it.
LEMMA VerificationSteady ==
  ASSUME Verification
  PROVE  /\ UNCHANGED <<kind, jobs, now, policy, cancelled, timedOut, left>>
         /\ UNCHANGED <<dumpVars, archiveVars, destVars>>
         /\ UNCHANGED <<hooks, manifestStage, manifest, todo, backupDirs, container>>
         /\ step \in VerifySteps /\ step' \in VerifySteps \cup {"send"}
         /\ tempDir \in BOOLEAN => tempDir' \in BOOLEAN
         /\ (tempDir => step = "vremove") => (tempDir' => step' = "vremove")
         /\ status' = status \/ (step = "vverdict" /\ step' = "send" /\ status' = VerifyVerdict)
<1> USE DEF VerifySteps, Kept, jobVars, workVars
<1>1. CASE VerifyConf
  BY <1>1 DEF VerifyConf
<1>2. CASE VerifyStops
  BY <1>2 DEF VerifyStops
<1>3. CASE ListForVerification
  BY <1>3 DEF ListForVerification, Check
<1>4. CASE NoSnapshots
  BY <1>4 DEF NoSnapshots
<1>5. CASE CheckRepository
  BY <1>5 DEF CheckRepository, Check
<1>6. CASE LsSnapshot
  BY <1>6 DEF LsSnapshot, Check
<1>7. CASE SampleLs
  BY <1>7 DEF SampleLs, Check
<1>8. CASE SampleRestore
  <2>1. \/ tempDir' = TRUE /\ step' = "vremove"
        \/ UNCHANGED tempDir /\ step' = "vverdict"
    BY <1>8 DEF SampleRestore
  <2>2. (tempDir => step = "vremove") => (tempDir' => step' = "vremove")
    <3>1. step = "vrestore"
      BY <1>8 DEF SampleRestore
    <3> QED
      BY <2>1, <3>1
  <2>3. tempDir \in BOOLEAN => tempDir' \in BOOLEAN
    BY <2>1
  <2> QED
    BY <1>8, <2>1, <2>2, <2>3 DEF SampleRestore
<1>9. CASE SampleRestored
  BY <1>9 DEF SampleRestored
<1>10. CASE VerificationEnds
  BY <1>10 DEF VerificationEnds
<1> QED
  BY <1>1, <1>2, <1>3, <1>4, <1>5, <1>6, <1>7, <1>8, <1>9, <1>10 DEF Verification

-----------------------------------------------------------------------------
(***************************************************************************)
(* Types, staging directories and hooks.                                   *)
(***************************************************************************)
BaseInv == TypeOK /\ StagingInv /\ JobInv

LEMMA BaseInit == Init => BaseInv
<1> SUFFICES ASSUME Init PROVE BaseInv
  OBVIOUS
<1>1. now \in Times
  <2>1. now = [date |-> 0, time |-> 0] /\ 0 \in 0..MaxDate /\ 0 \in 0..1
    <3>1. MaxDate \in Nat
      BY JobAssumption
    <3>2. now = [date |-> 0, time |-> 0]
      BY DEF Init
    <3> QED
      BY <3>1, <3>2
  <2> QED
    BY ONLY <2>1 DEF Times
<1>2. TypeOK
  <2>1. jobs \in 0..MaxJobs /\ policy \in Policy
    <3>1. MaxJobs \in Nat
      BY JobAssumption
    <3>2. jobs = 0 /\ policy \in Policy
      BY DEF Init
    <3> QED
      BY <3>1, <3>2
  <2> QED
    BY <2>1 DEF Init, TypeOK, Steps, DumpSteps, ArchSteps
<1>3. StagingInv
  BY DEF Init, StagingInv, StagingRemoved
<1>4. JobInv
  BY <1>1 DEF Init, JobInv, RunSteps, HookedSteps, VerifySteps
<1> QED
  BY <1>2, <1>3, <1>4 DEF BaseInv

LEMMA BaseStart == BaseInv /\ StartJob => BaseInv'
<1> SUFFICES ASSUME BaseInv, StartJob PROVE BaseInv'
  OBVIOUS
<1>1. TypeOK'
  <2>1. jobs' \in 0..MaxJobs
    <3>1. MaxJobs \in Nat
      BY JobAssumption
    <3>2. jobs \in 0..MaxJobs /\ jobs < MaxJobs /\ jobs' = jobs + 1
      BY DEF BaseInv, TypeOK, StartJob
    <3> QED
      BY <3>1, <3>2
  <2>2. step' \in Steps /\ kind' \in {"backup", "verify"}
    BY DEF StartJob, Steps
  <2>3. policy' \in Policy /\ left' \in BOOLEAN /\ {stage', secret', manifestStage', tempDir', repo'} \subseteq BOOLEAN
    BY DEF BaseInv, TypeOK, StartJob, destVars
  <2> QED
    BY <2>1, <2>2, <2>3 DEF StartJob, TypeOK, DumpSteps, ArchSteps
<1>2. StagingInv'
  BY DEF BaseInv, StartJob, StagingInv, StagingRemoved
<1>3. JobInv'
  BY DEF StartJob, JobInv, Times, RunSteps, HookedSteps, VerifySteps
<1> QED
  BY <1>1, <1>2, <1>3 DEF BaseInv

LEMMA BaseBackup == BaseInv /\ Backup => BaseInv'
<1> SUFFICES ASSUME BaseInv, Backup PROVE BaseInv'
  OBVIOUS
<1> USE DEF BaseInv
<1>1. Steady
  BY BackupSteady
<1>2. dumpStep' \in DumpSteps /\ stage' \in BOOLEAN /\ secret' \in BOOLEAN
  BY <1>1, DumpSteady DEF Steady, TypeOK, DumpSteps, RunPreHook, PreHookFails, PrepareDatabaseBackupSources,
     Cleanup, CleanupDumps, dumpVars
<1>3. archStep' \in ArchSteps
  BY <1>1, ArchiveSteady DEF Steady, TypeOK, ArchSteps, PrepareBackupManifest, RunArchiveJob, archiveVars
<1>4. hooks' \subseteq {"pre", "post"}
  BY <1>1 DEF Steady, TypeOK, RunPreHook, PreHookFails, RunPostHook
<1>5. status' \in {"failed", "success", "cancelled"}
  BY <1>1 DEF Steady, TypeOK, ArchiveJobReturns, RepositorySize, Verdict, RunPostHook
<1>6. manifestStage' \in BOOLEAN /\ repo' \in BOOLEAN
  BY <1>1 DEF Steady, TypeOK, PrepareBackupManifest, Cleanup, InitRepo
<1>7. TypeOK'
  BY <1>1, <1>2, <1>3, <1>4, <1>5, <1>6 DEF Steady, TypeOK, Steps, RunSteps, EndSteps
<1>8. StagingInv'
  <2>1. ~tempDir'
    BY <1>1 DEF Steady, StagingInv, RunSteps, EndSteps
  <2> QED
    BY <1>1, <2>1 DEF Steady, StagingInv, StagingRemoved, Cleanup, CleanupDumps
<1>9. JobInv'
  <2>1. now' \in Times /\ (step' \in RunSteps => kind' = "backup") /\ step' \notin VerifySteps
    BY <1>1 DEF Steady, JobInv, RunSteps, EndSteps, VerifySteps
  <2>2. step' \in RunSteps => "post" \notin hooks'
    BY <1>1 DEF Steady, JobInv, RunPreHook, PreHookFails, RunPostHook, RunSteps
  <2>3. step' \in HookedSteps /\ policy'.preHook => "pre" \in hooks'
    BY <1>1 DEF Steady, JobInv, RunPreHook, PreHookFails, RunPostHook, RunSteps,
       HookedSteps
  <2> QED
    BY <2>1, <2>2, <2>3 DEF JobInv
<1> QED
  BY <1>7, <1>8, <1>9

LEMMA BaseStep == BaseInv /\ [Next]_vars => BaseInv'
<1> SUFFICES ASSUME BaseInv, [Next]_vars PROVE BaseInv'
  OBVIOUS
<1> USE DEF BaseInv, TypeOK, StagingInv, StagingRemoved, JobInv
<1>1. CASE Cancel
  BY <1>1 DEF Cancel, jobVars, workVars, dumpVars, archiveVars, destVars
<1>2. CASE Timeout
  BY <1>2 DEF Timeout, jobVars, workVars, dumpVars, archiveVars, destVars
<1>3. CASE Crash
  BY <1>3 DEF Crash, CleanupDumps, Staging, Steps, DumpSteps, ArchSteps, RunSteps, HookedSteps, VerifySteps,
     jobVars, destVars
<1>4. CASE Verification
  <2> USE <1>4, VerificationSteady
  <2>1. TypeOK'
    BY ZenonT(30) DEF dumpVars, archiveVars, destVars, Steps, VerifySteps, VerifyVerdict, VerificationOverallStatus
  <2>2. StagingInv'
    BY DEF VerifySteps, dumpVars
  <2>3. JobInv'
    BY DEF RunSteps, HookedSteps, VerifySteps
  <2> QED
    BY <2>1, <2>2, <2>3
<1>5. CASE UNCHANGED vars
  BY <1>5 DEF vars, jobVars, workVars, dumpVars, archiveVars, destVars
<1> QED
  BY BaseStart, BaseBackup, <1>1, <1>2, <1>3, <1>4, <1>5 DEF Next


-----------------------------------------------------------------------------
(***************************************************************************)
(* Times.                                                                  *)
(***************************************************************************)
LEMMA TimesOrdered ==
  ASSUME NEW a \in Times, NEW b \in Times, NEW c \in Times
  PROVE  /\ ~Later(a, a)
         /\ ~Later(a, b) /\ Later(c, b) => ~Later(a, c) /\ a # c
         /\ b = [date |-> 0, time |-> 0] => ~Later(b, a)
<1>1. /\ a.date \in 0..MaxDate /\ a.time \in 0..1 /\ b.date \in 0..MaxDate /\ b.time \in 0..1
      /\ c.date \in 0..MaxDate /\ c.time \in 0..1
  BY DEF Times
<1>2. MaxDate \in Nat
  BY JobAssumption
<1> QED
  BY <1>1, <1>2 DEF Later

\* What a job stores, it stores under the time of its start.
LEMMA MadeNow == Backup => Made' \subseteq Made \cup {now}
<1> SUFFICES ASSUME Backup PROVE Made' \subseteq Made \cup {now}
  OBVIOUS
<1>1. Steady
  BY BackupSteady
<1>2. Stores \/ UNCHANGED <<snapshots, data, marker>>
  BY <1>1 DEF Steady
<1>3. marker'.made \in {marker.made, now}
  <2>1. WriteBackupMarker \/ UNCHANGED marker
    BY <1>2 DEF Stores, ResticBackup, SyncDir, RunForget
  <2>2. CASE WriteBackupMarker
    <3>1. marker' = [made |-> now, dirs |-> backupDirs] \/ marker' = marker
      BY <2>2 DEF WriteBackupMarker
    <3> QED
      BY <3>1
  <2> QED
    BY <2>1, <2>2
<1>4. \A s \in snapshots' : s.made = now \/ s \in snapshots
  <2>1. CASE ResticBackup
    BY <2>1 DEF ResticBackup, Snapshot
  <2>2. CASE RunForget
    BY <2>2 DEF RunForget, Forget
  <2> QED
    BY <1>2, <2>1, <2>2 DEF Stores, SyncDir, WriteBackupMarker
<1>6. \A d \in DOMAIN data' : data'[d].made = now \/ (d \in DOMAIN data /\ data'[d] = data[d])
  <2>1. CASE SyncDir
    <3>1. PICK e \in todo, whole \in BOOLEAN : data' \in {data, Set(data, e, [made |-> now, whole |-> whole])}
      BY <2>1 DEF SyncDir
    <3> QED
      BY <3>1 DEF Set
  <2> QED
    BY <1>2, <2>1 DEF Stores, ResticBackup, WriteBackupMarker, RunForget
<1>5. \A p \in DOMAIN remote' : remote'[p].made = now \/ (p \in DOMAIN remote /\ remote'[p] = remote[p])
  <2>1. CASE UNCHANGED remote
    BY <2>1
  <2>2. CASE CopyFileToRemote
    BY <2>2 DEF CopyFileToRemote, Set
  <2>3. UNCHANGED remote \/ CopyFileToRemote
    BY <1>1 DEF Steady, archiveVars, PrepareBackupManifest, RunArchiveJob, ArchiveNext, RenderName,
       PlanArchiveFiles, CreateArchive, WriteArchive, FinishArchive, StatArtifact
  <2> QED
    BY <2>1, <2>2, <2>3
<1> QED
  BY <1>3, <1>4, <1>5, <1>6 DEF Made

LEMMA ClockInit == Init => ClockInv
<1> SUFFICES ASSUME Init PROVE ClockInv
  OBVIOUS
<1>1. Made = {now}
  <2>1. marker.made = now /\ snapshots = {} /\ DOMAIN data = {} /\ DOMAIN remote = {}
    <3>1. marker = [made |-> now, dirs |-> {}] /\ snapshots = {} /\ data = <<>> /\ remote = <<>>
      BY DEF Init
    <3> QED
      BY <3>1
  <2> QED
    BY <2>1 DEF Made
<1>2. now \in Times /\ ~Later(now, now)
  BY BaseInit, TimesOrdered DEF BaseInv, JobInv
<1> QED
  BY <1>1, <1>2 DEF Init, ClockInv

LEMMA ClockStep == BaseInv /\ ClockInv /\ [Next]_vars => ClockInv'
<1> SUFFICES ASSUME BaseInv, ClockInv, [Next]_vars PROVE ClockInv'
  OBVIOUS
<1>1. now \in Times /\ ~Later(now, now) /\ jobs \in Nat
  BY JobAssumption, TimesOrdered DEF BaseInv, JobInv, TypeOK
<1>2. CASE StartJob
  <2>1. Made' = Made
    BY <1>2 DEF StartJob, Made, destVars
  <2>2. now' \in Times /\ (Later(now', now) \/ jobs = 0)
    BY <1>2 DEF StartJob, Times
  <2>3. ASSUME NEW t \in Made PROVE t \in Times /\ ~Later(t, now')
    <3>1. t \in Times /\ ~Later(t, now)
      BY DEF ClockInv
    <3>2. CASE Later(now', now)
      BY <1>1, <2>2, <3>1, <3>2, TimesOrdered
    <3>3. CASE jobs = 0
      <4>1. t = [date |-> 0, time |-> 0]
        BY <3>3 DEF ClockInv
      <4> QED
        BY <2>2, <3>1, <4>1, TimesOrdered
    <3> QED
      BY <2>2, <3>2, <3>3
  <2>4. jobs' # 0
    <3>1. jobs' = jobs + 1
      BY <1>2 DEF StartJob
    <3> QED
      BY <1>1, <3>1
  <2> QED
    BY <2>1, <2>3, <2>4 DEF ClockInv
<1>3. CASE Backup
  <2>1. step # "idle" /\ UNCHANGED <<jobs, now>>
    BY <1>3, BackupSteady DEF Steady, RunSteps, EndSteps
  <2> QED
    BY <1>1, <1>3, <2>1, MadeNow DEF ClockInv
<1>4. CASE Crash \/ Cancel \/ Timeout \/ Verification
  <2>1. step # "idle" /\ UNCHANGED <<jobs, now>>
    BY <1>4, VerificationSteady DEF Crash, Cancel, Timeout, VerifySteps, jobVars
  <2>2. UNCHANGED <<marker, data, snapshots, remote>>
    BY <1>4, VerificationSteady DEF Crash, Cancel, Timeout, destVars, archiveVars
  <2>3. Made' = Made
    BY <2>2 DEF Made
  <2> QED
    BY <2>1, <2>3 DEF ClockInv
<1>5. CASE UNCHANGED vars
  BY <1>5 DEF vars, jobVars, archiveVars, destVars, ClockInv, Made
<1> QED
  BY <1>2, <1>3, <1>4, <1>5 DEF Next

LEMMA ClockTimes == ClockInv => TimeInv
  BY DEF ClockInv, Made, TimeInv

-----------------------------------------------------------------------------
(***************************************************************************)
(* What the runner has stored.                                             *)
(***************************************************************************)
LEMMA RunBackup == BaseInv /\ ClockInv /\ PathsInv /\ RunInv /\ Backup => PathsInv' /\ RunInv'
<1> SUFFICES ASSUME BaseInv, ClockInv, PathsInv, RunInv, Backup PROVE PathsInv' /\ RunInv'
  OBVIOUS
<1>0. UNCHANGED <<dumps, now>> => DumpPaths' = DumpPaths
  BY DEF DumpPaths, StagedDump
<1> USE <1>0 DEF PathsInv, RunInv, PreparedSteps, AfterBackup, Archive, Plain, SnapshotStored, Kept, jobVars
<1>1. CASE EnsureRcloneConf
  BY <1>1 DEF EnsureRcloneConf, destVars, dumpVars, workVars
<1>2. CASE ResolvePolicyBackupSources
  BY <1>2 DEF ResolvePolicyBackupSources
<1>3. CASE RunPreHook
  BY <1>3 DEF RunPreHook, PreHookFails
<1>4. CASE PrepareDatabaseBackupSources
  BY <1>4 DEF PrepareDatabaseBackupSources, workVars, destVars
<1>5. CASE DumpsPrepared
  BY <1>5 DEF DumpsPrepared, dumpVars
<1>6. CASE PrepareBackupManifest
  BY <1>6 DEF PrepareBackupManifest, dumpVars, destVars
<1>7. CASE RunArchiveJob
  BY <1>7 DEF RunArchiveJob, workVars, destVars, dumpVars
<1>8. CASE ArchiveJobReturns
  BY <1>8 DEF ArchiveJobReturns, workVars, destVars, dumpVars
<1>9. CASE InitRepo
  BY <1>9 DEF InitRepo, RunnerStep, RunnerOutcomes, dumpVars
<1>10. CASE ResticBackup
  <2>1. SnapshotStored' \/ step' # "forget"
    <3>1. Snapshot(TRUE).made = now /\ Snapshot(TRUE).whole /\ Snapshot(TRUE).items = backupDirs \ policy.excludes
      BY DEF Snapshot
    <3>2. UNCHANGED <<now, policy, backupDirs>> /\ (step' # "forget" \/ Snapshot(TRUE) \in snapshots')
      BY <1>10 DEF ResticBackup, RunnerStep, RunnerOutcomes
    <3> QED
      BY <3>1, <3>2
  <2> QED
    BY <1>10, <2>1 DEF ResticBackup, RunnerStep, RunnerOutcomes, dumpVars
<1>11. CASE SyncDir
  BY <1>11 DEF SyncDir, RunnerStep, RunnerOutcomes, dumpVars, Set
<1>12. CASE WriteBackupMarker
  BY <1>12 DEF WriteBackupMarker, PlainCopied, RunnerStep, RunnerOutcomes, dumpVars
<1>13. CASE RunForget
  <2>1. SnapshotStored /\ ~Plain => SnapshotStored'
    <3>1. CASE snapshots' = snapshots
      BY <1>13, <3>1 DEF RunForget, RunnerStep
    <3>2. CASE snapshots' = Forget(snapshots)
      <4>1. ASSUME NEW s \in snapshots, s.made = now PROVE s \in Forget(snapshots)
        <5>1. {t \in snapshots : t.paths = s.paths /\ Later(t.made, s.made)} = {}
          BY <4>1, ClockTimes DEF TimeInv
        <5>2. policy.keepLast \in Nat
          BY JobAssumption DEF BaseInv, TypeOK
        <5> QED
          BY <5>1, <5>2, FS_EmptySet DEF Forget
      <4> QED
        BY <1>13, <3>2, <4>1 DEF RunForget, RunnerStep
    <3> QED
      BY <1>13, <3>1, <3>2 DEF RunForget
  <2> QED
    BY <1>13, <2>1 DEF RunForget, RunnerStep, RunnerOutcomes, dumpVars
<1>14. CASE ListSnapshots
  BY <1>14 DEF ListSnapshots, RunnerStep, RunnerOutcomes, dumpVars, destVars
<1>15. CASE RepositorySize
  BY <1>15 DEF RepositorySize, dumpVars, destVars, workVars
<1>16. CASE Verdict
  BY <1>16 DEF Verdict, dumpVars, destVars, workVars
<1>17. CASE RunPostHook
  BY <1>17 DEF RunPostHook, dumpVars, destVars
<1>18. CASE SendTaskResult
  BY <1>18 DEF SendTaskResult, dumpVars, destVars, workVars
<1>19. CASE Cleanup
  BY <1>19 DEF Cleanup, destVars
<1> QED
  BY <1>1, <1>2, <1>3, <1>4, <1>5, <1>6, <1>7, <1>8, <1>9, <1>10, <1>11, <1>12, <1>13, <1>14, <1>15, <1>16, <1>17, <1>18, <1>19 DEF Backup

LEMMA RunInit == Init => PathsInv /\ RunInv
  BY DEF Init, PathsInv, RunInv, PreparedSteps, AfterBackup

LEMMA RunStep == BaseInv /\ ClockInv /\ PathsInv /\ RunInv /\ [Next]_vars => PathsInv' /\ RunInv'
<1> SUFFICES ASSUME BaseInv, ClockInv, PathsInv, RunInv, [Next]_vars PROVE PathsInv' /\ RunInv'
  OBVIOUS
<1>1. CASE StartJob
  BY <1>1 DEF StartJob, PathsInv, RunInv, PreparedSteps, AfterBackup
<1>2. CASE Crash
  BY <1>2 DEF Crash, PathsInv, RunInv, PreparedSteps, AfterBackup
<1>3. CASE Verification
  BY <1>3, VerificationSteady DEF VerifySteps, PathsInv, RunInv, PreparedSteps, AfterBackup
<1>4. CASE Cancel \/ Timeout \/ UNCHANGED vars
  <2>1. UNCHANGED <<step, policy, backupDirs, manifest, todo, data, snapshots, dumps, now, status>>
    BY <1>4 DEF Cancel, Timeout, vars, jobVars, workVars, dumpVars, destVars
  <2>2. DumpPaths' = DumpPaths /\ SnapshotStored' = SnapshotStored
    BY <2>1 DEF DumpPaths, StagedDump, SnapshotStored
  <2> QED
    BY <2>1, <2>2 DEF PathsInv, RunInv, PreparedSteps, AfterBackup, Archive, Plain
<1> QED
  BY RunBackup, <1>1, <1>2, <1>3, <1>4 DEF Next

\* The marker: it is replaced when every directory has been copied, and data is only
\* replaced by the data of a later job.
LEMMA MarkerInit == Init => MarkerAfterData
<1> SUFFICES ASSUME Init PROVE MarkerAfterData
  OBVIOUS
<1>1. marker = [made |-> now, dirs |-> {}]
  BY DEF Init
<1> QED
  BY <1>1 DEF MarkerAfterData

LEMMA MarkerStep == BaseInv /\ ClockInv /\ RunInv /\ MarkerAfterData /\ [Next]_vars => MarkerAfterData'
<1> SUFFICES ASSUME BaseInv, ClockInv, RunInv, MarkerAfterData, [Next]_vars PROVE MarkerAfterData'
  OBVIOUS
<1>1. CASE WriteBackupMarker
  <2>1. UNCHANGED data /\ (UNCHANGED marker \/ marker' = [made |-> now, dirs |-> backupDirs])
    BY <1>1 DEF WriteBackupMarker
  <2>2. \A d \in backupDirs : d \in DOMAIN data /\ data[d] = [made |-> now, whole |-> TRUE]
    BY <1>1 DEF WriteBackupMarker, PlainCopied, RunInv
  <2>3. ~Later(now, now)
    BY TimesOrdered DEF BaseInv, JobInv
  <2> QED
    BY <2>1, <2>2, <2>3 DEF MarkerAfterData
<1>2. CASE SyncDir
  <2>1. PICK d \in todo, whole \in BOOLEAN : data' \in {data, Set(data, d, [made |-> now, whole |-> whole])}
    BY <1>2 DEF SyncDir
  <2>2. UNCHANGED marker /\ ~Later(marker.made, now)
    BY <1>2, ClockTimes DEF SyncDir, TimeInv
  <2> QED
    BY <2>1, <2>2 DEF MarkerAfterData, Set
<1>3. CASE ~WriteBackupMarker /\ ~SyncDir
  <2>1. UNCHANGED <<data, marker>>
    BY <1>3, BackupSteady, VerificationSteady DEF Next, Steady, Stores, ResticBackup, RunForget, StartJob, Cancel,
       Timeout, Crash, destVars, vars
  <2> QED
    BY <2>1 DEF MarkerAfterData
<1> QED
  BY <1>1, <1>2, <1>3

-----------------------------------------------------------------------------
(***************************************************************************)
(* What a verification has checked.                                        *)
(***************************************************************************)
ListedInv == step = "vcheck" => "snapshot_list" \in DOMAIN checks

LEMMA VerifyInit == Init => ListedInv /\ VerifyInv /\ PassedMeansChecked
  BY DEF Init, ListedInv, VerifyInv, PassedMeansChecked

LEMMA ChecksStep == ListedInv /\ VerifyInv /\ Verification => ListedInv' /\ VerifyInv'
<1> SUFFICES ASSUME ListedInv, VerifyInv, Verification PROVE ListedInv' /\ VerifyInv'
  OBVIOUS
<1> USE DEF ListedInv, VerifyInv, RequiredChecks, ContextDone, Set, Kept, workVars
<1>1. CASE VerifyConf
  BY <1>1 DEF VerifyConf
<1>2. CASE VerifyStops
  BY <1>2 DEF VerifyStops
<1>3. CASE ListForVerification
  BY <1>3 DEF ListForVerification, Check
<1>4. CASE NoSnapshots
  BY <1>4 DEF NoSnapshots
<1>5. CASE CheckRepository
  BY <1>5 DEF CheckRepository, Check
<1>6. CASE LsSnapshot
  BY <1>6 DEF LsSnapshot, Check
<1>7. CASE SampleLs
  BY <1>7 DEF SampleLs, Check
<1>8. CASE SampleRestore
  BY <1>8 DEF SampleRestore
<1>9. CASE SampleRestored
  BY <1>9 DEF SampleRestored
<1>10. CASE VerificationEnds
  BY <1>10 DEF VerificationEnds
<1> QED
  BY <1>1, <1>2, <1>3, <1>4, <1>5, <1>6, <1>7, <1>8, <1>9, <1>10 DEF Verification

LEMMA VerifyStep ==
  BaseInv /\ RunInv /\ ListedInv /\ VerifyInv /\ PassedMeansChecked /\ [Next]_vars
    => ListedInv' /\ VerifyInv' /\ PassedMeansChecked'
<1> SUFFICES ASSUME BaseInv, RunInv, ListedInv, VerifyInv, PassedMeansChecked, [Next]_vars
             PROVE  ListedInv' /\ VerifyInv' /\ PassedMeansChecked'
  OBVIOUS
<1>1. CASE StartJob
  BY <1>1 DEF StartJob, ListedInv, VerifyInv, PassedMeansChecked
<1>2. CASE Crash
  BY <1>2 DEF Crash, ListedInv, VerifyInv, PassedMeansChecked, jobVars
<1>3. CASE Backup
  <2>1. UNCHANGED <<checks, kind>> /\ step' \notin VerifySteps /\ (kind = "backup" \/ UNCHANGED status)
    BY <1>3, BackupSteady DEF Steady, RunSteps, EndSteps, VerifySteps, BaseInv, JobInv, ArchiveJobReturns,
       RepositorySize, Verdict, RunPostHook
  <2> QED
    BY <2>1 DEF ListedInv, VerifyInv, PassedMeansChecked, VerifySteps
<1>4. CASE Verification
  <2>1. ListedInv' /\ VerifyInv'
    BY <1>4, ChecksStep
  <2>2. status # "success"
    BY <1>4, VerificationSteady DEF RunInv, VerifySteps
  <2>3. CASE status' = status
    BY <2>1, <2>2, <2>3 DEF PassedMeansChecked
  <2>4. CASE step = "vverdict" /\ step' = "send" /\ status' = VerifyVerdict
    <3>1. UNCHANGED checks
      BY <1>4, <2>4 DEF Verification, VerifyConf, VerifyStops, ListForVerification, NoSnapshots, CheckRepository,
         LsSnapshot, SampleLs, SampleRestore, SampleRestored, VerificationEnds, Check, workVars
    <3> QED
      BY <2>1, <2>4, <3>1 DEF PassedMeansChecked, VerifyVerdict, VerificationOverallStatus, VerifyInv, ContextDone
  <2> QED
    BY <1>4, <2>3, <2>4, VerificationSteady
<1>5. CASE Cancel \/ Timeout \/ UNCHANGED vars
  <2>1. UNCHANGED <<step, checks, status, kind>> /\ (ContextDone' \/ (UNCHANGED ContextDone))
    BY <1>5 DEF Cancel, Timeout, vars, jobVars, workVars, ContextDone
  <2> QED
    BY <2>1 DEF ListedInv, VerifyInv, PassedMeansChecked
<1> QED
  BY <1>1, <1>2, <1>3, <1>4, <1>5 DEF Next

-----------------------------------------------------------------------------
(***************************************************************************)
(* What has been archived.                                                 *)
(***************************************************************************)
LEMMA ArchiveRun == ArchiveInv /\ RunArchiveJob => ArchiveInv'
<1> SUFFICES ASSUME ArchiveInv, RunArchiveJob PROVE ArchiveInv'
  OBVIOUS
<1>1. step = "archive" /\ UNCHANGED <<step, policy, now, backupDirs>>
  BY DEF RunArchiveJob, Kept, jobVars, workVars
<1> USE <1>1 DEF ArchiveInv, Archived, Excluded
<1>2. CASE RenderName
  BY <1>2 DEF RenderName
<1>3. CASE PlanArchiveFiles
  BY <1>3 DEF PlanArchiveFiles, Set, SkippedArchiveFile
<1>4. CASE CreateArchive
  BY <1>4 DEF CreateArchive
<1>5. CASE WriteArchive
  <2>1. CASE archStep' = "failed"
    BY <2>1
  <2>2. CASE archStep' # "failed"
    <3>1. PICK f \in toWrite :
            /\ toWrite' = toWrite \ {f} /\ UNCHANGED archStep
            /\ \/ WriteEntry(f) /\ UNCHANGED missedLate
               \/ missedLate' = missedLate \cup {f} /\ UNCHANGED artifact
      BY <1>5, <2>2 DEF WriteArchive, SkippedArchiveFile
    <3>2. archStep = "write" /\ UNCHANGED <<naming, walk, planned, missed, remote, torn>>
      BY <1>5 DEF WriteArchive
    <3>3. Archived(f)' /\ (\A g : Archived(g) => Archived(g)')
      BY <3>1 DEF WriteEntry, Set, Regular
    <3> QED
      BY <3>1, <3>2, <3>3
  <2> QED
    BY <2>1, <2>2
<1>6. CASE FinishArchive
  BY <1>6 DEF FinishArchive
<1>7. CASE CopyFileToRemote
  BY <1>7 DEF CopyFileToRemote, Set
<1>8. CASE StatArtifact
  BY <1>8 DEF StatArtifact
<1> QED
  BY <1>2, <1>3, <1>4, <1>5, <1>6, <1>7, <1>8 DEF RunArchiveJob, ArchiveNext

LEMMA ArchiveInit == Init => ArchiveInv
  BY DEF Init, ArchiveInv

LEMMA ArchiveStep == ArchiveInv /\ [Next]_vars => ArchiveInv'
<1> SUFFICES ASSUME ArchiveInv, [Next]_vars PROVE ArchiveInv'
  OBVIOUS
<1>1. CASE StartJob \/ Crash \/ Verification
  <2>1. step' # "archive"
    BY <1>1, VerificationSteady DEF StartJob, Crash, VerifySteps
  <2> QED
    BY <2>1 DEF ArchiveInv
<1>2. CASE Backup
  <2>1. CASE RunArchiveJob
    BY <2>1, ArchiveRun
  <2>2. CASE PrepareBackupManifest
    BY <2>2 DEF PrepareBackupManifest, ArchiveInv
  <2> QED
    BY <1>2, <2>1, <2>2, BackupSteady DEF Steady, ArchiveInv
<1>3. CASE Cancel \/ Timeout \/ UNCHANGED vars
  <2>1. UNCHANGED <<step, policy, now, backupDirs, archiveVars>>
    BY <1>3 DEF Cancel, Timeout, vars, jobVars, workVars
  <2> QED
    BY <2>1 DEF ArchiveInv, archiveVars, Archived, Excluded
<1> QED
  BY <1>1, <1>2, <1>3 DEF Next

\* A job that ends well: all is stored at the step that says so, and stays.
LEMMA CompleteBackup ==
  BaseInv /\ RunInv /\ ArchiveInv /\ SuccessIsComplete /\ Backup => SuccessIsComplete'
<1> SUFFICES ASSUME BaseInv, RunInv, ArchiveInv, SuccessIsComplete, Backup,
                    status' = "success", kind' = "backup", ~torn'
             PROVE  /\ policy'.paths \cup DumpPaths' \subseteq manifest'
                    /\ \A f \in manifest' : Stored(f)' \/ Excluded(f)'
  BY DEF SuccessIsComplete
<1>1. Steady
  BY BackupSteady
<1>2. ASSUME UNCHANGED <<policy, now, manifest, dumps, naming, remote, missed, missedLate, torn, data, snapshots>>,
             policy.paths \cup DumpPaths \subseteq manifest,
             \A f \in manifest : Stored(f) \/ Excluded(f)
      PROVE  /\ policy'.paths \cup DumpPaths' \subseteq manifest'
             /\ \A f \in manifest' : Stored(f)' \/ Excluded(f)'
  <2>1. DumpPaths' = DumpPaths
    BY <1>2 DEF DumpPaths, StagedDump
  <2>2. \A f : Stored(f)' = Stored(f) /\ Excluded(f)' = Excluded(f)
    BY <1>2 DEF Stored, Excluded, Regular, Archive, Plain
  <2> QED
    BY <1>2, <2>1, <2>2
<1>3. CASE ArchiveJobReturns
  <2>1. /\ step = "archive" /\ archStep = "ok"
        /\ UNCHANGED <<policy, now, manifest, dumps, naming, remote, missed, missedLate, torn, data, snapshots>>
    BY <1>3 DEF ArchiveJobReturns, Kept, jobVars, workVars, dumpVars, archiveVars, destVars
  <2>2. manifest = backupDirs /\ Archive /\ policy.paths \cup DumpPaths \subseteq manifest
    BY <2>1 DEF RunInv, PreparedSteps
  <2>3. ASSUME NEW f \in manifest PROVE Stored(f) \/ Excluded(f)
    <3>1. /\ naming.path \in DOMAIN remote
          /\ remote[naming.path] = [made |-> now, entries |-> DOMAIN artifact, whole |-> ~torn]
      BY <2>1 DEF ArchiveInv
    <3>2. Archived(f) \/ f \in missed \/ Excluded(f)
      BY <2>1, <2>2 DEF ArchiveInv
    <3>3. LET a == remote[naming.path]
          IN a.made = now /\ a.entries = DOMAIN artifact /\ a.whole
      <4>1. remote[naming.path].made = now /\ remote[naming.path].entries = DOMAIN artifact
        BY <3>1
      <4>2. remote[naming.path].whole = ~torn
        BY <3>1
      <4>3. remote[naming.path].whole
        BY <2>1, <4>2
      <4> QED
        BY <4>1, <4>3
    <3> QED
      BY <2>2, <3>1, <3>2, <3>3 DEF Stored, Archived
  <2> QED
    BY <1>2, <2>1, <2>2, <2>3
<1>4. CASE RepositorySize
  <2>1. /\ step = "size"
        /\ UNCHANGED <<policy, now, manifest, dumps, naming, remote, missed, missedLate, torn, data, snapshots>>
    BY <1>4 DEF RepositorySize, Kept, jobVars, workVars, dumpVars, archiveVars, destVars
  <2>2. manifest = backupDirs /\ ~Archive /\ policy.paths \cup DumpPaths \subseteq manifest
    BY <2>1 DEF RunInv, PreparedSteps, AfterBackup
  <2>3. ASSUME NEW f \in manifest PROVE Stored(f) \/ Excluded(f)
    <3>1. CASE Plain
      BY <2>1, <2>2, <3>1 DEF RunInv, AfterBackup, Stored
    <3>2. CASE ~Plain
      BY <2>1, <2>2, <3>2 DEF RunInv, AfterBackup, SnapshotStored, Stored, Excluded
    <3> QED
      BY <3>1, <3>2
  <2> QED
    BY <1>2, <2>1, <2>2, <2>3
<1>5. CASE ~ArchiveJobReturns /\ ~RepositorySize
  <2>1. status = "success" /\ kind = "backup"
    BY <1>1, <1>5 DEF Steady, Verdict, RunPostHook
  <2>2. step \in {"verdict", "posthook", "send", "cleanup"}
    BY <1>1, <2>1 DEF RunInv, Steady, RunSteps, EndSteps
  <2>3. UNCHANGED <<policy, now, manifest, dumps, naming, remote, missed, missedLate, torn, data, snapshots>>
    BY <1>1, <2>2 DEF Steady, Stores, ResticBackup, SyncDir, WriteBackupMarker, RunForget, RunnerStep, PlainCopied,
       PrepareBackupManifest, RunArchiveJob, RunPreHook, PrepareDatabaseBackupSources, Cleanup,
       dumpVars, archiveVars
  <2> QED
    BY <1>2, <2>1, <2>3 DEF SuccessIsComplete
<1> QED
  BY <1>3, <1>4, <1>5

LEMMA CompleteStep ==
  BaseInv /\ RunInv /\ ArchiveInv /\ SuccessIsComplete /\ [Next]_vars => SuccessIsComplete'
<1> SUFFICES ASSUME BaseInv, RunInv, ArchiveInv, SuccessIsComplete, [Next]_vars PROVE SuccessIsComplete'
  OBVIOUS
<1>1. CASE StartJob
  BY <1>1 DEF StartJob, SuccessIsComplete
<1>2. CASE Backup
  BY <1>2, CompleteBackup
<1>3. CASE Verification
  BY <1>3, VerificationSteady DEF BaseInv, JobInv, SuccessIsComplete
<1>4. CASE Crash \/ Cancel \/ Timeout \/ UNCHANGED vars
  <2>1. UNCHANGED <<policy, now, kind, status, manifest, dumps, naming, remote, missed, missedLate, torn, data, snapshots>>
    BY <1>4 DEF Crash, Cancel, Timeout, vars, jobVars, workVars, dumpVars, archiveVars, destVars
  <2>2. DumpPaths' = DumpPaths
    BY <2>1 DEF DumpPaths, StagedDump
  <2>3. \A f : Stored(f)' = Stored(f) /\ Excluded(f)' = Excluded(f)
    BY <2>1 DEF Stored, Excluded, Regular, Archive, Plain
  <2> QED
    BY <2>1, <2>2, <2>3 DEF SuccessIsComplete
<1> QED
  BY <1>1, <1>2, <1>3, <1>4 DEF Next

-----------------------------------------------------------------------------
(***************************************************************************)
(* Hooks and names.                                                        *)
(***************************************************************************)
LEMMA HooksStep ==
  BaseInv /\ [Next]_vars =>
    [<<snapshots, data, marker, remote>>' # <<snapshots, data, marker, remote>>
       => (policy.preHook => "pre" \in hooks) /\ "post" \notin hooks']_vars
<1> SUFFICES ASSUME BaseInv, Next, <<snapshots, data, marker, remote>>' # <<snapshots, data, marker, remote>>
             PROVE  (policy.preHook => "pre" \in hooks) /\ "post" \notin hooks'
  OBVIOUS
<1>1. Backup
  BY VerificationSteady DEF Next, StartJob, Cancel, Timeout, Crash, destVars, archiveVars
<1>2. Steady
  BY <1>1, BackupSteady
<1>3. step \in {"archive", "backup", "forget"}
  <2>1. Stores \/ RunArchiveJob \/ PrepareBackupManifest
    BY <1>2 DEF Steady, archiveVars
  <2>2. ~PrepareBackupManifest
    BY DEF PrepareBackupManifest, destVars
  <2> QED
    BY <2>1, <2>2 DEF Stores, ResticBackup, SyncDir, WriteBackupMarker, RunForget, RunnerStep, PlainCopied,
       RunArchiveJob
<1>4. UNCHANGED hooks
  BY <1>2, <1>3 DEF Steady, RunPreHook, RunPostHook
<1> QED
  BY <1>3, <1>4 DEF BaseInv, JobInv, RunSteps, HookedSteps

\* What a rendered name says of the time.
LEMMA RenderedTime ==
  ASSUME NEW dir, NEW name
  PROVE  /\ BearsTime(Render(dir, name).path[2], now)
         /\ ~Render(dir, name).warned /\ name \cap {"date", "time"} = {}
              => "datetime" \in DOMAIN Render(dir, name).path[2]
<1>1. Render(dir, name).path[2] = RenderTemplate(name) /\ Render(dir, name).warned = CollisionWarnings(name)
  BY DEF Render
<1>2. "datetime" \in name => "datetime" \in DOMAIN RenderTemplate(name)
  BY DEF RenderTemplate, TimeTokens
<1>3. RenderVariable("datetime") = <<now.date, now.time>>
  BY DEF RenderVariable
<1>4. \A v \in DOMAIN RenderTemplate(name) : RenderTemplate(name)[v] = RenderVariable(v)
  BY DEF RenderTemplate
<1>5. BearsTime(RenderTemplate(name), now)
  BY <1>3, <1>4 DEF BearsTime
<1>6. ~CollisionWarnings(name) /\ name \cap {"date", "time"} = {} => "datetime" \in name
  BY DEF CollisionWarnings, TimeTokens
<1> QED
  BY <1>1, <1>2, <1>5, <1>6

LEMMA NamesRun == BaseInv /\ NamesInv /\ RunArchiveJob => NamesInv'
<1> SUFFICES ASSUME BaseInv, NamesInv, RunArchiveJob PROVE NamesInv'
  OBVIOUS
<1>1. step = "archive" /\ UNCHANGED <<step, policy, now>>
  BY DEF RunArchiveJob, Kept, jobVars
<1> USE <1>1 DEF NamesInv, NotStored, EarlySteps
<1>2. CASE RenderName
  <2>1. CASE archStep' = "failed"
    BY <1>2, <2>1 DEF RenderName
  <2>2. CASE archStep' # "failed"
    <3> DEFINE t == EffectiveTemplates(policy.dirTemplate, policy.nameTemplate)
    <3>1. /\ naming' = Render(t[1], t[2]) /\ archStep = "naming" /\ UNCHANGED remote
      BY <1>2, <2>2 DEF RenderName
    <3>2. t[2] \cap {"date", "time"} = {} \/ policy.nameTemplate \cap {"date", "time"} # {}
      BY DEF EffectiveTemplates
    <3> HIDE DEF t
    <3>3. BearsTime(naming'.path[2], now)
      BY <3>1, RenderedTime
    <3>4. ~naming'.warned /\ policy.nameTemplate \cap {"date", "time"} = {} => "datetime" \in DOMAIN naming'.path[2]
      BY <3>1, <3>2, RenderedTime
    <3> QED
      BY <3>1, <3>3, <3>4 DEF BearsTime
  <2> QED
    BY <2>1, <2>2
<1>3. CASE CopyFileToRemote
  <2>1. archStep = "upload" /\ archStep' \in {"stat", "failed"} /\ UNCHANGED naming
    BY <1>3 DEF CopyFileToRemote
  <2>2. \A p \in DOMAIN remote' : \/ p \in DOMAIN remote /\ remote'[p] = remote[p]
                                  \/ p = naming.path /\ remote'[p].made = now
    BY <1>3 DEF CopyFileToRemote, Set
  <2>3. BearsTime(naming.path[2], now)
    BY <2>1
  <2> QED
    BY <2>1, <2>2, <2>3 DEF BearsTime
<1>4. CASE ~RenderName /\ ~CopyFileToRemote
  <2>1. /\ UNCHANGED <<naming, remote>> /\ archStep' # "naming"
        /\ archStep' \in {"plan", "write", "upload"} => archStep \in {"plan", "write", "upload"}
    BY <1>4 DEF RunArchiveJob, ArchiveNext, PlanArchiveFiles, CreateArchive, WriteArchive, FinishArchive, StatArtifact
  <2> QED
    BY <2>1 DEF BearsTime
<1> QED
  BY <1>2, <1>3, <1>4

LEMMA NamesInit == Init => NamesInv
<1> SUFFICES ASSUME Init PROVE NamesInv
  OBVIOUS
<1>1. DOMAIN remote = {} /\ step = "idle"
  <2>1. remote = <<>> /\ step = "idle"
    BY DEF Init
  <2> QED
    BY <2>1
<1> QED
  BY <1>1 DEF NamesInv

LEMMA NamesStep == BaseInv /\ ClockInv /\ NamesInv /\ [Next]_vars => NamesInv'
<1> SUFFICES ASSUME BaseInv, ClockInv, NamesInv, [Next]_vars PROVE NamesInv'
  OBVIOUS
<1>1. CASE StartJob
  <2>1. UNCHANGED remote /\ now' \in Times /\ (Later(now', now) \/ jobs = 0) /\ step' # "archive"
    BY <1>1 DEF StartJob, Times
  <2>2. ASSUME NEW p \in DOMAIN remote PROVE remote[p].made # now'
    <3>1. remote[p].made \in Times /\ ~Later(remote[p].made, now)
      BY DEF ClockInv, Made
    <3>2. jobs # 0
      <4>1. CASE jobs = 0
        <5>1. remote = <<>>
          BY <4>1 DEF ClockInv
        <5> QED
          BY <5>1
      <4> QED
        BY <4>1
    <3> QED
      BY <2>1, <3>1, <3>2, TimesOrdered DEF BaseInv, JobInv
  <2> QED
    BY <2>1, <2>2 DEF NamesInv, BearsTime
<1>2. CASE Crash \/ Verification
  <2>1. UNCHANGED remote /\ step' \notin EarlySteps \cup {"archive"}
    BY <1>2, VerificationSteady DEF Crash, VerifySteps, EarlySteps, archiveVars
  <2> QED
    BY <2>1 DEF NamesInv, NotStored, BearsTime
<1>3. CASE Backup
  <2>1. Steady
    BY <1>3, BackupSteady
  <2>2. CASE RunArchiveJob
    BY <2>2, NamesRun
  <2>3. CASE PrepareBackupManifest
    <3>1. step = "manifest" /\ UNCHANGED <<remote, now>> /\ (step' = "archive" => archStep' = "naming")
      BY <2>3 DEF PrepareBackupManifest, Kept, jobVars
    <3> QED
      BY <3>1 DEF NamesInv, NotStored, EarlySteps, BearsTime
  <2>4. CASE ~RunArchiveJob /\ ~PrepareBackupManifest
    <3>1. UNCHANGED <<remote, now>> /\ step' # "archive" /\ (step' \in EarlySteps => step \in EarlySteps)
      BY <2>1, <2>4 DEF Steady, archiveVars
    <3> QED
      BY <3>1 DEF NamesInv, NotStored, BearsTime
  <2> QED
    BY <2>2, <2>3, <2>4
<1>4. CASE Cancel \/ Timeout \/ UNCHANGED vars
  <2>1. UNCHANGED <<step, policy, now, archStep, naming, remote>>
    BY <1>4 DEF Cancel, Timeout, vars, jobVars, archiveVars
  <2> QED
    BY <2>1 DEF NamesInv, NotStored, BearsTime
<1> QED
  BY <1>1, <1>2, <1>3, <1>4 DEF Next

LEMMA WarnedStep ==
  BaseInv /\ ClockInv /\ NamesInv /\ [Next]_vars =>
    [\A p \in DOMAIN remote : remote'[p] # remote[p] /\ policy.nameTemplate \cap {"date", "time"} = {}
                                => naming.warned]_<<remote>>
<1> SUFFICES ASSUME BaseInv, ClockInv, NamesInv, [Next]_vars, NEW p \in DOMAIN remote, remote'[p] # remote[p],
                    policy.nameTemplate \cap {"date", "time"} = {}
             PROVE  naming.warned
  OBVIOUS
<1>1. step = "archive" /\ CopyFileToRemote
  <2>1. remote' # remote
    OBVIOUS
  <2>2. Backup
    BY <2>1, VerificationSteady DEF Next, vars, StartJob, Cancel, Timeout, Crash, archiveVars
  <2>3. RunArchiveJob
    BY <2>1, <2>2, BackupSteady DEF Steady, archiveVars, PrepareBackupManifest
  <2> QED
    BY <2>1, <2>3 DEF RunArchiveJob, ArchiveNext, RenderName, PlanArchiveFiles, CreateArchive, WriteArchive,
       FinishArchive, StatArtifact
<1>2. p = naming.path
  BY <1>1 DEF CopyFileToRemote, Set
<1>3. /\ BearsTime(p[2], remote[p].made) /\ BearsTime(p[2], now) /\ remote[p].made # now
      /\ ~naming.warned => "datetime" \in DOMAIN p[2]
  BY <1>1, <1>2 DEF NamesInv, NotStored, CopyFileToRemote
<1>4. remote[p].made \in Times /\ now \in Times
  BY DEF ClockInv, Made, BaseInv, JobInv
<1>5. ASSUME <<remote[p].made.date, remote[p].made.time>> = <<now.date, now.time>> PROVE FALSE
  <2>1. \A a, b \in Times : a.date = b.date /\ a.time = b.time => a = b
    BY DEF Times
  <2>2. remote[p].made.date = now.date /\ remote[p].made.time = now.time
    BY <1>5
  <2> QED
    BY <1>3, <1>4, <2>1, <2>2
<1> QED
  BY <1>3, <1>5 DEF BearsTime

-----------------------------------------------------------------------------
(***************************************************************************)
(* Sizes.                                                                  *)
(***************************************************************************)
LEMMA FitsNone == ASSUME NEW at \in Int PROVE Fits({}, <<>>, at, at)
<1>1. [x \in {} |-> 0] \in [{} -> Int]
  OBVIOUS
<1>2. at <= at
  OBVIOUS
<1> QED
  BY <1>1, <1>2, Zenon DEF Fits

\* A file that is planned gets the place after all others.
LEMMA FitsOneMore ==
  ASSUME NEW sizes, NEW from, NEW to, Fits(DOMAIN sizes, sizes, from, to),
         \A g \in DOMAIN sizes : sizes[g] \in Nat, NEW f, f \notin DOMAIN sizes, NEW n \in Nat
  PROVE  Fits(DOMAIN Set(sizes, f, n), Set(sizes, f, n), from, to + (IF Regular(f) THEN n ELSE 0))
<1> DEFINE S == DOMAIN sizes
           more == Set(sizes, f, n)
           size == IF Regular(f) THEN n ELSE 0
<1>1. /\ DOMAIN more = S \cup {f} /\ Bytes(more, f) = size /\ size \in Nat
      /\ \A g \in S : Bytes(more, g) = Bytes(sizes, g) /\ Bytes(sizes, g) \in Nat
  BY DEF Set, Bytes
<1>2. from \in Int /\ to \in Int /\ from <= to
  BY DEF Fits
<1>3. PICK place \in [S -> Int] : \A x \in S :
        /\ from <= place[x] /\ place[x] + Bytes(sizes, x) <= to
        /\ \A g \in S \ {x} : place[x] + Bytes(sizes, x) <= place[g] \/ place[g] + Bytes(sizes, g) <= place[x]
  BY DEF Fits
<1> DEFINE new == [x \in S \cup {f} |-> IF x = f THEN to ELSE place[x]]
<1>4. new \in [S \cup {f} -> Int] /\ new[f] = to /\ (\A x \in S : new[x] = place[x] /\ place[x] \in Int)
  BY <1>2
<1> HIDE DEF S, more, size, new
<1>5. ASSUME NEW x \in S \cup {f}
      PROVE  /\ from <= new[x] /\ new[x] + Bytes(more, x) <= to + size
             /\ \A g \in (S \cup {f}) \ {x} : \/ new[x] + Bytes(more, x) <= new[g]
                                              \/ new[g] + Bytes(more, g) <= new[x]
  <2>1. CASE x = f
    BY <1>1, <1>2, <1>3, <1>4, <2>1
  <2>2. CASE x # f
    BY <1>1, <1>2, <1>3, <1>4, <2>2
  <2> QED
    BY <2>1, <2>2
<1>6. to + size \in Int /\ from <= to + size
  BY <1>1, <1>2
<1>7. Fits(S \cup {f}, more, from, to + size)
  BY <1>2, <1>4, <1>5, <1>6 DEF Fits
<1> QED
  BY <1>1, <1>7 DEF more, size

\* A file that is written leaves its place to the others, when it takes no more than it:
\* those before it move behind what was written.
LEMMA FitsOneLess ==
  ASSUME NEW S, NEW sizes, NEW from, NEW to, Fits(S, sizes, from, to),
         \A g \in S : Bytes(sizes, g) \in Nat, NEW f \in S, NEW n \in Nat, n <= Bytes(sizes, f)
  PROVE  Fits(S \ {f}, sizes, from + n, to)
<1>1. from \in Int /\ to \in Int /\ from <= to
  BY DEF Fits
<1>2. PICK place \in [S -> Int] : \A x \in S :
        /\ from <= place[x] /\ place[x] + Bytes(sizes, x) <= to
        /\ \A g \in S \ {x} : place[x] + Bytes(sizes, x) <= place[g] \/ place[g] + Bytes(sizes, g) <= place[x]
  BY DEF Fits
<1> DEFINE end == place[f] + Bytes(sizes, f)
           new == [x \in S \ {f} |-> IF place[x] >= end THEN place[x] ELSE place[x] + n]
<1>3. place[f] \in Int /\ Bytes(sizes, f) \in Nat /\ end \in Int /\ from + n <= end /\ end <= to
  BY <1>1, <1>2
<1>4. /\ new \in [S \ {f} -> Int]
      /\ \A x \in S \ {f} : /\ place[x] \in Int /\ Bytes(sizes, x) \in Nat
                            /\ new[x] = IF place[x] >= end THEN place[x] ELSE place[x] + n
  BY <1>3
<1> HIDE DEF new
<1>5. \A x \in S \ {f} : place[x] >= end \/ place[x] + Bytes(sizes, x) + n <= end
  BY <1>2, <1>3, <1>4
<1> HIDE DEF end
<1>6. ASSUME NEW x \in S \ {f}
      PROVE  /\ from + n <= new[x] /\ new[x] + Bytes(sizes, x) <= to
             /\ \A g \in (S \ {f}) \ {x} : \/ new[x] + Bytes(sizes, x) <= new[g]
                                           \/ new[g] + Bytes(sizes, g) <= new[x]
  <2>1. from + n <= new[x] /\ new[x] + Bytes(sizes, x) <= to
    BY <1>1, <1>2, <1>3, <1>4, <1>5
  <2>2. ASSUME NEW g \in (S \ {f}) \ {x}
        PROVE  new[x] + Bytes(sizes, x) <= new[g] \/ new[g] + Bytes(sizes, g) <= new[x]
    <3>1. place[x] + Bytes(sizes, x) <= place[g] \/ place[g] + Bytes(sizes, g) <= place[x]
      BY <1>2
    <3> QED
      BY <1>3, <1>4, <1>5, <3>1
  <2> QED
    BY <2>1, <2>2
<1>7. from + n \in Int /\ from + n <= to
  BY <1>1, <1>3
<1> QED
  BY <1>1, <1>4, <1>6, <1>7 DEF Fits

ArchiveSizes == SizesInv /\ ArchiveWellFormed

LEMMA SizesInit == Init => ArchiveSizes
<1> SUFFICES ASSUME Init PROVE ArchiveSizes
  OBVIOUS
<1>1. DOMAIN planned = {} /\ DOMAIN artifact = {} /\ archStep = "idle"
  <2>1. planned = <<>> /\ artifact = <<>> /\ archStep = "idle"
    BY DEF Init
  <2> QED
    BY <2>1
<1> QED
  BY <1>1 DEF ArchiveSizes, SizesInv, ArchiveWellFormed

LEMMA SizesRun == ArchiveSizes /\ ArchiveNext => ArchiveSizes'
<1> SUFFICES ASSUME ArchiveSizes, ArchiveNext PROVE ArchiveSizes'
  OBVIOUS
<1>0. MaxSize \in Nat /\ ManifestSize \in Nat
  BY ArchiveAssumption
<1> USE DEF ArchiveSizes, SizesInv, ArchiveWellFormed
<1>1. CASE RenderName
  <2>1. CASE archStep' = "failed"
    BY <1>1, <2>1 DEF RenderName
  <2>2. CASE archStep' # "failed"
    <3>1. /\ planned' = <<>> /\ total' = ManifestSize /\ UNCHANGED artifact /\ archStep' = "plan"
      BY <1>1, <2>2 DEF RenderName
    <3>2. DOMAIN planned' = {}
      BY <3>1
    <3>3. Fits(DOMAIN planned', planned', ManifestSize, total')
      BY <1>0, <3>1, <3>2, FitsNone
    <3> QED
      BY <3>1, <3>2, <3>3
  <2> QED
    BY <2>1, <2>2
<1>2. CASE PlanArchiveFiles
  <2>1. CASE UNCHANGED <<planned, total>>
    BY <1>2, <2>1 DEF PlanArchiveFiles
  <2>2. CASE ~UNCHANGED <<planned, total>>
    <3>1. PICK f \in walk, size \in 0..MaxSize :
            /\ planned' = Set(planned, f, size) /\ total' = total + (IF Regular(f) THEN size ELSE 0)
            /\ walk' = walk \ {f} /\ archStep = "plan" /\ archStep' = "plan" /\ UNCHANGED artifact
      BY <1>2, <2>2 DEF PlanArchiveFiles
    <3>2. f \notin DOMAIN planned /\ size \in Nat /\ \A g \in DOMAIN planned : planned[g] \in Nat
      BY <1>0, <3>1
    <3>3. Fits(DOMAIN planned', planned', ManifestSize, total')
      BY <3>1, <3>2, FitsOneMore
    <3>4. \A g \in DOMAIN planned' : planned'[g] \in 0..MaxSize /\ g \notin walk'
      BY <3>1 DEF Set
    <3> QED
      BY <3>1, <3>3, <3>4
  <2> QED
    BY <2>1, <2>2
<1>3. CASE CreateArchive
  BY <1>3 DEF CreateArchive, Fits
<1>4. CASE WriteArchive
  <2>1. UNCHANGED <<planned, total>> /\ archStep = "write"
    BY <1>4 DEF WriteArchive
  <2>2. CASE archStep' = "failed"
    BY <1>4, <2>1, <2>2 DEF WriteArchive
  <2>3. CASE archStep' # "failed"
    <3>1. PICK f \in toWrite :
            /\ toWrite' = toWrite \ {f} /\ UNCHANGED archStep
            /\ WriteEntry(f) \/ UNCHANGED <<artifact, done>>
      BY <1>4, <2>3 DEF WriteArchive
    <3>2. planned[f] \in 0..MaxSize /\ (\A g \in toWrite : planned[g] \in Nat /\ Bytes(planned, g) \in Nat)
      BY <1>0, <2>1 DEF Bytes
    <3>3. PICK n \in Nat :
            /\ done' = done + n /\ n <= Bytes(planned, f)
            /\ \A g \in DOMAIN artifact' : \/ g \in DOMAIN artifact /\ artifact'[g] = artifact[g]
                                           \/ artifact'[g].data + artifact'[g].zeros = artifact'[g].size
      <4>1. CASE UNCHANGED <<artifact, done>>
        BY <2>1, <3>1, <3>2, <4>1 DEF Fits
      <4>2. CASE WriteEntry(f) /\ ~Regular(f)
        <5>1. UNCHANGED done /\ artifact' \in {artifact, Set(artifact, f, [size |-> 0, data |-> 0, zeros |-> 0])}
          BY <4>2 DEF WriteEntry
        <5> QED
          BY <2>1, <3>1, <3>2, <5>1 DEF Fits, Set
      <4>3. CASE WriteEntry(f) /\ Regular(f)
        <5>1. PICK available \in Nat :
                /\ artifact' = Set(artifact, f, CopyArchiveSource(planned[f], available))
                /\ done' = done + CopyArchiveSource(planned[f], available).data
          BY <1>0, <3>2, <4>3 DEF WriteEntry
        <5> DEFINE entry == CopyArchiveSource(planned[f], available)
        <5>2. /\ entry.data \in Nat /\ entry.data <= planned[f] /\ entry.data + entry.zeros = entry.size
          BY <1>0, <3>2 DEF CopyArchiveSource
        <5>3. \A g \in DOMAIN artifact' : \/ g \in DOMAIN artifact /\ artifact'[g] = artifact[g]
                                          \/ artifact'[g] = entry
          BY <5>1 DEF Set
        <5> HIDE DEF entry
        <5>4. \A g \in DOMAIN artifact' : \/ g \in DOMAIN artifact /\ artifact'[g] = artifact[g]
                                          \/ artifact'[g].data + artifact'[g].zeros = artifact'[g].size
          BY <5>2, <5>3
        <5>5. done' = done + entry.data /\ entry.data <= Bytes(planned, f)
          BY <4>3, <5>1, <5>2 DEF entry, Bytes
        <5> QED
          BY <5>2, <5>4, <5>5
      <4> QED
        BY <3>1, <4>1, <4>2, <4>3
    <3>4. Fits(toWrite', planned, done', total)
      BY <2>1, <3>1, <3>2, <3>3, FitsOneLess
    <3> QED
      BY <2>1, <3>1, <3>3, <3>4 DEF Fits
  <2> QED
    BY <2>2, <2>3
<1>5. CASE FinishArchive
  BY <1>5 DEF FinishArchive, Fits
<1>6. CASE CopyFileToRemote
  BY <1>6 DEF CopyFileToRemote
<1>7. CASE StatArtifact
  BY <1>7 DEF StatArtifact
<1> QED
  BY <1>1, <1>2, <1>3, <1>4, <1>5, <1>6, <1>7 DEF ArchiveNext

LEMMA SizesStep == ArchiveSizes /\ [Next]_vars => ArchiveSizes'
<1> SUFFICES ASSUME ArchiveSizes, [Next]_vars PROVE ArchiveSizes'
  OBVIOUS
<1>1. CASE StartJob
  <2>1. planned' = <<>> /\ artifact' = <<>> /\ archStep' = "idle"
    BY <1>1 DEF StartJob
  <2>2. DOMAIN planned' = {} /\ DOMAIN artifact' = {}
    BY <2>1
  <2> QED
    BY <2>1, <2>2 DEF ArchiveSizes, SizesInv, ArchiveWellFormed
<1>2. CASE RunArchiveJob
  BY <1>2, SizesRun DEF RunArchiveJob
<1>3. CASE ~StartJob /\ ~RunArchiveJob
  <2>1. UNCHANGED <<walk, planned, toWrite, artifact, done, total>> /\ (UNCHANGED archStep \/ archStep' \in {"idle", "naming"})
    BY <1>3, BackupSteady, VerificationSteady DEF Next, vars, Steady, Cancel, Timeout, Crash, PrepareBackupManifest,
       archiveVars
  <2> QED
    BY <2>1 DEF ArchiveSizes, SizesInv, ArchiveWellFormed
<1> QED
  BY <1>1, <1>2, <1>3

-----------------------------------------------------------------------------
(***************************************************************************)
(* Dumps.                                                                  *)
(***************************************************************************)
LEMMA TailFacts ==
  ASSUME NEW S, NEW q \in Seq(S), q # <<>>
  PROVE  /\ Head(q) = q[1] /\ q[1] \in S /\ Len(q) \in Nat \ {0} /\ 1 \in DOMAIN q /\ DOMAIN q = 1..Len(q)
         /\ Tail(q) \in Seq(S) /\ Len(Tail(q)) = Len(q) - 1 /\ DOMAIN Tail(q) = 1..(Len(q) - 1)
         /\ \A n \in 1..(Len(q) - 1) : Tail(q)[n] = q[n + 1]
         /\ Tail(q) # <<>> => Len(q) > 1
<1>1. Len(q) \in Nat \ {0} /\ DOMAIN q = 1..Len(q) /\ \A n \in 1..Len(q) : q[n] \in S
  BY EmptySeq, LenProperties
<1>2. Head(q) = q[1] /\ Tail(q) \in Seq(S) /\ Len(Tail(q)) = Len(q) - 1
  BY HeadTailProperties
<1>3. \A n \in 1..(Len(q) - 1) : Tail(q)[n] = q[n + 1]
  BY HeadTailProperties
<1>4. DOMAIN Tail(q) = 1..(Len(q) - 1)
  BY <1>2, LenProperties
<1>5. Len(q) = 1 => Tail(q) = <<>>
  <2>1. Len(q) = 1 => Len(Tail(q)) = 0
    BY <1>2
  <2>2. Tail(q) \in Seq(S)
    BY <1>2
  <2>3. Len(Tail(q)) = 0 => Tail(q) = <<>>
    BY ONLY <2>2, EmptySeq
  <2> QED
    BY <2>1, <2>3
<1> QED
  BY <1>1, <1>2, <1>3, <1>4, <1>5

\* The dumps of a source are listed.
LEMMA DumpsListed ==
  ASSUME NEW p \in Policy, NEW s \in Range(p.databases)
  PROVE  Dumps(s) \in Seq(Range(Dumps(s))) /\ (~s.all => Dumps(s) = DumpSource(s) /\ Len(Dumps(s)) = 1)
<1>1. s.databases \in Seq(Database)
  BY PolicyAssumption DEF Range
<1>2. CASE s.all
  <2> DEFINE list == ParseDatabaseList(s)
             names == [i \in DOMAIN list |-> DumpFileNameForDatabase(s, list[i])]
             kept == {i \in DOMAIN s.databases : ~SkipDatabase(s, s.databases[i])}
  <2>1. IsFiniteSet(DOMAIN s.databases)
    <3>1. DOMAIN s.databases = 1..Len(s.databases) /\ 1 \in Int /\ Len(s.databases) \in Int
      BY <1>1, LenProperties
    <3> QED
      BY <3>1, FS_Interval
  <2>2. Cardinality(kept) \in Nat
    BY <2>1, FS_Subset, FS_CardinalityType
  <2>3. DOMAIN list = 1..Cardinality(kept)
    BY DEF ParseDatabaseList
  <2>4. Dumps(s) = [i \in DOMAIN list |-> Dump(s, list[i], UniqueDumpFileName(names, i))]
    BY <1>2 DEF Dumps, DumpAllDatabases
  <2> HIDE DEF list, names, kept
  <2>5. Dumps(s) \in [1..Cardinality(kept) -> Range(Dumps(s))]
    BY <2>3, <2>4 DEF Range
  <2> QED
    BY <1>2, <2>2, <2>5
<1>3. CASE ~s.all
  <2> DEFINE d == Dump(s, s.databases[1], DumpFileName(s, s.databases[1]))
  <2>1. Dumps(s) = <<d>> /\ Dumps(s) = DumpSource(s)
    BY <1>3 DEF Dumps, DumpSource
  <2> HIDE DEF d
  <2>2. Dumps(s) \in Seq(Range(Dumps(s))) /\ Len(Dumps(s)) = 1
    BY <2>1 DEF Range
  <2> QED
    BY <2>1, <2>2
<1> QED
  BY <1>2, <1>3

\* Where Prepare stands when it works on a source.
LEMMA AtSource ==
  ASSUME policy \in Policy, SourcesPlace, sources # <<>>
  PROVE  /\ Head(sources) \in Range(policy.databases)
         /\ Handled \in Nat /\ Handled + 1 \in DOMAIN policy.databases
         /\ Head(sources) = policy.databases[Handled + 1]
         /\ Range(Dumps(Head(sources))) \subseteq AllDumps
<1> DEFINE R == Range(policy.databases)
<1>1. policy.databases \in Seq(R)
  BY PolicyAssumption
<1>2. sources \in Seq(R) /\ Len(sources) <= Len(policy.databases)
  BY DEF SourcesPlace
<1> HIDE DEF R
<1>3. /\ Head(sources) = sources[1] /\ sources[1] \in R /\ Len(sources) \in Nat \ {0} /\ 1 \in DOMAIN sources
  BY <1>2, TailFacts
<1>4. Len(policy.databases) \in Nat /\ DOMAIN policy.databases = 1..Len(policy.databases)
  BY <1>1, LenProperties
<1>5. sources[1] = policy.databases[Handled + 1]
  BY <1>3 DEF SourcesPlace
<1>6. Handled \in Nat /\ Handled + 1 \in DOMAIN policy.databases
  BY <1>2, <1>3, <1>4 DEF Handled
<1> QED
  BY <1>3, <1>5, <1>6 DEF R, AllDumps

\* The dumps so far when one is added, or when Prepare goes on without one.
LEMMA PlaceOn ==
  ASSUME policy \in Policy, step = "dumps", PlaceInv, KeptInv, UNCHANGED <<step, policy>>,
         NextSource \/ ListDatabases
  PROVE  PlaceInv' /\ KeptInv'
<1>1. CASE dumpStep' = "failed" \/ dumpStep' = "ok"
  <2>1. KeptInv'
    <3>1. CASE NextSource
      BY <1>1, <3>1 DEF KeptInv, NextSource
    <3>2. CASE ListDatabases
      BY <1>1, <3>2 DEF KeptInv, ListDatabases, PrepareFails
    <3> QED
      BY <3>1, <3>2
  <2> QED
    BY <1>1, <2>1 DEF PlaceInv
<1>2. CASE dumpStep' \notin {"failed", "ok"}
  <2>1. /\ dumpStep \in {"source", "list"} /\ dumpStep' \in {"list", "dump"} /\ sources # <<>>
        /\ UNCHANGED <<sources, dumps, stage, files>>
        /\ dumpStep' = "list" => Head(sources).all
        /\ dumpStep' = "dump" => databases' = Dumps(Head(sources)) /\ databases' # <<>>
    <3>1. CASE NextSource
      <4>1. DumpSource(Head(sources)) # <<>>
        BY DEF DumpSource
      <4> QED
        BY <1>2, <3>1, <4>1 DEF NextSource, Dumps, PlaceInv, SourcesPlace
    <3>2. CASE ListDatabases
      BY <1>2, <3>2 DEF ListDatabases, PrepareFails, Dumps, PlaceInv, SourcesPlace
    <3> QED
      BY <3>1, <3>2
  <2>2. SourcesPlace /\ dumps \in Seq(AllDumps) /\ \A m \in DOMAIN dumps : Dumped(m)
    BY <2>1 DEF PlaceInv
  <2>3. SourcesPlace'
    BY <2>1, <2>2 DEF SourcesPlace, Handled
  <2>4. dumpStep' = "dump" => DatabasesPlace'
    <3> SUFFICES ASSUME dumpStep' = "dump" PROVE DatabasesPlace'
      OBVIOUS
    <3> DEFINE D == Dumps(Head(sources))
    <3>1. D \in Seq(Range(D)) /\ databases' = D /\ D # <<>>
      BY <2>1, <2>2, AtSource, DumpsListed
    <3>2. Head(sources') = Head(sources)
      BY <2>1
    <3> HIDE DEF D
    <3>3. Len(D) \in Nat /\ Len(D) <= Len(D) /\ \A n \in DOMAIN D : D[n] = D[(Len(D) - Len(D)) + n]
      BY <3>1, LenProperties
    <3> QED
      BY <3>1, <3>2, <3>3 DEF DatabasesPlace, Taken, D
  <2>5. \A m \in DOMAIN dumps' : Dumped(m)'
    <3>1. Handled' = Handled
      BY <2>1 DEF Handled
    <3> QED
      BY <2>1, <2>2, <3>1 DEF Dumped
  <2>6. KeptInv'
    BY <2>1 DEF KeptInv, NamesApart
  <2>7. dumps' \in Seq(AllDumps')
    BY <2>1, <2>2 DEF AllDumps
  <2> QED
    BY <2>3, <2>4, <2>5, <2>6, <2>7 DEF PlaceInv
<1> QED
  BY <1>1, <1>2

LEMMA PlaceStarts ==
  ASSUME policy \in Policy, UNCHANGED <<step, policy>>, Prepare
  PROVE  PlaceInv' /\ KeptInv'
<1>1. dumps' = <<>> /\ sources' = policy.databases /\ dumpStep' \in {"source", "ok", "failed"}
  BY DEF Prepare
<1>2. DOMAIN dumps' = {}
  BY <1>1
<1>3. SourcesPlace' \/ dumpStep' # "source"
  <2> DEFINE pd == policy.databases
  <2>1. pd \in Seq(Range(pd)) /\ policy'.databases = pd /\ sources' = pd
    BY <1>1, PolicyAssumption
  <2> HIDE DEF pd
  <2>2. Len(pd) \in Nat /\ Len(pd) <= Len(pd) /\ \A n \in DOMAIN pd : pd[n] = pd[(Len(pd) - Len(pd)) + n]
    BY <2>1, LenProperties
  <2> QED
    BY <2>1, <2>2 DEF SourcesPlace, Handled
<1>4. dumps' \in Seq(AllDumps')
  BY <1>1, EmptySeq
<1> QED
  BY <1>1, <1>2, <1>3, <1>4 DEF PlaceInv, KeptInv

LEMMA PlaceDump ==
  ASSUME policy \in Policy, step = "dumps", PlaceInv, KeptInv, UNCHANGED <<step, policy>>, DumpSingleDatabase
  PROVE  PlaceInv' /\ KeptInv'
<1> DEFINE s == Head(sources)
           D == Dumps(s)
           d == Head(databases)
<1>1. CASE dumpStep' = "failed"
  BY <1>1 DEF PlaceInv, KeptInv
<1>2. CASE dumpStep' # "failed"
  <2>1. /\ dumpStep = "dump" /\ dumps' = Append(dumps, d) /\ databases' = Tail(databases) /\ UNCHANGED stage
        /\ files' = [n \in DOMAIN files \cup {d.name} |-> IF n = d.name THEN d ELSE files[n]]
        /\ \/ Tail(databases) = <<>> /\ dumpStep' = "source" /\ sources' = Tail(sources)
           \/ Tail(databases) # <<>> /\ UNCHANGED <<dumpStep, sources>>
    BY <1>2 DEF DumpSingleDatabase, PrepareFails
  <2>2. SourcesPlace /\ DatabasesPlace /\ dumps \in Seq(AllDumps) /\ \A m \in DOMAIN dumps : Dumped(m)
    BY <2>1 DEF PlaceInv
  <2>3. sources # <<>>
    BY <2>1, <2>2 DEF SourcesPlace
  <2>4. /\ s \in Range(policy.databases) /\ Handled \in Nat /\ Handled + 1 \in DOMAIN policy.databases
        /\ s = policy.databases[Handled + 1] /\ Range(D) \subseteq AllDumps
    BY <2>2, <2>3, AtSource
  <2>5. D \in Seq(Range(D)) /\ Len(D) \in Nat /\ DOMAIN D = 1..Len(D)
    BY <2>4, DumpsListed, LenProperties
  <2>6. /\ databases \in Seq(Range(D)) /\ databases # <<>> /\ Len(databases) <= Len(D)
        /\ \A n \in DOMAIN databases : databases[n] = D[Taken + n]
    BY <2>2 DEF DatabasesPlace
  <2>7. Taken = Len(D) - Len(databases)
    BY DEF Taken
  <2> HIDE DEF s, D, d
  <2>8. /\ d = databases[1] /\ Len(databases) \in Nat \ {0} /\ 1 \in DOMAIN databases
        /\ DOMAIN databases = 1..Len(databases)
        /\ Tail(databases) \in Seq(Range(D)) /\ Len(Tail(databases)) = Len(databases) - 1
        /\ DOMAIN Tail(databases) = 1..(Len(databases) - 1)
        /\ \A n \in 1..(Len(databases) - 1) : Tail(databases)[n] = databases[n + 1]
    BY <2>6, TailFacts DEF d
  <2>9. Taken \in Nat /\ Taken + 1 \in DOMAIN D /\ d = D[Taken + 1]
    BY <2>5, <2>6, <2>7, <2>8
  <2>10. d \in AllDumps
    <3>1. d \in Range(D)
      BY <2>9 DEF Range
    <3> QED
      BY <2>4, <3>1
  <2>11. /\ dumps' \in Seq(AllDumps) /\ Len(dumps) \in Nat /\ DOMAIN dumps = 1..Len(dumps)
         /\ DOMAIN dumps' = 1..(Len(dumps) + 1) /\ dumps'[Len(dumps) + 1] = d
         /\ \A m \in 1..Len(dumps) : dumps'[m] = dumps[m]
    BY <2>1, <2>2, <2>10, AppendProperties, LenProperties
  <2>12. /\ sources \in Seq(Range(policy.databases)) /\ Len(sources) \in Nat \ {0}
         /\ Tail(sources) \in Seq(Range(policy.databases)) /\ Len(Tail(sources)) = Len(sources) - 1
         /\ DOMAIN Tail(sources) = 1..(Len(sources) - 1) /\ DOMAIN sources = 1..Len(sources)
         /\ \A n \in 1..(Len(sources) - 1) : Tail(sources)[n] = sources[n + 1]
    BY <2>2, <2>3, TailFacts DEF SourcesPlace
  \* What has been dumped counts as handled, or as taken.
  <2>13. \/ dumpStep' = "source" /\ Handled' = Handled + 1
         \/ dumpStep' = "dump" /\ Handled' = Handled /\ Taken' = Taken + 1
    <3>1. Handled \in Int /\ Taken \in Int /\ Len(policy.databases) \in Int
      <4>1. policy.databases \in Seq(Range(policy.databases))
        BY PolicyAssumption
      <4> QED
        BY <2>4, <2>9, <4>1, LenProperties
    <3>2. CASE dumpStep' = "source"
      <4>1. Handled' = Len(policy.databases) - Len(Tail(sources))
        <5>1. sources' = Tail(sources)
          BY <2>1, <3>2
        <5> QED
          BY <5>1 DEF Handled
      <4>2. Handled = Len(policy.databases) - Len(sources)
        BY DEF Handled
      <4> QED
        BY <2>12, <3>1, <3>2, <4>1, <4>2
    <3>3. CASE dumpStep' # "source"
      <4>1. Handled' = Handled /\ dumpStep' = "dump" /\ Taken' = Len(D) - Len(Tail(databases))
        BY <2>1, <3>3 DEF Handled, Taken, D, s
      <4> QED
        BY <2>5, <2>7, <2>8, <4>1
    <3> QED
      BY <3>2, <3>3
  <2>14. \A m \in DOMAIN dumps' : Dumped(m)'
    <3>1. ASSUME NEW m \in DOMAIN dumps PROVE Dumped(m)'
      <4>1. PICK k \in DOMAIN policy.databases : \E i \in DOMAIN Dumps(policy.databases[k]) :
              /\ dumps[m] = Dumps(policy.databases[k])[i]
              /\ k <= Handled \/ (k = Handled + 1 /\ i <= Taken)
        BY <2>2 DEF Dumped
      <4>2. PICK i \in DOMAIN Dumps(policy.databases[k]) :
              /\ dumps[m] = Dumps(policy.databases[k])[i]
              /\ k <= Handled \/ (k = Handled + 1 /\ i <= Taken)
        BY <4>1
      <4>3. k \in Int /\ (k = Handled + 1 => i \in Int)
        <5>1. policy.databases \in Seq(Range(policy.databases))
          BY PolicyAssumption
        <5>2. k \in Int
          BY <5>1, LenProperties
        <5> QED
          BY <2>4, <2>5, <5>2 DEF D
      <4>4. dumps'[m] = dumps[m]
        BY <2>11
      <4>5. k <= Handled' \/ (dumpStep' = "dump" /\ k = Handled' + 1 /\ i <= Taken')
        BY <2>4, <2>9, <2>13, <4>2, <4>3
      <4> QED
        BY <4>2, <4>4, <4>5 DEF Dumped
    <3>2. ASSUME NEW m \in DOMAIN dumps', m = Len(dumps) + 1 PROVE Dumped(m)'
      <4>1. dumps'[m] = Dumps(policy.databases[Handled + 1])[Taken + 1]
        BY <2>4, <2>9, <2>11, <3>2 DEF D
      <4>2. Taken + 1 \in DOMAIN Dumps(policy.databases[Handled + 1])
        BY <2>4, <2>9 DEF D
      <4>3. Handled + 1 <= Handled' \/ (dumpStep' = "dump" /\ Handled + 1 = Handled' + 1 /\ Taken + 1 <= Taken')
        BY <2>4, <2>9, <2>13
      <4> QED
        BY <2>4, <4>1, <4>2, <4>3 DEF Dumped
    <3> QED
      BY <2>11, <3>1, <3>2
  <2>15. SourcesPlace'
    <3>1. CASE dumpStep' = "source"
      <4>1. sources' = Tail(sources) /\ Handled' = Handled + 1
        BY <2>1, <2>13, <3>1
      <4>2. \A n \in DOMAIN sources' : sources'[n] = policy.databases[Handled' + n]
        <5> SUFFICES ASSUME NEW n \in 1..(Len(sources) - 1) PROVE Tail(sources)[n] = policy.databases[Handled' + n]
          BY <2>12, <4>1
        <5>1. Tail(sources)[n] = sources[n + 1] /\ n + 1 \in DOMAIN sources
          BY <2>12
        <5>2. sources[n + 1] = policy.databases[Handled + (n + 1)]
          BY <2>2, <5>1 DEF SourcesPlace
        <5>3. Handled + (n + 1) = Handled' + n
          BY <2>4, <2>12, <4>1
        <5> QED
          BY <5>1, <5>2, <5>3
      <4>3. Len(sources') <= Len(policy.databases)
        <5>1. Len(sources) <= Len(policy.databases) /\ Len(policy.databases) \in Int
          <6>1. policy.databases \in Seq(Range(policy.databases))
            BY PolicyAssumption
          <6> QED
            BY <2>2, <6>1, LenProperties DEF SourcesPlace
        <5> QED
          BY <2>12, <4>1, <5>1
      <4> QED
        BY <2>12, <3>1, <4>1, <4>2, <4>3 DEF SourcesPlace
    <3>2. CASE dumpStep' = "dump"
      <4>1. UNCHANGED <<dumpStep, sources>>
        BY <2>1, <3>2
      <4> QED
        BY <2>2, <4>1 DEF SourcesPlace, Handled
    <3> QED
      BY <2>13, <3>1, <3>2
  <2>17. dumpStep' = "dump" => DatabasesPlace'
    <3> SUFFICES ASSUME dumpStep' = "dump" PROVE DatabasesPlace'
      OBVIOUS
    <3>1. databases' = Tail(databases) /\ Tail(databases) # <<>> /\ UNCHANGED sources /\ Taken' = Taken + 1
      <4>1. UNCHANGED sources /\ Tail(databases) # <<>>
        BY <2>1
      <4> QED
        BY <2>1, <2>13, <4>1
    <3>2. Dumps(Head(sources'))  = D
      BY <3>1 DEF D, s
    <3>3. \A n \in DOMAIN databases' : databases'[n] = D[Taken' + n]
      <4> SUFFICES ASSUME NEW n \in 1..(Len(databases) - 1) PROVE Tail(databases)[n] = D[Taken' + n]
        BY <2>8, <3>1
      <4>1. Tail(databases)[n] = databases[n + 1] /\ n + 1 \in DOMAIN databases
        BY <2>8
      <4>2. Taken + (n + 1) = Taken' + n
        BY <2>8, <2>9, <3>1
      <4> QED
        BY <2>6, <4>1, <4>2
    <3>4. Len(databases') <= Len(D)
      BY <2>5, <2>6, <2>8, <3>1
    <3> QED
      BY <2>8, <3>1, <3>2, <3>3, <3>4 DEF DatabasesPlace
  <2>18. KeptInv'
    <3> SUFFICES ASSUME stage', NamesApart(policy'), NEW m \in DOMAIN dumps'
                 PROVE  dumps'[m].name \in DOMAIN files' /\ files'[dumps'[m].name] = dumps'[m]
      BY DEF KeptInv
    <3>1. CASE m = Len(dumps) + 1
      BY <2>1, <2>11, <3>1
    <3>2. CASE m # Len(dumps) + 1
      <4>1. m \in DOMAIN dumps /\ dumps'[m] = dumps[m]
        BY <2>11, <3>2
      <4>2. dumps[m].name \in DOMAIN files /\ files[dumps[m].name] = dumps[m]
        BY <2>1, <4>1 DEF KeptInv
      <4>3. PICK k \in DOMAIN policy.databases : \E i \in DOMAIN Dumps(policy.databases[k]) :
              /\ dumps[m] = Dumps(policy.databases[k])[i]
              /\ k <= Handled \/ (k = Handled + 1 /\ i <= Taken)
        BY <2>2, <4>1 DEF Dumped
      <4>4. PICK i \in DOMAIN Dumps(policy.databases[k]) :
              /\ dumps[m] = Dumps(policy.databases[k])[i]
              /\ k <= Handled \/ (k = Handled + 1 /\ i <= Taken)
        BY <4>3
      <4>5. ~(k = Handled + 1 /\ i = Taken + 1)
        BY <2>4, <2>9, <4>4
      <4>6. dumps[m].name # d.name
        <5>1. /\ Handled + 1 \in DOMAIN policy.databases /\ d = Dumps(policy.databases[Handled + 1])[Taken + 1]
              /\ Taken + 1 \in DOMAIN Dumps(policy.databases[Handled + 1])
          BY <2>4, <2>9 DEF D
        <5>2. NamesApart(policy)
          OBVIOUS
        <5> QED
          BY <4>4, <4>5, <5>1, <5>2 DEF NamesApart
      <4> QED
        BY <2>1, <4>1, <4>2, <4>6
    <3> QED
      BY <3>1, <3>2
  <2>16. AllDumps' = AllDumps
    BY DEF AllDumps
  <2> QED
    BY <2>1, <2>11, <2>14, <2>15, <2>16, <2>17, <2>18 DEF PlaceInv
<1> QED
  BY <1>1, <1>2

LEMMA PlaceRun ==
  ASSUME policy \in Policy, step = "dumps", PlaceInv, KeptInv, UNCHANGED <<step, policy>>, DumpNext
  PROVE  PlaceInv' /\ KeptInv'
<1>1. CASE Prepare
  BY <1>1, PlaceStarts
<1>2. CASE NextSource \/ ListDatabases
  BY <1>2, PlaceOn
<1>3. CASE DumpSingleDatabase
  BY <1>3, PlaceDump
<1> QED
  BY <1>1, <1>2, <1>3 DEF DumpNext

LEMMA PlaceInit == Init => PlaceInv /\ KeptInv
  BY DEF Init, PlaceInv, KeptInv

LEMMA PlaceStep == BaseInv /\ PlaceInv /\ KeptInv /\ [Next]_vars => PlaceInv' /\ KeptInv'
<1> SUFFICES ASSUME BaseInv, PlaceInv, KeptInv, [Next]_vars PROVE PlaceInv' /\ KeptInv'
  OBVIOUS
<1>1. CASE StartJob \/ Crash
  <2>1. step' # "dumps" /\ dumpStep' = "idle"
    BY <1>1 DEF StartJob, Crash
  <2> QED
    BY <2>1 DEF PlaceInv, KeptInv
<1>2. CASE PrepareDatabaseBackupSources
  <2>1. policy \in Policy /\ step = "dumps" /\ UNCHANGED <<step, policy>> /\ DumpNext
    BY <1>2 DEF PrepareDatabaseBackupSources, BaseInv, TypeOK
  <2> QED
    BY <2>1, PlaceRun
<1>3. CASE RunPreHook
  <2>1. (step' # "dumps" /\ UNCHANGED dumpVars /\ UNCHANGED policy) \/ dumpStep' = "called"
    BY <1>3 DEF RunPreHook, PreHookFails, dumpVars, Kept, jobVars
  <2> QED
    BY <2>1 DEF PlaceInv, KeptInv, dumpVars
<1>4. CASE Cleanup
  <2>1. step' # "dumps" /\ ~stage'
    BY <1>4 DEF Cleanup, CleanupDumps
  <2> QED
    BY <2>1 DEF PlaceInv, KeptInv
<1>5. CASE Next /\ ~StartJob /\ ~Crash /\ ~PrepareDatabaseBackupSources /\ ~RunPreHook /\ ~Cleanup
  <2>1. UNCHANGED <<dumpVars, policy>> /\ (step' = "dumps" => step = "dumps")
    BY <1>5, BackupSteady, VerificationSteady DEF Next, Steady, Cancel, Timeout, VerifySteps, jobVars
  <2>2. UNCHANGED <<Handled, Taken, AllDumps, SourcesPlace, DatabasesPlace>>
    BY <2>1 DEF dumpVars, Handled, Taken, AllDumps, SourcesPlace, DatabasesPlace
  <2>3. \A m : Dumped(m)' <=> Dumped(m)
    BY <2>1, <2>2 DEF dumpVars, Dumped
  <2> QED
    BY <2>1, <2>2, <2>3 DEF PlaceInv, KeptInv, dumpVars
<1>6. CASE UNCHANGED vars
  <2>1. UNCHANGED <<dumpVars, policy, step>>
    BY <1>6 DEF vars, jobVars
  <2>2. UNCHANGED <<Handled, Taken, AllDumps, SourcesPlace, DatabasesPlace>>
    BY <2>1 DEF dumpVars, Handled, Taken, AllDumps, SourcesPlace, DatabasesPlace
  <2>3. \A m : Dumped(m)' <=> Dumped(m)
    BY <2>1, <2>2 DEF dumpVars, Dumped
  <2> QED
    BY <2>1, <2>2, <2>3 DEF PlaceInv, KeptInv, dumpVars
<1> QED
  BY <1>1, <1>2, <1>3, <1>4, <1>5, <1>6

-----------------------------------------------------------------------------
(***************************************************************************)
(* The theorems.                                                           *)
(***************************************************************************)
BackupIInv ==
  /\ BaseInv /\ ClockInv /\ PathsInv /\ RunInv /\ MarkerAfterData /\ ListedInv /\ VerifyInv
  /\ PassedMeansChecked /\ ArchiveInv /\ SuccessIsComplete /\ NamesInv /\ ArchiveSizes /\ PlaceInv /\ KeptInv

LEMMA BackupIInvCorrect == Spec => []BackupIInv
<1>1. Init => BackupIInv
  <2>1. Init => SuccessIsComplete
    BY DEF Init, SuccessIsComplete
  <2> QED
    BY <2>1, BaseInit, ClockInit, RunInit, MarkerInit, VerifyInit, ArchiveInit, NamesInit, SizesInit, PlaceInit
       DEF BackupIInv
<1>2. BackupIInv /\ [Next]_vars => BackupIInv'
  BY BaseStep, ClockStep, RunStep, MarkerStep, VerifyStep, ArchiveStep, CompleteStep, NamesStep, SizesStep,
     PlaceStep DEF BackupIInv
<1> QED
  BY <1>1, <1>2, PTL DEF Spec

\* What a job keeps true at every step (runBackupForPolicy and what it calls): its
\* temporary files are gone when it ends, dumps do not share a file if their names are
\* apart, the archive is well formed, and each step finds done what the steps before it
\* were to do.
THEOREM BackupCorrect == Spec => []BackupInv
<1>1. KeptInv => DumpsKept
  BY DEF KeptInv, DumpsKept
<1>2. BackupIInv => BackupInv
  BY <1>1, ClockTimes DEF BackupIInv, BaseInv, ArchiveSizes, BackupInv
<1> QED
  BY <1>2, BackupIInvCorrect, PTL

\* A backup that reports success has stored, or names in a warning, all that the policy
\* and the manifest call for, whatever failed or changed on the way, as long as the end
\* of its archive reached the disk (FinishArchive); irregular files of a zip are excepted.
THEOREM BackupComplete == Spec => []SuccessIsComplete
<1>1. BackupIInv => SuccessIsComplete
  BY DEF BackupIInv
<1> QED
  BY <1>1, BackupIInvCorrect, PTL

\* The marker of a plain backup (writeBackupMarker) names no directory whose data is
\* missing or older than itself.
THEOREM MarkerCorrect == Spec => []MarkerAfterData
<1>1. BackupIInv => MarkerAfterData
  BY DEF BackupIInv
<1> QED
  BY <1>1, BackupIInvCorrect, PTL

\* A verification that reports success has made every check, and none failed
\* (RunVerificationJob, the verdict of runBackupVerificationForPolicy).
THEOREM VerificationCorrect == Spec => []PassedMeansChecked
<1>1. BackupIInv => PassedMeansChecked
  BY DEF BackupIInv
<1> QED
  BY <1>1, BackupIInvCorrect, PTL

\* No step of any job stores data outside its hooks (runPolicyHookWithLogs).
THEOREM HooksCorrect == Spec => HooksBracketData
<1>1. BackupIInv /\ [Next]_vars =>
        [<<snapshots, data, marker, remote>>' # <<snapshots, data, marker, remote>>
           => (policy.preHook => "pre" \in hooks) /\ "post" \notin hooks']_vars
  BY HooksStep DEF BackupIInv
<1> QED
  BY <1>1, BackupIInvCorrect, PTL DEF Spec, HooksBracketData

\* No upload replaces an artifact of an earlier job unless its name was warned of
\* (collisionWarnings), names with a date or a time alone left aside.
THEOREM OverwriteCorrect == Spec => OverwriteIsWarned
<1>1. BackupIInv /\ [Next]_vars =>
        [\A p \in DOMAIN remote : remote'[p] # remote[p] /\ policy.nameTemplate \cap {"date", "time"} = {}
                                    => naming.warned]_<<remote>>
  BY WarnedStep DEF BackupIInv
<1> QED
  BY <1>1, BackupIInvCorrect, PTL DEF Spec, OverwriteIsWarned
===============================================================================
