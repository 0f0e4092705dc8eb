----------------------------- MODULE ArchiveJob -----------------------------
(***************************************************************************)
(* Backups in archive mode: artifact naming (internal/artifactnaming) and  *)
(* RunArchiveJobWithProgress (internal/agent/executor/executor.go).        *)
(*                                                                         *)
(* The job renders the name of the artifact from two templates, plans the  *)
(* files with their sizes, writes them to a local tar.gz or zip and        *)
(* uploads it.  The files may appear, grow, shrink and vanish meanwhile.   *)
(*                                                                         *)
(* A template is the set of its tokens; what it renders to is the function *)
(* from these to their values.                                             *)
(***************************************************************************)
EXTENDS DatabaseDump

CONSTANTS
  File,          \* paths that a walk of the sources visits
  Irregular,     \* those that are directories, links, ...
  MaxSize,       \* files have sizes in 0..MaxSize
  ManifestSize   \* size of the manifest in an archive

ASSUME ArchiveAssumption ==
  Irregular \subseteq File /\ MaxSize \in Nat /\ ManifestSize \in Nat

VARIABLES
  now,         \* date and time of the start of the job
  container,   \* name of the first docker source resolved, "" if there is none
  backupDirs,  \* cfg.BackupDirs
  archStep,    \* where RunArchiveJobWithProgress is
  naming,      \* the rendered name: directory, file, warning of a collision
  walk,        \* paths that planArchiveFiles has not visited
  planned,     \* files to archive, with the size they are announced with
  missed,      \* files that the warnings of the plan name
  missedLate,  \* files that the warnings of the writer name
  toWrite,     \* planned files not handled by the writer
  artifact,    \* the local archive: what each file in it consists of
  done, total, \* bytes that the progress reporter counts
  torn,        \* the footer of the archive did not reach the disk
  remote       \* artifacts in the storage, by path

archiveVars == <<archStep, naming, walk, planned, missed, missedLate, toWrite,
                 artifact, done, total, torn, remote>>

ArchSteps == {"idle", "naming", "plan", "write", "upload", "stat", "ok", "failed"}
SupportedVariables ==
  {"date", "time", "datetime", "agent_name", "policy_name", "context_name", "source_type",
   "container_name", "database_name", "ext"}
Literals == {"text"}
TimeTokens == {"date", "time", "datetime"}

-----------------------------------------------------------------------------
\* Naming.

EffectiveTemplates(dir, name) ==
  IF dir = {} /\ name = {} THEN <<{"text"}, {"datetime", "ext"}>>
  ELSE <<IF dir = {} THEN {"agent_name", "context_name", "date"} ELSE dir,
         IF name = {} THEN {"context_name", "agent_name", "datetime", "ext"} ELSE name>>

ValidTemplate(t) == t \subseteq SupportedVariables \cup Literals

InferSourceType ==
  LET seen == (IF policy.paths # {} THEN {"path"} ELSE {})
              \cup (IF policy.containers # <<>> THEN {"docker"} ELSE {})
              \cup (IF policy.databases # <<>> THEN {"database"} ELSE {})
  IN IF Cardinality(seen) = 1 THEN CHOOSE t \in seen : TRUE
     ELSE IF seen = {} THEN "path" ELSE "mixed"

DatabaseName ==
  IF policy.databases = <<>> THEN ""
  ELSE IF policy.databases[1].all THEN "all-databases" ELSE policy.databases[1].databases[1]

InferContextName ==
  CASE InferSourceType = "docker" /\ container # "" -> container
    [] InferSourceType = "database" -> DatabaseName
    [] InferSourceType = "path" /\ Cardinality(policy.paths) = 1 -> CHOOSE f \in policy.paths : TRUE
    [] OTHER -> policy.name

\* The value of a variable; "" for one that this job has no value for.
RenderVariable(v) ==
  CASE v = "date" -> now.date
    [] v = "time" -> now.time
    [] v = "datetime" -> <<now.date, now.time>>
    [] v = "context_name" -> InferContextName
    [] v = "source_type" -> InferSourceType
    [] v = "container_name" -> container
    [] v = "database_name" -> DatabaseName
    [] OTHER -> v

\* renderTemplate; a token without a value leaves nothing in the name.
RenderTemplate(t) ==
  [v \in {w \in t : w \in TimeTokens \/ RenderVariable(w) # ""} |-> RenderVariable(v)]

CollisionWarningsMutant(t) == FALSE
CollisionWarnings(t) == t \cap TimeTokens = {}

RenderFails(dir, name) ==
  \E t \in {dir, name} : ~ValidTemplate(t) \/ DOMAIN RenderTemplate(t) = {}

Render(dir, name) ==
  [path |-> <<RenderTemplate(dir), RenderTemplate(name)>>, warned |-> CollisionWarnings(name)]

-----------------------------------------------------------------------------
\* Writing.  Dumps are staged by the agent itself: nobody else touches them.

Regular(f) == f \notin Irregular
Excluded(f) == f \in policy.excludes
Volatile(f) == f \in File
Set(f, x, v) == [y \in DOMAIN f \cup {x} |-> IF y = x THEN v ELSE f[y]]

SkippedArchiveFileMutant(f) == {}
SkippedArchiveFile(f) == {f}

RenderName ==
  /\ archStep = "naming"
  /\ LET t == EffectiveTemplates(policy.dirTemplate, policy.nameTemplate)
     IN \/ /\ archStep' = "failed"         \* a bad name, or no artifact directory
           /\ UNCHANGED <<naming, walk, planned, missed, missedLate, total>>
        \/ /\ ~RenderFails(t[1], t[2])
           /\ naming' = Render(t[1], t[2])
           /\ archStep' = "plan" /\ walk' = backupDirs
           /\ planned' = <<>> /\ missed' = {} /\ missedLate' = {}
           /\ total' = ManifestSize
  /\ UNCHANGED <<toWrite, artifact, done, torn, remote>>

\* One visit of filepath.Walk.  A regular file is read once to its end.
PlanArchiveFiles ==
  /\ archStep = "plan" /\ walk # {}
  /\ \/ archStep' = "failed" /\ UNCHANGED <<walk, planned, missed, total>>
     \/ \E f \in walk :
          /\ ~cancelled /\ walk' = walk \ {f} /\ UNCHANGED archStep
          /\ \/ /\ Volatile(f) /\ missed' = missed \cup SkippedArchiveFile(f)
                /\ UNCHANGED <<planned, total>>
             \/ Excluded(f) /\ UNCHANGED <<planned, missed, total>>
             \/ ~Excluded(f) /\ \E size \in 0..MaxSize :
                  /\ planned' = Set(planned, f, size)
                  /\ total' = total + (IF Regular(f) THEN size ELSE 0)
                  /\ UNCHANGED missed
  /\ UNCHANGED <<naming, missedLate, toWrite, artifact, done, torn, remote>>

\* os.Create, and the manifest with the warnings so far as the first entry.
CreateArchive ==
  /\ archStep = "plan" /\ walk = {}
  /\ \/ archStep' = "failed" /\ UNCHANGED <<toWrite, artifact, done>>
     \/ /\ archStep' = "write" /\ toWrite' = DOMAIN planned
        /\ artifact' = <<>> /\ done' = ManifestSize
  /\ UNCHANGED <<naming, walk, planned, missed, missedLate, total, torn, remote>>

\* The reader is limited to the announced size and padded to it.
CopyArchiveSource(size, available) ==
  LET data == IF available < size THEN available ELSE size
  IN [size |-> size, data |-> data, zeros |-> size - data]

WriteEntry(f) ==
  IF Regular(f)
  THEN \E available \in IF Volatile(f) THEN 0..MaxSize ELSE {planned[f]} :
         LET entry == CopyArchiveSource(planned[f], available)
         IN artifact' = Set(artifact, f, entry) /\ done' = done + entry.data
  ELSE /\ artifact' = IF policy.format = "zip" THEN artifact
                      ELSE Set(artifact, f, [size |-> 0, data |-> 0, zeros |-> 0])
       /\ UNCHANGED done

WriteArchive ==
  /\ archStep = "write" /\ toWrite # {}
  /\ \/ archStep' = "failed" /\ UNCHANGED <<toWrite, artifact, done, missedLate>>
     \/ \E f \in toWrite :
          /\ ~cancelled /\ toWrite' = toWrite \ {f} /\ UNCHANGED archStep
          /\ \/ WriteEntry(f) /\ UNCHANGED missedLate
             \/ /\ Regular(f) /\ Volatile(f) /\ missedLate' = missedLate \cup SkippedArchiveFile(f)
                /\ UNCHANGED <<artifact, done>>
  /\ UNCHANGED <<naming, walk, planned, missed, total, torn, remote>>

\* reporter.Finish.  The errors of the deferred Close calls are dropped.
FinishArchive ==
  /\ archStep = "write" /\ toWrite = {}
  /\ archStep' = "upload" /\ done' = total /\ torn' \in BOOLEAN
  /\ UNCHANGED <<naming, walk, planned, missed, missedLate, toWrite, artifact, total, remote>>

\* A copy that fails may leave what was there, or a part of the new artifact.
CopyFileToRemote ==
  /\ archStep = "upload"
  /\ \E whole \in BOOLEAN :
       /\ whole => ~cancelled
       /\ \/ ~whole /\ UNCHANGED remote
          \/ remote' = Set(remote, naming.path,
                           [made |-> now, entries |-> DOMAIN artifact, whole |-> whole /\ ~torn])
       /\ archStep' = IF whole THEN "stat" ELSE "failed"
  /\ UNCHANGED <<naming, walk, planned, missed, missedLate, toWrite, artifact, done, total, torn>>

StatArtifact ==
  /\ archStep = "stat" /\ archStep' \in {"ok", "failed"}
  /\ UNCHANGED <<naming, walk, planned, missed, missedLate, toWrite, artifact, done, total, torn, remote>>

ArchiveNext ==
  RenderName \/ PlanArchiveFiles \/ CreateArchive \/ WriteArchive \/ FinishArchive
  \/ CopyFileToRemote \/ StatArtifact

-----------------------------------------------------------------------------
\* A file that grows or shrinks while it is archived does not break the
\* archive: each entry has exactly the bytes its header announces
\* (copyArchiveSource), and progress never passes the total.
ArchiveWellFormed ==
  /\ \A f \in DOMAIN artifact : artifact[f].data + artifact[f].zeros = artifact[f].size
  /\ done <= total \/ archStep \notin {"write", "upload", "stat", "ok"}

\* An upload replaces the artifact of an earlier job only if the preview and
\* the result warned of it (collisionWarnings).  A name with {{date}} or
\* {{time}} alone repeats without a warning; it is left out here.
OverwriteIsWarned ==
  [][\A p \in DOMAIN remote :
       remote'[p] # remote[p] /\ policy.nameTemplate \cap {"date", "time"} = {}
         => naming.warned]_<<remote>>
=============================================================================
