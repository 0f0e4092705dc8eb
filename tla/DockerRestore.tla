--------------------------- MODULE DockerRestore ----------------------------
(***************************************************************************)
(* The Agent's half of a restore (internal/agent/handler.go,               *)
(* handleRestoreReq, and internal/agent/docker/docker.go): the data first, *)
(* then one Docker source after another, each by the commands the code     *)
(* runs; any command may fail, and the task may be cancelled between two   *)
(* of them or during one.                                                  *)
(***************************************************************************)
EXTENDS RestoreRequest

CONSTANTS
  OwnPolicy,   \* the target agent's last stored policy (LoadPolicy), or NoPolicy
  OwnPassword, \* what is in its .restic-password, or "none"
  Hosts        \* the hosts: their containers, and what they have of Compose files

VARIABLES
  host,      \* a container's name -> "absent", "stopped" or "running"
  files,     \* its Compose file on the host: "absent", "plain" or "variables"
  restored,  \* the paths restored from the snapshot
  job        \* the restore task

agentVars == <<host, files, restored, job>>
vars == <<masterVars, agentVars>>

Names  == {Metadata[i].name : i \in DOMAIN Metadata}

ASSUME HostsAssumption ==
  Hosts \subseteq [containers : [Names -> {"absent", "stopped", "running"}],
                   files : [Names -> {"absent", "plain", "variables"}]]

Idle   == [at |-> "idle", policy |-> NoPolicy, items |-> <<>>, completed |-> 0, failed |-> 0,
           cancelled |-> FALSE, status |-> "none"]
Active == job.at \notin {"idle", "ended"}

Sources == command.sources
Next1   == Len(job.items) + 1
Source  == Sources[Next1]
Compose == Source.compose

(***************************************************************************)
(* The preflight on the Agent, asked only when the Master found no error.  *)
(***************************************************************************)
Back(source) == source.paths \subseteq restored

\* The Compose file: the snapshot's, once it is back, or the host's.
ComposeFile(source, back) ==
  IF back /\ source.compose # "absent" THEN source.compose ELSE files[source.name]

\* composeEnvironmentError: there is a Compose file, it holds variables, and no
\* environment file is readable or, for the preflight, planned.
EnvironmentError(source, planned, back) ==
  /\ source.compose # "none"
  /\ ComposeFile(source, back) = "variables"
  /\ ~(source.env /\ (planned \/ back))

\* PreflightRestore; "docker" stands for an engine that does not answer and
\* "path" for a restore path that is not absolute or not writable.
AgentErrors(req, engine, path) ==
  IF ~req.docker THEN If(~path, "target_path_writable")
  ELSE IF ~engine THEN {"docker_available"}
  ELSE If(~path, "docker_restore_path_writable")
       \cup If(\E i \in DOMAIN Selected[req.ids] : Selected[req.ids][i].paths = {}, "docker_restore_paths")
       \cup If(\E i \in DOMAIN Selected[req.ids] : EnvironmentError(Selected[req.ids][i], TRUE, FALSE), "docker_compose_environment")

(***************************************************************************)
(* The job.                                                                *)
(***************************************************************************)
\* handleRestoreReq: the payload's policy, or the agent's own.
Start ==
  /\ command.sent /\ job.at = "idle"
  /\ LET policy == IF command.policy = NoPolicy THEN OwnPolicy ELSE command.policy
     IN job' = [Idle EXCEPT !.at = IF policy = NoPolicy THEN "ended" ELSE "data", !.policy = policy,
                            !.status = IF policy = NoPolicy THEN "failed" ELSE "none"]
  /\ UNCHANGED <<host, files, restored>>

\* ensureRcloneConf fails: the task is answered without items.
PrepareFails ==
  /\ job.at = "data"
  /\ job' = [job EXCEPT !.at = "ended", !.status = "failed"]
  /\ UNCHANGED <<host, files, restored>>

Skipped(n) == [i \in 1..n |-> "skipped"]

\* restoreItemResultsStatus, then the two corrections that follow it.
ItemsStatus(items) ==
  IF items = <<>> THEN "failed"
  ELSE IF "cancelled" \in Range(items) THEN "cancelled"
  ELSE IF Range(items) = {"success"} THEN "success"
  ELSE IF "success" \in Range(items) THEN "partial_success" ELSE "failed"

Status(items, error) ==
  IF job.cancelled THEN "cancelled"
  ELSE IF command.docker THEN ItemsStatus(items)
  ELSE IF error THEN "failed" ELSE "success"

End(items, error) == job' = [job EXCEPT !.at = "ended", !.items = items, !.status = Status(items, error)]

\* The password that runRestore uses is the one on the agent's disk, of the
\* policy last pushed to it; without one it reads a plain backup.
Password == IF job.policy.password = "none" THEN "none" ELSE OwnPassword

\* restoreRunner finds the snapshot only where and how it was written; when
\* it fails it may have written some of the paths.
Readable == [job.policy EXCEPT !.password = Password] = Origin

DataRestored ==
  /\ job.at = "data" /\ Readable /\ ~job.cancelled
  /\ restored' = restored \cup command.paths
  /\ IF command.docker THEN job' = [job EXCEPT !.at = "source"] ELSE End(<<>>, FALSE)
  /\ UNCHANGED <<host, files>>

AfterDataFailsMutant == job' = [job EXCEPT !.at = "source"]
AfterDataFails == End(Skipped(Len(Sources)), TRUE)

DataFails ==
  /\ job.at = "data"
  /\ restored' \in {restored \cup p : p \in IF Readable THEN SUBSET command.paths ELSE {{}}}
  /\ AfterDataFails
  /\ UNCHANGED <<host, files>>

\* RestoreBatch, before each source: a cancelled task skips what is left.
Remaining == Skipped(Len(Sources) - Len(job.items))

\* restoreSource: Compose when its file is there.
FirstCommand ==
  IF Compose # "none" /\ ComposeFile(Source, Back(Source)) # "absent"
  THEN IF EnvironmentError(Source, FALSE, Back(Source)) THEN "error" ELSE "compose"
  ELSE IF Source.network THEN "network" ELSE "start"

BeginSource ==
  /\ job.at = "source" /\ Next1 \in DOMAIN Sources /\ ~job.cancelled
  /\ job' = [job EXCEPT !.at = FirstCommand]
  /\ UNCHANGED <<host, files, restored>>

SkipRest ==
  /\ job.at = "source" /\ Next1 \in DOMAIN Sources /\ job.cancelled
  /\ End(job.items \o Remaining, TRUE)
  /\ UNCHANGED <<host, files, restored>>

EndBatch ==
  /\ job.at = "source" /\ Next1 \notin DOMAIN Sources
  /\ End(job.items, \E i \in DOMAIN job.items : job.items[i] # "success")
  /\ UNCHANGED <<host, files, restored>>

\* The source's item, and the progress that counts it.
Item(result, cancelled) ==
  [job EXCEPT !.at = "source", !.items = Append(@, result), !.completed = @ + 1,
              !.failed = @ + IF result = "success" THEN 0 ELSE 1, !.cancelled = cancelled]

FailedItem(cancelled) == Item(IF cancelled THEN "cancelled" ELSE "failed", cancelled)
Failed == FailedItem(job.cancelled)
Killed == FailedItem(TRUE)

EnvironmentFails ==
  /\ job.at = "error"
  /\ job' = Failed
  /\ UNCHANGED <<host, files, restored>>

\* A docker command that succeeds goes on with next and leaves the container
\* as it says.  One that fails leaves it alone; one that is killed by the
\* cancellation may have been carried out.
SucceedsMutant(container, result) ==
  /\ host' = [host EXCEPT ![Source.name] = container]
  /\ job' = result
  /\ UNCHANGED <<files, restored>>

Succeeds(container, result) ==
  /\ ~job.cancelled
  /\ host' = [host EXCEPT ![Source.name] = container]
  /\ job' = result
  /\ UNCHANGED <<files, restored>>

Fails(container, failed, killed) ==
  /\ \/ host' = host /\ job' = failed
     \/ /\ ~job.cancelled
        /\ host' \in {host, [host EXCEPT ![Source.name] = container]}
        /\ job' = killed
  /\ UNCHANGED <<files, restored>>

Go(at) == [job EXCEPT !.at = at]
GoOn(at, cancelled) == [job EXCEPT !.at = at, !.cancelled = cancelled]

ComposeUp == job.at = "compose" /\ (Succeeds("running", Item("success", FALSE)) \/ Fails("running", Failed, Killed))

EnsureNetwork == job.at = "network" /\ (Succeeds(host[Source.name], Go("start")) \/ Fails(host[Source.name], Failed, Killed))

\* docker start: an existing container is started as it is.
AfterStartFailsMutant(cancelled) == IF Source.image THEN GoOn("remove", cancelled) ELSE Item("success", cancelled)
AfterStartFails(cancelled) == IF Source.image THEN GoOn("remove", cancelled) ELSE FailedItem(cancelled)

DockerStart ==
  /\ job.at = "start"
  /\ \/ host[Source.name] # "absent" /\ Succeeds("running", Item("success", FALSE))
     \/ Fails(IF host[Source.name] = "absent" THEN "absent" ELSE "running",
              AfterStartFails(job.cancelled), AfterStartFails(TRUE))

\* removeExistingDockerContainer: a failed inspection counts as absence.
RemoveExisting ==
  /\ job.at = "remove"
  /\ \/ Succeeds("absent", Go("run"))
     \/ host[Source.name] # "absent" /\ ~job.cancelled /\ Fails("absent", Failed, Killed)
     \/ Fails(host[Source.name], GoOn("run", job.cancelled), GoOn("run", TRUE))

DockerRun ==
  /\ job.at = "run"
  /\ \/ host[Source.name] = "absent" /\ Succeeds("running", Item("success", FALSE))
     \/ Fails(IF host[Source.name] = "absent" THEN "running" ELSE host[Source.name], Failed, Killed)

\* A cancellation that reaches the task between two commands.
Cancel ==
  /\ Active /\ ~job.cancelled
  /\ job' = [job EXCEPT !.cancelled = TRUE]
  /\ UNCHANGED <<host, files, restored>>

AgentStep ==
  \/ Start \/ PrepareFails \/ DataRestored \/ DataFails
  \/ BeginSource \/ SkipRest \/ EndBatch \/ EnvironmentFails
  \/ ComposeUp \/ EnsureNetwork \/ DockerStart \/ RemoveExisting \/ DockerRun

Init ==
  /\ MasterInit
  /\ \E h \in Hosts : host = h.containers /\ files = h.files
  /\ restored = {} /\ job = Idle

Next ==
  \/ /\ \/ \E req \in Requests : Restore(req)
        \/ EditPolicy \/ ReportCapabilities
        \/ \E s \in Storages : EditStorage(s) \/ DeleteStorage(s)
     /\ UNCHANGED agentVars
  \/ (AgentStep \/ Cancel) /\ UNCHANGED masterVars

Spec == Init /\ [][Next]_vars /\ WF_vars(AgentStep /\ UNCHANGED masterVars)

-----------------------------------------------------------------------------
(***************************************************************************)
(* Properties.                                                             *)
(***************************************************************************)
\* The state is well formed.
TypeOK ==
  /\ row \in {NoRow} \cup {[Writer EXCEPT !.storage = s] : s \in Storages}
  /\ storages \in [Storages -> Roots \cup {"none"}]
  /\ caps \subseteq Capability /\ edits \in 0..MaxEdits
  /\ Range(command.sources) \subseteq Range(Metadata)
  /\ host \in [Names -> {"absent", "stopped", "running"}]
  /\ files \in [Names -> {"absent", "plain", "variables"}]
  /\ restored \subseteq command.paths
  /\ Len(job.items) <= Len(Sources) /\ job.completed <= Len(Sources) /\ job.failed <= job.completed

\* A selection the Master accepts (filterDockerRestoreRequest) is one source
\* of the snapshot for each id asked for, whichever of its ids was used, and
\* the sources keep the snapshot's order.
DistinctSelection ==
  \A req \in Requests : req.docker /\ req.ids \in Known =>
    LET selected == Selected[req.ids] IN
    /\ Len(selected) = Len(req.ids)
    /\ \A i \in DOMAIN req.ids : \E j \in DOMAIN Metadata :
          \A k \in DOMAIN Metadata : (req.ids[i] \in Identifiers(Metadata[k])) <=> (k = j)
    /\ \A m, n \in DOMAIN selected : m < n =>
          \E i, j \in DOMAIN Metadata : i < j /\ selected[m] = Metadata[i] /\ selected[n] = Metadata[j]

\* The source's Compose file is not what the preflight could read on the host.
ComesWithTheData == Compose = "variables" /\ files[Source.name] # "variables"

\* What the preflight lets through is what the restore does: a request
\* without preflight errors is not refused in the same state, and the one
\* failure that needs no command to fail, a Compose file without its
\* variables, is in the Agent's report beforehand, unless that file came with
\* the restore: composeEnvironmentError says nothing of a file that is not on
\* the host yet (docker.go:844), nor of the one that will replace it.
PreflightForesees ==
  /\ \A req \in Requests : MasterErrors(req) = {} => ~Refused(req)
  /\ job.at = "error" => EnvironmentError(Source, TRUE, FALSE) \/ ComesWithTheData

\* The same without the exception, which the code breaks on a fresh host.
PreflightForeseesFiles == job.at = "error" => EnvironmentError(Source, TRUE, FALSE)

\* A restore of a backup that a command started looks for the snapshot in the
\* repository and with the password it was written with, whatever was edited
\* since (restoreSourcePolicy), unless the policy or the storage is gone and
\* the agent is sent nothing.  A scheduled run's row names neither
\* (snapshots.go, createTaskHistory), and then any policy of the source agent
\* may be taken, as it is now.
ReadsItsRepository ==
  Active /\ {"policy", "manifest"} \subseteq history => command.policy = NoPolicy \/ job.policy = Origin

\* The same of every backup, which the code breaks for scheduled ones.
ReadsItsRepositoryAlways == Active => command.policy = NoPolicy \/ job.policy = Origin

\* The password a restore uses is the one it was sent, which the code breaks on
\* an agent with another password on its disk, or none (runRestore).
UsesItsPassword == Active => command.policy = NoPolicy \/ Password = job.policy.password

\* What a preflight tells of a request is what becomes of it: the sources it
\* names, the errors it reports and the repository it is read from.
RequestInv == DistinctSelection /\ PreflightForesees /\ ReadsItsRepository

\* Every source asked for is answered by one item, in its order, unless the
\* task failed before any data was read (RestoreBatch, skippedRestoreItems).
EveryItemAnswered ==
  job.at = "ended" =>
    \/ Len(job.items) = Len(Sources)
    \/ job.items = <<>> /\ job.status = "failed" /\ restored = {}

\* The task's status says what its items say: success when all succeeded,
\* partial_success when some did, failed when none did, cancelled when one
\* was cut short (specs/batch-docker-restore, Derive aggregate status).
StatusTellsItems ==
  job.at = "ended" /\ command.docker =>
    LET done == {i \in DOMAIN job.items : job.items[i] = "success"} IN
    /\ job.status = "success" => done = DOMAIN Sources /\ ~job.cancelled
    /\ job.status = "partial_success" => done # {} /\ done # DOMAIN Sources
    /\ job.status = "failed" => done = {}
    /\ "cancelled" \in Range(job.items) => job.status = "cancelled"

\* A source reported restored has its container running, although a failed
\* start, inspection or removal may have been passed over on the way.
SuccessRuns ==
  \A i \in DOMAIN job.items : job.items[i] = "success" => host[Sources[i].name] = "running"

\* A batch tells what it did, however it ended: an item for each source, a
\* status that the items bear out, and running containers behind each success.
BatchInv == TypeOK /\ EveryItemAnswered /\ StatusTellsItems /\ SuccessRuns

\* No container is started, replaced or removed before its data is back
\* (design.md:13, data first).
DataBeforeContainers ==
  [][\A n \in Names : host'[n] # host[n] => Source.name = n /\ Source.paths \subseteq restored]_vars

\* After the cancellation no container changes any more, not even by the
\* commands of the source that was being restored.
StopsWhenCancelled == [][job.cancelled => UNCHANGED host]_vars
=============================================================================
