--------------------------- MODULE RestoreRequest ---------------------------
(***************************************************************************)
(* The Master's half of a restore (internal/master/api/restore.go): what a *)
(* request names, what the preflight says of it, what the Agent is sent.   *)
(*                                                                         *)
(* A policy's row names a storage, a path on it and a password ("none": a  *)
(* plain backup); only the storage can be edited (UpdatePolicy).  What an  *)
(* agent is sent is the storage, the repository (the storage's root, such  *)
(* as a bucket, and the path) and the password.  Of a storage's settings   *)
(* only the root is modelled.  A source of the snapshot's Docker metadata  *)
(* is a record                                                             *)
(*   name     the container's name, which is also its source id            *)
(*   idents   the other ids a request may use for it                       *)
(*   paths    the paths its data was backed up from                        *)
(*   image    the image is known                                           *)
(*   network  it uses a network of its own                                 *)
(*   compose  "none" (it is no Compose service), or what the snapshot      *)
(*            holds of its Compose file: "absent", "plain" or "variables"  *)
(*   env      an environment file is listed and among the paths            *)
(***************************************************************************)
EXTENDS Integers, Sequences, FiniteSets, SequencesExt

CONSTANTS
  Metadata,     \* the sources of the snapshot's Docker metadata, in order
  Storages, Roots,
  Writer,       \* the row of the policy that wrote the snapshot, as it was then
  Others,       \* the rows of the source agent's other policies
  Histories,    \* what the Master may have on record of the backup
  Requests,     \* the requests an operator may make
  MaxSelection, \* maxDockerRestoreSources
  MaxEdits      \* edits of the policy, the storages or the agent's capabilities

ASSUME RestoreAssumption ==
  /\ MaxSelection \in Nat /\ MaxEdits \in Nat
  /\ "first" \in Roots /\ "none" \notin Roots
  /\ "none" \notin Storages
  /\ Writer = [storage |-> Writer.storage, path |-> Writer.path, password |-> Writer.password]
  /\ \A policy \in Others \cup {Writer} : policy.storage \in Storages
  /\ Histories \subseteq SUBSET {"row", "policy", "manifest"}
  /\ Metadata \in Seq(Range(Metadata))
  /\ \A i, j \in DOMAIN Metadata : Metadata[i].name = Metadata[j].name => i = j
  /\ \A req \in Requests : req.ids \in Seq(Range(req.ids))

VARIABLES
  row,      \* the policy's row, or NoRow
  storages, \* a storage -> its root, or "none" when it is deleted
  history,  \* whether the backup has a row, which names its policy and storage
            \* (only a run that a command started does) and holds its manifest
  caps,     \* the capabilities the target agent last reported
  edits,
  command   \* the payload of the restore command, or NoCommand

masterVars == <<row, storages, history, caps, edits, command>>

NoRow      == [storage |-> "none", path |-> "none", password |-> "none"]
NoPolicy   == [storage |-> "none", repo |-> <<>>, password |-> "none"]
NoCommand  == [sent |-> FALSE, sources |-> <<>>, paths |-> {}, docker |-> FALSE, policy |-> NoPolicy]
Capability == {"preflight", "docker", "multi", "include"}

(***************************************************************************)
(* The selection.                                                          *)
(***************************************************************************)
Identifiers(source) == {source.name} \cup source.idents

\* normalizedDockerSourceIDs: one to MaxSelection ids, none empty or twice.
NormalizedIDs(ids) ==
  /\ ids # <<>> /\ Len(ids) <= MaxSelection
  /\ "" \notin Range(ids)
  /\ Cardinality(Range(ids)) = Len(ids)

\* The requested ids a source answers to.
Matched(source, ids) == Identifiers(source) \cap Range(ids)

ResolvesMutant(ids) == \A id \in Range(ids) : \E i \in DOMAIN Metadata : id \in Matched(Metadata[i], ids)

\* filterDockerRestoreRequest: no source answers to two ids, no id to two
\* sources, and no id is left over.
Resolves(ids) ==
  /\ \A i \in DOMAIN Metadata : Cardinality(Matched(Metadata[i], ids)) <= 1
  /\ \A id \in Range(ids) : Cardinality({i \in DOMAIN Metadata : id \in Matched(Metadata[i], ids)}) = 1

\* The sources asked for, in the order of the snapshot: the first has none of
\* them before it.
Asked(ids) == {i \in DOMAIN Metadata : Matched(Metadata[i], ids) # {}}
Before(set, i) == Cardinality({j \in set : j < i})
Selections == {req.ids : req \in Requests}
Selected == [ids \in Selections |->
  LET asked == Asked(ids)
  IN [n \in 1..Cardinality(asked) |-> Metadata[CHOOSE i \in asked : Before(asked, i) = n - 1]]]

Known == {ids \in Selections : Metadata # <<>> /\ NormalizedIDs(ids) /\ Resolves(ids)}

\* resolveDockerRestoreRequest: the metadata is in the backup's row.
Resolved(ids) == "row" \in history /\ ids \in Known

Paths(sources) == UNION {sources[i].paths : i \in DOMAIN sources}

(***************************************************************************)
(* The preflight: the codes of the errors it reports.  It changes nothing, *)
(* so it is an operator on the state and not an action.                    *)
(***************************************************************************)
If(condition, code) == IF condition THEN {code} ELSE {}

DockerErrors(req) ==
  If("docker" \notin caps, "docker_restore_capability")
  \cup IF ~Resolved(req.ids) THEN {"docker_metadata"}
       ELSE If(Len(Selected[req.ids]) > 1 /\ "multi" \notin caps, "docker_multi_restore_capability")
            \cup If(Paths(Selected[req.ids]) = {}, "docker_restore_paths")

\* The paths the restore is limited to; none means the whole snapshot.
Included(req) == req.paths \cup IF req.docker /\ Resolved(req.ids) THEN Paths(Selected[req.ids]) ELSE {}

\* Without the preflight capability the report ends before the rest.
MasterErrors(req) ==
  IF "preflight" \notin caps THEN {"restore_preflight_capability"}
  ELSE (IF req.docker THEN DockerErrors(req) ELSE If(req.target = "", "target_path_required"))
       \cup If(Included(req) # {} /\ "include" \notin caps, "restore_include_paths_capability")

(***************************************************************************)
(* The restore.                                                            *)
(***************************************************************************)
Refused(req) ==
  \/ ~req.docker /\ req.target = ""
  \/ req.docker /\ \/ "docker" \notin caps
                   \/ ~Resolved(req.ids)
                   \/ Len(Selected[req.ids]) > 1 /\ "multi" \notin caps
                   \/ Paths(Selected[req.ids]) = {}
  \/ Included(req) # {} /\ "include" \notin caps

\* The repository of a path on a storage, as the agent is sent it.
Repository(storage, path) == <<storages[storage], path>>

\* Where and how the snapshot was written: no root had been edited then.
Origin == [storage |-> Writer.storage, repo |-> <<"first", Writer.path>>, password |-> Writer.password]

\* restoreSourcePolicy: the policy that the row names or, when it names none,
\* the first of the source agent in the order of their random ids.
Owners == IF "policy" \in history THEN {row} ELSE Others \cup ({row} \ {NoRow})

\* The storage that the row names, the repository of its manifest and for what
\* they leave open the policy as it is now; nothing when either row is gone.
Payload(policy) ==
  LET storage == IF "policy" \in history THEN Writer.storage ELSE policy.storage
  IN IF policy = NoRow \/ storages[storage] = "none" THEN NoPolicy
     ELSE [storage |-> storage, password |-> policy.password,
           repo |-> IF "manifest" \in history THEN Origin.repo ELSE Repository(storage, policy.path)]

SourcePolicies == IF Owners = {} THEN {NoPolicy} ELSE {Payload(policy) : policy \in Owners}

Restore(req) ==
  /\ ~command.sent
  /\ ~Refused(req)
  /\ \E policy \in SourcePolicies :
       command' = [sent |-> TRUE, sources |-> IF req.docker THEN Selected[req.ids] ELSE <<>>,
                   paths |-> Included(req), docker |-> req.docker, policy |-> policy]
  /\ UNCHANGED <<row, storages, history, caps, edits>>

(***************************************************************************)
(* What changes between the backup, a preflight, a restore and the job.    *)
(***************************************************************************)
Edited == edits < MaxEdits /\ edits' = edits + 1 /\ UNCHANGED <<history, command>>

\* UpdatePolicy, of which only the storage matters here, and DeletePolicy.
EditPolicy ==
  /\ row # NoRow /\ Edited
  /\ row' \in {NoRow} \cup {[row EXCEPT !.storage = s] : s \in {t \in Storages : storages[t] # "none"}}
  /\ row' # row
  /\ UNCHANGED <<storages, caps>>

EditStorage(s) ==
  /\ storages[s] # "none" /\ Edited
  /\ storages' \in {[storages EXCEPT ![s] = root] : root \in Roots \ {storages[s]}}
  /\ UNCHANGED <<row, caps>>

\* DeleteStorage: only one that no policy uses.
DeleteStorage(s) ==
  /\ storages[s] # "none" /\ \A policy \in Others \cup {row} : policy.storage # s
  /\ Edited
  /\ storages' = [storages EXCEPT ![s] = "none"]
  /\ UNCHANGED <<row, caps>>

ReportCapabilities ==
  /\ Edited
  /\ caps' \in {Capability, Capability \ {"multi"}, Capability \ {"include"}, {}} \ {caps}
  /\ UNCHANGED <<row, storages>>

MasterInit ==
  /\ row = Writer /\ storages = [s \in Storages |-> "first"]
  /\ history \in Histories
  /\ caps = Capability /\ edits = 0
  /\ command = NoCommand
=============================================================================
