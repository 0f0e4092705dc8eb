------------------------------ MODULE ServiceProofs -----------------------------
(***************************************************************************)
(* Proofs about the two restores and the live log.                         *)
(*                                                                         *)
(* DockerRestore, for any Docker metadata, requests, edits and outcomes of *)
(* the commands: a selection names a source for each id, the preflight     *)
(* foresees the refusals, the restore reads the repository the snapshot is *)
(* in, the data is back before a container changes, a cancellation stops   *)
(* everything, and the items and the status tell what was done.            *)
(*                                                                         *)
(* MasterRestore: wherever the replacement of the Master's data is cut     *)
(* short, no half of it is opened and the original is kept.                *)
(*                                                                         *)
(* TaskLogs, for any limits and streams: while no line overtook another,   *)
(* memory, rows and reader agree on what is there and what was dropped.    *)
(***************************************************************************)
EXTENDS DockerRestore, MasterRestore, TaskLogs, FiniteSetTheorems, SequenceTheorems, TLAPS

Step     == {"compose", "network", "start", "remove", "run"}
Batch    == Step \cup {"source", "error"}
Stage    == Batch \cup {"idle", "data", "ended"}

\* What is edited, and the host: of the policy only the storage changes.
RowInv ==
  /\ row \in {NoRow} \cup {[Writer EXCEPT !.storage = s] : s \in Storages}
  /\ storages \in [Storages -> Roots \cup {"none"}]
  /\ files \in [Names -> {"absent", "plain", "variables"}]

\* What the Master has sent: of a backup whose policy and repository are on record the
\* policy that wrote it, if any, and sources whose paths are all restored first.
CommandInv ==
  /\ ~command.sent => command = NoCommand
  /\ {"policy", "manifest"} \subseteq history => command.policy \in {NoPolicy, Origin}
  /\ \A i \in DOMAIN Sources : Sources[i].paths \subseteq command.paths

\* Where the job is: after the data, its source is one of the command's.
JobInv ==
  /\ DOMAIN job = DOMAIN Idle /\ job.at \in Stage
  /\ ~command.sent => job.at = "idle"
  /\ Active => command.policy = NoPolicy \/ job.policy = command.policy
  /\ job.at \in Batch => command.paths \subseteq restored
  /\ job.at \in Step \cup {"error"} => Next1 \in DOMAIN Sources
  /\ job.at = "error" => EnvironmentError(Source, FALSE, TRUE)

IInv == RowInv /\ CommandInv /\ JobInv /\ DOMAIN host = Names

\* A job whose source, policy and data are as they were may go on.
LEMMA GoesOn ==
  ASSUME IInv, UNCHANGED masterVars, UNCHANGED <<files, restored>>, DOMAIN host' = Names, NEW changed,
         job' = changed, DOMAIN changed = DOMAIN Idle, changed.policy = job.policy,
         changed.at \in Stage \ {"idle", "data", "error"}, job.at \in Batch,
         changed.at \in Step => changed.items = job.items /\ Next1 \in DOMAIN Sources
  PROVE  IInv'
<1>1. RowInv' /\ CommandInv'
  BY DEF IInv, RowInv, CommandInv, masterVars, Sources
<1>2. command' = command /\ job.policy = changed.policy /\ Active
  BY DEF masterVars, Active, Batch, Step
<1> QED
  BY <1>1, <1>2 DEF IInv, JobInv, Active, Batch, Step, Stage, Next1, Sources, Source

\* How the Agent's commands end: the container of the source may change, the job goes on
\* with the source, with its next command, or with nothing.
LEMMA ItemGoesOn ==
  ASSUME IInv, NEW result, NEW cancelled
  PROVE  LET item == Item(result, cancelled)
         IN DOMAIN item = DOMAIN Idle /\ item.policy = job.policy /\ item.at = "source"
BY DEF IInv, JobInv, Item, Idle

LEMMA CommandGoesOn ==
  ASSUME IInv, NEW next \in Step, NEW cancelled
  PROVE  /\ LET go == Go(next)
            IN DOMAIN go = DOMAIN Idle /\ go.policy = job.policy /\ go.at = next /\ go.items = job.items
         /\ LET go == GoOn(next, cancelled)
            IN DOMAIN go = DOMAIN Idle /\ go.policy = job.policy /\ go.at = next /\ go.items = job.items
BY DEF IInv, JobInv, Go, GoOn, Idle

\* What a docker command leaves: its source's container as it was or as it says, and a
\* job that goes on.
Continues(changed) ==
  /\ DOMAIN changed = DOMAIN Idle /\ changed.policy = job.policy
  /\ changed.at \in Step \cup {"source"}
  /\ changed.at \in Step => changed.items = job.items

LEMMA Results ==
  ASSUME IInv
  PROVE  /\ \A result, cancelled : Continues(Item(result, cancelled))
         /\ \A cancelled : Continues(FailedItem(cancelled)) /\ Continues(AfterStartFails(cancelled))
         /\ \A next \in Step : Continues(Go(next)) /\ \A cancelled : Continues(GoOn(next, cancelled))
         /\ Continues(Failed) /\ Continues(Killed)
<1>1. \A result, cancelled : Continues(Item(result, cancelled))
  BY ItemGoesOn DEF Continues, Step
<1>2. \A next \in Step : Continues(Go(next)) /\ \A cancelled : Continues(GoOn(next, cancelled))
  BY CommandGoesOn DEF Continues, Step
<1>3. \A cancelled : Continues(FailedItem(cancelled))
  BY <1>1 DEF FailedItem
<1>4. \A cancelled : Continues(AfterStartFails(cancelled))
  BY <1>2, <1>3 DEF AfterStartFails, Step
<1> QED
  BY <1>1, <1>2, <1>3, <1>4 DEF Failed, Killed

DockerCommand == ComposeUp \/ EnsureNetwork \/ DockerStart \/ RemoveExisting \/ DockerRun

LEMMA Commands ==
  ASSUME IInv, DockerCommand
  PROVE  /\ job.at \in Step /\ UNCHANGED <<files, restored>> /\ Continues(job')
         /\ UNCHANGED host \/ \E container : host' = [host EXCEPT ![Source.name] = container]
         /\ job.cancelled => UNCHANGED host
         /\ DOMAIN host' = Names
<1>1. ASSUME NEW container, NEW failed, NEW killed,
             Continues(failed), Continues(killed), Fails(container, failed, killed)
      PROVE  /\ UNCHANGED <<files, restored>> /\ Continues(job') /\ DOMAIN host' = Names
             /\ UNCHANGED host \/ host' = [host EXCEPT ![Source.name] = container]
             /\ job.cancelled => UNCHANGED host
  BY <1>1 DEF Fails, Continues, IInv
<1>2. ASSUME NEW container, NEW result, Continues(result), Succeeds(container, result)
      PROVE  /\ UNCHANGED <<files, restored>> /\ Continues(job') /\ DOMAIN host' = Names
             /\ host' = [host EXCEPT ![Source.name] = container]
             /\ ~job.cancelled
  BY <1>2 DEF Succeeds, Continues, IInv
<1>3. CASE ComposeUp
  BY <1>1, <1>2, <1>3, Results DEF ComposeUp, Step
<1>4. CASE EnsureNetwork
  BY <1>1, <1>2, <1>4, Results DEF EnsureNetwork, Step
<1>5. CASE DockerStart
  BY <1>1, <1>2, <1>5, Results DEF DockerStart, Step
<1>6. CASE RemoveExisting
  BY <1>1, <1>2, <1>6, Results DEF RemoveExisting, Step
<1>7. CASE DockerRun
  BY <1>1, <1>2, <1>7, Results DEF DockerRun, Step
<1> QED
  BY <1>3, <1>4, <1>5, <1>6, <1>7 DEF DockerCommand

-----------------------------------------------------------------------------
\* Where an index stands in a set of them: every place up to the size of the set is
\* taken, and the places are in the order of the indices.
LEMMA Ranked ==
  ASSUME NEW set \in SUBSET Nat, IsFiniteSet(set)
  PROVE  /\ \A i \in set : Before(set, i) \in 0..(Cardinality(set) - 1)
         /\ \A i, j \in set : i < j <=> Before(set, i) < Before(set, j)
<1> DEFINE below(i) == {k \in set : k < i}
<1>1. \A i \in set : IsFiniteSet(below(i)) /\ Cardinality(below(i)) \in Nat
  BY FS_Subset, FS_CardinalityType
<1>2. \A i, j \in set : i < j => Cardinality(below(i)) < Cardinality(below(j))
  <2> SUFFICES ASSUME NEW i \in set, NEW j \in set, i < j
               PROVE  Cardinality(below(i)) < Cardinality(below(j))
    OBVIOUS
  <2>1. below(i) \subseteq below(j) /\ i \in below(j) /\ i \notin below(i)
    <3>1. \A k \in set : k \in Nat
      OBVIOUS
    <3>2. \A k \in set : k < i => k < j
      BY <3>1
    <3>3. ~(i < i)
      BY <3>1
    <3> QED
      BY <3>2, <3>3
  <2>2. /\ Cardinality(below(i)) <= Cardinality(below(j))
        /\ Cardinality(below(j)) = Cardinality(below(i)) => below(j) = below(i)
    BY <1>1, <2>1, FS_Subset
  <2> QED
    BY <1>1, <2>1, <2>2
<1>3. ASSUME NEW i \in set PROVE Cardinality(below(i)) < Cardinality(set) /\ Cardinality(set) \in Nat
  <2>1. below(i) \subseteq set /\ i \notin below(i)
    OBVIOUS
  <2>2. /\ Cardinality(below(i)) <= Cardinality(set)
        /\ Cardinality(set) = Cardinality(below(i)) => set = below(i)
    BY <2>1, FS_Subset
  <2> QED
    BY <1>1, <2>1, <2>2, FS_CardinalityType
<1>4. \A i, j \in set : Cardinality(below(i)) < Cardinality(below(j)) => i < j
  BY <1>1, <1>2
<1> QED
  BY <1>1, <1>2, <1>3, <1>4 DEF Before

LEMMA EveryPlaceTaken ==
  ASSUME NEW set \in SUBSET Nat, IsFiniteSet(set), NEW n \in 1..Cardinality(set)
  PROVE  \E i \in set : Before(set, i) = n - 1
<1> DEFINE places == 0..(Cardinality(set) - 1)
<1> DEFINE place == [i \in set |-> Before(set, i)]
<1>1. Cardinality(set) \in Nat /\ IsFiniteSet(places) /\ Cardinality(places) = Cardinality(set)
  <2>1. Cardinality(set) \in Nat
    BY FS_CardinalityType
  <2>2. Cardinality(set) - 1 \in Int /\ 0 \in Int
    BY <2>1
  <2> QED
    BY <2>1, <2>2, FS_Interval
<1>2. place \in [set -> places] /\ \A i, j \in set : place[i] = place[j] => i = j
  BY Ranked
<1>3. place \in Injection(set, places)
  BY <1>2 DEF Injection, IsInjective
<1>4. place \in Surjection(set, places)
  BY <1>1, <1>3, FS_Injection
<1>5. n - 1 \in places
  BY <1>1
<1> QED
  BY <1>4, <1>5 DEF Surjection

\* The sources selected are those that answer to an id, in the order of the snapshot.
LEMMA SelectedSources ==
  ASSUME NEW req \in Requests, NEW ids, ids = req.ids
  PROVE  /\ IsFiniteSet(Asked(ids)) /\ Cardinality(Asked(ids)) \in Nat
         /\ DOMAIN Selected[ids] = 1..Cardinality(Asked(ids))
         /\ Selected[ids] \in Seq(Range(Metadata)) /\ Len(Selected[ids]) = Cardinality(Asked(ids))
         /\ \A m, n \in DOMAIN Selected[ids] : m < n =>
               \E i, j \in DOMAIN Metadata :
                 i < j /\ Selected[ids][m] = Metadata[i] /\ Selected[ids][n] = Metadata[j]
<1> DEFINE asked == Asked(ids)
           nth(n) == CHOOSE i \in asked : Before(asked, i) = n - 1
           selected == [n \in 1..Cardinality(asked) |-> Metadata[nth(n)]]
<1>1. DOMAIN Metadata = 1..Len(Metadata) /\ Len(Metadata) \in Nat
  BY RestoreAssumption, LenProperties
<1>2. asked \in SUBSET Nat /\ asked \subseteq DOMAIN Metadata
  BY <1>1 DEF Asked
<1>3. IsFiniteSet(asked) /\ Cardinality(asked) \in Nat
  <2>1. IsFiniteSet(DOMAIN Metadata)
    BY <1>1, FS_Interval
  <2> QED
    BY <1>2, <2>1, FS_Subset, FS_CardinalityType
<1>4. Selected[ids] = selected
  BY DEF Selected, Selections
<1> HIDE DEF asked
<1>5. ASSUME NEW n \in 1..Cardinality(asked) PROVE nth(n) \in asked /\ Before(asked, nth(n)) = n - 1
  BY <1>2, <1>3, EveryPlaceTaken
<1> HIDE DEF nth
<1>6. \A n \in 1..Cardinality(asked) : selected[n] = Metadata[nth(n)] /\ selected[n] \in Range(Metadata)
  BY <1>2, <1>5 DEF Range
<1>7. selected \in [1..Cardinality(asked) -> Range(Metadata)]
  BY <1>6
<1>8. selected \in Seq(Range(Metadata)) /\ Len(selected) = Cardinality(asked)
  BY <1>3, <1>7
<1>9. ASSUME NEW m \in 1..Cardinality(asked), NEW n \in 1..Cardinality(asked), m < n PROVE nth(m) < nth(n)
  <2>1. nth(m) \in asked /\ nth(n) \in asked /\ Before(asked, nth(m)) < Before(asked, nth(n))
    BY <1>3, <1>5, <1>9
  <2> QED
    BY <1>2, <1>3, <2>1, Ranked
<1> HIDE DEF selected
<1>10. ASSUME NEW m \in 1..Cardinality(asked), NEW n \in 1..Cardinality(asked), m < n
       PROVE  \E i, j \in DOMAIN Metadata : i < j /\ selected[m] = Metadata[i] /\ selected[n] = Metadata[j]
  BY <1>2, <1>5, <1>6, <1>9, <1>10
<1>11. DOMAIN selected = 1..Cardinality(asked)
  BY <1>7
<1> QED
  BY <1>3, <1>4, <1>8, <1>10, <1>11 DEF asked

\* An id of a selection that resolves names one index of the metadata.
LEMMA OneSource ==
  ASSUME NEW ids, Resolves(ids), NEW id \in Range(ids)
  PROVE  \E j \in DOMAIN Metadata : \A k \in DOMAIN Metadata : id \in Identifiers(Metadata[k]) <=> k = j
<1> DEFINE matching == {k \in DOMAIN Metadata : id \in Matched(Metadata[k], ids)}
<1>1. IsFiniteSet(matching) /\ Cardinality(matching) = 1
  <2>1. DOMAIN Metadata = 1..Len(Metadata) /\ Len(Metadata) \in Nat
    BY RestoreAssumption, LenProperties
  <2>2. IsFiniteSet(DOMAIN Metadata)
    BY <2>1, FS_Interval
  <2> QED
    BY <2>2, FS_Subset DEF Resolves
<1>2. PICK j : matching = {j}
  BY <1>1, FS_Singleton
<1> QED
  BY <1>2 DEF Matched

\* A selection that resolves has as many sources as ids: each id has its source, and no
\* source has two.
LEMMA AsManySources ==
  ASSUME NEW ids, ids \in Seq(Range(ids)), NormalizedIDs(ids), Resolves(ids)
  PROVE  Cardinality(Asked(ids)) = Len(ids)
<1> DEFINE source == [id \in Range(ids) |->
                        CHOOSE j \in DOMAIN Metadata :
                          \A k \in DOMAIN Metadata : id \in Identifiers(Metadata[k]) <=> k = j]
<1>1. IsFiniteSet(Range(ids))
  <2>1. ids \in Surjection(1..Len(ids), Range(ids)) /\ Len(ids) \in Nat
    BY LenProperties DEF Surjection, Range
  <2> QED
    BY <2>1, FS_NatSurjection DEF ExistsSurjection
<1>2. \A id \in Range(ids) :
        source[id] \in DOMAIN Metadata /\ \A k \in DOMAIN Metadata : id \in Identifiers(Metadata[k]) <=> k = source[id]
  BY OneSource
<1>3. DOMAIN source = Range(ids)
  OBVIOUS
<1> HIDE DEF source
<1>4. \A id \in Range(ids) : source[id] \in Asked(ids)
  BY <1>2 DEF Asked, Matched
<1>5. ASSUME NEW a \in Range(ids), NEW b \in Range(ids), source[a] = source[b] PROVE a = b
  <2> DEFINE matched == Matched(Metadata[source[a]], ids)
  <2>1. matched \subseteq Range(ids) /\ a \in matched /\ b \in matched
    BY <1>2, <1>5 DEF Matched
  <2>2. IsFiniteSet(matched) /\ Cardinality(matched) <= 1 /\ Cardinality(matched) \in Nat
    BY <1>1, <1>2, <2>1, FS_Subset, FS_CardinalityType DEF Resolves
  <2>3. Cardinality(matched) # 0
    BY <2>1, <2>2, FS_EmptySet
  <2>4. Cardinality(matched) = 1
    BY <2>2, <2>3
  <2>5. PICK x : matched = {x}
    BY <2>2, <2>4, FS_Singleton
  <2> QED
    BY <2>1, <2>5
<1>6. ASSUME NEW j \in Asked(ids) PROVE \E id \in Range(ids) : source[id] = j
  BY <1>2, <1>6 DEF Asked, Matched
<1>7. source \in [Range(ids) -> Asked(ids)]
  <2>1. source = [id \in Range(ids) |-> source[id]]
    BY DEF source
  <2> QED
    BY <1>4, <2>1
<1>8. source \in Bijection(Range(ids), Asked(ids))
  BY <1>5, <1>6, <1>7 DEF Bijection, Injection, IsInjective, Surjection
<1> QED
  BY <1>1, <1>8, FS_Bijection DEF ExistsBijection, NormalizedIDs

LEMMA SelectionIsDistinct == DistinctSelection
<1> SUFFICES ASSUME NEW req \in Requests, req.docker, req.ids \in Known
             PROVE  /\ Len(Selected[req.ids]) = Len(req.ids)
                    /\ \A i \in DOMAIN req.ids : \E j \in DOMAIN Metadata :
                          \A k \in DOMAIN Metadata : (req.ids[i] \in Identifiers(Metadata[k])) <=> (k = j)
                    /\ \A m, n \in DOMAIN Selected[req.ids] : m < n =>
                          \E i, j \in DOMAIN Metadata :
                            i < j /\ Selected[req.ids][m] = Metadata[i] /\ Selected[req.ids][n] = Metadata[j]
  BY DEF DistinctSelection
<1>1. req.ids \in Known /\ req.ids \in Seq(Range(req.ids))
  BY RestoreAssumption
<1>2. Len(Selected[req.ids]) = Len(req.ids)
  BY <1>1, SelectedSources, AsManySources DEF Known
<1>3. \A i \in DOMAIN req.ids : req.ids[i] \in Range(req.ids)
  BY DEF Range
<1>4. \A i \in DOMAIN req.ids : \E j \in DOMAIN Metadata :
        \A k \in DOMAIN Metadata : (req.ids[i] \in Identifiers(Metadata[k])) <=> (k = j)
  BY <1>1, <1>3, OneSource DEF Known
<1> QED
  BY <1>2, <1>4, SelectedSources

-----------------------------------------------------------------------------
LEMMA InvHoldsFirst == Init => IInv
<1> SUFFICES ASSUME Init PROVE IInv
  OBVIOUS
<1>1. CommandInv
  BY DEF Init, MasterInit, CommandInv, NoCommand, Sources
<1>2. JobInv
  BY DEF Init, MasterInit, JobInv, Idle, Stage, Batch, Step, NoCommand, Active
<1>3. RowInv /\ DOMAIN host = Names
  <2>1. PICK h \in Hosts : host = h.containers /\ files = h.files
    BY DEF Init
  <2>2. /\ h.containers \in [Names -> {"absent", "stopped", "running"}]
        /\ h.files \in [Names -> {"absent", "plain", "variables"}]
    BY HostsAssumption
  <2>3. row = [Writer EXCEPT !.storage = Writer.storage] /\ Writer.storage \in Storages
    BY RestoreAssumption DEF Init, MasterInit
  <2>4. storages \in [Storages -> Roots \cup {"none"}]
    BY RestoreAssumption DEF Init, MasterInit
  <2> QED
    BY <2>1, <2>2, <2>3, <2>4 DEF RowInv
<1> QED
  BY <1>1, <1>2, <1>3 DEF IInv

\* A request that is not refused names known sources, and asks for all their paths.
LEMMA Requested ==
  ASSUME IInv, NEW req \in Requests, Restore(req), UNCHANGED agentVars
  PROVE  IInv'
<1>1. PICK policy \in SourcePolicies :
        /\ command' = [sent |-> TRUE, sources |-> IF req.docker THEN Selected[req.ids] ELSE <<>>,
                       paths |-> Included(req), docker |-> req.docker, policy |-> policy]
        /\ UNCHANGED <<row, storages, history, files, job, host, restored>> /\ ~command.sent /\ ~Refused(req)
  BY DEF Restore, agentVars
<1>2. ASSUME {"policy", "manifest"} \subseteq history PROVE policy \in {NoPolicy, Origin}
  <2>1. policy = Payload(row)
    BY <1>2 DEF SourcePolicies, Owners
  <2>2. row = NoRow \/ row.password = Writer.password
    BY RestoreAssumption DEF IInv, RowInv
  <2> QED
    BY <1>2, <2>1, <2>2 DEF Payload, Origin
<1>3. \A i \in DOMAIN command'.sources : command'.sources[i].paths \subseteq command'.paths
  <2>1. CASE req.docker
    <3>1. Resolved(req.ids)
      BY <1>1, <2>1 DEF Refused
    <3> QED
      BY <1>1, <2>1, <3>1 DEF Included, Paths
  <2>2. CASE ~req.docker
    BY <1>1, <2>2
  <2> QED
    BY <2>1, <2>2
<1>4. command'.sent /\ command'.policy = policy
  BY <1>1
<1>5. CommandInv'
  BY <1>1, <1>2, <1>3, <1>4 DEF CommandInv, Sources
<1>6. job.at = "idle"
  BY <1>1 DEF IInv, JobInv
<1> QED
  BY <1>1, <1>4, <1>5, <1>6 DEF IInv, RowInv, JobInv, Active, Batch, Step

\* The edits: of the policy's storage or of the policy, of a storage, of the capabilities.
Edit == EditPolicy \/ ReportCapabilities \/ \E s \in Storages : EditStorage(s) \/ DeleteStorage(s)

LEMMA MasterKeeps ==
  ASSUME IInv, Edit, UNCHANGED agentVars
  PROVE  IInv'
<1>1. UNCHANGED <<history, command, files, job, host, restored>>
  BY DEF Edit, EditPolicy, ReportCapabilities, EditStorage, DeleteStorage, Edited, agentVars
<1>2. row' \in {NoRow} \cup {[Writer EXCEPT !.storage = s] : s \in Storages}
  <2>1. CASE EditPolicy
    <3>1. PICK s \in Storages : row = [Writer EXCEPT !.storage = s]
      BY <2>1 DEF EditPolicy, IInv, RowInv
    <3>2. \A t \in Storages : [row EXCEPT !.storage = t] = [Writer EXCEPT !.storage = t]
      BY <3>1
    <3> QED
      BY <2>1, <3>2 DEF EditPolicy
  <2>2. CASE row' = row
    BY <2>2 DEF IInv, RowInv
  <2> QED
    BY <2>1, <2>2 DEF Edit, ReportCapabilities, EditStorage, DeleteStorage
<1>3. storages' \in [Storages -> Roots \cup {"none"}]
  BY DEF Edit, EditPolicy, ReportCapabilities, EditStorage, DeleteStorage, IInv, RowInv
<1>4. RowInv'
  BY <1>1, <1>2, <1>3 DEF IInv, RowInv
<1> QED
  BY <1>1, <1>4 DEF IInv, CommandInv, JobInv, Active, Next1, Sources, Source, EnvironmentError, ComposeFile

LEMMA AgentKeeps ==
  ASSUME IInv, AgentStep \/ Cancel, UNCHANGED masterVars
  PROVE  IInv'
<1>1. RowInv' /\ CommandInv' /\ command' = command /\ DOMAIN host = Names /\ UNCHANGED files
  <2>1. UNCHANGED files
    BY Commands
    DEF AgentStep, DockerCommand, Cancel, Start, PrepareFails, DataRestored, DataFails,
        BeginSource, SkipRest, EndBatch, EnvironmentFails
  <2> QED
    BY <2>1 DEF IInv, RowInv, CommandInv, masterVars, Sources
<1>2. ASSUME DOMAIN job' = DOMAIN Idle, job'.at = "ended", command.sent, UNCHANGED host PROVE IInv'
  BY <1>1, <1>2 DEF IInv, JobInv, Stage, Batch, Step, Active
<1>3. ASSUME job.at # "idle" PROVE command.sent
  BY <1>3 DEF IInv, JobInv
<1>4. \A items, error : End(items, error) => DOMAIN job' = DOMAIN Idle /\ job'.at = "ended"
  BY DEF End, IInv, JobInv, Idle
<1>5. CASE Start
  <2>1. DOMAIN job' = DOMAIN Idle /\ job'.at \in {"data", "ended"} /\ command.sent /\ UNCHANGED host
        /\ (command.policy = NoPolicy \/ job'.policy = command.policy)
    BY <1>5 DEF Start, Idle
  <2> QED
    BY <1>1, <2>1 DEF IInv, JobInv, Stage, Batch, Step, Active
<1>6. CASE PrepareFails
  <2>1. DOMAIN job' = DOMAIN Idle /\ job'.at = "ended" /\ job.at = "data" /\ UNCHANGED host
    BY <1>6 DEF PrepareFails, IInv, JobInv, Idle
  <2> QED
    BY <1>2, <1>3, <2>1
<1>7. CASE DataRestored
  <2>1. CASE command.docker
    <3>1. /\ DOMAIN job' = DOMAIN Idle /\ job'.at = "source" /\ job'.policy = job.policy /\ job.at = "data"
          /\ restored' = restored \cup command.paths /\ UNCHANGED host
      BY <1>7, <2>1 DEF DataRestored, IInv, JobInv, Idle
    <3> QED
      BY <1>1, <1>3, <3>1 DEF IInv, JobInv, Stage, Batch, Step, Active
  <2>2. CASE ~command.docker
    BY <1>2, <1>3, <1>4, <1>7, <2>2 DEF DataRestored
  <2> QED
    BY <2>1, <2>2
<1>8. CASE DataFails
  BY <1>2, <1>3, <1>4, <1>8 DEF DataFails, AfterDataFails
<1>9. CASE SkipRest \/ EndBatch
  BY <1>2, <1>3, <1>4, <1>9 DEF SkipRest, EndBatch
<1>10. CASE BeginSource
  <2>1. /\ DOMAIN job' = DOMAIN Idle /\ job'.at = FirstCommand /\ job'.policy = job.policy
        /\ job'.items = job.items /\ job.at = "source" /\ Next1 \in DOMAIN Sources /\ UNCHANGED <<host, restored>>
    BY <1>10 DEF BeginSource, IInv, JobInv, Idle
  <2>2. FirstCommand \in {"error", "compose", "network", "start"}
    BY DEF FirstCommand
  <2>3. command.paths \subseteq restored /\ Source.paths \subseteq command.paths
    BY <2>1 DEF IInv, JobInv, CommandInv, Source, Batch
  <2>4. FirstCommand = "error" => EnvironmentError(Source, FALSE, TRUE)
    BY <2>3 DEF FirstCommand, Back
  <2> QED
    BY <1>1, <1>3, <2>1, <2>2, <2>3, <2>4
    DEF IInv, JobInv, Stage, Batch, Step, Active, Next1, Sources, Source, EnvironmentError, ComposeFile
<1>11. CASE EnvironmentFails
  <2>1. job' = Failed /\ job.at = "error" /\ UNCHANGED <<host, restored>> /\ Continues(Failed)
    BY <1>11, Results DEF EnvironmentFails
  <2>2. job.at \in Batch /\ Next1 \in DOMAIN Sources /\ DOMAIN host' = Names
    BY <2>1 DEF IInv, JobInv, Batch
  <2> QED
    BY <1>1, <2>1, <2>2, GoesOn DEF Continues, Stage, Batch, Step
<1>12. CASE DockerCommand
  <2>1. job.at \in Step /\ UNCHANGED <<files, restored>> /\ Continues(job') /\ DOMAIN host' = Names
    BY <1>12, Commands
  <2>2. job.at \in Batch /\ Next1 \in DOMAIN Sources
    BY <2>1 DEF IInv, JobInv, Batch
  <2>3. PICK changed : changed = job'
    OBVIOUS
  <2>4. Continues(changed)
    BY <2>1, <2>3 DEF Continues
  <2> QED
    BY <2>1, <2>2, <2>3, <2>4, GoesOn DEF Continues, Stage, Batch, Step
<1>13. CASE Cancel
  <2>1. /\ DOMAIN job' = DOMAIN Idle /\ job'.at = job.at /\ job'.policy = job.policy
        /\ job'.items = job.items /\ UNCHANGED <<host, restored>>
    BY <1>13 DEF Cancel, IInv, JobInv, Idle
  <2> QED
    BY <1>1, <2>1 DEF IInv, JobInv, Active, Next1, Sources, Source, EnvironmentError, ComposeFile
<1> QED
  BY <1>5, <1>6, <1>7, <1>8, <1>9, <1>10, <1>11, <1>12, <1>13 DEF AgentStep, DockerCommand

LEMMA InvHolds == Spec => []IInv
<1>1. ASSUME IInv, [Next]_vars PROVE IInv'
  <2>1. CASE UNCHANGED vars
    BY <1>1, <2>1 DEF vars, masterVars, agentVars, IInv, RowInv, CommandInv, JobInv, Active, Next1, Sources,
                      Source, EnvironmentError, ComposeFile
  <2> QED
    BY <1>1, <2>1, Requested, MasterKeeps, AgentKeeps DEF Next, Edit
<1> QED
  BY <1>1, InvHoldsFirst, PTL DEF Spec

-----------------------------------------------------------------------------
Container == {"absent", "stopped", "running"}
Outcome   == {"success", "failed", "cancelled", "skipped"}

\* The sources sent are sources of the metadata, each once.
SourcesInv ==
  /\ Sources \in Seq(Range(Metadata))
  /\ \A i, j \in DOMAIN Sources : Sources[i].name = Sources[j].name => i = j
  /\ ~command.docker => Sources = <<>>

\* The values, and the progress: the items answered so far, all of them counted but the
\* skipped ones, none before the data is back.
ItemsInv ==
  /\ caps \subseteq Capability /\ edits \in 0..MaxEdits
  /\ host \in [Names -> Container] /\ restored \subseteq command.paths
  /\ job.items \in Seq(Outcome) /\ job.cancelled \in BOOLEAN
  /\ job.completed \in Nat /\ job.failed \in Nat
  /\ job.failed <= job.completed /\ job.completed <= Len(job.items) /\ Len(job.items) <= Len(Sources)
  /\ "cancelled" \in Range(job.items) => job.cancelled
  /\ job.at \in {"idle", "data"} => job.items = <<>> /\ restored = {}
  /\ job.at \in Batch => command.docker

AnswersInv == SuccessRuns /\ EveryItemAnswered /\ StatusTellsItems

BatchIInv == SourcesInv /\ ItemsInv /\ AnswersInv

\* The sources of a request that is not refused.
LEMMA SourcesSent ==
  ASSUME IInv, BatchIInv, NEW req \in Requests, Restore(req), UNCHANGED agentVars
  PROVE  BatchIInv'
<1>1. PICK policy \in SourcePolicies :
        /\ command' = [sent |-> TRUE, sources |-> IF req.docker THEN Selected[req.ids] ELSE <<>>,
                       paths |-> Included(req), docker |-> req.docker, policy |-> policy]
        /\ UNCHANGED <<caps, edits, job, host, restored>> /\ ~command.sent
  BY DEF Restore, agentVars
<1>2. job.at = "idle" /\ job.items = <<>> /\ restored = {}
  BY <1>1 DEF IInv, JobInv, BatchIInv, ItemsInv
<1>3. SourcesInv'
  <2>1. CASE req.docker
    <3>1. command'.sources = Selected[req.ids] /\ command'.docker
      BY <1>1, <2>1
    <3>2. \A m, n \in DOMAIN Selected[req.ids] : m < n => Selected[req.ids][m].name # Selected[req.ids][n].name
      <4>1. \A i, j \in DOMAIN Metadata : i < j => Metadata[i].name # Metadata[j].name
        <5>1. DOMAIN Metadata \subseteq Nat
          BY RestoreAssumption, LenProperties
        <5> QED
          BY <5>1, RestoreAssumption
      <4> QED
        BY <4>1, SelectedSources
    <3>3. \A m, n \in DOMAIN Selected[req.ids] : m = n \/ m < n \/ n < m
      BY SelectedSources
    <3> QED
      BY <3>1, <3>2, <3>3, SelectedSources DEF SourcesInv, Sources
  <2>2. CASE ~req.docker
    <3>1. command'.sources = <<>>
      BY <1>1, <2>2
    <3> QED
      BY <3>1 DEF SourcesInv, Sources
  <2> QED
    BY <2>1, <2>2
<1>4. Len(command'.sources) \in Nat
  BY <1>3, LenProperties DEF SourcesInv, Sources
<1>5. ItemsInv'
  BY <1>1, <1>2, <1>4 DEF BatchIInv, ItemsInv, Sources, Batch, Step
<1>6. AnswersInv'
  BY <1>1, <1>2 DEF AnswersInv, SuccessRuns, EveryItemAnswered, StatusTellsItems
<1> QED
  BY <1>3, <1>5, <1>6 DEF BatchIInv

LEMMA MasterKeepsBatch ==
  ASSUME IInv, BatchIInv, Edit, UNCHANGED agentVars
  PROVE  BatchIInv'
<1>1. UNCHANGED <<command, job, host, restored>> /\ caps' \subseteq Capability /\ edits' \in 0..MaxEdits
  <2>1. edits \in 0..MaxEdits /\ caps \subseteq Capability /\ MaxEdits \in Nat
    BY RestoreAssumption DEF BatchIInv, ItemsInv
  <2>2. UNCHANGED <<command, job, host, restored>> /\ edits' = edits + 1 /\ edits < MaxEdits
    BY DEF Edit, EditPolicy, ReportCapabilities, EditStorage, DeleteStorage, Edited, agentVars
  <2>3. caps' \subseteq Capability
    <3>1. caps' = caps \/ caps' \in {Capability, Capability \ {"multi"}, Capability \ {"include"}, {}}
      BY DEF Edit, EditPolicy, ReportCapabilities, EditStorage, DeleteStorage
    <3> QED
      BY <2>1, <3>1
  <2> QED
    BY <2>1, <2>2, <2>3
<1>2. SourcesInv' /\ ItemsInv'
  BY <1>1 DEF BatchIInv, SourcesInv, ItemsInv, Sources
<1>3. AnswersInv'
  BY <1>1 DEF BatchIInv, AnswersInv, SuccessRuns, EveryItemAnswered, StatusTellsItems, Sources
<1> QED
  BY <1>2, <1>3 DEF BatchIInv

\* A task that ends with an item for each source, no success among them that was not one
\* before, tells what it did.
LEMMA BatchEnds ==
  ASSUME IInv, BatchIInv, UNCHANGED masterVars, UNCHANGED host, restored' \subseteq command.paths,
         NEW items \in Seq(Outcome), NEW error, End(items, error), job.at # "idle",
         Len(items) = Len(Sources), Len(job.items) <= Len(items),
         \A i \in DOMAIN items : items[i] = "success" => i \in DOMAIN job.items /\ job.items[i] = "success",
         "cancelled" \in Range(items) => job.cancelled
  PROVE  BatchIInv'
<1>1. /\ job'.at = "ended" /\ job'.items = items /\ job'.status = Status(items, error)
      /\ job'.cancelled = job.cancelled /\ job'.completed = job.completed /\ job'.failed = job.failed
      /\ command' = command /\ caps' = caps /\ edits' = edits
  BY DEF End, IInv, JobInv, Idle, masterVars
<1>2. /\ DOMAIN items = 1..Len(items) /\ Len(items) \in Nat
      /\ DOMAIN Sources = 1..Len(Sources) /\ Len(job.items) \in Nat
  BY LenProperties DEF BatchIInv, SourcesInv, ItemsInv
<1>3. SourcesInv'
  BY <1>1 DEF BatchIInv, SourcesInv, Sources
<1>4. ItemsInv'
  BY <1>1, <1>2 DEF BatchIInv, ItemsInv, Sources, Batch, Step
<1>5. SuccessRuns' /\ EveryItemAnswered'
  BY <1>1 DEF BatchIInv, AnswersInv, SuccessRuns, EveryItemAnswered, Sources
<1>6. StatusTellsItems'
  <2> SUFFICES ASSUME command.docker
               PROVE  LET done == {i \in DOMAIN items : items[i] = "success"} IN
                      /\ job'.status = "success" => done = DOMAIN Sources /\ ~job.cancelled
                      /\ job'.status = "partial_success" => done # {} /\ done # DOMAIN Sources
                      /\ job'.status = "failed" => done = {}
                      /\ "cancelled" \in Range(items) => job'.status = "cancelled"
    BY <1>1 DEF StatusTellsItems, Sources
  <2> DEFINE done == {i \in DOMAIN items : items[i] = "success"}
  <2>1. job'.status = IF job.cancelled THEN "cancelled" ELSE ItemsStatus(items)
    BY <1>1 DEF Status
  <2>2. ItemsStatus(items) = "success" => done = DOMAIN Sources
    BY <1>2 DEF ItemsStatus, Range
  <2>3. ItemsStatus(items) = "partial_success" => done # {} /\ done # DOMAIN Sources
    <3>1. SUFFICES ASSUME ItemsStatus(items) = "partial_success" PROVE done # {} /\ done # DOMAIN Sources
      OBVIOUS
    <3>2. "success" \in Range(items) /\ Range(items) # {"success"}
      BY <3>1 DEF ItemsStatus
    <3> QED
      BY <1>2, <3>2 DEF Range
  <2>4. ItemsStatus(items) = "failed" => done = {}
    BY <1>2 DEF ItemsStatus, Range
  <2> QED
    BY <2>1, <2>2, <2>3, <2>4
<1> QED
  BY <1>3, <1>4, <1>5, <1>6 DEF BatchIInv, AnswersInv

\* A task that goes on without a new item.
LEMMA BatchGoesOn ==
  ASSUME IInv, BatchIInv, UNCHANGED masterVars, restored' \subseteq command.paths, host' \in [Names -> Container],
         \A i \in DOMAIN job.items : host'[Sources[i].name] = host[Sources[i].name],
         job'.items = job.items, job'.completed = job.completed, job'.failed = job.failed,
         job'.cancelled \in {job.cancelled, TRUE}, Active, job'.at # "ended", job'.at # "idle",
         job'.at = "data" => job.at = "data" /\ restored' = restored,
         job'.at \in Batch => command.docker
  PROVE  BatchIInv'
<1>1. command' = command /\ caps' = caps /\ edits' = edits
  BY DEF masterVars
<1>2. SourcesInv' /\ ItemsInv'
  BY <1>1 DEF BatchIInv, SourcesInv, ItemsInv, Sources
<1>3. AnswersInv'
  BY <1>1 DEF BatchIInv, AnswersInv, SuccessRuns, EveryItemAnswered, StatusTellsItems, Sources
<1> QED
  BY <1>2, <1>3 DEF BatchIInv

\* The source's item, after a command that left its container running or that failed.
LEMMA Answered ==
  ASSUME IInv, BatchIInv, UNCHANGED masterVars, UNCHANGED restored, job.at \in Step \cup {"error"},
         NEW result \in {"success", "failed", "cancelled"}, NEW cancelled \in BOOLEAN,
         job' = Item(result, cancelled), job.cancelled => cancelled, result = "cancelled" => cancelled,
         host' \in [Names -> Container], \A n \in Names \ {Source.name} : host'[n] = host[n],
         result = "success" => host'[Source.name] = "running"
  PROVE  BatchIInv'
<1>1. /\ job'.at = "source" /\ job'.items = Append(job.items, result) /\ job'.completed = job.completed + 1
      /\ job'.failed = job.failed + (IF result = "success" THEN 0 ELSE 1) /\ job'.cancelled = cancelled
      /\ command' = command /\ caps' = caps /\ edits' = edits
  BY DEF Item, IInv, JobInv, Idle, masterVars
<1>2. /\ job.items \in Seq(Outcome) /\ Len(job.items) \in Nat /\ DOMAIN job.items = 1..Len(job.items)
      /\ DOMAIN Sources = 1..Len(Sources) /\ Len(Sources) \in Nat /\ Next1 \in DOMAIN Sources
      /\ command.docker /\ result \in Outcome
  BY LenProperties DEF IInv, JobInv, BatchIInv, SourcesInv, ItemsInv, Batch, Outcome
<1>3. /\ job'.items \in Seq(Outcome) /\ Len(job'.items) = Next1 /\ DOMAIN job'.items = 1..Next1
      /\ \A i \in DOMAIN job.items : job'.items[i] = job.items[i]
      /\ job'.items[Next1] = result
  BY <1>1, <1>2, AppendProperties, LenProperties DEF Next1
<1>4. \A i \in 1..Next1 : i = Next1 \/ i \in DOMAIN job.items
  BY <1>2 DEF Next1
<1>5. SourcesInv'
  BY <1>1 DEF BatchIInv, SourcesInv, Sources
<1>6. "cancelled" \in Range(job'.items) => cancelled
  <2>1. SUFFICES ASSUME "cancelled" \in Range(job'.items) PROVE cancelled
    OBVIOUS
  <2>2. PICK i \in DOMAIN job'.items : job'.items[i] = "cancelled"
    BY <2>1 DEF Range
  <2>3. CASE i = Next1
    BY <1>3, <2>2, <2>3
  <2>4. CASE i \in DOMAIN job.items
    <3>1. "cancelled" \in Range(job.items)
      BY <1>3, <2>2, <2>4 DEF Range
    <3> QED
      BY <3>1 DEF BatchIInv, ItemsInv
  <2> QED
    BY <1>3, <1>4, <2>2, <2>3, <2>4
<1>7. ItemsInv'
  <2>1. restored' = restored /\ restored \subseteq command.paths /\ caps \subseteq Capability /\ edits \in 0..MaxEdits
    BY DEF BatchIInv, ItemsInv
  <2>2. /\ job'.completed \in Nat /\ job'.failed \in Nat /\ job'.failed <= job'.completed
        /\ job'.completed <= Len(job'.items) /\ Len(job'.items) <= Len(command'.sources)
    BY <1>1, <1>2, <1>3 DEF BatchIInv, ItemsInv, Next1, Sources
  <2> QED
    BY <1>1, <1>2, <1>3, <1>6, <2>1, <2>2 DEF ItemsInv, Sources
<1>8. SuccessRuns'
  <2> SUFFICES ASSUME NEW i \in DOMAIN job'.items, job'.items[i] = "success"
               PROVE  host'[Sources[i].name] = "running"
    BY <1>1 DEF SuccessRuns, Sources
  <2>1. CASE i = Next1
    BY <1>3, <2>1 DEF Source
  <2>2. CASE i \in DOMAIN job.items
    <3>1. i \in DOMAIN Sources /\ i # Next1
      BY <1>2, <2>2 DEF Next1
    <3>2. Sources[i].name # Sources[Next1].name
      BY <1>2, <3>1 DEF BatchIInv, SourcesInv
    <3>3. Sources[i] \in Range(Metadata)
      BY <1>2, <3>1 DEF BatchIInv, SourcesInv
    <3>4. Sources[i].name \in Names \ {Source.name}
      BY <3>2, <3>3 DEF Names, Range, Source
    <3>5. host[Sources[i].name] = "running"
      BY <1>3, <2>2 DEF BatchIInv, AnswersInv, SuccessRuns
    <3> QED
      BY <3>4, <3>5
  <2> QED
    BY <1>3, <1>4, <2>1, <2>2
<1>9. EveryItemAnswered' /\ StatusTellsItems'
  BY <1>1 DEF EveryItemAnswered, StatusTellsItems
<1> QED
  BY <1>5, <1>7, <1>8, <1>9 DEF BatchIInv, AnswersInv

LEMMA FailedAnswered ==
  ASSUME IInv, BatchIInv, UNCHANGED masterVars, UNCHANGED restored, job.at \in Step \cup {"error"},
         NEW cancelled \in {job.cancelled, TRUE}, job' = FailedItem(cancelled),
         host' \in [Names -> Container], \A n \in Names \ {Source.name} : host'[n] = host[n]
  PROVE  BatchIInv'
<1>1. cancelled \in BOOLEAN /\ (job.cancelled => cancelled)
  BY DEF BatchIInv, ItemsInv
<1>2. CASE cancelled
  <2>1. job' = Item("cancelled", cancelled)
    BY <1>2 DEF FailedItem
  <2> QED
    BY <1>1, <1>2, <2>1, Answered
<1>3. CASE ~cancelled
  <2>1. job' = Item("failed", cancelled)
    BY <1>3 DEF FailedItem
  <2> QED
    BY <1>1, <1>3, <2>1, Answered
<1> QED
  BY <1>1, <1>2, <1>3

\* What a docker command may do to the job: go on with the source, answer it as failed, or
\* as a success whose container it has started.
Advances(changed) ==
  /\ changed.at \in Step /\ changed.items = job.items
  /\ changed.completed = job.completed /\ changed.failed = job.failed
  /\ changed.cancelled \in {job.cancelled, TRUE}

Ends(changed) == Advances(changed) \/ \E cancelled \in {job.cancelled, TRUE} : changed = FailedItem(cancelled)

LEMMA Endings ==
  ASSUME IInv
  PROVE  /\ Ends(Failed) /\ Ends(Killed) /\ Ends(AfterStartFails(job.cancelled)) /\ Ends(AfterStartFails(TRUE))
         /\ \A next \in Step : Advances(Go(next)) /\ Advances(GoOn(next, job.cancelled)) /\ Advances(GoOn(next, TRUE))
<1>1. \A next \in Step : Advances(Go(next)) /\ Advances(GoOn(next, job.cancelled)) /\ Advances(GoOn(next, TRUE))
  BY DEF Advances, Go, GoOn, IInv, JobInv, Idle
<1>2. Ends(Failed) /\ Ends(Killed)
  BY DEF Ends, Failed, Killed
<1>3. Ends(AfterStartFails(job.cancelled)) /\ Ends(AfterStartFails(TRUE))
  BY <1>1 DEF Ends, AfterStartFails, Step
<1> QED
  BY <1>1, <1>2, <1>3

\* A container becomes what the command says, and the others stay.
LEMMA OneContainer ==
  ASSUME IInv, BatchIInv, job.at \in Step, NEW container \in Container
  PROVE  LET after == [host EXCEPT ![Source.name] = container]
         IN /\ after \in [Names -> Container] /\ after[Source.name] = container
            /\ \A n \in Names \ {Source.name} : after[n] = host[n]
            /\ host[Source.name] \in Container
<1>1. Source \in Range(Metadata)
  BY LenProperties DEF IInv, JobInv, BatchIInv, SourcesInv, Source
<1>2. Source.name \in Names
  BY <1>1 DEF Names, Range
<1> QED
  BY <1>2 DEF BatchIInv, ItemsInv

LEMMA AdvancesKeepsBatch ==
  ASSUME IInv, BatchIInv, UNCHANGED masterVars, UNCHANGED restored, job.at \in Step, Advances(job'),
         host' \in [Names -> Container], \A n \in Names \ {Source.name} : host'[n] = host[n]
  PROVE  BatchIInv'
<1>1. /\ DOMAIN Sources = 1..Len(Sources) /\ Len(Sources) \in Nat /\ DOMAIN job.items = 1..Len(job.items)
      /\ Len(job.items) \in Nat /\ Len(job.items) <= Len(Sources) /\ Next1 \in DOMAIN Sources
      /\ command.docker /\ restored \subseteq command.paths
  BY LenProperties DEF IInv, JobInv, BatchIInv, SourcesInv, ItemsInv, Batch
<1>2. \A i \in DOMAIN job.items : host'[Sources[i].name] = host[Sources[i].name]
  <2> SUFFICES ASSUME NEW i \in DOMAIN job.items PROVE host'[Sources[i].name] = host[Sources[i].name]
    OBVIOUS
  <2>1. i \in DOMAIN Sources /\ i # Next1
    BY <1>1 DEF Next1
  <2>2. Sources[i].name # Sources[Next1].name /\ Sources[i] \in Range(Metadata)
    BY <1>1, <2>1 DEF BatchIInv, SourcesInv
  <2>3. Sources[i].name \in Names \ {Source.name}
    BY <2>2 DEF Names, Range, Source
  <2> QED
    BY <2>3
<1>3. /\ job'.items = job.items /\ job'.completed = job.completed /\ job'.failed = job.failed
      /\ job'.cancelled \in {job.cancelled, TRUE} /\ Active /\ job'.at \in Step
  BY DEF Advances, Active, Step
<1> QED
  BY <1>1, <1>2, <1>3, BatchGoesOn DEF Step

LEMMA FailsKeepsBatch ==
  ASSUME IInv, BatchIInv, UNCHANGED masterVars, job.at \in Step, NEW container \in Container,
         NEW failed, NEW killed, Ends(failed), Ends(killed), Fails(container, failed, killed)
  PROVE  BatchIInv'
<1>1. /\ host' \in [Names -> Container] /\ \A n \in Names \ {Source.name} : host'[n] = host[n]
      /\ Ends(job') /\ UNCHANGED restored
  <2>1. job' = failed \/ job' = killed
    BY DEF Fails
  <2>2. Ends(job')
    BY <2>1
  <2>3. host \in [Names -> Container]
    BY DEF BatchIInv, ItemsInv
  <2>4. UNCHANGED restored /\ (host' = host \/ host' = [host EXCEPT ![Source.name] = container])
    BY DEF Fails
  <2> QED
    BY <2>2, <2>3, <2>4, OneContainer
<1>2. CASE Advances(job')
  BY <1>1, <1>2, AdvancesKeepsBatch
<1>3. CASE \E cancelled \in {job.cancelled, TRUE} : job' = FailedItem(cancelled)
  BY <1>1, <1>3, FailedAnswered
<1> QED
  BY <1>1, <1>2, <1>3 DEF Ends

LEMMA SucceedsKeepsBatch ==
  ASSUME IInv, BatchIInv, UNCHANGED masterVars, job.at \in Step, NEW container \in Container, NEW result,
         Succeeds(container, result),
         Advances(result) \/ (container = "running" /\ result = Item("success", FALSE))
  PROVE  BatchIInv'
<1>1. /\ ~job.cancelled /\ host' = [host EXCEPT ![Source.name] = container] /\ job' = result /\ UNCHANGED restored
  BY DEF Succeeds
<1>2. /\ host' \in [Names -> Container] /\ host'[Source.name] = container
      /\ \A n \in Names \ {Source.name} : host'[n] = host[n]
  BY <1>1, OneContainer
<1>3. CASE Advances(result)
  <2>1. Advances(job')
    BY <1>1, <1>3
  <2> QED
    BY <1>1, <1>2, <2>1, AdvancesKeepsBatch
<1>4. CASE container = "running" /\ result = Item("success", FALSE)
  BY <1>1, <1>2, <1>4, Answered
<1> QED
  BY <1>3, <1>4

LEMMA CommandKeepsBatch ==
  ASSUME IInv, BatchIInv, UNCHANGED masterVars, DockerCommand
  PROVE  BatchIInv'
<1>1. job.at \in Step
  BY Commands
<1>2. host[Source.name] \in Container
  BY <1>1, OneContainer DEF Container
<1>3. /\ Ends(Failed) /\ Ends(Killed) /\ Ends(AfterStartFails(job.cancelled)) /\ Ends(AfterStartFails(TRUE))
      /\ Advances(Go("start")) /\ Advances(Go("run"))
      /\ Ends(GoOn("run", job.cancelled)) /\ Ends(GoOn("run", TRUE))
  BY Endings DEF Step, Ends
<1>4. /\ "running" \in Container /\ "absent" \in Container
  BY DEF Container
<1>5. CASE ComposeUp
  BY <1>1, <1>3, <1>4, <1>5, SucceedsKeepsBatch, FailsKeepsBatch DEF ComposeUp
<1>6. CASE EnsureNetwork
  BY <1>1, <1>2, <1>3, <1>6, SucceedsKeepsBatch, FailsKeepsBatch DEF EnsureNetwork
<1>7. CASE DockerStart
  BY <1>1, <1>3, <1>4, <1>7, SucceedsKeepsBatch, FailsKeepsBatch DEF DockerStart
<1>8. CASE RemoveExisting
  BY <1>1, <1>2, <1>3, <1>4, <1>8, SucceedsKeepsBatch, FailsKeepsBatch DEF RemoveExisting
<1>9. CASE DockerRun
  BY <1>1, <1>2, <1>3, <1>4, <1>9, SucceedsKeepsBatch, FailsKeepsBatch DEF DockerRun
<1> QED
  BY <1>5, <1>6, <1>7, <1>8, <1>9 DEF DockerCommand

\* The items of the sources that were not reached.
LEMMA SkippedItems ==
  ASSUME NEW n \in Nat
  PROVE  /\ Skipped(n) \in Seq(Outcome) /\ Len(Skipped(n)) = n
         /\ \A i \in DOMAIN Skipped(n) : Skipped(n)[i] = "skipped"
         /\ "cancelled" \notin Range(Skipped(n))
<1> DEFINE skipped == Skipped(n)
<1>1. skipped \in [1..n -> Outcome] /\ \A i \in 1..n : skipped[i] = "skipped"
  BY DEF Skipped, Outcome
<1> HIDE DEF skipped
<1>2. skipped \in Seq(Outcome) /\ Len(skipped) = n
  BY <1>1
<1>3. DOMAIN skipped = 1..n
  BY <1>1
<1> QED
  BY <1>1, <1>2, <1>3 DEF Range, skipped

LEMMA AgentKeepsBatch ==
  ASSUME IInv, BatchIInv, AgentStep \/ Cancel, UNCHANGED masterVars
  PROVE  BatchIInv'
<1>1. /\ job.items \in Seq(Outcome) /\ Len(job.items) \in Nat /\ DOMAIN job.items = 1..Len(job.items)
      /\ Len(Sources) \in Nat /\ DOMAIN Sources = 1..Len(Sources) /\ Len(job.items) <= Len(Sources)
      /\ job.cancelled \in BOOLEAN /\ restored \subseteq command.paths
      /\ "cancelled" \in Range(job.items) => job.cancelled
  BY LenProperties DEF BatchIInv, SourcesInv, ItemsInv
<1>2. command' = command /\ caps' = caps /\ edits' = edits
  BY DEF masterVars
<1>3. host \in [Names -> Container]
  BY DEF BatchIInv, ItemsInv
<1>4. ASSUME UNCHANGED <<host, restored>>, job.items = <<>>, restored = {},
             job'.at \in {"data", "ended"}, job'.at = "ended" => job'.status = "failed",
             job'.items = <<>>, job'.completed = 0, job'.failed = 0, job'.cancelled \in BOOLEAN
      PROVE  BatchIInv'
  <2>1. SourcesInv'
    BY <1>2 DEF BatchIInv, SourcesInv, Sources
  <2>2. ItemsInv'
    BY <1>1, <1>2, <1>3, <1>4 DEF BatchIInv, ItemsInv, Sources, Batch, Step, Range
  <2>3. AnswersInv'
    BY <1>2, <1>4 DEF AnswersInv, SuccessRuns, EveryItemAnswered, StatusTellsItems, Sources, Range
  <2> QED
    BY <2>1, <2>2, <2>3 DEF BatchIInv
<1>5. CASE Start
  <2>1. job.items = <<>> /\ restored = {} /\ UNCHANGED <<host, restored>>
    BY <1>5 DEF Start, BatchIInv, ItemsInv
  <2>2. /\ job'.at \in {"data", "ended"}
        /\ job'.at = "ended" => job'.status = "failed"
        /\ job'.items = <<>> /\ job'.completed = 0 /\ job'.failed = 0 /\ job'.cancelled = FALSE
    BY <1>5 DEF Start, Idle
  <2> QED
    BY <1>4, <2>1, <2>2
<1>6. CASE PrepareFails
  <2>1. job.items = <<>> /\ restored = {} /\ UNCHANGED <<host, restored>>
    BY <1>6 DEF PrepareFails, BatchIInv, ItemsInv
  <2>2. job.completed = 0 /\ job.failed = 0
    BY <2>1 DEF BatchIInv, ItemsInv
  <2>3. /\ job'.at = "ended" /\ job'.status = "failed"
        /\ job'.items = <<>> /\ job'.completed = 0 /\ job'.failed = 0 /\ job'.cancelled = job.cancelled
    BY <1>6, <2>1, <2>2 DEF PrepareFails, IInv, JobInv, Idle
  <2> QED
    BY <1>1, <1>4, <2>1, <2>3
<1>7. CASE DataRestored
  <2>1. /\ job.at = "data" /\ job.items = <<>> /\ restored' = restored \cup command.paths /\ UNCHANGED host
        /\ restored' \subseteq command.paths
    BY <1>1, <1>7 DEF DataRestored, BatchIInv, ItemsInv
  <2>2. CASE command.docker
    <3>1. job' = [job EXCEPT !.at = "source"]
      BY <1>7, <2>2 DEF DataRestored
    <3>2. /\ job'.at = "source" /\ job'.items = job.items /\ job'.completed = job.completed
          /\ job'.failed = job.failed /\ job'.cancelled = job.cancelled
      BY <3>1 DEF IInv, JobInv, Idle
    <3> QED
      BY <1>3, <2>1, <2>2, <3>2, BatchGoesOn DEF Active
  <2>3. CASE ~command.docker
    <3>1. End(<<>>, FALSE) /\ Sources = <<>>
      BY <1>7, <2>3 DEF DataRestored, BatchIInv, SourcesInv
    <3>2. End(job.items, FALSE) /\ Len(job.items) = Len(Sources)
      BY <2>1, <3>1
    <3> QED
      BY <1>1, <2>1, <3>2, BatchEnds
  <2> QED
    BY <2>2, <2>3
<1>8. CASE DataFails
  <2>1. /\ job.at = "data" /\ job.items = <<>> /\ UNCHANGED host
        /\ restored' \subseteq command.paths /\ End(Skipped(Len(Sources)), TRUE)
    BY <1>1, <1>8 DEF DataFails, AfterDataFails, BatchIInv, ItemsInv
  <2>2. \A i \in DOMAIN Skipped(Len(Sources)) : Skipped(Len(Sources))[i] # "success"
    BY <1>1, SkippedItems
  <2> QED
    BY <1>1, <2>1, <2>2, SkippedItems, BatchEnds
<1>9. CASE BeginSource
  <2>1. job.at = "source" /\ UNCHANGED <<host, restored>> /\ job' = [job EXCEPT !.at = FirstCommand]
    BY <1>9 DEF BeginSource
  <2>2. /\ job'.at = FirstCommand /\ job'.items = job.items /\ job'.completed = job.completed
        /\ job'.failed = job.failed /\ job'.cancelled = job.cancelled
    BY <2>1 DEF IInv, JobInv, Idle
  <2>3. FirstCommand \in {"error", "compose", "network", "start"} /\ command.docker
    BY <2>1 DEF FirstCommand, BatchIInv, ItemsInv, Batch
  <2> QED
    BY <1>1, <1>3, <2>1, <2>2, <2>3, BatchGoesOn DEF Active
<1>10. CASE SkipRest
  <2> DEFINE answered == Len(job.items)
             left     == Len(Sources) - Len(job.items)
             rest     == Skipped(left)
             items    == job.items \o rest
  <2>1. job.at = "source" /\ job.cancelled /\ UNCHANGED <<host, restored>> /\ End(items, TRUE)
    BY <1>10 DEF SkipRest, Remaining
  <2>2. left \in Nat /\ answered \in Nat /\ answered + left = Len(Sources)
    BY <1>1
  <2>3. rest \in Seq(Outcome) /\ Len(rest) = left /\ \A i \in DOMAIN rest : rest[i] = "skipped"
    BY <2>2, SkippedItems
  <2> HIDE DEF rest
  <2>4. /\ items \in Seq(Outcome) /\ Len(items) = answered + Len(rest)
        /\ \A i \in 1..answered + Len(rest) :
             items[i] = IF i <= answered THEN job.items[i] ELSE rest[i - answered]
    <3>1. job.items \in Seq(Outcome) /\ rest \in Seq(Outcome)
      BY <1>1, <2>3
    <3> QED
      BY ONLY <3>1, ConcatProperties
  <2>5. DOMAIN items = 1..answered + left /\ DOMAIN rest = 1..left
    BY <2>3, <2>4, LenProperties
  <2> HIDE DEF items, left, answered
  <2>6. ASSUME NEW i \in DOMAIN items, items[i] = "success"
        PROVE  i \in 1..answered /\ job.items[i] = "success"
    <3>1. i \in 1..answered + left /\ items[i] = IF i <= answered THEN job.items[i] ELSE rest[i - answered]
      BY <2>3, <2>4, <2>5
    <3>2. CASE i <= answered
      BY ONLY <2>2, <2>6, <3>1, <3>2
    <3>3. CASE ~(i <= answered)
      <4>1. i - answered \in 1..left
        BY ONLY <2>2, <3>1, <3>3
      <4> QED
        BY <2>3, <2>5, <2>6, <3>1, <3>3, <4>1
    <3> QED
      BY <3>2, <3>3
  <2>7. Len(items) = Len(Sources)
    BY <2>2, <2>3, <2>4
  <2> QED
    BY <1>1, <2>1, <2>4, <2>6, <2>7, BatchEnds DEF answered
<1>11. CASE EndBatch
  <2>1. /\ job.at = "source" /\ UNCHANGED <<host, restored>> /\ Next1 \notin DOMAIN Sources
        /\ End(job.items, \E i \in DOMAIN job.items : job.items[i] # "success")
    BY <1>11 DEF EndBatch
  <2>2. Len(job.items) = Len(Sources)
    BY <1>1, <2>1 DEF Next1
  <2> QED
    BY <1>1, <2>1, <2>2, BatchEnds
<1>12. CASE EnvironmentFails
  BY <1>3, <1>12, FailedAnswered DEF EnvironmentFails, Failed
<1>13. CASE DockerCommand
  BY <1>13, CommandKeepsBatch
<1>14. CASE Cancel
  <2>1. Active /\ UNCHANGED <<host, restored>> /\ job' = [job EXCEPT !.cancelled = TRUE]
    BY <1>14 DEF Cancel
  <2>2. /\ job'.at = job.at /\ job'.items = job.items /\ job'.completed = job.completed
        /\ job'.failed = job.failed /\ job'.cancelled = TRUE
    BY <2>1 DEF IInv, JobInv, Idle
  <2>3. job.at \in Batch => command.docker
    BY DEF BatchIInv, ItemsInv
  <2> QED
    BY <1>1, <1>3, <2>1, <2>2, <2>3, BatchGoesOn DEF Active
<1> QED
  BY <1>5, <1>6, <1>7, <1>8, <1>9, <1>10, <1>11, <1>12, <1>13, <1>14 DEF AgentStep, DockerCommand

LEMMA BatchHoldsFirst == Init => BatchIInv
<1> SUFFICES ASSUME Init PROVE BatchIInv
  OBVIOUS
<1>1. SourcesInv
  BY DEF Init, MasterInit, NoCommand, SourcesInv, Sources
<1>2. ItemsInv
  BY RestoreAssumption, HostsAssumption
  DEF Init, MasterInit, NoCommand, Idle, ItemsInv, Sources, Container, Batch, Step, Range, Capability
<1>3. AnswersInv
  BY DEF Init, MasterInit, NoCommand, Idle, AnswersInv, SuccessRuns, EveryItemAnswered, StatusTellsItems
<1> QED
  BY <1>1, <1>2, <1>3 DEF BatchIInv

LEMMA BatchHolds == Spec => []BatchIInv
<1>1. ASSUME IInv, BatchIInv, [Next]_vars PROVE BatchIInv'
  <2>1. CASE UNCHANGED vars
    <3>1. UNCHANGED <<caps, edits, command, host, restored, job>>
      BY <2>1 DEF vars, masterVars, agentVars
    <3>2. SourcesInv' /\ ItemsInv'
      BY <1>1, <3>1 DEF BatchIInv, SourcesInv, ItemsInv, Sources
    <3>3. AnswersInv'
      BY <1>1, <3>1 DEF BatchIInv, AnswersInv, SuccessRuns, EveryItemAnswered, StatusTellsItems, Sources
    <3> QED
      BY <3>2, <3>3 DEF BatchIInv
  <2> QED
    BY <1>1, <2>1, SourcesSent, MasterKeepsBatch, AgentKeepsBatch DEF Next, Edit
<1> QED
  BY <1>1, InvHolds, BatchHoldsFirst, PTL DEF Spec

-----------------------------------------------------------------------------
\* A restore of a backup whose row names its policy and holds its manifest looks for the
\* snapshot where and how it was written, whatever was edited since, unless the agent is
\* sent no policy (restore.go, restoreSourcePolicy).
THEOREM RepositoryCorrect == Spec => []ReadsItsRepository
<1>1. IInv => ReadsItsRepository
  BY DEF IInv, CommandInv, JobInv, ReadsItsRepository
<1> QED
  BY <1>1, InvHolds, PTL

\* What the preflight lets through is not refused, and no source lacks the variables of its
\* Compose file unless the preflight said so or that file came with the restore
\* (restore.go and docker.go, PreflightRestore).
THEOREM PreflightCorrect == Spec => []PreflightForesees
<1>1. \A req \in Requests : MasterErrors(req) = {} => ~Refused(req)
  BY DEF MasterErrors, DockerErrors, Refused, If
<1>2. ASSUME IInv, job.at = "error" PROVE EnvironmentError(Source, TRUE, FALSE) \/ ComesWithTheData
  <2>1. EnvironmentError(Source, FALSE, TRUE)
    BY <1>2 DEF IInv, JobInv
  <2>2. CASE files[Source.name] = "variables"
    BY <2>1, <2>2 DEF EnvironmentError, ComposeFile
  <2>3. CASE files[Source.name] # "variables"
    BY <2>1, <2>3 DEF EnvironmentError, ComposeFile, ComesWithTheData, Compose
  <2> QED
    BY <2>2, <2>3
<1>3. IInv => PreflightForesees
  BY <1>1, <1>2 DEF PreflightForesees
<1> QED
  BY <1>3, InvHolds, PTL

\* What a preflight tells of a request is what becomes of it: a source for each id, in the
\* order of the snapshot, no refusal it did not report, and, if its backup's policy and
\* manifest are on record, the repository it is read from
\* (restore.go, filterDockerRestoreRequest, Preflight and restoreSourcePolicy).
THEOREM RequestCorrect == Spec => []RequestInv
<1>1. RequestInv <=> DistinctSelection /\ PreflightForesees /\ ReadsItsRepository
  BY DEF RequestInv
<1>2. []DistinctSelection
  BY SelectionIsDistinct, PTL
<1> QED
  BY <1>1, <1>2, PreflightCorrect, RepositoryCorrect, PTL

\* A batch tells what it did, however it ended: an item for each source, a status that the
\* items bear out, and running containers behind each success (docker.go, RestoreBatch, and
\* handler.go, restoreItemResultsStatus).
THEOREM BatchCorrect == Spec => []BatchInv
<1>1. IInv /\ BatchIInv => TypeOK
  <2> SUFFICES ASSUME IInv, BatchIInv PROVE TypeOK
    OBVIOUS
  <2>1. Range(command.sources) \subseteq Range(Metadata)
    BY RangeOfSeq DEF BatchIInv, SourcesInv, Sources
  <2>2. Len(job.items) \in Nat /\ Len(Sources) \in Nat
    BY LenProperties DEF BatchIInv, SourcesInv, ItemsInv
  <2> QED
    BY <2>1, <2>2 DEF IInv, RowInv, BatchIInv, ItemsInv, TypeOK, Container
<1>2. IInv /\ BatchIInv => BatchInv
  BY <1>1 DEF BatchIInv, AnswersInv, BatchInv
<1> QED
  BY <1>2, InvHolds, BatchHolds, PTL

\* A container changes only once the paths of its source are restored, and it is the
\* container of that source (handler.go, handleRestoreReq: data first).
THEOREM DataFirst == Spec => DataBeforeContainers
<1> DEFINE First == \A n \in Names : host'[n] # host[n] => Source.name = n /\ Source.paths \subseteq restored
<1>1. ASSUME IInv, [Next]_vars PROVE First \/ UNCHANGED vars
  <2>1. CASE DockerCommand
    <3>1. /\ job.at \in Step
          /\ UNCHANGED host \/ \E container : host' = [host EXCEPT ![Source.name] = container]
      BY <1>1, <2>1, Commands
    <3>2. \A n \in Names : host'[n] # host[n] => Source.name = n
      BY <1>1, <3>1 DEF IInv
    <3>3. Source.paths \subseteq restored
      BY <1>1, <3>1 DEF IInv, CommandInv, JobInv, Batch, Source
    <3> QED
      BY <3>2, <3>3
  <2>2. CASE UNCHANGED host
    BY <2>2
  <2>3. Next => DockerCommand \/ UNCHANGED host
    BY DEF Next, agentVars, AgentStep, DockerCommand, Cancel, Start, PrepareFails, DataRestored, DataFails,
           BeginSource, SkipRest, EndBatch, EnvironmentFails
  <2> QED
    BY <1>1, <2>1, <2>2, <2>3
<1>2. IInv /\ [Next]_vars => [First]_vars
  BY <1>1
<1> QED
  BY <1>2, InvHolds, PTL DEF Spec, DataBeforeContainers

\* No container changes after the cancellation (docker.go, RestoreBatch and the commands
\* that are run with the context of the task).
THEOREM CancellationStops == Spec => StopsWhenCancelled
<1> DEFINE Stops == job.cancelled => UNCHANGED host
<1>1. ASSUME IInv, [Next]_vars PROVE Stops \/ UNCHANGED vars
  <2>1. DockerCommand => Stops
    BY <1>1, Commands
  <2>2. Next => DockerCommand \/ UNCHANGED host
    BY DEF Next, agentVars, AgentStep, DockerCommand, Cancel, Start, PrepareFails, DataRestored, DataFails,
           BeginSource, SkipRest, EndBatch, EnvironmentFails
  <2> QED
    BY <1>1, <2>1, <2>2
<1>2. IInv /\ [Next]_vars => [Stops]_vars
  BY <1>1
<1> QED
  BY <1>2, InvHolds, PTL DEF Spec, StopsWhenCancelled

-----------------------------------------------------------------------------
(***************************************************************************)
(* The Master replaces its own data.                                       *)
(***************************************************************************)
\* The three contents a whole data directory can have.
LEMMA DataTypes == Old \in Data /\ New \in Data /\ NoData \in Data
BY DEF Old, New, NoData, Data

\* An archive of no data holds the original only if the original had no entry.
LEMMA ArchiveOfSomething == ASSUME NEW d \in Data, d # Old PROVE NoData # Old
<1>1. PICK f \in File : d[f] # "old"
  BY DEF Data, Old
<1>2. NoData[f] # Old[f]
  BY DEF NoData, Old
<1> QED
  BY <1>2

\* The original is archived already when a start archives something else.
LEMMA Archives ==
  ASSUME RestoreInv, CreateRollback
  PROVE  overwritten' \/ \E s \in DOMAIN rollback' : rollback'[s] = Old
<1>1. /\ rollback \in [0..MaxSeconds -> Data] /\ second \in 0..MaxSeconds /\ data \in Data
      /\ rollback' = [rollback EXCEPT ![second] = data]
      /\ overwritten' = (overwritten \/ rollback[second] # NoData)
  BY DEF RestoreInv, RestoreTypeOK, CreateRollback, RollbackName
<1>2. CASE data = Old
  BY <1>1, <1>2
<1>3. CASE overwritten
  BY <1>1, <1>3
<1>4. CASE data # Old /\ ~overwritten
  <2>1. PICK s \in 0..MaxSeconds : rollback[s] = Old
    BY <1>1, <1>4 DEF RestoreInv, OriginalIsKept
  <2>2. CASE s = second
    BY <1>1, <1>4, <2>1, <2>2, ArchiveOfSomething
  <2>3. CASE s # second
    BY <1>1, <2>1, <2>3
  <2> QED
    BY <2>2, <2>3
<1> QED
  BY <1>2, <1>3, <1>4

\* A start cut short in its archive: the original is archived if it is not in place.
LEMMA CutArchives ==
  ASSUME RestoreInv, CutRollback
  PROVE  overwritten' \/ data' = Old \/ \E s \in DOMAIN rollback' : rollback'[s] = Old
<1>1. /\ rollback \in [0..MaxSeconds -> Data] /\ second \in 0..MaxSeconds
      /\ rollback' = [rollback EXCEPT ![second] = NoData]
      /\ overwritten' = (overwritten \/ rollback[second] # NoData) /\ data' = data
  BY DEF RestoreInv, RestoreTypeOK, CutRollback, RollbackName
<1>2. CASE data = Old \/ overwritten
  BY <1>1, <1>2
<1>3. CASE data # Old /\ ~overwritten
  <2>1. PICK s \in 0..MaxSeconds : rollback[s] = Old
    BY <1>1, <1>3 DEF RestoreInv, OriginalIsKept
  <2>2. data \in Data
    BY DEF RestoreInv, RestoreTypeOK
  <2>3. CASE s = second
    BY <1>1, <1>3, <2>1, <2>2, <2>3, ArchiveOfSomething
  <2>4. CASE s # second
    BY <1>1, <2>1, <2>4
  <2> QED
    BY <2>3, <2>4
<1> QED
  BY <1>2, <1>3

LEMMA DataHoldsFirst == RestoreInit => RestoreInv
<1> SUFFICES ASSUME RestoreInit PROVE RestoreInv
  OBVIOUS
<1> USE ArchiveAssumption, DataTypes
<1>1. RestoreTypeOK
  BY DEF RestoreInit, RestoreTypeOK, Positions
<1> QED
  BY <1>1 DEF RestoreInit, RestoreInv, OpensWhole, OriginalIsKept

\* The running Master and the restarts: the data is not touched.
LEMMA Around ==
  ASSUME RestoreInv,
         BeginUpload \/ EndUpload \/ Confirm \/ Exit \/ Crash \/ TickSecond
           \/ UNCHANGED restoreVars
  PROVE  RestoreInv'
<1> USE ArchiveAssumption DEF RestoreInv, RestoreTypeOK, OpensWhole, OriginalIsKept, Positions, Serving, Written, Validated
<1>1. CASE BeginUpload
  BY <1>1 DEF BeginUpload
<1>2. CASE EndUpload
  BY <1>2 DEF EndUpload
<1>3. CASE Confirm
  BY <1>3 DEF Confirm
<1>4. CASE Exit
  BY <1>4 DEF Exit
<1>5. CASE Crash
  BY <1>5 DEF Crash
<1>6. CASE TickSecond
  BY <1>6 DEF TickSecond
<1>7. CASE UNCHANGED restoreVars
  BY <1>7 DEF restoreVars
<1> QED
  BY <1>1, <1>2, <1>3, <1>4, <1>5, <1>6, <1>7

\* The steps of a start that leave data and rollback alone.
LEMMA Decides ==
  ASSUME RestoreInv, StartMaster \/ Extract \/ Emptied \/ RemoveZip \/ Open
  PROVE  RestoreInv'
<1> USE DEF RestoreInv, RestoreTypeOK, OpensWhole, OriginalIsKept, Positions, Serving
<1>1. CASE StartMaster
  BY <1>1 DEF StartMaster, AfterCheck
<1>2. CASE Extract
  BY <1>2 DEF Extract
<1>3. CASE Emptied
  BY <1>3 DEF Emptied
<1>4. CASE RemoveZip
  BY <1>4 DEF RemoveZip, Installed
<1>5. CASE Open
  BY <1>5 DEF Open
<1> QED
  BY <1>1, <1>2, <1>3, <1>4, <1>5

\* The steps that archive, remove and install.
LEMMA Replaces ==
  ASSUME RestoreInv,
         CreateRollback \/ CutRollback \/ (\E f \in File : RemoveEntry(f) \/ InstallEntry(f))
  PROVE  RestoreInv'
<1>1. CASE CreateRollback
  <2>1. RestoreTypeOK'
    BY <1>1 DEF CreateRollback, RollbackName, RestoreInv, RestoreTypeOK, Positions, Serving
  <2> QED
    BY <1>1, <2>1, Archives DEF CreateRollback, RestoreInv, OpensWhole, OriginalIsKept
<1>2. CASE CutRollback
  <2>1. RestoreTypeOK'
    BY <1>2, ArchiveAssumption, DataTypes
       DEF CutRollback, RollbackName, RestoreInv, RestoreTypeOK, Positions, Serving
  <2> QED
    BY <1>2, <2>1, CutArchives DEF CutRollback, RestoreInv, OpensWhole, OriginalIsKept
<1>3. CASE \E f \in File : RemoveEntry(f) \/ InstallEntry(f)
  <2>1. PICK f \in File : RemoveEntry(f) \/ InstallEntry(f)
    BY <1>3
  <2>2. data' \in Data /\ UNCHANGED <<staging, zip, writer, rollback, at, second, uploads,
                                      crashes, overwritten>>
    BY <2>1 DEF RemoveEntry, InstallEntry, RestoreInv, RestoreTypeOK, Data
  <2>3. at \in {"remove", "install"}
    BY <2>1 DEF RemoveEntry, InstallEntry
  <2> QED
    BY <2>2, <2>3 DEF RestoreInv, RestoreTypeOK, OpensWhole, OriginalIsKept, Serving
<1> QED
  BY <1>1, <1>2, <1>3

LEMMA RestoreStep == RestoreInv /\ [RestoreNext]_restoreVars => RestoreInv'
BY Around, Decides, Replaces DEF RestoreNext, Starting

-----------------------------------------------------------------------------
\* The inductive invariant: the data is taken apart only while an extractable archive is
\* there to replace it and the data from before is archived (CheckAndRestore).
THEOREM RestoreCorrect == RestoreSpec => []RestoreInv
BY DataHoldsFirst, RestoreStep, PTL DEF RestoreSpec

\* The Master opens the data it had or the data it was given, never a mixture
\* (CheckAndRestore runs before the database is opened).
THEOREM NeverOpensHalf == RestoreSpec => []OpensWhole
<1>1. RestoreInv => OpensWhole
  BY DEF RestoreInv
<1> QED
  BY <1>1, RestoreCorrect, PTL

\* What the Master had is in place or under rollback/ (createRollback).
THEOREM OriginalKept == RestoreSpec => []OriginalIsKept
<1>1. RestoreInv => OriginalIsKept
  BY DEF RestoreInv
<1> QED
  BY <1>1, RestoreCorrect, PTL

-----------------------------------------------------------------------------
(* The order of the rows.                                                  *)

\* How many elements of S come up to x in the order of their keys.
Rank(S, order, x) == Cardinality({y \in S : order[y] <= order[x]})

\* Ranks grow with the keys, and there is one element of each.
LEMMA RanksGrow ==
  ASSUME NEW S, IsFiniteSet(S), NEW order \in [S -> Int], NEW x \in S, NEW y \in S, order[x] < order[y]
  PROVE  /\ Rank(S, order, x) \in Nat /\ Rank(S, order, y) \in Nat
         /\ Rank(S, order, x) < Rank(S, order, y)
<1> DEFINE X == {z \in S : order[z] <= order[x]}
           Y == {z \in S : order[z] <= order[y]}
<1>1. X \in SUBSET Y /\ Y \in SUBSET S /\ X # Y
  <2>1. y \in Y /\ y \notin X
    OBVIOUS
  <2>2. X \subseteq Y
    OBVIOUS
  <2> QED
    BY <2>1, <2>2
<1> HIDE DEF X, Y
<1>2. IsFiniteSet(Y)
  BY <1>1, FS_Subset
<1>3. IsFiniteSet(X) /\ Cardinality(X) <= Cardinality(Y) /\ Cardinality(X) # Cardinality(Y)
  BY <1>1, <1>2, FS_Subset
<1>4. Cardinality(X) \in Nat /\ Cardinality(Y) \in Nat
  BY <1>2, <1>3, FS_CardinalityType
<1> QED
  BY <1>3, <1>4 DEF Rank, X, Y

LEMMA RanksAre ==
  ASSUME NEW S, IsFiniteSet(S), NEW order \in [S -> Int], NEW x \in S
  PROVE  Rank(S, order, x) \in 1..Cardinality(S)
<1> DEFINE X == {z \in S : order[z] <= order[x]}
<1>1. X \in SUBSET S /\ x \in X
  OBVIOUS
<1> HIDE DEF X
<1>2. IsFiniteSet(X) /\ Cardinality(X) <= Cardinality(S)
  BY <1>1, FS_Subset
<1>3. Cardinality(X) # 0 /\ Cardinality(X) \in Nat /\ Cardinality(S) \in Nat
  BY <1>1, <1>2, FS_EmptySet, FS_CardinalityType
<1> QED
  BY <1>2, <1>3 DEF Rank, X

LEMMA RanksHit ==
  ASSUME NEW S, IsFiniteSet(S), NEW order \in [S -> Int], \A x, y \in S : order[x] = order[y] => x = y,
         NEW i \in 1..Cardinality(S)
  PROVE  \E x \in S : Rank(S, order, x) = i /\ \A y \in S : Rank(S, order, y) = i => y = x
<1> DEFINE n == Cardinality(S)
           f == [x \in S |-> Rank(S, order, x)]
<1>1. n \in Nat
  BY FS_CardinalityType
<1>2. f \in [S -> 1..n]
  BY RanksAre
<1>3. \A x, y \in S : f[x] = f[y] => x = y
  <2> SUFFICES ASSUME NEW x \in S, NEW y \in S, x # y PROVE f[x] # f[y]
    OBVIOUS
  <2>1. order[x] < order[y] \/ order[y] < order[x]
    OBVIOUS
  <2> QED
    BY <2>1, RanksGrow
<1>4. f \in Injection(S, 1..n)
  BY <1>2, <1>3 DEF Injection, IsInjective
<1>5. IsFiniteSet(1..n) /\ Cardinality(1..n) = n
  BY <1>1, FS_Interval
<1> HIDE DEF f
<1>6. f \in Surjection(S, 1..n)
  BY <1>4, <1>5, FS_Injection
<1>7. PICK x \in S : f[x] = i
  BY <1>6 DEF Surjection
<1> QED
  BY <1>3, <1>7 DEF f

LEMMA HasLast ==
  ASSUME NEW S, IsFiniteSet(S), S # {}, NEW order \in [S -> Int],
         \A x, y \in S : order[x] = order[y] => x = y
  PROVE  \E m \in S : Rank(S, order, m) = Cardinality(S) /\ \A x \in S : order[x] <= order[m]
<1> DEFINE n == Cardinality(S)
<1>1. n \in Nat /\ n # 0 /\ n \in 1..n
  BY FS_CardinalityType, FS_EmptySet
<1>2. PICK m \in S : Rank(S, order, m) = n
  BY <1>1, RanksHit
<1>3. ASSUME NEW x \in S, ~(order[x] <= order[m]) PROVE FALSE
  <2>1. order[m] < order[x]
    BY <1>3
  <2>2. Rank(S, order, m) < Rank(S, order, x) /\ Rank(S, order, x) \in 1..n
    BY <2>1, RanksGrow, RanksAre
  <2> QED
    BY <1>1, <1>2, <2>2
<1> QED
  BY <1>2, <1>3

\* A finite set of numbers has a greatest.
LEMMA HasMax ==
  ASSUME NEW S, S \subseteq Int, IsFiniteSet(S), S # {}
  PROVE  Max(S) \in S /\ \A x \in S : x <= Max(S)
<1> DEFINE order == [x \in S |-> x]
<1>1. /\ order \in [S -> Int]
      /\ \A x, y \in S : order[x] = order[y] => x = y
  OBVIOUS
<1>2. \A x \in S : order[x] = x
  OBVIOUS
<1> HIDE DEF order
<1>3. PICK m \in S : \A x \in S : order[x] <= order[m]
  BY ONLY <1>1, IsFiniteSet(S), S # {}, HasLast
<1>4. \E y \in S : \A x \in S : y >= x
  BY <1>2, <1>3
<1> QED
  BY <1>4 DEF Max

-----------------------------------------------------------------------------
(* The types.                                                              *)

Line == [id : 1..MaxEmitted, seq : 1..MaxEmitted]
LogRow == [line : Line, latest : Nat, dropped : Nat, updated : Int, done : Int]
Entries == [lines : Seq(Line), latest : Nat, dropped : Nat, updated : Int, done : Int]

LogTypes ==
  /\ emitted \in 0..MaxEmitted /\ sequence \in 0..emitted
  /\ holding \in [Stream -> Line \cup {Nothing}]
  /\ wire \in Seq(Line \cup {Result})
  /\ memory \in Entries
  /\ memory # NoEntry => memory.lines # <<>>
  /\ writing \in [line : Line \cup {Nothing}, latest : Nat, dropped : Nat, oldest : Nat, at : Int]
  /\ clock \in Nat /\ newest \in Nat /\ excused \in BOOLEAN
  /\ client \in [after : Nat, seen : SUBSET (1..MaxEmitted), told : BOOLEAN]
  /\ accepted \subseteq 1..MaxEmitted
  /\ memory.latest <= newest
  /\ writing.line # Nothing => writing.latest <= newest

RowTypes ==
  /\ rows \subseteq LogRow
  /\ \A r, q \in rows : r.line.seq = q.line.seq => r = q
  /\ \A r \in rows : r.latest <= newest

Lines(entry) == {entry.lines[i] : i \in DOMAIN entry.lines}
IsLast(r) == r \in rows /\ \A q \in rows : q.line.seq <= r.line.seq
Sorted(entry) == \A i, j \in DOMAIN entry.lines : i < j => entry.lines[i].seq < entry.lines[j].seq

\* Rows of which no two have the same number are finitely many.
LEMMA FewRows ==
  ASSUME NEW R, R \subseteq LogRow, \A r, q \in R : r.line.seq = q.line.seq => r = q
  PROVE  IsFiniteSet(R) /\ Cardinality(R) \in Nat
<1> DEFINE f == [r \in R |-> r.line.seq]
<1>1. MaxEmitted \in Nat
  BY LogAssumption
<1>2. f \in [R -> 1..MaxEmitted]
  BY DEF LogRow, Line
<1>3. f \in Injection(R, 1..MaxEmitted)
  BY <1>2 DEF Injection, IsInjective
<1>4. IsFiniteSet(1..MaxEmitted)
  BY <1>1, FS_Interval
<1> HIDE DEF f
<1>5. IsFiniteSet(R)
  BY <1>3, <1>4, FS_Injection
<1> QED
  BY <1>5, FS_CardinalityType

LEMMA RowsFinite == ASSUME RowTypes PROVE IsFiniteSet(rows) /\ Cardinality(rows) \in Nat
BY FewRows DEF RowTypes

\* What loadPersistentEntry finds: the rows' lines in their order, the last row's counters.
LEMMA Loaded ==
  ASSUME RowTypes, rows # {}
  PROVE  /\ Load \in Entries /\ Load # NoEntry
         /\ Len(Load.lines) = Cardinality(rows) /\ Cardinality(rows) \in Nat \ {0}
         /\ Lines(Load) = {r.line : r \in rows}
         /\ Sorted(Load)
         /\ \E r \in rows : IsLast(r) /\ Load.latest = r.latest /\ Load.dropped = r.dropped
<1> DEFINE n == Cardinality(rows)
           order == [r \in rows |-> r.line.seq]
<1>1. IsFiniteSet(rows) /\ n \in Nat /\ n # 0
  BY RowsFinite, FS_EmptySet
<1>2. \A r \in rows : r.line \in Line /\ r.line.seq \in Int /\ r \in LogRow
  BY DEF RowTypes, LogRow, Line
<1>3. order \in [rows -> Int] /\ \A r, q \in rows : order[r] = order[q] => r = q
  BY <1>2 DEF RowTypes
<1>4. \A r \in rows : Place(r) = Rank(rows, order, r)
  BY DEF Place, Rank
<1>5. \A r, q \in rows : order[r] = r.line.seq
  OBVIOUS
<1> HIDE DEF order
<1>6. \A i \in 1..n : Ordered[i] \in rows /\ Place(Ordered[i]) = i
  <2> TAKE i \in 1..n
  <2>1. \E r \in rows : Place(r) = i
    BY <1>1, <1>3, <1>4, RanksHit
  <2> QED
    BY <2>1 DEF Ordered
<1>7. \A r \in rows : Place(r) \in 1..n /\ Ordered[Place(r)] = r
  <2> TAKE r \in rows
  <2>1. Place(r) \in 1..n
    BY <1>1, <1>3, <1>4, RanksAre
  <2>2. \A q \in rows : Place(q) = Place(r) => q = r
    BY <1>1, <1>3, <1>4, <2>1, RanksHit
  <2> QED
    BY <1>6, <2>1, <2>2
<1>8. \A i, j \in 1..n : i < j => Ordered[i].line.seq < Ordered[j].line.seq
  <2> SUFFICES ASSUME NEW i \in 1..n, NEW j \in 1..n, i < j, ~(Ordered[i].line.seq < Ordered[j].line.seq)
               PROVE  FALSE
    OBVIOUS
  <2>1. Ordered[i] # Ordered[j] /\ Ordered[i] \in rows /\ Ordered[j] \in rows
    BY <1>6
  <2>2. Ordered[j].line.seq < Ordered[i].line.seq
    BY <1>2, <1>3, <1>5, <2>1
  <2>3. Rank(rows, order, Ordered[j]) < Rank(rows, order, Ordered[i])
    BY <1>1, <1>3, <1>5, <2>1, <2>2, RanksGrow
  <2> QED
    BY <1>1, <1>4, <1>6, <2>1, <2>3
<1> DEFINE last == Ordered[n]
<1>9. last \in rows /\ IsLast(last)
  <2>1. last \in rows
    BY <1>1, <1>6
  <2>2. ASSUME NEW q \in rows PROVE q.line.seq <= last.line.seq
    <3>1. Place(q) \in 1..n /\ Ordered[Place(q)] = q
      BY <1>7
    <3>2. Place(q) = n \/ Place(q) < n
      BY <1>1, <3>1
    <3>3. CASE Place(q) = n
      BY <1>2, <3>1, <3>3
    <3>4. CASE Place(q) < n
      <4>1. q.line.seq < last.line.seq
        BY <1>1, <1>8, <3>1, <3>4
      <4> QED
        BY <1>2, <2>1, <4>1
    <3> QED
      BY <3>2, <3>3, <3>4
  <2> QED
    BY <2>1, <2>2 DEF IsLast
<1> DEFINE lines == [i \in 1..n |-> Ordered[i].line]
<1>10. Load = [lines |-> lines, latest |-> last.latest, dropped |-> last.dropped,
               updated |-> last.updated, done |-> last.done]
  BY DEF Load
<1>11. lines \in Seq(Line) /\ Len(lines) = n /\ DOMAIN lines = 1..n /\ \A i \in 1..n : lines[i] = Ordered[i].line
  <2>1. \A i \in 1..n : Ordered[i].line \in Line
    BY <1>2, <1>6
  <2> QED
    BY <1>1, <2>1, IsASeq
<1> HIDE DEF lines, last
<1>12. Load \in Entries
  <2>1. last.latest \in Nat /\ last.dropped \in Nat /\ last.updated \in Int /\ last.done \in Int
    BY <1>2, <1>9 DEF LogRow
  <2> QED
    BY <1>10, <1>11, <2>1 DEF Entries
<1>13. Load.lines = lines /\ Load.latest = last.latest /\ Load.dropped = last.dropped
  BY <1>10
<1>14. Load # NoEntry
  <2>1. NoEntry.lines = <<>> /\ lines # <<>>
    BY <1>1, <1>11 DEF NoEntry
  <2> QED
    BY <1>13, <2>1
<1>15. Lines(Load) = {r.line : r \in rows}
  <2>1. \A i \in 1..n : lines[i] \in {r.line : r \in rows}
    BY <1>6, <1>11
  <2>2. \A r \in rows : \E i \in 1..n : r.line = lines[i]
    BY <1>7, <1>11
  <2>3. Lines(Load) = {lines[i] : i \in 1..n}
    BY <1>11, <1>13 DEF Lines
  <2> QED
    BY <2>1, <2>2, <2>3
<1>16. Sorted(Load)
  BY <1>8, <1>11, <1>13 DEF Sorted
<1> QED
  BY <1>1, <1>9, <1>11, <1>12, <1>13, <1>14, <1>15, <1>16

\* What Add makes of an entry: the line at the end, some of the oldest dropped and counted.
LEMMA AddedIs ==
  ASSUME LogAssumption, NEW entry \in Entries, NEW line \in Line, clock \in Nat
  PROVE  /\ Added(entry, line) \in Entries
         /\ Added(entry, line).latest = MaxOf(entry.latest, line.seq)
         /\ \E k \in 0..Len(entry.lines) :
              /\ Added(entry, line).dropped = entry.dropped + k
              /\ Len(Added(entry, line).lines) = Len(entry.lines) + 1 - k
              /\ \A i \in 1..(Len(entry.lines) - k) : Added(entry, line).lines[i] = entry.lines[i + k]
              /\ Added(entry, line).lines[Len(entry.lines) + 1 - k] = line
<1> DEFINE old == entry.lines
           lines == Append(old, line)
           n == Len(old)
           k == IF n + 1 > MaxLines THEN n + 1 - MaxLines ELSE 0
           new == Limited(lines)
<1>1. MaxLines \in Nat /\ MaxLines # 0
  BY LogAssumption DEF LogAssumption
<1>2. old \in Seq(Line) /\ n \in Nat /\ entry.latest \in Nat /\ entry.dropped \in Nat
  BY DEF Entries
<1>3. /\ lines \in Seq(Line) /\ Len(lines) = n + 1 /\ lines[n + 1] = line
      /\ \A i \in 1..n : lines[i] = old[i]
  BY <1>2, AppendProperties
<1>4. k \in 0..n
  BY <1>1, <1>2
<1> HIDE DEF lines
<1>5. new \in Seq(Line) /\ Len(new) = n + 1 - k /\ \A i \in 1..(n + 1 - k) : new[i] = lines[i + k]
  <2>1. CASE ~(n + 1 > MaxLines)
    <3>1. new = lines /\ k = 0
      BY <1>3, <2>1 DEF Limited
    <3> QED
      BY <1>2, <1>3, <3>1
  <2>2. CASE n + 1 > MaxLines
    <3> DEFINE e == Len(lines)
               m == e - MaxLines + 1
    <3>1. new = SubSeq(lines, m, e)
      <4>1. e > MaxLines
        BY <1>3, <2>2
      <4> QED
        BY <4>1 DEF Limited
    <3>2. m \in Int /\ e \in Int /\ m <= e /\ m >= 1 /\ m = k + 1 /\ e = n + 1
      BY <1>1, <1>2, <1>3, <2>2
    <3>3. \A i \in m..e : lines[i] \in Line
      BY <1>2, <1>3, <3>2, ElementOfSeq
    <3> HIDE DEF m, k, n, e
    <3>4. /\ SubSeq(lines, m, e) \in Seq(Line)
          /\ Len(SubSeq(lines, m, e)) = e - m + 1
          /\ \A i \in 1..(e - m + 1) : SubSeq(lines, m, e)[i] = lines[m + i - 1]
      BY ONLY <3>2, <3>3, SubSeqProperties
    <3>5. \A i \in 1..(n + 1 - k) : m + i - 1 = i + k /\ i \in 1..(e - m + 1)
      BY <1>2, <1>4, <3>2
    <3>6. e - m + 1 = n + 1 - k
      BY <1>2, <1>4, <3>2
    <3> QED
      BY <3>1, <3>4, <3>5, <3>6
  <2> QED
    BY <2>1, <2>2
<1> HIDE DEF k, new, n
<1>6. new[n + 1 - k] = line
  <2>1. n + 1 - k \in 1..(n + 1 - k) /\ (n + 1 - k) + k = n + 1
    BY <1>2, <1>4
  <2> QED
    BY <1>3, <1>5, <2>1
<1>7. \A i \in 1..(n - k) : new[i] = old[i + k]
  <2> TAKE i \in 1..(n - k)
  <2>1. i \in 1..(n + 1 - k) /\ i + k \in 1..n
    BY <1>2, <1>4
  <2> QED
    BY <1>3, <1>5, <2>1
<1>8. Added(entry, line) = [lines |-> new, latest |-> MaxOf(entry.latest, line.seq),
                            dropped |-> entry.dropped + Len(lines) - Len(new), updated |-> clock, done |-> Never]
  BY DEF Added, lines, new
<1>9. entry.dropped + Len(lines) - Len(new) = entry.dropped + k
  BY <1>2, <1>3, <1>4, <1>5
<1>10. MaxOf(entry.latest, line.seq) \in Nat
  BY <1>2 DEF MaxOf, Line
<1>11. entry.dropped + k \in Nat /\ Never \in Int /\ clock \in Int
  BY <1>2, <1>4 DEF Never
<1>12. Added(entry, line) \in Entries
  BY <1>5, <1>8, <1>9, <1>10, <1>11 DEF Entries
<1>13. Added(entry, line).lines = new /\ Added(entry, line).dropped = entry.dropped + k
       /\ Added(entry, line).latest = MaxOf(entry.latest, line.seq)
  BY <1>8, <1>9
<1> QED
  BY <1>4, <1>5, <1>6, <1>7, <1>12, <1>13 DEF n

Types == LogTypes /\ RowTypes

LEMMA Bounds == MaxEmitted \in Nat /\ MaxLines \in Nat /\ MaxLines # 0 /\ Page \in Nat /\ Page # 0
BY LogAssumption DEF LogAssumption

LEMMA NothingIs == /\ NoEntry \in Entries /\ NoEntry.lines = <<>> /\ NoEntry.latest = 0 /\ NoEntry.dropped = 0
                   /\ NoWrite.line = Nothing /\ NoWrite.dropped = 0 /\ Nothing.id = 0
                   /\ Nothing \notin Line /\ Result \notin Line /\ Never \in Int
                   /\ NoWrite \in [line : Line \cup {Nothing}, latest : Nat, dropped : Nat, oldest : Nat, at : Int]
BY EmptySeq DEF NoEntry, Entries, NoWrite, Nothing, Result, Line, Never

\* The entry, from memory or from the rows.
LEMMA EntryIs ==
  ASSUME Types
  PROVE  /\ Entry \in Entries
         /\ Entry # NoEntry => Entry.lines # <<>>
         /\ Entry.latest <= newest
         /\ Entry = NoEntry => memory = NoEntry /\ rows = {}
<1>1. CASE memory # NoEntry
  BY <1>1 DEF Entry, Types, LogTypes
<1>2. CASE memory = NoEntry /\ rows = {}
  BY <1>2, NothingIs DEF Entry, Load, Types, LogTypes
<1>3. CASE memory = NoEntry /\ rows # {}
  <2>1. /\ Load \in Entries /\ Load # NoEntry /\ Len(Load.lines) = Cardinality(rows) /\ Cardinality(rows) \in Nat \ {0}
        /\ \E r \in rows : Load.latest = r.latest
    BY <1>3, Loaded DEF Types
  <2>2. Load.lines # <<>>
    BY <2>1
  <2>3. Load.latest <= newest
    BY <2>1 DEF Types, RowTypes
  <2> QED
    BY <1>3, <2>1, <2>2, <2>3 DEF Entry
<1> QED
  BY <1>1, <1>2, <1>3

LEMMA TypesFirst == LogInit => Types
<1> SUFFICES ASSUME LogInit PROVE Types
  OBVIOUS
<1>1. wire \in Seq(Line \cup {Result})
  BY EmptySeq DEF LogInit
<1>2. emitted \in 0..MaxEmitted /\ sequence \in 0..emitted
  BY Bounds DEF LogInit
<1>3. client \in [after : Nat, seen : SUBSET (1..MaxEmitted), told : BOOLEAN]
  BY DEF LogInit
<1>4. holding \in [Stream -> Line \cup {Nothing}]
  BY DEF LogInit
<1>5. /\ memory = NoEntry /\ rows = {} /\ writing = NoWrite /\ clock = 0 /\ accepted = {}
      /\ newest = 0 /\ excused = FALSE
  BY DEF LogInit
<1>6. excused \in BOOLEAN
  BY <1>5
<1>7. /\ memory \in Entries /\ memory.latest <= newest /\ (memory # NoEntry => memory.lines # <<>>)
      /\ writing \in [line : Line \cup {Nothing}, latest : Nat, dropped : Nat, oldest : Nat, at : Int]
      /\ clock \in Nat /\ newest \in Nat /\ accepted \subseteq 1..MaxEmitted
      /\ writing.line = Nothing
  BY <1>5, NothingIs
<1>8. LogTypes
  BY <1>1, <1>2, <1>3, <1>4, <1>6, <1>7 DEF LogTypes
<1>9. RowTypes
  BY <1>5 DEF RowTypes
<1> QED
  BY <1>8, <1>9 DEF Types

\* The agent's steps, and time.
LEMMA TypesOfAgent ==
  ASSUME Types, \/ \E s \in Stream : Number(s) \/ SendLine(s, TRUE) \/ SendLine(s, FALSE)
                \/ SendResult \/ RestartAgent \/ Tick
  PROVE  Types'
<1> DEFINE Kept == UNCHANGED <<memory, rows, writing, client, accepted, newest, excused>>
<1>1. Kept
  BY DEF Number, SendLine, SendResult, RestartAgent, Tick
<1>2. /\ emitted \in Nat /\ emitted <= MaxEmitted /\ sequence \in Nat /\ sequence <= emitted /\ MaxEmitted \in Nat
      /\ holding \in [Stream -> Line \cup {Nothing}] /\ wire \in Seq(Line \cup {Result})
      /\ clock \in Nat
  BY Bounds DEF Types, LogTypes
<1> DEFINE Good == /\ emitted' \in 0..MaxEmitted /\ sequence' \in 0..emitted'
                   /\ holding' \in [Stream -> Line \cup {Nothing}] /\ wire' \in Seq(Line \cup {Result})
                   /\ clock' \in Nat
<1>3. ASSUME NEW s \in Stream, Number(s) PROVE Good
  <2> DEFINE line == [id |-> emitted', seq |-> sequence']
  <2>1. /\ emitted' = emitted + 1 /\ sequence' = sequence + 1 /\ emitted < MaxEmitted
        /\ holding' = [holding EXCEPT ![s] = line] /\ wire' = wire /\ clock' = clock
    BY <1>3 DEF Number
  <2>2. line \in Line /\ emitted' \in 0..MaxEmitted /\ sequence' \in 0..emitted'
    BY <1>2, <2>1 DEF Line
  <2> HIDE DEF line
  <2> QED
    BY <1>2, <2>1, <2>2
<1>4. ASSUME NEW s \in Stream, SendLine(s, TRUE) \/ SendLine(s, FALSE) PROVE Good
  <2>1. /\ holding' = [holding EXCEPT ![s] = Nothing] /\ holding[s] # Nothing
        /\ wire' = wire \/ wire' = Append(wire, holding[s])
        /\ UNCHANGED <<sequence, emitted, clock>>
    BY <1>4 DEF SendLine
  <2>2. holding[s] \in Line \cup {Result}
    BY <1>2, <2>1
  <2>3. Append(wire, holding[s]) \in Seq(Line \cup {Result})
    BY <1>2, <2>2, AppendProperties
  <2> QED
    BY <1>2, <2>1, <2>3
<1>5. ASSUME SendResult PROVE Good
  <2>1. wire' = Append(wire, Result) /\ UNCHANGED <<sequence, emitted, holding, clock>>
    BY <1>5 DEF SendResult
  <2>2. Append(wire, Result) \in Seq(Line \cup {Result})
    BY <1>2, AppendProperties
  <2> QED
    BY <1>2, <2>1, <2>2
<1>6. ASSUME RestartAgent PROVE Good
  <2>1. sequence' = 0 /\ holding' = [s \in Stream |-> Nothing] /\ wire' = <<>> /\ UNCHANGED <<emitted, clock>>
    BY <1>6 DEF RestartAgent
  <2>2. <<>> \in Seq(Line \cup {Result})
    BY EmptySeq
  <2> QED
    BY <1>2, <2>1, <2>2
<1>7. ASSUME Tick PROVE Good
  BY <1>2, <1>7 DEF Tick
<1>8. Good
  BY <1>3, <1>4, <1>5, <1>6, <1>7
<1> HIDE DEF Good
<1>9. LogTypes'
  BY <1>1, <1>8 DEF Good, Types, LogTypes
<1>10. RowTypes'
  BY <1>1 DEF Types, RowTypes
<1> QED
  BY <1>9, <1>10 DEF Types

\* A line that arrives goes into the entry, and is what the database is about to get.
LEMMA TypesOfAdd == ASSUME Types, NEW loads \in BOOLEAN, AddLine(loads) PROVE Types'
<1> DEFINE line == Head(wire)
           entry == IF loads THEN Entry ELSE NoEntry
           new == Added(entry, line)
<1>1. /\ writing = NoWrite /\ wire # <<>> /\ line # Result
      /\ memory' = new
      /\ writing' = [line |-> line, latest |-> new.latest, dropped |-> new.dropped, oldest |-> new.lines[1].seq, at |-> clock]
      /\ excused' = (excused \/ line.seq <= newest \/ (~loads /\ rows # {})) /\ newest' = MaxOf(newest, line.seq)
      /\ wire' = Tail(wire)
      /\ UNCHANGED <<sequence, emitted, holding, rows, clock, restarts, client, accepted>>
  BY DEF AddLine
<1>2. wire \in Seq(Line \cup {Result}) /\ clock \in Nat /\ newest \in Nat
  BY DEF Types, LogTypes
<1>3. line \in Line /\ wire' \in Seq(Line \cup {Result})
  BY <1>1, <1>2, HeadTailProperties
<1>4. entry \in Entries /\ entry.latest <= newest
  BY <1>2, EntryIs, NothingIs
<1> HIDE DEF line, entry
<1>5. /\ new \in Entries /\ new.latest = MaxOf(entry.latest, line.seq)
      /\ Len(new.lines) \in Nat /\ Len(new.lines) # 0
  <2>1. new \in Entries /\ new.latest = MaxOf(entry.latest, line.seq)
    BY <1>2, <1>3, <1>4, AddedIs, LogAssumption
  <2>2. PICK k \in 0..Len(entry.lines) : Len(new.lines) = Len(entry.lines) + 1 - k
    BY <1>2, <1>3, <1>4, AddedIs, LogAssumption
  <2>3. Len(entry.lines) \in Nat
    BY <1>4 DEF Entries
  <2> QED
    BY <2>1, <2>2, <2>3
<1> HIDE DEF new
<1>6. new.lines[1] \in Line /\ new.lines \in Seq(Line)
  BY <1>5, ElementOfSeq DEF Entries
<1>7. line.seq \in Nat /\ new.lines[1].seq \in Nat /\ line # Nothing
  BY <1>3, <1>6, NothingIs DEF Line
<1>8. newest' \in Nat /\ newest <= newest' /\ line.seq <= newest' /\ new.latest <= newest'
  <2>1. newest' = MaxOf(newest, line.seq) /\ new.latest = MaxOf(entry.latest, line.seq)
    BY <1>1, <1>5
  <2>2. newest \in Nat /\ line.seq \in Nat /\ entry.latest \in Nat /\ entry.latest <= newest
    BY <1>2, <1>4, <1>7 DEF Entries
  <2> QED
    BY ONLY <2>1, <2>2 DEF MaxOf
<1>9. writing' \in [line : Line \cup {Nothing}, latest : Nat, dropped : Nat, oldest : Nat, at : Int]
      /\ writing'.latest = new.latest
  BY <1>1, <1>2, <1>3, <1>5, <1>7 DEF Entries
<1>10. excused' \in BOOLEAN
  BY <1>1
<1>11. memory' \in Entries /\ memory'.latest <= newest' /\ memory'.lines # <<>>
  BY <1>1, <1>5, <1>6, <1>8
<1>12. LogTypes'
  BY <1>1, <1>3, <1>8, <1>9, <1>10, <1>11 DEF Types, LogTypes
<1>13. RowTypes'
  <2>1. \A r \in rows : r.latest \in Nat /\ r.latest <= newest
    BY DEF Types, RowTypes, LogRow
  <2>2. \A r \in rows : r.latest <= newest'
    BY <1>2, <1>8, <2>1
  <2> QED
    BY <1>1, <2>2 DEF Types, RowTypes
<1> QED
  BY <1>12, <1>13 DEF Types

\* The row of the line that is pending.
RowOf == [line |-> writing.line, latest |-> writing.latest, dropped |-> writing.dropped,
          updated |-> writing.at, done |-> Never]

LEMMA TypesOfPersist ==
  ASSUME Types, NEW ok \in BOOLEAN, PersistLine(ok) PROVE Types'
<1>1. /\ writing.line # Nothing /\ writing' = NoWrite
      /\ UNCHANGED <<sequence, emitted, holding, wire, memory, clock, restarts, client, newest, excused>>
  BY DEF PersistLine
<1>2. \/ rows' = rows /\ accepted' = accepted
      \/ /\ rows' \subseteq {r \in rows : r.line.seq # writing.line.seq} \cup {RowOf}
         /\ accepted' = accepted \cup {writing.line.id}
  BY DEF PersistLine, RowOf
<1>3. RowOf \in LogRow /\ RowOf.line = writing.line /\ RowOf.latest = writing.latest /\ writing.latest <= newest
      /\ writing.line.id \in 1..MaxEmitted
  BY <1>1, NothingIs DEF RowOf, LogRow, Types, LogTypes, Line
<1> HIDE DEF RowOf
<1>4. RowTypes'
  BY <1>1, <1>2, <1>3 DEF Types, RowTypes
<1>5. accepted' \subseteq 1..MaxEmitted
  BY <1>2, <1>3 DEF Types, LogTypes
<1>6. LogTypes'
  BY <1>1, <1>5, NothingIs DEF Types, LogTypes
<1> QED
  BY <1>4, <1>6 DEF Types

LEMMA TypesOfComplete == ASSUME Types, MarkComplete PROVE Types'
<1>1. /\ memory' = IF memory = NoEntry THEN NoEntry ELSE [memory EXCEPT !.updated = clock, !.done = clock]
      /\ writing' = [NoWrite EXCEPT !.at = clock] /\ wire' = Tail(wire) /\ wire # <<>>
      /\ UNCHANGED <<sequence, emitted, holding, rows, clock, restarts, client, accepted, newest, excused>>
  BY DEF MarkComplete
<1>2. wire' \in Seq(Line \cup {Result})
  BY <1>1, HeadTailProperties DEF Types, LogTypes
<1>3. memory' \in Entries /\ memory'.lines = memory.lines /\ memory'.latest = memory.latest
      /\ (memory' # NoEntry => memory # NoEntry)
  <2>1. memory \in Entries /\ clock \in Int
    BY DEF Types, LogTypes
  <2>2. CASE memory = NoEntry
    BY <1>1, <2>1, <2>2
  <2>3. CASE memory # NoEntry
    <3>1. memory' = [memory EXCEPT !.updated = clock, !.done = clock]
      BY <1>1, <2>3
    <3> QED
      BY <2>1, <2>3, <3>1 DEF Entries
  <2> QED
    BY <2>2, <2>3
<1>4. writing' \in [line : Line \cup {Nothing}, latest : Nat, dropped : Nat, oldest : Nat, at : Int]
      /\ writing'.line = Nothing
  <2>1. clock \in Int
    BY DEF Types, LogTypes
  <2>2. writing' = [line |-> Nothing, latest |-> 0, dropped |-> 0, oldest |-> 0, at |-> clock]
    BY <1>1 DEF NoWrite
  <2> QED
    BY <2>1, <2>2
<1>5. LogTypes'
  BY <1>1, <1>2, <1>3, <1>4 DEF Types, LogTypes
<1>6. RowTypes'
  BY <1>1 DEF Types, RowTypes
<1> QED
  BY <1>5, <1>6 DEF Types

Marked(r) == [r EXCEPT !.updated = writing.at, !.done = writing.at]

LEMMA MarkedIs ==
  ASSUME Types, NEW r \in rows
  PROVE  Marked(r) \in LogRow /\ Marked(r).line = r.line /\ Marked(r).latest = r.latest /\ Marked(r).dropped = r.dropped
<1>1. writing.at \in Int /\ r \in LogRow
  BY DEF Types, LogTypes, RowTypes
<1> QED
  BY <1>1 DEF Marked, LogRow

LEMMA TypesOfMark == ASSUME Types, MarkRows PROVE Types'
<1>1. /\ rows' = {Marked(r) : r \in rows}
      /\ writing' = NoWrite
      /\ UNCHANGED <<sequence, emitted, holding, wire, memory, clock, restarts, client, accepted, newest, excused>>
  BY DEF MarkRows, Marked
<1>2. \A r \in rows' : \E q \in rows : r = Marked(q)
  BY <1>1
<1>3. RowTypes'
  <2>1. ASSUME NEW r \in rows' PROVE r \in LogRow /\ r.latest <= newest
    <3>1. PICK q \in rows : r = Marked(q)
      BY <1>2
    <3>2. q.latest <= newest
      BY DEF Types, RowTypes
    <3> QED
      BY <3>1, <3>2, MarkedIs
  <2>2. ASSUME NEW r \in rows', NEW q \in rows', r.line.seq = q.line.seq PROVE r = q
    <3>1. PICK r0 \in rows : r = Marked(r0) /\ r.line = r0.line
      BY <1>2, MarkedIs
    <3>2. PICK q0 \in rows : q = Marked(q0) /\ q.line = q0.line
      BY <1>2, MarkedIs
    <3>3. r0 = q0
      BY <2>2, <3>1, <3>2 DEF Types, RowTypes
    <3> QED
      BY <3>1, <3>2, <3>3
  <2> QED
    BY <1>1, <2>1, <2>2 DEF RowTypes
<1>4. LogTypes'
  BY <1>1, NothingIs DEF Types, LogTypes
<1> QED
  BY <1>3, <1>4 DEF Types

LEMMA TypesOfRestart == ASSUME Types, RestartMaster PROVE Types'
<1>1. /\ memory' = NoEntry /\ writing' = NoWrite /\ wire' = <<>> /\ rows' \subseteq rows
      /\ accepted' \in {{}, accepted} /\ excused' = (excused \/ rows' \notin {{}, rows})
      /\ UNCHANGED <<sequence, emitted, holding, clock, client, newest>>
  BY DEF RestartMaster
<1>2. <<>> \in Seq(Line \cup {Result})
  BY EmptySeq
<1>3. excused' \in BOOLEAN
  BY <1>1
<1>4. LogTypes'
  <2>1. memory'.latest <= newest'
    BY <1>1, NothingIs DEF Types, LogTypes
  <2> QED
    BY <1>1, <1>2, <1>3, <2>1, NothingIs DEF Types, LogTypes
<1>5. RowTypes'
  BY <1>1 DEF Types, RowTypes
<1> QED
  BY <1>4, <1>5 DEF Types

\* The lines a page holds are places in the entry, and a page that is not empty has a last.
LEMMA PageIs ==
  ASSUME NEW entry \in Entries, NEW after
  PROVE  /\ PageOf(entry, after) \subseteq Newer(entry, after) /\ Newer(entry, after) \subseteq 1..Len(entry.lines)
         /\ IsFiniteSet(Newer(entry, after))
         /\ PageOf(entry, after) # {} =>
              /\ Max(PageOf(entry, after)) \in PageOf(entry, after)
              /\ \A i \in PageOf(entry, after) : i <= Max(PageOf(entry, after))
<1> DEFINE page == PageOf(entry, after)
           newer == Newer(entry, after)
<1>1. Len(entry.lines) \in Nat /\ DOMAIN entry.lines = 1..Len(entry.lines)
  BY DEF Entries
<1>2. page \subseteq newer /\ newer \subseteq 1..Len(entry.lines)
  BY <1>1 DEF PageOf, Newer
<1>3. IsFiniteSet(1..Len(entry.lines))
  BY <1>1, FS_Interval
<1> HIDE DEF page, newer
<1>4. IsFiniteSet(newer) /\ IsFiniteSet(page)
  BY <1>2, <1>3, FS_Subset
<1>5. page \subseteq Int
  BY <1>1, <1>2
<1>6. page # {} => Max(page) \in page /\ \A i \in page : i <= Max(page)
  BY ONLY <1>4, <1>5, HasMax
<1> QED
  BY <1>2, <1>4, <1>6 DEF page, newer

LEMMA TypesOfRead == ASSUME Types, Read PROVE Types'
<1>1. UNCHANGED <<sequence, emitted, holding, wire, writing, clock, restarts, newest, excused>>
  BY DEF Read
<1>2. client \in [after : Nat, seen : SUBSET (1..MaxEmitted), told : BOOLEAN]
  BY DEF Types, LogTypes
<1>3. Entry # NoEntry /\ Entry \in Entries /\ Entry.lines # <<>> /\ Entry.latest <= newest
  BY EntryIs DEF Read
<1>4. CASE Expired(Entry)
  <2>1. memory' = NoEntry /\ rows' = {} /\ accepted' = {} /\ client' = [client EXCEPT !.told = TRUE]
    BY <1>4 DEF Read
  <2>2. client' \in [after : Nat, seen : SUBSET (1..MaxEmitted), told : BOOLEAN]
    BY <1>2, <2>1
  <2>3. memory'.latest <= newest'
    BY <1>1, <2>1, NothingIs DEF Types, LogTypes
  <2>4. LogTypes'
    BY <1>1, <2>1, <2>2, <2>3, NothingIs DEF Types, LogTypes
  <2> QED
    BY <1>1, <2>1, <2>4 DEF Types, RowTypes
<1>5. CASE ~Expired(Entry)
  <2> DEFINE page == PageOf(Entry, client.after)
  <2>1. /\ memory' = Entry /\ rows' = rows /\ accepted' = accepted
        /\ client' = [after |-> IF page = {} THEN client.after ELSE Entry.lines[Max(page)].seq,
                      seen |-> client.seen \cup {Entry.lines[i].id : i \in page},
                      told |-> client.told \/ Entry.dropped > 0]
    BY <1>5 DEF Read
  <2>2. /\ page \subseteq 1..Len(Entry.lines)
        /\ page # {} => Max(page) \in page
    BY <1>3, PageIs
  <2>3. \A i \in page : Entry.lines[i] \in Line
    BY <1>3, <2>2, ElementOfSeq DEF Entries
  <2> HIDE DEF page
  <2>4. \A i \in page : Entry.lines[i].id \in 1..MaxEmitted /\ Entry.lines[i].seq \in Nat
    BY <2>3 DEF Line
  <2>5. client'.after \in Nat
    BY <1>2, <2>1, <2>2, <2>4
  <2>6. client'.seen \subseteq 1..MaxEmitted
    BY <1>2, <2>1, <2>4
  <2>7. client'.told \in BOOLEAN
    BY <2>1
  <2>8. client' \in [after : Nat, seen : SUBSET (1..MaxEmitted), told : BOOLEAN]
    BY <2>1, <2>5, <2>6, <2>7
  <2>9. LogTypes'
    BY <1>1, <1>3, <2>1, <2>8 DEF Types, LogTypes
  <2> QED
    BY <1>1, <2>1, <2>9 DEF Types, RowTypes
<1> QED
  BY <1>4, <1>5

LEMMA TypesStep == ASSUME Types, LogNext \/ UNCHANGED logVars PROVE Types'
<1>1. CASE UNCHANGED logVars
  BY <1>1 DEF logVars, Types, LogTypes, RowTypes
<1>2. CASE LogNext
  BY <1>2, TypesOfAgent, TypesOfAdd, TypesOfPersist, TypesOfComplete, TypesOfMark, TypesOfRestart, TypesOfRead DEF LogNext
<1> QED
  BY <1>1, <1>2

-----------------------------------------------------------------------------
(* While no line overtook another: what memory, rows and reader know.      *)

Pending == writing.line # Nothing
RowIDs == {r.line.id : r \in rows}

\* Lines are in the order of their numbers, and the one to be written is the newest.
OrderInv ==
  /\ Sorted(memory) /\ \A line \in Lines(memory) : line.seq <= newest
  /\ \A r \in rows : IF Pending THEN r.line.seq < newest ELSE r.line.seq <= newest
  /\ Pending => writing.line.seq = newest
  /\ client.after <= newest

\* A row that the entry does not hold any more is one it has dropped and counted.
EntryHolds(entry) ==
  /\ \A r \in rows : r.line \in Lines(entry) \/ (entry.dropped > 0 /\ r.line.seq < entry.lines[1].seq)
  /\ entry.dropped = 0 => accepted \subseteq RowIDs
  /\ entry.dropped + Len(entry.lines) <= entry.latest
MemoryInv == memory # NoEntry => EntryHolds(memory)

\* The transaction that is pending deletes only rows whose loss it records.
PendingInv ==
  Pending =>
    /\ writing.dropped = 0 => accepted \subseteq RowIDs /\ \A r \in rows : r.line.seq >= writing.oldest
    /\ writing.dropped < writing.latest /\ writing.oldest <= writing.line.seq
    /\ IF memory = NoEntry THEN rows = {}
       ELSE /\ memory.dropped = writing.dropped /\ memory.latest = writing.latest
            /\ memory.lines[1].seq = writing.oldest /\ memory.lines[Len(memory.lines)] = writing.line

\* The last row, from which a restarted Master loads its counters, has recorded every loss.
RowsInv ==
  /\ rows = {} => accepted = {}
  /\ \A r \in rows : IsLast(r) =>
       /\ r.dropped = 0 => accepted \subseteq RowIDs
       /\ r.dropped + Cardinality(rows) <= r.latest

\* The reader has seen the lines up to its cursor, or was told.
ReaderKnows(line) == line.seq <= client.after => line.id \in client.seen \/ client.told
ReaderInv ==
  /\ \A r \in rows : ReaderKnows(r.line)
  /\ \A line \in Lines(memory) : ReaderKnows(line)
  /\ Pending => ReaderKnows(writing.line)

InOrder == OrderInv /\ MemoryInv /\ PendingInv /\ RowsInv /\ ReaderInv

\* The lines of an entry have places.
LEMMA LinesAre ==
  ASSUME NEW entry \in Entries
  PROVE  /\ Len(entry.lines) \in Nat /\ DOMAIN entry.lines = 1..Len(entry.lines)
         /\ \A line \in Lines(entry) : line \in Line /\ line.seq \in Nat /\ line.id \in Nat
         /\ \A i \in 1..Len(entry.lines) : entry.lines[i] \in Lines(entry)
         /\ \A line \in Lines(entry) : \E i \in 1..Len(entry.lines) : entry.lines[i] = line
         /\ entry.latest \in Nat /\ entry.dropped \in Nat
         /\ entry.lines # <<>> => Len(entry.lines) >= 1
<1>1. entry.lines \in Seq(Line) /\ entry.latest \in Nat /\ entry.dropped \in Nat
  BY DEF Entries
<1>2. Len(entry.lines) \in Nat /\ DOMAIN entry.lines = 1..Len(entry.lines)
      /\ \A i \in 1..Len(entry.lines) : entry.lines[i] \in Line
  BY <1>1, ElementOfSeq
<1>3. \A line \in Line : line.seq \in Nat /\ line.id \in Nat
  BY DEF Line
<1> QED
  BY <1>1, <1>2, <1>3, EmptySeq DEF Lines

\* What holds of the entry that Add and Get work on, wherever it comes from.
LEMMA EntryKeeps ==
  ASSUME Types, InOrder
  PROVE  /\ Sorted(Entry)
         /\ \A line \in Lines(Entry) : line.seq <= newest /\ ReaderKnows(line)
         /\ Entry # NoEntry => EntryHolds(Entry)
         /\ Entry = NoEntry => rows = {} /\ accepted = {} /\ Lines(Entry) = {}
         /\ Pending /\ Entry # NoEntry => Entry = memory /\ memory # NoEntry
         /\ Entry.dropped + Len(Entry.lines) <= Entry.latest
<1>1. CASE memory # NoEntry
  BY <1>1 DEF Entry, InOrder, OrderInv, MemoryInv, ReaderInv, EntryHolds
<1>2. CASE memory = NoEntry /\ rows = {}
  <2>1. Entry = NoEntry
    BY <1>2 DEF Entry, Load
  <2>2. Lines(Entry) = {} /\ Sorted(Entry)
    <3>1. Len(NoEntry.lines) = 0 /\ DOMAIN NoEntry.lines = {}
      BY NothingIs, EmptySeq
    <3> QED
      BY <2>1, <3>1 DEF Lines, Sorted
  <2>3. Entry.dropped + Len(Entry.lines) <= Entry.latest
    BY <2>1, NothingIs, EmptySeq
  <2> QED
    BY <1>2, <2>1, <2>2, <2>3 DEF InOrder, RowsInv
<1>3. CASE memory = NoEntry /\ rows # {}
  <2>1. /\ Entry = Load /\ Load # NoEntry /\ Sorted(Load)
        /\ Len(Load.lines) = Cardinality(rows) /\ Lines(Load) = {r.line : r \in rows}
    BY <1>3, Loaded DEF Entry, Types
  <2>2. PICK r \in rows : IsLast(r) /\ Load.latest = r.latest /\ Load.dropped = r.dropped
    BY <1>3, Loaded DEF Types
  <2>3. /\ Load.dropped = 0 => accepted \subseteq RowIDs
        /\ Load.dropped + Len(Load.lines) <= Load.latest
    BY <2>1, <2>2 DEF InOrder, RowsInv
  <2>4. EntryHolds(Load)
    BY <2>1, <2>3 DEF EntryHolds
  <2>5. ~Pending
    BY <1>3 DEF InOrder, PendingInv
  <2>6. \A q \in rows : q.line.seq <= newest /\ ReaderKnows(q.line)
    BY <2>5 DEF InOrder, OrderInv, ReaderInv
  <2> QED
    BY <1>3, <2>1, <2>3, <2>4, <2>5, <2>6
<1> QED
  BY <1>1, <1>2, <1>3

\* A line newer than an entry's goes to its end; what has to go is dropped from its start.
LEMMA AddedLines ==
  ASSUME NEW entry \in Entries, NEW line \in Line, clock \in Nat, Sorted(entry),
         \A l \in Lines(entry) : l.seq < line.seq,
         NEW new, new = Added(entry, line)
  PROVE  /\ new \in Entries /\ Sorted(new) /\ Len(new.lines) >= 1
         /\ new.lines[Len(new.lines)] = line /\ line \in Lines(new)
         /\ Lines(new) \subseteq Lines(entry) \cup {line}
         /\ new.lines[1].seq <= line.seq /\ \A l \in Lines(new) : new.lines[1].seq <= l.seq
         /\ new.dropped >= entry.dropped
         /\ new.dropped + Len(new.lines) = entry.dropped + Len(entry.lines) + 1
         /\ \A l \in Lines(entry) : l \in Lines(new) \/ (new.dropped > 0 /\ l.seq < new.lines[1].seq)
         /\ entry.lines # <<>> => entry.lines[1].seq <= new.lines[1].seq
<1> DEFINE n == Len(entry.lines)
<1>1. new \in Entries
  BY AddedIs, LogAssumption
<1>2. PICK k \in 0..n :
        /\ new.dropped = entry.dropped + k
        /\ Len(new.lines) = n + 1 - k
        /\ \A i \in 1..(n - k) : new.lines[i] = entry.lines[i + k]
        /\ new.lines[n + 1 - k] = line
  BY AddedIs, LogAssumption
<1>3. /\ n \in Nat /\ DOMAIN entry.lines = 1..n /\ entry.dropped \in Nat
      /\ \A i \in 1..n : entry.lines[i] \in Lines(entry) /\ entry.lines[i].seq \in Nat
      /\ \A l \in Lines(entry) : \E i \in 1..n : entry.lines[i] = l
      /\ entry.lines # <<>> => n >= 1
  BY LinesAre
<1>4. DOMAIN new.lines = 1..(n + 1 - k) /\ line.seq \in Nat
  BY <1>1, <1>2, LinesAre DEF Line
<1> HIDE DEF n
<1>5. k \in Nat /\ k <= n
  BY <1>3
<1> DEFINE Grows == \A i, j \in 1..n : i < j => entry.lines[i].seq < entry.lines[j].seq
<1>16. Grows
  BY <1>3 DEF Sorted
<1>6. \A i \in 1..(n + 1 - k) : \/ i \in 1..(n - k) /\ i + k \in 1..n /\ new.lines[i] = entry.lines[i + k]
                                \/ i = n + 1 - k /\ new.lines[i] = line
  BY <1>2, <1>3, <1>5
<1>7. Sorted(new)
  <2> SUFFICES ASSUME NEW i \in 1..(n + 1 - k), NEW j \in 1..(n + 1 - k), i < j
               PROVE  new.lines[i].seq < new.lines[j].seq
    BY <1>4 DEF Sorted
  <2>1. i \in 1..(n - k) /\ i + k \in 1..n /\ new.lines[i] = entry.lines[i + k]
    BY <1>3, <1>5, <1>6
  <2>2. CASE j = n + 1 - k
    BY <1>2, <1>3, <2>1, <2>2
  <2>3. CASE j # n + 1 - k
    <3>1. j + k \in 1..n /\ new.lines[j] = entry.lines[j + k] /\ i + k < j + k
      BY <1>3, <1>5, <1>6, <2>3
    <3> QED
      BY <1>16, <2>1, <3>1
  <2> QED
    BY <2>2, <2>3
<1>8. Lines(new) \subseteq Lines(entry) \cup {line}
  BY <1>3, <1>4, <1>6 DEF Lines
<1>9. 1 \in 1..(n + 1 - k) /\ n + 1 - k \in 1..(n + 1 - k)
  BY <1>3, <1>5
<1>10. line \in Lines(new)
  BY <1>2, <1>4, <1>9 DEF Lines
<1>11. \A l \in Lines(new) : new.lines[1].seq <= l.seq
  <2> TAKE l \in Lines(new)
  <2>1. PICK i \in 1..(n + 1 - k) : l = new.lines[i]
    BY <1>4 DEF Lines
  <2>2. l.seq \in Nat
    BY <1>1, LinesAre
  <2>3. CASE i = 1
    BY <2>1, <2>2, <2>3
  <2>4. CASE i # 1
    <3>1. new.lines[1].seq < l.seq
      BY <1>4, <1>5, <1>3, <1>7, <1>9, <2>1, <2>4, SMTT(30) DEF Sorted
    <3>2. new.lines[1].seq \in Nat
      BY <1>1, <1>2, <1>9, LinesAre
    <3> QED
      BY <2>2, <3>1, <3>2
  <2> QED
    BY <2>3, <2>4
<1>12. \A l \in Lines(entry) : l \in Lines(new) \/ (new.dropped > 0 /\ l.seq < new.lines[1].seq)
  <2> TAKE l \in Lines(entry)
  <2>1. PICK i \in 1..n : l = entry.lines[i]
    BY <1>3
  <2>2. CASE i > k
    <3>1. i - k \in 1..(n - k) /\ (i - k) + k = i /\ i - k \in 1..(n + 1 - k)
      BY <1>3, <1>5, <2>2
    <3>2. new.lines[i - k] = l
      BY <1>2, <2>1, <3>1
    <3> QED
      BY <1>4, <3>1, <3>2 DEF Lines
  <2>3. CASE ~(i > k)
    <3>1. new.dropped > 0
      BY <1>2, <1>3, <1>5, <2>3
    <3>2. l.seq < new.lines[1].seq
      <4>1. CASE 1 = n + 1 - k
        BY <1>2, <4>1
      <4>2. CASE 1 # n + 1 - k
        <5>1. new.lines[1] = entry.lines[1 + k] /\ 1 + k \in 1..n /\ i < 1 + k
          BY <1>3, <1>5, <1>6, <1>9, <2>3, <4>2
        <5> QED
          BY <1>3, <2>1, <5>1 DEF Sorted
      <4> QED
        BY <4>1, <4>2
    <3> QED
      BY <3>1, <3>2
  <2> QED
    BY <2>2, <2>3
<1>13. ASSUME entry.lines # <<>> PROVE entry.lines[1].seq <= new.lines[1].seq
  <2>1. 1 \in 1..n /\ entry.lines[1] \in Lines(entry)
    BY <1>3, <1>13
  <2>2. CASE 1 = n + 1 - k
    BY <1>2, <1>3, <1>4, <2>1, <2>2
  <2>3. CASE 1 # n + 1 - k
    <3>1. new.lines[1] = entry.lines[1 + k] /\ 1 + k \in 1..n
      BY <1>3, <1>5, <1>6, <1>9, <2>3
    <3>2. CASE k = 0
      BY <1>3, <2>1, <3>1, <3>2
    <3>3. CASE k # 0
      <4>1. entry.lines[1].seq < entry.lines[1 + k].seq
        <5>1. 1 < 1 + k
          BY <1>5, <3>3
        <5> QED
          BY <1>16, <2>1, <3>1, <5>1
      <4> QED
        BY <1>3, <2>1, <3>1, <4>1
    <3> QED
      BY <3>2, <3>3
  <2> QED
    BY <2>2, <2>3
<1>14. /\ Len(new.lines) >= 1 /\ new.lines[Len(new.lines)] = line /\ new.dropped >= entry.dropped
       /\ new.dropped + Len(new.lines) = entry.dropped + n + 1
  BY <1>2, <1>3, <1>5
<1>15. new.lines[1].seq <= line.seq
  BY <1>10, <1>11
<1> QED
  BY <1>1, <1>7, <1>8, <1>10, <1>11, <1>12, <1>13, <1>14, <1>15 DEF n

LEMMA TypesSay ==
  ASSUME Types
  PROVE  /\ newest \in Nat /\ clock \in Nat /\ client.after \in Nat /\ excused \in BOOLEAN
         /\ memory \in Entries /\ (memory # NoEntry => memory.lines # <<>>)
         /\ \A r \in rows : r.line \in Line /\ r.line.seq \in Nat /\ r.latest \in Nat /\ r.dropped \in Nat
         /\ Pending => writing.line \in Line /\ writing.line.seq \in Nat
         /\ writing.dropped \in Nat /\ writing.latest \in Nat /\ writing.oldest \in Nat
BY DEF Types, LogTypes, RowTypes, LogRow, Line, Pending

LEMMA OrderFirst == LogInit => InOrder
<1> SUFFICES ASSUME LogInit PROVE InOrder
  OBVIOUS
<1>1. memory = NoEntry /\ rows = {} /\ writing = NoWrite /\ accepted = {} /\ newest = 0 /\ client.after = 0
  BY DEF LogInit
<1>2. ~Pending
  BY <1>1, NothingIs DEF Pending
<1>3. Lines(memory) = {} /\ Sorted(memory)
  <2>1. DOMAIN NoEntry.lines = {}
    BY NothingIs, EmptySeq
  <2> QED
    BY <1>1, <2>1 DEF Lines, Sorted
<1> QED
  BY <1>1, <1>2, <1>3 DEF InOrder, OrderInv, MemoryInv, PendingInv, RowsInv, ReaderInv

\* Steps of which memory, rows and reader see nothing.
LEMMA OrderQuiet ==
  ASSUME InOrder, UNCHANGED <<memory, rows, writing, client, accepted, newest>> PROVE InOrder'
<1>1. OrderInv'
  BY DEF InOrder, OrderInv, Sorted, Lines, Pending
<1>2. MemoryInv'
  BY DEF InOrder, MemoryInv, EntryHolds, Lines, RowIDs
<1>3. PendingInv'
  BY DEF InOrder, PendingInv, Pending, RowIDs
<1>4. RowsInv'
  BY DEF InOrder, RowsInv, IsLast, RowIDs
<1>5. ReaderInv'
  BY DEF InOrder, ReaderInv, ReaderKnows, Lines, Pending
<1> QED
  BY <1>1, <1>2, <1>3, <1>4, <1>5 DEF InOrder

LEMMA OrderOfAdd ==
  ASSUME Types, Types', InOrder, NEW loads \in BOOLEAN, AddLine(loads), ~excused'
  PROVE  InOrder'
<1> DEFINE line == Head(wire)
           new == Added(Entry, line)
<1>1. /\ writing = NoWrite /\ wire # <<>> /\ line # Result
      /\ memory' = new
      /\ writing' = [line |-> line, latest |-> new.latest, dropped |-> new.dropped, oldest |-> new.lines[1].seq, at |-> clock]
      /\ ~(line.seq <= newest) /\ newest' = MaxOf(newest, line.seq)
      /\ UNCHANGED <<rows, client, accepted>>
  <2>1. (IF loads THEN Entry ELSE NoEntry) = Entry
    <3>1. loads \/ (memory = NoEntry /\ rows = {})
      BY DEF AddLine
    <3> QED
      BY <3>1 DEF Entry, Load
  <2> QED
    BY <2>1 DEF AddLine
<1>2. line \in Line
  BY <1>1, HeadTailProperties DEF Types, LogTypes
<1> HIDE DEF line
<1>3. /\ newest \in Nat /\ clock \in Nat /\ client.after \in Nat /\ Entry \in Entries /\ line.seq \in Nat
      /\ \A r \in rows : r.line.seq \in Nat
  BY <1>2, TypesSay, EntryIs DEF Line
<1>4. newest < line.seq /\ newest' = line.seq /\ new.latest = line.seq
  <2>1. Entry.latest \in Nat /\ Entry.latest <= newest
    BY <1>3, EntryIs, LinesAre
  <2>2. new.latest = MaxOf(Entry.latest, line.seq)
    BY <1>2, <1>3, AddedIs, LogAssumption
  <2> QED
    BY <1>1, <1>3, <2>1, <2>2 DEF MaxOf
<1>5. /\ Sorted(Entry) /\ \A l \in Lines(Entry) : l.seq < line.seq /\ ReaderKnows(l)
      /\ Entry # NoEntry => EntryHolds(Entry)
      /\ Entry = NoEntry => rows = {} /\ accepted = {} /\ Lines(Entry) = {}
      /\ Entry.dropped + Len(Entry.lines) <= Entry.latest
  <2>1. \A l \in Lines(Entry) : l.seq \in Nat
    BY <1>3, LinesAre
  <2> QED
    BY <1>3, <1>4, <2>1, EntryKeeps
<1>6. /\ new \in Entries /\ Sorted(new) /\ Len(new.lines) >= 1
      /\ new.lines[Len(new.lines)] = line /\ line \in Lines(new)
      /\ Lines(new) \subseteq Lines(Entry) \cup {line}
      /\ new.lines[1].seq <= line.seq /\ \A l \in Lines(new) : new.lines[1].seq <= l.seq
      /\ new.dropped >= Entry.dropped
      /\ new.dropped + Len(new.lines) = Entry.dropped + Len(Entry.lines) + 1
      /\ \A l \in Lines(Entry) : l \in Lines(new) \/ (new.dropped > 0 /\ l.seq < new.lines[1].seq)
      /\ Entry.lines # <<>> => Entry.lines[1].seq <= new.lines[1].seq
  BY <1>2, <1>3, <1>5, AddedLines
<1> HIDE DEF new
<1>7. /\ new.dropped \in Nat /\ Entry.dropped \in Nat /\ Len(Entry.lines) \in Nat /\ Len(new.lines) \in Nat
      /\ Entry.latest \in Nat /\ Entry.latest <= newest
      /\ \A l \in Lines(new) : l.seq \in Nat
      /\ new.lines[1] \in Lines(new)
      /\ new # NoEntry
  <2>1. /\ Len(new.lines) \in Nat /\ DOMAIN new.lines = 1..Len(new.lines) /\ new.dropped \in Nat
        /\ \A l \in Lines(new) : l.seq \in Nat
        /\ \A i \in 1..Len(new.lines) : new.lines[i] \in Lines(new)
    BY <1>6, LinesAre
  <2>2. /\ Len(Entry.lines) \in Nat /\ Entry.dropped \in Nat /\ Entry.latest \in Nat
    BY <1>3, LinesAre
  <2>3. 1 \in 1..Len(new.lines)
    BY <1>6, <2>1
  <2>4. new # NoEntry
    <3>1. Len(NoEntry.lines) = 0
      BY NothingIs, EmptySeq
    <3> QED
      BY <1>6, <3>1
  <2> QED
    BY <2>1, <2>2, <2>3, <2>4, EntryIs
<1>8. Pending' /\ writing'.line = line /\ writing'.dropped = new.dropped /\ writing'.latest = new.latest
      /\ writing'.oldest = new.lines[1].seq
  BY <1>1, <1>2, NothingIs DEF Pending
<1>9. \A r \in rows : r.line.seq <= newest
  BY <1>3 DEF InOrder, OrderInv
<1>10. OrderInv'
  <2>1. \A l \in Lines(new) : l.seq <= line.seq
    BY <1>3, <1>5, <1>6, <1>7
  <2>2. \A r \in rows : r.line.seq < line.seq
    BY <1>3, <1>4, <1>9
  <2>3. client'.after <= newest'
    BY <1>1, <1>3, <1>4 DEF InOrder, OrderInv
  <2>4. Sorted(memory)' /\ Lines(memory)' = Lines(new)
    BY <1>1, <1>6 DEF Sorted, Lines
  <2> QED
    BY <1>1, <1>4, <1>8, <2>1, <2>2, <2>3, <2>4 DEF OrderInv
<1>11. \A r \in rows : r.line \in Lines(new) \/ (new.dropped > 0 /\ r.line.seq < new.lines[1].seq)
  <2> TAKE r \in rows
  <2>1. EntryHolds(Entry) /\ Entry.lines # <<>>
    BY <1>5, EntryIs
  <2>2. CASE r.line \in Lines(Entry)
    BY <1>6, <2>2
  <2>3. CASE r.line \notin Lines(Entry)
    <3>1. Entry.dropped > 0 /\ r.line.seq < Entry.lines[1].seq
      BY <2>1, <2>3 DEF EntryHolds
    <3>2. Entry.lines[1].seq <= new.lines[1].seq /\ Entry.lines[1].seq \in Nat /\ new.lines[1].seq \in Nat
      <4>1. 1 \in 1..Len(Entry.lines)
        BY <1>3, <2>1, LinesAre
      <4> QED
        BY <1>3, <1>6, <1>7, <2>1, <4>1, LinesAre
    <3>3. new.dropped > 0
      BY <1>6, <1>7, <3>1
    <3>4. r.line.seq < new.lines[1].seq
      BY <1>3, <3>1, <3>2
    <3> QED
      BY <3>3, <3>4
  <2> QED
    BY <2>2, <2>3
<1>12. new.dropped = 0 => accepted \subseteq RowIDs
  <2>1. new.dropped = 0 => Entry.dropped = 0
    BY <1>6, <1>7
  <2> QED
    BY <1>5, <2>1 DEF EntryHolds
<1>13. new.dropped + Len(new.lines) <= new.latest
  BY <1>3, <1>4, <1>5, <1>6, <1>7
<1>14. MemoryInv'
  <2>1. EntryHolds(memory)'
    BY <1>1, <1>11, <1>12, <1>13 DEF EntryHolds, RowIDs, Lines
  <2> QED
    BY <2>1 DEF MemoryInv
<1>15. PendingInv'
  <2>1. new.dropped = 0 => \A r \in rows : r.line.seq >= new.lines[1].seq
    BY <1>3, <1>6, <1>7, <1>11
  <2>2. new.dropped < new.latest
    BY <1>3, <1>4, <1>6, <1>7, <1>13
  <2>3. memory' # NoEntry /\ memory'.lines[Len(memory'.lines)] = line
    BY <1>1, <1>6, <1>7
  <2>4. RowIDs' = RowIDs
    BY <1>1 DEF RowIDs
  <2> QED
    BY <1>1, <1>6, <1>8, <1>12, <2>1, <2>2, <2>3, <2>4 DEF PendingInv
<1>16. RowsInv'
  BY <1>1 DEF InOrder, RowsInv, IsLast, RowIDs
<1>17. ReaderInv'
  <2>1. ReaderKnows(line)
    BY <1>3, <1>4 DEF ReaderKnows, InOrder, OrderInv
  <2>2. \A l \in Lines(new) : ReaderKnows(l)
    BY <1>5, <1>6, <2>1
  <2>3. \A l : ReaderKnows(l) => ReaderKnows(l)'
    BY <1>1 DEF ReaderKnows
  <2>4. \A r \in rows' : ReaderKnows(r.line)'
    BY <1>1, <2>3 DEF InOrder, ReaderInv
  <2>5. \A l \in Lines(memory)' : ReaderKnows(l)'
    BY <1>1, <2>2, <2>3 DEF Lines
  <2>6. ReaderKnows(writing.line)'
    BY <1>8, <2>1, <1>1 DEF ReaderKnows
  <2> QED
    BY <2>4, <2>5, <2>6 DEF ReaderInv
<1> QED
  BY <1>10, <1>14, <1>15, <1>16, <1>17 DEF InOrder

\* A transaction that fails leaves the rows as they were.
LEMMA OrderOfLoss == ASSUME Types, InOrder, PersistLine(FALSE) PROVE InOrder'
<1>1. /\ Pending /\ writing' = NoWrite
      /\ UNCHANGED <<memory, rows, client, accepted, newest>>
  BY DEF PersistLine, Pending
<1>2. ~Pending'
  BY <1>1, NothingIs DEF Pending
<1>3. newest \in Nat /\ \A r \in rows : r.line.seq \in Nat
  BY TypesSay
<1>4. OrderInv'
  <2>1. \A r \in rows : r.line.seq <= newest
    BY <1>1, <1>3 DEF InOrder, OrderInv
  <2> QED
    BY <1>1, <1>2, <2>1 DEF InOrder, OrderInv, Sorted, Lines
<1>5. MemoryInv'
  BY <1>1 DEF InOrder, MemoryInv, EntryHolds, Lines, RowIDs
<1>6. PendingInv'
  BY <1>2 DEF PendingInv
<1>7. RowsInv'
  BY <1>1 DEF InOrder, RowsInv, IsLast, RowIDs
<1>8. ReaderInv'
  BY <1>1, <1>2 DEF InOrder, ReaderInv, ReaderKnows, Lines
<1> QED
  BY <1>4, <1>5, <1>6, <1>7, <1>8 DEF InOrder

\* Rows that are lines of an entry are no more than these.
LEMMA RowsFit ==
  ASSUME NEW R, \A r, q \in R : r.line.seq = q.line.seq => r = q,
         NEW entry \in Entries, \A r \in R : r.line \in Lines(entry)
  PROVE  Cardinality(R) <= Len(entry.lines)
<1> DEFINE n == Len(entry.lines)
           f == [r \in R |-> CHOOSE i \in 1..n : entry.lines[i] = r.line]
<1>1. n \in Nat /\ \A line \in Lines(entry) : \E i \in 1..n : entry.lines[i] = line
  BY LinesAre
<1>2. \A r \in R : f[r] \in 1..n /\ entry.lines[f[r]] = r.line
  BY <1>1
<1>3. f \in [R -> 1..n]
  BY <1>2
<1> HIDE DEF f
<1>4. \A r, q \in R : f[r] = f[q] => r = q
  BY <1>2
<1>5. f \in Injection(R, 1..n)
  BY <1>3, <1>4 DEF Injection, IsInjective
<1>6. IsFiniteSet(1..n) /\ Cardinality(1..n) = n
  BY <1>1, FS_Interval
<1> QED
  BY <1>5, <1>6, FS_Injection

\* A line that is written takes its place after all others; the rows that go with it are
\* older than what memory holds, and the row says that lines were dropped.
LEMMA OrderOfPersist == ASSUME Types, Types', InOrder, PersistLine(TRUE) PROVE InOrder'
<1> DEFINE new == RowOf
           line == writing.line
<1>1. /\ Pending /\ writing' = NoWrite
      /\ UNCHANGED <<memory, client, newest>>
      /\ accepted' = accepted \cup {line.id}
      /\ rows' = {r \in rows : r.line.seq # line.seq /\ r.line.seq >= writing.oldest}
                 \cup {r \in {new} : r.line.seq >= writing.oldest}
  BY DEF PersistLine, Pending, RowOf
<1>2. ~Pending'
  BY <1>1, NothingIs DEF Pending
<1>3. /\ newest \in Nat /\ \A r \in rows : r.line.seq \in Nat /\ r.line.seq < newest
      /\ line.seq = newest /\ writing.oldest \in Nat /\ writing.oldest <= line.seq /\ writing.dropped \in Nat
      /\ writing.latest \in Nat /\ writing.dropped < writing.latest
      /\ memory \in Entries
  BY <1>1, TypesSay DEF InOrder, OrderInv, PendingInv
<1>4. new.line = line /\ new.dropped = writing.dropped /\ new.latest = writing.latest
  BY DEF RowOf
<1> HIDE DEF new
<1>5. /\ rows' = {r \in rows : r.line.seq >= writing.oldest} \cup {new}
      /\ new \in rows'
  BY <1>1, <1>3, <1>4
<1>6. \A r \in rows' : r.line.seq \in Nat /\ r.line.seq <= newest /\ (r # new => r \in rows /\ r.line.seq < newest)
  BY <1>3, <1>4, <1>5
<1>7. OrderInv'
  BY <1>1, <1>2, <1>6 DEF InOrder, OrderInv, Sorted, Lines
<1>8. line.id \in RowIDs' /\ (writing.dropped = 0 => RowIDs \subseteq RowIDs')
  <2>1. line.id \in RowIDs'
    BY <1>4, <1>5 DEF RowIDs
  <2>2. ASSUME writing.dropped = 0 PROVE RowIDs \subseteq RowIDs'
    <3>1. \A r \in rows : r.line.seq >= writing.oldest
      BY <1>1, <2>2 DEF InOrder, PendingInv
    <3> QED
      BY <1>5, <3>1 DEF RowIDs
  <2> QED
    BY <2>1, <2>2
<1>9. writing.dropped = 0 => accepted' \subseteq RowIDs'
  BY <1>1, <1>8 DEF InOrder, PendingInv
<1>10. memory # NoEntry => /\ memory.dropped = writing.dropped /\ memory.latest = writing.latest
                           /\ memory.lines[1].seq = writing.oldest /\ line \in Lines(memory)
  <2> SUFFICES ASSUME memory # NoEntry
               PROVE  /\ memory.dropped = writing.dropped /\ memory.latest = writing.latest
                      /\ memory.lines[1].seq = writing.oldest /\ line \in Lines(memory)
    OBVIOUS
  <2>1. /\ memory.dropped = writing.dropped /\ memory.latest = writing.latest
        /\ memory.lines[1].seq = writing.oldest /\ memory.lines[Len(memory.lines)] = line
    BY <1>1 DEF InOrder, PendingInv
  <2>2. Len(memory.lines) \in 1..Len(memory.lines)
    BY <1>3, LinesAre, TypesSay
  <2> QED
    BY <1>3, <2>1, <2>2, LinesAre
<1>11. MemoryInv'
  <2> SUFFICES ASSUME memory # NoEntry PROVE EntryHolds(memory)'
    BY <1>1 DEF MemoryInv
  <2>1. EntryHolds(memory)
    BY DEF InOrder, MemoryInv
  <2>2. \A r \in rows' : r.line \in Lines(memory) \/ (memory.dropped > 0 /\ r.line.seq < memory.lines[1].seq)
    BY <1>4, <1>5, <1>10, <2>1 DEF EntryHolds
  <2>3. memory.dropped = 0 => accepted' \subseteq RowIDs'
    BY <1>9, <1>10
  <2> QED
    BY <1>1, <2>1, <2>2, <2>3 DEF EntryHolds, Lines
<1>12. PendingInv'
  BY <1>2 DEF PendingInv
<1>13. new.dropped + Cardinality(rows') <= new.latest
  <2>1. CASE memory = NoEntry
    <3>1. rows' = {new}
      BY <1>1, <1>5, <2>1 DEF InOrder, PendingInv
    <3>2. Cardinality(rows') = 1
      BY <3>1, FS_Singleton
    <3> QED
      BY <1>3, <1>4, <3>2
  <2>2. CASE memory # NoEntry
    <3>1. \A r \in rows' : r.line \in Lines(memory)
      <4> TAKE r \in rows'
      <4>1. CASE r = new
        BY <1>4, <1>10, <2>2, <4>1
      <4>2. CASE r # new
        <5>1. r \in rows /\ r.line.seq >= memory.lines[1].seq /\ r.line.seq \in Nat
          BY <1>5, <1>6, <1>10, <2>2, <4>2
        <5>2. memory.lines[1].seq \in Nat
          BY <1>3, <1>10, <2>2
        <5>3. r.line \in Lines(memory) \/ r.line.seq < memory.lines[1].seq
          BY <2>2, <5>1 DEF InOrder, MemoryInv, EntryHolds
        <5> QED
          BY <5>1, <5>2, <5>3
      <4> QED
        BY <4>1, <4>2
    <3>2. rows' \subseteq LogRow /\ \A r, q \in rows' : r.line.seq = q.line.seq => r = q
      BY DEF Types, RowTypes
    <3>4. Cardinality(rows') <= Len(memory.lines)
      BY <1>3, <3>1, <3>2, RowsFit
    <3>5. memory.dropped + Len(memory.lines) <= memory.latest /\ Len(memory.lines) \in Nat
      BY <1>3, <2>2, LinesAre DEF InOrder, MemoryInv, EntryHolds
    <3>6. Cardinality(rows') \in Nat
      BY <3>2, FewRows
    <3> QED
      BY <1>3, <1>4, <1>10, <2>2, <3>4, <3>5, <3>6
  <2> QED
    BY <2>1, <2>2
<1>14. RowsInv'
  <2>1. \A r \in rows' : IsLast(r)' => r = new
    <3> SUFFICES ASSUME NEW r \in rows', IsLast(r)', r # new PROVE FALSE
      OBVIOUS
    <3>1. new.line.seq <= r.line.seq
      BY <1>5 DEF IsLast
    <3>2. r.line.seq < newest /\ new.line.seq = newest /\ r.line.seq \in Nat
      BY <1>3, <1>4, <1>6
    <3> QED
      BY <1>3, <3>1, <3>2
  <2>2. rows' # {}
    BY <1>5
  <2>3. \A r \in rows' : IsLast(r)' => /\ r.dropped = 0 => accepted' \subseteq RowIDs'
                                       /\ r.dropped + Cardinality(rows') <= r.latest
    BY <1>4, <1>9, <1>13, <2>1
  <2> QED
    BY <2>2, <2>3 DEF RowsInv
<1>15. ReaderInv'
  <2>1. \A l : ReaderKnows(l) => ReaderKnows(l)'
    BY <1>1 DEF ReaderKnows
  <2>2. ReaderKnows(line) /\ (\A r \in rows : ReaderKnows(r.line)) /\ (\A l \in Lines(memory) : ReaderKnows(l))
    BY <1>1 DEF InOrder, ReaderInv
  <2>3. \A r \in rows' : ReaderKnows(r.line)'
    BY <1>4, <1>5, <2>1, <2>2
  <2>4. \A l \in Lines(memory)' : ReaderKnows(l)'
    BY <1>1, <2>1, <2>2 DEF Lines
  <2> QED
    BY <1>2, <2>3, <2>4 DEF ReaderInv
<1> QED
  BY <1>7, <1>11, <1>12, <1>14, <1>15 DEF InOrder

\* A result marks the entry, which keeps its lines and counters.
LEMMA OrderOfComplete == ASSUME Types, InOrder, MarkComplete PROVE InOrder'
<1>1. /\ memory' = IF memory = NoEntry THEN NoEntry ELSE [memory EXCEPT !.updated = clock, !.done = clock]
      /\ writing = NoWrite /\ writing' = [NoWrite EXCEPT !.at = clock]
      /\ UNCHANGED <<rows, client, accepted, newest>>
  BY DEF MarkComplete
<1>2. ~Pending /\ ~Pending'
  <2>1. writing'.line = Nothing
    BY <1>1 DEF NoWrite
  <2> QED
    BY <1>1, <2>1, NothingIs DEF Pending
<1>3. /\ memory'.lines = memory.lines /\ memory'.latest = memory.latest /\ memory'.dropped = memory.dropped
      /\ memory' # NoEntry => memory # NoEntry
  BY <1>1, TypesSay DEF Entries
<1>4. Lines(memory)' = Lines(memory) /\ Sorted(memory)' = Sorted(memory)
  BY <1>3 DEF Lines, Sorted
<1>5. OrderInv'
  BY <1>1, <1>2, <1>4 DEF InOrder, OrderInv
<1>6. MemoryInv'
  BY <1>1, <1>3, <1>4 DEF InOrder, MemoryInv, EntryHolds, RowIDs
<1>7. PendingInv'
  BY <1>2 DEF PendingInv
<1>8. RowsInv'
  BY <1>1 DEF InOrder, RowsInv, IsLast, RowIDs
<1>9. ReaderInv'
  BY <1>1, <1>2, <1>4 DEF InOrder, ReaderInv, ReaderKnows
<1> QED
  BY <1>5, <1>6, <1>7, <1>8, <1>9 DEF InOrder

LEMMA OrderOfMark == ASSUME Types, Types', InOrder, MarkRows PROVE InOrder'
<1>1. /\ rows' = {Marked(r) : r \in rows}
      /\ ~Pending /\ writing' = NoWrite
      /\ UNCHANGED <<memory, client, accepted, newest>>
  BY DEF MarkRows, Marked, Pending
<1>2. ~Pending'
  BY <1>1, NothingIs DEF Pending
<1>3. \A r \in rows' : \E q \in rows : r = Marked(q) /\ r.line = q.line /\ r.latest = q.latest /\ r.dropped = q.dropped
  BY <1>1, MarkedIs
<1>4. \A q \in rows : Marked(q) \in rows' /\ Marked(q).line = q.line
  BY <1>1, MarkedIs
<1>5. RowIDs' = RowIDs
  BY <1>3, <1>4 DEF RowIDs
<1>6. Cardinality(rows') <= Cardinality(rows) /\ Cardinality(rows) \in Nat /\ Cardinality(rows') \in Nat
  <2> DEFINE f == [r \in rows |-> Marked(r)]
  <2>1. f \in Surjection(rows, rows')
    BY <1>1 DEF Surjection
  <2>2. IsFiniteSet(rows)
    BY RowsFinite DEF Types
  <2> HIDE DEF f
  <2>3. IsFiniteSet(rows') /\ Cardinality(rows') <= Cardinality(rows)
    BY <2>1, <2>2, FS_Surjection
  <2> QED
    BY <2>2, <2>3, FS_CardinalityType
<1>7. OrderInv'
  BY <1>1, <1>2, <1>3 DEF InOrder, OrderInv, Sorted, Lines
<1>8. MemoryInv'
  <2> SUFFICES ASSUME memory # NoEntry PROVE EntryHolds(memory)'
    BY <1>1 DEF MemoryInv
  <2>1. EntryHolds(memory)
    BY DEF InOrder, MemoryInv
  <2>2. \A r \in rows' : r.line \in Lines(memory) \/ (memory.dropped > 0 /\ r.line.seq < memory.lines[1].seq)
    BY <1>3, <2>1 DEF EntryHolds
  <2> QED
    BY <1>1, <1>5, <2>1, <2>2 DEF EntryHolds, Lines
<1>9. PendingInv'
  BY <1>2 DEF PendingInv
<1>10. RowsInv'
  <2>1. rows' = {} => accepted' = {}
    BY <1>1, <1>4 DEF InOrder, RowsInv
  <2>2. ASSUME NEW r \in rows', IsLast(r)'
        PROVE  /\ r.dropped = 0 => accepted' \subseteq RowIDs'
               /\ r.dropped + Cardinality(rows') <= r.latest
    <3>1. PICK q \in rows : r = Marked(q) /\ r.line = q.line /\ r.latest = q.latest /\ r.dropped = q.dropped
      BY <1>3
    <3>2. IsLast(q)
      BY <1>4, <2>2, <3>1 DEF IsLast
    <3>3. /\ q.dropped = 0 => accepted \subseteq RowIDs
          /\ q.dropped + Cardinality(rows) <= q.latest
      BY <3>2 DEF InOrder, RowsInv
    <3>4. q.dropped \in Nat /\ q.latest \in Nat
      BY TypesSay
    <3>5. r.dropped + Cardinality(rows') <= r.latest
      BY <1>6, <3>1, <3>3, <3>4
    <3> QED
      BY <1>1, <1>5, <3>1, <3>3, <3>5
  <2> QED
    BY <2>1, <2>2 DEF RowsInv
<1>11. ReaderInv'
  <2>1. \A l : ReaderKnows(l) => ReaderKnows(l)'
    BY <1>1 DEF ReaderKnows
  <2>2. \A r \in rows' : ReaderKnows(r.line)'
    BY <1>3, <2>1 DEF InOrder, ReaderInv
  <2>3. \A l \in Lines(memory)' : ReaderKnows(l)'
    BY <1>1, <2>1 DEF InOrder, ReaderInv, Lines
  <2> QED
    BY <1>2, <2>2, <2>3 DEF ReaderInv
<1> QED
  BY <1>7, <1>8, <1>9, <1>10, <1>11 DEF InOrder

\* A restarted Master has the rows, all of them or none, and nothing else.
LEMMA OrderOfRestart == ASSUME Types, InOrder, RestartMaster, ~excused' PROVE InOrder'
<1>1. /\ memory' = NoEntry /\ writing' = NoWrite /\ rows' \in {{}, rows}
      /\ accepted' = IF rows' = {} THEN {} ELSE accepted
      /\ UNCHANGED <<client, newest>>
  BY DEF RestartMaster
<1>2. ~Pending'
  BY <1>1, NothingIs DEF Pending
<1>3. Lines(memory)' = {} /\ Sorted(memory)'
  <2>1. DOMAIN NoEntry.lines = {}
    BY NothingIs, EmptySeq
  <2> QED
    BY <1>1, <2>1 DEF Lines, Sorted
<1>4. newest \in Nat /\ \A r \in rows : r.line.seq \in Nat
  BY TypesSay
<1>5. OrderInv'
  <2>1. \A r \in rows' : r.line.seq <= newest
    BY <1>1, <1>4 DEF InOrder, OrderInv
  <2> QED
    BY <1>1, <1>2, <1>3, <2>1 DEF InOrder, OrderInv
<1>6. MemoryInv'
  BY <1>1 DEF MemoryInv
<1>7. PendingInv'
  BY <1>2 DEF PendingInv
<1>8. RowsInv'
  <2>1. CASE rows' = {}
    BY <1>1, <2>1 DEF RowsInv
  <2>2. CASE rows' # {}
    BY <1>1, <2>2 DEF InOrder, RowsInv, IsLast, RowIDs
  <2> QED
    BY <2>1, <2>2
<1>9. ReaderInv'
  BY <1>1, <1>2, <1>3 DEF InOrder, ReaderInv, ReaderKnows
<1> QED
  BY <1>5, <1>6, <1>7, <1>8, <1>9 DEF InOrder

\* A page leaves out no line behind its last.
LEMMA PageIsPrefix ==
  ASSUME LogAssumption, NEW entry \in Entries, Sorted(entry), NEW after \in Nat,
         NEW i \in 1..Len(entry.lines), entry.lines[i].seq > after, PageOf(entry, after) # {},
         entry.lines[i].seq <= entry.lines[Max(PageOf(entry, after))].seq
  PROVE  i \in PageOf(entry, after)
<1> DEFINE newer == Newer(entry, after)
           m == Max(PageOf(entry, after))
           UpTo(k) == {j \in newer : j <= k}
<1>1. /\ m \in newer /\ newer \subseteq 1..Len(entry.lines) /\ IsFiniteSet(newer)
      /\ Cardinality(UpTo(m)) <= Page
  <2>1. m \in PageOf(entry, after)
    BY PageIs
  <2> QED
    BY <2>1, PageIs DEF PageOf
<1>2. /\ Len(entry.lines) \in Nat /\ DOMAIN entry.lines = 1..Len(entry.lines)
      /\ \A j \in 1..Len(entry.lines) : entry.lines[j].seq \in Nat
  BY LinesAre
<1>3. i \in newer
  BY <1>2 DEF Newer
<1>4. PageOf(entry, after) = {k \in newer : Cardinality(UpTo(k)) <= Page}
  BY DEF PageOf
<1> HIDE DEF newer, m
<1>5. i <= m
  <2>1. entry.lines[i].seq <= entry.lines[m].seq /\ m \in 1..Len(entry.lines)
    BY <1>1 DEF m
  <2>2. entry.lines[m].seq \in Nat /\ entry.lines[i].seq \in Nat
    BY <1>2, <2>1
  <2>3. m < i => entry.lines[m].seq < entry.lines[i].seq
    BY <1>2, <2>1 DEF Sorted
  <2>4. m \in Int /\ i \in Int
    BY <1>2, <2>1
  <2>5. ~(m < i)
    BY <2>1, <2>2, <2>3
  <2> QED
    BY ONLY <2>4, <2>5
<1>6. UpTo(i) \in SUBSET UpTo(m) /\ UpTo(m) \in SUBSET newer
  <2>1. newer \subseteq Int /\ m \in Int /\ i \in Int
    BY <1>1, <1>2
  <2>2. \A j \in newer : j <= i => j <= m
    BY <1>5, <2>1
  <2> QED
    BY <2>2
<1> HIDE DEF UpTo
<1>7. IsFiniteSet(UpTo(m))
  BY <1>1, <1>6, FS_Subset
<1>8. IsFiniteSet(UpTo(i)) /\ Cardinality(UpTo(i)) <= Cardinality(UpTo(m))
  BY <1>6, <1>7, FS_Subset
<1>9. Cardinality(UpTo(i)) \in Nat /\ Cardinality(UpTo(m)) \in Nat /\ Page \in Nat
  BY <1>7, <1>8, FS_CardinalityType, Bounds
<1>10. Cardinality(UpTo(i)) <= Page
  BY <1>1, <1>8, <1>9
<1> QED
  BY <1>3, <1>4, <1>10

\* A reader gets every line up to its new cursor, or hears of a loss.
LEMMA OrderOfRead == ASSUME Types, Types', InOrder, Read PROVE InOrder'
<1>1. Entry # NoEntry /\ UNCHANGED <<writing, newest>>
  BY DEF Read
<1>2. Pending' = Pending
  BY <1>1 DEF Pending
<1>3. /\ newest \in Nat /\ client.after \in Nat
      /\ \A r \in rows : r.line.seq \in Nat
  BY TypesSay
<1>4. CASE Expired(Entry)
  <2>1. /\ memory' = NoEntry /\ rows' = {} /\ accepted' = {}
        /\ client'.after = client.after /\ client'.told
    <3>1. client \in [after : Nat, seen : SUBSET (1..MaxEmitted), told : BOOLEAN]
      BY DEF Types, LogTypes
    <3> QED
      BY <1>4, <3>1 DEF Read
  <2>2. Lines(memory)' = {} /\ Sorted(memory)'
    <3>1. DOMAIN NoEntry.lines = {}
      BY NothingIs, EmptySeq
    <3> QED
      BY <2>1, <3>1 DEF Lines, Sorted
  <2>3. OrderInv'
    BY <1>1, <1>2, <2>1, <2>2 DEF InOrder, OrderInv
  <2>4. MemoryInv'
    BY <2>1 DEF MemoryInv
  <2>5. PendingInv'
    BY <1>1, <1>2, <2>1 DEF InOrder, PendingInv
  <2>6. RowsInv'
    BY <2>1 DEF RowsInv
  <2>7. ReaderInv'
    BY <2>1 DEF ReaderInv, ReaderKnows
  <2> QED
    BY <2>3, <2>4, <2>5, <2>6, <2>7 DEF InOrder
<1>5. CASE ~Expired(Entry)
  <2> DEFINE page == PageOf(Entry, client.after)
             n == Len(Entry.lines)
  <2>1. /\ memory' = Entry /\ rows' = rows /\ accepted' = accepted
        /\ client' = [after |-> IF page = {} THEN client.after ELSE Entry.lines[Max(page)].seq,
                      seen |-> client.seen \cup {Entry.lines[i].id : i \in page},
                      told |-> client.told \/ Entry.dropped > 0]
    BY <1>5 DEF Read
  <2>2. /\ client'.after = IF page = {} THEN client.after ELSE Entry.lines[Max(page)].seq
        /\ client.seen \subseteq client'.seen /\ \A i \in page : Entry.lines[i].id \in client'.seen
        /\ client.told => client'.told
        /\ Entry.dropped > 0 => client'.told
    BY <2>1
  <2>3. /\ Entry \in Entries /\ Sorted(Entry) /\ EntryHolds(Entry)
        /\ \A line \in Lines(Entry) : line.seq <= newest /\ ReaderKnows(line)
        /\ Pending => Entry = memory
    BY <1>1, EntryIs, EntryKeeps
  <2>4. /\ n \in Nat /\ \A line \in Lines(Entry) : \E i \in 1..n : Entry.lines[i] = line
        /\ \A i \in 1..n : Entry.lines[i] \in Lines(Entry) /\ Entry.lines[i].seq \in Nat
        /\ page \subseteq 1..n /\ (page # {} => Max(page) \in page)
    BY <1>3, <2>3, LinesAre, PageIs
  <2>5. \A line \in Lines(Entry) : ReaderKnows(line)'
    <3> SUFFICES ASSUME NEW line \in Lines(Entry), line.seq <= client'.after
                 PROVE  line.id \in client'.seen \/ client'.told
      BY DEF ReaderKnows
    <3>1. PICK i \in 1..n : Entry.lines[i] = line
      BY <2>4
    <3>2. CASE line.seq <= client.after
      BY <2>2, <2>3, <3>2 DEF ReaderKnows
    <3>3. CASE ~(line.seq <= client.after)
      <4>1. page # {} /\ line.seq <= Entry.lines[Max(page)].seq
        BY <2>2, <3>3
      <4>2. line.seq > client.after
        BY <1>3, <2>4, <3>1, <3>3
      <4>3. i \in page
        BY <1>3, <2>3, <3>1, <4>1, <4>2, PageIsPrefix, LogAssumption
      <4> QED
        BY <2>2, <3>1, <4>3
    <3> QED
      BY <3>2, <3>3
  <2> HIDE DEF page
  <2>6. client'.after <= newest
    <3>1. CASE page = {}
      BY <2>2, <3>1 DEF InOrder, OrderInv
    <3>2. CASE page # {}
      BY <2>2, <2>3, <2>4, <3>2
    <3> QED
      BY <3>1, <3>2
  <2>7. \A line : line \in Lines(memory)' <=> line \in Lines(Entry)
    BY <2>1 DEF Lines
  <2>8. Sorted(memory)'
    BY <2>1, <2>3 DEF Sorted
  <2>9. OrderInv'
    BY <1>1, <1>2, <2>1, <2>3, <2>6, <2>7, <2>8 DEF InOrder, OrderInv
  <2>10. MemoryInv'
    <3>1. EntryHolds(memory)'
      BY <2>1, <2>3, <2>7 DEF EntryHolds, RowIDs
    <3> QED
      BY <3>1 DEF MemoryInv
  <2>11. PendingInv'
    <3>1. Pending => memory' = memory
      BY <2>1, <2>3
    <3>2. RowIDs' = RowIDs
      BY <2>1 DEF RowIDs
    <3> QED
      BY <1>1, <1>2, <2>1, <3>1, <3>2 DEF InOrder, PendingInv
  <2>12. RowsInv'
    BY <2>1 DEF InOrder, RowsInv, IsLast, RowIDs
  <2>13. ReaderInv'
    <3>1. \A r \in rows' : ReaderKnows(r.line)'
      BY <2>1, <2>2, <2>3, <2>5 DEF EntryHolds, ReaderKnows
    <3>2. Pending' => ReaderKnows(writing.line)'
      <4> SUFFICES ASSUME Pending PROVE ReaderKnows(writing.line)'
        BY <1>2
      <4>1. memory = Entry /\ memory # NoEntry
        BY <1>1, <2>3
      <4>2. Entry.lines # <<>>
        BY <1>1, EntryIs
      <4>3. n \in 1..n
        BY <2>3, <4>2, LinesAre
      <4>4. writing.line = Entry.lines[n]
        BY <4>1 DEF InOrder, PendingInv
      <4>5. writing.line \in Lines(Entry) /\ writing.line' = writing.line
        BY <1>1, <2>4, <4>3, <4>4
      <4> QED
        BY <2>5, <4>5 DEF ReaderKnows
    <3> QED
      BY <2>5, <2>7, <3>1, <3>2 DEF ReaderInv
  <2> QED
    BY <2>9, <2>10, <2>11, <2>12, <2>13 DEF InOrder
<1> QED
  BY <1>4, <1>5

-----------------------------------------------------------------------------
(* The invariant.                                                          *)
LogInd == Types /\ (~excused => InOrder)

LEMMA LogIndFirst == LogInit => LogInd
BY TypesFirst, OrderFirst DEF LogInd

\* A log that is excused once stays so.
LEMMA StaysExcused == ASSUME Types, LogNext, ~excused' PROVE ~excused
<1>1. excused \in BOOLEAN
  BY TypesSay
<1> QED
  BY <1>1 DEF LogNext, Number, SendLine, SendResult, RestartAgent, AddLine, PersistLine, MarkComplete, MarkRows,
              Read, RestartMaster, Tick

LEMMA LogIndStep == ASSUME LogInd, LogNext \/ UNCHANGED logVars PROVE LogInd'
<1>1. Types /\ Types'
  BY TypesStep DEF LogInd
<1>2. ASSUME ~excused' PROVE InOrder'
  <2>1. CASE UNCHANGED logVars
    <3>1. InOrder
      BY <1>2, <2>1 DEF LogInd, logVars
    <3> QED
      BY <2>1, <3>1, OrderQuiet DEF logVars
  <2>2. CASE LogNext
    <3>1. InOrder
      BY <1>1, <1>2, <2>2, StaysExcused DEF LogInd
    <3>2. ASSUME \/ \E s \in Stream : Number(s) \/ SendLine(s, TRUE) \/ SendLine(s, FALSE)
                 \/ SendResult \/ RestartAgent \/ Tick
          PROVE  InOrder'
      <4>1. UNCHANGED <<memory, rows, writing, client, accepted, newest>>
        BY <3>2 DEF Number, SendLine, SendResult, RestartAgent, Tick
      <4> QED
        BY <3>1, <4>1, OrderQuiet
    <3>3. ASSUME AddLine(TRUE) \/ AddLine(FALSE) PROVE InOrder'
      BY <1>1, <1>2, <3>1, <3>3, OrderOfAdd
    <3>4. ASSUME PersistLine(TRUE) \/ PersistLine(FALSE) PROVE InOrder'
      BY <1>1, <3>1, <3>4, OrderOfPersist, OrderOfLoss
    <3>5. ASSUME MarkComplete \/ MarkRows PROVE InOrder'
      BY <1>1, <3>1, <3>5, OrderOfComplete, OrderOfMark
    <3>6. ASSUME Read PROVE InOrder'
      BY <1>1, <3>1, <3>6, OrderOfRead
    <3>7. ASSUME RestartMaster PROVE InOrder'
      BY <1>1, <1>2, <3>1, <3>7, OrderOfRestart
    <3> QED
      BY <2>2, <3>2, <3>3, <3>4, <3>5, <3>6, <3>7 DEF LogNext
  <2> QED
    BY <2>1, <2>2
<1> QED
  BY <1>1, <1>2 DEF LogInd

LEMMA LogIndSays == LogInd => LogInv
<1> SUFFICES ASSUME LogInd PROVE LogInv
  OBVIOUS
<1>1. LogTypeOK
  <2>1. /\ emitted \in 0..MaxEmitted /\ sequence \in 0..emitted /\ MaxEmitted \in Nat
        /\ memory.latest <= newest /\ accepted \subseteq 1..MaxEmitted /\ memory \in Entries
    BY Bounds DEF LogInd, Types, LogTypes
  <2>2. sequence \in 0..MaxEmitted /\ memory.dropped \in Nat
    BY <2>1, LinesAre
  <2> QED
    BY <2>1, <2>2 DEF LogTypeOK, LogInd, Types, RowTypes
<1>2. ASSUME ~excused PROVE Told /\ Entry.dropped + Len(Entry.lines) <= Entry.latest
  <2>1. /\ Entry \in Entries /\ Entry.dropped \in Nat /\ Entry.dropped + Len(Entry.lines) <= Entry.latest
        /\ Entry # NoEntry => EntryHolds(Entry)
        /\ Entry = NoEntry => accepted = {}
    BY <1>2, EntryIs, EntryKeeps, LinesAre DEF LogInd
  <2>2. ASSUME NEW id \in accepted, ~(Entry.dropped > 0) PROVE id \in IDs(Entry.lines)
    <3>1. EntryHolds(Entry) /\ Entry.dropped = 0
      BY <2>1, <2>2
    <3>2. PICK r \in rows : r.line.id = id
      BY <2>2, <3>1 DEF EntryHolds, RowIDs
    <3>3. r.line \in Lines(Entry)
      BY <3>1 DEF EntryHolds
    <3> QED
      BY <3>2, <3>3 DEF Lines, IDs
  <2> QED
    BY <2>1, <2>2 DEF Told
<1>3. ReaderMissesNothing
  BY DEF ReaderMissesNothing, LogInd, InOrder, ReaderInv, ReaderKnows
<1> QED
  BY <1>1, <1>2, <1>3 DEF LogInv, TruncationIsTold, DroppedOnce

\* Of the live log of a task (tasklogs/buffer.go, api/task_logs.go): as long as its lines
\* come in the order of their numbers, every line that was written to the database is in
\* the log or the log says that it dropped some; its reader saw every line up to its cursor
\* or was told of a loss; and no dropped line is counted twice.  Through failed
\* transactions, trims, expiry and restarts of the Master, for all limits.
THEOREM LogCorrect == LogInit /\ [][LogNext]_logVars => []LogInv
<1>1. LogInit => LogInd
  BY LogIndFirst
<1>2. LogInd /\ [LogNext]_logVars => LogInd'
  BY LogIndStep
<1>3. LogInd => LogInv
  BY LogIndSays
<1> QED
  BY <1>1, <1>2, <1>3, PTL
=============================================================================
