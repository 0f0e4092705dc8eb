---------------------------- MODULE PolicyConfig -----------------------------
(***************************************************************************)
(* The policies and storages of the Master: create, update, copy, bulk     *)
(* assignment and deletion (internal/master/api/policy.go, storage.go)     *)
(* over the rows of the agents (Enrollment).                               *)
(*                                                                         *)
(* A handler reads rows and checks them against the request, and writes    *)
(* in a later step: every other request may come between.  Of a policy,    *)
(* kept is what the checks are about: its mode, whether verification is    *)
(* enabled, its source, and the password stored with a database source.    *)
(***************************************************************************)
EXTENDS Enrollment

CONSTANTS
  Policy, Storage,  \* ids
  Request,          \* requests at work at once
  Source,           \* identities of sources (databaseSourceIdentityKey)
  Requires,         \* Source -> the capabilities it needs
  MaxRequests       \* bound: requests begun

Mode == {"snapshot", "archive"}
None == "none"
Row == [agent : Agent, storage : Storage, mode : Mode, verify : BOOLEAN,
        source : Source, secret : Source \cup {None}]
NoRow == [agent |-> None]
NoRequest == [op |-> "none"]

VARIABLES
  storages,  \* the rows of storage_configs
  policies,  \* the rows of backup_policies, or NoRow; ids are not used again
  used,      \* the ids of policies given away
  requests,  \* Request -> what its handler has read and checked
  begun,     \* counter for the bound
  overlapped \* two requests have been at work at once

policyVars == <<storages, policies, used, requests, begun, overlapped>>

PolicyInit ==
  /\ storages = Storage
  /\ policies = [p \in Policy |-> NoRow] /\ used = {} /\ overlapped = FALSE
  /\ requests = [r \in Request |-> NoRequest] /\ begun = 0

Begin(r, what) ==
  /\ requests[r] = NoRequest /\ begun < MaxRequests
  /\ begun' = begun + 1
  /\ overlapped' = (overlapped \/ \E q \in Request : requests[q] # NoRequest)
  /\ requests' = [requests EXCEPT ![r] = what]
End(r) == requests' = [requests EXCEPT ![r] = NoRequest]

-----------------------------------------------------------------------------
\* What the handlers check.

\* agentHasCapability, for each capability that the source needs; for a path none is
\* needed, and the agent is not looked up.
Capable(a, s) == Requires[s] \subseteq agents[a].caps
Supported(a, s) == Requires[s] # {} => agents[a].row /\ Capable(a, s)

\* prepareDatabaseSourcePassword: the password sent, or the one stored for the same source
\* when the form says that there is one.
InheritedMutant(source, stored) == stored.secret
Inherited(source, stored) == IF source = stored.source THEN stored.secret ELSE None
Secret(source, sent, stored) ==
  CASE sent = "new" -> source
    [] sent = "kept" /\ stored # NoRow -> Inherited(source, stored)
    [] OTHER -> None

ArchiveRuleMutant(mode, verify, sent) == ~(mode = "archive" /\ verify /\ sent)
\* Verification of an archive is refused, whether the request sends the settings or not.
ArchiveRule(mode, verify, sent) == ~(mode = "archive" /\ verify)

\* CreatePolicy, up to its INSERT.
CheckCreate(r) ==
  \E a \in Agent, st \in storages, m \in Mode, v \in BOOLEAN, s \in Source, sent \in {"new", "none"} :
    /\ agents[a].row /\ Supported(a, s)
    /\ ArchiveRule(m, v, TRUE)
    /\ Begin(r, [op |-> "create", row |-> [agent |-> a, storage |-> st, mode |-> m, verify |-> v,
                                           source |-> s, secret |-> Secret(s, sent, NoRow)]])
    /\ UNCHANGED <<storages, policies, used>>

\* CopyPolicy checks nothing again.
CheckCopy(r, p) ==
  /\ policies[p] # NoRow
  /\ Begin(r, [op |-> "create", row |-> policies[p]])
  /\ UNCHANGED <<storages, policies, used>>

\* UpdatePolicy: every field is optional, and what is not sent stays as it was read.
CheckUpdate(r, p) ==
  LET old == policies[p] IN
  /\ old # NoRow
  /\ \/ \E st \in storages : Begin(r, [op |-> "save", id |-> p, row |-> [old EXCEPT !.storage = st]])
     \/ \E m \in Mode : /\ ArchiveRule(m, old.verify, FALSE)
                        /\ Begin(r, [op |-> "save", id |-> p, row |-> [old EXCEPT !.mode = m]])
     \/ \E m \in Mode, v \in BOOLEAN :
          /\ ArchiveRule(m, v, TRUE)
          /\ Begin(r, [op |-> "save", id |-> p, row |-> [old EXCEPT !.mode = m, !.verify = v]])
     \/ \E s \in Source, sent \in {"new", "kept", "none"} :
          /\ Supported(old.agent, s)
          /\ Begin(r, [op |-> "save", id |-> p,
                       row |-> [old EXCEPT !.source = s, !.secret = Secret(s, sent, old)]])
  /\ UNCHANGED <<storages, policies, used>>

\* BulkAssignPolicies reads its policy and all agents: its targets are among these, by id or tag.
CheckBulk(r, p) ==
  /\ policies[p] # NoRow /\ policies[p].storage \in storages
  /\ \E targets \in SUBSET {a \in Agent : agents[a].row} :
       Begin(r, [op |-> "bulk", row |-> policies[p], todo |-> targets])
  /\ UNCHANGED <<storages, policies, used>>

CheckDelete(r, p) ==
  /\ policies[p] # NoRow
  /\ Begin(r, [op |-> "delete", id |-> p])
  /\ UNCHANGED <<storages, policies, used>>

HasPolicies(st) == \E p \in Policy : policies[p] # NoRow /\ policies[p].storage = st
\* DeleteStorage counts the policies of the storage.
CheckDeleteStorage(r, st) ==
  /\ st \in storages
  /\ ~HasPolicies(st)
  /\ Begin(r, [op |-> "delete storage", id |-> st])
  /\ UNCHANGED <<storages, policies, used>>

-----------------------------------------------------------------------------
\* What they write.

Written(p, row) ==
  /\ policies' = [policies EXCEPT ![p] = row]
  /\ used' = used \cup {p}
Insert(row) == \E p \in Policy \ used : Written(p, row)

WriteCreate(r) ==
  /\ requests[r].op = "create"
  /\ Insert(requests[r].row)
  /\ End(r) /\ UNCHANGED <<storages, begun, overlapped>>

\* Save writes the whole row, and inserts it again when it is gone.
WriteUpdate(r) ==
  /\ requests[r].op = "save"
  /\ Written(requests[r].id, requests[r].row)
  /\ End(r) /\ UNCHANGED <<storages, begun, overlapped>>

\* bulkAssignPolicies checks the capabilities of each target again; an agent that is gone
\* or cannot run the source is reported, and the others get their policy.
WriteBulk(r, a) ==
  /\ requests[r].op = "bulk" /\ a \in requests[r].todo
  /\ IF Supported(a, requests[r].row.source)
       THEN Insert([requests[r].row EXCEPT !.agent = a])
       ELSE UNCHANGED <<policies, used>>
  /\ requests' = [requests EXCEPT ![r].todo = @ \ {a}]
  /\ UNCHANGED <<storages, begun, overlapped>>
EndBulk(r) ==
  /\ requests[r].op = "bulk" /\ requests[r].todo = {}
  /\ End(r) /\ UNCHANGED <<storages, policies, used, begun, overlapped>>

WriteDelete(r) ==
  /\ requests[r].op = "delete"
  /\ policies' = [policies EXCEPT ![requests[r].id] = NoRow]
  /\ End(r) /\ UNCHANGED <<storages, used, begun, overlapped>>

\* A policy written since they were counted loses its storage.
WriteDeleteStorage(r) ==
  /\ requests[r].op = "delete storage"
  /\ storages' = storages \ {requests[r].id}
  /\ End(r) /\ UNCHANGED <<policies, used, begun, overlapped>>

PolicyNext ==
  \/ \E r \in Request :
       \/ CheckCreate(r) \/ WriteCreate(r) \/ WriteUpdate(r) \/ EndBulk(r) \/ WriteDelete(r)
       \/ WriteDeleteStorage(r)
       \/ \E p \in Policy : CheckCopy(r, p) \/ CheckUpdate(r, p) \/ CheckBulk(r, p) \/ CheckDelete(r, p)
       \/ \E st \in Storage : CheckDeleteStorage(r, st)
       \/ \E a \in Agent : WriteBulk(r, a)

\* Policies change while agents come, go and change.
ConfigNext ==
  \/ PolicyNext /\ UNCHANGED agentVars
  \/ EnrollmentNext /\ UNCHANGED policyVars
ConfigSpec == EnrollmentInit /\ PolicyInit /\ [][ConfigNext]_<<agentVars, policyVars>>

-----------------------------------------------------------------------------
\* Every variable of the two modules has its type: a request has read what it needs.
TypeOK ==
  /\ agents \in [Agent -> [row : BOOLEAN, enroll : 0..MaxTokens, token : 0..MaxTokens, caps : SUBSET Capability]]
  /\ exchanged \subseteq Token \X Token /\ dead \subseteq Token
  /\ \A p \in Policy : policies[p] = NoRow \/ (policies[p] \in Row /\ p \in used)
  /\ \A r \in Request : requests[r].op \in {"create", "save", "bulk"} => requests[r].row \in Row

Rows == {policies[p] : p \in Policy} \ {NoRow}

\* No policy makes archives and verifies them, though mode and verification are sent in
\* different updates, which run at once and are checked against what each has read.
ArchivesAreNotVerified == \A row \in Rows : ~(row.mode = "archive" /\ row.verify)

\* The password kept for a source is one entered for that source: a redacted form never
\* carries it to another host, user or container.
SecretsBelong == \A row \in Rows : row.secret \in {None, row.source}

\* A source is on agents that can run it - no request, at once with others, puts it on
\* another - as long as heartbeats take no capability away.
SourcesAreSupported == \A row \in Rows : agents[row.agent].row => Capable(row.agent, row.source)

\* What that asks of a step: agents keep their capabilities, and a row appears under an
\* id that nothing names (CreateAgent generates it; a save of tags over a deleted row,
\* which would bring back an old one, does not).
Writing == {requests[r].row : r \in {q \in Request : requests[q].op \in {"create", "save"}}}
Lasting ==
  \A a \in Agent : agents'[a].row =>
    IF agents[a].row THEN agents[a].caps \subseteq agents'[a].caps
    ELSE \A row \in Rows \cup Writing : row.agent # a

\* Requests made one after the other leave no policy without its storage; of two at
\* once, one may delete the storage that the other has just checked.
StorageIsThere == ~overlapped => \A row \in Rows : row.storage \in storages

\* A stored policy is one that its checks allow, although each of them was made on
\* what a request had read and other requests have written since.
StoredIsAllowed == TypeOK /\ ArchivesAreNotVerified /\ SourcesAreSupported /\ StorageIsThere
=============================================================================
