----------------------------- MODULE PolicySync ------------------------------
(***************************************************************************)
(* How the policies of one agent travel from the table backup_policies to  *)
(* the agent: the handlers that edit them (api/policy.go, api/storage.go), *)
(* PolicyChangedPusher (api/policy_pusher.go), the lookup and the acknow-  *)
(* ledgement (api/router.go), the dispatch of policy_push commands         *)
(* (commands/service.go) and the connection, composed with PolicyStore.    *)
(*                                                                         *)
(* A version of a policy is its updated_at.  The bus calls its subscribers *)
(* on the goroutine that publishes, so an HTTP handler or a read loop runs *)
(* the pusher itself.  Request and Reader are the goroutines, each with the *)
(* statement it is at.  Policies of other agents share only the two locks. *)
(***************************************************************************)
EXTENDS PolicyStore, Sequences, SequencesExt

CONSTANTS
  Request,    \* HTTP handlers
  Reader,     \* handlers of connections
  Existing,   \* policies created before the agent connects for the first time
  PushId,     \* message ids; one is used again when nothing remembers it
  MaxClock,   \* bound: edits
  MaxFaults   \* bound: lost connections, failures, restarts, expired deadlines

VARIABLES
  row,        \* backup_policies: updated_at and synced, or no row
  command,    \* agent_commands of type policy_push
  tracker,    \* PolicyPushTracker: the ids it knows
  clock,      \* the time of the last edit
  run,        \* what each goroutine does
  pusherMu,   \* PolicyChangedPusher.mu
  dispatchMu, \* dispatchMu of the command service
  loop,       \* the goroutine that serves the connection, while it is busy with a handler
  online,     \* the connection
  heartbeat,  \* capabilityDispatches: the first heartbeat on it was read
  down, up,   \* what is on it, in either direction
  accepted,   \* the version of each policy the agent has accepted last
  torn,       \* a policy file was torn since the start
  faults

masterVars == <<row, command, tracker, clock, run, pusherMu, dispatchMu, loop, accepted>>
linkVars == <<online, heartbeat, down, up>>
vars == <<agent, torn, masterVars, linkVars, faults>>

NoRow == [ver |-> None, synced |-> FALSE]
\* A command that has ended matters only as long as the tracker knows its id.
NoCommand == [policy |-> NoPolicy, ver |-> None, status |-> "none"]
Goroutine == Request \cup Reader
Nobody == "nobody"
ASSUME SyncAssumption == MaxClock \in Nat \ {0} /\ MaxFaults \in Nat /\ Nobody \notin Goroutine
Idle == [at |-> "idle", action |-> "", policy |-> NoPolicy, ver |-> None,
         keep |-> {}, todo |-> {}]

At(g, label) == run[g].at = label

Rows == {p \in Policy : row[p] # NoRow}
Active(i) == command[i].status \in {"pending", "dispatched"}
\* Nothing can still refer to the id.
Unused(i) ==
  /\ ~Active(i)
  /\ \A n \in DOMAIN down : down[n].type = "policy_push" => down[n].id # i
  /\ \A n \in DOMAIN up : up[n].id # i
  /\ \A g \in Goroutine : i \notin run[g].todo
  /\ i # 0
FreeId == CHOOSE i \in PushId : Unused(i)

TypeOK ==
  /\ AgentTypeOK
  /\ clock \in 1..MaxClock /\ faults \in 0..MaxFaults /\ {online, heartbeat, torn} \subseteq BOOLEAN
  /\ tracker \subseteq PushId /\ {pusherMu, dispatchMu, loop} \subseteq Goroutine \cup {Nobody}
  /\ \A p \in Policy : row[p].ver \in 0..clock
  /\ \A g \in Goroutine : (pusherMu = g) = At(g, "ensure") /\ (dispatchMu = g) = At(g, "send")

Init ==
  /\ AgentInit
  /\ row = [p \in Policy |-> IF p \in Existing THEN [ver |-> 1, synced |-> FALSE] ELSE NoRow]
  /\ command = [i \in PushId |-> NoCommand] /\ tracker = {}
  /\ clock = 1 /\ run = [g \in Goroutine |-> Idle] /\ pusherMu = Nobody /\ dispatchMu = Nobody
  /\ loop = Nobody /\ online = FALSE /\ heartbeat = FALSE /\ down = <<>> /\ up = <<>> /\ accepted = NoVersion
  /\ torn = FALSE /\ faults = 0

Goto(g, changes) == run' = [run EXCEPT ![g] = changes]
\* The goroutine returns; a read loop takes its next message.
Return(g) == Goto(g, Idle) /\ loop' = IF loop = g THEN Nobody ELSE loop

\* PolicyChangedPusher.Handle: an offline agent is left for its next connection.
Handle(g, action) ==
  IF ~online THEN Return(g)
  ELSE /\ Goto(g, [Idle EXCEPT !.at = IF action \in {"deleted", "agent_online"} THEN "pluck" ELSE "lookup",
                               !.action = action])
       /\ UNCHANGED loop

-----------------------------------------------------------------------------
\* Edits.  Each writes the row and publishes PolicyChanged.
Edit == clock < MaxClock /\ clock' = clock + 1
EditKeeps == UNCHANGED <<agent, torn, linkVars, command, tracker, pusherMu, dispatchMu, accepted, faults>>

\* CreatePolicy, CopyPolicy and each target of BulkAssignPolicies.
CreatePolicy(g, p) ==
  /\ At(g, "idle") /\ row[p] = NoRow /\ Edit
  /\ row' = [row EXCEPT ![p] = [ver |-> clock + 1, synced |-> FALSE]]
  /\ Handle(g, "created") /\ EditKeeps

\* UpdatePolicy reads the row, validates, and saves it.
ReadPolicy(g, p) ==
  /\ At(g, "idle") /\ row[p] # NoRow /\ clock < MaxClock
  /\ Goto(g, [Idle EXCEPT !.at = "update", !.policy = p])
  /\ UNCHANGED <<row, clock, loop>> /\ EditKeeps
\* Save inserts the row again when it is gone.
UpdatePolicy(g) ==
  /\ At(g, "update") /\ Edit
  /\ row' = [row EXCEPT ![run[g].policy] = [ver |-> clock + 1, synced |-> FALSE]]
  /\ Handle(g, "updated") /\ EditKeeps
\* A request that fails a validation changes nothing.
RejectUpdate(g) == At(g, "update") /\ Return(g) /\ UNCHANGED <<row, clock>> /\ EditKeeps

\* The clock bounds deletions too; the rows that stay keep their updated_at.
DeletePolicy(g, p) ==
  /\ At(g, "idle") /\ row[p] # NoRow /\ Edit
  /\ row' = [row EXCEPT ![p] = NoRow]
  /\ Handle(g, "deleted") /\ EditKeeps

\* saveStorageUpdate: every policy on the storage, here all of them, is due again.
StorageUpdated(g) ==
  /\ At(g, "idle") /\ Rows # {} /\ Edit
  /\ row' = [p \in Policy |-> IF p \in Rows THEN [ver |-> clock + 1, synced |-> FALSE] ELSE NoRow]
  /\ Handle(g, "storage_updated") /\ EditKeeps

-----------------------------------------------------------------------------
\* The pusher.
PushKeeps == UNCHANGED <<agent, torn, row, clock, accepted>>

Pluck(g) ==
  /\ At(g, "pluck")
  /\ Goto(g, [run[g] EXCEPT !.at = "reconcile", !.keep = Rows])
  /\ PushKeeps /\ UNCHANGED <<linkVars, command, tracker, pusherMu, dispatchMu, loop, faults>>

\* sendPolicyReconcile sends the ids it has read.  After agent_online the next
\* call on this goroutine is PendingCommandDispatcher.
SendPolicyReconcile(g) ==
  /\ At(g, "reconcile")
  /\ down' = IF online THEN Append(down, [type |-> "policy_reconcile", keep |-> run[g].keep]) ELSE down
  /\ Goto(g, [run[g] EXCEPT !.at = "lookup", !.keep = {}])
  /\ PushKeeps /\ UNCHANGED <<online, heartbeat, up, command, tracker, pusherMu, dispatchMu, loop, faults>>

\* EnsureDurableCommand: the lookup takes an unsynced policy with the latest update.
Latest == {p \in Rows : ~row[p].synced /\ \A q \in Rows : ~row[q].synced => row[q].ver <= row[p].ver}

LookupCommand(g) ==
  /\ At(g, "lookup") /\ pusherMu = Nobody /\ pusherMu' = g
  /\ \/ /\ Latest = {} /\ Goto(g, [run[g] EXCEPT !.at = "ensure", !.policy = NoPolicy])
     \/ \E p \in Latest : Goto(g, [run[g] EXCEPT !.at = "ensure", !.policy = p, !.ver = row[p].ver])
  /\ PushKeeps /\ UNCHANGED <<linkVars, command, tracker, dispatchMu, loop, faults>>

RetiredMutant(c, p, v) == p = NoPolicy
\* No policy is due: every active push is retired.  Otherwise those of the same policy.
Retired(c, p, v) == IF p = NoPolicy THEN TRUE ELSE c.policy = p /\ c.ver # v
Retire(p, v) ==
  [i \in PushId |-> IF Active(i) /\ Retired(command[i], p, v)
                    THEN [command[i] EXCEPT !.status = "ended"] ELSE command[i]]
HasActiveMutant(p, v) == FALSE
HasActive(p, v) == \E i \in PushId : Active(i) /\ command[i].policy = p /\ command[i].ver = v

\* Only the handler of a new connection goes on to dispatch when nothing is due.
EnsureDurableCommand(g) ==
  LET p == run[g].policy
      v == run[g].ver
      next == [run[g] EXCEPT !.at = "dispatch", !.policy = NoPolicy, !.ver = None]
  IN /\ At(g, "ensure") /\ pusherMu' = Nobody
     /\ \/ /\ p = NoPolicy
           /\ command' = Retire(p, v) /\ UNCHANGED tracker
           /\ IF run[g].action = "agent_online" THEN Goto(g, next) /\ UNCHANGED loop ELSE Return(g)
        \/ /\ p # NoPolicy /\ HasActive(p, v)
           /\ command' = Retire(p, v) /\ UNCHANGED tracker
           /\ Goto(g, next) /\ UNCHANGED loop
        \/ /\ p # NoPolicy /\ ~HasActive(p, v) /\ \E i \in PushId : Unused(i)
           /\ command' = [Retire(p, v) EXCEPT ![FreeId] = [policy |-> p, ver |-> v, status |-> "pending"]]
           /\ tracker' = tracker \cup {FreeId}
           /\ Goto(g, next) /\ UNCHANGED loop
  /\ PushKeeps /\ UNCHANGED <<linkVars, dispatchMu, faults>>

\* dispatchForAgent: a new connection also sends again what was dispatched before.
Due(g) == {i \in PushId : \/ command[i].status = "pending"
                          \/ run[g].action = "agent_online" /\ command[i].status = "dispatched"}
TakeDispatch(g) ==
  /\ At(g, "dispatch")
  /\ IF ~online THEN Return(g) /\ UNCHANGED dispatchMu
     ELSE /\ dispatchMu = Nobody /\ dispatchMu' = g
          /\ Goto(g, [run[g] EXCEPT !.at = "send", !.todo = Due(g)]) /\ UNCHANGED loop
  /\ PushKeeps /\ UNCHANGED <<linkVars, command, tracker, pusherMu, faults>>

\* A command that has ended since it was read is skipped; one that cannot be sent is
\* pending again (rollbackDispatchFailure) and ends the dispatch.
SendPush(g) ==
  /\ At(g, "send")
  /\ \E i \in run[g].todo :
       \/ /\ ~Active(i) /\ Goto(g, [run[g] EXCEPT !.todo = @ \ {i}])
          /\ UNCHANGED <<down, command>>
       \/ /\ Active(i) /\ online /\ Goto(g, [run[g] EXCEPT !.todo = @ \ {i}])
          /\ command' = [command EXCEPT ![i].status = "dispatched"]
          /\ down' = Append(down, [type |-> "policy_push", id |-> i, policy |-> command[i].policy, ver |-> command[i].ver])
       \/ /\ Active(i) /\ ~online /\ Goto(g, [run[g] EXCEPT !.todo = {}])
          /\ command' = [command EXCEPT ![i].status = "pending"] /\ UNCHANGED down
  /\ PushKeeps /\ UNCHANGED <<online, heartbeat, up, tracker, pusherMu, dispatchMu, loop, faults>>

EndDispatch(g) ==
  /\ At(g, "send") /\ run[g].todo = {} /\ dispatchMu' = Nobody /\ Return(g)
  /\ PushKeeps /\ UNCHANGED <<linkVars, command, tracker, pusherMu, faults>>

-----------------------------------------------------------------------------
\* The read loop takes a policy_ack.  A push is known from the tracker or from
\* its command, if that is still active; CompletePolicyAck ends the command.
KnownPush(i) == i \in tracker \/ Active(i)

PublishAckMutant(g) == Return(g)
PublishAck(g) == Handle(g, "ack")

PolicyAck(g) ==
  LET ack == Head(up)
      known == KnownPush(ack.id)
  IN /\ up # <<>> /\ online /\ loop = Nobody /\ At(g, "idle")
     /\ up' = Tail(up) /\ loop' = g
     /\ command' = [command EXCEPT ![ack.id] = NoCommand]
     /\ tracker' = tracker \ {ack.id}
     /\ Goto(g, IF known /\ ack.success
                THEN [Idle EXCEPT !.at = "synced", !.policy = command[ack.id].policy,
                                  !.ver = command[ack.id].ver]
                ELSE [Idle EXCEPT !.at = "synced"])
     /\ UNCHANGED <<agent, torn, online, heartbeat, down, row, clock, pusherMu, dispatchMu, accepted, faults>>

MarksSyncedMutant(p, v) == TRUE
\* Only the version that was pushed becomes synced.  Every ack, good or bad, publishes
\* PolicyChanged: the next policy is pushed.
MarksSynced(p, v) == row[p].ver = v
MarkSynced(g) ==
  LET p == run[g].policy
  IN /\ At(g, "synced")
     /\ row' = IF p # NoPolicy /\ row[p] # NoRow /\ MarksSynced(p, run[g].ver)
               THEN [row EXCEPT ![p].synced = TRUE] ELSE row
     /\ PublishAck(g)
     /\ UNCHANGED <<agent, torn, linkVars, command, tracker, clock, pusherMu, dispatchMu, accepted, faults>>

\* The timeout scanner, five minutes after the creation: not while a goroutine is
\* between creating the command and sending it.  The tracker keeps the id.
ExpirePush(i) ==
  /\ command[i].status = "dispatched" \/ (Active(i) /\ ~online)
  /\ faults < MaxFaults /\ faults' = faults + 1
  /\ command' = [command EXCEPT ![i].status = "ended"]
  /\ UNCHANGED <<agent, torn, linkVars, row, tracker, clock, run, pusherMu, dispatchMu, loop, accepted>>

-----------------------------------------------------------------------------
\* HandleWebSocket: registration, then the subscriber of AgentOnline.  The loop is
\* busy until the dispatch of the new connection ends.
Connect(g) ==
  /\ ~online /\ At(g, "idle")
  /\ online' = TRUE /\ heartbeat' = FALSE /\ down' = <<>> /\ up' = <<>> /\ loop' = g
  /\ row' = [p \in Policy |-> [row[p] EXCEPT !.synced = FALSE]]
  /\ Goto(g, [Idle EXCEPT !.at = "pluck", !.action = "agent_online"])
  /\ UNCHANGED <<agent, torn, command, tracker, clock, pusherMu, dispatchMu, accepted, faults>>

\* The first heartbeat with capabilities: PendingCommandDispatcher runs once more, and sends
\* again what was dispatched on this connection and not answered yet.
Heartbeat(g) ==
  /\ online /\ ~heartbeat /\ loop = Nobody /\ At(g, "idle")
  /\ heartbeat' = TRUE /\ loop' = g
  /\ Goto(g, [Idle EXCEPT !.at = "lookup", !.action = "agent_online"])
  /\ UNCHANGED <<agent, torn, online, down, up, row, command, tracker, clock, pusherMu, dispatchMu, accepted, faults>>

\* What is on the connection is lost; a handler that runs goes on.
Disconnect ==
  /\ online /\ faults < MaxFaults /\ faults' = faults + 1
  /\ online' = FALSE /\ heartbeat' = FALSE /\ down' = <<>> /\ up' = <<>> /\ loop' = Nobody
  /\ UNCHANGED <<agent, torn, row, command, tracker, clock, run, pusherMu, dispatchMu, accepted>>

MasterRestart ==
  /\ faults < MaxFaults /\ faults' = faults + 1
  /\ tracker' = {} /\ run' = [g \in Goroutine |-> Idle] /\ pusherMu' = Nobody /\ dispatchMu' = Nobody
  /\ loop' = Nobody /\ online' = FALSE /\ heartbeat' = FALSE /\ down' = <<>> /\ up' = <<>>
  /\ command' = [i \in PushId |-> IF Active(i) THEN command[i] ELSE NoCommand]
  /\ UNCHANGED <<agent, torn, row, clock, accepted>>

\* The agent starts again; its connection is gone.
AgentRestarts(disk) ==
  /\ faults < MaxFaults /\ faults' = faults + 1
  /\ agent' = RestoreSavedPolicySchedule(disk) /\ torn' = (torn \/ LoadFails(disk))
  /\ online' = FALSE /\ heartbeat' = FALSE /\ down' = <<>> /\ up' = <<>> /\ loop' = Nobody
  /\ UNCHANGED <<row, command, tracker, clock, run, pusherMu, dispatchMu, accepted>>
AgentRestart == AgentRestarts(agent)

-----------------------------------------------------------------------------
\* The agent reads one message after the other and handles it before the next.
Answer(i, success) == up' = Append(up, [id |-> i, success |-> success])
Message(type) == online /\ down # <<>> /\ Head(down).type = type

AcceptPush ==
  LET m == Head(down)
  IN /\ Message("policy_push") /\ ~SnapshotFails(agent, m)
     /\ agent' = PushAccepted(agent, m) /\ accepted' = [accepted EXCEPT ![m.policy] = m.ver]
     /\ down' = Tail(down) /\ Answer(m.id, TRUE)
     /\ UNCHANGED <<row, command, tracker, clock, run, pusherMu, dispatchMu, loop, online, heartbeat, faults, torn>>

RefusePush ==
  LET m == Head(down)
  IN /\ Message("policy_push")
     /\ IF SnapshotFails(agent, m) THEN UNCHANGED <<agent, torn, faults>>
        ELSE faults < MaxFaults /\ faults' = faults + 1 /\ agent' \in PushRefused(agent, m)
     /\ down' = Tail(down) /\ Answer(m.id, FALSE)
     /\ UNCHANGED <<masterVars, online, heartbeat, torn>>

\* Nothing tells the Master that the rollback of the push that it is refused failed.
RollbackFails ==
  LET m == Head(down)
  IN /\ Message("policy_push") /\ ~SnapshotFails(agent, m)
     /\ faults < MaxFaults /\ faults' = faults + 1
     /\ agent' \in PushUnrestored(agent, m) /\ torn' = (torn \/ LoadFails(agent'))
     /\ down' = Tail(down) /\ Answer(m.id, FALSE)
     /\ UNCHANGED <<masterVars, online, heartbeat>>

InterruptPush ==
  /\ Message("policy_push") /\ ~SnapshotFails(agent, Head(down))
  /\ \E disk \in PushInterrupted(agent, Head(down)) : AgentRestarts(disk)

ReceiveReconcile ==
  /\ Message("policy_reconcile") /\ agent' = HandlePolicyReconcile(agent, Head(down).keep)
  /\ down' = Tail(down)
  /\ UNCHANGED <<masterVars, online, heartbeat, up, faults, torn>>

EditStep(g) ==
  \/ \E p \in Policy : CreatePolicy(g, p) \/ ReadPolicy(g, p) \/ DeletePolicy(g, p)
  \/ UpdatePolicy(g) \/ RejectUpdate(g) \/ StorageUpdated(g)
PusherStep(g) ==
  \/ Pluck(g) \/ SendPolicyReconcile(g) \/ LookupCommand(g) \/ EnsureDurableCommand(g)
  \/ TakeDispatch(g) \/ SendPush(g) \/ EndDispatch(g)
AckStep(g) == PolicyAck(g) \/ MarkSynced(g)
AgentStep == AcceptPush \/ RefusePush \/ ReceiveReconcile
Fault ==
  \/ \E i \in PushId : ExpirePush(i)
  \/ Disconnect \/ MasterRestart \/ AgentRestart \/ InterruptPush \/ RollbackFails

Next ==
  \/ \E g \in Request : EditStep(g)
  \/ \E g \in Reader : AckStep(g) \/ Connect(g) \/ Heartbeat(g)
  \/ \E g \in Goroutine : PusherStep(g)
  \/ AgentStep \/ Fault

Spec == Init /\ [][Next]_vars

\* Some goroutine runs as long as one can, the agent dials until it is connected and
\* reads what it receives.  Nothing is asked of edits, nor of one goroutine against another.
Work ==
  \/ \E g \in Goroutine : PusherStep(g)
  \/ \E g \in Reader : AckStep(g) \/ Connect(g) \/ Heartbeat(g)
  \/ AgentStep
FairSpec == Spec /\ WF_vars(Work)

-----------------------------------------------------------------------------
\* A policy is shown as synced only if the agent has accepted exactly the version in the
\* row (NewPolicyAckProcessor): never for an answer to an older version, to a push that
\* was superseded, or from before an edit.
SyncedIsAccepted == \A p \in Policy : row[p].synced => accepted[p] = row[p].ver

\* Whatever goroutines publish at once, one policy has at most one push that can still be
\* sent (EnsureDurableCommand under its lock).
OneActivePush ==
  \A p \in Policy : Cardinality({i \in PushId : Active(i) /\ command[i].policy = p}) <= 1

\* What edits, answers, reconnections and faults keep true together: the jobs of the
\* agent are those of its files, and no second push of a policy can be sent.
PushInv == TypeOK /\ JobsMatchFiles /\ OneActivePush

\* Pushes of two goroutines, redelivery on a new connection and restarts never make the
\* agent replace a version of a policy by an older one (handlePolicyPush does not compare).
AgentNeverGoesBack ==
  [][\A p \in Policy : agent.store[p] > None /\ agent'.store[p] > None
                        => agent'.store[p] >= agent.store[p]]_vars

\* A push that is refused at any stage leaves policy files, jobs and rclone.conf as they
\* were (policyRollbackState), unless its rollback fails too, which the code only logs:
\* then the jobs and the files of all other policies are still as they were.
RefusedPushRestores ==
  [][/\ RefusePush => /\ agent'.store = agent.store /\ agent'.jobs = agent.jobs
                      /\ agent'.conf = agent.conf
     /\ RollbackFails => /\ agent'.jobs = agent.jobs
                         /\ \A p \in Policy \ {Head(down).policy} : agent'.store[p] = agent.store[p]]_vars

\* handler_test.go:808, "ReplaceFailurePreservesExistingPolicyAndConfig", of the disk that
\* is full: the rollback writes to it too, and its failure is only logged.
RefusedPushPreserves ==
  [][RefusePush \/ RollbackFails => agent'.store = agent.store /\ agent'.conf = agent.conf]_vars

\* handler_test.go:808, "ReplaceFailurePreservesExistingPolicyAndConfig", of the password
\* file: the cleanup of a staged plain policy removes it after the rollback.
RefusedPushKeepsPassword == [][RefusePush => agent'.password = agent.password]_vars

\* When edits and faults stop, every policy of the agent becomes synced: each ack publishes
\* the next push and each connection starts over.  A torn policy file is never replaced,
\* its pushes are rejected and repeated for ever.
Synced == \A p \in Policy : row[p] = NoRow \/ row[p].synced
Converges == []~torn => <>[]Synced
=============================================================================
