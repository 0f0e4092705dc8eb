---------------------------- MODULE AgentRollout ----------------------------
(***************************************************************************)
(* Batch upgrades of agents (internal/master/agentrollout/service.go).     *)
(*                                                                         *)
(* A rollout owns one item per target agent: canaries first, then batches. *)
(* AdvanceRollout decides from the rows what to do next.  It runs on any   *)
(* goroutine that has a reason to: the one that a create request spawns,   *)
(* and the read loop of an agent whose heartbeat reports the target        *)
(* version.  Nothing serialises these runs, and each of them waits for the *)
(* acknowledgements of the agents it asks to update.  A worker is such a   *)
(* run; every query, update or transaction of it is one step.  Two workers *)
(* for one agent are the read loops of its old and its new connection.     *)
(*                                                                         *)
(* Nothing else calls AdvanceRollout: AdvanceAll has no caller outside the *)
(* tests.  Database errors are not modelled.                               *)
(*                                                                         *)
(* An operator whose name ends in Mutant is the operator that follows it   *)
(* with a plausible bug in it; no action uses one.                         *)
(***************************************************************************)
EXTENDS Integers, FiniteSets

CONSTANTS
  Agent,        \* agents, numbered in the order of their names
  Rollout,      \* rollouts that requests create
  Targets,      \* the agents each of them selects
  CanaryCount, BatchSize,
  Worker,       \* runs of the coordinator at one time
  Nobody,       \* in place of a worker that waits for an acknowledgement
  Faults,       \* what may go wrong: see Fault
  MaxRestarts   \* bound on the restarts of the Master

Fault == {"reject", "loss", "install", "disconnect", "offline", "cancel"}

ASSUME AgentAssumption == Agent \subseteq Nat /\ IsFiniteSet(Agent)
ASSUME TargetsAssumption == Targets \in [Rollout -> SUBSET Agent]
ASSUME SizeAssumption == CanaryCount \in Nat \ {0} /\ BatchSize \in Nat \ {0}
ASSUME WorkerAssumption == Nobody \notin Worker
ASSUME FaultAssumption == Faults \subseteq Fault /\ MaxRestarts \in Nat

VARIABLES
  rollout,    \* agent_upgrade_rollouts.status, "absent" before the row exists
  item,       \* agent_upgrade_rollout_items.status, by rollout and agent
  batch,      \* batch_index: 0 for a canary, -1 for an item planned to be over
  overdue,    \* items whose deadline_at has passed
  create,     \* progress of the request that creates each rollout
  pc,         \* where each worker is
  cur,        \* the rollout it advances
  todo,       \* the items its last query returned and it has not handled
  beats,      \* items its heartbeat found running and it has not updated
  reply,      \* the acknowledgement in its response channel
  asked,      \* update requests on the way to each agent, by the worker waiting
  version,    \* what the heartbeats of each agent report
  installing, \* agents that accepted an update they have not installed
  connected,  \* the Hub's view of each agent
  sent,       \* items whose agent was ever asked to update
  confirmed,  \* items whose agent ever reported the target version while running
  restarts

rowVars == <<rollout, item, batch, overdue>>
workVars == <<pc, cur, todo, beats, reply>>
agentVars == <<asked, version, installing, connected>>
ghostVars == <<sent, confirmed>>
vars == <<rowVars, create, workVars, agentVars, ghostVars, restarts>>

Active == {"pending", "running"}
Ended == {"succeeded", "failed", "cancelled"}
ItemStatus == {"absent", "pending", "running", "success", "failed", "skipped"}

\* The steps of AdvanceRollout, and of HandleHeartbeat before it ("beat").
Steps == {"idle", "beat", "overdue", "expire", "stopExpired", "load", "countFailed", "stop",
          "countRunning", "countPending", "countFailedAgain", "succeed", "fail", "canaries",
          "checkCanaries", "firstBatch", "pickBatch", "mark", "start", "send", "wait", "refused", "stopRefused"}

TypeOK ==
  /\ rollout \in [Rollout -> Active \cup Ended \cup {"absent"}]
  /\ item \in [Rollout -> [Agent -> ItemStatus]]
  /\ batch \in [Rollout -> [Agent -> Nat \cup {-1}]]
  /\ overdue \in [Rollout -> SUBSET Agent]
  /\ create \in [Rollout -> {"idle", "checked", "spawned", "done"}]
  /\ pc \in [Worker -> Steps]
  /\ cur \in [Worker -> Rollout]
  /\ todo \in [Worker -> SUBSET Agent]
  /\ beats \in [Worker -> SUBSET (Rollout \X Agent)]
  /\ reply \in [Worker -> {"none", "accepted", "rejected"}]
  /\ asked \in [Agent -> SUBSET (Worker \cup {Nobody})]
  /\ version \in [Agent -> {"old", "target"}]
  /\ installing \subseteq Agent /\ connected \subseteq Agent
  /\ sent \in [Rollout -> SUBSET Agent] /\ confirmed \in [Rollout -> SUBSET Agent]
  /\ restarts \in 0..MaxRestarts

Init ==
  /\ rollout = [r \in Rollout |-> "absent"]
  /\ item = [r \in Rollout |-> [a \in Agent |-> "absent"]]
  /\ batch = [r \in Rollout |-> [a \in Agent |-> -1]]
  /\ overdue = [r \in Rollout |-> {}]
  /\ create = [r \in Rollout |-> "idle"]
  /\ pc = [w \in Worker |-> "idle"]
  /\ cur \in [Worker -> Rollout]
  /\ todo = [w \in Worker |-> {}]
  /\ beats = [w \in Worker |-> {}]
  /\ reply = [w \in Worker |-> "none"]
  /\ asked = [a \in Agent |-> {}]
  /\ version = [a \in Agent |-> "old"]
  /\ installing = {} /\ connected = Agent
  /\ sent = [r \in Rollout |-> {}] /\ confirmed = [r \in Rollout |-> {}]
  /\ restarts = 0

-----------------------------------------------------------------------------
Goto(w, from, to) == pc[w] = from /\ pc' = [pc EXCEPT ![w] = to]
Todo(w, set) == todo' = [todo EXCEPT ![w] = set]
ItemsIn(r, statuses) == {a \in Agent : item[r][a] \in statuses}
Canaries(r) == {a \in Agent : batch[r][a] = 0}
IsFirst(w, a) == a \in todo[w] /\ \A b \in todo[w] : a <= b
Rest(w) == {a \in todo[w] : \E b \in todo[w] : b < a}
SetItem(r, a, status) == item' = [item EXCEPT ![r][a] = status]

\* Where a worker goes when AdvanceRollout returns.
Return(w) == IF beats[w] = {} THEN "idle" ELSE "beat"

\* UPDATE agent_upgrade_rollouts ... WHERE status IN (pending, running).
EndRolloutMutant(r, status) == rollout' = [rollout EXCEPT ![r] = status]
EndRollout(r, status) ==
  rollout' = [rollout EXCEPT ![r] = IF @ \in Active THEN status ELSE @]

-----------------------------------------------------------------------------
(* Requests.                                                               *)

Busy(a) == \E r \in Rollout : rollout[r] \in Active /\ item[r][a] \in Active

CheckConflict(r) ==
  /\ create[r] = "idle"
  /\ create' = [create EXCEPT ![r] = IF \E a \in Targets[r] : Busy(a) THEN "done" ELSE "checked"]
  /\ UNCHANGED <<rowVars, workVars, agentVars, ghostVars, restarts>>

\* planItems: an agent that is offline, unknown or already there gets an item
\* that is over; the others are numbered in order, canaries first.
BatchIndex(i) == IF i < CanaryCount THEN 0 ELSE ((i - CanaryCount) \div BatchSize) + 1

PlanItems(r, skipped) ==
  LET current == {a \in Targets[r] \ skipped : version[a] = "target"}
      runnable == Targets[r] \ (skipped \cup current)
      index(a) == Cardinality({b \in runnable : b < a})
  IN /\ item' = [item EXCEPT ![r] = [a \in Agent |->
                   IF a \in runnable THEN "pending" ELSE IF a \in skipped THEN "skipped"
                   ELSE IF a \in current THEN "success" ELSE "absent"]]
     /\ batch' = [batch EXCEPT ![r] = [a \in Agent |->
                   IF a \in runnable THEN BatchIndex(index(a)) ELSE -1]]

CreateRollout(r) ==
  /\ create[r] = "checked"
  /\ create' = [create EXCEPT ![r] = "spawned"]
  /\ rollout' = [rollout EXCEPT ![r] = "pending"]
  /\ \E skipped \in (IF "offline" \in Faults THEN SUBSET Targets[r] ELSE {{}}) : PlanItems(r, skipped)
  /\ UNCHANGED <<overdue, workVars, agentVars, ghostVars, restarts>>

CancelRollout(r) ==
  /\ "cancel" \in Faults /\ rollout[r] # "absent"
  /\ EndRollout(r, "cancelled")
  /\ item' = [item EXCEPT ![r] = [a \in Agent |-> IF @[a] \in Active THEN "skipped" ELSE @[a]]]
  /\ UNCHANGED <<batch, overdue, create, workVars, agentVars, ghostVars, restarts>>

-----------------------------------------------------------------------------
(* What sets a worker to work.                                             *)

CreateAdvance(w, r) ==
  /\ Goto(w, "idle", "overdue") /\ create[r] = "spawned"
  /\ create' = [create EXCEPT ![r] = "done"]
  /\ cur' = [cur EXCEPT ![w] = r]
  /\ UNCHANGED <<rowVars, todo, beats, reply, agentVars, ghostVars, restarts>>

\* HandleHeartbeat; a heartbeat that reports another version only records it.
HandleHeartbeat(w, a) ==
  LET running == {r \in Rollout : item[r][a] = "running"}
  IN /\ a \in connected /\ version[a] = "target" /\ running # {}
     /\ Goto(w, "idle", "beat")
     /\ beats' = [beats EXCEPT ![w] = running \X {a}]
     /\ UNCHANGED <<rowVars, create, cur, todo, reply, agentVars, ghostVars, restarts>>

ItemSucceeds(w) ==
  \E beat \in beats[w] :
    LET r == beat[1]
        a == beat[2]
    IN /\ Goto(w, "beat", "overdue")
       /\ beats' = [beats EXCEPT ![w] = @ \ {beat}]
       /\ cur' = [cur EXCEPT ![w] = r]
       /\ SetItem(r, a, "success")
       /\ confirmed' = [confirmed EXCEPT ![r] = @ \cup {a}]
       /\ UNCHANGED <<rollout, batch, overdue, create, todo, reply, agentVars, sent, restarts>>

-----------------------------------------------------------------------------
(* AdvanceRollout.                                                         *)

FindOverdue(w) ==
  LET expired == overdue[cur[w]] \cap ItemsIn(cur[w], {"running"})
  IN /\ Goto(w, "overdue", IF expired = {} THEN "load" ELSE "expire")
     /\ Todo(w, expired)
     /\ UNCHANGED <<rowVars, create, cur, beats, reply, agentVars, ghostVars, restarts>>

\* failItem: the item first, then the rollout and the items that still wait.
FailItem(w) ==
  /\ Goto(w, "expire", "stopExpired") \/ Goto(w, "refused", "stopRefused")
  /\ \E a \in todo[w] : IsFirst(w, a) /\ SetItem(cur[w], a, "failed")
  /\ UNCHANGED <<rollout, batch, overdue, create, cur, todo, beats, reply, agentVars, ghostVars,
                 restarts>>

SkipPending(r) ==
  item' = [item EXCEPT ![r] = [a \in Agent |-> IF @[a] = "pending" THEN "skipped" ELSE @[a]]]

\* The loop over the items goes on after a failure.
FailRollout(w) ==
  /\ \/ /\ Goto(w, "stopExpired", IF Rest(w) = {} THEN "load" ELSE "expire")
        /\ Todo(w, Rest(w))
     \/ /\ Goto(w, "stopRefused", IF Rest(w) = {} THEN Return(w) ELSE "start")
        /\ Todo(w, Rest(w))
     \/ /\ Goto(w, "stop", Return(w))
        /\ UNCHANGED todo
  /\ EndRollout(cur[w], "failed")
  /\ SkipPending(cur[w])
  /\ UNCHANGED <<batch, overdue, create, cur, beats, reply, agentVars, ghostVars, restarts>>

\* The queries that decide what to do, each a step that only moves the worker.
LoadRollout(w) ==
  Goto(w, "load", IF rollout[cur[w]] \in Ended THEN Return(w) ELSE "countFailed")

CountFailed(w) ==
  Goto(w, "countFailed", IF ItemsIn(cur[w], {"failed"}) # {} THEN "stop" ELSE "countRunning")

CountRunningMutant(w) == Goto(w, "countRunning", "countPending")     \* not counted
CountRunning(w) ==
  Goto(w, "countRunning", IF ItemsIn(cur[w], {"running"}) # {} THEN "mark" ELSE "countPending")

CountPending(w) ==
  Goto(w, "countPending", IF ItemsIn(cur[w], {"pending"}) = {} THEN "countFailedAgain" ELSE "canaries")

CountFailedAgain(w) ==
  Goto(w, "countFailedAgain", IF ItemsIn(cur[w], {"failed"}) # {} THEN "fail" ELSE "succeed")

\* A canary that is neither pending nor over holds the batches back.
CanariesOverMutant(r) == TRUE
CanariesSkippedMutant(r) == Canaries(r) \subseteq ItemsIn(r, {"skipped"})
CanariesOver(r) == Canaries(r) \subseteq ItemsIn(r, {"success", "skipped"})

CheckCanaries(w) ==
  Goto(w, "checkCanaries", IF CanariesOver(cur[w]) THEN "firstBatch" ELSE "mark")

Decide(w) ==
  /\ \/ LoadRollout(w) \/ CountFailed(w) \/ CountRunning(w) \/ CountPending(w)
     \/ CountFailedAgain(w) \/ CheckCanaries(w)
  /\ UNCHANGED <<rowVars, create, cur, todo, beats, reply, agentVars, ghostVars, restarts>>

CompleteRollout(w) ==
  /\ \/ Goto(w, "succeed", Return(w)) /\ EndRollout(cur[w], "succeeded")
     \/ Goto(w, "fail", Return(w)) /\ EndRollout(cur[w], "failed")
  /\ UNCHANGED <<item, batch, overdue, create, cur, todo, beats, reply, agentVars, ghostVars, restarts>>

\* nextItems: the canaries that wait, or else the items of the first batch that
\* waits, in two queries.  A batch never has more than BatchSize items.
PendingCanaries(w) ==
  LET pending == Canaries(cur[w]) \cap ItemsIn(cur[w], {"pending"})
  IN /\ Goto(w, "canaries", IF pending # {} THEN "mark" ELSE "checkCanaries")
     /\ Todo(w, pending)
     /\ UNCHANGED <<rowVars, create, cur, beats, reply, agentVars, ghostVars, restarts>>

FirstBatch(w) ==
  LET pending == ItemsIn(cur[w], {"pending"}) \ Canaries(cur[w])
      first == {a \in pending : \A b \in pending : batch[cur[w]][a] <= batch[cur[w]][b]}
  IN /\ Goto(w, "firstBatch", IF pending # {} THEN "pickBatch" ELSE "mark")
     /\ Todo(w, first)
     /\ UNCHANGED <<rowVars, create, cur, beats, reply, agentVars, ghostVars, restarts>>

PickBatch(w) ==
  /\ Goto(w, "pickBatch", "mark")
  /\ Todo(w, todo[w] \cap ItemsIn(cur[w], {"pending"}))
  /\ UNCHANGED <<rowVars, create, cur, beats, reply, agentVars, ghostVars, restarts>>

MarkRolloutRunning(w) ==
  /\ Goto(w, "mark", IF todo[w] = {} THEN Return(w) ELSE "start")
  /\ EndRollout(cur[w], "running")
  /\ UNCHANGED <<item, batch, overdue, create, cur, todo, beats, reply, agentVars, ghostVars, restarts>>

\* startItem: the row says running before the request is sent.
StartItem(w) ==
  \E a \in todo[w] :
     /\ IsFirst(w, a)
     /\ \/ /\ Goto(w, "start", "refused")
           /\ a \notin connected
           /\ UNCHANGED <<item, overdue>>
        \/ /\ Goto(w, "start", "send")
           /\ a \in connected
           /\ SetItem(cur[w], a, "running")
           /\ overdue' = [overdue EXCEPT ![cur[w]] = @ \ {a}]
     /\ UNCHANGED <<rollout, batch, create, cur, todo, beats, reply, agentVars, ghostVars, restarts>>

\* SendAndWait: what is written to a dead connection is lost.
SendUpdate(w) ==
  \E a \in todo[w] :
     /\ IsFirst(w, a)
     /\ \/ /\ Goto(w, "send", "refused")
           /\ a \notin connected
           /\ UNCHANGED <<asked, sent>>
        \/ /\ Goto(w, "send", "wait")
           /\ a \in connected
           /\ \/ asked' = [asked EXCEPT ![a] = @ \cup {w}]
              \/ "loss" \in Faults /\ UNCHANGED asked
           /\ sent' = [sent EXCEPT ![cur[w]] = @ \cup {a}]
     /\ UNCHANGED <<rowVars, create, cur, todo, beats, reply, version, installing, connected,
                    confirmed, restarts>>

TakeReply(w) ==
  /\ \/ /\ reply[w] = "accepted"
        /\ Goto(w, "wait", IF Rest(w) = {} THEN Return(w) ELSE "start")
        /\ Todo(w, Rest(w))
     \/ /\ reply[w] = "rejected"
        /\ Goto(w, "wait", "refused")
        /\ UNCHANGED todo
  /\ reply' = [reply EXCEPT ![w] = "none"]
  /\ UNCHANGED <<rowVars, create, cur, beats, agentVars, ghostVars, restarts>>

\* The acknowledgement is late: whatever the agent answers now finds no waiter.
AckTimeout(w) ==
  /\ reply[w] = "none"
  /\ Goto(w, "wait", "refused")
  /\ asked' = [a \in Agent |-> IF w \in asked[a] THEN (asked[a] \ {w}) \cup {Nobody} ELSE asked[a]]
  /\ UNCHANGED <<rowVars, create, cur, todo, beats, reply, version, installing, connected,
                 ghostVars, restarts>>

-----------------------------------------------------------------------------
(* The agents, time and restarts of the Master.                            *)

\* handleUpdateAgent: the acknowledgement is sent first, the update runs after.
HandleUpdateAgent(a) ==
  \E w \in asked[a], accepted \in BOOLEAN :
    /\ accepted \/ "reject" \in Faults
    /\ asked' = [asked EXCEPT ![a] = @ \ {w}]
    /\ installing' = IF accepted THEN installing \cup {a} ELSE installing
    /\ \/ w # Nobody /\ reply' = [reply EXCEPT ![w] = IF accepted THEN "accepted" ELSE "rejected"]
       \/ w = Nobody /\ UNCHANGED reply
       \/ "loss" \in Faults /\ UNCHANGED reply
    /\ UNCHANGED <<rowVars, create, pc, cur, todo, beats, version, connected, ghostVars, restarts>>

\* The new binary starts, or the download fails, or there is nothing to do.
Install(a) ==
  /\ a \in installing
  /\ installing' = installing \ {a}
  /\ \/ /\ version[a] = "old"
        /\ version' = [version EXCEPT ![a] = "target"]
        /\ connected' = connected \ {a}
     \/ /\ version[a] = "target" \/ "install" \in Faults
        /\ UNCHANGED <<version, connected>>
  /\ UNCHANGED <<rowVars, create, workVars, asked, ghostVars, restarts>>

Disconnect(a) ==
  /\ "disconnect" \in Faults /\ a \in connected
  /\ connected' = connected \ {a}
  /\ UNCHANGED <<rowVars, create, workVars, asked, version, installing, ghostVars, restarts>>

Connect(a) ==
  /\ a \notin connected
  /\ connected' = connected \cup {a}
  /\ UNCHANGED <<rowVars, create, workVars, asked, version, installing, ghostVars, restarts>>

DeadlinePasses(r, a) ==
  /\ item[r][a] = "running" /\ a \notin overdue[r]
  /\ overdue' = [overdue EXCEPT ![r] = @ \cup {a}]
  /\ UNCHANGED <<rollout, item, batch, create, workVars, agentVars, ghostVars, restarts>>

\* The rows survive; the goroutines and their waiters do not.
MasterRestart ==
  /\ restarts < MaxRestarts
  /\ restarts' = restarts + 1
  /\ pc' = [w \in Worker |-> "idle"]
  /\ todo' = [w \in Worker |-> {}] /\ beats' = [w \in Worker |-> {}]
  /\ reply' = [w \in Worker |-> "none"]
  /\ create' = [r \in Rollout |-> IF create[r] = "idle" THEN "idle" ELSE "done"]
  /\ asked' = [a \in Agent |-> IF asked[a] = {} THEN {} ELSE {Nobody}]
  /\ connected' = {}
  /\ UNCHANGED <<rowVars, cur, version, installing, ghostVars>>

-----------------------------------------------------------------------------
AdvanceRollout(w) ==
  \/ ItemSucceeds(w) \/ FindOverdue(w) \/ FailItem(w) \/ FailRollout(w) \/ Decide(w)
  \/ CompleteRollout(w) \/ PendingCanaries(w) \/ FirstBatch(w) \/ PickBatch(w)
  \/ MarkRolloutRunning(w) \/ StartItem(w) \/ SendUpdate(w) \/ TakeReply(w) \/ AckTimeout(w)

Next ==
  \/ \E r \in Rollout : CheckConflict(r) \/ CreateRollout(r) \/ CancelRollout(r)
  \/ \E w \in Worker, r \in Rollout : CreateAdvance(w, r)
  \/ \E w \in Worker, a \in Agent : HandleHeartbeat(w, a)
  \/ \E w \in Worker : AdvanceRollout(w)
  \/ \E a \in Agent : HandleUpdateAgent(a) \/ Install(a) \/ Disconnect(a) \/ Connect(a)
  \/ \E r \in Rollout, a \in Agent : DeadlinePasses(r, a)
  \/ MasterRestart

Spec == Init /\ [][Next]_vars

\* Goroutines run, time passes, an agent that accepted installs or fails, comes
\* back and sends heartbeats.  Nobody has to create or cancel a rollout.
Fairness ==
  /\ \A r \in Rollout : WF_vars(CreateRollout(r)) /\ WF_vars(\E w \in Worker : CreateAdvance(w, r))
  /\ \A w \in Worker : WF_vars(AdvanceRollout(w))
  /\ \A a \in Agent :
       /\ WF_vars(\E w \in Worker : HandleHeartbeat(w, a))
       /\ WF_vars(HandleUpdateAgent(a)) /\ WF_vars(Install(a)) /\ WF_vars(Connect(a))
  /\ \A r \in Rollout, a \in Agent : WF_vars(DeadlinePasses(r, a))

FairSpec == Spec /\ Fairness

-----------------------------------------------------------------------------
(* Properties.                                                             *)

CanariesConfirmed(r) == Canaries(r) \subseteq confirmed[r]
NothingWaits(r) == ItemsIn(r, {"pending"}) = {}

\* However the runs of the coordinator interleave with each other and with a
\* cancel, no item is left waiting in a rollout that has ended: the user sees
\* every agent as upgraded, failed, skipped or being upgraded.
NothingWaitsInEnded ==
  \A r \in Rollout : rollout[r] \in Ended => NothingWaits(r)

\* Canaries first, with any number of coordinators: an agent of a later batch is
\* asked to update only when every canary has reported the target version.
CanariesFirst ==
  \A r \in Rollout : \A a \in sent[r] : batch[r][a] # 0 => CanariesConfirmed(r)

\* What the rows say of each other: no row before the rollout is created, and a
\* canary is over only because its agent reported the version or because the
\* rollout was stopped.
RowsInv(r) ==
  /\ create[r] \in {"idle", "checked"} => rollout[r] = "absent"
  /\ create[r] = "spawned" => rollout[r] # "absent"
  /\ rollout[r] = "absent" => sent[r] = {} /\ \A a \in Agent : item[r][a] = "absent"
  /\ \A a \in Canaries(r) :
       /\ item[r][a] = "success" => a \in confirmed[r]
       /\ item[r][a] = "skipped" => NothingWaits(r)

\* What a worker may still rely on of what it has read.
WorkerInv(w) ==
  /\ \A beat \in beats[w] : rollout[beat[1]] # "absent"
  /\ pc[w] \notin {"idle", "beat"} => rollout[cur[w]] # "absent"
  /\ pc[w] \in {"countFailedAgain", "succeed", "fail"} => NothingWaits(cur[w])
  /\ pc[w] \in {"load", "countFailed", "countRunning", "checkCanaries"} => todo[w] = {}
  /\ pc[w] = "firstBatch" => CanariesConfirmed(cur[w]) \/ NothingWaits(cur[w])
  /\ pc[w] \in {"pickBatch", "mark", "start", "send", "wait", "refused", "stopRefused"} =>
       \A a \in todo[w] : batch[cur[w]][a] # 0 => CanariesConfirmed(cur[w])

\* The inductive invariant behind the two properties above: what a worker decided
\* from its queries stays good whatever the other workers do before it acts.
RolloutInv ==
  /\ TypeOK
  /\ NothingWaitsInEnded
  /\ CanariesFirst
  /\ \A r \in Rollout : RowsInv(r)
  /\ \A w \in Worker : WorkerInv(w)

\* The outcome of a rollout is written once: a late failure, completion or
\* cancel does not rewrite what another run recorded.
OutcomeIsFinal ==
  [][\A r \in Rollout : rollout[r] \in Ended => rollout'[r] = rollout[r]]_vars

Planned(r) == {a \in Agent : batch[r][a] >= 0}

\* A rollout that succeeded has upgraded every agent it had planned.  It holds
\* only when the runs of the coordinator do not overlap.
SucceededIsUpgraded ==
  \A r \in Rollout : rollout[r] = "succeeded" => Planned(r) \subseteq confirmed[r]

\* A batch starts when the batch before it is over.  It holds only when the runs
\* of the coordinator do not overlap.
OneBatchAtATime ==
  \A r \in Rollout : \A a, b \in ItemsIn(r, {"running"}) : batch[r][a] = batch[r][b]

\* An item that was planned is over for a reason the rows show.
PlannedInv(r) ==
  \A a \in Planned(r) :
    /\ item[r][a] # "absent"
    /\ item[r][a] = "success" => a \in confirmed[r]
    /\ item[r][a] = "skipped" => rollout[r] \in Ended

\* What a run of the coordinator may still rely on of what it has counted and
\* chosen when no other run changes the rows between its steps.
NoneRunning ==
  {"countPending", "canaries", "checkCanaries", "firstBatch", "pickBatch", "countFailedAgain", "succeed"}
BatchChosen == {"pickBatch", "mark", "start", "send", "wait", "refused", "stopRefused"}
ChoiceInv(w) ==
  LET running == ItemsIn(cur[w], {"running"})
  IN /\ pc[w] = "succeed" => ItemsIn(cur[w], {"failed"}) = {}
     /\ pc[w] \in NoneRunning => running = {}
     /\ pc[w] \in BatchChosen =>
          \A a \in todo[w], b \in todo[w] \cup running : batch[cur[w]][a] = batch[cur[w]][b]

\* What holds as long as one run of the coordinator finishes before the next:
\* a rollout is reported successful when all of it was upgraded, batch by batch.
SerialInv ==
  /\ SucceededIsUpgraded
  /\ OneBatchAtATime
  /\ \A r \in Rollout : PlannedInv(r)
  /\ \A w \in Worker : ChoiceInv(w)

\* As long as every accepted update is installed and the Master does not stop,
\* every rollout ends: each answer, late answer or heartbeat moves it on.
RolloutEnds == \A r \in Rollout : rollout[r] \in Active ~> rollout[r] \in Ended

\* NOT true of the code: a rollout that was stopped asks no further agent.
StoppedAsksNobody ==
  [][\A r \in Rollout : rollout[r] \in Ended => sent'[r] = sent[r]]_vars

\* NOT true of the code: an item that missed its deadline does not stay running.
OverdueItemEnds ==
  \A r \in Rollout, a \in Agent :
    a \in overdue[r] /\ item[r][a] = "running" ~> item[r][a] # "running"

\* NOT true of the code: an agent is in one active rollout at a time.
OneRolloutPerAgent ==
  \A a \in Agent : Cardinality({r \in Rollout : rollout[r] \in Active /\ item[r][a] \in Active}) <= 1
=============================================================================
