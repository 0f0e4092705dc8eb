------------------------------ MODULE AgentHub ------------------------------
(***************************************************************************)
(* The registration of one agent in the Master: the Hub's entry           *)
(* (internal/master/ws/hub.go), the goroutine that serves each WebSocket   *)
(* (ws/handler.go), the heartbeat monitor (ws/monitor.go) and the status   *)
(* column of the agents table they keep (api/agent_state.go).  The maps    *)
(* are keyed by agent and no step touches two agents, so one is enough.    *)
(*                                                                         *)
(* The agent dials one connection after the other, but the Master may      *)
(* serve several at once: the handler of a dead connection learns of it    *)
(* late, and may still have heartbeats to read.  Every critical section of *)
(* the Hub, every database write and every publication is one step.        *)
(*                                                                         *)
(* An operator whose name ends in Mutant is the operator that follows it   *)
(* with a plausible bug in it; no action uses one.                         *)
(***************************************************************************)
EXTENDS Integers, FiniteSets

CONSTANTS
  Conn,         \* connections, each accepted at most once
  None,         \* no connection
  MaxInbox,     \* heartbeats a connection holds unread
  MaxSilences,  \* bound on the silences longer than the offline threshold
  MaxQueued,    \* bound on the commands created for the agent
  MaxRestarts,  \* bound on the restarts of the Master
  MaxEvents     \* bound on silences, commands and restarts together

ASSUME ConnAssumption == IsFiniteSet(Conn) /\ None \notin Conn
ASSUME HubBounds ==
  /\ MaxInbox \in Nat \ {0} /\ MaxSilences \in Nat
  /\ MaxQueued \in Nat /\ MaxRestarts \in Nat /\ MaxEvents \in Nat

VARIABLES
  entry,     \* Hub.agents[agent].Conn, None when there is no entry
  online,    \* its Online flag
  recent,    \* its LastSeenAt is within the offline threshold
  pc,        \* where the handler of each connection is
  closed,    \* connections the Master has closed
  capsDone,  \* Handler.capabilityDispatches holds the agent
  status,    \* agents.status in the database
  caps,      \* the capabilities are in agents.system_info
  monitor,   \* where the scan of the monitor is
  queued,    \* a command that needs the capabilities waits for a dispatch
  api,       \* where the request that creates commands is
  mine,      \* the connection the agent uses
  up,        \* connections whose peer still sends
  inbox,     \* heartbeats sent on a connection and not yet read
  ups,       \* times the Hub's view of the agent went online
  offs,      \* AgentOffline events published, both since the Master started
  bounds     \* silences, commands and restarts so far

hubVars == <<entry, online, recent>>
dbVars == <<status, caps>>
cmdVars == <<queued, api>>
netVars == <<mine, up, inbox>>
vars == <<hubVars, pc, closed, capsDone, dbVars, monitor, cmdVars, netVars, ups, offs, bounds>>

\* Steps of the handler of a connection, in the order of HandleWebSocket, of
\* dispatch (for a heartbeat) and of cleanupConnection.
Accepting == {"new", "added", "reset", "seen", "recorded", "announced"}
Serving == {"reading", "beat", "marked", "stored", "known", "dispatch"}
Leaving == {"cleanup", "left", "quiet", "offline", "announce"}
\* Steps that will publish AgentOffline for an entry that was online.
Publishing == {"left", "offline", "announce"}

TypeOK ==
  /\ entry \in Conn \cup {None}
  /\ online \in BOOLEAN /\ recent \in BOOLEAN
  /\ pc \in [Conn -> Accepting \cup Serving \cup Leaving \cup {"unused", "done"}]
  /\ closed \subseteq Conn
  /\ capsDone \in BOOLEAN
  /\ status \in {"online", "offline"} /\ caps \in BOOLEAN
  /\ monitor \in {"idle", "copied", "publish"}
  /\ queued \in BOOLEAN /\ api \in {"idle", "created"}
  /\ mine \in Conn \cup {None}
  /\ up \subseteq Conn
  /\ inbox \in [Conn -> 0..MaxInbox]
  /\ ups \in Nat /\ offs \in Nat
  /\ bounds \in [silences : 0..MaxSilences, queued : 0..MaxQueued, restarts : 0..MaxRestarts]

Init ==
  /\ entry = None /\ online = FALSE /\ recent = FALSE
  /\ pc = [c \in Conn |-> "unused"]
  /\ closed = {}
  /\ capsDone = FALSE
  /\ status = "offline" /\ caps = FALSE
  /\ monitor = "idle"
  /\ queued = FALSE /\ api = "idle"
  /\ mine = None /\ up = {}
  /\ inbox = [c \in Conn |-> 0]
  /\ ups = 0 /\ offs = 0
  /\ bounds = [silences |-> 0, queued |-> 0, restarts |-> 0]

MoreEvents == bounds.silences + bounds.queued + bounds.restarts < MaxEvents
Goto(c, from, to) == pc[c] = from /\ pc' = [pc EXCEPT ![c] = to]

-----------------------------------------------------------------------------
(* The Hub's critical sections.                                            *)

\* Add: the new connection replaces the entry, and the replaced one is closed.
Add(c) ==
  /\ entry' = c /\ online' = TRUE /\ recent' = TRUE
  /\ closed' = closed \cup ({entry} \ {None, c})

\* UpdateLastSeen and MarkOnline act on whatever entry the agent has now.
UpdateLastSeen == recent' = (entry # None)

MarkOnlineMutant == FALSE     \* a heartbeat does not bring the agent back
MarkOnline == entry # None

IsCurrentMutant(c) == entry # None     \* Remove instead of RemoveIfCurrent
IsCurrent(c) == entry = c

WasOnlineMutant == TRUE     \* ignores that the monitor has already announced it
WasOnline == online

\* MarkOfflineIfStale looks at the entry again, under the lock.
StillStaleMutant == online             \* trusts the copy the scan read
StillStale == online /\ ~ recent

-----------------------------------------------------------------------------
(* A connection is accepted.                                               *)

HandleWebSocket(c) ==
  /\ Goto(c, "new", "added")
  /\ Add(c)
  /\ ups' = ups + (IF online THEN 0 ELSE 1)
  /\ UNCHANGED <<capsDone, dbVars, monitor, cmdVars, netVars, offs, bounds>>

ResetCapabilityDispatch(c) ==
  /\ Goto(c, "added", "reset")
  /\ capsDone' = FALSE
  /\ UNCHANGED <<hubVars, closed, dbVars, monitor, cmdVars, netVars, ups, offs, bounds>>

AcceptedSeen(c) ==
  /\ Goto(c, "reset", "seen")
  /\ UpdateLastSeen
  /\ UNCHANGED <<entry, online, closed, capsDone, dbVars, monitor, cmdVars, netVars,
                 ups, offs, bounds>>

AcceptedState(c) ==
  /\ Goto(c, "seen", "recorded")
  /\ status' = "online"
  /\ UNCHANGED <<hubVars, closed, capsDone, caps, monitor, cmdVars, netVars, ups, offs, bounds>>

\* The subscribers of AgentOnline (the policy push) are not part of this module.
PublishOnline(c) ==
  /\ Goto(c, "recorded", "announced")
  /\ UNCHANGED <<hubVars, closed, capsDone, dbVars, monitor, cmdVars, netVars, ups, offs, bounds>>

\* DispatchPendingForAgent: nothing is sent to an agent that is not online, and
\* a command that needs a capability waits until the capabilities are known.
DispatchPending == queued' = (queued /\ ~ (online /\ caps))

DispatchOnConnect(c) ==
  /\ Goto(c, "announced", "reading")
  /\ DispatchPending
  /\ UNCHANGED <<hubVars, closed, capsDone, dbVars, monitor, api, netVars, ups, offs, bounds>>

-----------------------------------------------------------------------------
(* The read loop.  A closed connection may still have buffered messages.   *)

ReadHeartbeat(c) ==
  /\ Goto(c, "reading", "beat")
  /\ inbox[c] > 0
  /\ inbox' = [inbox EXCEPT ![c] = @ - 1]
  /\ UpdateLastSeen
  /\ UNCHANGED <<entry, online, closed, capsDone, dbVars, monitor, cmdVars, mine, up,
                 ups, offs, bounds>>

HeartbeatOnline(c) ==
  /\ Goto(c, "beat", "marked")
  /\ online' = (online \/ MarkOnline)
  /\ ups' = ups + (IF online' /\ ~ online THEN 1 ELSE 0)
  /\ UNCHANGED <<entry, recent, closed, capsDone, dbVars, monitor, cmdVars, netVars, offs, bounds>>

HeartbeatState(c) ==
  /\ Goto(c, "marked", "stored")
  /\ status' = "online"
  /\ UNCHANGED <<hubVars, closed, capsDone, caps, monitor, cmdVars, netVars, ups, offs, bounds>>

\* HeartbeatStateUpdater writes the status again, with the capabilities.
HeartbeatCapabilities(c) ==
  /\ Goto(c, "stored", "known")
  /\ status' = "online" /\ caps' = TRUE
  /\ UNCHANGED <<hubVars, closed, capsDone, monitor, cmdVars, netVars, ups, offs, bounds>>

\* markCapabilityDispatch: one dispatch per connection.
MarkCapabilityDispatchMutant(c) ==      \* a heartbeat dispatches nothing
  /\ Goto(c, "known", "reading")
  /\ UNCHANGED <<hubVars, closed, capsDone, dbVars, monitor, cmdVars, netVars, ups, offs, bounds>>
MarkCapabilityDispatch(c) ==
  /\ Goto(c, "known", IF capsDone THEN "reading" ELSE "dispatch")
  /\ capsDone' = TRUE
  /\ UNCHANGED <<hubVars, closed, dbVars, monitor, cmdVars, netVars, ups, offs, bounds>>

DispatchOnCapabilities(c) ==
  /\ Goto(c, "dispatch", "reading")
  /\ DispatchPending
  /\ UNCHANGED <<hubVars, closed, capsDone, dbVars, monitor, api, netVars, ups, offs, bounds>>

\* The connection was closed or broke, or its read deadline passed.
ReadFails(c) ==
  /\ Goto(c, "reading", "cleanup")
  /\ c \in closed \/ c \notin up
  /\ UNCHANGED <<hubVars, closed, capsDone, dbVars, monitor, cmdVars, netVars, ups, offs, bounds>>

-----------------------------------------------------------------------------
(* cleanupConnection.                                                      *)

RemoveIfCurrent(c) ==
  /\ Goto(c, "cleanup", IF ~ IsCurrent(c) THEN "done" ELSE IF WasOnline THEN "left" ELSE "quiet")
  /\ IF IsCurrent(c)
     THEN /\ entry' = None /\ online' = FALSE /\ recent' = FALSE
          /\ closed' = closed \cup {c}
     ELSE UNCHANGED <<hubVars, closed>>
  /\ UNCHANGED <<capsDone, dbVars, monitor, cmdVars, netVars, ups, offs, bounds>>

CleanupReset(c) ==
  /\ \/ Goto(c, "left", "offline")
     \/ Goto(c, "quiet", "done")     \* the monitor has already said it
  /\ capsDone' = FALSE
  /\ UNCHANGED <<hubVars, closed, dbVars, monitor, cmdVars, netVars, ups, offs, bounds>>

CleanupState(c) ==
  /\ Goto(c, "offline", "announce")
  /\ status' = "offline"
  /\ UNCHANGED <<hubVars, closed, capsDone, caps, monitor, cmdVars, netVars, ups, offs, bounds>>

\* SubscribeAgentStateEvents writes the status when AgentOffline is published.
PublishOffline == offs' = offs + 1 /\ status' = "offline"

CleanupPublish(c) ==
  /\ Goto(c, "announce", "done")
  /\ PublishOffline
  /\ UNCHANGED <<hubVars, closed, capsDone, caps, monitor, cmdVars, netVars, ups, bounds>>

-----------------------------------------------------------------------------
(* The monitor: a copy of the Hub, then one agent of it at a time.         *)

ScanCopy ==
  /\ monitor = "idle"
  /\ online /\ ~ recent
  /\ monitor' = "copied"
  /\ UNCHANGED <<hubVars, pc, closed, capsDone, dbVars, cmdVars, netVars, ups, offs, bounds>>

MarkOfflineIfStale ==
  /\ monitor = "copied"
  /\ monitor' = IF StillStale THEN "publish" ELSE "idle"
  /\ online' = (online /\ ~ StillStale)
  /\ UNCHANGED <<entry, recent, pc, closed, capsDone, dbVars, cmdVars, netVars, ups, offs, bounds>>

ScanPublish ==
  /\ monitor = "publish"
  /\ monitor' = "idle"
  /\ PublishOffline
  /\ UNCHANGED <<hubVars, pc, closed, capsDone, caps, cmdVars, netVars, ups, bounds>>

-----------------------------------------------------------------------------
(* A request creates a command and then asks for a dispatch.               *)

CreateCommand ==
  /\ api = "idle" /\ bounds.queued < MaxQueued /\ MoreEvents
  /\ api' = "created" /\ queued' = TRUE
  /\ bounds' = [bounds EXCEPT !.queued = @ + 1]
  /\ UNCHANGED <<hubVars, pc, closed, capsDone, dbVars, monitor, netVars, ups, offs>>

DispatchNew ==
  /\ api = "created"
  /\ api' = "idle"
  /\ DispatchPending
  /\ UNCHANGED <<hubVars, pc, closed, capsDone, dbVars, monitor, netVars, ups, offs, bounds>>

-----------------------------------------------------------------------------
(* The agent, the network and restarts of the Master.                      *)

\* Run: the client dials when it has no connection, and onConnect sends a
\* heartbeat at once.
Dial(c) ==
  /\ mine = None
  /\ Goto(c, "unused", "new")
  /\ mine' = c /\ up' = up \cup {c}
  /\ inbox' = [inbox EXCEPT ![c] = 1]
  /\ UNCHANGED <<hubVars, closed, capsDone, dbVars, monitor, cmdVars, ups, offs, bounds>>

SendHeartbeat(c) ==
  /\ mine = c /\ inbox[c] < MaxInbox
  /\ inbox' = [inbox EXCEPT ![c] = @ + 1]
  /\ UNCHANGED <<hubVars, pc, closed, capsDone, dbVars, monitor, cmdVars, mine, up, ups, offs, bounds>>

\* The agent loses its connection: it stops, the network breaks, ...
LinkDown(c) ==
  /\ mine = c
  /\ mine' = None /\ up' = up \ {c}
  /\ UNCHANGED <<hubVars, pc, closed, capsDone, dbVars, monitor, cmdVars, inbox, ups, offs, bounds>>

\* ... or it reads that the Master closed it.
AgentNotices(c) ==
  /\ mine = c /\ c \in closed
  /\ mine' = None /\ up' = up \ {c}
  /\ UNCHANGED <<hubVars, pc, closed, capsDone, dbVars, monitor, cmdVars, inbox, ups, offs, bounds>>

\* No heartbeat was processed for longer than the offline threshold.
Silence ==
  /\ recent /\ bounds.silences < MaxSilences /\ MoreEvents
  /\ recent' = FALSE
  /\ bounds' = [bounds EXCEPT !.silences = @ + 1]
  /\ UNCHANGED <<entry, online, pc, closed, capsDone, dbVars, monitor, cmdVars, netVars, ups, offs>>

MasterRestart ==
  /\ bounds.restarts < MaxRestarts /\ MoreEvents
  /\ bounds' = [bounds EXCEPT !.restarts = @ + 1]
  /\ entry' = None /\ online' = FALSE /\ recent' = FALSE
  /\ pc' = [c \in Conn |-> IF pc[c] = "unused" THEN "unused" ELSE "done"]
  /\ closed' = {c \in Conn : pc[c] # "unused"}
  /\ capsDone' = FALSE
  /\ monitor' = "idle" /\ api' = "idle"
  /\ ups' = 0 /\ offs' = 0
  /\ UNCHANGED <<dbVars, queued, netVars>>

-----------------------------------------------------------------------------
Serve(c) ==
  \/ HandleWebSocket(c) \/ ResetCapabilityDispatch(c) \/ AcceptedSeen(c) \/ AcceptedState(c)
  \/ PublishOnline(c) \/ DispatchOnConnect(c)
  \/ ReadHeartbeat(c) \/ HeartbeatOnline(c) \/ HeartbeatState(c) \/ HeartbeatCapabilities(c)
  \/ MarkCapabilityDispatch(c) \/ DispatchOnCapabilities(c) \/ ReadFails(c)
  \/ RemoveIfCurrent(c) \/ CleanupReset(c) \/ CleanupState(c) \/ CleanupPublish(c)

Monitor == ScanCopy \/ MarkOfflineIfStale \/ ScanPublish

Next ==
  \/ \E c \in Conn : Serve(c)
  \/ Monitor
  \/ CreateCommand \/ DispatchNew
  \/ \E c \in Conn : Dial(c) \/ SendHeartbeat(c) \/ LinkDown(c) \/ AgentNotices(c)
  \/ Silence
  \/ MasterRestart

Spec == Init /\ [][Next]_vars

\* The goroutines of the Master run; an agent that keeps its connection keeps
\* sending heartbeats (RunHeartbeat) and notices when it is closed.  Nothing
\* makes an agent connect.
Fairness ==
  /\ \A c \in Conn : WF_vars(Serve(c)) /\ WF_vars(SendHeartbeat(c)) /\ WF_vars(AgentNotices(c))
  /\ WF_vars(Monitor) /\ WF_vars(DispatchNew)

\* A silence ends only when the agent can stop being silent, hence the bound:
\* in every fair behaviour there are finitely many.
FairSpec == Spec /\ Fairness

-----------------------------------------------------------------------------
(* Properties.                                                             *)

\* A connection that was replaced is closed: its handler cannot keep reading
\* for an agent that is served elsewhere (TestHub_AddReplacesAndClosesPreviousConnection).
ReplacedIsClosed ==
  \A c \in Conn : pc[c] \notin {"unused", "new"} /\ c # entry => c \in closed

\* The entry belongs to a handler that is still serving it.
EntryIsServed ==
  entry # None => pc[entry] \in (Accepting \cup Serving \cup {"cleanup"}) \ {"new"}

RegisteredOnly == online \/ recent => entry # None

\* Every online period ends in at most one announcement: made, or still owed by
\* a cleanup or by the monitor.
Announcing == {c \in Conn : pc[c] \in Publishing}
OutageAccount ==
  offs + Cardinality(Announcing) + (IF monitor = "publish" THEN 1 ELSE 0)
       + (IF online THEN 1 ELSE 0) <= ups

HubInv == TypeOK /\ ReplacedIsClosed /\ EntryIsServed /\ RegisteredOnly /\ OutageAccount

\* The late cleanup of an old connection never unregisters a newer one
\* (TestHandler_OldConnectionCleanupDoesNotRemoveReplacementConnection).
OnlyOwnerRemoves ==
  [][entry # None /\ entry' = None /\ bounds'.restarts = bounds.restarts
       => pc[entry] = "cleanup"]_vars

\* The users are told once per outage: AgentOffline is never published more
\* often than the agent was online, whatever the monitor and the cleanups do
\* (TestHandler_CleanupAfterMonitorOfflineDoesNotPublishDuplicateOffline).
OneOfflinePerOutage == offs + (IF online THEN 1 ELSE 0) <= ups

\* The monitor never ends the online period of an agent whose heartbeat arrived
\* after the scan copied the Hub (TestHub_MarkOfflineIfStaleRechecksCurrentLastSeen).
FreshStaysOnline ==
  [][online /\ recent /\ entry' = entry => online']_vars

\* However the handlers of its earlier connections and the monitor interleave,
\* an agent that keeps a connection ends up registered on it and online, in the
\* Hub and in the database.
StableAgentIsOnline ==
  \A c \in Conn : <>[](mine = c) => <>[](entry = c /\ online /\ status = "online")

\* An agent without a connection ends up without an entry.
GoneAgentHasNoEntry == <>[](mine = None) => <>[](entry = None)

\* What the Hub tells of an agent is true in the end, whichever of its handlers
\* finished last: it is registered and online if it stays connected, and it
\* is not registered if it stays away.
PresenceSettles == StableAgentIsOnline /\ GoneAgentHasNoEntry

\* A command created while the agent was away is dispatched when it is back:
\* the row exists before the request looks at the Hub, and the entry exists
\* before the handler looks at the rows.  With heartbeats on time: after a silence
\* the connection counts as dispatched and the command waits for the next one.
QueuedIsDispatched ==
  \A c \in Conn : <>[](mine = c) => []<>(~ queued \/ bounds.silences > 0)

\* NOT true of the code: an agent without a connection ends up offline in the
\* database, where the rollout preflight looks (docs/agent-rollout-upgrades.md).
GoneAgentIsOffline == <>[](mine = None) => <>[](status = "offline")
=============================================================================
