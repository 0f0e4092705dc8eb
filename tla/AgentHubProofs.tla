---------------------------- MODULE AgentHubProofs ----------------------------
(***************************************************************************)
(* Theorems about the registration of an agent, for every finite set of    *)
(* connections and every bound.                                            *)
(***************************************************************************)
EXTENDS AgentHub, FiniteSetTheorems, TLAPS

USE ConnAssumption, HubBounds

-----------------------------------------------------------------------------
(* Type correctness and the ownership of the entry.                        *)

Owned == TypeOK /\ ReplacedIsClosed /\ EntryIsServed /\ RegisteredOnly

LEMMA OwnedInit == Init => Owned
<1> SUFFICES ASSUME Init PROVE Owned
  OBVIOUS
<1>1. inbox \in [Conn -> 0..MaxInbox]
  BY DEF Init
<1>2. bounds \in [silences : 0..MaxSilences, queued : 0..MaxQueued, restarts : 0..MaxRestarts]
  BY DEF Init
<1>3. TypeOK
  BY <1>1, <1>2 DEF Init, TypeOK, Accepting, Serving, Leaving
<1> QED
  BY <1>3 DEF Init, Owned, ReplacedIsClosed, EntryIsServed, RegisteredOnly

LEMMA AcceptKeepsOwned ==
  ASSUME Owned, NEW c \in Conn,
         \/ HandleWebSocket(c) \/ ResetCapabilityDispatch(c) \/ AcceptedSeen(c)
         \/ AcceptedState(c) \/ PublishOnline(c) \/ DispatchOnConnect(c)
  PROVE  Owned'
<1> USE DEF Owned, Accepting, Serving, Leaving, Goto, hubVars, dbVars, cmdVars, netVars
<1>1. CASE HandleWebSocket(c)
  <2>1. TypeOK'
    BY <1>1 DEF TypeOK, HandleWebSocket, Add
  <2> QED
    BY <1>1, <2>1 DEF TypeOK, ReplacedIsClosed, EntryIsServed, RegisteredOnly, HandleWebSocket, Add
<1>2. CASE ResetCapabilityDispatch(c)
  <2>1. TypeOK'
    BY <1>2 DEF TypeOK, ResetCapabilityDispatch
  <2> QED
    BY <1>2, <2>1 DEF TypeOK, ReplacedIsClosed, EntryIsServed, RegisteredOnly, ResetCapabilityDispatch
<1>3. CASE AcceptedSeen(c)
  BY <1>3 DEF TypeOK, ReplacedIsClosed, EntryIsServed, RegisteredOnly, AcceptedSeen, UpdateLastSeen
<1>4. CASE AcceptedState(c)
  BY <1>4 DEF TypeOK, ReplacedIsClosed, EntryIsServed, RegisteredOnly, AcceptedState
<1>5. CASE PublishOnline(c)
  BY <1>5 DEF TypeOK, ReplacedIsClosed, EntryIsServed, RegisteredOnly, PublishOnline
<1>6. CASE DispatchOnConnect(c)
  BY <1>6 DEF TypeOK, ReplacedIsClosed, EntryIsServed, RegisteredOnly, DispatchOnConnect,
     DispatchPending
<1> QED
  BY <1>1, <1>2, <1>3, <1>4, <1>5, <1>6

LEMMA ReadKeepsOwned ==
  ASSUME Owned, NEW c \in Conn,
         \/ ReadHeartbeat(c) \/ HeartbeatOnline(c) \/ HeartbeatState(c)
         \/ HeartbeatCapabilities(c) \/ MarkCapabilityDispatch(c)
         \/ DispatchOnCapabilities(c) \/ ReadFails(c)
  PROVE  Owned'
<1> USE DEF Owned, Accepting, Serving, Leaving, Goto, hubVars, dbVars, cmdVars, netVars
<1>1. CASE ReadHeartbeat(c)
  <2>1. inbox' \in [Conn -> 0..MaxInbox]
    BY <1>1 DEF TypeOK, ReadHeartbeat
  <2> QED
    BY <1>1, <2>1 DEF TypeOK, ReplacedIsClosed, EntryIsServed, RegisteredOnly, ReadHeartbeat,
       UpdateLastSeen
<1>2. CASE HeartbeatOnline(c)
  <2>1. online' \in BOOLEAN /\ ups' \in Nat
    BY <1>2 DEF TypeOK, HeartbeatOnline, MarkOnline
  <2>2. online' => entry # None
    BY <1>2 DEF HeartbeatOnline, MarkOnline, RegisteredOnly
  <2> QED
    BY <1>2, <2>1, <2>2 DEF TypeOK, ReplacedIsClosed, EntryIsServed, RegisteredOnly, HeartbeatOnline
<1>3. CASE HeartbeatState(c)
  BY <1>3 DEF TypeOK, ReplacedIsClosed, EntryIsServed, RegisteredOnly, HeartbeatState
<1>4. CASE HeartbeatCapabilities(c)
  BY <1>4 DEF TypeOK, ReplacedIsClosed, EntryIsServed, RegisteredOnly, HeartbeatCapabilities
<1>5. CASE MarkCapabilityDispatch(c)
  BY <1>5 DEF TypeOK, ReplacedIsClosed, EntryIsServed, RegisteredOnly, MarkCapabilityDispatch
<1>6. CASE DispatchOnCapabilities(c)
  BY <1>6 DEF TypeOK, ReplacedIsClosed, EntryIsServed, RegisteredOnly, DispatchOnCapabilities,
     DispatchPending
<1>7. CASE ReadFails(c)
  BY <1>7 DEF TypeOK, ReplacedIsClosed, EntryIsServed, RegisteredOnly, ReadFails
<1> QED
  BY <1>1, <1>2, <1>3, <1>4, <1>5, <1>6, <1>7

LEMMA CleanupKeepsOwned ==
  ASSUME Owned, NEW c \in Conn,
         RemoveIfCurrent(c) \/ CleanupReset(c) \/ CleanupState(c) \/ CleanupPublish(c)
  PROVE  Owned'
<1> USE DEF Owned, Accepting, Serving, Leaving, Goto, hubVars, dbVars, cmdVars, netVars
<1>1. CASE RemoveIfCurrent(c)
  <2>1. CASE entry = c
    <3>1. entry' = None /\ ~ online' /\ ~ recent' /\ closed' = closed \cup {c}
      BY <1>1, <2>1 DEF RemoveIfCurrent, IsCurrent
    <3>2. TypeOK'
      BY <1>1, <2>1, <3>1 DEF TypeOK, RemoveIfCurrent, IsCurrent, WasOnline
    <3> QED
      BY <1>1, <2>1, <3>1, <3>2 DEF TypeOK, ReplacedIsClosed, EntryIsServed, RegisteredOnly,
         RemoveIfCurrent
  <2>2. CASE entry # c
    <3>1. pc' = [pc EXCEPT ![c] = "done"] /\ UNCHANGED <<entry, online, recent, closed>>
      BY <1>1, <2>2 DEF RemoveIfCurrent, IsCurrent
    <3> QED
      BY <1>1, <2>2, <3>1 DEF TypeOK, ReplacedIsClosed, EntryIsServed, RegisteredOnly,
         RemoveIfCurrent
  <2> QED
    BY <2>1, <2>2
<1>2. CASE CleanupReset(c)
  <2>1. TypeOK'
    <3>1. PICK to \in {"offline", "done"} : pc' = [pc EXCEPT ![c] = to]
      BY <1>2 DEF CleanupReset, Goto
    <3>2. pc' \in [Conn -> Accepting \cup Serving \cup Leaving \cup {"unused", "done"}]
      BY <3>1 DEF TypeOK, Leaving
    <3> QED
      BY <1>2, <3>2 DEF TypeOK, CleanupReset, hubVars, dbVars, cmdVars, netVars
  <2> QED
    BY <1>2, <2>1 DEF TypeOK, ReplacedIsClosed, EntryIsServed, RegisteredOnly, CleanupReset
<1>3. CASE CleanupState(c)
  BY <1>3 DEF TypeOK, ReplacedIsClosed, EntryIsServed, RegisteredOnly, CleanupState
<1>4. CASE CleanupPublish(c)
  BY <1>4 DEF TypeOK, ReplacedIsClosed, EntryIsServed, RegisteredOnly, CleanupPublish, PublishOffline
<1> QED
  BY <1>1, <1>2, <1>3, <1>4

LEMMA OthersKeepOwned ==
  ASSUME Owned,
         \/ Monitor \/ CreateCommand \/ DispatchNew \/ Silence \/ MasterRestart
         \/ \E c \in Conn : Dial(c) \/ SendHeartbeat(c) \/ LinkDown(c) \/ AgentNotices(c)
         \/ UNCHANGED vars
  PROVE  Owned'
<1> USE DEF Owned, hubVars, dbVars, cmdVars, netVars
<1>1. CASE Monitor
  <2>1. online' \in BOOLEAN /\ offs' \in Nat /\ (online' => online)
    BY <1>1 DEF TypeOK, Monitor, ScanCopy, MarkOfflineIfStale, StillStale, ScanPublish, PublishOffline
  <2>2. /\ monitor' \in {"idle", "copied", "publish"} /\ status' \in {"online", "offline"}
        /\ UNCHANGED <<entry, recent, pc, closed, capsDone, caps, queued, api, mine, up, inbox, ups,
                       bounds>>
    BY <1>1 DEF TypeOK, Monitor, ScanCopy, MarkOfflineIfStale, ScanPublish, PublishOffline
  <2> QED
    BY <2>1, <2>2 DEF TypeOK, ReplacedIsClosed, EntryIsServed, RegisteredOnly
<1>2. CASE CreateCommand \/ DispatchNew \/ Silence
  <2>1. bounds' \in [silences : 0..MaxSilences, queued : 0..MaxQueued, restarts : 0..MaxRestarts]
    BY <1>2 DEF TypeOK, CreateCommand, DispatchNew, Silence
  <2>2. queued' \in BOOLEAN
    BY <1>2 DEF TypeOK, CreateCommand, DispatchNew, DispatchPending, Silence
  <2>4. recent' \in BOOLEAN /\ (recent' => recent)
    <3>1. recent' = FALSE \/ recent' = recent
      BY <1>2 DEF CreateCommand, DispatchNew, Silence
    <3>2. recent \in BOOLEAN
      BY DEF TypeOK
    <3>3. CASE recent' = FALSE
      BY <3>3
    <3>4. CASE recent' = recent
      BY <3>2, <3>4, Zenon
    <3> QED
      BY <3>1, <3>3, <3>4
  <2>3. /\ api' \in {"idle", "created"}
        /\ UNCHANGED <<entry, online, pc, closed, capsDone, status, caps, monitor, mine, up, inbox,
                       ups, offs>>
    BY <1>2 DEF TypeOK, CreateCommand, DispatchNew, Silence
  <2> QED
    BY <2>1, <2>2, <2>3, <2>4 DEF TypeOK, ReplacedIsClosed, EntryIsServed, RegisteredOnly
<1>3. CASE MasterRestart
  <2>1. bounds' \in [silences : 0..MaxSilences, queued : 0..MaxQueued, restarts : 0..MaxRestarts]
    BY <1>3 DEF TypeOK, MasterRestart
  <2>2. pc' \in [Conn -> Accepting \cup Serving \cup Leaving \cup {"unused", "done"}]
    BY <1>3 DEF TypeOK, MasterRestart
  <2> QED
    BY <1>3, <2>1, <2>2 DEF TypeOK, ReplacedIsClosed, EntryIsServed, RegisteredOnly, MasterRestart
<1>4. ASSUME NEW c \in Conn, Dial(c)
      PROVE  Owned'
  <2>1. inbox' \in [Conn -> 0..MaxInbox]
    BY <1>4 DEF TypeOK, Dial
  <2>2. pc' \in [Conn -> Accepting \cup Serving \cup Leaving \cup {"unused", "done"}]
    BY <1>4 DEF TypeOK, Dial, Goto, Accepting
  <2>3. EntryIsServed' /\ ReplacedIsClosed'
    BY <1>4 DEF TypeOK, Dial, Goto, Accepting, Serving, EntryIsServed, ReplacedIsClosed
  <2> QED
    BY <1>4, <2>1, <2>2, <2>3 DEF TypeOK, RegisteredOnly, Dial
<1>5. ASSUME NEW c \in Conn, SendHeartbeat(c)
      PROVE  Owned'
  <2>1. inbox' \in [Conn -> 0..MaxInbox]
    BY <1>5 DEF TypeOK, SendHeartbeat
  <2> QED
    BY <1>5, <2>1 DEF TypeOK, ReplacedIsClosed, EntryIsServed, RegisteredOnly, SendHeartbeat
<1>6. ASSUME NEW c \in Conn, LinkDown(c) \/ AgentNotices(c)
      PROVE  Owned'
  BY <1>6 DEF TypeOK, ReplacedIsClosed, EntryIsServed, RegisteredOnly, LinkDown, AgentNotices
<1>7. CASE UNCHANGED vars
  BY <1>7 DEF TypeOK, ReplacedIsClosed, EntryIsServed, RegisteredOnly, vars
<1> QED
  BY <1>1, <1>2, <1>3, <1>4, <1>5, <1>6, <1>7

LEMMA OwnedStep == Owned /\ [Next]_vars => Owned'
BY AcceptKeepsOwned, ReadKeepsOwned, CleanupKeepsOwned, OthersKeepOwned DEF Next, Serve
-----------------------------------------------------------------------------
(* The account of the outages.                                             *)

LEMMA AnnouncingFinite == IsFiniteSet(Announcing) /\ Cardinality(Announcing) \in Nat
<1>1. Announcing \in SUBSET Conn
  BY DEF Announcing
<1> QED
  BY <1>1, FS_Subset, FS_CardinalityType

\* A step of a handler changes the cleanups that owe an announcement by one.
LEMMA AnnouncingStep ==
  ASSUME TypeOK, NEW c \in Conn, NEW from, NEW to, Goto(c, from, to)
  PROVE  /\ Cardinality(Announcing) \in Nat /\ Cardinality(Announcing') \in Nat
         /\ Cardinality(Announcing') =
              Cardinality(Announcing) + (IF to \in Publishing THEN 1 ELSE 0)
                                      - (IF from \in Publishing THEN 1 ELSE 0)
<1>1. c \in Announcing <=> from \in Publishing
  BY DEF Goto, Announcing
<1>2. Announcing' = IF to \in Publishing THEN Announcing \cup {c} ELSE Announcing \ {c}
  BY DEF Goto, Announcing, TypeOK
<1>3. IsFiniteSet(Announcing) /\ Cardinality(Announcing) \in Nat
  BY AnnouncingFinite
<1>4. /\ Cardinality(Announcing \cup {c}) =
           IF c \in Announcing THEN Cardinality(Announcing) ELSE Cardinality(Announcing) + 1
      /\ IsFiniteSet(Announcing \cup {c})
  BY <1>3, FS_AddElement
<1>5. /\ Cardinality(Announcing \ {c}) =
           IF c \in Announcing THEN Cardinality(Announcing) - 1 ELSE Cardinality(Announcing)
      /\ IsFiniteSet(Announcing \ {c})
  BY <1>3, FS_RemoveElement
<1>6. Cardinality(Announcing') \in Nat
  BY <1>2, <1>4, <1>5, FS_CardinalityType
<1> QED
  BY <1>1, <1>2, <1>3, <1>4, <1>5, <1>6

LEMMA AnnouncingUnchanged == ASSUME UNCHANGED pc PROVE Announcing' = Announcing
BY DEF Announcing

Account(o, n, m, l, u) ==
  o + n + (IF m = "publish" THEN 1 ELSE 0) + (IF l THEN 1 ELSE 0) <= u

LEMMA AccountIs ==
  /\ OutageAccount <=> Account(offs, Cardinality(Announcing), monitor, online, ups)
  /\ OutageAccount' <=> Account(offs', Cardinality(Announcing'), monitor', online', ups')
BY DEF OutageAccount, Account

LEMMA ServeKeepsAccount ==
  ASSUME Owned, OutageAccount, NEW c \in Conn, Serve(c)
  PROVE  OutageAccount'
<1> USE DEF Publishing, hubVars, dbVars, cmdVars, netVars
<1>0. /\ TypeOK /\ offs \in Nat /\ ups \in Nat /\ online \in BOOLEAN
      /\ Account(offs, Cardinality(Announcing), monitor, online, ups)
  BY AccountIs DEF Owned, TypeOK
<1> SUFFICES Account(offs', Cardinality(Announcing'), monitor', online', ups')
  BY AccountIs
<1>1. CASE HandleWebSocket(c)
  <2>1. Cardinality(Announcing') = Cardinality(Announcing) /\ Cardinality(Announcing) \in Nat
    BY <1>0, <1>1, AnnouncingStep DEF HandleWebSocket
  <2>2. online' /\ ups' = ups + (IF online THEN 0 ELSE 1) /\ UNCHANGED <<offs, monitor>>
    BY <1>1 DEF HandleWebSocket, Add
  <2> QED
    BY <1>0, <2>1, <2>2 DEF Account
<1>2. CASE \/ ResetCapabilityDispatch(c) \/ AcceptedSeen(c) \/ AcceptedState(c) \/ PublishOnline(c)
           \/ DispatchOnConnect(c)
  <2>1. Cardinality(Announcing') = Cardinality(Announcing)
    <3>1. ASSUME NEW f \in Accepting \cup Serving, NEW t \in Accepting \cup Serving, Goto(c, f, t)
          PROVE  Cardinality(Announcing') = Cardinality(Announcing)
      BY <1>0, <3>1, AnnouncingStep DEF Accepting, Serving
    <3> QED
      BY <1>2, <3>1 DEF Accepting, Serving, ResetCapabilityDispatch, AcceptedSeen, AcceptedState,
         PublishOnline, DispatchOnConnect
  <2>2. UNCHANGED <<offs, monitor, online, ups>>
    BY <1>2 DEF ResetCapabilityDispatch, AcceptedSeen, AcceptedState, PublishOnline, DispatchOnConnect
  <2> QED
    BY <1>0, <2>1, <2>2
<1>3. CASE \/ ReadHeartbeat(c) \/ HeartbeatOnline(c) \/ HeartbeatState(c) \/ HeartbeatCapabilities(c)
           \/ MarkCapabilityDispatch(c) \/ DispatchOnCapabilities(c) \/ ReadFails(c)
  <2>1. Cardinality(Announcing') = Cardinality(Announcing) /\ Cardinality(Announcing) \in Nat
    <3>1. ASSUME NEW f \in Serving, NEW t \in Serving \cup {"cleanup"}, Goto(c, f, t)
          PROVE  Cardinality(Announcing') = Cardinality(Announcing) /\ Cardinality(Announcing) \in Nat
      BY <1>0, <3>1, AnnouncingStep DEF Serving
    <3>2. \E f \in Serving, t \in Serving \cup {"cleanup"} : Goto(c, f, t)
      BY <1>3 DEF Serving, ReadHeartbeat, HeartbeatOnline, HeartbeatState, HeartbeatCapabilities,
         MarkCapabilityDispatch, DispatchOnCapabilities, ReadFails
    <3> QED
      BY <3>1, <3>2
  <2>2. UNCHANGED <<offs, monitor>>
    BY <1>3 DEF ReadHeartbeat, HeartbeatOnline, HeartbeatState, HeartbeatCapabilities,
       MarkCapabilityDispatch, DispatchOnCapabilities, ReadFails
  <2>3. \/ (online' <=> online) /\ UNCHANGED ups
        \/ online' /\ ~ online /\ ups' = ups + 1
    <3>1. CASE HeartbeatOnline(c)
      <4>1. (online => online') /\ ups' = ups + (IF online' /\ ~ online THEN 1 ELSE 0)
        BY <3>1 DEF HeartbeatOnline
      <4> QED
        BY <1>0, <4>1
    <3> QED
      BY <1>3, <3>1 DEF ReadHeartbeat, HeartbeatState, HeartbeatCapabilities,
         MarkCapabilityDispatch, DispatchOnCapabilities, ReadFails
  <2> QED
    BY <1>0, <2>1, <2>2, <2>3 DEF Account
<1>4. CASE RemoveIfCurrent(c)
  <2>1. CASE entry = c /\ online
    <3>1. Goto(c, "cleanup", "left") /\ ~ online' /\ UNCHANGED <<offs, monitor, ups>>
      BY <1>4, <2>1 DEF RemoveIfCurrent, IsCurrent, WasOnline
    <3>2. /\ Cardinality(Announcing') = Cardinality(Announcing) + 1
          /\ Cardinality(Announcing) \in Nat
      BY <1>0, <3>1, AnnouncingStep
    <3> QED
      BY <1>0, <2>1, <3>1, <3>2 DEF Account
  <2>2. CASE ~ (entry = c /\ online)
    <3>1. PICK t \in {"done", "quiet"} : Goto(c, "cleanup", t)
      BY <1>4, <2>2 DEF RemoveIfCurrent, IsCurrent, WasOnline
    <3>2. (online' => online) /\ UNCHANGED <<offs, monitor, ups>>
      BY <1>4 DEF RemoveIfCurrent
    <3>3. Cardinality(Announcing') = Cardinality(Announcing) /\ Cardinality(Announcing) \in Nat
      BY <1>0, <3>1, AnnouncingStep
    <3> QED
      BY <1>0, <3>2, <3>3 DEF Account
  <2> QED
    BY <2>1, <2>2
<1>5. CASE CleanupReset(c) \/ CleanupState(c)
  <2>1. Cardinality(Announcing') = Cardinality(Announcing)
    <3>1. CASE CleanupReset(c)
      BY <1>0, <3>1, AnnouncingStep DEF CleanupReset
    <3>2. CASE CleanupState(c)
      BY <1>0, <3>2, AnnouncingStep DEF CleanupState
    <3> QED
      BY <1>5, <3>1, <3>2
  <2>2. UNCHANGED <<offs, monitor, online, ups>>
    BY <1>5 DEF CleanupReset, CleanupState
  <2> QED
    BY <1>0, <2>1, <2>2
<1>6. CASE CleanupPublish(c)
  <2>1. Cardinality(Announcing') = Cardinality(Announcing) - 1 /\ Cardinality(Announcing) \in Nat
    BY <1>0, <1>6, AnnouncingStep DEF CleanupPublish
  <2>2. offs' = offs + 1 /\ UNCHANGED <<monitor, online, ups>>
    BY <1>6 DEF CleanupPublish, PublishOffline
  <2> QED
    BY <1>0, <2>1, <2>2 DEF Account
<1> QED
  BY <1>1, <1>2, <1>3, <1>4, <1>5, <1>6 DEF Serve

LEMMA OthersKeepAccount ==
  ASSUME Owned, OutageAccount,
         \/ Monitor \/ CreateCommand \/ DispatchNew \/ Silence \/ MasterRestart
         \/ \E c \in Conn : Dial(c) \/ SendHeartbeat(c) \/ LinkDown(c) \/ AgentNotices(c)
         \/ UNCHANGED vars
  PROVE  OutageAccount'
<1> USE DEF Publishing, hubVars, dbVars, cmdVars, netVars
<1>0. /\ TypeOK /\ offs \in Nat /\ ups \in Nat /\ online \in BOOLEAN
      /\ Cardinality(Announcing) \in Nat
      /\ Account(offs, Cardinality(Announcing), monitor, online, ups)
  BY AccountIs, AnnouncingFinite DEF Owned, TypeOK
<1> SUFFICES Account(offs', Cardinality(Announcing'), monitor', online', ups')
  BY AccountIs
<1>1. CASE Monitor
  <2>1. UNCHANGED <<pc, ups>>
    BY <1>1 DEF Monitor, ScanCopy, MarkOfflineIfStale, ScanPublish
  <2>2. CASE ScanCopy
    BY <1>0, <2>1, <2>2, AnnouncingUnchanged DEF ScanCopy, Account
  <2>3. CASE MarkOfflineIfStale
    <3>1. \/ monitor' = "publish" /\ online /\ ~ online'
          \/ monitor' = "idle" /\ (online' => online)
      BY <2>3 DEF MarkOfflineIfStale, StillStale
    <3>2. monitor = "copied" /\ UNCHANGED offs
      BY <2>3 DEF MarkOfflineIfStale
    <3> QED
      BY <1>0, <2>1, <3>1, <3>2, AnnouncingUnchanged DEF Account
  <2>4. CASE ScanPublish
    BY <1>0, <2>1, <2>4, AnnouncingUnchanged DEF ScanPublish, PublishOffline, Account
  <2> QED
    BY <1>1, <2>2, <2>3, <2>4 DEF Monitor
<1>2. CASE MasterRestart
  <2>1. Announcing' = {}
    BY <1>2 DEF MasterRestart, Announcing
  <2>2. Cardinality(Announcing') = 0
    BY <2>1, FS_EmptySet
  <2> QED
    BY <1>0, <1>2, <2>2 DEF MasterRestart, Account
<1>3. ASSUME NEW c \in Conn, Dial(c)
      PROVE  Account(offs', Cardinality(Announcing'), monitor', online', ups')
  BY <1>0, <1>3, AnnouncingStep DEF Dial
<1>4. CASE \/ CreateCommand \/ DispatchNew \/ Silence \/ UNCHANGED vars
           \/ \E c \in Conn : SendHeartbeat(c) \/ LinkDown(c) \/ AgentNotices(c)
  <2>1. UNCHANGED <<pc, offs, monitor, online, ups>>
    BY <1>4 DEF CreateCommand, DispatchNew, Silence, SendHeartbeat, LinkDown, AgentNotices, vars
  <2> QED
    BY <1>0, <2>1, AnnouncingUnchanged
<1> QED
  BY <1>1, <1>2, <1>3, <1>4

LEMMA InvInit == Init => HubInv
<1> SUFFICES ASSUME Init PROVE HubInv
  OBVIOUS
<1>1. Announcing = {}
  BY DEF Init, Announcing, Publishing
<1>2. Cardinality(Announcing) = 0
  BY <1>1, FS_EmptySet
<1> QED
  BY <1>2, OwnedInit DEF Init, HubInv, Owned, OutageAccount

LEMMA InvStep == HubInv /\ [Next]_vars => HubInv'
<1> SUFFICES ASSUME HubInv, [Next]_vars PROVE HubInv'
  OBVIOUS
<1>1. Owned /\ OutageAccount
  BY DEF HubInv, Owned
<1>2. OutageAccount'
  BY <1>1, ServeKeepsAccount, OthersKeepAccount DEF Next
<1> QED
  BY <1>1, <1>2, OwnedStep DEF HubInv, Owned

-----------------------------------------------------------------------------
\* The hub invariant: types, one owner of the entry, replaced connections
\* closed, and every online period announced over at most once.
THEOREM HubCorrect == Spec => []HubInv
BY InvInit, InvStep, PTL DEF Spec

\* AgentOffline is published at most once per online period, by whichever of
\* the monitor and the cleanups sees it end.
THEOREM OfflineAnnouncedOnce == Spec => []OneOfflinePerOutage
<1>1. HubInv => OneOfflinePerOutage
  <2> SUFFICES ASSUME HubInv PROVE OneOfflinePerOutage
    OBVIOUS
  <2>1. offs \in Nat /\ ups \in Nat /\ Cardinality(Announcing) \in Nat /\ OutageAccount
    BY AnnouncingFinite DEF HubInv, TypeOK
  <2> QED
    BY <2>1 DEF OutageAccount, OneOfflinePerOutage
<1> QED
  BY <1>1, HubCorrect, PTL

\* Only the handler of the registered connection unregisters it.
THEOREM OwnerRemoves == Spec => OnlyOwnerRemoves
<1>1. ASSUME HubInv, [Next]_vars, entry # None, entry' = None, bounds'.restarts = bounds.restarts
      PROVE  pc[entry] = "cleanup"
  <2>1. ~ MasterRestart
    BY <1>1 DEF MasterRestart, HubInv, TypeOK
  <2>2. \E c \in Conn : RemoveIfCurrent(c)
    BY <1>1, <2>1 DEF Next, Serve, Monitor, HandleWebSocket, Add, ResetCapabilityDispatch,
       AcceptedSeen, AcceptedState, PublishOnline, DispatchOnConnect, ReadHeartbeat,
       HeartbeatOnline, HeartbeatState, HeartbeatCapabilities, MarkCapabilityDispatch,
       DispatchOnCapabilities, ReadFails, CleanupReset, CleanupState, CleanupPublish, ScanCopy,
       MarkOfflineIfStale, ScanPublish, CreateCommand, DispatchNew, Dial, SendHeartbeat, LinkDown,
       AgentNotices, Silence, vars, hubVars
  <2> QED
    BY <1>1, <2>2 DEF RemoveIfCurrent, IsCurrent, Goto, hubVars
<1>2. HubInv /\ [Next]_vars =>
        [entry # None /\ entry' = None /\ bounds'.restarts = bounds.restarts
           => pc[entry] = "cleanup"]_vars
  BY <1>1
<1> QED
  BY <1>2, HubCorrect, PTL DEF Spec, OnlyOwnerRemoves

\* A heartbeat that arrives while the monitor scans keeps the agent online.
THEOREM FreshIsKept == Spec => FreshStaysOnline
<1>1. ASSUME HubInv, [Next]_vars, online, recent, entry' = entry
      PROVE  online'
  <2>1. entry # None
    BY <1>1 DEF HubInv, RegisteredOnly
  <2>2. ASSUME NEW c \in Conn, RemoveIfCurrent(c)
        PROVE  online'
    BY <1>1, <2>1, <2>2 DEF RemoveIfCurrent, hubVars
  <2>3. CASE MarkOfflineIfStale
    BY <1>1, <2>3 DEF MarkOfflineIfStale, StillStale
  <2>4. ASSUME NEW c \in Conn, HeartbeatOnline(c)
        PROVE  online'
    BY <1>1, <2>4 DEF HeartbeatOnline
  <2>5. ASSUME NEW c \in Conn, HandleWebSocket(c)
        PROVE  online'
    BY <2>5 DEF HandleWebSocket, Add
  <2>6. ~ MasterRestart
    BY <1>1, <2>1 DEF MasterRestart
  <2> QED
    BY <1>1, <2>2, <2>3, <2>4, <2>5, <2>6 DEF Next, Serve, Monitor, ResetCapabilityDispatch,
       AcceptedSeen, AcceptedState, PublishOnline, DispatchOnConnect, ReadHeartbeat,
       HeartbeatState, HeartbeatCapabilities, MarkCapabilityDispatch,
       DispatchOnCapabilities, ReadFails, CleanupReset, CleanupState, CleanupPublish, ScanCopy,
       ScanPublish, CreateCommand, DispatchNew, Dial, SendHeartbeat, LinkDown,
       AgentNotices, Silence, vars, hubVars
<1>2. HubInv /\ [Next]_vars => [online /\ recent /\ entry' = entry => online']_vars
  BY <1>1
<1> QED
  BY <1>2, HubCorrect, PTL DEF Spec, FreshStaysOnline
=============================================================================
