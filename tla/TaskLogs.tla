------------------------------ MODULE TaskLogs ------------------------------
(***************************************************************************)
(* The live log of one task: the Agent numbers and sends its lines         *)
(* (internal/agent/task_log.go), the Master buffers them in memory and in  *)
(* the database (internal/master/tasklogs/buffer.go), and a client reads   *)
(* them by pages, each after the last sequence number it has               *)
(* (internal/master/api/task_logs.go).  The task's command may be          *)
(* delivered again after a restart of the Agent, under the same message    *)
(* id; two writers of the task, the output and the error stream of one     *)
(* command, share the emitter.                                             *)
(***************************************************************************)
EXTENDS Integers, Sequences, SequencesExt, FiniteSetsExt

CONSTANTS
  Stream,      \* the goroutines that emit lines
  MaxLines,    \* the lines an entry keeps; the limit on bytes acts as it does
  Page,        \* the lines one response holds
  TTL,         \* in ticks
  MaxEmitted, MaxTicks, MaxRestarts   \* bounds

ASSUME LogAssumption ==
  /\ MaxLines \in Nat \ {0} /\ Page \in Nat \ {0} /\ TTL \in Nat
  /\ MaxEmitted \in Nat /\ MaxTicks \in Nat /\ MaxRestarts \in Nat

VARIABLES
  sequence,  \* the emitter's counter
  emitted,   \* lines numbered so far; a line is known by its place among them
  holding,   \* a stream -> the line it has numbered and not sent, or Nothing
  wire,      \* what is on its way to the Master
  memory,    \* the buffer's entry, or NoEntry
  rows,      \* the task_logs rows
  writing,   \* what the read loop has still to write to the database
  clock, restarts,
  client,    \* the client: its cursor, the lines it saw, whether it was told of a loss
  accepted,  \* the lines whose row was written, since the log was last deleted
  newest,    \* the highest number that reached the Master
  excused    \* a line arrived behind a later one, half of a log was pruned, or a log was not read

logVars == <<sequence, emitted, holding, wire, memory, rows, writing, clock, restarts, client, accepted, newest, excused>>

Nothing == [id |-> 0, seq |-> 0]
Result  == [id |-> 0, seq |-> 1]
Never   == -1
NoEntry == [lines |-> <<>>, latest |-> 0, dropped |-> 0, updated |-> Never, done |-> Never]
NoWrite == [line |-> Nothing, latest |-> 0, dropped |-> 0, oldest |-> 0, at |-> Never]

IDs(lines) == {lines[i].id : i \in DOMAIN lines}

(***************************************************************************)
(* The Agent.                                                              *)
(***************************************************************************)
\* emitLine numbers the line under the lock ...
Number(s) ==
  /\ holding[s] = Nothing /\ emitted < MaxEmitted
  /\ sequence' = sequence + 1 /\ emitted' = emitted + 1
  /\ holding' = [holding EXCEPT ![s] = [id |-> emitted', seq |-> sequence']]
  /\ UNCHANGED <<wire, memory, rows, writing, clock, restarts, client, accepted, newest, excused>>

\* ... and sends it after, or fails to: the line is lost with its number.
SendLine(s, arrives) ==
  /\ holding[s] # Nothing
  /\ holding' = [holding EXCEPT ![s] = Nothing]
  /\ wire' = IF arrives THEN Append(wire, holding[s]) ELSE wire
  /\ UNCHANGED <<sequence, emitted, memory, rows, writing, clock, restarts, client, accepted, newest, excused>>

\* The task ends when its streams have; its result follows its lines.
SendResult ==
  /\ \A s \in Stream : holding[s] = Nothing
  /\ emitted > 0 /\ ~(wire # <<>> /\ Last(wire) = Result)
  /\ wire' = Append(wire, Result)
  /\ UNCHANGED <<sequence, emitted, holding, memory, rows, writing, clock, restarts, client, accepted, newest, excused>>

\* A new emitter for the same message id counts from the start.
RestartAgent ==
  /\ restarts < MaxRestarts
  /\ restarts' = restarts + 1
  /\ sequence' = 0 /\ holding' = [s \in Stream |-> Nothing] /\ wire' = <<>>
  /\ UNCHANGED <<emitted, memory, rows, writing, clock, client, accepted, newest, excused>>

(***************************************************************************)
(* The buffer.                                                             *)
(***************************************************************************)

\* Where a row comes in the order of the numbers.
Place(r) == Cardinality({q \in rows : q.line.seq <= r.line.seq})
Ordered == [i \in 1..Cardinality(rows) |-> CHOOSE r \in rows : Place(r) = i]

\* loadPersistentEntry: the rows by sequence, the counters of the last one.
Load ==
  IF rows = {} THEN NoEntry
  ELSE LET last == Ordered[Cardinality(rows)]
       IN [lines |-> [i \in 1..Cardinality(rows) |-> Ordered[i].line], latest |-> last.latest,
           dropped |-> last.dropped, updated |-> last.updated, done |-> last.done]

Entry == IF memory = NoEntry THEN Load ELSE memory

MaxOf(a, b) == IF a > b THEN a ELSE b

\* enforceLimits drops the oldest lines and counts them.
Limited(lines) == IF Len(lines) > MaxLines THEN SubSeq(lines, Len(lines) - MaxLines + 1, Len(lines)) ELSE lines

Added(entry, line) ==
  LET lines == Append(entry.lines, line) IN
  [lines |-> Limited(lines), latest |-> MaxOf(entry.latest, line.seq),
   dropped |-> entry.dropped + Len(lines) - Len(Limited(lines)), updated |-> clock, done |-> Never]

\* Add, up to the unlock.  The query of a log that is not in memory may fail,
\* which is logged: the line then begins an empty entry.  One read loop adds;
\* that of a connection just replaced could still be in persistLine.
AddLine(loads) ==
  /\ writing = NoWrite /\ wire # <<>> /\ Head(wire) # Result
  /\ loads \/ memory = NoEntry
  /\ LET line == Head(wire)  entry == Added(IF loads THEN Entry ELSE NoEntry, line) IN
       /\ memory' = entry
       /\ writing' = [line |-> line, latest |-> entry.latest, dropped |-> entry.dropped,
                      oldest |-> entry.lines[1].seq, at |-> clock]
       /\ excused' = (excused \/ line.seq <= newest \/ (~loads /\ rows # {})) /\ newest' = MaxOf(newest, line.seq)
  /\ wire' = Tail(wire)
  /\ UNCHANGED <<sequence, emitted, holding, rows, clock, restarts, client, accepted>>

\* persistLine, outside the lock: one transaction inserts the line, or
\* replaces the row with its number, and deletes the rows before the oldest
\* line kept; or it fails, which is logged.
PersistLine(ok) ==
  /\ writing.line # Nothing
  /\ IF ok
     THEN /\ rows' = {r \in rows : r.line.seq # writing.line.seq /\ r.line.seq >= writing.oldest}
                     \cup {r \in {[line |-> writing.line, latest |-> writing.latest, dropped |-> writing.dropped,
                                   updated |-> writing.at, done |-> Never]} : r.line.seq >= writing.oldest}
          /\ accepted' = accepted \cup {writing.line.id}
     ELSE UNCHANGED <<rows, accepted>>
  /\ writing' = NoWrite
  /\ UNCHANGED <<sequence, emitted, holding, wire, memory, clock, restarts, client, newest, excused>>

\* MarkComplete, first in memory, then in every row.
MarkComplete ==
  /\ writing = NoWrite /\ wire # <<>> /\ Head(wire) = Result
  /\ memory' = IF memory = NoEntry THEN NoEntry ELSE [memory EXCEPT !.updated = clock, !.done = clock]
  /\ writing' = [NoWrite EXCEPT !.at = clock]
  /\ wire' = Tail(wire)
  /\ UNCHANGED <<sequence, emitted, holding, rows, clock, restarts, client, accepted, newest, excused>>

MarkRows ==
  /\ writing.line = Nothing /\ writing.at # Never
  /\ rows' = {[r EXCEPT !.updated = writing.at, !.done = writing.at] : r \in rows}
  /\ writing' = NoWrite
  /\ UNCHANGED <<sequence, emitted, holding, wire, memory, clock, restarts, client, accepted, newest, excused>>

Expired(e) == clock - (IF e.done # Never THEN e.done ELSE e.updated) > TTL

Newer(entry, after) == {i \in DOMAIN entry.lines : entry.lines[i].seq > after}

PageOfMutant(entry, after) ==
  {i \in Newer(entry, after) : Cardinality({j \in Newer(entry, after) : j >= i}) <= Page}

\* The places of the first lines after the client's cursor.
PageOf(entry, after) ==
  {i \in Newer(entry, after) : Cardinality({j \in Newer(entry, after) : j <= i}) <= Page}

\* Get and the handler around it: the client moves its cursor to the last
\* line it was given.  An expired log is told so once and deleted.
Read ==
  /\ Entry # NoEntry
  /\ IF Expired(Entry)
     THEN /\ memory' = NoEntry /\ rows' = {} /\ accepted' = {}
          /\ client' = [client EXCEPT !.told = TRUE]
     ELSE LET page == PageOf(Entry, client.after) IN
          /\ memory' = Entry
          /\ client' = [after |-> IF page = {} THEN client.after ELSE Entry.lines[Max(page)].seq,
                        seen |-> client.seen \cup {Entry.lines[i].id : i \in page},
                        told |-> client.told \/ Entry.dropped > 0]
          /\ UNCHANGED <<rows, accepted>>
  /\ UNCHANGED <<sequence, emitted, holding, wire, writing, clock, restarts, newest, excused>>

Prunable(r) == clock - (IF r.done # Never THEN r.done ELSE r.updated) > TTL

\* A new Master: the memory is gone, a write under way did not happen, and
\* pruneExpiredPersistentLogs deletes row by row.
RestartMaster ==
  /\ restarts < MaxRestarts
  /\ restarts' = restarts + 1
  /\ memory' = NoEntry /\ writing' = NoWrite /\ wire' = <<>>
  /\ rows' = {r \in rows : ~Prunable(r)}
  /\ accepted' = IF rows' = {} THEN {} ELSE accepted
  /\ excused' = (excused \/ rows' \notin {{}, rows})
  /\ UNCHANGED <<sequence, emitted, holding, clock, client, newest>>

Tick ==
  /\ clock < MaxTicks /\ clock' = clock + 1
  /\ UNCHANGED <<sequence, emitted, holding, wire, memory, rows, writing, restarts, client, accepted, newest, excused>>

LogInit ==
  /\ sequence = 0 /\ emitted = 0 /\ holding = [s \in Stream |-> Nothing] /\ wire = <<>>
  /\ memory = NoEntry /\ rows = {} /\ writing = NoWrite /\ clock = 0 /\ restarts = 0
  /\ client = [after |-> 0, seen |-> {}, told |-> FALSE] /\ accepted = {} /\ newest = 0 /\ excused = FALSE

LogNext ==
  \/ \E s \in Stream : Number(s) \/ SendLine(s, TRUE) \/ SendLine(s, FALSE)
  \/ SendResult \/ RestartAgent
  \/ AddLine(TRUE) \/ AddLine(FALSE) \/ PersistLine(TRUE) \/ PersistLine(FALSE) \/ MarkComplete \/ MarkRows
  \/ Read \/ RestartMaster \/ Tick

-----------------------------------------------------------------------------
LogTypeOK ==
  /\ sequence \in 0..MaxEmitted /\ emitted \in 0..MaxEmitted
  /\ memory.latest <= newest /\ memory.dropped \in Nat
  /\ \A r, q \in rows : r.line.seq = q.line.seq => r = q
  /\ accepted \subseteq 1..MaxEmitted

\* What the log does not hold any more it says it dropped (specs/backup-live-logs,
\* "Buffer enforces limits"): a line whose row was written is in the log, or the
\* log reports lines dropped, through every restart of the Master.  Not so when
\* lines overtook one with a smaller number, or numbers were used again, or a prune
\* cut the log in two, or the query failed that loads it before a line is added
\* (excused): then persistLine and the prune delete rows untold.
Told == \A id \in accepted : id \in IDs(Entry.lines) \/ Entry.dropped > 0
TruncationIsTold == ~excused => Told

\* A client of the API that reads page after page, each from its last line on, has
\* seen every line behind its cursor or was told that lines are missing.  (The
\* task page of the UI asks for the first page only.)
ReaderMissesNothing ==
  ~excused => \A r \in rows : r.line.seq <= client.after => r.line.id \in client.seen \/ client.told

\* The number of dropped lines that the log reports counts each of them once, through
\* trims, failed writes and restarts: with the lines it holds, no more than were numbered.
\* Rows that the log had dropped, and reloads, are counted twice when it is excused.
DroppedOnce == ~excused => Entry.dropped + Len(Entry.lines) <= Entry.latest

\* No line of a log is lost untold, neither from the log nor from what its reader saw.
LogInv == LogTypeOK /\ TruncationIsTold /\ ReaderMissesNothing /\ DroppedOnce
=============================================================================
