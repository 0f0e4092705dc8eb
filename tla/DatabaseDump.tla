---------------------------- MODULE DatabaseDump ----------------------------
(***************************************************************************)
(* The logical dumps of a backup (internal/agent/database/dump.go).        *)
(*                                                                         *)
(* Prepare creates a staging directory, dumps every database source of the *)
(* policy into it and returns the files with a cleanup function; on any    *)
(* error it cleans up itself.  A source names one database or asks the     *)
(* server for all of them.  pg_dump, mysqldump and docker exec are         *)
(* external commands: they end well or badly, and badly once the context   *)
(* of the job is cancelled.                                                *)
(*                                                                         *)
(* A file name is the sequence of its parts between "-", so that a         *)
(* database whose name ends in "-2" can meet the second of two equal names.*)
(*                                                                         *)
(* An operator whose name ends in Mutant is the operator that follows it   *)
(* with a plausible bug in it; no action uses one.                         *)
(***************************************************************************)
EXTENDS Integers, Sequences, FiniteSets, Functions

CONSTANTS
  Policy,    \* the policies that commands and cron jobs carry
  Database,  \* names of databases
  Safe       \* what safeFilePart makes of each, split at "-"

ASSUME PolicyAssumption ==
  \A p \in Policy :
    /\ p.databases \in Seq(Range(p.databases))
    /\ \A k \in DOMAIN p.databases : p.databases[k].databases \in Seq(Database)

VARIABLES
  policy,     \* the policy of the jobs
  cancelled,  \* the context of the job is done
  dumpStep,   \* where Prepare is
  sources,    \* database sources it has not handled
  databases,  \* databases of the current source it has not dumped
  stage,      \* its staging directory exists
  files,      \* dump files in it, by name: what each contains
  secret,     \* a MySQL defaults file with the password is in it
  dumps       \* result.Metadata.Dumps

dumpVars == <<dumpStep, sources, databases, stage, files, secret, dumps>>

DumpSteps == {"idle", "called", "source", "list", "dump", "ok", "failed"}
SystemDatabases == {"information_schema", "performance_schema"}

\* The names depend on the second they are made in: one dump may well follow
\* another in the same second.
DumpFileName(s, db) ==
  IF s.output # "" THEN <<s.output>> ELSE <<s.engine>> \o Safe[db] \o <<"now">>

DumpFileNameForDatabase(s, db) ==
  IF s.output = "" THEN DumpFileName(s, db) ELSE <<s.output>> \o Safe[db]

\* The i-th of the names, with a count when it was seen before.
UniqueDumpFileName(names, i) ==
  LET count == Cardinality({j \in 1..(i - 1) : names[j] = names[i]})
  IN IF count = 0 THEN names[i] ELSE Append(names[i], count + 1)

Dump(s, db, name) == [source |-> s, database |-> db, name |-> name]

SkipDatabase(s, db) == s.engine = "mysql" /\ db \in SystemDatabases
ParseDatabaseList(s) ==
  LET kept == {i \in DOMAIN s.databases : ~SkipDatabase(s, s.databases[i])}
      nth(n) == CHOOSE i \in kept : Cardinality({j \in kept : j < i}) = n - 1
  IN [n \in 1..Cardinality(kept) |-> s.databases[nth(n)]]

DumpAllDatabases(s) ==
  LET list == ParseDatabaseList(s)
      names == [i \in DOMAIN list |-> DumpFileNameForDatabase(s, list[i])]
  IN [i \in DOMAIN list |-> Dump(s, list[i], UniqueDumpFileName(names, i))]

DumpSource(s) == <<Dump(s, s.databases[1], DumpFileName(s, s.databases[1]))>>

Dumps(s) == IF s.all THEN DumpAllDatabases(s) ELSE DumpSource(s)

\* A source in a container needs its name.
BuildCommandFails(s) == s.docker /\ ~s.container
WritesDefaultsFile(s) == s.engine = "mysql" /\ ~s.docker /\ s.password

-----------------------------------------------------------------------------
CleanupDumpsMutant == UNCHANGED <<stage, files, secret>>
CleanupDumps == stage' = FALSE /\ files' = <<>> /\ secret' = FALSE

PrepareFails ==
  /\ dumpStep' = "failed" /\ dumps' = <<>> /\ CleanupDumps
  /\ UNCHANGED <<sources, databases>>

Prepare ==
  /\ dumpStep = "called"
  /\ sources' = policy.databases
  /\ IF policy.databases = <<>> THEN dumpStep' = "ok" /\ UNCHANGED stage
     ELSE \/ dumpStep' = "source" /\ stage' = TRUE
          \/ dumpStep' = "failed" /\ UNCHANGED stage
  /\ dumps' = <<>>
  /\ UNCHANGED <<databases, files, secret>>

NextSource ==
  /\ dumpStep = "source"
  /\ IF sources = <<>> THEN dumpStep' = "ok" /\ UNCHANGED databases
     ELSE IF Head(sources).all THEN dumpStep' = "list" /\ UNCHANGED databases
     ELSE dumpStep' = "dump" /\ databases' = DumpSource(Head(sources))
  /\ UNCHANGED <<sources, stage, files, secret, dumps>>

ListDatabases ==
  /\ dumpStep = "list"
  /\ LET s == Head(sources)
     IN \/ PrepareFails
        \/ /\ ~cancelled /\ ~BuildCommandFails(s)
           /\ DumpAllDatabases(s) # <<>>          \* "no databases found"
           /\ databases' = DumpAllDatabases(s) /\ dumpStep' = "dump"
           /\ secret' = (secret \/ WritesDefaultsFile(s))
           /\ UNCHANGED <<sources, stage, files, dumps>>

DumpSingleDatabase ==
  /\ dumpStep = "dump"
  /\ LET d == Head(databases)
     IN \/ PrepareFails
        \/ /\ ~cancelled /\ ~BuildCommandFails(d.source)
           /\ files' = [n \in DOMAIN files \cup {d.name} |-> IF n = d.name THEN d ELSE files[n]]
           /\ dumps' = Append(dumps, d)
           /\ secret' = (secret \/ WritesDefaultsFile(d.source))
           /\ databases' = Tail(databases)
           /\ IF Tail(databases) = <<>>
              THEN dumpStep' = "source" /\ sources' = Tail(sources)
              ELSE UNCHANGED <<dumpStep, sources>>
           /\ UNCHANGED stage

DumpNext == Prepare \/ NextSource \/ ListDatabases \/ DumpSingleDatabase

-----------------------------------------------------------------------------
\* No two dumps that a policy calls for have one name.  Nothing checks it: names
\* are numbered among the databases of one source only, and a database may be
\* called like the numbered name of another.
NamesApart(p) ==
  \A k, l \in DOMAIN p.databases : \A i \in DOMAIN Dumps(p.databases[k]), j \in DOMAIN Dumps(p.databases[l]) :
    Dumps(p.databases[k])[i].name = Dumps(p.databases[l])[j].name => k = l /\ i = j

\* Prepare reports no dump that another has overwritten: each has its file, with
\* its own content, if the names that the policy leads to are apart
\* (dumpSingleDatabase, uniqueDumpFileName).
DumpsKept ==
  dumpStep = "ok" /\ stage /\ NamesApart(policy) => \A i \in DOMAIN dumps :
     dumps[i].name \in DOMAIN files /\ files[dumps[i].name] = dumps[i]

\* openspec, database-backup-sources: "each database is written to a separate staged
\* SQL dump file".
DumpsSeparate ==
  dumpStep = "ok" => \A i, j \in DOMAIN dumps : i # j => dumps[i].name # dumps[j].name
=============================================================================
