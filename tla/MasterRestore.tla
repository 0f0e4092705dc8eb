---------------------------- MODULE MasterRestore ---------------------------
(***************************************************************************)
(* The Master replaces its own data (internal/master/backup,               *)
(* internal/master/api/system.go, cmd/master/main.go): an archive is       *)
(* uploaded, confirmed, and installed by the next start, which may be cut  *)
(* short between any two files and is run again by the process manager.    *)
(***************************************************************************)
EXTENDS Integers, FiniteSets

CONSTANTS
  File,        \* the entries of the data directory
  Archived,    \* those the uploaded archive holds
  MaxUploads, MaxCrashes, MaxSeconds   \* bounds

ASSUME ArchiveAssumption ==
  /\ Archived \subseteq File /\ IsFiniteSet(File)
  /\ MaxUploads \in Nat /\ MaxCrashes \in Nat /\ MaxSeconds \in Nat

VARIABLES
  data,      \* an entry -> "none", "old" or "new"
  staging,   \* .import-staging.zip: "none", "torn", "unfit" or "whole"
  zip,       \* backup.zip: the same
  writer,    \* the file an upload is writing: "none", "staging" or "zip"
  rollback,  \* a second -> the archive named for it: NoData or what it holds
  at,        \* "running", "down" or the step of the start
  second, uploads, crashes,
  overwritten  \* a rollback archive replaced one of the same second

restoreVars == <<data, staging, zip, writer, rollback, at, second, uploads, crashes, overwritten>>

Old    == [f \in File |-> "old"]
New    == [f \in File |-> IF f \in Archived THEN "new" ELSE "none"]
NoData == [f \in File |-> "none"]

(***************************************************************************)
(* The running Master.                                                     *)
(***************************************************************************)
\* Import validates the upload and writes it over the staging file.  The server
\* serves requests for half a second after a confirmation.
Serving == at \in {"running", "exiting"}

BeginUpload ==
  /\ Serving /\ writer = "none" /\ uploads < MaxUploads
  /\ uploads' = uploads + 1 /\ staging' = "torn" /\ writer' = "staging"
  /\ UNCHANGED <<data, zip, rollback, at, second, crashes, overwritten>>

\* What a write leaves: an archive that the next start can extract ("whole");
\* one that passed ValidateBackupZip and that extractZip refuses ("unfit": it has
\* an entry "backup.zip", "backup.zip/..." or ".", or contents that do not match
\* their checksum, which the validation does not read); or, if it failed, a part.
Validated == {"whole", "unfit"}
Written == Validated \cup {"torn"}

\* The file written is the one the upload opened, wherever it was moved.
EndUpload ==
  /\ Serving /\ writer # "none" /\ writer' = "none"
  /\ \E w \in Written :
       /\ staging' = IF writer = "staging" THEN w ELSE staging
       /\ zip' = IF writer = "zip" THEN w ELSE zip
  /\ UNCHANGED <<data, rollback, at, second, uploads, crashes, overwritten>>

\* ImportConfirm looks only whether the staging file exists.
Confirm ==
  /\ Serving /\ staging # "none"
  /\ zip' = staging /\ staging' = "none"
  /\ writer' = IF writer = "staging" THEN "zip" ELSE writer
  /\ at' = "exiting"
  /\ UNCHANGED <<data, rollback, second, uploads, crashes, overwritten>>

Exit ==
  /\ at = "exiting"
  /\ at' = "down" /\ writer' = "none"
  /\ UNCHANGED <<data, staging, zip, rollback, second, uploads, crashes, overwritten>>

(***************************************************************************)
(* The start: CheckAndRestore, then the database.                          *)
(***************************************************************************)
AfterCheck == IF zip = "none" THEN "open" ELSE "rollback"

StartMaster ==
  /\ at = "down"
  /\ at' = AfterCheck
  /\ UNCHANGED <<data, staging, zip, writer, rollback, second, uploads, crashes, overwritten>>

RollbackNameMutant == 0
RollbackName == second

RollbackReadyMutant == \A s \in DOMAIN rollback : rollback[s] = NoData
RollbackReady == TRUE   \* MkdirAll: the directory may be there already

\* createRollback archives what the data directory holds, under a name of
\* the second it is.
CreateRollback ==
  /\ at = "rollback" /\ RollbackReady
  /\ rollback' = [rollback EXCEPT ![RollbackName] = data]
  /\ overwritten' = (overwritten \/ rollback[second] # NoData)
  /\ at' = "extract"
  /\ UNCHANGED <<data, staging, zip, writer, second, uploads, crashes>>

\* The start is cut short while it writes the archive: a part of it is left.
CutRollback ==
  /\ at = "rollback" /\ RollbackReady /\ crashes < MaxCrashes
  /\ rollback' = [rollback EXCEPT ![RollbackName] = NoData]
  /\ overwritten' = (overwritten \/ rollback[second] # NoData)
  /\ crashes' = crashes + 1 /\ at' = "down"
  /\ UNCHANGED <<data, staging, zip, writer, second, uploads>>

\* extractZip into a directory of its own; an archive that is torn or unfit ends
\* the process.
Extract ==
  /\ at = "extract"
  /\ at' = IF zip = "whole" THEN "remove" ELSE "down"
  /\ UNCHANGED <<data, staging, zip, writer, rollback, second, uploads, crashes, overwritten>>

\* replaceDataDirContents: every entry is removed, the staged upload too,
\* then every staged one is renamed into place.
RemoveEntry(f) ==
  /\ at = "remove" /\ data[f] # "none"
  /\ data' = [data EXCEPT ![f] = "none"]
  /\ UNCHANGED <<staging, zip, writer, rollback, at, second, uploads, crashes, overwritten>>

Emptied ==
  /\ at = "remove" /\ data = NoData
  /\ staging' = "none" /\ at' = "install"
  /\ UNCHANGED <<data, zip, writer, rollback, second, uploads, crashes, overwritten>>

InstallEntry(f) ==
  /\ at = "install" /\ f \in Archived /\ data[f] = "none"
  /\ data' = [data EXCEPT ![f] = "new"]
  /\ UNCHANGED <<staging, zip, writer, rollback, at, second, uploads, crashes, overwritten>>

Installed == data = New

RemoveZip ==
  /\ at = "install" /\ Installed
  /\ zip' = "none" /\ at' = "open"
  /\ UNCHANGED <<data, staging, writer, rollback, second, uploads, crashes, overwritten>>

Open ==
  /\ at = "open"
  /\ at' = "running"
  /\ UNCHANGED <<data, staging, zip, writer, rollback, second, uploads, crashes, overwritten>>

\* The process ends anywhere, an error that is fatal included; what an
\* upload was writing stays torn.
Crash ==
  /\ at # "down" /\ crashes < MaxCrashes
  /\ crashes' = crashes + 1 /\ at' = "down" /\ writer' = "none"
  /\ UNCHANGED <<data, staging, zip, rollback, second, uploads, overwritten>>

TickSecond ==
  /\ second < MaxSeconds /\ second' = second + 1
  /\ UNCHANGED <<data, staging, zip, writer, rollback, at, uploads, crashes, overwritten>>

Starting ==
  \/ Exit \/ StartMaster \/ CreateRollback \/ Extract
  \/ \E f \in File : RemoveEntry(f) \/ InstallEntry(f)
  \/ Emptied \/ RemoveZip \/ Open

RestoreInit ==
  /\ data = Old /\ staging = "none" /\ zip = "none" /\ writer = "none"
  /\ rollback = [s \in 0..MaxSeconds |-> NoData] /\ at = "running"
  /\ second = 0 /\ uploads = 0 /\ crashes = 0 /\ overwritten = FALSE

RestoreNext ==
  BeginUpload \/ EndUpload \/ Confirm \/ Starting \/ Crash \/ CutRollback \/ TickSecond

RestoreSpec == RestoreInit /\ [][RestoreNext]_restoreVars

-----------------------------------------------------------------------------
Positions == {"running", "exiting", "down", "rollback", "extract", "remove", "install", "open"}
Data == [File -> {"none", "old", "new"}]
RestoreTypeOK ==
  /\ data \in Data /\ rollback \in [0..MaxSeconds -> Data] /\ at \in Positions
  /\ {staging, zip} \subseteq {"none"} \cup Written /\ writer \in {"none", "staging", "zip"}
  /\ writer # "none" => Serving
  /\ second \in 0..MaxSeconds /\ uploads \in 0..MaxUploads /\ crashes \in 0..MaxCrashes

\* The Master never opens half of a data directory: what it opens is what it
\* had or what the archive holds, wherever the start before was cut short.
OpensWhole == at \in {"open", "running"} => data \in {Old, New}

\* README, "Pre-restore data is saved under /data/rollback/": the data is in
\* place, or an archive under rollback/ holds all of it, unless two starts
\* fell into one second and the later archive took the name of the earlier.
OriginalIsKept ==
  overwritten \/ data = Old \/ \E s \in DOMAIN rollback : rollback[s] = Old

\* Wherever the start is cut short, the next one finds what it needs: the data is
\* taken apart only while a whole archive is there to replace it, and only after
\* the data it had was archived.
RestoreInv ==
  /\ RestoreTypeOK
  /\ OpensWhole
  /\ OriginalIsKept
  /\ at = "exiting" \/ zip # "whole" => data \in {Old, New}
  /\ at \in {"remove", "install"} => zip = "whole"
  /\ at \in {"extract", "remove", "install"} =>
       overwritten \/ \E s \in DOMAIN rollback : rollback[s] = Old

\* A confirmed archive that was written to its end and that extractZip takes is
\* installed, whatever cuts the start short on the way: the process manager
\* starts the Master again.
RestoreEnds == (zip = "whole" /\ at = "down") ~> (at = "running" /\ data = New)

\* The same of every upload that passed the validation, which the code does not
\* keep: with an unfit archive every start ends at extractZip.
ValidatedIsInstalled == (zip \in Validated /\ at = "down") ~> (at = "running" /\ data = New)
=============================================================================
