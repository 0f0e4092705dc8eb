---------------------------- MODULE MCBackupJob -----------------------------
(* Policies for the runs of BackupJob: one of each kind of job.            *)
EXTENDS BackupJob
CONSTANTS f1, f2, f3

MCFile == {f1, f2, f3}
MCIrregular == {f2}
MCDatabase == {"app", "a b", "a_b", "a_b-2", "information_schema"}
MCSafe == [d \in MCDatabase |->
  IF d = "app" THEN <<"app">> ELSE IF d = "a_b-2" THEN <<"a_b", 2>> ELSE <<"a_b">>]
MCContainer ==
  {[id |-> "c1", service |-> "web", name |-> "web_1", binds |-> {f2}, volumes |-> {f3}, compose |-> {}],
   [id |-> "c2", service |-> "web", name |-> "web_2", binds |-> {}, volumes |-> {}, compose |-> {f1}]}

Base == [mode |-> "snapshot", plain |-> FALSE, format |-> "tar.gz", name |-> "site",
         dirTemplate |-> {}, nameTemplate |-> {}, excludes |-> {}, paths |-> {f1},
         containers |-> <<>>, databases |-> <<>>, preHook |-> FALSE, postHook |-> FALSE,
         keepLast |-> 1, sampleRestore |-> FALSE, timeout |-> FALSE]
Source == [engine |-> "mysql", docker |-> FALSE, container |-> FALSE, password |-> TRUE,
           all |-> TRUE, databases |-> <<"a b", "information_schema", "a_b">>, output |-> "full"]
WebContainer == [id |-> "c1", service |-> "web", name |-> "", binds |-> TRUE, volumes |-> TRUE, compose |-> TRUE]

Restic == [Base EXCEPT !.preHook = TRUE, !.postHook = TRUE, !.databases = <<Source>>, !.sampleRestore = TRUE]
PlainCopy == [Base EXCEPT !.plain = TRUE, !.paths = {f1, f2}, !.preHook = TRUE]
ZipArchive == [Base EXCEPT !.mode = "archive", !.format = "zip", !.paths = {f1, f2}, !.nameTemplate = {"text"},
                        !.databases = <<[Source EXCEPT !.all = FALSE, !.databases = <<"app">>]>>]
TarArchive == [Base EXCEPT !.mode = "archive", !.paths = {f1, f2, f3}, !.excludes = {f3},
                        !.postHook = TRUE, !.timeout = TRUE]
Docker == [Base EXCEPT !.mode = "archive", !.paths = {}, !.containers = <<WebContainer>>,
                        !.nameTemplate = {"container_name"}]
Verified == [Base EXCEPT !.timeout = TRUE, !.sampleRestore = TRUE]
MCPolicy == {Restic, PlainCopy, ZipArchive, TarArchive, Docker, Verified}

\* Two names that become one, and one that is like the numbered name of the second.
NamesMeet == [Base EXCEPT !.databases = <<[Source EXCEPT !.databases = <<"a b", "a_b", "a_b-2">>]>>]
MCNamesMeet == {NamesMeet}
=============================================================================
