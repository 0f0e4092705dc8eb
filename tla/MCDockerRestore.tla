--------------------------- MODULE MCDockerRestore --------------------------
(***************************************************************************)
(* Four sources: two plain containers that share an identifier, a Compose  *)
(* service whose variables are in the snapshot and one whose are nowhere.  *)
(***************************************************************************)
EXTENDS DockerRestore

web   == [name |-> "web", idents |-> {"c1", "shared"}, paths |-> {"p1"}, image |-> TRUE, network |-> TRUE,
          compose |-> "none", env |-> FALSE]
db    == [name |-> "db", idents |-> {"shop/db"}, paths |-> {"p1", "p2"}, image |-> TRUE, network |-> FALSE,
          compose |-> "variables", env |-> TRUE]
cache == [name |-> "cache", idents |-> {"shared"}, paths |-> {}, image |-> FALSE, network |-> FALSE,
          compose |-> "absent", env |-> FALSE]
app   == [name |-> "app", idents |-> {}, paths |-> {"p2"}, image |-> TRUE, network |-> FALSE,
          compose |-> "variables", env |-> FALSE]

MCMetadata == <<web, db, cache, app>>

IDs == {<<>>, <<"web">>, <<"shared">>, <<"cache">>, <<"web", "web">>, <<"web", "c1">>, <<"none">>,
        <<"cache", "c1">>, <<"shop/db", "web">>, <<"app", "c1", "db">>, <<"web", "cache", "db", "app">>}

MCRequests ==
  {[docker |-> TRUE, ids |-> ids, paths |-> {}, target |-> "/"] : ids \in IDs}
  \cup {[docker |-> FALSE, ids |-> <<>>, paths |-> p, target |-> t] : p \in {{}, {"p1"}}, t \in {"", "/t"}}

\* The policy that wrote the snapshot, and the agent's other policy.
MCWriter == [storage |-> "s1", path |-> "r1", password |-> "k1"]
MCOthers == {[storage |-> "s2", path |-> "r2", password |-> "k2"]}

\* No row, a scheduled run's, a command's, and these two with a manifest.
MCHistories == {{}, {"row"}, {"row", "policy"}, {"row", "manifest"}, {"row", "policy", "manifest"}}

MCOwnPolicy == [storage |-> "s2", repo |-> <<"first", "r1">>, password |-> "k1"]

\* A fresh host, and the containers and Compose files of hosts that were used.
Fresh   == [containers |-> [n \in Names |-> "absent"], files |-> [n \in Names |-> "absent"]]
MCHosts == {Fresh} \cup
  {[containers |-> c, files |-> [n \in Names |-> IF n = "web" THEN "absent" ELSE f]] :
     c \in [Names -> {"absent", "stopped"}] \cup {[n \in Names |-> "running"]}, f \in {"plain", "variables"}}
=============================================================================
