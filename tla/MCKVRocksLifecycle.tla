------------------------ MODULE MCKVRocksLifecycle -------------------------
(***************************************************************************)
(* KVRocksLifecycle with a sentinel and one instance it monitors, or not.  *)
(***************************************************************************)
EXTENDS KVRocksLifecycle

CONSTANTS sentinel, standard, cluster

MCInstances == {sentinel, standard, cluster}
MCType == [i \in MCInstances |-> CASE i = sentinel -> "sentinel"
                                   [] i = standard -> "standard"
                                   [] i = cluster -> "cluster"]

\* A specification that passes ValidateKVRocks, and the nearest that does not.
Valid(replicas, masters) ==
  [password |-> TRUE, resources |-> TRUE, replicas |-> replicas, master |-> masters]
MCSpecs == [i \in MCInstances |->
  CASE i = sentinel -> {Valid(3, 0), Valid(2, 0)}
    [] i = standard -> {Valid(2, 1), [Valid(2, 1) EXCEPT !.resources = FALSE]}
    [] i = cluster -> {Valid(2, 3), [Valid(2, 3) EXCEPT !.password = FALSE]}]

MCPopulations ==
  {[instances |-> {sentinel, standard}, monitored |-> {standard}, faults |-> {fault}] :
     fault \in {"edit", "delete", "move", "restart"}}
  \cup {[instances |-> {sentinel, cluster}, monitored |-> {cluster}, faults |-> {"kill"}],
        [instances |-> {standard}, monitored |-> {}, faults |-> {"edit", "kill"}]}
=============================================================================
