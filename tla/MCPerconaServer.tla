-------------------------- MODULE MCPerconaServer --------------------------
(* Small clusters for PerconaServer.                                       *)
EXTENDS PerconaServer

\* A master, a replica and two orchestrators with everything one can ask for,
\* a lone server, a group of three, and a group of two with an orchestrator.
SmallClusters ==
  {[size |-> 2, orc |-> 2, replication |-> "async", options |-> {"custom", "myrocks", "pmm"}],
   [size |-> 1, orc |-> 0, replication |-> "async", options |-> {"pmm"}],
   [size |-> 3, orc |-> 0, replication |-> "group-replication", options |-> {}],
   [size |-> 2, orc |-> 1, replication |-> "group-replication", options |-> {}]}
===========================================================================
