---------------------------- MODULE MCPxcCluster ----------------------------
(* Small clusters for PxcCluster.                                          *)
EXTENDS PxcCluster

Packages == <<<<8, 0, 32, 2>>, <<8, 0, 32, 1>>, <<8, 0, 31, 1>>>>
NewPackage == <<8, 0, 33, 1>>

Cluster(size, wanted, pmm, custom, late) ==
  [size |-> size, wanted |-> wanted, pmm |-> pmm, custom |-> custom, late |-> late]

\* A lone node and three nodes with everything, two nodes with a version of each
\* kind, and two nodes of which one sees a version that the other does not.
SmallClusters ==
  {Cluster(1, <<>>, TRUE, TRUE, {}), Cluster(3, <<8, 0>>, TRUE, FALSE, {3})}
  \cup {Cluster(2, wanted, FALSE, FALSE, {}) :
          wanted \in {<<8>>, <<8, 0, 32>>, <<8, 0, 32, 1>>, <<8, 1>>}}
  \cup {Cluster(2, wanted, TRUE, TRUE, late) :
          wanted \in {<<>>, <<8>>}, late \in {{}, {2}, {1, 2}}}
=============================================================================
