--------------------------- MODULE ClusterCreation ---------------------------
(***************************************************************************)
(* What the Create of a database resource promises about the cluster that  *)
(* it sets up, whatever the database and its replication: there is one     *)
(* cluster, founded by the first instance and joined by the others; it is  *)
(* not lost while Create goes on; Create returns without an error only     *)
(* when every instance is in it; and when Create has returned, it leaves   *)
(* the instances alone.  The modules of the managers implement this.       *)
(***************************************************************************)
EXTENDS Naturals

VARIABLES
  size,       \* the number of instances, numbered as CreateInstances returned them
  status,     \* how far Create is
  cluster,    \* for each instance, the one whose cluster it is in; 0: none
  instances   \* everything else there is on the instances

creationVars == <<size, status, cluster, instances>>

CreationInit ==
  /\ size \in Nat \ {0}
  /\ status = "creating"
  /\ cluster = [i \in 1 .. size |-> 0]

\* The first instance founds the cluster.
Found == cluster = [i \in 1 .. size |-> 0] /\ cluster' = [cluster EXCEPT ![1] = 1]

\* An instance joins the cluster that another one is in.
Join(i) ==
  \E j \in 1 .. size \ {i} :
    /\ cluster[i] = 0 /\ cluster[j] # 0
    /\ cluster' = [cluster EXCEPT ![i] = cluster[j]]

\* An instance is stopped; the cluster lives on with the others.
Leave(i) ==
  /\ \E j \in 1 .. size \ {i} : cluster[j] # 0
  /\ cluster' = [cluster EXCEPT ![i] = 0]

\* One command of Create, which may be the last one.
CreationNext ==
  /\ status = "creating"
  /\ Found \/ (\E i \in 1 .. size : Join(i) \/ Leave(i)) \/ UNCHANGED cluster
  /\ status' \in {"creating", "failed"} \/
       (status' = "created" /\ \A i \in 1 .. size : cluster'[i] # 0)
  /\ UNCHANGED size

CreationSpec == CreationInit /\ [][CreationNext]_creationVars
=============================================================================
