----------------------------- MODULE PxcCluster -----------------------------
(***************************************************************************)
(* The Galera cluster that the Create of a percona_pxc resource sets up:   *)
(* internal/resource/pxc/manager.go.  One goroutine per instance configures*)
(* it and installs the software, sharing the variables err of Create and   *)
(* m.version of the manager; then Create starts one instance after the     *)
(* other, the first one as the bootstrap of the cluster.                   *)
(***************************************************************************)
EXTENDS Integers, FiniteSets, Sequences

CONSTANTS
  Configs,    \* the arguments a percona_pxc resource may have
  Available,  \* the versions in the package repository, newest first
  Newest,     \* a version that is published while the nodes are configured
  MaxFaults   \* bound on commands that fail although they could succeed

\* A full version is major, minor, patch and revision; an argument "version"
\* gives the first one, two, three or four of them, or nothing.
FullVersion == [1 .. 4 -> Nat]
None == <<>>

\* size: cluster_size; wanted: version; pmm: pmm_address is set; custom:
\* config_file_path is set; late: the nodes that see the newest version.
ASSUME ConfigAssumption ==
  Configs \subseteq
    [size : Nat \ {0}, wanted : Seq(Nat), pmm : BOOLEAN, custom : BOOLEAN,
     late : SUBSET Nat]
ASSUME VersionAssumption ==
  /\ Available \in Seq(FullVersion) /\ Available # <<>>
  /\ Newest \in FullVersion
ASSUME FaultAssumption == MaxFaults \in Nat

VARIABLES
  conf,     \* the arguments of the resource
  main,     \* where Create stands
  cur,      \* the node the loop that starts nodes has reached
  node,     \* where the goroutine of a node stands
  err,      \* the variable err of Create, shared by the goroutines
  version,  \* m.version, shared by the goroutines
  picked,   \* the version a goroutine is about to store in m.version
  server,   \* the nodes
  faults    \* the commands that failed although they could have succeeded

vars == <<conf, main, cur, node, err, version, picked, server, faults>>

Node == 1 .. conf.size

Setting == {"cluster", "custom", "pmm"}
User == {"root", "pmmUser"}
Part == User \cup {"pmmClient", "pmmService"}

\* repo: the package repository is set up; version: what is installed; unit:
\* the systemd unit that runs; member: the node that founded the cluster this
\* one is in; file, loaded: settings in the files, and in force; has: the users
\* the server knows, and what else was set up.
Server ==
  [repo : BOOLEAN, version : FullVersion \cup {None},
   unit : {"none", "mysql", "bootstrap"}, member : Nat,
   file : SUBSET Setting, loaded : SUBSET Setting, has : SUBSET Part]

Ended == {"created", "failed", "crashed"}
MainStep ==
  {"instances", "nodes", "start", "pmmUser", "pmmClient", "pmmEdit",
   "pmmService", "stopFirst", "startFirst"} \cup Ended
NodeStep ==
  {"idle", "configure", "check", "wrap", "versions", "pick", "store", "install",
   "startAlone", "fixRoot", "stopAlone", "edit", "custom", "done", "failed"}

TypeOK ==
  /\ conf \in Configs
  /\ main \in MainStep
  /\ cur \in Node
  /\ node \in [Node -> NodeStep]
  /\ err \in {"nil", "error"}
  /\ version \in Seq(Nat)
  /\ picked \in [Node -> Seq(Nat)]
  /\ server \in [Node -> Server]

Blank ==
  [repo |-> FALSE, version |-> None, unit |-> "none", member |-> 0,
   file |-> {}, loaded |-> {}, has |-> {}]

Init ==
  /\ conf \in Configs
  /\ main = "instances"
  /\ cur = 1
  /\ node = [i \in Node |-> "idle"]
  /\ err = "nil"
  /\ version = conf.wanted
  /\ picked = [i \in Node |-> None]
  /\ server = [i \in Node |-> Blank]
  /\ faults = {}

-----------------------------------------------------------------------------
(* Versions.                                                               *)

\* The output of apt-cache ends in a newline, so its last line is empty.  Lines it
\* may have written to stderr are left out.
Lines(i) ==
  Append(IF ~server[i].repo THEN <<>>
         ELSE IF i \in conf.late THEN <<Newest>> \o Available ELSE Available,
         None)

\* Mutant: a version with a patch level is compared up to its minor version.
MatchesMinor(v, wanted) ==
  v # None /\ v[1] = wanted[1] /\ (Len(wanted) > 1 => v[2] = wanted[2])

\* A major version, a major and minor one, a full one, or one without revision.
Matches(v, wanted) ==
  /\ v # None
  /\ \/ Len(wanted) = 1 /\ v[1] = wanted[1]
     \/ Len(wanted) = 2 /\ v[1] = wanted[1] /\ v[2] = wanted[2]
     \/ v = wanted \/ SubSeq(v, 1, 3) = wanted

\* The first line that matches.
SelectVersion(lines, wanted) ==
  IF \E i \in DOMAIN lines : Matches(lines[i], wanted)
  THEN lines[CHOOSE i \in DOMAIN lines :
               /\ Matches(lines[i], wanted)
               /\ \A j \in 1 .. i - 1 : ~Matches(lines[j], wanted)]
  ELSE None

-----------------------------------------------------------------------------
(* Commands on the nodes.                                                  *)

NodesCancelled == \E i \in Node : node[i] = "failed"

Fault(what) == Cardinality(faults) < MaxFaults /\ faults' = faults \cup {what}
Refused(may, what) == IF may THEN Fault(what) ELSE UNCHANGED faults

\* A command that would turn the servers into new: it may succeed, fail without
\* effect, or fail after its effect, when its answer is lost.  Under a cancelled
\* context it is not begun, unless it was begun before.
Try(what, may, cancelled, new, ok, bad) ==
  \/ /\ may
     /\ server' = new
     /\ (ok /\ UNCHANGED faults) \/ (bad /\ Refused(~cancelled, what))
  \/ bad /\ UNCHANGED server /\ Refused(may /\ ~cancelled, what)

Then(next, cancelled) == IF cancelled /\ next # "done" THEN "failed" ELSE next

Edited(i, setting) == [server EXCEPT ![i].file = @ \cup {setting}]
Stopped(i) ==
  [server EXCEPT ![i] = [@ EXCEPT !.unit = "none", !.member = 0, !.loaded = {}]]

\* What is written to one server of a cluster reaches the others.
Replicas(i) ==
  {i} \cup {j \in Node : server[j].member # 0 /\ server[j].member = server[i].member}
With(i, part) ==
  [j \in Node |-> IF j = i \/ (part \in User /\ j \in Replicas(i))
                  THEN [server[j] EXCEPT !.has = @ \cup {part}] ELSE server[j]]

\* A server with the settings of the cluster joins the cluster of one of the
\* others, or founds one when it is started as bootstrap; one without them is
\* alone, as the package has it.
Clusters(i, unit) ==
  IF "cluster" \notin server[i].file THEN {0}
  ELSE IF unit = "bootstrap" THEN {i}
  ELSE {server[j].member : j \in Node \ {i}} \ {0}

\* A server that joins takes over the users of those that are there.
Inherited(i, cluster) ==
  LET donors == {j \in Node \ {i} : server[j].member = cluster} IN
  IF cluster = 0 \/ donors = {} THEN server[i].has
  ELSE (server[i].has \ User) \cup (User \cap UNION {server[j].has : j \in donors})

Started(i, unit, cluster) ==
  [server EXCEPT ![i] = [@ EXCEPT !.unit = unit, !.member = cluster,
                                  !.loaded = server[i].file, !.has = Inherited(i, cluster)]]

\* systemd starts what is installed; a node that finds no cluster gives up.
TryStart(i, what, unit, cancelled, ok, bad) ==
  \/ \E c \in Clusters(i, unit) :
       Try(what, server[i].version # None, cancelled, Started(i, unit, c), ok, bad)
  \/ Clusters(i, unit) = {} /\ bad /\ UNCHANGED <<server, faults>>

-----------------------------------------------------------------------------
(* The goroutine of a node.                                                *)

Go(i, next) == node' = [node EXCEPT ![i] = next]
NodeOnly == UNCHANGED <<conf, main, cur>>
Shared == <<err, version, picked>>

Work(i, step, may, new, next) ==
  /\ node[i] = step
  /\ Try(<<step, i>>, may, NodesCancelled, new,
         Go(i, Then(next, NodesCancelled)), Go(i, "failed"))
  /\ NodeOnly /\ UNCHANGED Shared

\* The status of the script is that of its last line: it may report success
\* although the repository could not be set up.  Its error is assigned to the
\* variable the goroutines share.
Configure(i) ==
  /\ node[i] = "configure"
  /\ Go(i, "check")
  /\ \/ Try(<<"configure", i>>, TRUE, NodesCancelled,
            [server EXCEPT ![i].repo = TRUE], err' = "nil", err' = "error")
     \/ err' = "nil" /\ UNCHANGED server /\ Fault(<<"setup", i>>)
  /\ NodeOnly /\ UNCHANGED <<version, picked>>

CheckErr(i) ==
  /\ node[i] = "check"
  /\ Go(i, IF err = "nil" THEN Then("versions", NodesCancelled) ELSE "wrap")
  /\ NodeOnly /\ UNCHANGED <<err, version, picked, server, faults>>

\* errors.Wrap reads the variable again, and returns nil for nil.
WrapErr(i) ==
  /\ node[i] = "wrap"
  /\ Go(i, IF err = "nil" THEN "done" ELSE "failed")
  /\ NodeOnly /\ UNCHANGED <<err, version, picked, server, faults>>

\* The two words of err are read while another goroutine assigns nil.
TornErr(i) ==
  /\ node[i] = "wrap"
  /\ err = "error"
  /\ \E j \in Node \ {i} : node[j] = "configure"
  /\ main' = "crashed"
  /\ UNCHANGED <<conf, cur, node, err, version, picked, server, faults>>

VersionList(i) == Work(i, "versions", TRUE, server, "pick")

Pick(i) ==
  LET found == IF version = None THEN Lines(i)[1] ELSE SelectVersion(Lines(i), version)
  IN  /\ node[i] = "pick"
      /\ picked' = [picked EXCEPT ![i] = found]
      /\ Go(i, IF version # None /\ found = None THEN "failed" ELSE "store")
      /\ NodeOnly /\ UNCHANGED <<err, version, server, faults>>

Store(i) ==
  /\ node[i] = "store"
  /\ version' = picked[i]
  /\ Go(i, Then("install", NodesCancelled))
  /\ NodeOnly /\ UNCHANGED <<err, picked, server, faults>>

\* The two words of a string are read while another goroutine assigns one of
\* another length: no version of that name is found, or, with the nil pointer of
\* the empty string, the process ends.
TornVersion(i) ==
  /\ node[i] \in {"pick", "install"}
  /\ \E j \in Node \ {i} :
       /\ node[j] = "store" /\ picked[j] # version
       /\ \/ Go(i, "failed") /\ UNCHANGED main
          \/ /\ version = None \/ picked[j] = None
             /\ main' = "crashed" /\ UNCHANGED node
  /\ UNCHANGED <<conf, cur, err, version, picked, server, faults>>

\* m.version is read once more: it may be what another goroutine has stored.  That
\* the script can hide a failed apt-get shows at the start of the node at the latest.
InstallPXC(i) ==
  Work(i, "install", \E k \in DOMAIN Lines(i) : Lines(i)[k] = version /\ version # None,
       [server EXCEPT ![i].version = version], "startAlone")

StartAlone(i) ==
  /\ node[i] = "startAlone"
  /\ TryStart(i, <<"startAlone", i>>, "mysql", NodesCancelled,
              Go(i, Then("fixRoot", NodesCancelled)), Go(i, "failed"))
  /\ NodeOnly /\ UNCHANGED Shared

\* Mutant: the server is stopped before its root user is renamed.
FixRootUserLate(i) ==
  Work(i, "fixRoot", TRUE, IF server[i].unit = "none" THEN With(i, "root") ELSE server, "stopAlone")

FixRootUser(i) == Work(i, "fixRoot", server[i].unit # "none", With(i, "root"), "stopAlone")
StopAlone(i) == Work(i, "stopAlone", TRUE, Stopped(i), "edit")
EditConfig(i) ==
  Work(i, "edit", TRUE, Edited(i, "cluster"), IF conf.custom THEN "custom" ELSE "done")
SendConfig(i) == Work(i, "custom", TRUE, Edited(i, "custom"), "done")

NodeNext(i) ==
  \/ Configure(i) \/ CheckErr(i) \/ WrapErr(i) \/ TornErr(i)
  \/ VersionList(i) \/ Pick(i) \/ Store(i) \/ TornVersion(i) \/ InstallPXC(i)
  \/ StartAlone(i) \/ FixRootUser(i) \/ StopAlone(i) \/ EditConfig(i) \/ SendConfig(i)

-----------------------------------------------------------------------------
(* Create: everything but the goroutines.                                  *)

MainOnly == UNCHANGED <<conf, err, version, picked>>
Fail == main' = "failed" /\ UNCHANGED cur
Advance(next, c) == main' = next /\ cur' = c

CreateInstances ==
  /\ main = "instances"
  /\ \/ /\ Advance("nodes", 1)
        /\ node' = [i \in Node |-> "configure"]
        /\ UNCHANGED faults
     \/ Fail /\ UNCHANGED node /\ Fault(<<"instances", 0>>)
  /\ MainOnly /\ UNCHANGED server

\* Mutant: the error of g.Wait() is dropped.
JoinNodesAnyway ==
  /\ main = "nodes"
  /\ \A i \in Node : node[i] \in {"done", "failed"}
  /\ Advance("start", 1)
  /\ MainOnly /\ UNCHANGED <<node, server, faults>>

\* g.Wait() returns when every goroutine has ended.
JoinNodes ==
  /\ main = "nodes"
  /\ \A i \in Node : node[i] \in {"done", "failed"}
  /\ IF NodesCancelled THEN Fail ELSE Advance("start", 1)
  /\ MainOnly /\ UNCHANGED <<node, server, faults>>

\* One command of the loop, or after it, on node i.
Serial(step, i, may, new, ok) ==
  /\ main = step
  /\ Try(<<step, i>>, may, FALSE, new, ok, Fail)
  /\ MainOnly /\ UNCHANGED node

\* Mutant: the first node is not restarted as a member.
NextNodeKeeps == IF cur < conf.size THEN Advance("start", cur + 1) ELSE Advance("created", 1)

\* Mutant: the first node is restarted in a cluster of one, too.
NextNodeAlways ==
  IF cur < conf.size THEN Advance("start", cur + 1) ELSE Advance("stopFirst", 1)

\* Mutant: the loop runs one node too far.
NextNodeTooFar ==
  IF cur <= conf.size THEN Advance("start", cur + 1) ELSE Advance("created", 1)

NextNode ==
  IF cur < conf.size THEN Advance("start", cur + 1)
  ELSE IF conf.size > 1 THEN Advance("stopFirst", 1) ELSE Advance("created", 1)

\* Mutant: every node is started as bootstrap.
UnitOfAll(i) == "bootstrap"

\* cmd.Start(i == 0)
UnitOf(i) == IF i = 1 THEN "bootstrap" ELSE "mysql"

StartNode ==
  /\ main = "start"
  /\ TryStart(cur, <<"start", cur>>, UnitOf(cur), FALSE,
              IF conf.pmm THEN Advance("pmmUser", cur) ELSE NextNode, Fail)
  /\ MainOnly /\ UNCHANGED node

\* root may log in from outside once it was renamed.
Sql(i) == server[i].unit # "none" /\ "cluster" \in server[i].loaded /\ "root" \in server[i].has

CreatePMMUser ==
  Serial("pmmUser", cur, Sql(cur), With(cur, "pmmUser"), Advance("pmmClient", cur))
InstallPMMClient ==
  Serial("pmmClient", cur, TRUE, With(cur, "pmmClient"), Advance("pmmEdit", cur))
SetSlowLog ==
  Serial("pmmEdit", cur, TRUE, Edited(cur, "pmm"), Advance("pmmService", cur))
AddServiceToPMM ==
  Serial("pmmService", cur, Sql(cur) /\ {"pmmUser", "pmmClient"} \subseteq server[cur].has,
         With(cur, "pmmService"), NextNode)

\* The first node leaves the cluster, which lives on with the others, ...
StopFirst == Serial("stopFirst", 1, TRUE, Stopped(1), Advance("startFirst", 1))

\* ... and joins it again as a node like the others.
StartFirst ==
  /\ main = "startFirst"
  /\ TryStart(1, <<"startFirst", 1>>, "mysql", FALSE, Advance("created", 1), Fail)
  /\ MainOnly /\ UNCHANGED node

MainNext ==
  \/ CreateInstances \/ JoinNodes \/ StartNode
  \/ CreatePMMUser \/ InstallPMMClient \/ SetSlowLog \/ AddServiceToPMM
  \/ StopFirst \/ StartFirst

Next ==
  /\ main # "crashed"
  /\ (\E i \in Node : NodeNext(i)) \/ MainNext

Spec == Init /\ [][Next]_vars

-----------------------------------------------------------------------------
(* What the code guarantees.                                               *)

\* There is never more than one cluster: who runs with the settings of the
\* cluster is in the one that the first node founded.  When Create succeeds
\* every node is, as a member like the others if it has others: none would found
\* a cluster anew when it is restarted.  (manager.go:95-154)
OneCluster ==
  /\ \A i \in Node :
       server[i].unit # "none" /\ "cluster" \in server[i].loaded => server[i].member = 1
  /\ main = "created" =>
       \A i \in Node :
         /\ server[i].member = 1
         /\ server[i].unit = IF conf.size = 1 THEN "bootstrap" ELSE "mysql"

\* From the first node's start as bootstrap on, the cluster always has a member
\* that runs, also while the first node is restarted: its data outlive Create,
\* unless Create fails.  (manager.go:147-154)
ClusterSurvives ==
  [][(\E i \in Node : server[i].member # 0) => \E i \in Node : server'[i].member # 0]_vars

\* Every version that is installed is one that was asked for, whichever goroutine
\* has put the full version into m.version.  When all nodes see the same list of
\* versions they install the same one.  (manager.go:158-172, utils.go:42-77)
VersionsAgree ==
  \A i \in Node : server[i].version # None =>
    /\ \A k \in DOMAIN conf.wanted : server[i].version[k] = conf.wanted[k]
    /\ conf.late \cap Node \in {{}, Node} =>
         \A j \in Node :
           server[j].version # None => server[j].version = server[i].version

\* When Create succeeds the settings of the cluster and those of the user are in
\* force on every node, and those for PMM only on a first node that was restarted:
\* for the others no restart follows the edit.  (manager.go:95-154)
SettingsInForce ==
  main = "created" =>
    \A i \in Node :
      /\ "cluster" \in server[i].loaded
      /\ conf.custom => "custom" \in server[i].loaded
      /\ server[i].file \ server[i].loaded =
           IF conf.pmm /\ (i > 1 \/ conf.size = 1) THEN {"pmm"} ELSE {}

\* When Create succeeds, every node has what was asked for: no error that
\* another goroutine has overwritten hides a node that was not set up, because
\* such a node could not be started.  (manager.go:68-145)
NothingMissing ==
  main = "created" =>
    \A i \in Node :
      {"root"} \cup (IF conf.pmm THEN Part ELSE {}) \subseteq server[i].has

\* When Create succeeds, the only commands that failed on the way are scripts of
\* cmd.Configure that had done their work, and whose error another goroutine
\* overwrote.  A script that did not report its failure is found out when the
\* node has no versions to offer.  (manager.go:71-74, 158-175)
OnlyErasedErrorsHide ==
  main = "created" => \A f \in faults : f[1] = "configure" /\ server[f[2]].repo

-----------------------------------------------------------------------------
(* The cluster, as the resource promises it.                               *)

Membership == [i \in Node |-> server[i].member]

Status ==
  IF main \in {"created", "failed"} THEN main
  ELSE IF main = "crashed" THEN "failed" ELSE "creating"

Creation == INSTANCE ClusterCreation WITH
  size <- conf.size, status <- Status, cluster <- Membership, instances <- server

\* Every Create of a percona_pxc resource sets up one cluster, which survives the
\* restart of its founder, and leaves it alone when it has returned.
\* (manager.Create, manager.go:54-156)
ImplementsCreation == Creation!CreationSpec
=============================================================================
