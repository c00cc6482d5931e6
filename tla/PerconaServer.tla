--------------------------- MODULE PerconaServer ---------------------------
(***************************************************************************)
(* The cluster that the Create of a percona_ps resource sets up:           *)
(* internal/resource/ps/manager.go.  Two goroutines create and configure   *)
(* the MySQL instances and the orchestrators; each runs one goroutine per  *)
(* instance in an errgroup, which cancels the context of the others when   *)
(* one fails and waits for all of them.  The instances are numbered in the *)
(* order in which CreateInstances returned them.                           *)
(***************************************************************************)
EXTENDS Integers, FiniteSets

CONSTANTS
  Configs,      \* the arguments a percona_ps resource may have
  MaxFaults     \* bound on commands that fail although they could succeed

\* size: cluster_size; orc: orchestrator_size; replication: replication_type;
\* options: which optional parts the resource asks for.
ASSUME ConfigAssumption ==
  Configs \subseteq
    [size : Nat \ {0}, orc : Nat, replication : {"async", "group-replication"},
     options : SUBSET {"custom", "myrocks", "pmm"}]
ASSUME FaultAssumption == MaxFaults \in Nat

VARIABLES
  conf,     \* the arguments of the resource
  main,     \* where createCluster and setOutputValues stand
  setup,    \* where setupPerconaServer stands
  orc,      \* where setupOrchestrator stands
  cur,      \* the instance the sequential loop in progress has reached
  node,     \* where the goroutine of a MySQL instance stands
  host,     \* where the goroutine of an orchestrator stands
  err,      \* the variable err of setupGRInstances, shared by its goroutines
  server,   \* the MySQL servers
  serving,  \* the orchestrators that run
  faults    \* the commands that failed although they could have succeeded

vars == <<conf, main, setup, orc, cur, node, host, err, server, serving, faults>>

Size == conf.size
OrchSize == conf.orc
Replication == conf.replication
Options == conf.options

Node == 1 .. Size
Host == 1 .. OrchSize

Setting == {"port", "custom", "engine", "pmm", "replication"}
Part ==
  {"udf", "rocksdb", "pmmUser", "pmmService", "orcUser", "orcClient",
   "replicaUser", "source", "discovered"}

\* file: the settings in the configuration files; loaded: those of the running
\* server; has: what else was set up; boot: group_replication_bootstrap_group;
\* follows: the master of a running replica, or the server that bootstrapped
\* the group of a running member.
Server ==
  [up : BOOLEAN, file : SUBSET Setting, loaded : SUBSET Setting,
   has : SUBSET Part, boot : BOOLEAN, follows : 0 .. Size]

Ended == {"created", "failed", "crashed"}
MainStep == {"setup", "list", "orcRestart", "discover", "outputs"} \cup Ended
SetupStep ==
  {"instances", "nodes", "replicaUser", "asyncEdit", "asyncRestart",
   "asyncSource", "asyncStart", "groupNodes", "groupSource", "groupStart",
   "pmmService", "done", "failed"}
NodeStep ==
  {"idle", "init", "configure", "versions", "install", "port", "restart",
   "udf", "custom", "myrocks", "engine", "pmmClient", "pmmUser", "pmmCfg",
   "orcUser", "orcClient", "grEdit", "grRestart", "grCheck", "grWrap",
   "grUser", "grSource", "grBootOn", "grStart", "grBootOff", "done", "failed"}
HostStep == {"idle", "init", "install", "config", "creds", "start", "done", "failed"}

TypeOK ==
  /\ conf \in Configs
  /\ main \in MainStep
  /\ setup \in SetupStep
  /\ orc \in {"create", "hosts", "done", "failed"}
  /\ cur \in Node \cup Host
  /\ node \in [Node -> NodeStep]
  /\ host \in [Host -> HostStep]
  /\ err \in {"nil", "error"}
  /\ server \in [Node -> Server]
  /\ serving \subseteq Host

Blank ==
  [up |-> FALSE, file |-> {}, loaded |-> {}, has |-> {}, boot |-> FALSE, follows |-> 0]

Init ==
  /\ conf \in Configs
  /\ main = "setup"
  /\ setup = "instances"
  /\ orc = IF OrchSize = 0 THEN "done" ELSE "create"
  /\ cur = 1
  /\ node = [i \in Node |-> "idle"]
  /\ host = [o \in Host |-> "idle"]
  /\ err = "nil"
  /\ server = [i \in Node |-> Blank]
  /\ serving = {}
  /\ faults = {}

-----------------------------------------------------------------------------
(* Contexts and failing commands.                                          *)

\* An errgroup cancels its context when one of its goroutines fails.
ClusterCancelled == setup = "failed" \/ orc = "failed"
NodesCancelled == ClusterCancelled \/ \E i \in Node : node[i] = "failed"
HostsCancelled == ClusterCancelled \/ \E o \in Host : host[o] = "failed"

Fault(what) == Cardinality(faults) < MaxFaults /\ faults' = faults \cup {what}

\* A command that cannot succeed, or that fails although it could.
Refused(may, what) == IF may THEN Fault(what) ELSE UNCHANGED faults

\* A command that would turn server i into new: it may succeed, fail without
\* effect, or fail after its effect, when its answer is lost.  Under a cancelled
\* context it is not begun, unless it was begun before.
Try(i, what, may, cancelled, new, ok, bad) ==
  \/ /\ may
     /\ server' = [server EXCEPT ![i] = new]
     /\ (ok /\ UNCHANGED faults) \/ (bad /\ Refused(~cancelled, what))
  \/ bad /\ UNCHANGED server /\ Refused(may /\ ~cancelled, what)

\* A goroutine that has more to do under a cancelled context fails at once.
Then(next, cancelled) == IF cancelled /\ next # "done" THEN "failed" ELSE next

Edited(i, setting) == [server[i] EXCEPT !.file = @ \cup {setting}]
With(i, part) == [server[i] EXCEPT !.has = @ \cup {part}]
Restarted(i) == [server[i] EXCEPT !.up = TRUE, !.loaded = server[i].file]

\* The clients connect to the port of the configuration.
Sql(i) == server[i].up /\ "port" \in server[i].loaded

\* systemctl restart that fails may also leave the server down.
TryRestart(i, what, cancelled, ok, bad) ==
  \/ Try(i, what, TRUE, cancelled, Restarted(i), ok, bad)
  \/ server' = [server EXCEPT ![i].up = FALSE] /\ bad /\ Fault(what)

-----------------------------------------------------------------------------
(* setupPerconaServer: the goroutine of each instance.                     *)

Go(i, next) == node' = [node EXCEPT ![i] = next]
NodeOnly == UNCHANGED <<conf, main, setup, orc, cur, host, serving>>

Work(i, step, may, new, next) ==
  /\ node[i] = step
  /\ Try(i, <<step, i>>, may, NodesCancelled, new,
         Go(i, Then(next, NodesCancelled)), Go(i, "failed"))
  /\ NodeOnly /\ UNCHANGED err

\* Mutant: an instance gets either the PMM user or the orchestrator user.
FromOrchestratorOnly ==
  IF OrchSize > 0 /\ "pmm" \notin Options THEN "orcUser" ELSE "done"

FromOrchestrator == IF OrchSize > 0 THEN "orcUser" ELSE "done"
FromPmm == IF "pmm" \in Options THEN "pmmClient" ELSE FromOrchestrator
FromMyRocks == IF "myrocks" \in Options THEN "myrocks" ELSE FromPmm
FromCustom == IF "custom" \in Options THEN "custom" ELSE FromMyRocks

NodeInit(i) == Work(i, "init", TRUE, server[i], "configure")
Configure(i) == Work(i, "configure", TRUE, server[i], "versions")
\* The versions and m.version, which the goroutines share: see PxcCluster.
VersionList(i) == Work(i, "versions", TRUE, server[i], "install")
InstallPerconaServer(i) ==
  Work(i, "install", TRUE, [server[i] EXCEPT !.up = TRUE], "port")
SetPort(i) == Work(i, "port", TRUE, Edited(i, "port"), "restart")
Restart(i) ==
  /\ node[i] = "restart"
  /\ TryRestart(i, <<"restart", i>>, NodesCancelled,
                Go(i, Then("udf", NodesCancelled)), Go(i, "failed"))
  /\ NodeOnly /\ UNCHANGED err
InstallUDF(i) == Work(i, "udf", Sql(i), With(i, "udf"), FromCustom)
SendConfig(i) == Work(i, "custom", TRUE, Edited(i, "custom"), FromMyRocks)
InstallMyRocks(i) == Work(i, "myrocks", Sql(i), With(i, "rocksdb"), "engine")
SetEngine(i) == Work(i, "engine", TRUE, Edited(i, "engine"), FromPmm)
InstallPMMClient(i) == Work(i, "pmmClient", TRUE, server[i], "pmmUser")
CreatePMMUser(i) == Work(i, "pmmUser", Sql(i), With(i, "pmmUser"), "pmmCfg")
SetSlowLog(i) == Work(i, "pmmCfg", TRUE, Edited(i, "pmm"), FromOrchestrator)
CreateOrchestratorUser(i) == Work(i, "orcUser", Sql(i), With(i, "orcUser"), "orcClient")
InstallOrchestratorClient(i) == Work(i, "orcClient", TRUE, With(i, "orcClient"), "done")

-----------------------------------------------------------------------------
(* setupGRInstances: the goroutine of each instance.                       *)

EditGroupConfig(i) == Work(i, "grEdit", TRUE, Edited(i, "replication"), "grRestart")

\* The result of the command is assigned to the variable the goroutines share.
RestartGroup(i) ==
  /\ node[i] = "grRestart"
  /\ Go(i, "grCheck")
  /\ TryRestart(i, <<"grRestart", i>>, NodesCancelled, err' = "nil", err' = "error")
  /\ NodeOnly

CheckErr(i) ==
  /\ node[i] = "grCheck"
  /\ Go(i, IF err = "nil" THEN Then("grUser", NodesCancelled) ELSE "grWrap")
  /\ NodeOnly /\ UNCHANGED <<err, server, faults>>

\* errors.Wrap reads the variable again, and returns nil for nil.
WrapErr(i) ==
  /\ node[i] = "grWrap"
  /\ Go(i, IF err = "nil" THEN "done" ELSE "failed")
  /\ NodeOnly /\ UNCHANGED <<err, server, faults>>

\* The two words of the variable are read while another goroutine assigns nil:
\* a nil pointer with the type of an error, and a panic when it is formatted.
TornErr(i) ==
  /\ node[i] = "grWrap"
  /\ err = "error"
  /\ \E j \in Node \ {i} : node[j] = "grRestart"
  /\ main' = "crashed"
  /\ UNCHANGED <<conf, setup, orc, cur, node, host, err, server, serving, faults>>

\* Mutant: every instance bootstraps.
AfterReplicaUserAll(i) == "grSource"

\* Mutant: the instance that bootstraps gets no source for its recovery channel.
AfterReplicaUserBoot(i) == IF i = 1 THEN "grBootOn" ELSE "done"

AfterReplicaUser(i) == IF i = 1 THEN "grSource" ELSE "done"
CreateReplicaUser(i) ==
  Work(i, "grUser", Sql(i), With(i, "replicaUser"), AfterReplicaUser(i))
ChangeGroupSource(i) == Work(i, "grSource", Sql(i), With(i, "source"), "grBootOn")
BootstrapOn(i) ==
  Work(i, "grBootOn", Sql(i) /\ "replication" \in server[i].loaded,
       [server[i] EXCEPT !.boot = TRUE], "grStart")
BootstrapOff(i) ==
  Work(i, "grBootOff", Sql(i), [server[i] EXCEPT !.boot = FALSE], "done")

\* A server that bootstraps makes a group of its own, another one joins a group
\* that has members; without the plugin of its settings it does neither.
Joinable(i) ==
  IF ~Sql(i) \/ "replication" \notin server[i].loaded THEN {}
  ELSE IF server[i].boot THEN {i}
  ELSE {server[j].follows : j \in {k \in Node \ {i} : server[k].follows # 0}}
Groups(i) == IF Joinable(i) = {} THEN {0} ELSE Joinable(i)

StartGroup(i) ==
  \E g \in Groups(i) :
    Work(i, "grStart", g # 0, [server[i] EXCEPT !.follows = g], "grBootOff")

NodeNext(i) ==
  \/ NodeInit(i) \/ Configure(i) \/ VersionList(i) \/ InstallPerconaServer(i)
  \/ SetPort(i) \/ Restart(i) \/ InstallUDF(i) \/ SendConfig(i)
  \/ InstallMyRocks(i) \/ SetEngine(i)
  \/ InstallPMMClient(i) \/ CreatePMMUser(i) \/ SetSlowLog(i)
  \/ CreateOrchestratorUser(i) \/ InstallOrchestratorClient(i)
  \/ EditGroupConfig(i) \/ RestartGroup(i) \/ CheckErr(i) \/ WrapErr(i) \/ TornErr(i)
  \/ CreateReplicaUser(i) \/ ChangeGroupSource(i)
  \/ BootstrapOn(i) \/ StartGroup(i) \/ BootstrapOff(i)

-----------------------------------------------------------------------------
(* setupPerconaServer: the goroutine that waits for the others.            *)

SetupOnly == UNCHANGED <<conf, main, orc, host, err, serving>>
Fail == setup' = "failed" /\ UNCHANGED cur
Advance(next, c) == setup' = Then(next, ClusterCancelled) /\ cur' = c

\* One command of a sequential loop, on the instance the loop has reached.
Serial(step, may, new, ok) ==
  /\ setup = step
  /\ Try(cur, <<step, cur>>, may, ClusterCancelled, new, ok, Fail)
  /\ SetupOnly /\ UNCHANGED node

CreateServers ==
  /\ setup = "instances"
  /\ \/ /\ ~ClusterCancelled
        /\ setup' = "nodes"
        /\ node' = [i \in Node |-> "init"]
        /\ UNCHANGED faults
     \/ setup' = "failed" /\ UNCHANGED node /\ Refused(~ClusterCancelled, <<"instances", 0>>)
  /\ SetupOnly /\ UNCHANGED <<cur, server>>

\* errgroup.Wait returns when every goroutine of the group has ended.
AllEnded == \A i \in Node : node[i] \in {"done", "failed"}
OneFailed == \E i \in Node : node[i] = "failed"

AfterReplication == Advance(IF "pmm" \in Options THEN "pmmService" ELSE "done", 1)

JoinNodes ==
  /\ setup = "nodes"
  /\ AllEnded
  /\ \/ (OneFailed \/ ClusterCancelled) /\ Fail /\ UNCHANGED node
     \/ /\ ~OneFailed /\ ~ClusterCancelled
        /\ \/ Replication = "async" /\ Advance("replicaUser", 1) /\ UNCHANGED node
           \/ /\ Replication = "group-replication"
              /\ Advance("groupNodes", 1) /\ node' = [i \in Node |-> "grEdit"]
  /\ SetupOnly /\ UNCHANGED <<server, faults>>

\* setupAsyncInstances: the first instance is the master of all others.
CreateMasterReplicaUser ==
  Serial("replicaUser", Sql(cur), With(cur, "replicaUser"),
         Advance(IF Size > 1 THEN "asyncEdit" ELSE "asyncRestart", 1))
EditAsyncConfig ==
  Serial("asyncEdit", TRUE, Edited(cur, "replication"), Advance("asyncRestart", cur))
NextReplica == IF cur < Size THEN Advance("asyncEdit", cur + 1) ELSE AfterReplication
\* Mutant: only the replicas are restarted.
RestartReplicas ==
  /\ setup = "asyncRestart"
  /\ IF cur = 1 THEN NextReplica /\ UNCHANGED <<server, faults>>
     ELSE TryRestart(cur, <<"asyncRestart", cur>>, ClusterCancelled,
                     Advance("asyncSource", cur), Fail)
  /\ SetupOnly /\ UNCHANGED node

RestartAsync ==
  /\ setup = "asyncRestart"
  /\ TryRestart(cur, <<"asyncRestart", cur>>, ClusterCancelled,
                IF cur = 1 THEN NextReplica ELSE Advance("asyncSource", cur), Fail)
  /\ SetupOnly /\ UNCHANGED node
ChangeReplicationSource ==
  Serial("asyncSource", Sql(cur) /\ "replication" \in server[cur].loaded,
         With(cur, "source"), Advance("asyncStart", cur))
StartReplica ==
  Serial("asyncStart", Sql(cur) /\ "source" \in server[cur].has,
         [server[cur] EXCEPT !.follows = 1], NextReplica)

\* Mutant: a success of every member is awaited, which a failed one never reports.
JoinGroupNodesDone ==
  /\ setup = "groupNodes"
  /\ \A i \in Node : node[i] = "done"
  /\ IF Size > 1 THEN Advance("groupSource", 2) ELSE AfterReplication
  /\ SetupOnly /\ UNCHANGED <<node, server, faults>>

\* setupGRInstances: the others join when all goroutines have ended.
JoinGroupNodes ==
  /\ setup = "groupNodes"
  /\ AllEnded
  /\ IF OneFailed THEN Fail
     ELSE IF Size > 1 THEN Advance("groupSource", 2) ELSE AfterReplication
  /\ SetupOnly /\ UNCHANGED <<node, server, faults>>
ChangeMemberSource ==
  Serial("groupSource", Sql(cur), With(cur, "source"), Advance("groupStart", cur))
\* Mutant: the loop runs one instance too far.
StartMemberTooFar ==
  \E g \in Groups(cur) :
    Serial("groupStart", g # 0, [server[cur] EXCEPT !.follows = g],
           Advance("groupSource", cur + 1))

\* Mutant: a member that has joined sets group_replication_start_on_boot.
StartMemberOnBoot ==
  \E g \in Groups(cur) :
    Serial("groupStart", g # 0, [Edited(cur, "custom") EXCEPT !.follows = g],
           IF cur < Size THEN Advance("groupSource", cur + 1) ELSE AfterReplication)

StartMember ==
  \E g \in Groups(cur) :
    Serial("groupStart", g # 0, [server[cur] EXCEPT !.follows = g],
           IF cur < Size THEN Advance("groupSource", cur + 1) ELSE AfterReplication)

AddServiceToPMM ==
  Serial("pmmService", Sql(cur) /\ "pmmUser" \in server[cur].has, With(cur, "pmmService"),
         IF cur < Size THEN Advance("pmmService", cur + 1) ELSE Advance("done", 1))

SetupNext ==
  \/ CreateServers \/ JoinNodes
  \/ CreateMasterReplicaUser \/ EditAsyncConfig \/ RestartAsync
  \/ ChangeReplicationSource \/ StartReplica
  \/ JoinGroupNodes \/ ChangeMemberSource \/ StartMember \/ AddServiceToPMM

-----------------------------------------------------------------------------
(* setupOrchestrator.                                                      *)

OrcOnly == UNCHANGED <<conf, main, setup, cur, node, err, server>>

CreateOrchestrators ==
  /\ orc = "create"
  /\ \/ /\ ~ClusterCancelled
        /\ orc' = "hosts"
        /\ host' = [o \in Host |-> "init"]
        /\ UNCHANGED faults
     \/ orc' = "failed" /\ UNCHANGED host /\ Refused(~ClusterCancelled, <<"create", 0>>)
  /\ OrcOnly /\ UNCHANGED serving

HostWork(o, step, runs, next) ==
  /\ host[o] = step
  /\ \/ /\ serving' = runs
        /\ \/ /\ host' = [host EXCEPT ![o] = Then(next, HostsCancelled)]
              /\ UNCHANGED faults
           \/ host' = [host EXCEPT ![o] = "failed"] /\ Refused(~HostsCancelled, <<step, o>>)
     \/ /\ host' = [host EXCEPT ![o] = "failed"]
        /\ UNCHANGED serving
        /\ Refused(~HostsCancelled, <<step, o>>)
  /\ OrcOnly /\ UNCHANGED orc

HostInit(o) == HostWork(o, "init", serving, "install")
InstallOrchestrator(o) == HostWork(o, "install", serving, "config")
SendOrchestratorConfig(o) == HostWork(o, "config", serving, "creds")
SendCredentials(o) == HostWork(o, "creds", serving, "start")
StartOrchestrator(o) == HostWork(o, "start", serving \cup {o}, "done")

HostNext(o) ==
  \/ HostInit(o) \/ InstallOrchestrator(o) \/ SendOrchestratorConfig(o)
  \/ SendCredentials(o) \/ StartOrchestrator(o)

\* Mutant: the error of g.Wait() is logged.
JoinHostsAnyway ==
  /\ orc = "hosts"
  /\ \A o \in Host : host[o] \in {"done", "failed"}
  /\ orc' = "done"
  /\ OrcOnly /\ UNCHANGED <<host, serving, faults>>

JoinHosts ==
  /\ orc = "hosts"
  /\ \A o \in Host : host[o] \in {"done", "failed"}
  /\ orc' = IF \E o \in Host : host[o] = "failed" THEN "failed" ELSE "done"
  /\ OrcOnly /\ UNCHANGED <<host, serving, faults>>

OrcNext == CreateOrchestrators \/ JoinHosts

-----------------------------------------------------------------------------
(* createCluster, addPSInstancesToOrchestrator and setOutputValues.        *)

MainOnly == UNCHANGED <<conf, setup, orc, node, host, err>>

\* Mutant: the errors of the goroutines are returned without waiting for all.
JoinEager ==
  /\ main = "setup"
  /\ \/ ClusterCancelled /\ main' = "failed" /\ UNCHANGED cur
     \/ /\ setup = "done" /\ orc = "done"
        /\ main' = IF OrchSize > 0 THEN "list" ELSE "outputs"
        /\ cur' = 1
  /\ MainOnly /\ UNCHANGED <<server, serving, faults>>

JoinCluster ==
  /\ main = "setup"
  /\ setup \in {"done", "failed"} /\ orc \in {"done", "failed"}
  /\ \/ ClusterCancelled /\ main' = "failed" /\ UNCHANGED cur
     \/ /\ ~ClusterCancelled
        /\ main' = IF OrchSize > 0 THEN "list" ELSE "outputs"
        /\ cur' = 1
  /\ MainOnly /\ UNCHANGED <<server, serving, faults>>

ListClusterInstances ==
  /\ main = "list"
  /\ \/ main' = "orcRestart" /\ UNCHANGED faults
     \/ main' = "failed" /\ Fault(<<"list", 0>>)
  /\ MainOnly /\ UNCHANGED <<cur, server, serving>>

RestartOrchestrator ==
  /\ main = "orcRestart"
  /\ \/ /\ serving' = serving \cup {cur}
        /\ IF cur < OrchSize THEN UNCHANGED main /\ cur' = cur + 1
           ELSE main' = "discover" /\ cur' = 1
        /\ UNCHANGED faults
     \/ /\ \/ UNCHANGED serving \/ serving' = serving \ {cur}
        /\ main' = "failed" /\ UNCHANGED cur /\ Fault(<<"orcRestart", cur>>)
  /\ MainOnly /\ UNCHANGED server

\* The error of a discover is logged, and the loop goes on.
Discover ==
  LET next == IF cur < Size THEN UNCHANGED main /\ cur' = cur + 1
              ELSE main' = "outputs" /\ cur' = 1
  IN  /\ main = "discover"
      /\ Try(cur, <<"discover", cur>>, serving # {}, FALSE, With(cur, "discovered"), next, next)
      /\ MainOnly /\ UNCHANGED serving

\* The errors of the two lists are dropped: outputs are missing.
SetOutputValues ==
  /\ main = "outputs"
  /\ main' = "created"
  /\ UNCHANGED faults \/ Fault(<<"outputs", 0>>)
  /\ MainOnly /\ UNCHANGED <<cur, server, serving>>

MainNext ==
  \/ JoinCluster \/ ListClusterInstances \/ RestartOrchestrator
  \/ Discover \/ SetOutputValues

Next ==
  /\ main # "crashed"
  /\ \/ \E i \in Node : NodeNext(i)
     \/ \E o \in Host : HostNext(o)
     \/ SetupNext \/ OrcNext \/ MainNext

Spec == Init /\ [][Next]_vars

\* As long as a goroutine can run, one does, and a command that was begun ends.
\* No goroutine repeats a step, so fairness to each of them is not needed.
FairSpec == Spec /\ WF_vars(Next)

-----------------------------------------------------------------------------
(* What the code guarantees.                                               *)

Wanted(i) ==
  {"udf"}
  \cup (IF "myrocks" \in Options THEN {"rocksdb"} ELSE {})
  \cup (IF "pmm" \in Options THEN {"pmmUser", "pmmService"} ELSE {})
  \cup (IF OrchSize > 0 THEN {"orcUser", "orcClient"} ELSE {})
  \cup (IF Replication = "group-replication" \/ i = 1 THEN {"replicaUser"} ELSE {})
  \cup (IF Replication = "group-replication" \/ i > 1 THEN {"source"} ELSE {})

\* A restart failed, and its error may have been overwritten in err.
ErrorErased == \E i \in Node : <<"grRestart", i>> \in faults

\* When Create succeeds, every server runs, and with all the settings that any
\* step has written into its files: each edit has a restart after it, also when
\* errors of restarts got lost.  (manager.go:207-240, 412-426, 451-457)
SettingsInForce ==
  main \in {"outputs", "created"} =>
    \A i \in Node :
      /\ server[i].up /\ server[i].file = server[i].loaded
      /\ Options \ {"myrocks"} \subseteq server[i].loaded
      /\ "myrocks" \in Options => "engine" \in server[i].loaded
      /\ Size > 1 => "replication" \in server[i].loaded

\* When Create succeeds, every server has the users, plugins and services that
\* were asked for.  A restart error that another goroutine overwrites costs at
\* most the replica user of a server, never of the one that bootstraps the group.
\* (manager.go:198-288, 391-398, 450-486)
NothingMissing ==
  main \in {"outputs", "created"} =>
    \A i \in Node :
      Wanted(i) \ server[i].has \subseteq
        IF ErrorErased /\ i > 1 THEN {"replicaUser"} ELSE {}

\* When Create succeeds, the only commands that failed on the way are those
\* whose errors are logged or dropped, and restarts whose errors were erased.
\* (manager.go:122, 455; resource.go:157, 177)
OnlyErasedErrorsHide ==
  main = "created" =>
    \A f \in faults : f[1] \in {"discover", "outputs"}
                      \/ (Replication = "group-replication" /\ f[1] = "grRestart")

\* A replica follows a master that runs with its own replication settings and
\* has the user the replica logs in with.  (setupAsyncInstances)
ReplicasFollowMaster ==
  Replication = "async" =>
    \A i \in Node : server[i].follows # 0 =>
      /\ server[i].follows = 1 /\ i # 1
      /\ Sql(1) /\ "replication" \in server[1].loaded /\ "replicaUser" \in server[1].has
      /\ "replication" \in server[i].loaded

\* There is never more than one group, and when Create succeeds every server
\* is a member of it and none would bootstrap another one.  (setupGRInstances)
OneGroup ==
  Replication = "group-replication" =>
    /\ \A i, j \in Node :
         server[i].follows # 0 /\ server[j].follows # 0 => server[i].follows = server[j].follows
    /\ main = "created" =>
         \A i \in Node : server[i].follows = 1 /\ ~server[i].boot

\* An instance is only shown to the orchestrators when all of them run, and the
\* replication of the whole cluster has been started.  (createCluster)
DiscoverLast ==
  main = "discover" =>
    /\ serving = Host
    /\ \A i \in Node :
         /\ {"orcUser", "orcClient"} \subseteq server[i].has
         /\ Size > 1 => server[i].follows = 1 \/ (Replication = "async" /\ i = 1)

\* Once Create has returned, with or without an error, none of its goroutines
\* touches a server any more, so a Delete may follow.  (errgroup Wait)
QuietAfterReturn == [][(main \in Ended) => UNCHANGED <<server, serving>>]_vars

\* Create returns, whatever fails and whichever goroutine fails first.
CreateReturns == <>(main \in Ended)

-----------------------------------------------------------------------------
(* The cluster, as the resource promises it.                               *)

\* The master founds the cluster when it has the user the replicas log in with.
Membership ==
  [i \in Node |->
     IF Replication = "async" /\ i = 1
     THEN IF "replicaUser" \in server[1].has THEN 1 ELSE 0
     ELSE server[i].follows]

Status ==
  IF main \in {"created", "failed"} THEN main
  ELSE IF main = "crashed" THEN "failed" ELSE "creating"

Creation == INSTANCE ClusterCreation WITH
  size <- Size, status <- Status, cluster <- Membership, instances <- <<server, serving>>

\* Every Create of a percona_ps resource sets up one cluster, with either kind of
\* replication, and leaves it alone when it has returned.  (createCluster)
ImplementsCreation == Creation!CreationSpec
=============================================================================
