------------------------- MODULE PerconaServerProofs -------------------------
(* Proofs about PerconaServer, for clusters of every size and all options.  *)
EXTENDS PerconaServer, TLAPS

-----------------------------------------------------------------------------
(* The inductive invariant.                                                *)

Async == Replication = "async"
Group == Replication = "group-replication"

\* The steps of a goroutine that is at work, in each of the two error groups.
SetupNode ==
  {"init", "configure", "versions", "install", "port", "restart", "udf", "custom",
   "myrocks", "engine", "pmmClient", "pmmUser", "pmmCfg", "orcUser", "orcClient"}
GroupNode ==
  {"grEdit", "grRestart", "grCheck", "grWrap", "grUser", "grSource", "grBootOn",
   "grStart", "grBootOff"}

\* The steps of setupPerconaServer when no goroutine of an instance is at work.
AsyncStep == {"replicaUser", "asyncEdit", "asyncRestart", "asyncSource", "asyncStart"}
MemberStep == {"groupSource", "groupStart"}
Joined == AsyncStep \cup MemberStep \cup {"pmmService", "done"}

\* createCluster is past the two goroutines.
Past == {"list", "orcRestart", "discover", "outputs", "created"}

Where ==
  /\ main \in Past => setup = "done" /\ orc = "done"
  /\ main = "failed" => setup \in {"done", "failed"} /\ orc \in {"done", "failed"}
  /\ main \in {"setup", "discover"} \/ setup \notin {"done", "failed"} => cur \in Node
  /\ main \in {"list", "orcRestart"} => cur \in Host
  /\ main \in {"list", "orcRestart", "discover"} => OrchSize > 0
TypeInv == TypeOK /\ Where

\* The goroutines run only while the one that started them waits.
Places ==
  /\ \A i \in Node :
       /\ setup = "instances" => node[i] = "idle"
       /\ setup = "nodes" => node[i] \in SetupNode \cup {"done", "failed"}
       /\ setup = "groupNodes" => node[i] \in GroupNode \cup {"done", "failed"}
       /\ setup \in Joined => node[i] = "done"
       /\ setup = "failed" => node[i] \in {"idle", "done", "failed"}
  /\ \A o \in Host :
       /\ orc = "create" => host[o] = "idle"
       /\ orc = "hosts" => host[o] # "idle"
       /\ orc = "done" => host[o] = "done"
       /\ orc = "failed" => host[o] \in {"idle", "done", "failed"}
       /\ host[o] = "done" /\ main # "failed" => o \in serving
  /\ setup \in AsyncStep => Async
  /\ setup \in MemberStep \cup {"groupNodes"} => Group

\* Create will fail, or has.
Troubled ==
  \/ main = "failed" \/ setup = "failed" \/ orc = "failed"
  \/ \E i \in Node : node[i] = "failed"
  \/ \E o \in Host : host[o] = "failed"

Excused == ErrorErased \/ Troubled

Errors ==
  /\ \A f \in faults :
       f[1] \in {"discover", "outputs"} \/ (Group /\ f[1] = "grRestart") \/ Troubled
  /\ err = "error" => Excused
  /\ \A i \in Node : node[i] = "grWrap" => Excused /\ (err = "nil" => Size > 1)

\* What is true of a server at any time, also after a failure.
Sound(s) ==
  /\ s.loaded \subseteq s.file
  /\ "replication" \in s.loaded => s.loaded = s.file
Safe(i) ==
  /\ Sound(server[i])
  /\ server[i].boot => i = 1 /\ Group
  /\ server[i].follows \in {0, 1}
  /\ server[i].follows # 0 =>
       /\ Sql(i) /\ "replication" \in server[i].loaded
       /\ Async => /\ i # 1 /\ Sql(1)
                   /\ "replication" \in server[1].loaded /\ "replicaUser" \in server[1].has
       /\ Group /\ i = 1 => {"replicaUser", "source"} \subseteq server[1].has

\* Nothing of the replication was set up.
Untouched(s) == "replication" \notin s.file /\ s.follows = 0 /\ ~s.boot

\* What the goroutine of an instance has done when it has reached a step.
FromPmmStep == {"pmmClient", "pmmUser", "pmmCfg", "orcUser", "orcClient", "done"}
Prepared(s, step) ==
  /\ step \in {"custom", "myrocks", "engine"} \cup FromPmmStep => "udf" \in s.has
  /\ step \in {"myrocks", "engine"} \cup FromPmmStep /\ "custom" \in Options =>
       "custom" \in s.file
  /\ step \in {"engine"} \cup FromPmmStep /\ "myrocks" \in Options => "rocksdb" \in s.has
  /\ step \in FromPmmStep /\ "myrocks" \in Options => "engine" \in s.file
  /\ step \in {"pmmCfg", "orcUser", "orcClient", "done"} /\ "pmm" \in Options =>
       "pmmUser" \in s.has
  /\ step \in {"orcUser", "orcClient", "done"} /\ "pmm" \in Options => "pmm" \in s.file
  /\ step \in {"orcClient", "done"} /\ OrchSize > 0 => "orcUser" \in s.has
  /\ step = "done" /\ OrchSize > 0 => "orcClient" \in s.has

\* What the goroutine of a member of a group has done.
Member(i, s, step) ==
  /\ i > 1 => s.follows = 0
  /\ step = "grEdit" => "replication" \notin s.file
  /\ step \in GroupNode \ {"grBootOff"} => s.follows = 0
  /\ step \notin {"grStart", "grBootOff", "failed"} => ~s.boot
  /\ step \in {"grSource", "grBootOn", "grStart", "grBootOff"} =>
       i = 1 /\ "replicaUser" \in s.has
  /\ step \in {"grBootOn", "grStart", "grBootOff"} => "source" \in s.has
  /\ step = "grBootOff" => s.follows = 1
  /\ step = "done" =>
       /\ "replicaUser" \in s.has \/ Excused
       /\ Size = 1 => s.follows = 1

\* The replication of a server is set up.
Complete(i) ==
  /\ server[i].up /\ server[i].loaded = server[i].file /\ ~server[i].boot
  /\ Size > 1 => "replication" \in server[i].loaded
  /\ server[i].follows = IF Async /\ i = 1 THEN 0 ELSE 1
  /\ Group \/ i > 1 => "source" \in server[i].has
  /\ Group \/ i = 1 => "replicaUser" \in server[i].has \/ (i > 1 /\ Excused)

AsyncLoop ==
  setup \in AsyncStep =>
    /\ \A i \in Node : (i < cur => Complete(i)) /\ (i > cur => Untouched(server[i]))
    /\ server[cur].follows = 0
    /\ setup = "replicaUser" => cur = 1
    /\ setup \in {"replicaUser", "asyncEdit"} => "replication" \notin server[cur].file
    /\ setup # "replicaUser" => "replicaUser" \in server[1].has /\ "port" \in server[1].loaded
    /\ setup = "asyncEdit" => Size > 1
    /\ setup = "asyncRestart" /\ Size > 1 => "replication" \in server[cur].file
    /\ setup \in {"asyncSource", "asyncStart"} =>
         /\ cur > 1 /\ server[cur].up /\ server[cur].loaded = server[cur].file
         /\ "replication" \in server[cur].file
    /\ setup = "asyncStart" => "source" \in server[cur].has

GroupLoop ==
  setup \in MemberStep =>
    /\ cur > 1
    /\ \A i \in Node :
         /\ ~server[i].boot
         /\ "replicaUser" \in server[i].has \/ Excused
         /\ i >= cur => server[i].follows = 0
         /\ i > 1 /\ i < cur => server[i].follows = 1 /\ "source" \in server[i].has
    /\ cur > 2 => server[1].follows = 1
    /\ setup = "groupStart" => "source" \in server[cur].has

Servers ==
  /\ \A i \in Node : Safe(i)
  /\ setup \in {"instances", "nodes"} => \A i \in Node : Untouched(server[i])
  /\ setup = "nodes" => \A i \in Node : Prepared(server[i], node[i])
  /\ setup \in Joined \cup {"groupNodes"} => \A i \in Node : Prepared(server[i], "done")
  /\ setup = "groupNodes" => \A i \in Node : Member(i, server[i], node[i])
  /\ setup \in {"pmmService", "done"} => \A i \in Node : Complete(i)
  /\ setup = "pmmService" =>
       \A i \in Node : i < cur => "pmmService" \in server[i].has
  /\ setup = "done" /\ "pmm" \in Options =>
       \A i \in Node : "pmmService" \in server[i].has

Cluster == Places /\ Errors /\ Servers /\ AsyncLoop /\ GroupLoop
ClusterInv == TypeInv /\ Cluster

-----------------------------------------------------------------------------
(* Types.                                                                  *)

LEMMA SizeIsNat ==
  ASSUME TypeOK
  PROVE  /\ Size \in Nat /\ Size >= 1 /\ OrchSize \in Nat /\ Replication \in {"async", "group-replication"}
         /\ 1 \in Node /\ \A i \in Node : i \in Nat /\ i >= 1 /\ i <= Size
         /\ \A i \in Node : i < Size => i + 1 \in Node
         /\ \A o \in Host : o \in Nat /\ o >= 1 /\ o <= OrchSize /\ (o < OrchSize => o + 1 \in Host)
         /\ OrchSize > 0 => 1 \in Host
<1>1. Size \in Nat \ {0} /\ OrchSize \in Nat /\ Replication \in {"async", "group-replication"}
  BY ConfigAssumption DEF TypeOK, Size, OrchSize, Replication
<1>. QED  BY <1>1 DEF Node, Host

LEMMA InitType == Init => TypeInv
<1>. SUFFICES ASSUME Init PROVE TypeInv
  OBVIOUS
<1>1. Size \in Nat \ {0} /\ OrchSize \in Nat
  BY ConfigAssumption DEF Init, Size, OrchSize
<1>2. 1 \in Node
  BY <1>1 DEF Node
<1>3. Blank \in Server
  BY <1>1 DEF Blank, Server
<1>. QED  BY <1>1, <1>2, <1>3 DEF Init, TypeInv, TypeOK, Where, Past, MainStep, SetupStep, NodeStep, HostStep

LEMMA ServerType ==
  ASSUME TypeOK, NEW i \in Node
  PROVE  /\ server[i] \in Server
         /\ \A setting \in Setting : Edited(i, setting) \in Server
         /\ \A part \in Part : With(i, part) \in Server
         /\ Restarted(i) \in Server
         /\ [server[i] EXCEPT !.up = TRUE] \in Server
         /\ [server[i] EXCEPT !.up = FALSE] \in Server
         /\ [server[i] EXCEPT !.boot = TRUE] \in Server
         /\ [server[i] EXCEPT !.boot = FALSE] \in Server
         /\ \A g \in 0 .. Size : [server[i] EXCEPT !.follows = g] \in Server
<1>1. server[i] \in Server
  BY DEF TypeOK
<1>2. \A setting \in Setting : Edited(i, setting) \in Server
  BY <1>1 DEF Server, Edited
<1>3. \A part \in Part : With(i, part) \in Server
  BY <1>1 DEF Server, With
<1>4. Restarted(i) \in Server
  BY <1>1 DEF Server, Restarted
<1>. QED  BY <1>1, <1>2, <1>3, <1>4 DEF Server

LEMMA GroupsType == ASSUME TypeOK, NEW i \in Node, NEW g \in Groups(i) PROVE g \in 0 .. Size
<1>1. \A j \in Node : server[j].follows \in 0 .. Size
  BY DEF TypeOK, Server
<1>. QED  BY <1>1, SizeIsNat DEF Groups, Joinable

\* A step of a goroutine of an instance that does not end the process.
LEMMA NodeType ==
  ASSUME TypeInv, NEW i \in Node, NEW s \in NodeStep, Go(i, s), NodeOnly,
         server' \in [Node -> Server], UNCHANGED err \/ err' \in {"nil", "error"}
  PROVE  TypeInv'
<1>1. Node' = Node /\ Host' = Host /\ Server' = Server /\ OrchSize' = OrchSize
  BY DEF NodeOnly, Node, Host, Server, Size, OrchSize
<1>. QED  BY <1>1 DEF TypeInv, TypeOK, Where, Go, NodeOnly

LEMMA WorkType ==
  ASSUME TypeInv, NEW i \in Node, NEW step, NEW may, NEW new \in Server, NEW next \in NodeStep,
         Work(i, step, may, new, next)
  PROVE  TypeInv'
<1>1. /\ server' = [server EXCEPT ![i] = new] \/ UNCHANGED server
      /\ Go(i, next) \/ Go(i, "failed")
      /\ NodeOnly /\ UNCHANGED err
  BY DEF Work, Try, Then
<1>2. server' \in [Node -> Server] /\ "failed" \in NodeStep
  BY <1>1 DEF TypeInv, TypeOK, NodeStep
<1>. QED  BY <1>1, <1>2, NodeType

LEMMA RestartType ==
  ASSUME TypeOK, NEW i \in Node,
         \/ server' = [server EXCEPT ![i] = Restarted(i)] \/ UNCHANGED server
         \/ server' = [server EXCEPT ![i].up = FALSE]
  PROVE  server' \in [Node -> Server]
<1>1. /\ [server EXCEPT ![i].up = FALSE] = [server EXCEPT ![i] = [server[i] EXCEPT !.up = FALSE]]
      /\ server \in [Node -> Server]
  BY DEF TypeOK
<1>. QED  BY <1>1, ServerType

LEMMA NodeNextType == ASSUME TypeInv, NEW i \in Node, NodeNext(i) PROVE TypeInv'
<1>. TypeOK
  BY DEF TypeInv
<1>. /\ {"port", "custom", "engine", "pmm", "replication"} \subseteq Setting
     /\ {"udf", "rocksdb", "pmmUser", "orcUser", "orcClient", "replicaUser", "source"} \subseteq Part
  BY DEF Setting, Part
<1>. /\ {"configure", "versions", "install", "port", "restart", "udf", "custom",
         "myrocks", "engine", "pmmClient", "pmmUser", "pmmCfg", "orcUser", "orcClient",
         "grRestart", "grCheck", "grWrap", "grUser", "grSource", "grBootOn", "grStart",
         "grBootOff", "done", "failed"} \subseteq NodeStep
     /\ FromOrchestrator \in NodeStep /\ FromPmm \in NodeStep
     /\ FromMyRocks \in NodeStep /\ FromCustom \in NodeStep /\ AfterReplicaUser(i) \in NodeStep
  BY DEF NodeStep, FromOrchestrator, FromPmm, FromMyRocks, FromCustom, AfterReplicaUser
<1>1. CASE NodeInit(i) \/ Configure(i) \/ VersionList(i) \/ InstallPMMClient(i)
  BY <1>1, WorkType, ServerType DEF NodeInit, Configure, VersionList, InstallPMMClient
<1>2. CASE InstallPerconaServer(i)
  BY <1>2, WorkType, ServerType DEF InstallPerconaServer
<1>3. CASE SetPort(i) \/ SendConfig(i) \/ SetEngine(i) \/ SetSlowLog(i) \/ EditGroupConfig(i)
  BY <1>3, WorkType, ServerType DEF SetPort, SendConfig, SetEngine, SetSlowLog, EditGroupConfig
<1>4. CASE InstallUDF(i) \/ InstallMyRocks(i) \/ CreatePMMUser(i) \/ CreateOrchestratorUser(i)
  BY <1>4, WorkType, ServerType DEF InstallUDF, InstallMyRocks, CreatePMMUser, CreateOrchestratorUser
<1>5. CASE InstallOrchestratorClient(i) \/ CreateReplicaUser(i) \/ ChangeGroupSource(i)
  BY <1>5, WorkType, ServerType DEF InstallOrchestratorClient, CreateReplicaUser, ChangeGroupSource
<1>6. CASE BootstrapOn(i)
  BY <1>6, WorkType, ServerType DEF BootstrapOn
<1>7. CASE BootstrapOff(i)
  BY <1>7, WorkType, ServerType DEF BootstrapOff
<1>8. CASE StartGroup(i)
  BY <1>8, WorkType, ServerType, GroupsType DEF StartGroup
<1>9. CASE Restart(i)
  <2>1. /\ Go(i, "udf") \/ Go(i, "failed")
        /\ \/ server' = [server EXCEPT ![i] = Restarted(i)] \/ UNCHANGED server
           \/ server' = [server EXCEPT ![i].up = FALSE]
        /\ NodeOnly /\ UNCHANGED err
    BY <1>9 DEF Restart, TryRestart, Try, Then
  <2>. QED  BY <2>1, RestartType, NodeType
<1>10. CASE RestartGroup(i)
  <2>1. /\ Go(i, "grCheck") /\ err' \in {"nil", "error"}
        /\ \/ server' = [server EXCEPT ![i] = Restarted(i)] \/ UNCHANGED server
           \/ server' = [server EXCEPT ![i].up = FALSE]
        /\ NodeOnly
    BY <1>10 DEF RestartGroup, TryRestart, Try
  <2>. QED  BY <2>1, RestartType, NodeType
<1>11. CASE CheckErr(i) \/ WrapErr(i)
  <2>1. /\ Go(i, "grUser") \/ Go(i, "failed") \/ Go(i, "grWrap") \/ Go(i, "done")
        /\ NodeOnly /\ UNCHANGED <<err, server>>
    BY <1>11 DEF CheckErr, WrapErr, Then
  <2>. QED  BY <2>1, NodeType DEF TypeOK
<1>12. CASE TornErr(i)
  BY <1>12 DEF TornErr, TypeInv, TypeOK, Where, Past, MainStep, Ended, Node, Host, Server, Size, OrchSize
<1>. QED
  BY <1>1, <1>2, <1>3, <1>4, <1>5, <1>6, <1>7, <1>8, <1>9, <1>10, <1>11, <1>12 DEF NodeNext

\* The goroutines of createCluster are at work.
LEMMA SetupRuns ==
  ASSUME TypeInv, main # "crashed", setup \notin {"done", "failed"} \/ orc \notin {"done", "failed"}
  PROVE  main = "setup" /\ cur \in Node
<1>1. main \in MainStep
  BY DEF TypeInv, TypeOK
<1>. QED  BY <1>1 DEF TypeInv, Where, Past, MainStep, Ended

LEMMA SetupType ==
  ASSUME TypeInv, main = "setup", SetupOnly, setup' \in SetupStep, cur' \in Node,
         node' \in [Node -> NodeStep], server' \in [Node -> Server]
  PROVE  TypeInv'
<1>1. Node' = Node /\ Host' = Host /\ Server' = Server
  BY DEF SetupOnly, Node, Host, Server, Size, OrchSize
<1>. QED  BY <1>1 DEF TypeInv, TypeOK, Where, Past, SetupOnly

\* Where one command of a sequential loop leads.
LEMMA SerialShape ==
  ASSUME NEW step, NEW may, NEW new, NEW next, NEW c, Serial(step, may, new, Advance(next, c))
  PROVE  /\ setup = step /\ SetupOnly /\ UNCHANGED node
         /\ \/ /\ setup' = Then(next, ClusterCancelled) /\ cur' = c
               /\ may /\ server' = [server EXCEPT ![cur] = new] /\ UNCHANGED faults
            \/ /\ setup' = "failed" /\ UNCHANGED cur
               /\ server' = [server EXCEPT ![cur] = new] \/ UNCHANGED server
               /\ UNCHANGED faults \/ faults' = faults \cup {<<step, cur>>}
  BY DEF Serial, Try, Advance, Fail, Refused, Fault

\* How the loop over the replicas goes on.
LEMMA AfterReplicationIs ==
  ASSUME AfterReplication
  PROVE  cur' = 1 /\ setup' \in {"pmmService", "done", "failed"}
  BY DEF AfterReplication, Advance, Then

LEMMA NextReplicaIs ==
  ASSUME NextReplica
  PROVE  \/ cur < Size /\ cur' = cur + 1 /\ setup' \in {"asyncEdit", "failed"}
         \/ ~(cur < Size) /\ AfterReplication
  BY DEF NextReplica, Advance, Then

LEMMA SetupNextType == ASSUME TypeInv, main # "crashed", SetupNext PROVE TypeInv'
<1>1. main = "setup" /\ cur \in Node /\ SetupOnly
  <2>1. setup \notin {"done", "failed"} /\ SetupOnly
    BY DEF SetupNext, CreateServers, JoinNodes, CreateMasterReplicaUser, EditAsyncConfig,
       RestartAsync, ChangeReplicationSource, StartReplica, JoinGroupNodes, ChangeMemberSource,
       StartMember, AddServiceToPMM, Serial
  <2>. QED  BY <2>1, SetupRuns
<1>2. /\ TypeOK /\ server \in [Node -> Server] /\ node \in [Node -> NodeStep]
      /\ 1 \in Node /\ cur \in Nat /\ (cur < Size => cur + 1 \in Node) /\ (Size > 1 => 2 \in Node)
  BY <1>1, SizeIsNat DEF TypeInv, TypeOK, Node
<1>3. \A next \in SetupStep : Then(next, ClusterCancelled) \in SetupStep
  BY DEF Then, SetupStep
<1>4. /\ {"nodes", "replicaUser", "asyncEdit", "asyncRestart", "asyncSource", "asyncStart",
          "groupNodes", "groupSource", "groupStart", "pmmService", "done", "failed"} \subseteq SetupStep
      /\ {"replication"} \subseteq Setting
      /\ {"replicaUser", "source", "pmmService"} \subseteq Part
      /\ {"init", "grEdit"} \subseteq NodeStep
  BY DEF SetupStep, Setting, Part, NodeStep
<1>5. AfterReplication => setup' \in SetupStep /\ cur' \in Node
  BY <1>2, <1>4, AfterReplicationIs
<1>6. NextReplica => setup' \in SetupStep /\ cur' \in Node
  BY <1>2, <1>4, <1>5, NextReplicaIs
<1>7. ASSUME NEW new \in Server,
             server' = [server EXCEPT ![cur] = new] \/ UNCHANGED server,
             setup' \in SetupStep, cur' \in Node, UNCHANGED node
      PROVE  TypeInv'
  <2>1. server' \in [Node -> Server]
    BY <1>2, <1>7
  <2>. QED  BY <1>1, <1>2, <1>7, <2>1, SetupType
<1>8. CASE CreateServers
  <2>1. node' \in [Node -> NodeStep] /\ setup' \in SetupStep
    BY <1>2, <1>4, <1>8 DEF CreateServers
  <2>. QED  BY <1>1, <1>2, <1>8, <2>1, SetupType DEF CreateServers
<1>9. CASE JoinNodes
  <2>1. /\ node' \in [Node -> NodeStep] /\ UNCHANGED server
        /\ setup' \in SetupStep /\ cur' \in Node
    BY <1>1, <1>2, <1>3, <1>4, <1>9 DEF JoinNodes, Advance, Fail
  <2>. QED  BY <1>1, <1>2, <2>1, SetupType
<1>10. CASE JoinGroupNodes
  <2>1. setup' \in SetupStep /\ cur' \in Node /\ UNCHANGED <<node, server>>
    BY <1>1, <1>2, <1>3, <1>4, <1>5, <1>10 DEF JoinGroupNodes, Advance, Fail
  <2>. QED  BY <1>1, <1>2, <2>1, SetupType
<1>11. CASE CreateMasterReplicaUser
  <2>. PICK next, new : /\ next = IF Size > 1 THEN "asyncEdit" ELSE "asyncRestart"
                        /\ new = With(cur, "replicaUser")
    OBVIOUS
  <2>1. next \in SetupStep /\ new \in Server
    BY <1>1, <1>2, <1>4, ServerType
  <2>2. Serial("replicaUser", Sql(cur), new, Advance(next, 1))
    BY <1>11 DEF CreateMasterReplicaUser
  <2>. QED  BY <1>1, <1>2, <1>3, <1>4, <1>7, <2>1, <2>2, SerialShape
<1>12. CASE EditAsyncConfig
  <2>. PICK new : new = Edited(cur, "replication")
    OBVIOUS
  <2>1. new \in Server
    BY <1>1, <1>2, <1>4, ServerType
  <2>2. Serial("asyncEdit", TRUE, new, Advance("asyncRestart", cur))
    BY <1>12 DEF EditAsyncConfig
  <2>3. /\ setup' \in {Then("asyncRestart", ClusterCancelled), "failed"} /\ cur' = cur
        /\ server' = [server EXCEPT ![cur] = new] \/ UNCHANGED server
        /\ UNCHANGED node
    BY <2>2, SerialShape
  <2>. QED  BY <1>1, <1>3, <1>4, <1>7, <2>1, <2>3
<1>13. CASE ChangeReplicationSource \/ ChangeMemberSource
  <2>. PICK new : new = With(cur, "source")
    OBVIOUS
  <2>1. new \in Server
    BY <1>1, <1>2, <1>4, ServerType
  <2>2. /\ server' = [server EXCEPT ![cur] = new] \/ UNCHANGED server
        /\ Advance("asyncStart", cur) \/ Advance("groupStart", cur) \/ Fail
        /\ UNCHANGED node
    BY <1>13 DEF ChangeReplicationSource, ChangeMemberSource, Serial, Try
  <2>3. setup' \in SetupStep /\ cur' \in Node
    BY <1>1, <1>3, <1>4, <2>2 DEF Advance, Fail
  <2>. QED  BY <1>7, <2>1, <2>2, <2>3
<1>14. CASE RestartAsync
  <2>1. /\ \/ server' = [server EXCEPT ![cur] = Restarted(cur)] \/ UNCHANGED server
           \/ server' = [server EXCEPT ![cur].up = FALSE]
        /\ NextReplica \/ Advance("asyncSource", cur) \/ Fail
        /\ UNCHANGED node
    BY <1>14 DEF RestartAsync, TryRestart, Try
  <2>2. setup' \in SetupStep /\ cur' \in Node
    BY <1>1, <1>3, <1>4, <1>6, <2>1 DEF Advance, Fail
  <2>. QED  BY <1>1, <1>2, <2>1, <2>2, RestartType, SetupType
<1>15. CASE StartReplica
  <2>. PICK new : new = [server[cur] EXCEPT !.follows = 1]
    OBVIOUS
  <2>0. 1 \in 0 .. Size
    BY <1>2, SizeIsNat
  <2>1. new \in Server
    BY <1>1, <1>2, <2>0, ServerType
  <2>2. /\ server' = [server EXCEPT ![cur] = new] \/ UNCHANGED server
        /\ NextReplica \/ Fail
        /\ UNCHANGED node
    BY <1>15 DEF StartReplica, Serial, Try
  <2>. QED  BY <1>1, <1>4, <1>6, <1>7, <2>1, <2>2 DEF Fail
<1>16. CASE StartMember
  <2>. PICK g \in Groups(cur) :
         Serial("groupStart", g # 0, [server[cur] EXCEPT !.follows = g],
                IF cur < Size THEN Advance("groupSource", cur + 1) ELSE AfterReplication)
    BY <1>16 DEF StartMember
  <2>. PICK new : new = [server[cur] EXCEPT !.follows = g]
    OBVIOUS
  <2>1. new \in Server
    BY <1>1, <1>2, GroupsType, ServerType
  <2>2. /\ server' = [server EXCEPT ![cur] = new] \/ UNCHANGED server
        /\ (cur < Size /\ Advance("groupSource", cur + 1)) \/ AfterReplication \/ Fail
        /\ UNCHANGED node
    BY DEF Serial, Try
  <2>. QED  BY <1>1, <1>2, <1>3, <1>4, <1>5, <1>7, <2>1, <2>2 DEF Fail, Advance
<1>17. CASE AddServiceToPMM
  <2>. PICK new : new = With(cur, "pmmService")
    OBVIOUS
  <2>1. new \in Server
    BY <1>1, <1>2, <1>4, ServerType
  <2>2. /\ server' = [server EXCEPT ![cur] = new] \/ UNCHANGED server
        /\ (cur < Size /\ Advance("pmmService", cur + 1)) \/ Advance("done", 1) \/ Fail
        /\ UNCHANGED node
    BY <1>17 DEF AddServiceToPMM, Serial, Try
  <2>. QED  BY <1>1, <1>2, <1>3, <1>4, <1>7, <2>1, <2>2 DEF Fail, Advance
<1>. QED
  BY <1>8, <1>9, <1>10, <1>11, <1>12, <1>13, <1>14, <1>15, <1>16, <1>17 DEF SetupNext

\* The goroutines of the orchestrators, and the one that waits for them.
LEMMA OrcShape ==
  ASSUME TypeOK, OrcNext \/ \E o \in Host : HostNext(o)
  PROVE  /\ OrcOnly
         /\ orc \notin {"done", "failed"} \/ \E o \in Host : host[o] \notin {"idle", "done", "failed"}
         /\ orc' \in {"create", "hosts", "done", "failed"}
         /\ host' \in [Host -> HostStep] /\ serving' \subseteq Host
<1>. host \in [Host -> HostStep] /\ serving \subseteq Host /\ orc \in {"create", "hosts", "done", "failed"}
  BY DEF TypeOK
<1>1. CASE CreateOrchestrators \/ JoinHosts
  BY <1>1 DEF CreateOrchestrators, JoinHosts, HostStep
<1>2. ASSUME NEW o \in Host, HostNext(o)
      PROVE  /\ OrcOnly /\ orc' = orc /\ host[o] \notin {"idle", "done", "failed"}
             /\ host' \in [Host -> HostStep] /\ serving' \subseteq Host
  <2>1. PICK step \in {"init", "install", "config", "creds", "start"},
             runs \in SUBSET Host, next \in {"install", "config", "creds", "start", "done"} :
          HostWork(o, step, runs, next)
    BY <1>2 DEF HostNext, HostInit, InstallOrchestrator, SendOrchestratorConfig, SendCredentials,
       StartOrchestrator
  <2>. QED  BY <2>1 DEF HostWork, Then, HostStep
<1>. QED  BY <1>1, <1>2 DEF OrcNext

LEMMA OrcNextType ==
  ASSUME TypeInv, main # "crashed", OrcNext \/ \E o \in Host : HostNext(o)
  PROVE  TypeInv'
<1>1. /\ OrcOnly /\ orc' \in {"create", "hosts", "done", "failed"}
      /\ host' \in [Host -> HostStep] /\ serving' \subseteq Host
      /\ orc \in {"done", "failed"} => orc' = orc
  <2>1. orc \in {"done", "failed"} => orc' = orc
    <3>1. OrcNext => orc \notin {"done", "failed"}
      BY DEF OrcNext, CreateOrchestrators, JoinHosts
    <3>2. (\E o \in Host : HostNext(o)) => orc' = orc
      BY DEF HostNext, HostInit, InstallOrchestrator, SendOrchestratorConfig, SendCredentials,
         StartOrchestrator, HostWork
    <3>. QED  BY <3>1, <3>2
  <2>. QED  BY <2>1, OrcShape DEF TypeInv
<1>2. Node' = Node /\ Host' = Host /\ Server' = Server /\ OrchSize' = OrchSize
  BY <1>1 DEF OrcOnly, Node, Host, Server, Size, OrchSize
<1>. QED  BY <1>1, <1>2 DEF TypeInv, TypeOK, Where, Past, OrcOnly

LEMMA MainNextType == ASSUME TypeInv, main # "crashed", MainNext PROVE TypeInv'
<1>1. /\ TypeOK /\ server \in [Node -> Server] /\ 1 \in Node
      /\ OrchSize \in Nat /\ (OrchSize > 0 => 1 \in Host)
      /\ \A i \in Node : i < Size => i + 1 \in Node
      /\ \A o \in Host : o < OrchSize => o + 1 \in Host
  BY SizeIsNat DEF TypeInv, TypeOK
<1>2. ASSUME MainOnly, setup \in {"done", "failed"}, main' \in MainStep, cur' \in Node \cup Host,
             server' \in [Node -> Server], serving' \subseteq Host,
             main' \in Past => setup = "done" /\ orc = "done",
             main' = "failed" => setup \in {"done", "failed"} /\ orc \in {"done", "failed"},
             main' \in {"setup", "discover"} => cur' \in Node,
             main' \in {"list", "orcRestart"} => cur' \in Host,
             main' \in {"list", "orcRestart", "discover"} => OrchSize > 0
      PROVE  TypeInv'
  <2>1. Node' = Node /\ Host' = Host /\ Server' = Server /\ OrchSize' = OrchSize
    BY <1>2 DEF MainOnly, Node, Host, Server, Size, OrchSize
  <2>. QED  BY <1>2, <2>1 DEF TypeInv, TypeOK, Where, MainOnly
<1>3. /\ {"list", "orcRestart", "discover", "outputs", "created", "failed"} \subseteq MainStep
      /\ main \in MainStep /\ cur \in Node \cup Host /\ serving \subseteq Host
      /\ setup \in SetupStep /\ orc \in {"create", "hosts", "done", "failed"}
  BY DEF MainStep, Ended, TypeInv, TypeOK
<1>4. CASE JoinCluster
  BY <1>1, <1>2, <1>3, <1>4 DEF JoinCluster, ClusterCancelled, Past
<1>5. CASE ListClusterInstances
  <2>1. main = "list" /\ OrchSize > 0 /\ setup = "done" /\ orc = "done" /\ cur \in Host
    BY <1>5 DEF ListClusterInstances, TypeInv, Where, Past
  <2>. QED  BY <1>1, <1>2, <1>3, <1>5, <2>1 DEF ListClusterInstances, Past
<1>6. CASE RestartOrchestrator
  <2>1. main = "orcRestart" /\ OrchSize > 0 /\ setup = "done" /\ orc = "done" /\ cur \in Host
    BY <1>6 DEF RestartOrchestrator, TypeInv, Where, Past
  <2>. QED  BY <1>1, <1>2, <1>3, <1>6, <2>1 DEF RestartOrchestrator, Past
<1>7. CASE Discover
  <2>1. main = "discover" /\ OrchSize > 0 /\ setup = "done" /\ orc = "done" /\ cur \in Node
    BY <1>7 DEF Discover, TypeInv, Where, Past
  <2>2. /\ MainOnly /\ UNCHANGED serving
        /\ \/ cur < Size /\ UNCHANGED main /\ cur' = cur + 1
           \/ main' = "outputs" /\ cur' = 1
        /\ server' = [server EXCEPT ![cur] = With(cur, "discovered")] \/ UNCHANGED server
    BY <1>7 DEF Discover, Try
  <2>3. With(cur, "discovered") \in Server
    BY <1>1, <2>1, ServerType DEF Part
  <2>. QED  BY <1>1, <1>2, <1>3, <2>1, <2>2, <2>3 DEF Past
<1>8. CASE SetOutputValues
  <2>1. main = "outputs" /\ setup = "done" /\ orc = "done"
    BY <1>8 DEF SetOutputValues, TypeInv, Where, Past
  <2>. QED  BY <1>1, <1>2, <1>3, <1>8, <2>1 DEF SetOutputValues, Past
<1>. QED  BY <1>4, <1>5, <1>6, <1>7, <1>8 DEF MainNext

LEMMA NextType == ASSUME TypeInv, [Next]_vars PROVE TypeInv'
<1>1. CASE Next
  BY <1>1, NodeNextType, SetupNextType, OrcNextType, MainNextType DEF Next
<1>2. CASE UNCHANGED vars
  <2>1. Node' = Node /\ Host' = Host /\ Server' = Server /\ OrchSize' = OrchSize
    BY <1>2 DEF vars, Node, Host, Server, Size, OrchSize
  <2>. QED  BY <1>2, <2>1 DEF vars, TypeInv, TypeOK, Where
<1>. QED  BY <1>1, <1>2

\* Every variable keeps its type; the loops stay on the instances they are about.
\* (the whole of Create, manager.go:65-140)
THEOREM TypeCorrect == Spec => []TypeOK
<1>1. TypeInv => TypeOK
  BY DEF TypeInv
<1>. QED  BY <1>1, InitType, NextType, PTL DEF Spec

-----------------------------------------------------------------------------
(* What a step leaves alone.                                               *)

LEMMA InitCluster == Init => Cluster
<1>. SUFFICES ASSUME Init PROVE Cluster
  OBVIOUS
<1>1. /\ setup = "instances" /\ main = "setup" /\ err = "nil" /\ faults = {}
      /\ \A i \in Node : node[i] = "idle" /\ server[i] = Blank
      /\ \A o \in Host : host[o] = "idle"
      /\ OrchSize \in Nat /\ orc = IF OrchSize = 0 THEN "done" ELSE "create"
  BY ConfigAssumption DEF Init, OrchSize
<1>2. OrchSize = 0 => Host = {}
  BY <1>1 DEF Host
<1>3. Places
  BY <1>1, <1>2 DEF Places, Joined, AsyncStep, MemberStep
<1>4. Errors
  BY <1>1 DEF Errors
<1>5. \A i \in Node : Safe(i) /\ Untouched(server[i])
  BY <1>1 DEF Safe, Sound, Untouched, Blank
<1>6. Servers /\ AsyncLoop /\ GroupLoop
  BY <1>1, <1>5 DEF Servers, Joined, AsyncStep, MemberStep, AsyncLoop, GroupLoop
<1>. QED  BY <1>3, <1>4, <1>6 DEF Cluster

\* A server of which at most more parts are set up.
Grown(i) ==
  /\ server'[i].up = server[i].up /\ server'[i].boot = server[i].boot
  /\ server'[i].file = server[i].file /\ server'[i].loaded = server[i].loaded
  /\ server'[i].follows = server[i].follows
  /\ server[i].has \subseteq server'[i].has

LEMMA ConfSame ==
  ASSUME UNCHANGED conf
  PROVE  /\ Node' = Node /\ Host' = Host /\ Size' = Size /\ OrchSize' = OrchSize
         /\ Options' = Options /\ Async' = Async /\ Group' = Group
  BY DEF Node, Host, Size, OrchSize, Options, Async, Group, Replication

LEMMA GrownKeeps ==
  ASSUME TypeOK, UNCHANGED conf, Excused => Excused', \A j \in Node : Grown(j), NEW i \in Node
  PROVE  /\ Safe(i) => Safe(i)'
         /\ Untouched(server[i]) => Untouched(server'[i])
         /\ \A step : Prepared(server[i], step) => Prepared(server[i], step)'
         /\ Complete(i) => Complete(i)'
<1>1. /\ Node' = Node /\ Size' = Size /\ OrchSize' = OrchSize
      /\ Options' = Options /\ Async' = Async /\ Group' = Group /\ 1 \in Node
  BY ConfSame, SizeIsNat
<1>2. Safe(i) => Safe(i)'
  BY <1>1 DEF Safe, Sound, Sql, Grown
<1>3. Untouched(server[i]) => Untouched(server'[i])
  BY DEF Untouched, Grown
<1>4. ASSUME NEW step, Prepared(server[i], step) PROVE Prepared(server[i], step)'
  BY <1>1, <1>4 DEF Prepared, Grown
<1>5. Complete(i) => Complete(i)'
  BY <1>1 DEF Complete, Grown
<1>. QED  BY <1>2, <1>3, <1>4, <1>5

LEMMA ServersKeep ==
  ASSUME ClusterInv, UNCHANGED <<conf, setup, node>>, Excused => Excused',
         cur' = cur \/ setup \in {"done", "failed"}, \A j \in Node : Grown(j)
  PROVE  Servers' /\ AsyncLoop' /\ GroupLoop'
<1>1. /\ Node' = Node /\ Size' = Size /\ OrchSize' = OrchSize
      /\ Options' = Options /\ Async' = Async /\ Group' = Group /\ 1 \in Node /\ TypeOK
  BY ConfSame, SizeIsNat DEF ClusterInv, TypeInv
<1>2. \A i \in Node :
         /\ Safe(i) => Safe(i)'
         /\ Untouched(server[i]) => Untouched(server'[i])
         /\ \A step : Prepared(server[i], step) => Prepared(server[i], step)'
         /\ Complete(i) => Complete(i)'
  BY <1>1, GrownKeeps
<1>3. Servers'
  <2>1. \A i \in Node : Safe(i)'
    BY <1>2 DEF ClusterInv, Cluster, Servers
  <2>2. setup \in {"instances", "nodes"} => \A i \in Node : Untouched(server'[i])
    BY <1>2 DEF ClusterInv, Cluster, Servers
  <2>3. setup = "nodes" => \A i \in Node : Prepared(server[i], node[i])'
    <3>. SUFFICES ASSUME setup = "nodes", NEW i \in Node PROVE Prepared(server[i], node[i])'
      OBVIOUS
    <3>. PICK step : step = node[i]
      OBVIOUS
    <3>1. Prepared(server[i], step)'
      BY <1>2 DEF ClusterInv, Cluster, Servers
    <3>2. node'[i] = step
      OBVIOUS
    <3>. QED  BY <3>1, <3>2 DEF Prepared
  <2>4. setup \in Joined \cup {"groupNodes"} => \A i \in Node : Prepared(server[i], "done")'
    BY <1>2 DEF ClusterInv, Cluster, Servers
  <2>5. setup = "groupNodes" => \A i \in Node : Member(i, server[i], node[i])'
    BY <1>1 DEF ClusterInv, Cluster, Servers, Member, Grown
  <2>6. setup \in {"pmmService", "done"} => \A i \in Node : Complete(i)'
    BY <1>2 DEF ClusterInv, Cluster, Servers
  <2>7. setup = "pmmService" => \A i \in Node : i < cur => "pmmService" \in server'[i].has
    BY DEF ClusterInv, Cluster, Servers, Grown
  <2>8. setup = "done" /\ "pmm" \in Options => \A i \in Node : "pmmService" \in server'[i].has
    BY DEF ClusterInv, Cluster, Servers, Grown
  <2>. QED  BY <1>1, <2>1, <2>2, <2>3, <2>4, <2>5, <2>6, <2>7, <2>8 DEF Servers, Untouched
<1>4. AsyncLoop'
  <2>. SUFFICES ASSUME setup \in AsyncStep PROVE AsyncLoop'
    BY DEF AsyncLoop
  <2>1. cur' = cur /\ cur \in Node
    BY DEF AsyncStep, ClusterInv, TypeInv, Where
  <2>2. \A i \in Node : (i < cur => Complete(i)') /\ (i > cur => Untouched(server'[i]))
    BY <1>2 DEF ClusterInv, Cluster, AsyncLoop
  <2>. QED  BY <1>1, <2>1, <2>2 DEF ClusterInv, Cluster, AsyncLoop, Grown, Untouched
<1>5. GroupLoop'
  <2>. SUFFICES ASSUME setup \in MemberStep PROVE GroupLoop'
    BY DEF GroupLoop
  <2>1. cur' = cur /\ cur \in Node
    BY DEF MemberStep, ClusterInv, TypeInv, Where
  <2>. QED  BY <1>1, <2>1 DEF ClusterInv, Cluster, GroupLoop, Grown
<1>. QED  BY <1>3, <1>4, <1>5

\* The faults, and what they excuse, after a step.
LEMMA ErrorsStep ==
  ASSUME Errors, UNCHANGED <<conf, err>>, Troubled => Troubled',
         \A i \in Node : node'[i] = "grWrap" => node[i] = "grWrap",
         \/ UNCHANGED faults
         \/ \E f : faults' = faults \cup {f} /\ (f[1] \in {"discover", "outputs"} \/ Troubled')
  PROVE  Errors' /\ (Excused => Excused')
<1>1. Node' = Node /\ Size' = Size /\ Group' = Group
  BY ConfSame
<1>2. Excused => Excused'
  BY <1>1 DEF Excused, ErrorErased
<1>. QED  BY <1>1, <1>2 DEF Errors

-----------------------------------------------------------------------------
(* The orchestrators and createCluster.                                    *)

LEMMA SameGrown == ASSUME UNCHANGED server, NEW i \in Node PROVE Grown(i)
  BY DEF Grown

LEMMA HostCluster ==
  ASSUME ClusterInv, NEW o \in Host, HostNext(o) PROVE Cluster'
<1>1. PICK step \in {"init", "install", "config", "creds", "start"},
           runs \in {serving, serving \cup {o}}, next \in {"install", "config", "creds", "start", "done"} :
        HostWork(o, step, runs, next) /\ (next = "done" => runs = serving \cup {o})
  BY DEF HostNext, HostInit, InstallOrchestrator, SendOrchestratorConfig, SendCredentials,
     StartOrchestrator
<1>2. /\ UNCHANGED <<conf, main, setup, cur, node, err, server, orc>>
      /\ host[o] = step /\ host \in [Host -> HostStep]
      /\ \/ /\ serving' = runs /\ host' = [host EXCEPT ![o] = next] /\ UNCHANGED faults
         \/ /\ serving' \in {serving, runs} /\ host' = [host EXCEPT ![o] = "failed"]
            /\ UNCHANGED faults \/ faults' = faults \cup {<<step, o>>}
  BY <1>1 DEF HostWork, OrcOnly, Then, Refused, Fault, ClusterInv, TypeInv, TypeOK
<1>3. /\ Node' = Node /\ Host' = Host /\ Group' = Group /\ Async' = Async
  BY <1>2, ConfSame
<1>4. orc \notin {"create", "done", "failed"}
  BY <1>1, <1>2 DEF ClusterInv, Cluster, Places
<1>5. \A p \in Host : host'[p] = "done" /\ main # "failed" => p \in serving'
  BY <1>1, <1>2 DEF ClusterInv, Cluster, Places
<1>6. Places'
  BY <1>2, <1>3, <1>4, <1>5 DEF ClusterInv, Cluster, Places
<1>7. /\ Troubled => Troubled'
      /\ host'[o] = "failed" => Troubled'
  BY <1>1, <1>2, <1>3 DEF Troubled
<1>8. \/ UNCHANGED faults
      \/ \E f : faults' = faults \cup {f} /\ Troubled'
  BY <1>2, <1>7
<1>9. Errors' /\ (Excused => Excused')
  BY <1>2, <1>7, <1>8, ErrorsStep DEF ClusterInv, Cluster
<1>10. Servers' /\ AsyncLoop' /\ GroupLoop'
  BY <1>2, <1>9, SameGrown, ServersKeep
<1>. QED  BY <1>6, <1>9, <1>10 DEF Cluster

LEMMA OrcNextCluster == ASSUME ClusterInv, OrcNext PROVE Cluster'
<1>1. /\ UNCHANGED <<conf, main, setup, cur, node, err, server, serving>>
      /\ host \in [Host -> HostStep]
      /\ \/ /\ orc = "create" /\ orc' = "hosts"
            /\ host' = [p \in Host |-> "init"] /\ UNCHANGED faults
         \/ /\ orc = "create" /\ orc' = "failed" /\ UNCHANGED host
            /\ UNCHANGED faults \/ faults' = faults \cup {<<"create", 0>>}
         \/ /\ orc = "hosts" /\ UNCHANGED <<host, faults>>
            /\ \A p \in Host : host[p] \in {"done", "failed"}
            /\ orc' = IF \E p \in Host : host[p] = "failed" THEN "failed" ELSE "done"
  BY DEF OrcNext, CreateOrchestrators, JoinHosts, OrcOnly, Refused, Fault, ClusterInv, TypeInv, TypeOK
<1>2. Node' = Node /\ Host' = Host /\ Group' = Group /\ Async' = Async
  BY <1>1, ConfSame
<1>3. main # "failed" /\ main \notin Past
  BY <1>1 DEF ClusterInv, TypeInv, Where
<1>4. Places'
  BY <1>1, <1>2, <1>3 DEF ClusterInv, Cluster, Places
<1>5. /\ Troubled => Troubled'
      /\ orc' = "failed" => Troubled'
  BY <1>1, <1>2 DEF Troubled, ClusterInv, Cluster, Places
<1>6. \/ UNCHANGED faults
      \/ \E f : faults' = faults \cup {f} /\ Troubled'
  BY <1>1, <1>5
<1>7. Errors' /\ (Excused => Excused')
  BY <1>1, <1>5, <1>6, ErrorsStep DEF ClusterInv, Cluster
<1>8. Servers' /\ AsyncLoop' /\ GroupLoop'
  BY <1>1, <1>7, SameGrown, ServersKeep
<1>. QED  BY <1>4, <1>7, <1>8 DEF Cluster

LEMMA MainNextCluster == ASSUME ClusterInv, main # "crashed", MainNext PROVE Cluster'
<1>1. /\ UNCHANGED <<conf, setup, orc, node, host, err>>
      /\ setup \in {"done", "failed"} /\ orc \in {"done", "failed"}
      /\ main \notin {"failed", "created"}
      /\ serving \subseteq serving' \/ main' = "failed"
      /\ \/ UNCHANGED faults
         \/ faults' = faults \cup {<<"list", 0>>} /\ main' = "failed"
         \/ faults' = faults \cup {<<"orcRestart", cur>>} /\ main' = "failed"
         \/ faults' = faults \cup {<<"discover", cur>>}
         \/ faults' = faults \cup {<<"outputs", 0>>}
      /\ UNCHANGED server \/ (main = "discover" /\ server' = [server EXCEPT ![cur] = With(cur, "discovered")])
  BY DEF MainNext, JoinCluster, ListClusterInstances, RestartOrchestrator, Discover, SetOutputValues,
     Try, MainOnly, Refused, Fault, ClusterInv, TypeInv, Where, Past
<1>2. Node' = Node /\ Host' = Host /\ Group' = Group /\ Async' = Async
  BY <1>1, ConfSame
<1>3. Places'
  BY <1>1, <1>2 DEF ClusterInv, Cluster, Places
<1>4. /\ Troubled => Troubled'
      /\ main' = "failed" => Troubled'
  BY <1>1, <1>2 DEF Troubled
<1>5. \/ UNCHANGED faults
      \/ \E f : faults' = faults \cup {f} /\ (f[1] \in {"discover", "outputs"} \/ Troubled')
  BY <1>1, <1>4
<1>6. Errors' /\ (Excused => Excused')
  BY <1>1, <1>4, <1>5, ErrorsStep DEF ClusterInv, Cluster
<1>7. ASSUME NEW i \in Node PROVE Grown(i)
  <2>1. CASE UNCHANGED server
    BY <2>1, SameGrown
  <2>2. CASE main = "discover" /\ server' = [server EXCEPT ![cur] = With(cur, "discovered")]
    <3>1. cur \in Node /\ server \in [Node -> Server]
      BY <2>2 DEF ClusterInv, TypeInv, Where, TypeOK
    <3>. QED  BY <2>2, <3>1 DEF With, Grown, Server
  <2>. QED  BY <1>1, <2>1, <2>2
<1>8. Servers' /\ AsyncLoop' /\ GroupLoop'
  BY <1>1, <1>6, <1>7, ServersKeep
<1>. QED  BY <1>3, <1>6, <1>8 DEF Cluster

-----------------------------------------------------------------------------
(* The goroutines that install and configure the servers.                  *)

LEMMA NodesRun ==
  ASSUME ClusterInv, NEW i \in Node, NodeNext(i), main # "crashed"
  PROVE  /\ main = "setup"
         /\ \/ setup = "nodes" /\ node[i] \in SetupNode
            \/ setup = "groupNodes" /\ node[i] \in GroupNode
<1>1. node[i] \notin {"idle", "done", "failed"}
  BY DEF NodeNext, NodeInit, Configure, VersionList, InstallPerconaServer, SetPort, Restart,
     InstallUDF, SendConfig, InstallMyRocks, SetEngine, InstallPMMClient, CreatePMMUser,
     SetSlowLog, CreateOrchestratorUser, InstallOrchestratorClient, EditGroupConfig,
     RestartGroup, CheckErr, WrapErr, TornErr, CreateReplicaUser, ChangeGroupSource,
     BootstrapOn, StartGroup, BootstrapOff, Work
<1>2. setup \in SetupStep
  BY DEF ClusterInv, TypeInv, TypeOK
<1>3. setup \in {"nodes", "groupNodes"}
  BY <1>1, <1>2 DEF ClusterInv, Cluster, Places, SetupStep, Joined, AsyncStep, MemberStep
<1>4. main = "setup"
  BY <1>3, SetupRuns DEF ClusterInv
<1>. QED  BY <1>1, <1>3, <1>4 DEF ClusterInv, Cluster, Places

\* A command that one of them runs.
LEMMA WorkShape ==
  ASSUME TypeOK, NEW i \in Node, NEW step, NEW may, NEW new, NEW next, Work(i, step, may, new, next)
  PROVE  /\ node[i] = step /\ NodeOnly /\ UNCHANGED err
         /\ \/ Go(i, next) /\ may /\ server' = [server EXCEPT ![i] = new] /\ UNCHANGED faults
            \/ /\ Go(i, "failed")
               /\ \/ server' = [server EXCEPT ![i] = new] /\ may
                  \/ server' = [server EXCEPT ![i] = server[i]]
               /\ UNCHANGED faults \/ faults' = faults \cup {<<step, i>>}
<1>. server = [server EXCEPT ![i] = server[i]]
  BY DEF TypeOK
<1>. QED  BY DEF Work, Try, Then, Refused, Fault

LEMMA SetupLocal ==
  ASSUME ClusterInv, NEW i \in Node, main = "setup", setup = "nodes", NodeOnly, UNCHANGED err,
         NEW new, server' = [server EXCEPT ![i] = new],
         NEW s \in SetupNode \cup {"done", "failed"}, Go(i, s), node[i] # "failed",
         Sound(new), Untouched(new), Prepared(new, s),
         UNCHANGED faults \/ (s = "failed" /\ \E f : faults' = faults \cup {f})
  PROVE  Cluster'
<1>1. /\ Node' = Node /\ Host' = Host /\ Group' = Group /\ Async' = Async
      /\ Options' = Options /\ OrchSize' = OrchSize /\ 1 \in Node
      /\ node' = [node EXCEPT ![i] = s] /\ node \in [Node -> NodeStep]
      /\ server \in [Node -> Server] /\ UNCHANGED <<conf, main, setup, orc, cur, host, serving>>
  BY ConfSame, SizeIsNat DEF NodeOnly, Go, ClusterInv, TypeInv, TypeOK
<1>2. /\ node'[i] = s /\ \A j \in Node \ {i} : node'[j] = node[j]
      /\ server'[i] = new /\ \A j \in Node \ {i} : server'[j] = server[j]
  BY <1>1
<1>3. Places'
  BY <1>1, <1>2 DEF ClusterInv, Cluster, Places, Joined, AsyncStep, MemberStep
<1>4. (Troubled => Troubled') /\ (s = "failed" => Troubled')
  BY <1>1, <1>2 DEF Troubled
<1>5. \A j \in Node : node'[j] # "grWrap"
  BY <1>2 DEF ClusterInv, Cluster, Places, SetupNode
<1>6. Errors'
  <2>1. \/ UNCHANGED faults
        \/ \E f : faults' = faults \cup {f} /\ (f[1] \in {"discover", "outputs"} \/ Troubled')
    BY <1>4
  <2>. QED  BY <1>1, <1>4, <1>5, <2>1, ErrorsStep DEF ClusterInv, Cluster
<1>7. \A j \in Node : Sound(server'[j]) /\ Untouched(server'[j])
  BY <1>1, <1>2 DEF ClusterInv, Cluster, Servers, Safe
<1>8. \A j \in Node : Safe(j)'
  BY <1>1, <1>7 DEF Safe, Untouched, Sound
<1>9. ASSUME NEW j \in Node PROVE Prepared(server[j], node[j])'
  <2>1. CASE j = i
    BY <1>1, <1>2, <2>1 DEF Prepared
  <2>2. CASE j # i
    <3>1. Prepared(server[j], node[j])
      BY DEF ClusterInv, Cluster, Servers
    <3>2. server'[j] = server[j] /\ node'[j] = node[j]
      BY <1>2, <2>2
    <3>. QED  BY <1>1, <3>1, <3>2 DEF Prepared
  <2>. QED  BY <2>1, <2>2
<1>10. Servers'
  BY <1>1, <1>7, <1>8, <1>9 DEF Servers, Untouched, Joined, AsyncStep, MemberStep
<1>11. AsyncLoop' /\ GroupLoop'
  BY <1>1 DEF AsyncLoop, GroupLoop, AsyncStep, MemberStep
<1>. QED  BY <1>3, <1>6, <1>10, <1>11 DEF Cluster

LEMMA SetupWork ==
  ASSUME ClusterInv, NEW i \in Node, main = "setup", setup = "nodes",
         NEW step \in SetupNode, NEW may, NEW new, NEW next \in SetupNode \cup {"done"},
         Work(i, step, may, new, next),
         Sound(new), Untouched(new), Prepared(new, next)
  PROVE  Cluster'
<1>. PICK old : old = server[i]
  OBVIOUS
<1>1. /\ node[i] = step /\ NodeOnly /\ UNCHANGED err
      /\ \/ Go(i, next) /\ may /\ server' = [server EXCEPT ![i] = new] /\ UNCHANGED faults
         \/ /\ Go(i, "failed")
            /\ server' = [server EXCEPT ![i] = new] \/ server' = [server EXCEPT ![i] = old]
            /\ UNCHANGED faults \/ faults' = faults \cup {<<step, i>>}
  BY WorkShape DEF ClusterInv, TypeInv
<1>2. Sound(old) /\ Untouched(old) /\ Prepared(old, "failed") /\ Prepared(new, "failed")
  BY DEF ClusterInv, Cluster, Servers, Safe, Prepared, FromPmmStep
<1>3. node[i] # "failed" /\ "failed" \in SetupNode \cup {"done", "failed"}
  BY <1>1 DEF SetupNode
<1>4. CASE Go(i, next) /\ may /\ server' = [server EXCEPT ![i] = new] /\ UNCHANGED faults
  BY <1>1, <1>3, <1>4, SetupLocal
<1>5. CASE /\ Go(i, "failed") /\ server' = [server EXCEPT ![i] = new]
           /\ UNCHANGED faults \/ faults' = faults \cup {<<step, i>>}
  <2>1. UNCHANGED faults \/ ("failed" = "failed" /\ \E f : faults' = faults \cup {f})
    BY <1>5
  <2>. QED  BY <1>1, <1>2, <1>3, <1>5, <2>1, SetupLocal
<1>6. CASE /\ Go(i, "failed") /\ server' = [server EXCEPT ![i] = old]
           /\ UNCHANGED faults \/ faults' = faults \cup {<<step, i>>}
  <2>1. UNCHANGED faults \/ ("failed" = "failed" /\ \E f : faults' = faults \cup {f})
    BY <1>6
  <2>. QED  BY <1>1, <1>2, <1>3, <1>6, <2>1, SetupLocal
<1>. QED  BY <1>1, <1>4, <1>5, <1>6

LEMMA SetupNodeCluster ==
  ASSUME ClusterInv, NEW i \in Node, NodeNext(i), main # "crashed", setup = "nodes"
  PROVE  Cluster'
<1>1. main = "setup" /\ node[i] \in SetupNode
  BY NodesRun
<1>2. /\ Sound(server[i]) /\ Untouched(server[i]) /\ Prepared(server[i], node[i])
      /\ server[i] \in Server
  BY DEF ClusterInv, Cluster, Servers, Safe, TypeInv, TypeOK
<1>. /\ {"configure", "versions", "install", "port", "restart", "udf", "custom", "myrocks", "engine",
         "pmmClient", "pmmUser", "pmmCfg", "orcUser", "orcClient", "init"} \subseteq SetupNode
     /\ FromOrchestrator \in SetupNode \cup {"done"} /\ FromPmm \in SetupNode \cup {"done"}
     /\ FromMyRocks \in SetupNode \cup {"done"} /\ FromCustom \in SetupNode \cup {"done"}
  BY DEF SetupNode, FromOrchestrator, FromPmm, FromMyRocks, FromCustom
<1>3. ASSUME NEW setting \in {"port", "custom", "engine", "pmm"}
      PROVE  /\ Sound(Edited(i, setting)) /\ Untouched(Edited(i, setting))
             /\ Edited(i, setting).has = server[i].has
             /\ Edited(i, setting).file = server[i].file \cup {setting}
  BY <1>2 DEF Edited, Sound, Untouched, Server
<1>4. ASSUME NEW part
      PROVE  /\ Sound(With(i, part)) /\ Untouched(With(i, part))
             /\ With(i, part).has = server[i].has \cup {part}
             /\ With(i, part).file = server[i].file
  BY <1>2 DEF With, Sound, Untouched, Server
<1>. HIDE DEF SetupNode
<1>5. CASE NodeInit(i) \/ Configure(i) \/ VersionList(i)
  <2>. PICK new : new = server[i]
    OBVIOUS
  <2>1. Prepared(new, "configure") /\ Prepared(new, "versions") /\ Prepared(new, "install")
    BY DEF Prepared, FromPmmStep
  <2>2. \/ Work(i, "init", TRUE, new, "configure") \/ Work(i, "configure", TRUE, new, "versions")
        \/ Work(i, "versions", TRUE, new, "install")
    BY <1>5 DEF NodeInit, Configure, VersionList
  <2>. QED  BY <1>1, <1>2, <2>1, <2>2, SetupWork
<1>6. CASE InstallPerconaServer(i)
  <2>. PICK new : new = [server[i] EXCEPT !.up = TRUE]
    OBVIOUS
  <2>1. Sound(new) /\ Untouched(new) /\ Prepared(new, "port")
    BY <1>2 DEF Sound, Untouched, Server, Prepared, FromPmmStep
  <2>2. Work(i, "install", TRUE, new, "port")
    BY <1>6 DEF InstallPerconaServer
  <2>. QED  BY <1>1, <2>1, <2>2, SetupWork
<1>7. CASE SetPort(i)
  <2>. PICK new : new = Edited(i, "port")
    OBVIOUS
  <2>1. Sound(new) /\ Untouched(new) /\ Prepared(new, "restart")
    BY <1>3 DEF Prepared, FromPmmStep
  <2>2. Work(i, "port", TRUE, new, "restart")
    BY <1>7 DEF SetPort
  <2>. QED  BY <1>1, <2>1, <2>2, SetupWork
<1>8. CASE Restart(i)
  <2>. PICK new, down, old : /\ new = Restarted(i) /\ down = [server[i] EXCEPT !.up = FALSE]
                             /\ old = server[i]
    OBVIOUS
  <2>1. /\ [server EXCEPT ![i].up = FALSE] = [server EXCEPT ![i] = down]
        /\ server = [server EXCEPT ![i] = old]
    BY DEF ClusterInv, TypeInv, TypeOK
  <2>2. /\ node[i] = "restart" /\ NodeOnly /\ UNCHANGED err
        /\ \/ Go(i, "udf") /\ server' = [server EXCEPT ![i] = new] /\ UNCHANGED faults
           \/ /\ Go(i, "failed")
              /\ \/ server' = [server EXCEPT ![i] = new] \/ server' = [server EXCEPT ![i] = old]
                 \/ server' = [server EXCEPT ![i] = down]
              /\ UNCHANGED faults \/ \E f : faults' = faults \cup {f}
    BY <1>8, <2>1 DEF Restart, TryRestart, Try, Then, Refused, Fault
  <2>3. /\ Sound(new) /\ Untouched(new) /\ Sound(down) /\ Untouched(down)
        /\ Sound(old) /\ Untouched(old)
        /\ \A s : Prepared(s, "udf") /\ Prepared(s, "failed")
    BY <1>2 DEF Restarted, Sound, Untouched, Server, Prepared, FromPmmStep
  <2>4. node[i] # "failed" /\ "failed" \in SetupNode \cup {"done", "failed"}
    BY <2>2
  <2>5. CASE Go(i, "udf") /\ server' = [server EXCEPT ![i] = new] /\ UNCHANGED faults
    BY <1>1, <2>2, <2>3, <2>4, <2>5, SetupLocal
  <2>6. ASSUME NEW any \in {new, old, down}, Go(i, "failed"), server' = [server EXCEPT ![i] = any],
               UNCHANGED faults \/ \E f : faults' = faults \cup {f}
        PROVE  Cluster'
    <3>1. Sound(any) /\ Untouched(any) /\ Prepared(any, "failed")
      BY <2>3
    <3>2. UNCHANGED faults \/ ("failed" = "failed" /\ \E f : faults' = faults \cup {f})
      BY <2>6
    <3>. QED  BY <1>1, <2>2, <2>4, <2>6, <3>1, <3>2, SetupLocal
  <2>. QED  BY <2>2, <2>5, <2>6
<1>9. CASE InstallUDF(i)
  <2>. PICK new, next, may : new = With(i, "udf") /\ next = FromCustom /\ may = Sql(i)
    OBVIOUS
  <2>1. node[i] = "udf" /\ Work(i, "udf", may, new, next)
    BY <1>9 DEF InstallUDF, Work
  <2>2. Prepared(new, next)
    BY <1>2, <1>4, <2>1 DEF Prepared, FromPmmStep, FromCustom, FromMyRocks, FromPmm, FromOrchestrator
  <2>. QED  BY <1>1, <1>4, <2>1, <2>2, SetupWork
<1>10. CASE SendConfig(i)
  <2>. PICK new, next, may : new = Edited(i, "custom") /\ next = FromMyRocks /\ may = TRUE
    OBVIOUS
  <2>1. node[i] = "custom" /\ Work(i, "custom", may, new, next)
    BY <1>10 DEF SendConfig, Work
  <2>2. Prepared(new, next)
    BY <1>2, <1>3, <2>1 DEF Prepared, FromPmmStep, FromMyRocks, FromPmm, FromOrchestrator
  <2>. QED  BY <1>1, <1>3, <2>1, <2>2, SetupWork
<1>11. CASE InstallMyRocks(i)
  <2>. PICK new, next, may : new = With(i, "rocksdb") /\ next = "engine" /\ may = Sql(i)
    OBVIOUS
  <2>1. node[i] = "myrocks" /\ Work(i, "myrocks", may, new, next)
    BY <1>11 DEF InstallMyRocks, Work
  <2>2. Prepared(new, next)
    BY <1>2, <1>4, <2>1 DEF Prepared, FromPmmStep
  <2>. QED  BY <1>1, <1>4, <2>1, <2>2, SetupWork
<1>12. CASE SetEngine(i)
  <2>. PICK new, next, may : new = Edited(i, "engine") /\ next = FromPmm /\ may = TRUE
    OBVIOUS
  <2>1. node[i] = "engine" /\ Work(i, "engine", may, new, next)
    BY <1>12 DEF SetEngine, Work
  <2>2. Prepared(new, next)
    BY <1>2, <1>3, <2>1 DEF Prepared, FromPmmStep, FromPmm, FromOrchestrator
  <2>. QED  BY <1>1, <1>3, <2>1, <2>2, SetupWork
<1>13. CASE InstallPMMClient(i)
  <2>. PICK new, next, may : new = server[i] /\ next = "pmmUser" /\ may = TRUE
    OBVIOUS
  <2>1. node[i] = "pmmClient" /\ Work(i, "pmmClient", may, new, next)
    BY <1>13 DEF InstallPMMClient, Work
  <2>2. Prepared(new, next)
    BY <1>2, <2>1 DEF Prepared, FromPmmStep
  <2>. QED  BY <1>1, <1>2, <2>1, <2>2, SetupWork
<1>14. CASE CreatePMMUser(i)
  <2>. PICK new, next, may : new = With(i, "pmmUser") /\ next = "pmmCfg" /\ may = Sql(i)
    OBVIOUS
  <2>1. node[i] = "pmmUser" /\ Work(i, "pmmUser", may, new, next)
    BY <1>14 DEF CreatePMMUser, Work
  <2>2. Prepared(new, next)
    BY <1>2, <1>4, <2>1 DEF Prepared, FromPmmStep
  <2>. QED  BY <1>1, <1>4, <2>1, <2>2, SetupWork
<1>15. CASE SetSlowLog(i)
  <2>. PICK new, next, may : new = Edited(i, "pmm") /\ next = FromOrchestrator /\ may = TRUE
    OBVIOUS
  <2>1. node[i] = "pmmCfg" /\ Work(i, "pmmCfg", may, new, next)
    BY <1>15 DEF SetSlowLog, Work
  <2>2. Prepared(new, next)
    BY <1>2, <1>3, <2>1 DEF Prepared, FromPmmStep, FromOrchestrator
  <2>. QED  BY <1>1, <1>3, <2>1, <2>2, SetupWork
<1>16. CASE CreateOrchestratorUser(i)
  <2>. PICK new, next, may : new = With(i, "orcUser") /\ next = "orcClient" /\ may = Sql(i)
    OBVIOUS
  <2>1. node[i] = "orcUser" /\ Work(i, "orcUser", may, new, next)
    BY <1>16 DEF CreateOrchestratorUser, Work
  <2>2. Prepared(new, next)
    BY <1>2, <1>4, <2>1 DEF Prepared, FromPmmStep
  <2>. QED  BY <1>1, <1>4, <2>1, <2>2, SetupWork
<1>17. CASE InstallOrchestratorClient(i)
  <2>. PICK new, next, may : new = With(i, "orcClient") /\ next = "done" /\ may = TRUE
    OBVIOUS
  <2>1. node[i] = "orcClient" /\ Work(i, "orcClient", may, new, next)
    BY <1>17 DEF InstallOrchestratorClient, Work
  <2>2. Prepared(new, next)
    BY <1>2, <1>4, <2>1 DEF Prepared, FromPmmStep
  <2>. QED  BY <1>1, <1>4, <2>1, <2>2, SetupWork
<1>18. node[i] \notin GroupNode
  BY <1>1 DEF SetupNode, GroupNode
<1>19. ~(\/ EditGroupConfig(i) \/ RestartGroup(i) \/ CheckErr(i) \/ WrapErr(i) \/ TornErr(i)
        \/ CreateReplicaUser(i) \/ ChangeGroupSource(i)
        \/ BootstrapOn(i) \/ StartGroup(i) \/ BootstrapOff(i))
  BY <1>18 DEF EditGroupConfig, RestartGroup, CheckErr, WrapErr, TornErr, CreateReplicaUser,
     ChangeGroupSource, BootstrapOn, StartGroup, BootstrapOff, Work, GroupNode
<1>. QED
  BY <1>5, <1>6, <1>7, <1>8, <1>9, <1>10, <1>11, <1>12, <1>13, <1>14, <1>15, <1>16, <1>17, <1>19 DEF NodeNext

-----------------------------------------------------------------------------
(* The goroutines that set up the group.                                   *)

\* Safe, for a server of a group.
GroupSafe(i, s) ==
  /\ Sound(s)
  /\ s.boot => i = 1
  /\ s.follows \in {0, 1}
  /\ s.follows # 0 =>
       /\ s.up /\ "port" \in s.loaded /\ "replication" \in s.loaded
       /\ i = 1 => {"replicaUser", "source"} \subseteq s.has

LEMMA SafeInGroup ==
  ASSUME Group, NEW i \in Node PROVE Safe(i) <=> GroupSafe(i, server[i])
  BY DEF Safe, GroupSafe, Sql, Group, Async

LEMMA GroupLocal ==
  ASSUME ClusterInv, NEW i \in Node, main = "setup", setup = "groupNodes", NodeOnly,
         NEW new, server' = [server EXCEPT ![i] = new],
         server[i].has \subseteq new.has, server[i].file \subseteq new.file,
         NEW s \in GroupNode \cup {"done", "failed"}, Go(i, s), node[i] # "failed",
         GroupSafe(i, new), Member(i, new, s),
         UNCHANGED err \/ err' \in {"nil", "error"},
         err' = "error" => Excused',
         s = "grWrap" => Excused' /\ (err' = "nil" => Size > 1),
         \/ UNCHANGED faults
         \/ \E f : faults' = faults \cup {f} /\ (s = "failed" \/ f[1] = "grRestart")
  PROVE  Cluster'
<1>1. /\ Node' = Node /\ Host' = Host /\ Group' = Group /\ Async' = Async
      /\ Options' = Options /\ OrchSize' = OrchSize /\ Size' = Size /\ 1 \in Node
      /\ node' = [node EXCEPT ![i] = s] /\ node \in [Node -> NodeStep]
      /\ server \in [Node -> Server] /\ UNCHANGED <<conf, main, setup, orc, cur, host, serving>>
      /\ Group /\ \A j \in Node : j \in Nat /\ j >= 1 /\ j <= Size
      /\ Size \in Nat
  BY ConfSame, SizeIsNat DEF NodeOnly, Go, ClusterInv, TypeInv, TypeOK, Cluster, Places
<1>2. /\ node'[i] = s /\ \A j \in Node \ {i} : node'[j] = node[j]
      /\ server'[i] = new /\ \A j \in Node \ {i} : server'[j] = server[j]
  BY <1>1
<1>3. Places'
  BY <1>1, <1>2 DEF ClusterInv, Cluster, Places, Joined, AsyncStep, MemberStep
<1>4. (Troubled => Troubled') /\ (s = "failed" => Troubled')
  BY <1>1, <1>2 DEF Troubled
<1>5. Excused => Excused'
  BY <1>1, <1>4 DEF Excused, ErrorErased
<1>6. Errors'
  <2>1. \A f \in faults' :
           f[1] \in {"discover", "outputs"} \/ (Group /\ f[1] = "grRestart") \/ Troubled'
    BY <1>1, <1>4 DEF ClusterInv, Cluster, Errors
  <2>2. err' = "error" => Excused'
    OBVIOUS
  <2>3. ASSUME NEW j \in Node, node'[j] = "grWrap"
        PROVE  Excused' /\ (err' = "nil" => Size > 1)
    <3>1. CASE j = i
      BY <1>2, <2>3, <3>1
    <3>2. CASE j # i
      <4>1. Excused
        BY <1>2, <2>3, <3>2 DEF ClusterInv, Cluster, Errors
      <4>2. Size > 1
        BY <1>1, <3>2
      <4>. QED  BY <1>5, <4>1, <4>2
    <3>. QED  BY <3>1, <3>2
  <2>. QED  BY <1>1, <2>1, <2>2, <2>3 DEF Errors
<1>7. ASSUME NEW j \in Node PROVE Safe(j)'
  <2>1. CASE j = i
    BY <1>1, <1>2, <2>1 DEF Safe, GroupSafe, Sql, Group, Async
  <2>2. CASE j # i
    <3>1. server'[j] = server[j] /\ Safe(j)
      BY <1>2, <2>2 DEF ClusterInv, Cluster, Servers
    <3>. QED  BY <1>1, <3>1 DEF Safe, Sql, Group, Async
  <2>. QED  BY <2>1, <2>2
<1>8. ASSUME NEW j \in Node PROVE Prepared(server[j], "done")'
  <2>1. Prepared(server[j], "done")
    BY DEF ClusterInv, Cluster, Servers
  <2>2. server[j].has \subseteq server'[j].has /\ server[j].file \subseteq server'[j].file
    BY <1>2
  <2>. QED  BY <1>1, <2>1, <2>2 DEF Prepared
<1>9. ASSUME NEW j \in Node PROVE Member(j, server[j], node[j])'
  <2>1. CASE j = i
    <3>1. Member(i, new, s)'
      BY <1>1, <1>5 DEF Member
    <3>. QED  BY <1>2, <2>1, <3>1 DEF Member
  <2>2. CASE j # i
    <3>1. server'[j] = server[j] /\ node'[j] = node[j] /\ Member(j, server[j], node[j])
      BY <1>2, <2>2 DEF ClusterInv, Cluster, Servers
    <3>. QED  BY <1>1, <1>5, <3>1 DEF Member
  <2>. QED  BY <2>1, <2>2
<1>10. Servers'
  BY <1>1, <1>7, <1>8, <1>9 DEF Servers
<1>11. AsyncLoop' /\ GroupLoop'
  BY <1>1 DEF AsyncLoop, GroupLoop, AsyncStep, MemberStep
<1>. QED  BY <1>3, <1>6, <1>10, <1>11 DEF Cluster

\* What is known before one of their steps.
LEMMA GroupFacts ==
  ASSUME ClusterInv, NEW i \in Node, setup = "groupNodes"
  PROVE  /\ Group /\ GroupSafe(i, server[i]) /\ Member(i, server[i], node[i])
         /\ server[i] \in Server /\ TypeOK
         /\ i \in Nat /\ i >= 1 /\ i <= Size /\ Size \in Nat
         /\ \A j \in Node \ {i} : i = 1 => server[j].follows = 0
<1>1. Group
  BY DEF ClusterInv, Cluster, Places
<1>2. \A j \in Node : Member(j, server[j], node[j]) /\ Safe(j) /\ j \in Nat /\ j >= 1 /\ j <= Size
  BY SizeIsNat DEF ClusterInv, TypeInv, Cluster, Servers
<1>. QED  BY <1>1, <1>2, SizeIsNat, SafeInGroup DEF ClusterInv, TypeInv, TypeOK, Member

LEMMA GroupWork ==
  ASSUME ClusterInv, NEW i \in Node, main = "setup", setup = "groupNodes",
         NEW step \in GroupNode, NEW may, NEW new, NEW next \in GroupNode \cup {"done"},
         Work(i, step, may, new, next), next # "grWrap",
         server[i].has \subseteq new.has, server[i].file \subseteq new.file,
         may => GroupSafe(i, new) /\ Member(i, new, next)
  PROVE  Cluster'
<1>. PICK old : old = server[i]
  OBVIOUS
<1>1. /\ node[i] = step /\ NodeOnly /\ UNCHANGED err
      /\ \/ Go(i, next) /\ may /\ server' = [server EXCEPT ![i] = new] /\ UNCHANGED faults
         \/ /\ Go(i, "failed")
            /\ (may /\ server' = [server EXCEPT ![i] = new]) \/ server' = [server EXCEPT ![i] = old]
            /\ UNCHANGED faults \/ faults' = faults \cup {<<step, i>>}
  BY WorkShape DEF ClusterInv, TypeInv
<1>2. /\ GroupSafe(i, old) /\ Member(i, old, "failed")
      /\ may => Member(i, new, "failed")
  BY GroupFacts DEF Member, GroupNode
<1>3. node[i] # "failed" /\ "failed" \in GroupNode \cup {"done", "failed"} /\ "failed" # "grWrap"
  BY <1>1 DEF GroupNode
<1>4. err' = "error" => Excused'
  <2>2. Go(i, next) => (Troubled => Troubled')
    BY <1>1, <1>3, ConfSame DEF Troubled, Go, NodeOnly, ClusterInv, TypeInv, TypeOK
  <2>3. ErrorErased => ErrorErased'
    BY <1>1, ConfSame DEF ErrorErased, NodeOnly
  <2>4. Go(i, "failed") => Troubled'
    BY <1>1, ConfSame DEF Troubled, Go, NodeOnly, ClusterInv, TypeInv, TypeOK
  <2>. QED  BY <1>1, <2>2, <2>3, <2>4 DEF Excused, ClusterInv, Cluster, Errors
<1>5. CASE Go(i, next) /\ may /\ server' = [server EXCEPT ![i] = new] /\ UNCHANGED faults
  BY <1>1, <1>3, <1>4, <1>5, GroupLocal
<1>6. ASSUME NEW any, Go(i, "failed"), server' = [server EXCEPT ![i] = any],
             GroupSafe(i, any), Member(i, any, "failed"),
             server[i].has \subseteq any.has, server[i].file \subseteq any.file,
             UNCHANGED faults \/ faults' = faults \cup {<<step, i>>}
      PROVE  Cluster'
  <2>1. \/ UNCHANGED faults
        \/ \E f : faults' = faults \cup {f} /\ ("failed" = "failed" \/ f[1] = "grRestart")
    BY <1>6
  <2>. QED  BY <1>1, <1>3, <1>4, <1>6, <2>1, GroupLocal
<1>. QED  BY <1>1, <1>2, <1>5, <1>6

\* Nothing is in the group but the server that bootstraps it.
LEMMA BootGroup ==
  ASSUME ClusterInv, setup = "groupNodes", 1 \in Node, NEW g \in Groups(1), g # 0
  PROVE  /\ g = 1 /\ server[1].up
         /\ "port" \in server[1].loaded /\ "replication" \in server[1].loaded
<1>1. {server[j].follows : j \in {k \in Node \ {1} : server[k].follows # 0}} = {}
  BY GroupFacts
<1>. QED  BY <1>1 DEF Groups, Joinable, Sql

LEMMA RestartGroupCluster ==
  ASSUME ClusterInv, NEW i \in Node, main = "setup", setup = "groupNodes", RestartGroup(i)
  PROVE  Cluster'
<1>. PICK new, down, old : /\ new = Restarted(i) /\ down = [server[i] EXCEPT !.up = FALSE]
                           /\ old = server[i]
  OBVIOUS
<1>1. /\ [server EXCEPT ![i].up = FALSE] = [server EXCEPT ![i] = down]
      /\ server = [server EXCEPT ![i] = old]
  BY DEF ClusterInv, TypeInv, TypeOK
<1>2. /\ node[i] = "grRestart" /\ NodeOnly /\ Go(i, "grCheck")
      /\ \/ err' = "nil" /\ UNCHANGED faults
         \/ /\ err' = "error"
            /\ (UNCHANGED faults /\ NodesCancelled) \/ faults' = faults \cup {<<"grRestart", i>>}
      /\ \/ server' = [server EXCEPT ![i] = new] \/ server' = [server EXCEPT ![i] = old]
         \/ server' = [server EXCEPT ![i] = down]
  BY <1>1 DEF RestartGroup, TryRestart, Try, Refused, Fault
<1>3. /\ GroupSafe(i, old) /\ Member(i, old, "grRestart") /\ old \in Server
  BY <1>2, GroupFacts
<1>4. ASSUME NEW any \in {new, old, down}
      PROVE  /\ GroupSafe(i, any) /\ Member(i, any, "grCheck")
             /\ server[i].has \subseteq any.has /\ server[i].file \subseteq any.file
  <2>1. /\ any.has = old.has /\ any.file = old.file /\ any.follows = old.follows
        /\ any.boot = old.boot /\ any.loaded \in {old.loaded, old.file}
    BY <1>3, <1>4 DEF Restarted, Server
  <2>2. old.follows = 0 /\ ~old.boot
    BY <1>3 DEF Member, GroupNode
  <2>. QED  BY <1>3, <2>1, <2>2 DEF GroupSafe, Sound, Member
<1>5. err' = "error" => Excused'
  <2>1. CASE faults' = faults \cup {<<"grRestart", i>>}
    BY <1>2, <2>1, ConfSame DEF Excused, ErrorErased, NodeOnly
  <2>2. CASE NodesCancelled
    BY <1>2, <2>2, ConfSame DEF NodesCancelled, ClusterCancelled, Excused, Troubled, NodeOnly, Go,
       ClusterInv, TypeInv, TypeOK
  <2>. QED  BY <1>2, <2>1, <2>2
<1>6. \/ UNCHANGED faults
      \/ \E f : faults' = faults \cup {f} /\ ("grCheck" = "failed" \/ f[1] = "grRestart")
  BY <1>2
<1>7. "grCheck" \in GroupNode \cup {"done", "failed"} /\ node[i] # "failed" /\ "grCheck" # "grWrap"
  BY <1>2 DEF GroupNode
<1>8. err' \in {"nil", "error"}
  BY <1>2
<1>9. ASSUME NEW any \in {new, old, down}, server' = [server EXCEPT ![i] = any] PROVE Cluster'
  BY <1>2, <1>4, <1>5, <1>6, <1>7, <1>8, <1>9, GroupLocal
<1>. QED  BY <1>2, <1>9

LEMMA CheckCluster ==
  ASSUME ClusterInv, NEW i \in Node, main = "setup", setup = "groupNodes",
         CheckErr(i) \/ WrapErr(i)
  PROVE  Cluster'
<1>. PICK old : old = server[i]
  OBVIOUS
<1>1. /\ server' = [server EXCEPT ![i] = old] /\ NodeOnly /\ UNCHANGED <<err, faults>>
      /\ node[i] # "failed"
  BY DEF CheckErr, WrapErr, ClusterInv, TypeInv, TypeOK
<1>2. /\ GroupSafe(i, old) /\ Member(i, old, node[i])
      /\ old.has \subseteq old.has /\ old.file \subseteq old.file
  BY GroupFacts
<1>3. ASSUME NEW s \in {"grUser", "grWrap", "done", "failed"}, Go(i, s)
      PROVE  Excused => Excused'
  <2>1. node[i] \in {"grCheck", "grWrap"}
    BY DEF CheckErr, WrapErr
  <2>. QED
    BY <1>1, <1>3, <2>1, ConfSame DEF Excused, ErrorErased, Troubled, NodeOnly, Go, ClusterInv, TypeInv, TypeOK
<1>4. err = "error" => Excused
  BY DEF ClusterInv, Cluster, Errors
<1>5. ASSUME NEW s \in {"grUser", "grWrap", "done", "failed"}, Go(i, s), Member(i, old, s),
             s = "grWrap" => err = "error"
      PROVE  Cluster'
  <2>1. err' = "error" => Excused'
    BY <1>1, <1>3, <1>4, <1>5
  <2>2. s = "grWrap" => Excused' /\ (err' = "nil" => Size > 1)
    BY <1>1, <1>5, <2>1
  <2>3. s \in GroupNode \cup {"done", "failed"}
    BY DEF GroupNode
  <2>4. UNCHANGED err /\ UNCHANGED faults
    BY <1>1
  <2>. QED  BY <1>1, <1>2, <1>5, <2>1, <2>2, <2>3, <2>4, GroupLocal
<1>6. CASE CheckErr(i)
  <2>1. /\ node[i] = "grCheck"
        /\ \/ err = "nil" /\ (Go(i, "grUser") \/ Go(i, "failed"))
           \/ err = "error" /\ Go(i, "grWrap")
    BY <1>6 DEF CheckErr, Then, ClusterInv, TypeInv, TypeOK
  <2>2. Member(i, old, "grUser") /\ Member(i, old, "grWrap") /\ Member(i, old, "failed")
    BY <1>2, <2>1 DEF Member, GroupNode
  <2>. QED  BY <1>5, <2>1, <2>2
<1>7. CASE WrapErr(i)
  <2>1. /\ node[i] = "grWrap"
        /\ \/ err = "nil" /\ Go(i, "done")
           \/ Go(i, "failed")
    BY <1>7 DEF WrapErr
  <2>2. Excused /\ (err = "nil" => Size > 1)
    BY <2>1 DEF ClusterInv, Cluster, Errors
  <2>3. Member(i, old, "failed") /\ (err = "nil" => Member(i, old, "done"))
    <3>1. i \in Nat /\ Size \in Nat
      BY GroupFacts
    <3>. QED  BY <1>2, <2>1, <2>2, <3>1 DEF Member, GroupNode
  <2>. QED  BY <1>5, <2>1, <2>3
<1>. QED  BY <1>6, <1>7

LEMMA TornCluster ==
  ASSUME ClusterInv, NEW i \in Node, main = "setup", setup = "groupNodes", TornErr(i)
  PROVE  Cluster'
<1>1. main' = "crashed" /\ UNCHANGED <<conf, setup, orc, cur, node, host, err, server, serving, faults>>
  BY DEF TornErr
<1>2. Node' = Node /\ Host' = Host /\ Group' = Group /\ Async' = Async
  BY <1>1, ConfSame
<1>3. Places'
  BY <1>1, <1>2 DEF ClusterInv, Cluster, Places
<1>4. Troubled => Troubled'
  BY <1>1, <1>2 DEF Troubled
<1>5. Errors' /\ (Excused => Excused')
  BY <1>1, <1>4, ErrorsStep DEF ClusterInv, Cluster
<1>6. Servers' /\ AsyncLoop' /\ GroupLoop'
  BY <1>1, <1>5, SameGrown, ServersKeep
<1>. QED  BY <1>3, <1>5, <1>6 DEF Cluster

LEMMA GroupNodeCluster ==
  ASSUME ClusterInv, NEW i \in Node, NodeNext(i), main # "crashed", setup = "groupNodes"
  PROVE  Cluster'
<1>1. main = "setup" /\ node[i] \in GroupNode
  BY NodesRun DEF SetupNode
<1>2. /\ GroupSafe(i, server[i]) /\ Member(i, server[i], node[i]) /\ server[i] \in Server
      /\ i \in Nat /\ i >= 1 /\ i <= Size /\ Size \in Nat
  BY GroupFacts
<1>. {"grEdit", "grRestart", "grCheck", "grUser", "grSource", "grBootOn", "grStart",
      "grBootOff"} \subseteq GroupNode
  BY DEF GroupNode
<1>3. CASE EditGroupConfig(i)
  <2>. PICK new : new = Edited(i, "replication")
    OBVIOUS
  <2>1. node[i] = "grEdit" /\ Work(i, "grEdit", TRUE, new, "grRestart")
    BY <1>3 DEF EditGroupConfig, Work
  <2>2. /\ new.file = server[i].file \cup {"replication"} /\ new.has = server[i].has
        /\ new.loaded = server[i].loaded /\ new.follows = server[i].follows
        /\ new.boot = server[i].boot /\ new.up = server[i].up
    BY <1>2 DEF Edited, Server
  <2>3. GroupSafe(i, new) /\ Member(i, new, "grRestart")
    BY <1>2, <2>1, <2>2 DEF GroupSafe, Sound, Member, GroupNode
  <2>. QED  BY <1>1, <2>1, <2>2, <2>3, GroupWork
<1>4. ASSUME NEW part, NEW new, new = With(i, part)
      PROVE  /\ new.has = server[i].has \cup {part} /\ new.file = server[i].file
             /\ new.loaded = server[i].loaded /\ new.follows = server[i].follows
             /\ new.boot = server[i].boot /\ new.up = server[i].up
  BY <1>2, <1>4 DEF With, Server
<1>5. CASE CreateReplicaUser(i)
  <2>. PICK new, next, may : new = With(i, "replicaUser") /\ next = AfterReplicaUser(i) /\ may = Sql(i)
    OBVIOUS
  <2>1. node[i] = "grUser" /\ Work(i, "grUser", may, new, next)
    BY <1>5 DEF CreateReplicaUser, Work
  <2>2. /\ new.has = server[i].has \cup {"replicaUser"} /\ new.file = server[i].file
        /\ new.loaded = server[i].loaded /\ new.follows = server[i].follows
        /\ new.boot = server[i].boot /\ new.up = server[i].up
    BY <1>4
  <2>3. next \in {"grSource", "done"} /\ (next = "grSource" <=> i = 1)
    BY DEF AfterReplicaUser
  <2>4. GroupSafe(i, new)
    BY <1>2, <2>2 DEF GroupSafe, Sound
  <2>5. Member(i, new, next)
    BY <1>2, <2>1, <2>2, <2>3 DEF Member, GroupNode
  <2>6. /\ next \in GroupNode \cup {"done"} /\ next # "grWrap"
        /\ server[i].has \subseteq new.has /\ server[i].file \subseteq new.file
    BY <2>2, <2>3
  <2>. QED  BY <1>1, <2>1, <2>4, <2>5, <2>6, GroupWork
<1>6. CASE ChangeGroupSource(i)
  <2>. PICK new, may : new = With(i, "source") /\ may = Sql(i)
    OBVIOUS
  <2>1. node[i] = "grSource" /\ Work(i, "grSource", may, new, "grBootOn")
    BY <1>6 DEF ChangeGroupSource, Work
  <2>2. /\ new.has = server[i].has \cup {"source"} /\ new.file = server[i].file
        /\ new.loaded = server[i].loaded /\ new.follows = server[i].follows
        /\ new.boot = server[i].boot /\ new.up = server[i].up
    BY <1>4
  <2>3. GroupSafe(i, new) /\ Member(i, new, "grBootOn")
    BY <1>2, <2>1, <2>2 DEF GroupSafe, Sound, Member, GroupNode
  <2>4. server[i].has \subseteq new.has /\ server[i].file \subseteq new.file
    BY <2>2
  <2>. QED  BY <1>1, <2>1, <2>3, <2>4, GroupWork
<1>7. CASE BootstrapOn(i)
  <2>. PICK new, may : /\ new = [server[i] EXCEPT !.boot = TRUE]
                       /\ may = (Sql(i) /\ "replication" \in server[i].loaded)
    OBVIOUS
  <2>1. node[i] = "grBootOn" /\ Work(i, "grBootOn", may, new, "grStart")
    BY <1>7 DEF BootstrapOn, Work
  <2>2. /\ new.has = server[i].has /\ new.file = server[i].file
        /\ new.loaded = server[i].loaded /\ new.follows = server[i].follows
        /\ new.up = server[i].up
    BY <1>2 DEF Server
  <2>3. GroupSafe(i, new) /\ Member(i, new, "grStart")
    BY <1>2, <2>1, <2>2 DEF GroupSafe, Sound, Member, GroupNode
  <2>4. server[i].has \subseteq new.has /\ server[i].file \subseteq new.file
    BY <2>2
  <2>. QED  BY <1>1, <2>1, <2>3, <2>4, GroupWork
<1>8. CASE StartGroup(i)
  <2>. PICK g \in Groups(i) :
         Work(i, "grStart", g # 0, [server[i] EXCEPT !.follows = g], "grBootOff")
    BY <1>8 DEF StartGroup
  <2>. PICK new, may : new = [server[i] EXCEPT !.follows = g] /\ may = (g # 0)
    OBVIOUS
  <2>1. node[i] = "grStart" /\ Work(i, "grStart", may, new, "grBootOff")
    BY DEF Work
  <2>2. i = 1 /\ Member(i, server[i], "grStart")
    BY <1>2, <2>1 DEF Member
  <2>3. /\ new.has = server[i].has /\ new.file = server[i].file
        /\ new.loaded = server[i].loaded /\ new.follows = g
        /\ new.boot = server[i].boot /\ new.up = server[i].up
    BY <1>2 DEF Server
  <2>4. may => /\ g = 1 /\ server[i].up
               /\ "port" \in server[i].loaded /\ "replication" \in server[i].loaded
    BY <2>2, BootGroup
  <2>5. may => GroupSafe(i, new) /\ Member(i, new, "grBootOff")
    BY <1>2, <2>2, <2>3, <2>4 DEF GroupSafe, Sound, Member, GroupNode
  <2>6. server[i].has \subseteq new.has /\ server[i].file \subseteq new.file
    BY <2>3
  <2>. QED  BY <1>1, <2>1, <2>5, <2>6, GroupWork
<1>9. CASE BootstrapOff(i)
  <2>. PICK new, may : new = [server[i] EXCEPT !.boot = FALSE] /\ may = Sql(i)
    OBVIOUS
  <2>1. node[i] = "grBootOff" /\ Work(i, "grBootOff", may, new, "done")
    BY <1>9 DEF BootstrapOff, Work
  <2>2. /\ new.has = server[i].has /\ new.file = server[i].file
        /\ new.loaded = server[i].loaded /\ new.follows = server[i].follows
        /\ new.up = server[i].up /\ ~new.boot
    BY <1>2 DEF Server
  <2>3. GroupSafe(i, new) /\ Member(i, new, "done")
    BY <1>2, <2>1, <2>2 DEF GroupSafe, Sound, Member, GroupNode
  <2>4. server[i].has \subseteq new.has /\ server[i].file \subseteq new.file
    BY <2>2
  <2>. QED  BY <1>1, <2>1, <2>3, <2>4, GroupWork
<1>10. node[i] \notin SetupNode
  BY <1>1 DEF SetupNode, GroupNode
<1>11. ~(\/ NodeInit(i) \/ Configure(i) \/ VersionList(i) \/ InstallPerconaServer(i)
         \/ SetPort(i) \/ Restart(i) \/ InstallUDF(i) \/ SendConfig(i)
         \/ InstallMyRocks(i) \/ SetEngine(i)
         \/ InstallPMMClient(i) \/ CreatePMMUser(i) \/ SetSlowLog(i)
         \/ CreateOrchestratorUser(i) \/ InstallOrchestratorClient(i))
  BY <1>10 DEF NodeInit, Configure, VersionList, InstallPerconaServer, SetPort, Restart,
     InstallUDF, SendConfig, InstallMyRocks, SetEngine, InstallPMMClient, CreatePMMUser,
     SetSlowLog, CreateOrchestratorUser, InstallOrchestratorClient, Work, SetupNode
<1>. QED
  BY <1>1, <1>3, <1>5, <1>6, <1>7, <1>8, <1>9, <1>11, RestartGroupCluster, CheckCluster, TornCluster
     DEF NodeNext

-----------------------------------------------------------------------------
(* The goroutine that waits for them.                                      *)

LEMMA SetupErrors ==
  ASSUME ClusterInv, main = "setup", setup \notin {"done", "failed"}, SetupOnly,
         UNCHANGED node \/ \A i \in Node : node[i] # "failed" /\ node'[i] # "grWrap",
         UNCHANGED faults \/ (setup' = "failed" /\ \E f : faults' = faults \cup {f})
  PROVE  Errors' /\ (Excused => Excused')
<1>1. Node' = Node /\ Host' = Host /\ UNCHANGED <<conf, main, orc, host, err>>
  BY ConfSame DEF SetupOnly
<1>2. (Troubled => Troubled') /\ (setup' = "failed" => Troubled')
  BY <1>1 DEF Troubled
<1>3. \/ UNCHANGED faults
      \/ \E f : faults' = faults \cup {f} /\ (f[1] \in {"discover", "outputs"} \/ Troubled')
  BY <1>2
<1>. QED  BY <1>1, <1>2, <1>3, ErrorsStep DEF ClusterInv, Cluster

\* Create will end with an error, and nothing else is promised any more.
LEMMA FailCluster ==
  ASSUME ClusterInv, main = "setup", setup \notin {"done", "failed"}, SetupOnly,
         setup' = "failed", UNCHANGED node,
         \A i \in Node : node[i] \in {"idle", "done", "failed"},
         \A i \in Node : Safe(i)',
         UNCHANGED faults \/ \E f : faults' = faults \cup {f}
  PROVE  Cluster'
<1>1. /\ Node' = Node /\ Host' = Host /\ Group' = Group /\ Async' = Async
      /\ UNCHANGED <<conf, main, orc, host, err, serving>>
  BY ConfSame DEF SetupOnly
<1>2. Places'
  BY <1>1 DEF ClusterInv, Cluster, Places, Joined, AsyncStep, MemberStep
<1>3. Errors'
  BY SetupErrors
<1>4. Servers' /\ AsyncLoop' /\ GroupLoop'
  BY <1>1 DEF Servers, AsyncLoop, GroupLoop, Joined, AsyncStep, MemberStep
<1>. QED  BY <1>2, <1>3, <1>4 DEF Cluster

LEMMA SafeSame ==
  ASSUME ClusterInv, UNCHANGED <<conf, server>>, NEW i \in Node PROVE Safe(i)'
<1>1. Safe(i) /\ Async' = Async /\ Group' = Group
  BY ConfSame DEF ClusterInv, Cluster, Servers
<1>. QED  BY <1>1 DEF Safe, Sound, Sql

\* The step to the next command on the instances that were configured.
LEMMA JoinedCluster ==
  ASSUME ClusterInv, main = "setup", setup \notin {"done", "failed"}, SetupOnly,
         UNCHANGED <<node, faults>>, setup' \in Joined,
         \A i \in Node : node[i] = "done" /\ Prepared(server[i], "done"),
         \A i \in Node : server[i].has \subseteq server'[i].has /\ server[i].file \subseteq server'[i].file,
         \A i \in Node : Safe(i)',
         setup' \in AsyncStep => Async /\ AsyncLoop',
         setup' \in MemberStep => Group /\ GroupLoop',
         setup' \in {"pmmService", "done"} => \A i \in Node : Complete(i)',
         setup' = "pmmService" => \A i \in Node : i < cur' => "pmmService" \in server'[i].has,
         setup' = "done" /\ "pmm" \in Options => \A i \in Node : "pmmService" \in server'[i].has
  PROVE  Cluster'
<1>1. /\ Node' = Node /\ Host' = Host /\ Group' = Group /\ Async' = Async
      /\ Options' = Options /\ OrchSize' = OrchSize
      /\ UNCHANGED <<conf, main, orc, host, err, serving>>
  BY ConfSame DEF SetupOnly
<1>2. setup' \notin {"instances", "nodes", "groupNodes", "failed"}
  BY DEF Joined, AsyncStep, MemberStep
<1>3. Places'
  BY <1>1, <1>2 DEF ClusterInv, Cluster, Places, Joined, AsyncStep, MemberStep
<1>4. Errors'
  BY SetupErrors
<1>5. ASSUME NEW i \in Node PROVE Prepared(server[i], "done")'
  BY <1>1 DEF Prepared
<1>6. Servers'
  BY <1>1, <1>2, <1>5 DEF Servers
<1>7. AsyncLoop' /\ GroupLoop'
  BY DEF AsyncLoop, GroupLoop
<1>. QED  BY <1>3, <1>4, <1>6, <1>7 DEF Cluster

LEMMA CreateServersCluster ==
  ASSUME ClusterInv, main = "setup", CreateServers PROVE Cluster'
<1>1. /\ setup = "instances" /\ SetupOnly /\ UNCHANGED <<cur, server, conf>>
      /\ \/ setup' = "nodes" /\ node' = [i \in Node |-> "init"] /\ UNCHANGED faults
         \/ /\ setup' = "failed" /\ UNCHANGED node
            /\ UNCHANGED faults \/ \E f : faults' = faults \cup {f}
      /\ \A i \in Node : node[i] = "idle" /\ Untouched(server[i])
  BY DEF CreateServers, SetupOnly, Refused, Fault, ClusterInv, Cluster, Places, Servers
<1>2. \A i \in Node : Safe(i)'
  BY <1>1, SafeSame
<1>3. CASE setup' = "failed" /\ UNCHANGED node /\ (UNCHANGED faults \/ \E f : faults' = faults \cup {f})
  BY <1>1, <1>2, <1>3, FailCluster
<1>4. CASE setup' = "nodes" /\ node' = [i \in Node |-> "init"] /\ UNCHANGED faults
  <2>1. /\ Node' = Node /\ Host' = Host /\ Group' = Group /\ Async' = Async
        /\ UNCHANGED <<conf, main, orc, host, err, serving>>
    BY <1>1, ConfSame DEF SetupOnly
  <2>2. Places'
    BY <1>4, <2>1 DEF ClusterInv, Cluster, Places, SetupNode, Joined, AsyncStep, MemberStep
  <2>3. Errors'
    BY <1>1, <1>4, SetupErrors
  <2>4. \A i \in Node : Prepared(server[i], node[i])'
    BY <1>4, <2>1 DEF Prepared, FromPmmStep
  <2>5. Servers'
    BY <1>1, <1>2, <1>4, <2>1, <2>4 DEF Servers, Untouched, Joined, AsyncStep, MemberStep
  <2>6. AsyncLoop' /\ GroupLoop'
    BY <1>4 DEF AsyncLoop, GroupLoop, AsyncStep, MemberStep
  <2>. QED  BY <2>2, <2>3, <2>5, <2>6 DEF Cluster
<1>. QED  BY <1>1, <1>3, <1>4

LEMMA JoinNodesCluster ==
  ASSUME ClusterInv, main = "setup", JoinNodes PROVE Cluster'
<1>1. /\ setup = "nodes" /\ SetupOnly /\ UNCHANGED <<server, faults, conf>>
      /\ \A i \in Node : node[i] \in {"done", "failed"}
      /\ \A i \in Node : Untouched(server[i]) /\ Prepared(server[i], node[i])
      /\ 1 \in Node /\ TypeOK
  BY SizeIsNat DEF JoinNodes, AllEnded, SetupOnly, ClusterInv, TypeInv, Cluster, Servers
<1>2. \A i \in Node : Safe(i)'
  BY <1>1, SafeSame
<1>3. CASE setup' = "failed" /\ UNCHANGED node
  BY <1>1, <1>2, <1>3, FailCluster
<1>4. CASE /\ \A i \in Node : node[i] = "done"
           /\ Async /\ setup' = "replicaUser" /\ cur' = 1 /\ UNCHANGED node
  <2>1. Node' = Node /\ Size' = Size /\ \A i \in Node : i \in Nat /\ ~(i < 1)
    BY <1>1, ConfSame, SizeIsNat
  <2>2. AsyncLoop'
    BY <1>1, <1>4, <2>1 DEF AsyncLoop, Untouched
  <2>3. setup' \in Joined /\ setup' \notin MemberStep
    BY <1>4 DEF Joined, AsyncStep, MemberStep
  <2>4. \A i \in Node : node[i] = "done" /\ Prepared(server[i], "done")
    BY <1>1, <1>4 DEF Prepared
  <2>5. /\ \A i \in Node : server[i].has \subseteq server'[i].has /\ server[i].file \subseteq server'[i].file
        /\ setup \notin {"done", "failed"} /\ setup' \notin {"pmmService", "done"}
        /\ UNCHANGED <<node, faults>>
    BY <1>1, <1>4
  <2>. QED  BY <1>1, <1>2, <1>4, <2>2, <2>3, <2>4, <2>5, JoinedCluster
<1>5. CASE /\ \A i \in Node : node[i] = "done"
           /\ Group /\ setup' = "groupNodes" /\ cur' = 1 /\ node' = [i \in Node |-> "grEdit"]
  <2>1. /\ Node' = Node /\ Host' = Host /\ Group' = Group /\ Async' = Async
        /\ Options' = Options /\ OrchSize' = OrchSize
        /\ UNCHANGED <<conf, main, orc, host, err, serving>>
    BY <1>1, ConfSame DEF SetupOnly
  <2>2. Places'
    BY <1>5, <2>1 DEF ClusterInv, Cluster, Places, GroupNode, Joined, AsyncStep, MemberStep
  <2>3. Errors'
    BY <1>1, <1>5, SetupErrors
  <2>4. \A i \in Node : Prepared(server[i], "done")'
    BY <1>1, <1>5, <2>1 DEF Prepared
  <2>5. \A i \in Node : Member(i, server[i], node[i])'
    BY <1>1, <1>5, <2>1 DEF Member, Untouched, GroupNode
  <2>6. Servers'
    BY <1>2, <1>5, <2>1, <2>4, <2>5 DEF Servers
  <2>7. AsyncLoop' /\ GroupLoop'
    BY <1>5 DEF AsyncLoop, GroupLoop, AsyncStep, MemberStep
  <2>. QED  BY <2>2, <2>3, <2>6, <2>7 DEF Cluster
<1>6. \/ setup' = "failed" /\ UNCHANGED node
      \/ /\ \A i \in Node : node[i] = "done"
         /\ Async /\ setup' = "replicaUser" /\ cur' = 1 /\ UNCHANGED node
      \/ /\ \A i \in Node : node[i] = "done"
         /\ Group /\ setup' = "groupNodes" /\ cur' = 1 /\ node' = [i \in Node |-> "grEdit"]
  BY <1>1 DEF JoinNodes, Fail, Advance, Then, OneFailed, Async, Group
<1>. QED  BY <1>3, <1>4, <1>5, <1>6

\* All replicas run, or all members have joined.
LEMMA ReplicationDone ==
  ASSUME ClusterInv, main = "setup", setup \notin {"done", "failed"}, SetupOnly,
         UNCHANGED <<node, faults>>, AfterReplication,
         \A i \in Node : node[i] = "done" /\ Prepared(server[i], "done"),
         \A i \in Node : server[i].has \subseteq server'[i].has /\ server[i].file \subseteq server'[i].file,
         \A i \in Node : Safe(i)',
         \A i \in Node : Complete(i)'
  PROVE  Cluster'
<1>1. /\ cur' = 1
      /\ \/ setup' = "pmmService" \/ setup' = "failed"
         \/ setup' = "done" /\ "pmm" \notin Options
  BY DEF AfterReplication, Advance, Then
<1>2. CASE setup' = "failed"
  BY <1>2, FailCluster
<1>3. CASE setup' \in {"pmmService", "done"}
  <2>1. setup' \in Joined /\ setup' \notin AsyncStep /\ setup' \notin MemberStep
    BY <1>3 DEF Joined, AsyncStep, MemberStep
  <2>2. \A i \in Node : ~(i < cur')
    BY <1>1, SizeIsNat DEF ClusterInv, TypeInv
  <2>3. setup' = "done" => "pmm" \notin Options
    BY <1>1
  <2>. QED  BY <2>1, <2>2, <2>3, JoinedCluster
<1>. QED  BY <1>1, <1>2, <1>3

LEMMA JoinGroupNodesCluster ==
  ASSUME ClusterInv, main = "setup", JoinGroupNodes PROVE Cluster'
<1>1. /\ setup = "groupNodes" /\ SetupOnly /\ UNCHANGED <<node, server, faults, conf>>
      /\ \A i \in Node : node[i] \in {"done", "failed"}
      /\ \A i \in Node : /\ Member(i, server[i], node[i]) /\ Prepared(server[i], "done") /\ Safe(i)
                         /\ i \in Nat /\ i >= 1 /\ i <= Size
      /\ 1 \in Node /\ TypeOK /\ Group /\ Size \in Nat /\ Size >= 1
  BY SizeIsNat DEF JoinGroupNodes, AllEnded, SetupOnly, ClusterInv, TypeInv, Cluster, Servers, Places
<1>2. /\ \A i \in Node : Safe(i)'
      /\ Excused => Excused'
  BY <1>1, SafeSame, SetupErrors
<1>3. /\ \A i \in Node : server[i].has \subseteq server'[i].has /\ server[i].file \subseteq server'[i].file
      /\ Node' = Node /\ Size' = Size
  BY <1>1, ConfSame
<1>4. CASE setup' = "failed"
  BY <1>1, <1>2, <1>4, FailCluster
<1>5. ASSUME \A i \in Node : node[i] = "done", NEW i \in Node
      PROVE  /\ i > 1 => server[i].follows = 0
             /\ ~server[i].boot /\ ("replicaUser" \in server[i].has \/ Excused)
             /\ Size = 1 => server[i].follows = 1
             /\ Prepared(server[i], "done")
  BY <1>1, <1>5 DEF Member, GroupNode
<1>6. CASE (\A i \in Node : node[i] = "done") /\ setup' = "groupSource" /\ cur' = 2
  <2>1. GroupLoop'
    BY <1>1, <1>2, <1>3, <1>5, <1>6 DEF GroupLoop
  <2>2. setup' \in Joined /\ setup' \notin AsyncStep
    BY <1>6 DEF Joined, AsyncStep, MemberStep
  <2>. QED  BY <1>1, <1>2, <1>3, <1>5, <1>6, <2>1, <2>2, JoinedCluster
<1>7. CASE (\A i \in Node : node[i] = "done") /\ ~(Size > 1) /\ AfterReplication
  <2>1. ASSUME NEW i \in Node PROVE Complete(i)
    <3>1. i = 1 /\ Size = 1
      BY <1>1, <1>7
    <3>2. server[i].follows = 1 /\ ~server[i].boot /\ Safe(i)
      BY <1>1, <1>5, <1>7, <3>1
    <3>. QED  BY <1>1, <3>1, <3>2 DEF Complete, Safe, Sound, Sql, Group, Async
  <2>2. \A i \in Node : Complete(i)'
    BY <1>1, <1>2, <2>1, SameGrown, GrownKeeps
  <2>. QED  BY <1>1, <1>2, <1>3, <1>7, <2>2, ReplicationDone
<1>8. \/ setup' = "failed"
      \/ (\A i \in Node : node[i] = "done") /\ setup' = "groupSource" /\ cur' = 2
      \/ (\A i \in Node : node[i] = "done") /\ ~(Size > 1) /\ AfterReplication
  BY <1>1 DEF JoinGroupNodes, Fail, Advance, Then, OneFailed
<1>. QED  BY <1>4, <1>6, <1>7, <1>8

\* What is known before a step of the loop over the replicas.
LEMMA AsyncFacts ==
  ASSUME ClusterInv, setup \in AsyncStep
  PROVE  /\ Async /\ ~Group /\ cur \in Node /\ 1 \in Node /\ TypeOK /\ Size \in Nat
         /\ setup \notin {"done", "failed"} /\ server \in [Node -> Server]
         /\ \A i \in Node : /\ node[i] = "done" /\ Prepared(server[i], "done") /\ Safe(i)
                            /\ server[i] \in Server /\ i \in Nat /\ i >= 1 /\ i <= Size
                            /\ ~server[i].boot
         /\ \A i \in Node : (i < cur => Complete(i)) /\ (i > cur => Untouched(server[i]))
         /\ server[cur].follows = 0
<1>1. Async /\ setup \in Joined /\ setup \notin {"done", "failed"}
  BY DEF ClusterInv, Cluster, Places, Joined, AsyncStep
<1>2. ~Group /\ cur \in Node
  BY <1>1 DEF Async, Group, ClusterInv, TypeInv, Where
<1>3. \A i \in Node : node[i] = "done" /\ Prepared(server[i], "done") /\ Safe(i)
  BY <1>1 DEF ClusterInv, Cluster, Places, Servers
<1>4. \A i \in Node : ~server[i].boot
  BY <1>2, <1>3 DEF Safe
<1>. QED  BY <1>1, <1>2, <1>3, <1>4, SizeIsNat DEF ClusterInv, TypeInv, TypeOK, Cluster, AsyncLoop

\* Only the server the loop has reached changes, and it does not replicate yet.
LEMMA AsyncSafe ==
  ASSUME ClusterInv, setup \in AsyncStep, UNCHANGED conf, NEW new,
         server' = [server EXCEPT ![cur] = new],
         Sound(new), ~new.boot, new.follows = 0
  PROVE  \A i \in Node : Safe(i)'
<1>. SUFFICES ASSUME NEW i \in Node PROVE Safe(i)'
  OBVIOUS
<1>1. Async' = Async /\ Group' = Group
  BY ConfSame
<1>2. CASE i = cur
  BY <1>1, <1>2, AsyncFacts DEF Safe
<1>3. CASE i # cur /\ cur = 1
  <2>1. server'[i] = server[i] /\ server[i].follows = 0 /\ Safe(i)
    BY <1>3, AsyncFacts DEF Untouched
  <2>. QED  BY <1>1, <2>1 DEF Safe
<1>4. CASE i # cur /\ cur # 1
  <2>1. server'[i] = server[i] /\ server'[1] = server[1] /\ Safe(i)
    BY <1>4, AsyncFacts
  <2>. QED  BY <1>1, <2>1 DEF Safe, Sql
<1>. QED  BY <1>2, <1>3, <1>4

LEMMA AsyncFail ==
  ASSUME ClusterInv, setup \in AsyncStep, main = "setup", SetupOnly, UNCHANGED node, NEW new,
         server' = [server EXCEPT ![cur] = new],
         Sound(new), ~new.boot, new.follows = 0,
         setup' = "failed", UNCHANGED faults \/ \E f : faults' = faults \cup {f}
  PROVE  Cluster'
<1>1. \A i \in Node : Safe(i)'
  BY AsyncSafe DEF SetupOnly
<1>. QED  BY <1>1, AsyncFacts, FailCluster

LEMMA AsyncTo ==
  ASSUME ClusterInv, setup \in AsyncStep, main = "setup", SetupOnly, UNCHANGED <<node, faults>>, NEW new,
         server' = [server EXCEPT ![cur] = new],
         Sound(new), ~new.boot, new.follows = 0,
         server[cur].has \subseteq new.has, server[cur].file \subseteq new.file,
         setup' \in AsyncStep, AsyncLoop'
  PROVE  Cluster'
<1>1. \A i \in Node : Safe(i)'
  BY AsyncSafe DEF SetupOnly
<1>2. \A i \in Node : server[i].has \subseteq server'[i].has /\ server[i].file \subseteq server'[i].file
  BY AsyncFacts
<1>3. /\ setup' \in Joined /\ setup' \notin MemberStep /\ setup' \notin {"pmmService", "done"}
      /\ setup \notin {"done", "failed"} /\ Async
      /\ \A i \in Node : node[i] = "done" /\ Prepared(server[i], "done")
  BY AsyncFacts DEF Joined, AsyncStep, MemberStep
<1>. QED  BY <1>1, <1>2, <1>3, JoinedCluster

\* Complete says nothing of other servers.
LEMMA CompleteStays ==
  ASSUME ClusterInv, setup \in AsyncStep \cup MemberStep, main = "setup", SetupOnly, UNCHANGED <<node, faults>>,
         NEW i \in Node, server'[i] = server[i], Complete(i)
  PROVE  Complete(i)'
<1>1. /\ Async' = Async /\ Group' = Group /\ Size' = Size /\ Node' = Node /\ Host' = Host
      /\ UNCHANGED <<main, orc, host>>
  BY ConfSame DEF SetupOnly
<1>2. setup \notin {"done", "failed"}
  BY DEF AsyncStep, MemberStep
<1>3. Excused => Excused'
  BY <1>2, SetupErrors
<1>. QED  BY <1>1, <1>3 DEF Complete

\* The loop has gone through one more server.
LEMMA NextReplicaCluster ==
  ASSUME ClusterInv, setup \in AsyncStep, main = "setup", SetupOnly, UNCHANGED <<node, faults>>,
         NextReplica, NEW new, server' = [server EXCEPT ![cur] = new],
         server[cur].has \subseteq new.has, server[cur].file \subseteq new.file,
         \A i \in Node : Safe(i)', \A i \in Node : i = cur => Complete(i)',
         "replicaUser" \in server'[1].has, "port" \in server'[1].loaded
  PROVE  Cluster'
<1>1. /\ Async' = Async /\ Group' = Group /\ Size' = Size /\ Node' = Node
  BY ConfSame DEF SetupOnly
<1>2. \A i \in Node : server[i].has \subseteq server'[i].has /\ server[i].file \subseteq server'[i].file
  BY AsyncFacts
<1>3. \A i \in Node : i # cur => server'[i] = server[i]
  BY AsyncFacts
<1>4. \A i \in Node : i < cur => Complete(i)'
  BY <1>3, AsyncFacts, CompleteStays
<1>5. /\ setup \notin {"done", "failed"}
      /\ \A i \in Node : node[i] = "done" /\ Prepared(server[i], "done")
  BY AsyncFacts
<1>6. CASE cur < Size /\ cur' = cur + 1 /\ setup' = "asyncEdit"
  <2>1. cur + 1 \in Node /\ cur \in Nat /\ Size > 1
    BY <1>6, SizeIsNat, AsyncFacts
  <2>2. \A i \in Node : (i < cur' => Complete(i)') /\ (i > cur' => Untouched(server'[i]))
    BY <1>3, <1>4, <1>6, <2>1, AsyncFacts
  <2>3. server'[cur'].follows = 0 /\ "replication" \notin server'[cur'].file
    <3>1. server'[cur + 1] = server[cur + 1] /\ Untouched(server[cur + 1])
      BY <1>3, <2>1, AsyncFacts
    <3>. QED  BY <1>6, <3>1 DEF Untouched
  <2>4. AsyncLoop'
    BY <1>1, <1>6, <2>1, <2>2, <2>3 DEF AsyncLoop, Untouched
  <2>5. setup' \in Joined /\ setup' \in AsyncStep /\ setup' \notin MemberStep
    BY <1>6 DEF Joined, AsyncStep, MemberStep
  <2>6. Async /\ setup' \notin {"pmmService", "done"}
    BY <1>6, AsyncFacts
  <2>. QED  BY <1>2, <1>5, <2>4, <2>5, <2>6, JoinedCluster
<1>7. CASE ~(cur < Size) /\ AfterReplication
  <2>1. \A i \in Node : Complete(i)'
    BY <1>4, <1>7, AsyncFacts
  <2>. QED  BY <1>2, <1>5, <1>7, <2>1, ReplicationDone
<1>8. CASE setup' = "failed"
  BY <1>5, <1>8, FailCluster
<1>. QED  BY <1>6, <1>7, <1>8, NextReplicaIs

LEMMA MasterCluster ==
  ASSUME ClusterInv, main = "setup", CreateMasterReplicaUser PROVE Cluster'
<1>. PICK next, new, old, may :
       /\ next = IF Size > 1 THEN "asyncEdit" ELSE "asyncRestart"
       /\ new = With(cur, "replicaUser") /\ old = server[cur] /\ may = Sql(cur)
  OBVIOUS
<1>0. Serial("replicaUser", may, new, Advance(next, 1))
  BY DEF CreateMasterReplicaUser
<1>1. /\ setup = "replicaUser" /\ SetupOnly /\ UNCHANGED node
      /\ \/ /\ setup' = Then(next, ClusterCancelled) /\ cur' = 1
            /\ may /\ server' = [server EXCEPT ![cur] = new] /\ UNCHANGED faults
         \/ /\ setup' = "failed" /\ UNCHANGED cur
            /\ server' = [server EXCEPT ![cur] = new] \/ UNCHANGED server
            /\ UNCHANGED faults \/ faults' = faults \cup {<<"replicaUser", cur>>}
  BY <1>0, SerialShape
<1>2. /\ setup \in AsyncStep /\ cur = 1 /\ "replication" \notin server[cur].file
      /\ server[cur].follows = 0
  BY <1>1 DEF AsyncStep, ClusterInv, Cluster, AsyncLoop
<1>3. /\ Sound(old) /\ ~old.boot /\ old.follows = 0 /\ old \in Server
      /\ server = [server EXCEPT ![cur] = old]
      /\ cur \in Node /\ \A i \in Node : i \in Nat /\ i >= 1
  BY <1>2, AsyncFacts DEF Safe
<1>4. /\ new.has = old.has \cup {"replicaUser"} /\ new.file = old.file /\ new.loaded = old.loaded
      /\ new.boot = old.boot /\ new.follows = old.follows
  BY <1>3 DEF With, Server
<1>5. Sound(new)
  BY <1>3, <1>4 DEF Sound
<1>6. ASSUME setup' = "failed" PROVE Cluster'
  <2>1. /\ server' = [server EXCEPT ![cur] = new] \/ server' = [server EXCEPT ![cur] = old]
        /\ UNCHANGED faults \/ \E f : faults' = faults \cup {f}
    BY <1>1, <1>3
  <2>. QED  BY <1>1, <1>2, <1>3, <1>4, <1>5, <1>6, <2>1, AsyncFail
<1>7. ASSUME setup' = next, cur' = 1, may, server' = [server EXCEPT ![cur] = new], UNCHANGED faults
      PROVE  Cluster'
  <2>1. Node' = Node /\ Size' = Size
    BY <1>1, ConfSame DEF SetupOnly
  <2>2. "port" \in server[1].loaded
    BY <1>2, <1>7 DEF Sql
  <2>3. AsyncLoop'
    <3>1. server'[1] = new /\ \A i \in Node : i > 1 => server'[i] = server[i]
      BY <1>2, <1>3, <1>7, AsyncFacts
    <3>2. \A i \in Node : i > 1 => Untouched(server'[i])
      BY <1>2, <3>1, AsyncFacts
    <3>. QED  BY <1>2, <1>3, <1>4, <1>7, <2>1, <2>2, <3>1, <3>2 DEF AsyncLoop, Untouched
  <2>4. setup' \in AsyncStep
    BY <1>7 DEF AsyncStep
  <2>. QED  BY <1>1, <1>2, <1>3, <1>4, <1>5, <1>7, <2>3, <2>4, AsyncTo
<1>. QED  BY <1>1, <1>6, <1>7 DEF Then

LEMMA EditAsyncCluster ==
  ASSUME ClusterInv, main = "setup", EditAsyncConfig PROVE Cluster'
<1>. PICK new, old : new = Edited(cur, "replication") /\ old = server[cur]
  OBVIOUS
<1>0. Serial("asyncEdit", TRUE, new, Advance("asyncRestart", cur))
  BY DEF EditAsyncConfig
<1>1. /\ setup = "asyncEdit" /\ SetupOnly /\ UNCHANGED node
      /\ \/ /\ setup' = Then("asyncRestart", ClusterCancelled) /\ cur' = cur
            /\ server' = [server EXCEPT ![cur] = new] /\ UNCHANGED faults
         \/ /\ setup' = "failed" /\ UNCHANGED cur
            /\ server' = [server EXCEPT ![cur] = new] \/ UNCHANGED server
            /\ UNCHANGED faults \/ faults' = faults \cup {<<"asyncEdit", cur>>}
  BY <1>0, SerialShape
<1>2. /\ setup \in AsyncStep /\ "replication" \notin server[cur].file /\ Size > 1
      /\ server[cur].follows = 0 /\ "replicaUser" \in server[1].has /\ "port" \in server[1].loaded
  BY <1>1 DEF AsyncStep, ClusterInv, Cluster, AsyncLoop
<1>3. /\ Sound(old) /\ ~old.boot /\ old.follows = 0 /\ old \in Server
      /\ server = [server EXCEPT ![cur] = old]
      /\ cur \in Node /\ 1 \in Node /\ \A i \in Node : i \in Nat /\ i >= 1
  BY <1>2, AsyncFacts DEF Safe
<1>4. /\ new.has = old.has /\ new.file = old.file \cup {"replication"} /\ new.loaded = old.loaded
      /\ new.boot = old.boot /\ new.follows = old.follows
  BY <1>3 DEF Edited, Server
<1>5. Sound(new)
  BY <1>2, <1>3, <1>4 DEF Sound
<1>6. ASSUME setup' = "failed" PROVE Cluster'
  <2>1. /\ server' = [server EXCEPT ![cur] = new] \/ server' = [server EXCEPT ![cur] = old]
        /\ UNCHANGED faults \/ \E f : faults' = faults \cup {f}
    BY <1>1, <1>3
  <2>. QED  BY <1>1, <1>2, <1>3, <1>4, <1>5, <1>6, <2>1, AsyncFail
<1>7. ASSUME setup' = "asyncRestart", cur' = cur, server' = [server EXCEPT ![cur] = new], UNCHANGED faults
      PROVE  Cluster'
  <2>1. Node' = Node /\ Size' = Size
    BY <1>1, ConfSame DEF SetupOnly
  <2>2. server'[cur] = new /\ \A i \in Node : i # cur => server'[i] = server[i]
    BY <1>2, <1>3, <1>7, AsyncFacts
  <2>3. \A i \in Node : i < cur => Complete(i)'
    BY <1>1, <1>2, <1>7, <2>2, AsyncFacts, CompleteStays
  <2>4. \A i \in Node : i > cur => Untouched(server'[i])
    BY <1>2, <2>2, AsyncFacts
  <2>5. "replicaUser" \in server'[1].has /\ "port" \in server'[1].loaded
    BY <1>2, <1>3, <1>4, <2>2
  <2>6. AsyncLoop'
    BY <1>3, <1>4, <1>7, <2>1, <2>2, <2>3, <2>4, <2>5 DEF AsyncLoop, Untouched
  <2>7. setup' \in AsyncStep
    BY <1>7 DEF AsyncStep
  <2>. QED  BY <1>1, <1>2, <1>3, <1>4, <1>5, <1>7, <2>6, <2>7, AsyncTo
<1>. QED  BY <1>1, <1>6, <1>7 DEF Then

LEMMA RestartAsyncCluster ==
  ASSUME ClusterInv, main = "setup", RestartAsync PROVE Cluster'
<1>. PICK new, down, old : /\ new = Restarted(cur) /\ down = [server[cur] EXCEPT !.up = FALSE]
                           /\ old = server[cur]
  OBVIOUS
<1>1. /\ setup = "asyncRestart" /\ setup \in AsyncStep /\ SetupOnly /\ UNCHANGED node
      /\ TypeOK /\ server \in [Node -> Server]
  BY DEF RestartAsync, AsyncStep, ClusterInv, TypeInv, TypeOK
<1>2. /\ Sound(old) /\ ~old.boot /\ old.follows = 0 /\ old \in Server
      /\ cur \in Node /\ 1 \in Node /\ \A i \in Node : i \in Nat /\ i >= 1
      /\ "replicaUser" \in server[1].has /\ "port" \in server[1].loaded
      /\ Size > 1 => "replication" \in old.file
      /\ Async /\ Size \in Nat /\ \A i \in Node : i <= Size
  BY <1>1, AsyncFacts DEF Safe, ClusterInv, Cluster, AsyncLoop
<1>3. /\ [server EXCEPT ![cur].up = FALSE] = [server EXCEPT ![cur] = down]
      /\ server = [server EXCEPT ![cur] = old]
  BY <1>1
<1>4. \/ /\ IF cur = 1 THEN NextReplica ELSE Advance("asyncSource", cur)
         /\ server' = [server EXCEPT ![cur] = new] /\ UNCHANGED faults
      \/ /\ setup' = "failed"
         /\ \/ server' = [server EXCEPT ![cur] = new] \/ server' = [server EXCEPT ![cur] = old]
            \/ server' = [server EXCEPT ![cur] = down]
         /\ UNCHANGED faults \/ \E f : faults' = faults \cup {f}
  BY <1>3 DEF RestartAsync, TryRestart, Try, Fail, Refused, Fault
<1>5. /\ new.has = old.has /\ new.file = old.file /\ new.loaded = old.file
      /\ new.boot = old.boot /\ new.follows = old.follows /\ new.up
  BY <1>2 DEF Restarted, Server
<1>6. /\ down.file = old.file /\ down.loaded = old.loaded
      /\ down.boot = old.boot /\ down.follows = old.follows
  BY <1>2 DEF Server
<1>7. /\ Sound(new) /\ Sound(down) /\ ~new.boot /\ ~down.boot /\ new.follows = 0 /\ down.follows = 0
      /\ old.has \subseteq new.has /\ old.file \subseteq new.file
      /\ "port" \in old.loaded => "port" \in new.loaded
  BY <1>2, <1>5, <1>6 DEF Sound
<1>8. ASSUME NEW any \in {new, old, down}, setup' = "failed", server' = [server EXCEPT ![cur] = any],
             UNCHANGED faults \/ \E f : faults' = faults \cup {f}
      PROVE  Cluster'
  <2>1. Sound(any) /\ ~any.boot /\ any.follows = 0
    BY <1>2, <1>7
  <2>. QED  BY <1>1, <1>8, <2>1, AsyncFail
<1>9. ASSUME server' = [server EXCEPT ![cur] = new]
      PROVE  /\ server'[cur] = new /\ \A i \in Node : i # cur => server'[i] = server[i]
             /\ "replicaUser" \in server'[1].has /\ "port" \in server'[1].loaded
             /\ \A i \in Node : Safe(i)'
             /\ Node' = Node /\ Size' = Size /\ Async' = Async /\ Group' = Group
  <2>1. server'[cur] = new /\ \A i \in Node : i # cur => server'[i] = server[i]
    BY <1>1, <1>2, <1>9
  <2>2. "replicaUser" \in server'[1].has /\ "port" \in server'[1].loaded
    BY <1>2, <1>5, <1>7, <2>1
  <2>3. \A i \in Node : Safe(i)'
    BY <1>1, <1>7, <1>9, AsyncSafe DEF SetupOnly
  <2>. QED  BY <1>1, <2>1, <2>2, <2>3, ConfSame DEF SetupOnly
<1>10. ASSUME cur = 1, NextReplica, server' = [server EXCEPT ![cur] = new], UNCHANGED faults
       PROVE  Cluster'
  <2>1. \A i \in Node : i = cur => Complete(i)'
    BY <1>2, <1>5, <1>7, <1>9, <1>10 DEF Complete, Async, Group
  <2>. QED  BY <1>1, <1>2, <1>7, <1>9, <1>10, <2>1, NextReplicaCluster
<1>11. ASSUME cur # 1, setup' = "asyncSource", cur' = cur,
              server' = [server EXCEPT ![cur] = new], UNCHANGED faults
       PROVE  Cluster'
  <2>1. cur > 1 /\ Size > 1
    BY <1>2, <1>11
  <2>2. \A i \in Node : i < cur => Complete(i)'
    BY <1>1, <1>9, <1>11, AsyncFacts, CompleteStays
  <2>3. \A i \in Node : i > cur => Untouched(server'[i])
    BY <1>1, <1>2, <1>9, <1>11, AsyncFacts
  <2>4. AsyncLoop'
    BY <1>2, <1>5, <1>7, <1>9, <1>11, <2>1, <2>2, <2>3 DEF AsyncLoop, Untouched
  <2>5. setup' \in AsyncStep
    BY <1>11 DEF AsyncStep
  <2>. QED  BY <1>1, <1>7, <1>11, <2>4, <2>5, AsyncTo
<1>12. ASSUME cur # 1, Advance("asyncSource", cur), server' = [server EXCEPT ![cur] = new], UNCHANGED faults
       PROVE  Cluster'
  BY <1>8, <1>11, <1>12 DEF Advance, Then
<1>. QED  BY <1>4, <1>8, <1>10, <1>12

\* The master of a replica runs, and the replica can log in to it.
LEMMA MasterFacts ==
  ASSUME ClusterInv, setup \in {"asyncSource", "asyncStart"}
  PROVE  /\ setup \in AsyncStep /\ cur > 1 /\ Size > 1 /\ cur # 1
         /\ server[cur].up /\ server[cur].loaded = server[cur].file
         /\ "replication" \in server[cur].file
         /\ server[1].up /\ "replication" \in server[1].loaded
         /\ "replicaUser" \in server[1].has /\ "port" \in server[1].loaded
         /\ server[cur].follows = 0
<1>1. setup \in AsyncStep
  BY DEF AsyncStep
<1>2. cur > 1 /\ cur \in Node /\ 1 \in Node /\ cur \in Nat
  BY <1>1, AsyncFacts DEF ClusterInv, Cluster, AsyncLoop
<1>3. Complete(1) /\ Size > 1
  BY <1>1, <1>2, AsyncFacts, SizeIsNat
<1>. QED  BY <1>1, <1>2, <1>3 DEF ClusterInv, Cluster, AsyncLoop, Complete

LEMMA SourceCluster ==
  ASSUME ClusterInv, main = "setup", ChangeReplicationSource PROVE Cluster'
<1>. PICK new, old, may :
       /\ new = With(cur, "source") /\ old = server[cur]
       /\ may = (Sql(cur) /\ "replication" \in server[cur].loaded)
  OBVIOUS
<1>0. Serial("asyncSource", may, new, Advance("asyncStart", cur))
  BY DEF ChangeReplicationSource
<1>1. /\ setup = "asyncSource" /\ SetupOnly /\ UNCHANGED node
      /\ \/ /\ setup' = Then("asyncStart", ClusterCancelled) /\ cur' = cur
            /\ server' = [server EXCEPT ![cur] = new] /\ UNCHANGED faults
         \/ /\ setup' = "failed" /\ UNCHANGED cur
            /\ server' = [server EXCEPT ![cur] = new] \/ UNCHANGED server
            /\ UNCHANGED faults \/ faults' = faults \cup {<<"asyncSource", cur>>}
  BY <1>0, SerialShape
<1>2. setup \in AsyncStep /\ cur > 1 /\ cur # 1 /\ Size > 1
  BY <1>1, MasterFacts
<1>3. /\ Sound(old) /\ ~old.boot /\ old.follows = 0 /\ old \in Server
      /\ server = [server EXCEPT ![cur] = old]
      /\ cur \in Node /\ 1 \in Node /\ \A i \in Node : i \in Nat /\ i >= 1
  BY <1>2, AsyncFacts DEF Safe
<1>4. /\ new.has = old.has \cup {"source"} /\ new.file = old.file /\ new.loaded = old.loaded
      /\ new.boot = old.boot /\ new.follows = old.follows /\ new.up = old.up
  BY <1>3 DEF With, Server
<1>5. Sound(new)
  BY <1>3, <1>4 DEF Sound
<1>6. ASSUME setup' = "failed" PROVE Cluster'
  <2>1. /\ server' = [server EXCEPT ![cur] = new] \/ server' = [server EXCEPT ![cur] = old]
        /\ UNCHANGED faults \/ \E f : faults' = faults \cup {f}
    BY <1>1, <1>3
  <2>. QED  BY <1>1, <1>2, <1>3, <1>4, <1>5, <1>6, <2>1, AsyncFail
<1>7. ASSUME setup' = "asyncStart", cur' = cur, server' = [server EXCEPT ![cur] = new], UNCHANGED faults
      PROVE  Cluster'
  <2>1. Node' = Node /\ Size' = Size
    BY <1>1, ConfSame DEF SetupOnly
  <2>2. server'[cur] = new /\ \A i \in Node : i # cur => server'[i] = server[i]
    BY <1>2, <1>3, <1>7, AsyncFacts
  <2>3. \A i \in Node : i < cur => Complete(i)'
    BY <1>1, <1>2, <1>7, <2>2, AsyncFacts, CompleteStays
  <2>4. \A i \in Node : i > cur => Untouched(server'[i])
    BY <1>2, <2>2, AsyncFacts
  <2>5. "replicaUser" \in server'[1].has /\ "port" \in server'[1].loaded
    BY <1>1, <1>2, <1>3, <2>2, MasterFacts
  <2>6. server'[cur].up /\ server'[cur].loaded = server'[cur].file /\ "replication" \in server'[cur].file
    BY <1>1, <1>4, <2>2, MasterFacts
  <2>7. AsyncLoop'
    BY <1>2, <1>3, <1>4, <1>7, <2>1, <2>2, <2>3, <2>4, <2>5, <2>6 DEF AsyncLoop, Untouched
  <2>8. setup' \in AsyncStep
    BY <1>7 DEF AsyncStep
  <2>. QED  BY <1>1, <1>2, <1>3, <1>4, <1>5, <1>7, <2>7, <2>8, AsyncTo
<1>. QED  BY <1>1, <1>6, <1>7 DEF Then

LEMMA StartReplicaCluster ==
  ASSUME ClusterInv, main = "setup", StartReplica PROVE Cluster'
<1>. PICK new, old : new = [server[cur] EXCEPT !.follows = 1] /\ old = server[cur]
  OBVIOUS
<1>1. /\ setup = "asyncStart" /\ SetupOnly /\ UNCHANGED node
      /\ \/ /\ NextReplica /\ server' = [server EXCEPT ![cur] = new] /\ UNCHANGED faults /\ Sql(cur)
         \/ /\ setup' = "failed"
            /\ (server' = [server EXCEPT ![cur] = new] /\ Sql(cur)) \/ UNCHANGED server
            /\ UNCHANGED faults \/ \E f : faults' = faults \cup {f}
  BY DEF StartReplica, Serial, Try, Fail, Refused, Fault
<1>2. /\ setup \in AsyncStep /\ cur > 1 /\ cur # 1 /\ Size > 1
      /\ old.up /\ old.loaded = old.file /\ "replication" \in old.file
      /\ "source" \in old.has
  BY <1>1, MasterFacts DEF ClusterInv, Cluster, AsyncLoop
<1>3. /\ Sound(old) /\ ~old.boot /\ old.follows = 0 /\ old \in Server
      /\ server = [server EXCEPT ![cur] = old] /\ Async /\ ~Group
      /\ cur \in Node /\ 1 \in Node
      /\ \A i \in Node : i \in Nat /\ i >= 1 /\ node[i] \in {"idle", "done", "failed"}
      /\ setup \notin {"done", "failed"}
  BY <1>2, AsyncFacts DEF Safe
<1>4. /\ new.has = old.has /\ new.file = old.file /\ new.loaded = old.loaded
      /\ new.boot = old.boot /\ new.follows = 1 /\ new.up = old.up
  BY <1>3 DEF Server
<1>5. /\ Async' = Async /\ Group' = Group /\ Size' = Size /\ Node' = Node
  BY <1>1, ConfSame DEF SetupOnly
<1>6. ASSUME server' = [server EXCEPT ![cur] = new], Sql(cur)
      PROVE  /\ server'[cur] = new /\ \A i \in Node : i # cur => server'[i] = server[i]
             /\ \A i \in Node : Safe(i)'
             /\ "replicaUser" \in server'[1].has /\ "port" \in server'[1].loaded
  <2>1. server'[cur] = new /\ \A i \in Node : i # cur => server'[i] = server[i]
    BY <1>2, <1>3, <1>6, AsyncFacts
  <2>2. /\ server'[1] = server[1] /\ server[1].up /\ "replication" \in server[1].loaded
        /\ "replicaUser" \in server[1].has /\ "port" \in server[1].loaded
    BY <1>1, <1>2, <1>3, <2>1, MasterFacts
  <2>3. ASSUME NEW i \in Node, i = cur PROVE Safe(i)'
    BY <1>2, <1>3, <1>4, <1>5, <1>6, <2>1, <2>2, <2>3 DEF Safe, Sound, Sql
  <2>4. ASSUME NEW i \in Node, i # cur PROVE Safe(i)'
    <3>1. server'[i] = server[i] /\ Safe(i)
      BY <1>2, <2>1, <2>4, AsyncFacts
    <3>. QED  BY <1>5, <2>2, <3>1 DEF Safe, Sql
  <2>. QED  BY <2>1, <2>2, <2>3, <2>4
<1>7. ASSUME setup' = "failed", \/ server' = [server EXCEPT ![cur] = new] /\ Sql(cur)
                               \/ UNCHANGED server,
             UNCHANGED faults \/ \E f : faults' = faults \cup {f}
      PROVE  Cluster'
  <2>1. \A i \in Node : Safe(i)'
    BY <1>1, <1>6, <1>7, SafeSame DEF SetupOnly
  <2>. QED  BY <1>1, <1>3, <1>7, <2>1, FailCluster
<1>8. ASSUME NextReplica, server' = [server EXCEPT ![cur] = new], UNCHANGED faults, Sql(cur)
      PROVE  Cluster'
  <2>1. ASSUME NEW i \in Node, i = cur PROVE Complete(i)'
    <3>1. server'[i] = new
      BY <1>6, <1>8, <2>1
    <3>2. new.up /\ new.loaded = new.file /\ ~new.boot /\ "replication" \in new.loaded
      BY <1>2, <1>3, <1>4
    <3>3. new.follows = 1 /\ "source" \in new.has /\ i # 1 /\ i > 1
      BY <1>2, <1>4, <2>1
    <3>. QED  BY <1>3, <1>5, <3>1, <3>2, <3>3 DEF Complete
  <2>2. /\ server[cur].has \subseteq new.has /\ server[cur].file \subseteq new.file
        /\ \A i \in Node : Safe(i)'
        /\ "replicaUser" \in server'[1].has /\ "port" \in server'[1].loaded
    BY <1>4, <1>6, <1>8
  <2>. QED  BY <1>1, <1>2, <1>8, <2>1, <2>2, NextReplicaCluster
<1>. QED  BY <1>1, <1>7, <1>8

\* What is known before a step of the loop over the other members.
LEMMA MemberFacts ==
  ASSUME ClusterInv, setup \in MemberStep
  PROVE  /\ Group /\ ~Async /\ cur \in Node /\ 1 \in Node /\ TypeOK /\ Size \in Nat
         /\ setup \notin {"done", "failed"} /\ server \in [Node -> Server]
         /\ \A i \in Node : /\ node[i] = "done" /\ Prepared(server[i], "done") /\ Safe(i)
                            /\ server[i] \in Server /\ i \in Nat /\ i >= 1 /\ i <= Size
                            /\ ~server[i].boot /\ ("replicaUser" \in server[i].has \/ Excused)
                            /\ i >= cur => server[i].follows = 0
                            /\ i > 1 /\ i < cur => server[i].follows = 1 /\ "source" \in server[i].has
         /\ cur > 1 /\ (cur > 2 => server[1].follows = 1) /\ cur \in Nat
<1>1. Group /\ setup \in Joined /\ setup \notin {"done", "failed"}
  BY DEF ClusterInv, Cluster, Places, Joined, MemberStep
<1>2. ~Async /\ cur \in Node
  BY <1>1 DEF Async, Group, ClusterInv, TypeInv, Where
<1>3. \A i \in Node : node[i] = "done" /\ Prepared(server[i], "done") /\ Safe(i)
  BY <1>1 DEF ClusterInv, Cluster, Places, Servers
<1>. QED  BY <1>1, <1>2, <1>3, SizeIsNat DEF ClusterInv, TypeInv, TypeOK, Cluster, GroupLoop

LEMMA MemberSourceCluster ==
  ASSUME ClusterInv, main = "setup", ChangeMemberSource PROVE Cluster'
<1>. PICK new, may : new = With(cur, "source") /\ may = Sql(cur)
  OBVIOUS
<1>0. Serial("groupSource", may, new, Advance("groupStart", cur))
  BY DEF ChangeMemberSource
<1>1. /\ setup = "groupSource" /\ setup \in MemberStep /\ SetupOnly /\ UNCHANGED node
      /\ \/ /\ setup' = Then("groupStart", ClusterCancelled) /\ cur' = cur
            /\ server' = [server EXCEPT ![cur] = new] /\ UNCHANGED faults
         \/ /\ setup' = "failed" /\ UNCHANGED cur
            /\ server' = [server EXCEPT ![cur] = new] \/ UNCHANGED server
            /\ UNCHANGED faults \/ \E f : faults' = faults \cup {f}
  BY <1>0, SerialShape DEF MemberStep
<1>2. setup' = "failed" \/ (setup' = "groupStart" /\ UNCHANGED faults)
  BY <1>1 DEF Then
<1>3. Excused => Excused'
  BY <1>1, <1>2, MemberFacts, SetupErrors
<1>4. ASSUME NEW i \in Node PROVE Grown(i)
  <2>1. CASE UNCHANGED server
    BY <2>1, SameGrown
  <2>2. CASE server' = [server EXCEPT ![cur] = new]
    BY <1>1, <2>2, MemberFacts DEF With, Grown, Server
  <2>. QED  BY <1>1, <2>1, <2>2
<1>5. \A i \in Node : Safe(i)'
  BY <1>1, <1>3, <1>4, MemberFacts, GrownKeeps DEF SetupOnly
<1>6. CASE setup' = "failed"
  <2>1. UNCHANGED faults \/ \E f : faults' = faults \cup {f}
    BY <1>1
  <2>. QED  BY <1>1, <1>5, <1>6, <2>1, MemberFacts, FailCluster
<1>7. CASE setup' = "groupStart"
  <2>1. /\ server' = [server EXCEPT ![cur] = new] /\ UNCHANGED faults /\ cur' = cur
        /\ "source" \in server'[cur].has
    <3>1. server' = [server EXCEPT ![cur] = new] /\ UNCHANGED faults /\ cur' = cur
      BY <1>1, <1>7
    <3>2. "source" \in new.has
      BY <1>1, MemberFacts DEF With, Server
    <3>. QED  BY <1>1, <3>1, <3>2, MemberFacts
  <2>2. /\ Node' = Node
        /\ \A i \in Node : /\ server'[i].boot = server[i].boot /\ server'[i].follows = server[i].follows
                           /\ server[i].has \subseteq server'[i].has /\ server[i].file \subseteq server'[i].file
    BY <1>1, <1>4, ConfSame DEF Grown, SetupOnly
  <2>3. GroupLoop'
    BY <1>1, <1>3, <2>1, <2>2, MemberFacts DEF GroupLoop
  <2>4. setup' \in Joined /\ setup' \notin AsyncStep /\ setup' \notin {"pmmService", "done"}
    BY <1>7 DEF Joined, AsyncStep, MemberStep
  <2>. QED  BY <1>1, <1>5, <2>1, <2>2, <2>3, <2>4, MemberFacts, JoinedCluster
<1>. QED  BY <1>2, <1>6, <1>7

LEMMA StartMemberCluster ==
  ASSUME ClusterInv, main = "setup", StartMember PROVE Cluster'
<1>. PICK g \in Groups(cur) :
       Serial("groupStart", g # 0, [server[cur] EXCEPT !.follows = g],
              IF cur < Size THEN Advance("groupSource", cur + 1) ELSE AfterReplication)
  BY DEF StartMember
<1>. PICK new, old : new = [server[cur] EXCEPT !.follows = g] /\ old = server[cur]
  OBVIOUS
<1>1. /\ setup = "groupStart" /\ setup \in MemberStep /\ SetupOnly /\ UNCHANGED node
      /\ \/ /\ \/ cur < Size /\ Advance("groupSource", cur + 1)
               \/ ~(cur < Size) /\ AfterReplication
            /\ g # 0 /\ server' = [server EXCEPT ![cur] = new] /\ UNCHANGED faults
         \/ /\ setup' = "failed"
            /\ (g # 0 /\ server' = [server EXCEPT ![cur] = new]) \/ UNCHANGED server
            /\ UNCHANGED faults \/ \E f : faults' = faults \cup {f}
  BY DEF Serial, Try, Fail, Refused, Fault, MemberStep
<1>2. /\ cur \in Node /\ 1 \in Node /\ cur > 1 /\ server \in [Node -> Server] /\ Group /\ ~Async
      /\ cur # 1 /\ Safe(cur) /\ ~old.boot /\ old \in Server /\ "source" \in old.has
      /\ cur \in Nat /\ Size \in Nat
  BY <1>1, MemberFacts DEF ClusterInv, Cluster, GroupLoop
<1>3. ASSUME g # 0
      PROVE  /\ g = 1 /\ Sql(cur) /\ "replication" \in old.loaded
             /\ server[1].follows = 1
  <2>1. /\ Sql(cur) /\ "replication" \in old.loaded
        /\ g \in {server[j].follows : j \in {k \in Node \ {cur} : server[k].follows # 0}}
    BY <1>2, <1>3 DEF Groups, Joinable
  <2>2. PICK j \in Node : g = server[j].follows
    BY <2>1
  <2>3. g = 1
    BY <1>1, <1>3, <2>2, MemberFacts DEF Safe
  <2>4. server[1].follows = 1
    <3>1. j < cur
      BY <1>1, <1>2, <1>3, <2>2, MemberFacts
    <3>2. CASE cur > 2
      BY <1>1, <3>2, MemberFacts
    <3>3. CASE ~(cur > 2)
      <4>1. j \in Nat /\ j >= 1
        BY <1>1, MemberFacts
      <4>2. j = 1
        BY <1>2, <3>1, <3>3, <4>1
      <4>. QED  BY <2>2, <2>3, <4>2
    <3>. QED  BY <3>2, <3>3
  <2>. QED  BY <2>1, <2>3, <2>4
<1>4. /\ new.has = old.has /\ new.file = old.file /\ new.loaded = old.loaded
      /\ new.boot = old.boot /\ new.follows = g /\ new.up = old.up
  BY <1>2 DEF Server
<1>5. /\ Async' = Async /\ Group' = Group /\ Size' = Size /\ Node' = Node /\ UNCHANGED conf
  BY <1>1, ConfSame DEF SetupOnly
<1>6. ASSUME server' = [server EXCEPT ![cur] = new], g # 0
      PROVE  /\ server'[cur] = new /\ \A i \in Node : i # cur => server'[i] = server[i]
             /\ \A i \in Node : Safe(i)'
  <2>1. server'[cur] = new /\ \A i \in Node : i # cur => server'[i] = server[i]
    BY <1>2, <1>6
  <2>2. ASSUME NEW i \in Node, i = cur PROVE Safe(i)'
    BY <1>2, <1>3, <1>4, <1>5, <1>6, <2>1, <2>2 DEF Safe, Sound, Sql
  <2>3. ASSUME NEW i \in Node, i # cur PROVE Safe(i)'
    <3>1. server'[i] = server[i] /\ Safe(i)
      BY <1>1, <2>1, <2>3, MemberFacts
    <3>. QED  BY <1>2, <1>5, <3>1 DEF Safe, Sql
  <2>. QED  BY <2>1, <2>2, <2>3
<1>7. ASSUME setup' = "failed", \/ g # 0 /\ server' = [server EXCEPT ![cur] = new]
                               \/ UNCHANGED server,
             UNCHANGED faults \/ \E f : faults' = faults \cup {f}
      PROVE  Cluster'
  <2>1. \A i \in Node : Safe(i)'
    BY <1>5, <1>6, <1>7, SafeSame
  <2>. QED  BY <1>1, <1>7, <2>1, MemberFacts, FailCluster
<1>8. ASSUME server' = [server EXCEPT ![cur] = new], g # 0, UNCHANGED faults
      PROVE  /\ \A i \in Node : /\ server[i].has \subseteq server'[i].has
                                /\ server[i].file \subseteq server'[i].file
                                /\ ~server'[i].boot /\ ("replicaUser" \in server'[i].has \/ Excused')
             /\ Excused => Excused'
             /\ server'[1] = server[1] /\ server'[1].follows = 1
  <2>1. Excused => Excused'
    BY <1>1, <1>8, MemberFacts, SetupErrors
  <2>2. server'[1] = server[1] /\ server'[1].follows = 1
    BY <1>2, <1>3, <1>6, <1>8
  <2>3. \A i \in Node : server'[i].has = server[i].has /\ server'[i].file = server[i].file
                        /\ server'[i].boot = server[i].boot
    BY <1>4, <1>6, <1>8
  <2>. QED  BY <1>1, <2>1, <2>2, <2>3, MemberFacts
<1>9. ASSUME cur < Size, setup' = "groupSource", cur' = cur + 1,
             server' = [server EXCEPT ![cur] = new], g # 0, UNCHANGED faults
      PROVE  Cluster'
  <2>1. \A i \in Node : i > 1 /\ i < cur + 1 => server'[i].follows = 1 /\ "source" \in server'[i].has
    <3>. SUFFICES ASSUME NEW i \in Node, i > 1, i < cur + 1
                  PROVE  server'[i].follows = 1 /\ "source" \in server'[i].has
      OBVIOUS
    <3>1. CASE i = cur
      BY <1>2, <1>3, <1>4, <1>6, <1>9, <3>1
    <3>2. CASE i # cur
      <4>1. i \in Nat /\ server'[i] = server[i]
        BY <1>1, <1>6, <1>9, <3>2, MemberFacts
      <4>2. i < cur
        BY <1>2, <3>2, <4>1
      <4>. QED  BY <1>1, <4>1, <4>2, MemberFacts
    <3>. QED  BY <3>1, <3>2
  <2>2. \A i \in Node : i >= cur + 1 => server'[i].follows = 0
    <3>. SUFFICES ASSUME NEW i \in Node, i >= cur + 1 PROVE server'[i].follows = 0
      OBVIOUS
    <3>1. i \in Nat /\ i # cur /\ i >= cur
      BY <1>1, <1>2, MemberFacts
    <3>. QED  BY <1>1, <1>6, <1>9, <3>1, MemberFacts
  <2>3. cur + 1 > 1
    BY <1>2
  <2>4. GroupLoop'
    BY <1>5, <1>8, <1>9, <2>1, <2>2, <2>3 DEF GroupLoop
  <2>5. setup' \in Joined /\ setup' \notin AsyncStep /\ setup' \notin {"pmmService", "done"}
    BY <1>9 DEF Joined, AsyncStep, MemberStep
  <2>. QED  BY <1>1, <1>2, <1>6, <1>8, <1>9, <2>4, <2>5, MemberFacts, JoinedCluster
<1>10. ASSUME ~(cur < Size), AfterReplication,
              server' = [server EXCEPT ![cur] = new], g # 0, UNCHANGED faults
       PROVE  Cluster'
  <2>1. ASSUME NEW i \in Node
        PROVE  server'[i].follows = 1 /\ "source" \in server'[i].has
    <3>1. CASE i = cur
      BY <1>2, <1>3, <1>4, <1>6, <1>10, <3>1
    <3>2. CASE i # cur /\ i # 1
      <4>1. i \in Nat /\ server'[i] = server[i] /\ i < cur /\ i > 1
        BY <1>1, <1>2, <1>6, <1>10, <3>2, MemberFacts
      <4>. QED  BY <1>1, <4>1, MemberFacts
    <3>3. CASE i = 1
      <4>1. Safe(1) /\ server[1].follows = 1
        BY <1>1, <1>3, <1>10, MemberFacts
      <4>. QED  BY <1>2, <1>8, <1>10, <3>3, <4>1 DEF Safe
    <3>. QED  BY <3>1, <3>2, <3>3
  <2>2. ASSUME NEW i \in Node PROVE Complete(i)'
    <3>1. /\ Safe(i)' /\ ~server'[i].boot /\ ("replicaUser" \in server'[i].has \/ Excused')
          /\ server'[i].follows = 1 /\ "source" \in server'[i].has
      BY <1>6, <1>8, <1>10, <2>1
    <3>2. /\ server'[i].up /\ server'[i].loaded = server'[i].file
          /\ "replication" \in server'[i].loaded
          /\ i = 1 => "replicaUser" \in server'[i].has
      BY <1>2, <1>5, <3>1 DEF Safe, Sound, Sql
    <3>3. i \in Nat /\ i >= 1
      BY <1>1, MemberFacts
    <3>. QED  BY <1>2, <1>5, <3>1, <3>2, <3>3 DEF Complete
  <2>. QED  BY <1>1, <1>6, <1>8, <1>10, <2>2, MemberFacts, ReplicationDone
<1>11. ASSUME cur < Size, Advance("groupSource", cur + 1),
              server' = [server EXCEPT ![cur] = new], g # 0, UNCHANGED faults
       PROVE  Cluster'
  BY <1>7, <1>9, <1>11 DEF Advance, Then
<1>. QED  BY <1>1, <1>7, <1>10, <1>11

LEMMA ServiceCluster ==
  ASSUME ClusterInv, main = "setup", AddServiceToPMM PROVE Cluster'
<1>. PICK new : new = With(cur, "pmmService")
  OBVIOUS
<1>1. /\ setup = "pmmService" /\ SetupOnly /\ UNCHANGED node
      /\ \/ /\ \/ cur < Size /\ Advance("pmmService", cur + 1)
               \/ ~(cur < Size) /\ Advance("done", 1)
            /\ server' = [server EXCEPT ![cur] = new] /\ UNCHANGED faults
         \/ /\ setup' = "failed"
            /\ server' = [server EXCEPT ![cur] = new] \/ UNCHANGED server
            /\ UNCHANGED faults \/ \E f : faults' = faults \cup {f}
  BY DEF AddServiceToPMM, Serial, Try, Fail, Refused, Fault
<1>2. /\ \A i \in Node : /\ node[i] = "done" /\ Prepared(server[i], "done") /\ Safe(i) /\ Complete(i)
                         /\ i < cur => "pmmService" \in server[i].has
                         /\ i \in Nat /\ i <= Size
      /\ cur \in Node /\ server \in [Node -> Server] /\ TypeOK /\ Size \in Nat
      /\ setup \notin {"done", "failed"}
  BY <1>1, SizeIsNat DEF ClusterInv, TypeInv, TypeOK, Where, Cluster, Places, Servers, Joined
<1>3. ASSUME NEW i \in Node PROVE Grown(i)
  <2>1. CASE UNCHANGED server
    BY <2>1, SameGrown
  <2>2. CASE server' = [server EXCEPT ![cur] = new]
    BY <1>2, <2>2 DEF With, Grown, Server
  <2>. QED  BY <1>1, <2>1, <2>2
<1>4. setup' = "failed" \/ UNCHANGED faults
  BY <1>1
<1>5. Excused => Excused'
  BY <1>1, <1>2, SetupErrors
<1>6. \A i \in Node : Safe(i)' /\ Complete(i)'
  BY <1>1, <1>2, <1>3, <1>5, GrownKeeps DEF SetupOnly
<1>7. CASE setup' = "failed"
  <2>1. UNCHANGED faults \/ \E f : faults' = faults \cup {f}
    BY <1>1
  <2>. QED  BY <1>1, <1>2, <1>6, <1>7, <2>1, FailCluster
<1>8. CASE /\ UNCHANGED faults /\ server' = [server EXCEPT ![cur] = new]
           /\ \/ setup' = "pmmService" /\ cur' = cur + 1
              \/ ~(cur < Size) /\ setup' = "done"
  <2>1. "pmmService" \in new.has
    BY <1>2 DEF With, Server
  <2>2. \A i \in Node : i <= cur => "pmmService" \in server'[i].has
    <3>. SUFFICES ASSUME NEW i \in Node, i <= cur PROVE "pmmService" \in server'[i].has
      OBVIOUS
    <3>1. CASE i = cur
      BY <1>2, <1>8, <2>1, <3>1
    <3>2. CASE i # cur
      BY <1>2, <1>8, <3>2
    <3>. QED  BY <3>1, <3>2
  <2>3. \A i \in Node : server[i].has \subseteq server'[i].has /\ server[i].file \subseteq server'[i].file
    BY <1>3 DEF Grown
  <2>4. /\ setup' = "pmmService" => \A i \in Node : i < cur' => "pmmService" \in server'[i].has
        /\ setup' = "done" => \A i \in Node : "pmmService" \in server'[i].has
    BY <1>2, <1>8, <2>2
  <2>5. setup' \in Joined /\ setup' \notin AsyncStep /\ setup' \notin MemberStep
    BY <1>8 DEF Joined, AsyncStep, MemberStep
  <2>. QED  BY <1>1, <1>2, <1>6, <1>8, <2>3, <2>4, <2>5, JoinedCluster
<1>9. \/ setup' = "failed"
      \/ /\ UNCHANGED faults /\ server' = [server EXCEPT ![cur] = new]
         /\ \/ setup' = "pmmService" /\ cur' = cur + 1
            \/ ~(cur < Size) /\ setup' = "done"
  BY <1>1 DEF Advance, Then
<1>. QED  BY <1>7, <1>8, <1>9

-----------------------------------------------------------------------------
(* The theorems.                                                           *)

LEMMA SetupNextCluster == ASSUME ClusterInv, main # "crashed", SetupNext PROVE Cluster'
<1>1. main = "setup"
  <2>1. setup \notin {"done", "failed"}
    BY DEF SetupNext, CreateServers, JoinNodes, CreateMasterReplicaUser, EditAsyncConfig,
       RestartAsync, ChangeReplicationSource, StartReplica, JoinGroupNodes, ChangeMemberSource,
       StartMember, AddServiceToPMM, Serial
  <2>. QED  BY <2>1, SetupRuns DEF ClusterInv
<1>. QED
  BY <1>1, CreateServersCluster, JoinNodesCluster, MasterCluster, EditAsyncCluster,
     RestartAsyncCluster, SourceCluster, StartReplicaCluster, JoinGroupNodesCluster,
     MemberSourceCluster, StartMemberCluster, ServiceCluster DEF SetupNext

LEMMA NextCluster == ASSUME ClusterInv, [Next]_vars PROVE ClusterInv'
<1>1. TypeInv'
  BY NextType DEF ClusterInv
<1>2. CASE UNCHANGED vars
  <2>1. /\ Node' = Node /\ Host' = Host /\ Group' = Group /\ Async' = Async
        /\ UNCHANGED <<conf, main, setup, orc, cur, node, host, err, server, serving, faults>>
    BY <1>2, ConfSame DEF vars
  <2>2. Places'
    BY <2>1 DEF ClusterInv, Cluster, Places
  <2>3. Troubled => Troubled'
    BY <2>1 DEF Troubled
  <2>4. Errors' /\ (Excused => Excused')
    BY <2>1, <2>3, ErrorsStep DEF ClusterInv, Cluster
  <2>5. Servers' /\ AsyncLoop' /\ GroupLoop'
    BY <2>1, <2>4, SameGrown, ServersKeep
  <2>. QED  BY <1>1, <2>2, <2>4, <2>5 DEF ClusterInv, Cluster
<1>3. ASSUME NEW i \in Node, NodeNext(i), main # "crashed" PROVE Cluster'
  BY <1>3, NodesRun, SetupNodeCluster, GroupNodeCluster
<1>4. CASE Next
  BY <1>1, <1>3, <1>4, HostCluster, OrcNextCluster, MainNextCluster, SetupNextCluster DEF Next, ClusterInv
<1>. QED  BY <1>2, <1>4

LEMMA ClusterCorrect == Spec => []ClusterInv
<1>1. Init => ClusterInv
  BY InitType, InitCluster DEF ClusterInv
<1>. QED  BY <1>1, NextCluster, PTL DEF Spec

\* What the invariant says when all goroutines have succeeded.
LEMMA ReadyFacts ==
  ASSUME ClusterInv, main \in Past
  PROVE  /\ \A i \in Node : Safe(i) /\ Prepared(server[i], "done") /\ Complete(i)
         /\ "pmm" \in Options => \A i \in Node : "pmmService" \in server[i].has
         /\ serving = Host /\ ~Troubled
<1>1. setup = "done" /\ orc = "done" /\ main # "failed"
  BY DEF ClusterInv, TypeInv, Where, Past
<1>2. /\ \A i \in Node : node[i] = "done"
      /\ \A o \in Host : host[o] = "done" /\ o \in serving
  BY <1>1 DEF ClusterInv, Cluster, Places, Joined
<1>3. serving = Host
  BY <1>2 DEF ClusterInv, TypeInv, TypeOK
<1>4. ~Troubled
  BY <1>1, <1>2 DEF Troubled
<1>. QED  BY <1>1, <1>3, <1>4 DEF ClusterInv, Cluster, Servers, Joined

\* A replica only ever follows the first server, which runs with its settings
\* for replication and has the user the replica logs in with, whatever fails in
\* the loop of setupAsyncInstances.  (manager.go:290-348)
THEOREM MasterCorrect == Spec => []ReplicasFollowMaster
<1>1. ClusterInv => ReplicasFollowMaster
  <2>. SUFFICES ASSUME ClusterInv, Async, NEW i \in Node, server[i].follows # 0
                PROVE  /\ server[i].follows = 1 /\ i # 1
                       /\ Sql(1) /\ "replication" \in server[1].loaded
                       /\ "replicaUser" \in server[1].has
                       /\ "replication" \in server[i].loaded
    BY DEF ReplicasFollowMaster, Async
  <2>1. Safe(i)
    BY DEF ClusterInv, Cluster, Servers
  <2>. QED  BY <2>1 DEF Safe
<1>. QED  BY <1>1, ClusterCorrect, PTL

\* There is never a second group, in whatever order the goroutines of
\* setupGRInstances run and whatever errors they lose; and when Create succeeds
\* every server is in the group and none would bootstrap another one.
\* (manager.go:370-486)
THEOREM OneGroupCorrect == Spec => []OneGroup
<1>1. ClusterInv => OneGroup
  <2>. SUFFICES ASSUME ClusterInv, Group PROVE OneGroup
    BY DEF OneGroup, Group
  <2>1. \A i \in Node : server[i].follows \in {0, 1}
    BY DEF ClusterInv, Cluster, Servers, Safe
  <2>2. main = "created" => \A i \in Node : server[i].follows = 1 /\ ~server[i].boot
    BY ReadyFacts DEF Past, Complete, Async, Group
  <2>. QED  BY <2>1, <2>2 DEF OneGroup
<1>. QED  BY <1>1, ClusterCorrect, PTL

\* An instance is shown to the orchestrators when all of them run and the whole
\* cluster replicates.  (manager.go:93-139)
THEOREM DiscoverCorrect == Spec => []DiscoverLast
<1>1. ClusterInv => DiscoverLast
  <2>. SUFFICES ASSUME ClusterInv, main = "discover" PROVE DiscoverLast
    BY DEF DiscoverLast
  <2>1. OrchSize > 0 /\ main \in Past
    BY DEF ClusterInv, TypeInv, Where, Past
  <2>2. ASSUME NEW i \in Node PROVE {"orcUser", "orcClient"} \subseteq server[i].has
    BY <2>1, ReadyFacts DEF Prepared, FromPmmStep
  <2>3. ASSUME NEW i \in Node PROVE server[i].follows = 1 \/ (Replication = "async" /\ i = 1)
    BY <2>1, ReadyFacts DEF Complete, Async
  <2>. QED  BY <2>1, <2>2, <2>3, ReadyFacts DEF DiscoverLast
<1>. QED  BY <1>1, ClusterCorrect, PTL

\* When Create succeeds every server runs, with all the settings that any step
\* has written.  (manager.go:198-288, 370-486)
THEOREM SettingsCorrect == Spec => []SettingsInForce
<1>1. ClusterInv => SettingsInForce
  <2>. SUFFICES ASSUME ClusterInv, main \in {"outputs", "created"}, NEW i \in Node
                PROVE  /\ server[i].up /\ server[i].file = server[i].loaded
                       /\ Options \ {"myrocks"} \subseteq server[i].loaded
                       /\ "myrocks" \in Options => "engine" \in server[i].loaded
                       /\ Size > 1 => "replication" \in server[i].loaded
    BY DEF SettingsInForce
  <2>1. Complete(i) /\ Prepared(server[i], "done")
    BY ReadyFacts DEF Past
  <2>2. Options \subseteq {"custom", "myrocks", "pmm"}
    BY ConfigAssumption DEF ClusterInv, TypeInv, TypeOK, Options
  <2>3. /\ "custom" \in Options => "custom" \in server[i].file
        /\ "pmm" \in Options => "pmm" \in server[i].file
        /\ "myrocks" \in Options => "engine" \in server[i].file
    BY <2>1 DEF Prepared, FromPmmStep
  <2>. QED  BY <2>1, <2>2, <2>3 DEF Complete
<1>. QED  BY <1>1, ClusterCorrect, PTL

\* When Create succeeds no server lacks anything that was asked for, but for the
\* replica user that an erased error costs a server that does not bootstrap.
\* (manager.go:198-288, 391-398, 450-486)
THEOREM NothingMissingCorrect == Spec => []NothingMissing
<1>1. ClusterInv => NothingMissing
  <2>. SUFFICES ASSUME ClusterInv, main \in {"outputs", "created"}, NEW i \in Node,
                       NEW part \in Wanted(i), part \notin server[i].has
                PROVE  ErrorErased /\ i > 1 /\ part = "replicaUser"
    BY DEF NothingMissing
  <2>1. Complete(i) /\ Prepared(server[i], "done") /\ ~Troubled
        /\ ("pmm" \in Options => "pmmService" \in server[i].has)
    BY ReadyFacts DEF Past
  <2>2. /\ "udf" \in server[i].has
        /\ "myrocks" \in Options => "rocksdb" \in server[i].has
        /\ "pmm" \in Options => "pmmUser" \in server[i].has
        /\ OrchSize > 0 => {"orcUser", "orcClient"} \subseteq server[i].has
    BY <2>1 DEF Prepared, FromPmmStep
  <2>3. /\ Replication = "group-replication" \/ i > 1 => "source" \in server[i].has
        /\ Replication = "group-replication" \/ i = 1 =>
             "replicaUser" \in server[i].has \/ (i > 1 /\ ErrorErased)
    BY <2>1 DEF Complete, Excused, Group
  <2>. QED  BY <2>1, <2>2, <2>3 DEF Wanted
<1>. QED  BY <1>1, ClusterCorrect, PTL

\* When Create succeeds the only commands that failed are those whose errors are
\* logged, dropped, or erased by another goroutine.
\* (manager.go:122, 455; resource.go:157, 177)
THEOREM ErrorsCorrect == Spec => []OnlyErasedErrorsHide
<1>1. ClusterInv => OnlyErasedErrorsHide
  <2>. SUFFICES ASSUME ClusterInv, main = "created", NEW f \in faults
                PROVE  \/ f[1] \in {"discover", "outputs"}
                       \/ Replication = "group-replication" /\ f[1] = "grRestart"
    BY DEF OnlyErasedErrorsHide
  <2>1. ~Troubled
    BY ReadyFacts DEF Past
  <2>. QED  BY <2>1 DEF ClusterInv, Cluster, Errors, Group
<1>. QED  BY <1>1, ClusterCorrect, PTL

\* Once Create has returned nothing touches a server any more.  (errgroup Wait,
\* manager.go:93, 196, 262, 391)
THEOREM QuietCorrect == Spec => QuietAfterReturn
<1>1. ASSUME ClusterInv, [Next]_vars, main \in Ended PROVE UNCHANGED <<server, serving>>
  <2>1. CASE UNCHANGED vars
    BY <2>1 DEF vars
  <2>2. CASE Next
    <3>1. main \in {"created", "failed"} /\ setup \in {"done", "failed"} /\ orc \in {"done", "failed"}
      BY <1>1, <2>2 DEF Next, Ended, ClusterInv, TypeInv, Where, Past
    <3>2. \A i \in Node : ~NodeNext(i)
      BY <1>1, <3>1, NodesRun DEF Ended
    <3>3. ASSUME NEW o \in Host, HostNext(o) PROVE FALSE
      <4>1. host[o] \notin {"idle", "done", "failed"}
        BY <3>3 DEF HostNext, HostInit, InstallOrchestrator, SendOrchestratorConfig,
           SendCredentials, StartOrchestrator, HostWork
      <4>. QED  BY <1>1, <3>1, <4>1 DEF ClusterInv, Cluster, Places
    <3>4. ~SetupNext
      BY <3>1 DEF SetupNext, CreateServers, JoinNodes, CreateMasterReplicaUser, EditAsyncConfig,
         RestartAsync, ChangeReplicationSource, StartReplica, JoinGroupNodes, ChangeMemberSource,
         StartMember, AddServiceToPMM, Serial
    <3>5. ~OrcNext /\ ~MainNext
      BY <3>1 DEF OrcNext, CreateOrchestrators, JoinHosts, MainNext, JoinCluster,
         ListClusterInstances, RestartOrchestrator, Discover, SetOutputValues
    <3>. QED  BY <2>2, <3>2, <3>3, <3>4, <3>5 DEF Next
  <2>. QED  BY <1>1, <2>1, <2>2
<1>2. ClusterInv /\ [Next]_vars => [(main \in Ended) => UNCHANGED <<server, serving>>]_vars
  BY <1>1
<1>. QED  BY <1>2, ClusterCorrect, PTL DEF Spec, QuietAfterReturn
-----------------------------------------------------------------------------
(* The refinement of ClusterCreation.                                      *)

\* A step that leaves the membership of a server as it is.
Stays(j) ==
  /\ server'[j].follows = server[j].follows
  /\ Async => ("replicaUser" \in server'[j].has <=> "replicaUser" \in server[j].has)

Moves ==
  \/ Creation!Found
  \/ \E i \in 1 .. Size : Creation!Join(i) \/ Creation!Leave(i)
  \/ UNCHANGED Membership

LEMMA StaysMoves == ASSUME TypeOK, UNCHANGED conf, \A j \in Node : Stays(j) PROVE Moves
<1>1. Node' = Node /\ Async' = Async /\ 1 \in Node
  BY ConfSame, SizeIsNat
<1>. QED  BY <1>1 DEF Stays, Moves, Membership, Async

LEMMA MembersFound ==
  ASSUME TypeOK, UNCHANGED conf, Membership = [i \in Node |-> 0],
         Membership' = [Membership EXCEPT ![1] = 1]
  PROVE  Moves
  BY DEF Moves, Creation!Found, Node

LEMMA MembersJoin ==
  ASSUME UNCHANGED conf, NEW i \in Node, NEW j \in Node \ {i},
         Membership[i] = 0, Membership[j] # 0,
         Membership' = [Membership EXCEPT ![i] = Membership[j]]
  PROVE  Moves
<1>1. Creation!Join(i)
  BY DEF Creation!Join, Node
<1>. QED  BY <1>1 DEF Moves, Node

LEMMA WorkStays ==
  ASSUME TypeOK, NEW i \in Node, NEW step, NEW may, NEW new, NEW next,
         Work(i, step, may, new, next), new.follows = server[i].follows,
         Async => ("replicaUser" \in new.has <=> "replicaUser" \in server[i].has)
  PROVE  \A j \in Node : Stays(j)
<1>1. server' = [server EXCEPT ![i] = new] \/ server' = [server EXCEPT ![i] = server[i]]
  BY WorkShape
<1>. QED  BY <1>1 DEF Stays, TypeOK

LEMMA RestartStays ==
  ASSUME TypeOK, NEW i \in Node, NEW what, NEW cancelled, NEW ok, NEW bad,
         TryRestart(i, what, cancelled, ok, bad)
  PROVE  \A j \in Node : Stays(j)
<1>1. server \in [Node -> Server] /\ server[i] \in Server
  BY DEF TypeOK
<1>2. PICK new : /\ server' = server \/ server' = [server EXCEPT ![i] = new]
                 /\ new \in {Restarted(i), [server[i] EXCEPT !.up = FALSE]}
  BY <1>1 DEF TryRestart, Try
<1>3. new.follows = server[i].follows /\ new.has = server[i].has
  BY <1>1, <1>2 DEF Restarted, Server
<1>. QED  BY <1>1, <1>2, <1>3 DEF Stays

\* The first server bootstraps the group.
LEMMA StartGroupMoves ==
  ASSUME ClusterInv, NEW i \in Node, setup = "groupNodes", StartGroup(i)
  PROVE  Moves
<1>. PICK g \in Groups(i) :
       Work(i, "grStart", g # 0, [server[i] EXCEPT !.follows = g], "grBootOff")
  BY DEF StartGroup
<1>1. /\ node[i] = "grStart" /\ UNCHANGED conf /\ TypeOK
      /\ \/ server' = server
         \/ g # 0 /\ server' = [server EXCEPT ![i] = [server[i] EXCEPT !.follows = g]]
  BY DEF Work, Try, NodeOnly, ClusterInv, TypeInv
<1>2. /\ Group /\ ~Async /\ i = 1 /\ server \in [Node -> Server]
      /\ \A j \in Node : server[j].follows = 0
  BY <1>1, GroupFacts DEF Member, GroupNode, Async, Group, TypeOK
<1>3. CASE server' = server
  BY <1>1, <1>3, StaysMoves DEF Stays
<1>4. CASE g # 0 /\ server' = [server EXCEPT ![i] = [server[i] EXCEPT !.follows = g]]
  <2>1. g = 1
    BY <1>2, <1>4, BootGroup
  <2>2. Node' = Node /\ ~Async'
    BY <1>1, <1>2, ConfSame
  <2>3. /\ server'[1].follows = 1
        /\ \A j \in Node : j # 1 => server'[j].follows = 0
    BY <1>2, <1>4, <2>1 DEF Server
  <2>4. Membership = [j \in Node |-> 0] /\ Membership' = [Membership EXCEPT ![1] = 1]
    BY <1>2, <2>2, <2>3 DEF Membership, Async
  <2>. QED  BY <1>1, <2>4, MembersFound
<1>. QED  BY <1>1, <1>3, <1>4

LEMMA NodeMoves ==
  ASSUME ClusterInv, main # "crashed", NEW i \in Node, NodeNext(i)
  PROVE  UNCHANGED conf /\ main = "setup" /\ Moves
<1>1. /\ TypeOK /\ server \in [Node -> Server] /\ server[i] \in Server /\ main = "setup"
      /\ setup = "nodes" => node[i] \in SetupNode
      /\ setup = "groupNodes" => node[i] \in GroupNode
      /\ setup \in {"nodes", "groupNodes"}
  BY NodesRun DEF ClusterInv, TypeInv, TypeOK
<1>2. UNCHANGED conf
  BY DEF NodeNext, NodeInit, Configure, VersionList, InstallPerconaServer, SetPort, Restart,
     InstallUDF, SendConfig, InstallMyRocks, SetEngine, InstallPMMClient, CreatePMMUser,
     SetSlowLog, CreateOrchestratorUser, InstallOrchestratorClient, EditGroupConfig,
     RestartGroup, CheckErr, WrapErr, TornErr, CreateReplicaUser, ChangeGroupSource,
     BootstrapOn, StartGroup, BootstrapOff, Work, NodeOnly
<1>3. node[i] \in GroupNode => setup = "groupNodes" /\ ~Async
  BY <1>1 DEF ClusterInv, Cluster, Places, SetupNode, GroupNode, Async, Group
<1>. SUFFICES (\A j \in Node : Stays(j)) \/ Moves
  BY <1>1, <1>2, StaysMoves
<1>4. CASE \/ NodeInit(i) \/ Configure(i) \/ VersionList(i) \/ InstallPMMClient(i)
  BY <1>1, <1>4, WorkStays DEF NodeInit, Configure, VersionList, InstallPMMClient
<1>5. CASE InstallPerconaServer(i)
  <2>1. [server[i] EXCEPT !.up = TRUE].follows = server[i].follows
        /\ [server[i] EXCEPT !.up = TRUE].has = server[i].has
    BY <1>1 DEF Server
  <2>. QED  BY <1>1, <1>5, <2>1, WorkStays DEF InstallPerconaServer
<1>6. CASE \/ SetPort(i) \/ SendConfig(i) \/ SetEngine(i) \/ SetSlowLog(i) \/ EditGroupConfig(i)
  <2>1. \A x : Edited(i, x).follows = server[i].follows /\ Edited(i, x).has = server[i].has
    BY <1>1 DEF Edited, Server
  <2>2. CASE SetPort(i)
    BY <1>1, <2>1, <2>2, WorkStays DEF SetPort
  <2>3. CASE SendConfig(i)
    BY <1>1, <2>1, <2>3, WorkStays DEF SendConfig
  <2>4. CASE SetEngine(i)
    BY <1>1, <2>1, <2>4, WorkStays DEF SetEngine
  <2>5. CASE SetSlowLog(i)
    BY <1>1, <2>1, <2>5, WorkStays DEF SetSlowLog
  <2>6. CASE EditGroupConfig(i)
    BY <1>1, <2>1, <2>6, WorkStays DEF EditGroupConfig
  <2>. QED  BY <1>6, <2>2, <2>3, <2>4, <2>5, <2>6
<1>7. CASE \/ InstallUDF(i) \/ InstallMyRocks(i) \/ CreatePMMUser(i)
           \/ CreateOrchestratorUser(i) \/ InstallOrchestratorClient(i)
  <2>1. \A x : /\ With(i, x).follows = server[i].follows
               /\ x # "replicaUser" =>
                    ("replicaUser" \in With(i, x).has <=> "replicaUser" \in server[i].has)
    BY <1>1 DEF With, Server
  <2>2. CASE InstallUDF(i)
    BY <1>1, <2>1, <2>2, WorkStays DEF InstallUDF
  <2>3. CASE InstallMyRocks(i)
    BY <1>1, <2>1, <2>3, WorkStays DEF InstallMyRocks
  <2>4. CASE CreatePMMUser(i)
    BY <1>1, <2>1, <2>4, WorkStays DEF CreatePMMUser
  <2>5. CASE CreateOrchestratorUser(i)
    BY <1>1, <2>1, <2>5, WorkStays DEF CreateOrchestratorUser
  <2>6. CASE InstallOrchestratorClient(i)
    BY <1>1, <2>1, <2>6, WorkStays DEF InstallOrchestratorClient
  <2>. QED  BY <1>7, <2>2, <2>3, <2>4, <2>5, <2>6
<1>8. CASE Restart(i)
  BY <1>1, <1>8, RestartStays DEF Restart
<1>9. CASE RestartGroup(i)
  BY <1>1, <1>9, RestartStays DEF RestartGroup
<1>10. CASE CheckErr(i) \/ WrapErr(i) \/ TornErr(i)
  BY <1>10 DEF CheckErr, WrapErr, TornErr, Stays
<1>11. CASE CreateReplicaUser(i) \/ ChangeGroupSource(i)
  <2>1. node[i] \in GroupNode
    BY <1>11 DEF CreateReplicaUser, ChangeGroupSource, Work, GroupNode
  <2>2. \A x : With(i, x).follows = server[i].follows
    BY <1>1 DEF With, Server
  <2>3. CASE CreateReplicaUser(i)
    BY <1>1, <1>3, <2>1, <2>2, <2>3, WorkStays DEF CreateReplicaUser
  <2>4. CASE ChangeGroupSource(i)
    BY <1>1, <1>3, <2>1, <2>2, <2>4, WorkStays DEF ChangeGroupSource
  <2>. QED  BY <1>11, <2>3, <2>4
<1>12. CASE BootstrapOn(i) \/ BootstrapOff(i)
  <2>1. node[i] \in GroupNode
    BY <1>12 DEF BootstrapOn, BootstrapOff, Work, GroupNode
  <2>2. \A x : [server[i] EXCEPT !.boot = x].follows = server[i].follows
    BY <1>1 DEF Server
  <2>3. CASE BootstrapOn(i)
    BY <1>1, <1>3, <2>1, <2>2, <2>3, WorkStays DEF BootstrapOn
  <2>4. CASE BootstrapOff(i)
    BY <1>1, <1>3, <2>1, <2>2, <2>4, WorkStays DEF BootstrapOff
  <2>. QED  BY <1>12, <2>3, <2>4
<1>13. CASE StartGroup(i)
  <2>1. node[i] \in GroupNode
    BY <1>13 DEF StartGroup, Work, GroupNode
  <2>. QED  BY <1>3, <1>13, <2>1, StartGroupMoves
<1>. QED  BY <1>4, <1>5, <1>6, <1>7, <1>8, <1>9, <1>10, <1>11, <1>12, <1>13 DEF NodeNext

\* A command of a sequential loop that does not touch the replication.
LEMMA SerialStays ==
  ASSUME TypeOK, cur \in Node, NEW step, NEW may, NEW new, NEW ok, Serial(step, may, new, ok),
         new.follows = server[cur].follows,
         Async => ("replicaUser" \in new.has <=> "replicaUser" \in server[cur].has)
  PROVE  \A j \in Node : Stays(j)
  BY DEF Serial, Try, Stays, TypeOK

\* The master founds the cluster with the user of the replicas.
LEMMA MasterMoves ==
  ASSUME ClusterInv, CreateMasterReplicaUser
  PROVE  Moves
<1>1. /\ setup = "replicaUser" /\ setup \in AsyncStep /\ UNCHANGED conf
      /\ server' = server \/ server' = [server EXCEPT ![cur] = With(cur, "replicaUser")]
  BY DEF CreateMasterReplicaUser, Serial, Try, SetupOnly, AsyncStep
<1>2. /\ cur = 1 /\ TypeOK /\ Async /\ 1 \in Node /\ server \in [Node -> Server]
      /\ \A j \in Node : server[j].follows = 0
  <2>1. cur = 1
    BY <1>1 DEF ClusterInv, Cluster, AsyncLoop
  <2>2. \A j \in Node : j > 1 => server[j].follows = 0
    BY <1>1, <2>1, AsyncFacts DEF Untouched
  <2>3. server[1].follows = 0 /\ \A j \in Node : j \in Nat /\ j >= 1
    BY <1>1, <2>1, AsyncFacts
  <2>. QED  BY <1>1, <2>1, <2>2, <2>3, AsyncFacts
<1>3. CASE server' = server \/ "replicaUser" \in server[1].has
  <2>1. \A j \in Node : Stays(j)
    BY <1>1, <1>2, <1>3 DEF Stays, With, Server
  <2>. QED  BY <1>1, <1>2, <2>1, StaysMoves
<1>4. CASE /\ "replicaUser" \notin server[1].has
           /\ server' = [server EXCEPT ![cur] = With(cur, "replicaUser")]
  <2>1. Node' = Node /\ Async' = Async
    BY <1>1, ConfSame
  <2>2. /\ "replicaUser" \in server'[1].has
        /\ \A j \in Node : server'[j].follows = 0
    BY <1>2, <1>4 DEF With, Server
  <2>3. Membership = [j \in Node |-> 0] /\ Membership' = [Membership EXCEPT ![1] = 1]
    BY <1>2, <1>4, <2>1, <2>2 DEF Membership, Async
  <2>. QED  BY <1>1, <1>2, <2>3, MembersFound
<1>. QED  BY <1>1, <1>2, <1>3, <1>4

\* A replica joins when it follows the master.
LEMMA ReplicaMoves ==
  ASSUME ClusterInv, StartReplica
  PROVE  Moves
<1>1. /\ setup = "asyncStart" /\ setup \in AsyncStep /\ UNCHANGED conf
      /\ server' = server \/ server' = [server EXCEPT ![cur] = [server[cur] EXCEPT !.follows = 1]]
  BY DEF StartReplica, Serial, Try, SetupOnly, AsyncStep
<1>2. /\ cur \in Node /\ 1 \in Node \ {cur} /\ TypeOK /\ Async /\ server \in [Node -> Server]
      /\ "replicaUser" \in server[1].has /\ server[cur].follows = 0
  BY <1>1, AsyncFacts, MasterFacts
<1>3. CASE server' = server
  BY <1>1, <1>2, <1>3, StaysMoves DEF Stays
<1>4. CASE server' = [server EXCEPT ![cur] = [server[cur] EXCEPT !.follows = 1]]
  <2>1. Node' = Node /\ Async' = Async
    BY <1>1, ConfSame
  <2>2. /\ server'[cur].follows = 1 /\ server'[1] = server[1]
        /\ \A j \in Node : j # cur => server'[j] = server[j]
    BY <1>2, <1>4 DEF Server
  <2>3. Membership[cur] = 0 /\ Membership[1] = 1
    BY <1>2 DEF Membership, Async
  <2>4. Membership' = [Membership EXCEPT ![cur] = 1]
    BY <1>2, <2>1, <2>2 DEF Membership, Async
  <2>5. Membership' = [Membership EXCEPT ![cur] = Membership[1]] /\ Membership[1] # 0
    BY <2>3, <2>4
  <2>. QED  BY <1>1, <1>2, <2>3, <2>5, MembersJoin
<1>. QED  BY <1>1, <1>3, <1>4

\* A member joins the group that another one is in.
LEMMA MemberMoves ==
  ASSUME ClusterInv, StartMember
  PROVE  Moves
<1>. PICK g \in Groups(cur) :
       Serial("groupStart", g # 0, [server[cur] EXCEPT !.follows = g],
              IF cur < Size THEN Advance("groupSource", cur + 1) ELSE AfterReplication)
  BY DEF StartMember
<1>1. /\ setup = "groupStart" /\ setup \in MemberStep /\ UNCHANGED conf
      /\ \/ server' = server
         \/ g # 0 /\ server' = [server EXCEPT ![cur] = [server[cur] EXCEPT !.follows = g]]
  BY DEF Serial, Try, SetupOnly, MemberStep
<1>2. /\ cur \in Node /\ TypeOK /\ ~Async /\ server \in [Node -> Server]
      /\ ~server[cur].boot /\ server[cur].follows = 0 /\ cur >= cur
  BY <1>1, MemberFacts
<1>3. CASE server' = server
  BY <1>1, <1>2, <1>3, StaysMoves DEF Stays
<1>4. CASE g # 0 /\ server' = [server EXCEPT ![cur] = [server[cur] EXCEPT !.follows = g]]
  <2>1. g \in {server[j].follows : j \in {k \in Node \ {cur} : server[k].follows # 0}}
    BY <1>2, <1>4 DEF Groups, Joinable
  <2>2. PICK j \in Node \ {cur} : g = server[j].follows
    BY <2>1
  <2>3. Node' = Node /\ ~Async'
    BY <1>1, <1>2, ConfSame
  <2>4. Membership[cur] = 0 /\ Membership[j] = g
    BY <1>2, <2>2 DEF Membership, Async
  <2>5. server'[cur].follows = g /\ \A k \in Node : k # cur => server'[k] = server[k]
    BY <1>2, <1>4 DEF Server
  <2>6. Membership' = [Membership EXCEPT ![cur] = g]
    BY <1>2, <2>3, <2>5 DEF Membership, Async
  <2>. QED  BY <1>1, <1>2, <1>4, <2>2, <2>4, <2>6, MembersJoin
<1>. QED  BY <1>1, <1>3, <1>4

LEMMA SetupMoves ==
  ASSUME ClusterInv, main # "crashed", SetupNext
  PROVE  UNCHANGED conf /\ main = "setup" /\ Moves
<1>1. setup \notin {"done", "failed"} /\ UNCHANGED conf
  BY DEF SetupNext, CreateServers, JoinNodes, CreateMasterReplicaUser, EditAsyncConfig,
     RestartAsync, ChangeReplicationSource, StartReplica, JoinGroupNodes, ChangeMemberSource,
     StartMember, AddServiceToPMM, Serial, SetupOnly
<1>2. main = "setup" /\ cur \in Node /\ TypeOK /\ server \in [Node -> Server] /\ server[cur] \in Server
  BY <1>1, SetupRuns DEF ClusterInv, TypeInv, TypeOK
<1>. SUFFICES (\A j \in Node : Stays(j)) \/ Moves
  BY <1>1, <1>2, StaysMoves
<1>3. CASE CreateServers \/ JoinNodes \/ JoinGroupNodes
  BY <1>3 DEF CreateServers, JoinNodes, JoinGroupNodes, Stays
<1>4. CASE CreateMasterReplicaUser
  BY <1>4, MasterMoves
<1>5. CASE StartReplica
  BY <1>5, ReplicaMoves
<1>6. CASE StartMember
  BY <1>6, MemberMoves
<1>7. CASE RestartAsync
  BY <1>2, <1>7, RestartStays DEF RestartAsync
<1>8. CASE EditAsyncConfig
  <2>1. Edited(cur, "replication").follows = server[cur].follows
        /\ Edited(cur, "replication").has = server[cur].has
    BY <1>2 DEF Edited, Server
  <2>. QED  BY <1>2, <1>8, <2>1, SerialStays DEF EditAsyncConfig
<1>9. CASE ChangeReplicationSource \/ ChangeMemberSource \/ AddServiceToPMM
  <2>1. \A x : /\ With(cur, x).follows = server[cur].follows
               /\ x # "replicaUser" =>
                    ("replicaUser" \in With(cur, x).has <=> "replicaUser" \in server[cur].has)
    BY <1>2 DEF With, Server
  <2>2. CASE ChangeReplicationSource
    BY <1>2, <2>1, <2>2, SerialStays DEF ChangeReplicationSource
  <2>3. CASE ChangeMemberSource
    BY <1>2, <2>1, <2>3, SerialStays DEF ChangeMemberSource
  <2>4. CASE AddServiceToPMM
    BY <1>2, <2>1, <2>4, SerialStays DEF AddServiceToPMM
  <2>. QED  BY <1>9, <2>2, <2>3, <2>4
<1>. QED  BY <1>3, <1>4, <1>5, <1>6, <1>7, <1>8, <1>9 DEF SetupNext

LEMMA OtherMoves ==
  ASSUME ClusterInv, main # "crashed", OrcNext \/ MainNext \/ \E o \in Host : HostNext(o)
  PROVE  UNCHANGED conf /\ main \notin Ended /\ Moves
<1>1. TypeOK /\ server \in [Node -> Server] /\ \A j \in Node : server[j] \in Server
  BY DEF ClusterInv, TypeInv, TypeOK
<1>2. CASE MainNext
  <2>1. UNCHANGED conf /\ main \notin Ended
    BY <1>2 DEF MainNext, JoinCluster, ListClusterInstances, RestartOrchestrator, Discover,
       SetOutputValues, MainOnly, Ended
  <2>2. CASE UNCHANGED server
    BY <1>1, <2>1, <2>2, StaysMoves DEF Stays
  <2>3. CASE Discover
    <3>1. server' = server \/ server' = [server EXCEPT ![cur] = With(cur, "discovered")]
      BY <2>3 DEF Discover, Try
    <3>2. cur \in Node
      BY <2>3 DEF Discover, ClusterInv, TypeInv, Where
    <3>3. \A j \in Node : Stays(j)
      BY <1>1, <3>1, <3>2 DEF Stays, With, Server
    <3>. QED  BY <1>1, <2>1, <3>3, StaysMoves
  <2>. QED  BY <1>2, <2>1, <2>2, <2>3 DEF MainNext, JoinCluster, ListClusterInstances,
            RestartOrchestrator, SetOutputValues
<1>3. CASE OrcNext \/ \E o \in Host : HostNext(o)
  <2>1. UNCHANGED <<conf, server>>
    BY <1>3 DEF OrcNext, CreateOrchestrators, JoinHosts, HostNext, HostInit, InstallOrchestrator,
       SendOrchestratorConfig, SendCredentials, StartOrchestrator, HostWork, OrcOnly
  <2>2. orc \notin {"done", "failed"}
    <3>1. CASE OrcNext
      BY <3>1 DEF OrcNext, CreateOrchestrators, JoinHosts
    <3>2. ASSUME NEW o \in Host, HostNext(o) PROVE orc \notin {"done", "failed"}
      <4>1. host[o] \notin {"idle", "done", "failed"}
        BY <3>2 DEF HostNext, HostInit, InstallOrchestrator, SendOrchestratorConfig,
           SendCredentials, StartOrchestrator, HostWork
      <4>. QED  BY <4>1 DEF ClusterInv, Cluster, Places
    <3>. QED  BY <1>3, <3>1, <3>2
  <2>3. main = "setup"
    BY <2>2, SetupRuns DEF ClusterInv
  <2>. QED  BY <1>1, <2>1, <2>3, StaysMoves DEF Stays, Ended
<1>. QED  BY <1>2, <1>3

\* Create ends without an error only when every server is in the cluster.
Returned ==
  \/ Status \in {"creating", "failed"}
  \/ Status = "created" /\ \A i \in 1 .. Size : Membership[i] # 0

LEMMA StatusMoves == ClusterInv => Returned
<1>. SUFFICES ASSUME ClusterInv PROVE Returned
  OBVIOUS
<1>1. CASE main = "created"
  <2>1. \A i \in Node : Complete(i)
    BY <1>1, ReadyFacts DEF Past
  <2>2. ~Troubled /\ 1 \in Node
    BY <1>1, ReadyFacts, SizeIsNat DEF Past, ClusterInv, TypeInv
  <2>3. \A i \in Node : Membership[i] # 0
    BY <2>1, <2>2 DEF Membership, Complete, Async
  <2>. QED  BY <1>1, <2>3 DEF Returned, Status, Node
<1>. QED  BY <1>1 DEF Returned, Status

\* Every Create of a percona_ps resource sets up one cluster, with either kind of
\* replication: the first server founds it, the others join it one by one, every
\* server is in it when Create succeeds, and when Create has returned nothing
\* touches a server any more.  (createCluster, manager.go:54-156)
THEOREM PsImplementsCreation == Spec => ImplementsCreation
<1>1. Init => Creation!CreationInit
  <2>. SUFFICES ASSUME Init PROVE Creation!CreationInit
    OBVIOUS
  <2>1. Size \in Nat \ {0} /\ 1 \in Node
    BY ConfigAssumption DEF Init, Size, Node
  <2>2. Membership = [i \in Node |-> 0]
    BY <2>1 DEF Init, Membership, Blank
  <2>. QED  BY <2>1, <2>2 DEF Init, Creation!CreationInit, Status, Node
<1>2. ClusterInv /\ Returned' /\ [Next]_vars => [Creation!CreationNext]_(Creation!creationVars)
  <2>1. ASSUME ClusterInv, Returned', Next PROVE Creation!CreationNext
    <3>1. UNCHANGED conf /\ main \notin Ended /\ Moves
      BY <2>1, NodeMoves, SetupMoves, OtherMoves DEF Next, Ended
    <3>2. Status = "creating" /\ UNCHANGED Size
      BY <3>1 DEF Status, Ended, Size
    <3>. QED  BY <2>1, <3>1, <3>2 DEF Creation!CreationNext, Moves, Returned
  <2>2. ASSUME UNCHANGED vars PROVE UNCHANGED Creation!creationVars
    BY <2>2 DEF vars, Creation!creationVars, Status, Membership, Node, Size, Replication
  <2>. QED  BY <2>1, <2>2
<1>. QED  BY <1>1, <1>2, StatusMoves, ClusterCorrect, PTL
     DEF Spec, ImplementsCreation, Creation!CreationSpec
-----------------------------------------------------------------------------
(* Create ends: every step of it is a step forward.                        *)

\* Before the replication is set up, "done" is the end of the first goroutine
\* of a server; after that, the end of its second one.
First == setup \in {"instances", "nodes"}

\* How far a goroutine is.
StepRank(step, first) ==
  IF step = "done" THEN IF first THEN 16 ELSE 26
  ELSE [idle |-> 0, init |-> 1, configure |-> 2, versions |-> 3, install |-> 4, port |-> 5,
        restart |-> 6, udf |-> 7, custom |-> 8, myrocks |-> 9, engine |-> 10,
        pmmClient |-> 11, pmmUser |-> 12, pmmCfg |-> 13, orcUser |-> 14, orcClient |-> 15,
        grEdit |-> 17, grRestart |-> 18, grCheck |-> 19, grWrap |-> 20, grUser |-> 21,
        grSource |-> 22, grBootOn |-> 23, grStart |-> 24, grBootOff |-> 25, failed |-> 27][step]
NodeRank == [i \in Node |-> StepRank(node[i], First)]

StageRank(step) ==
  [idle |-> 0, init |-> 1, install |-> 2, config |-> 3, creds |-> 4, start |-> 5,
   done |-> 6, failed |-> 7][step]
HostRank == [o \in Host |-> StageRank(host[o])]

SetupRank ==
  IF setup = "instances" THEN 0
  ELSE IF setup = "nodes" THEN 1
  ELSE IF setup \in {"replicaUser", "groupNodes"} THEN 2
  ELSE IF setup = "asyncEdit" THEN 3 + 4 * cur
  ELSE IF setup \in {"asyncRestart", "groupSource"} THEN 4 + 4 * cur
  ELSE IF setup \in {"asyncSource", "groupStart"} THEN 5 + 4 * cur
  ELSE IF setup = "asyncStart" THEN 6 + 4 * cur
  ELSE IF setup = "pmmService" THEN 6 + 4 * Size + cur
  ELSE IF setup = "done" THEN 7 + 5 * Size ELSE 8 + 5 * Size

OrcRank == [create |-> 0, hosts |-> 1, done |-> 2, failed |-> 3][orc]

MainRank ==
  IF main = "setup" THEN 0
  ELSE IF main = "list" THEN 1
  ELSE IF main = "orcRestart" THEN 1 + cur
  ELSE IF main = "discover" THEN 1 + OrchSize + cur
  ELSE IF main = "outputs" THEN 2 + OrchSize + Size ELSE 3 + OrchSize + Size

\* The ranks of everyone are bounded, by the arguments of the resource alone.
RanksBounded ==
  /\ NodeRank \in [Node -> 0 .. 27] /\ HostRank \in [Host -> 0 .. 7]
  /\ SetupRank \in 0 .. 8 + 5 * Size /\ OrcRank \in 0 .. 3
  /\ MainRank \in 0 .. 3 + OrchSize + Size

\* Nobody goes back, ...
NoneBack ==
  /\ UNCHANGED conf
  /\ \A i \in Node : NodeRank'[i] >= NodeRank[i]
  /\ \A o \in Host : HostRank'[o] >= HostRank[o]
  /\ SetupRank' >= SetupRank /\ OrcRank' >= OrcRank /\ MainRank' >= MainRank

\* ... and somebody goes on.
OneOn ==
  \/ \E i \in Node : NodeRank'[i] > NodeRank[i]
  \/ \E o \in Host : HostRank'[o] > HostRank[o]
  \/ SetupRank' > SetupRank \/ OrcRank' > OrcRank \/ MainRank' > MainRank

Forward == [][NoneBack /\ OneOn]_vars

\* As long as Create has not ended somebody is at a step of his own: not idle,
\* not at his end, and not at a Wait for goroutines that still run.
SomebodyRuns ==
  main \notin Ended =>
    \/ \E i \in Node : node[i] \in SetupNode \cup GroupNode
    \/ \E o \in Host : host[o] \notin {"idle", "done", "failed"}
    \/ setup \notin {"nodes", "groupNodes", "done", "failed"}
    \/ setup \in {"nodes", "groupNodes"} /\ AllEnded
    \/ orc = "create"
    \/ orc = "hosts" /\ \A o \in Host : host[o] \in {"done", "failed"}
    \/ setup \in {"done", "failed"} /\ orc \in {"done", "failed"}

LEMMA RanksOfSteps ==
  /\ \A step \in NodeStep, first \in BOOLEAN : StepRank(step, first) \in 0 .. 27
  /\ \A step \in HostStep : StageRank(step) \in 0 .. 7
  /\ \A step \in NodeStep \ {"failed"}, first \in BOOLEAN :
       StepRank("failed", first) > StepRank(step, first)
<1>1. ASSUME NEW step \in NodeStep, NEW first \in BOOLEAN
      PROVE  /\ StepRank(step, first) \in 0 .. 27
             /\ step # "failed" => StepRank("failed", first) > StepRank(step, first)
  BY DEF NodeStep, StepRank
<1>2. ASSUME NEW step \in HostStep PROVE StageRank(step) \in 0 .. 7
  BY DEF HostStep, StageRank
<1>. QED  BY <1>1, <1>2

\* The goroutine of a server goes to a later step, and nobody else does anything.
NodeOn(i) ==
  /\ UNCHANGED <<conf, main, setup, orc, cur, host>>
  /\ \E s : Go(i, s) /\ StepRank(s, First) > StepRank(node[i], First)

LEMMA WorkOn ==
  ASSUME TypeOK, NEW i \in Node, NEW step, NEW may, NEW new, NEW next,
         Work(i, step, may, new, next), step # "failed",
         StepRank(next, First) > StepRank(step, First)
  PROVE  NodeOn(i)
<1>1. First \in BOOLEAN /\ node[i] = step /\ step \in NodeStep
  BY WorkShape DEF First, TypeOK
<1>2. StepRank("failed", First) > StepRank(step, First)
  BY <1>1, RanksOfSteps
<1>. QED  BY <1>1, <1>2, WorkShape DEF NodeOn, NodeOnly

LEMMA NodeForward ==
  ASSUME ClusterInv, main # "crashed", NEW i \in Node, NodeNext(i), ~TornErr(i)
  PROVE  NodeOn(i)
<1>1. /\ TypeOK /\ node[i] \in NodeStep /\ First \in BOOLEAN
      /\ node[i] \in SetupNode => First = TRUE
      /\ node[i] \in GroupNode => First = FALSE
  BY NodesRun DEF ClusterInv, TypeInv, TypeOK, First, SetupNode, GroupNode
<1>2. CASE NodeInit(i)
  <2>1. StepRank("configure", First) > StepRank("init", First)
    BY DEF StepRank
  <2>. QED  BY <1>1, <1>2, <2>1, WorkOn DEF NodeInit
<1>3. CASE Configure(i)
  <2>1. StepRank("versions", First) > StepRank("configure", First)
    BY DEF StepRank
  <2>. QED  BY <1>1, <1>3, <2>1, WorkOn DEF Configure
<1>4. CASE VersionList(i)
  <2>1. StepRank("install", First) > StepRank("versions", First)
    BY DEF StepRank
  <2>. QED  BY <1>1, <1>4, <2>1, WorkOn DEF VersionList
<1>5. CASE InstallPerconaServer(i)
  <2>1. StepRank("port", First) > StepRank("install", First)
    BY DEF StepRank
  <2>. QED  BY <1>1, <1>5, <2>1, WorkOn DEF InstallPerconaServer
<1>6. CASE SetPort(i)
  <2>1. StepRank("restart", First) > StepRank("port", First)
    BY DEF StepRank
  <2>. QED  BY <1>1, <1>6, <2>1, WorkOn DEF SetPort
<1>7. CASE Restart(i)
  <2>1. node[i] = "restart" /\ UNCHANGED <<conf, main, setup, orc, cur, host>>
        /\ (Go(i, "udf") \/ Go(i, "failed"))
    BY <1>7 DEF Restart, TryRestart, Try, Then, NodeOnly
  <2>. QED  BY <2>1 DEF NodeOn, StepRank
<1>8. CASE InstallUDF(i)
  <2>1. StepRank(FromCustom, TRUE) > 7
    BY DEF FromCustom, FromMyRocks, FromPmm, FromOrchestrator, StepRank
  <2>. QED  BY <1>1, <1>8, <2>1, WorkOn DEF InstallUDF, StepRank, SetupNode, Work
<1>9. CASE SendConfig(i)
  <2>1. StepRank(FromMyRocks, TRUE) > 8
    BY DEF FromMyRocks, FromPmm, FromOrchestrator, StepRank
  <2>. QED  BY <1>1, <1>9, <2>1, WorkOn DEF SendConfig, StepRank, SetupNode, Work
<1>10. CASE InstallMyRocks(i)
  BY <1>1, <1>10, WorkOn DEF InstallMyRocks, StepRank
<1>11. CASE SetEngine(i)
  <2>1. StepRank(FromPmm, TRUE) > 10
    BY DEF FromPmm, FromOrchestrator, StepRank
  <2>. QED  BY <1>1, <1>11, <2>1, WorkOn DEF SetEngine, StepRank, SetupNode, Work
<1>12. CASE InstallPMMClient(i)
  <2>1. StepRank("pmmUser", First) > StepRank("pmmClient", First)
    BY DEF StepRank
  <2>. QED  BY <1>1, <1>12, <2>1, WorkOn DEF InstallPMMClient
<1>13. CASE CreatePMMUser(i)
  BY <1>1, <1>13, WorkOn DEF CreatePMMUser, StepRank
<1>14. CASE SetSlowLog(i)
  <2>1. StepRank(FromOrchestrator, TRUE) > 13
    BY DEF FromOrchestrator, StepRank
  <2>. QED  BY <1>1, <1>14, <2>1, WorkOn DEF SetSlowLog, StepRank, SetupNode, Work
<1>15. CASE CreateOrchestratorUser(i)
  BY <1>1, <1>15, WorkOn DEF CreateOrchestratorUser, StepRank
<1>16. CASE InstallOrchestratorClient(i)
  <2>1. First = TRUE
    BY <1>1, <1>16 DEF InstallOrchestratorClient, SetupNode, Work
  <2>2. StepRank("done", TRUE) > StepRank("orcClient", TRUE)
    BY DEF StepRank
  <2>. QED  BY <1>1, <1>16, <2>1, <2>2, WorkOn DEF InstallOrchestratorClient
<1>17. CASE EditGroupConfig(i)
  <2>1. StepRank("grRestart", First) > StepRank("grEdit", First)
    BY DEF StepRank
  <2>. QED  BY <1>1, <1>17, <2>1, WorkOn DEF EditGroupConfig
<1>18. CASE RestartGroup(i)
  <2>1. node[i] = "grRestart" /\ UNCHANGED <<conf, main, setup, orc, cur, host>> /\ Go(i, "grCheck")
    BY <1>18 DEF RestartGroup, NodeOnly
  <2>. QED  BY <2>1 DEF NodeOn, StepRank
<1>19. CASE CheckErr(i)
  <2>1. node[i] = "grCheck" /\ UNCHANGED <<conf, main, setup, orc, cur, host>>
        /\ (Go(i, "grUser") \/ Go(i, "grWrap") \/ Go(i, "failed"))
    BY <1>19 DEF CheckErr, Then, NodeOnly
  <2>. QED  BY <2>1 DEF NodeOn, StepRank
<1>20. CASE WrapErr(i)
  <2>1. node[i] = "grWrap" /\ UNCHANGED <<conf, main, setup, orc, cur, host>>
        /\ (Go(i, "done") \/ Go(i, "failed"))
    BY <1>20 DEF WrapErr, NodeOnly
  <2>2. First = FALSE
    BY <1>1, <2>1 DEF GroupNode
  <2>. QED  BY <2>1, <2>2 DEF NodeOn, StepRank
<1>21. CASE CreateReplicaUser(i)
  <2>1. StepRank(AfterReplicaUser(i), FALSE) > 21
    BY DEF AfterReplicaUser, StepRank
  <2>. QED  BY <1>1, <1>21, <2>1, WorkOn DEF CreateReplicaUser, StepRank, GroupNode, Work
<1>22. CASE ChangeGroupSource(i)
  BY <1>1, <1>22, WorkOn DEF ChangeGroupSource, StepRank
<1>23. CASE BootstrapOn(i)
  BY <1>1, <1>23, WorkOn DEF BootstrapOn, StepRank
<1>24. CASE StartGroup(i)
  BY <1>1, <1>24, WorkOn DEF StartGroup, StepRank
<1>25. CASE BootstrapOff(i)
  BY <1>1, <1>25, WorkOn DEF BootstrapOff, StepRank, GroupNode, Work
<1>. QED  BY <1>2, <1>3, <1>4, <1>5, <1>6, <1>7, <1>8, <1>9, <1>10, <1>11, <1>12, <1>13, <1>14,
            <1>15, <1>16, <1>17, <1>18, <1>19, <1>20, <1>21, <1>22, <1>23, <1>24, <1>25 DEF NodeNext

LEMMA HostForward ==
  ASSUME ClusterInv, NEW o \in Host, HostNext(o)
  PROVE  /\ UNCHANGED <<conf, main, setup, orc, cur, node>>
         /\ \E s : host' = [host EXCEPT ![o] = s] /\ StageRank(s) > StageRank(host[o])
<1>1. /\ UNCHANGED <<conf, main, setup, orc, cur, node>>
      /\ \/ /\ host[o] = "init"
            /\ \E s \in {"install", "failed"} : host' = [host EXCEPT ![o] = s]
         \/ /\ host[o] = "install"
            /\ \E s \in {"config", "failed"} : host' = [host EXCEPT ![o] = s]
         \/ /\ host[o] = "config"
            /\ \E s \in {"creds", "failed"} : host' = [host EXCEPT ![o] = s]
         \/ /\ host[o] = "creds"
            /\ \E s \in {"start", "failed"} : host' = [host EXCEPT ![o] = s]
         \/ /\ host[o] = "start"
            /\ \E s \in {"done", "failed"} : host' = [host EXCEPT ![o] = s]
  BY DEF HostNext, HostInit, InstallOrchestrator, SendOrchestratorConfig, SendCredentials,
     StartOrchestrator, HostWork, OrcOnly, Then
<1>. QED  BY <1>1 DEF StageRank

LEMMA SetupForward ==
  ASSUME ClusterInv, main # "crashed", SetupNext
  PROVE  /\ UNCHANGED <<conf, main, orc, host>> /\ main = "setup"
         /\ SetupRank' > SetupRank
         /\ \/ UNCHANGED node /\ First' = First
            \/ setup = "instances" /\ First' /\ node' = [i \in Node |-> "init"]
            \/ setup = "instances" /\ ~First' /\ UNCHANGED node
            \/ setup = "nodes" /\ ~First' /\ UNCHANGED node
            \/ setup = "nodes" /\ ~First' /\ node' = [i \in Node |-> "grEdit"]
<1>1. setup \notin {"done", "failed"} /\ UNCHANGED <<conf, main, orc, host>>
  BY DEF SetupNext, CreateServers, JoinNodes, CreateMasterReplicaUser, EditAsyncConfig,
     RestartAsync, ChangeReplicationSource, StartReplica, JoinGroupNodes, ChangeMemberSource,
     StartMember, AddServiceToPMM, Serial, SetupOnly
<1>2. /\ main = "setup" /\ cur \in Nat /\ cur >= 1 /\ cur <= Size /\ Size \in Nat /\ Size >= 1
      /\ Size' = Size
  BY <1>1, SetupRuns, SizeIsNat DEF ClusterInv, TypeInv, Size
<1>3. SetupRank' > SetupRank
  <2>1. ASSUME setup \in SetupStep \ {"done", "failed"}, setup' = "failed"
        PROVE  SetupRank' > SetupRank
    BY <1>2, <2>1 DEF SetupRank, SetupStep
  <2>2. CASE setup' = "failed"
    BY <1>1, <2>1, <2>2 DEF ClusterInv, TypeInv, TypeOK
  <2>3. ASSUME setup' # "failed", AfterReplication
        PROVE  SetupRank' \in Nat /\ SetupRank' > 6 + 4 * Size
    BY <1>2, <2>3, AfterReplicationIs DEF SetupRank
  <2>4. ASSUME setup' # "failed", NextReplica
        PROVE  SetupRank' \in Nat /\ SetupRank' > 6 + 4 * cur
    <3>1. CASE cur < Size
      <4>1. setup' = "asyncEdit" /\ cur' = cur + 1
        BY <2>4, <3>1, NextReplicaIs
      <4>. QED  BY <1>2, <4>1 DEF SetupRank
    <3>2. CASE ~(cur < Size)
      <4>1. AfterReplication /\ cur = Size
        BY <1>2, <2>4, <3>2, NextReplicaIs
      <4>. QED  BY <2>3, <2>4, <4>1
    <3>. QED  BY <3>1, <3>2
  <2>. SUFFICES ASSUME setup' # "failed" PROVE SetupRank' > SetupRank
    BY <2>2
  <2>5. CASE CreateServers
    BY <1>2, <2>5 DEF CreateServers, SetupRank
  <2>6. CASE JoinNodes
    <3>1. setup = "nodes" /\ setup' \in {"replicaUser", "groupNodes"}
      BY <2>6 DEF JoinNodes, Fail, Advance, Then
    <3>. QED  BY <1>2, <3>1 DEF SetupRank
  <2>7. CASE CreateMasterReplicaUser
    <3>1. setup = "replicaUser" /\ setup' \in {"asyncEdit", "asyncRestart"} /\ cur' = 1
      BY <2>7 DEF CreateMasterReplicaUser, Serial, Try, Advance, Then, Fail
    <3>. QED  BY <1>2, <3>1 DEF SetupRank
  <2>8. CASE EditAsyncConfig
    <3>1. setup = "asyncEdit" /\ setup' = "asyncRestart" /\ cur' = cur
      BY <2>8 DEF EditAsyncConfig, Serial, Try, Advance, Then, Fail
    <3>. QED  BY <1>2, <3>1 DEF SetupRank
  <2>9. CASE RestartAsync
    <3>1. setup = "asyncRestart" /\ (NextReplica \/ (setup' = "asyncSource" /\ cur' = cur))
      BY <2>9 DEF RestartAsync, TryRestart, Try, Advance, Then, Fail
    <3>. QED  BY <1>2, <2>4, <3>1 DEF SetupRank
  <2>10. CASE ChangeReplicationSource
    <3>1. setup = "asyncSource" /\ setup' = "asyncStart" /\ cur' = cur
      BY <2>10 DEF ChangeReplicationSource, Serial, Try, Advance, Then, Fail
    <3>. QED  BY <1>2, <3>1 DEF SetupRank
  <2>11. CASE StartReplica
    <3>1. setup = "asyncStart" /\ NextReplica
      BY <2>11 DEF StartReplica, Serial, Try, Fail
    <3>. QED  BY <1>2, <2>4, <3>1 DEF SetupRank
  <2>12. CASE JoinGroupNodes
    <3>1. setup = "groupNodes" /\ (AfterReplication \/ (setup' = "groupSource" /\ cur' = 2))
      BY <2>12 DEF JoinGroupNodes, Advance, Then, Fail
    <3>. QED  BY <1>2, <2>3, <3>1 DEF SetupRank
  <2>13. CASE ChangeMemberSource
    <3>1. setup = "groupSource" /\ setup' = "groupStart" /\ cur' = cur
      BY <2>13 DEF ChangeMemberSource, Serial, Try, Advance, Then, Fail
    <3>. QED  BY <1>2, <3>1 DEF SetupRank
  <2>14. CASE StartMember
    <3>1. setup = "groupStart" /\ (AfterReplication \/ (setup' = "groupSource" /\ cur' = cur + 1))
      BY <2>14 DEF StartMember, Serial, Try, Advance, Then, Fail
    <3>. QED  BY <1>2, <2>3, <3>1 DEF SetupRank
  <2>15. CASE AddServiceToPMM
    <3>1. /\ setup = "pmmService"
          /\ \/ cur < Size /\ setup' = "pmmService" /\ cur' = cur + 1
             \/ setup' = "done"
      BY <2>15 DEF AddServiceToPMM, Serial, Try, Advance, Then, Fail
    <3>. QED  BY <1>2, <3>1 DEF SetupRank
  <2>. QED  BY <2>5, <2>6, <2>7, <2>8, <2>9, <2>10, <2>11, <2>12, <2>13, <2>14, <2>15 DEF SetupNext
<1>4. CASE CreateServers
  BY <1>1, <1>2, <1>3, <1>4 DEF CreateServers, First
<1>5. CASE JoinNodes
  <2>1. setup = "nodes" /\ setup' \in {"replicaUser", "groupNodes", "failed"}
        /\ (UNCHANGED node \/ node' = [i \in Node |-> "grEdit"])
    BY <1>5 DEF JoinNodes, Fail, Advance, Then
  <2>. QED  BY <1>1, <1>2, <1>3, <2>1 DEF First
<1>6. CASE ~CreateServers /\ ~JoinNodes
  <2>1. ~First
    BY <1>6 DEF SetupNext, CreateMasterReplicaUser, EditAsyncConfig, RestartAsync,
       ChangeReplicationSource, StartReplica, JoinGroupNodes, ChangeMemberSource, StartMember,
       AddServiceToPMM, Serial, First
  <2>2. UNCHANGED node
    BY <1>6 DEF SetupNext, CreateMasterReplicaUser, EditAsyncConfig, RestartAsync,
       ChangeReplicationSource, StartReplica, JoinGroupNodes, ChangeMemberSource, StartMember,
       AddServiceToPMM, Serial
  <2>3. setup' \notin {"instances", "nodes"}
    <3>1. SetupRank \in Nat /\ SetupRank >= 2
      <4>1. setup \in SetupStep \ {"instances", "nodes", "done", "failed"}
        BY <1>1, <2>1 DEF First, ClusterInv, TypeInv, TypeOK
      <4>2. SetupRank \in Nat
        BY <1>2, <4>1 DEF SetupRank
      <4>3. SetupRank >= 2
        BY <1>2, <4>1 DEF SetupRank
      <4>. QED  BY <4>2, <4>3
    <3>. QED  BY <1>3, <3>1 DEF SetupRank
  <2>. QED  BY <1>1, <1>2, <1>3, <2>1, <2>2, <2>3 DEF First
<1>. QED  BY <1>4, <1>5, <1>6

LEMMA OrcForward ==
  ASSUME ClusterInv, OrcNext
  PROVE  /\ UNCHANGED <<conf, main, setup, cur, node>>
         /\ OrcRank' > OrcRank
         /\ \A o \in Host : StageRank(host'[o]) >= StageRank(host[o])
<1>1. CASE CreateOrchestrators
  <2>1. /\ \A o \in Host : host[o] = "idle"
        /\ UNCHANGED host \/ host' = [o \in Host |-> "init"]
        /\ orc = "create" /\ orc' \in {"hosts", "failed"}
    BY <1>1 DEF CreateOrchestrators, ClusterInv, Cluster, Places
  <2>. QED  BY <1>1, <2>1 DEF CreateOrchestrators, OrcOnly, OrcRank, StageRank
<1>2. CASE JoinHosts
  <2>1. \A o \in Host : StageRank(host[o]) \in Nat
    BY RanksOfSteps DEF ClusterInv, TypeInv, TypeOK
  <2>. QED  BY <1>2, <2>1 DEF JoinHosts, OrcOnly, OrcRank
<1>. QED  BY <1>1, <1>2 DEF OrcNext

LEMMA MainForward ==
  ASSUME ClusterInv, MainNext
  PROVE  /\ UNCHANGED <<conf, setup, orc, node, host>>
         /\ MainRank' > MainRank /\ setup \in {"done", "failed"}
<1>1. /\ UNCHANGED <<conf, setup, orc, node, host>>
      /\ Size \in Nat /\ Size >= 1 /\ OrchSize \in Nat /\ Size' = Size /\ OrchSize' = OrchSize
      /\ \A i \in Node : i \in Nat /\ i >= 1 /\ i <= Size
      /\ \A o \in Host : o \in Nat /\ o >= 1 /\ o <= OrchSize
  BY SizeIsNat DEF ClusterInv, TypeInv, Size, OrchSize, MainNext, JoinCluster,
     ListClusterInstances, RestartOrchestrator, Discover, SetOutputValues, MainOnly
<1>2. CASE JoinCluster
  <2>1. /\ main = "setup" /\ main' \in {"failed", "list", "outputs"}
        /\ setup \in {"done", "failed"}
    BY <1>2 DEF JoinCluster
  <2>. QED  BY <1>1, <2>1 DEF MainRank, Ended
<1>3. CASE ListClusterInstances
  <2>1. /\ main = "list" /\ OrchSize > 0 /\ cur \in Host /\ setup = "done"
        /\ (main' = "orcRestart" /\ cur' = cur) \/ main' = "failed"
    BY <1>3 DEF ListClusterInstances, ClusterInv, TypeInv, Where, Past
  <2>. QED  BY <1>1, <2>1 DEF MainRank, Ended
<1>4. CASE RestartOrchestrator
  <2>1. /\ main = "orcRestart" /\ cur \in Host /\ setup = "done"
        /\ \/ main' = "orcRestart" /\ cur' = cur + 1 /\ cur < OrchSize
           \/ main' = "discover" /\ cur' = 1
           \/ main' = "failed"
    BY <1>4 DEF RestartOrchestrator, ClusterInv, TypeInv, Where, Past
  <2>. QED  BY <1>1, <2>1 DEF MainRank, Ended
<1>5. CASE Discover
  <2>1. /\ main = "discover" /\ cur \in Node /\ setup = "done"
        /\ \/ main' = "discover" /\ cur' = cur + 1 /\ cur < Size
           \/ main' = "outputs" /\ cur' = 1
    BY <1>5 DEF Discover, Try, ClusterInv, TypeInv, Where, Past
  <2>. QED  BY <1>1, <2>1 DEF MainRank, Ended
<1>6. CASE SetOutputValues
  <2>1. main = "outputs" /\ main' = "created" /\ setup = "done"
    BY <1>6 DEF SetOutputValues, ClusterInv, TypeInv, Where, Past
  <2>. QED  BY <1>1, <2>1 DEF MainRank, Ended
<1>. QED  BY <1>1, <1>2, <1>3, <1>4, <1>5, <1>6 DEF MainNext

LEMMA RanksCorrect == ASSUME ClusterInv PROVE RanksBounded
<1>1. /\ TypeOK /\ Size \in Nat /\ Size >= 1 /\ OrchSize \in Nat
      /\ \A i \in Node : i \in Nat /\ i >= 1 /\ i <= Size
      /\ \A o \in Host : o \in Nat /\ o >= 1 /\ o <= OrchSize
  BY SizeIsNat DEF ClusterInv, TypeInv
<1>2. NodeRank \in [Node -> 0 .. 27] /\ HostRank \in [Host -> 0 .. 7]
  <2>1. First \in BOOLEAN
    BY DEF First
  <2>. QED  BY <1>1, <2>1, RanksOfSteps DEF TypeOK, NodeRank, HostRank
<1>3. SetupRank \in 0 .. 8 + 5 * Size
  <2>1. setup \notin {"done", "failed"} => cur \in Node
    BY DEF ClusterInv, TypeInv, Where
  <2>. QED  BY <1>1, <2>1 DEF SetupRank, TypeOK, SetupStep
<1>4. OrcRank \in 0 .. 3
  BY <1>1 DEF OrcRank, TypeOK
<1>5. MainRank \in 0 .. 3 + OrchSize + Size
  <2>1. (main = "orcRestart" => cur \in Host) /\ (main = "discover" => cur \in Node)
    BY DEF ClusterInv, TypeInv, Where
  <2>. QED  BY <1>1, <2>1 DEF MainRank, TypeOK, MainStep, Ended
<1>. QED  BY <1>2, <1>3, <1>4, <1>5 DEF RanksBounded

\* A step that one of several processes takes alone.
LEMMA OneNodeOn ==
  ASSUME ClusterInv, RanksBounded', NEW i \in Node, NodeOn(i)
  PROVE  NoneBack /\ OneOn
<1>. PICK s : Go(i, s) /\ StepRank(s, First) > StepRank(node[i], First)
  BY DEF NodeOn
<1>1. /\ UNCHANGED <<conf, main, setup, orc, cur, host>> /\ node \in [Node -> NodeStep]
      /\ Node' = Node /\ Host' = Host /\ First' = First
  BY DEF NodeOn, Node, Host, Size, OrchSize, First, ClusterInv, TypeInv, TypeOK
<1>2. /\ RanksBounded /\ SetupRank' = SetupRank /\ OrcRank' = OrcRank /\ MainRank' = MainRank
      /\ HostRank' = HostRank
  BY <1>1, RanksCorrect DEF SetupRank, OrcRank, MainRank, HostRank, Size, OrchSize
<1>3. NodeRank' = [NodeRank EXCEPT ![i] = StepRank(s, First)]
  BY <1>1 DEF NodeRank, Go
<1>4. NodeRank \in [Node -> Nat] /\ NodeRank[i] = StepRank(node[i], First)
  BY <1>2 DEF RanksBounded, NodeRank
<1>5. NodeRank'[i] > NodeRank[i] /\ \A j \in Node \ {i} : NodeRank'[j] = NodeRank[j]
  BY <1>3, <1>4
<1>6. \A j \in Node : NodeRank'[j] >= NodeRank[j]
  BY <1>1, <1>4, <1>5 DEF RanksBounded
<1>. QED  BY <1>1, <1>2, <1>5, <1>6 DEF NoneBack, OneOn, RanksBounded

LEMMA OneHostOn ==
  ASSUME ClusterInv, RanksBounded', NEW o \in Host, HostNext(o)
  PROVE  NoneBack /\ OneOn
<1>. PICK s : host' = [host EXCEPT ![o] = s] /\ StageRank(s) > StageRank(host[o])
  BY HostForward
<1>1. /\ UNCHANGED <<conf, main, setup, orc, cur, node>> /\ host \in [Host -> HostStep]
      /\ Node' = Node /\ Host' = Host
  BY HostForward DEF Node, Host, Size, OrchSize, ClusterInv, TypeInv, TypeOK
<1>2. /\ RanksBounded /\ SetupRank' = SetupRank /\ OrcRank' = OrcRank /\ MainRank' = MainRank
      /\ NodeRank' = NodeRank
  BY <1>1, RanksCorrect DEF SetupRank, OrcRank, MainRank, NodeRank, First, Size, OrchSize
<1>3. HostRank' = [HostRank EXCEPT ![o] = StageRank(s)]
  BY <1>1 DEF HostRank
<1>4. HostRank \in [Host -> Nat] /\ HostRank[o] = StageRank(host[o])
  BY <1>2 DEF RanksBounded, HostRank
<1>5. HostRank'[o] > HostRank[o] /\ \A p \in Host \ {o} : HostRank'[p] = HostRank[p]
  BY <1>3, <1>4
<1>6. \A p \in Host : HostRank'[p] >= HostRank[p]
  BY <1>1, <1>4, <1>5 DEF RanksBounded
<1>. QED  BY <1>1, <1>2, <1>5, <1>6 DEF NoneBack, OneOn, RanksBounded

LEMMA NextForward == ASSUME ClusterInv, RanksBounded', Next PROVE NoneBack /\ OneOn
<1>1. main # "crashed" /\ RanksBounded
  BY RanksCorrect DEF Next
<1>2. \A i \in Node : NodeRank[i] \in Nat /\ NodeRank[i] >= NodeRank[i]
  BY <1>1 DEF RanksBounded
<1>3. \A o \in Host : HostRank[o] \in Nat /\ HostRank[o] >= HostRank[o]
  BY <1>1 DEF RanksBounded
<1>4. /\ SetupRank \in Nat /\ OrcRank \in Nat /\ MainRank \in Nat
      /\ Size \in Nat /\ Size >= 1 /\ OrchSize \in Nat
  BY <1>1, SizeIsNat DEF RanksBounded, ClusterInv, TypeInv
<1>44. SetupRank' \in Nat /\ OrcRank' \in Nat /\ MainRank' \in Nat
  <2>1. UNCHANGED conf
    <3>1. CASE \E i \in Node : NodeNext(i)
      BY <1>1, <3>1, NodeMoves
    <3>. QED  BY <1>1, <3>1, SetupMoves, OtherMoves DEF Next
  <2>2. Size' = Size /\ OrchSize' = OrchSize
    BY <2>1, ConfSame
  <2>. QED  BY <1>4, <2>2 DEF RanksBounded
<1>5. ASSUME NEW i \in Node, NodeNext(i) PROVE NoneBack /\ OneOn
  <2>1. CASE TornErr(i)
    <3>1. /\ UNCHANGED <<conf, setup, orc, cur, node, host>> /\ main' = "crashed" /\ main = "setup"
      BY <1>1, <1>5, <2>1, NodesRun DEF TornErr
    <3>2. /\ UNCHANGED conf /\ SetupRank' = SetupRank /\ OrcRank' = OrcRank
          /\ HostRank' = HostRank /\ NodeRank' = NodeRank
      BY <3>1 DEF SetupRank, OrcRank, HostRank, NodeRank, First, Node, Host, Size, OrchSize
    <3>3. MainRank' > MainRank
      BY <1>4, <3>1 DEF MainRank, Ended, Size, OrchSize
    <3>. QED  BY <1>2, <1>3, <1>4, <1>44, <3>2, <3>3 DEF NoneBack, OneOn
  <2>. QED  BY <1>1, <1>5, <2>1, NodeForward, OneNodeOn
<1>6. ASSUME NEW o \in Host, HostNext(o) PROVE NoneBack /\ OneOn
  BY <1>6, OneHostOn
<1>7. CASE SetupNext
  <2>1. /\ UNCHANGED <<conf, main, orc, host>> /\ main = "setup" /\ SetupRank' > SetupRank
        /\ Node' = Node /\ Host' = Host /\ Size' = Size /\ OrchSize' = OrchSize
    BY <1>1, <1>7, SetupForward, ConfSame
  <2>2. HostRank' = HostRank /\ OrcRank' = OrcRank /\ MainRank' = MainRank
    BY <2>1 DEF HostRank, OrcRank, MainRank
  <2>3. ASSUME NEW i \in Node PROVE NodeRank'[i] >= NodeRank[i]
    <3>1. NodeRank[i] = StepRank(node[i], First) /\ NodeRank'[i] = StepRank(node'[i], First')
      BY <2>1 DEF NodeRank
    <3>2. CASE UNCHANGED node /\ First' = First
      BY <1>2, <3>1, <3>2
    <3>3. CASE setup = "instances"
      <4>1. node[i] = "idle"
        BY <3>3 DEF ClusterInv, Cluster, Places
      <4>2. node'[i] \in {"idle", "init"}
        BY <1>1, <1>7, <3>3, <4>1, SetupForward
      <4>. QED  BY <3>1, <4>1, <4>2 DEF StepRank
    <3>4. CASE setup = "nodes" /\ ~First'
      <4>1. node[i] \in {"done", "failed"}
        BY <1>7, <3>4 DEF SetupNext, CreateServers, JoinNodes, CreateMasterReplicaUser,
           EditAsyncConfig, RestartAsync, ChangeReplicationSource, StartReplica, JoinGroupNodes,
           ChangeMemberSource, StartMember, AddServiceToPMM, Serial, AllEnded
      <4>2. First = TRUE /\ First' = FALSE
        BY <3>4 DEF First
      <4>3. node'[i] = node[i] \/ (node[i] = "done" /\ node'[i] = "grEdit")
        BY <1>7, <3>4, <4>1 DEF SetupNext, CreateServers, JoinNodes, CreateMasterReplicaUser,
           EditAsyncConfig, RestartAsync, ChangeReplicationSource, StartReplica, JoinGroupNodes,
           ChangeMemberSource, StartMember, AddServiceToPMM, Serial, OneFailed
      <4>. QED  BY <3>1, <4>1, <4>2, <4>3 DEF StepRank
    <3>. QED  BY <1>1, <1>7, <3>2, <3>3, <3>4, SetupForward
  <2>. QED  BY <1>3, <1>4, <1>44, <2>1, <2>2, <2>3 DEF NoneBack, OneOn
<1>8. CASE OrcNext
  <2>1. /\ UNCHANGED <<conf, main, setup, cur, node>> /\ OrcRank' > OrcRank /\ Host' = Host
        /\ \A o \in Host : HostRank'[o] >= HostRank[o]
    BY <1>8, OrcForward, ConfSame DEF HostRank
  <2>2. NodeRank' = NodeRank /\ SetupRank' = SetupRank /\ MainRank' = MainRank
    BY <2>1 DEF NodeRank, First, SetupRank, MainRank, Node, Size, OrchSize
  <2>. QED  BY <1>2, <1>4, <1>44, <2>1, <2>2 DEF NoneBack, OneOn
<1>9. CASE MainNext
  <2>1. /\ UNCHANGED <<conf, setup, orc, node, host>> /\ MainRank' > MainRank
        /\ setup \in {"done", "failed"}
    BY <1>9, MainForward
  <2>2. NodeRank' = NodeRank /\ HostRank' = HostRank /\ OrcRank' = OrcRank
    BY <2>1 DEF NodeRank, HostRank, First, OrcRank, Node, Host, Size, OrchSize
  <2>3. SetupRank' = SetupRank
    BY <2>1 DEF SetupRank, Size
  <2>. QED  BY <1>2, <1>3, <1>4, <1>44, <2>1, <2>2, <2>3 DEF NoneBack, OneOn
<1>. QED  BY <1>5, <1>6, <1>7, <1>8, <1>9 DEF Next

\* Every step of Create takes somebody to a later place and nobody to an earlier
\* one: no goroutine repeats a step, also when an error was lost or the context
\* was cancelled, and no loop of Create is without an end.
\* (manager.go:54-183, 198-288, 401-513)
THEOREM ForwardCorrect == Spec => Forward
<1>1. ClusterInv /\ RanksBounded' /\ [Next]_vars => [NoneBack /\ OneOn]_vars
  BY NextForward
<1>2. ClusterInv => RanksBounded
  BY RanksCorrect
<1>. QED  BY <1>1, <1>2, ClusterCorrect, PTL DEF Spec, Forward

\* The places are bounded by the sizes of the cluster alone.  Together with the
\* last theorem: a Create takes a bounded number of steps, whatever fails.
THEOREM RanksAreBounded == Spec => []RanksBounded
<1>1. ClusterInv => RanksBounded
  BY RanksCorrect
<1>. QED  BY <1>1, ClusterCorrect, PTL

\* Create never waits for itself: until it has ended there is somebody who does
\* not wait, and every Wait is for goroutines that were started.  With the last
\* two theorems only a step that is never taken keeps Create from its end.
\* (errgroup Wait, manager.go:77-84, 179, 294, 488)
THEOREM NobodyWaitsInVain == Spec => []SomebodyRuns
<1>1. ClusterInv => SomebodyRuns
  <2>. SUFFICES ASSUME ClusterInv, main \notin Ended PROVE SomebodyRuns
    BY DEF SomebodyRuns
  <2>1. CASE setup \in {"nodes", "groupNodes"}
    BY <2>1 DEF SomebodyRuns, ClusterInv, Cluster, Places, AllEnded
  <2>2. CASE orc = "hosts"
    <3>1. \A o \in Host : host[o] # "idle"
      BY <2>2 DEF ClusterInv, Cluster, Places
    <3>. QED  BY <2>2, <3>1 DEF SomebodyRuns
  <2>. QED  BY <2>1, <2>2 DEF SomebodyRuns, ClusterInv, TypeInv, TypeOK
<1>. QED  BY <1>1, ClusterCorrect, PTL
=============================================================================
