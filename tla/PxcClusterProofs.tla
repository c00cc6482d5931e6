-------------------------- MODULE PxcClusterProofs --------------------------
(* Proofs about PxcCluster, for every size, version list and argument.      *)
EXTENDS PxcCluster, WellFoundedInduction, SequenceTheorems, TLAPS

-----------------------------------------------------------------------------
(* Versions.                                                               *)

\* Every set of natural numbers has a least element.
Less == {ss \in Nat \X Nat : ss[1] < ss[2]}

LEMMA LessWellFounded == IsWellFoundedOn(Less, Nat)
  BY NatLessThanWellFounded, Zenon DEF OpToRel, Less

LEMMA Least == ASSUME NEW S \in SUBSET Nat, S # {} PROVE \E m \in S : \A n \in S : m <= n
<1>1. PICK m \in S : \A y \in S : <<y, m>> \notin Less
  BY WFMin, LessWellFounded
<1>2. \A y \in S : ~(y < m)
  BY <1>1 DEF Less
<1>. QED  BY <1>2

Line == FullVersion \cup {None}

LEMMA FullIsSeq ==
  ASSUME NEW v \in FullVersion
  PROVE  /\ v \in Seq(Nat) /\ Len(v) = 4 /\ v # None
         /\ SubSeq(v, 1, 3) \in Seq(Nat) /\ Len(SubSeq(v, 1, 3)) = 3
         /\ \A k \in 1 .. 3 : SubSeq(v, 1, 3)[k] = v[k]
<1>1. v \in Seq(Nat)
  BY SeqDef DEF FullVersion
<1>2. DOMAIN v = 1 .. 4 /\ \A k \in 1 .. 3 : v[k] \in Nat
  BY DEF FullVersion
<1>3. Len(v) = 4
  BY <1>1, <1>2, LenProperties
<1>4. /\ SubSeq(v, 1, 3) \in Seq(Nat)
      /\ Len(SubSeq(v, 1, 3)) = IF 1 <= 3 THEN 3 - 1 + 1 ELSE 0
      /\ \A k \in 1 .. 3 - 1 + 1 : SubSeq(v, 1, 3)[k] = v[1 + k - 1]
  <2>. \A k \in 1 .. 3 : v[k] \in Nat
    BY <1>2
  <2>. HIDE <1>1, <1>2, <1>3
  <2>. QED  BY SubSeqProperties, Z3
<1>5. v # None
  BY <1>3 DEF None
<1>. QED  BY <1>1, <1>3, <1>4, <1>5

\* The search ends at the first line that matches.
LEMMA SelectFirst ==
  ASSUME NEW lines \in Seq(Line), NEW wanted,
         NEW k \in DOMAIN lines, Matches(lines[k], wanted)
  PROVE  \E i \in DOMAIN lines :
           /\ SelectVersion(lines, wanted) = lines[i]
           /\ Matches(lines[i], wanted)
           /\ \A j \in 1 .. i - 1 : ~Matches(lines[j], wanted)
<1>. DEFINE S == {i \in DOMAIN lines : Matches(lines[i], wanted)}
            First(i) == /\ Matches(lines[i], wanted)
                        /\ \A j \in 1 .. i - 1 : ~Matches(lines[j], wanted)
<1>1. S \in SUBSET Nat /\ S # {}
  OBVIOUS
<1>2. PICK m \in S : \A n \in S : m <= n
  BY <1>1, Least
<1>3. m \in DOMAIN lines /\ First(m)
  <2>1. \A j \in 1 .. m - 1 : j \in DOMAIN lines /\ j \in Nat /\ ~(m <= j)
    BY <1>2
  <2>. QED  BY <1>2, <2>1
<1>. DEFINE i == CHOOSE n \in DOMAIN lines : First(n)
<1>4. i \in DOMAIN lines /\ First(i)
  BY <1>3
<1>5. SelectVersion(lines, wanted) = lines[i]
  BY DEF SelectVersion
<1>. QED  BY <1>4, <1>5

\* A full version is matched by itself only.
LEMMA FullMatch ==
  ASSUME NEW v \in Line, NEW full \in FullVersion, Matches(v, full)
  PROVE  v = full
<1>1. v \in FullVersion /\ Len(full) = 4 /\ Len(SubSeq(v, 1, 3)) = 3
  BY FullIsSeq DEF Matches, Line
<1>2. Len(full) # 1 /\ Len(full) # 2
  BY <1>1
<1>3. SubSeq(v, 1, 3) # full
  <2>. Len(SubSeq(v, 1, 3)) # Len(full)
    BY <1>1
  <2>. QED  OBVIOUS
<1>. QED  BY <1>2, <1>3, Zenon DEF Matches

\* What is found is a version that extends the one that was wanted, and finds
\* itself again.
LEMMA SelectAgain ==
  ASSUME NEW lines \in Seq(Line), NEW wanted \in Seq(Nat),
         SelectVersion(lines, wanted) # None
  PROVE  /\ SelectVersion(lines, wanted) \in FullVersion
         /\ \E k \in DOMAIN lines : lines[k] = SelectVersion(lines, wanted)
         /\ Matches(SelectVersion(lines, wanted), wanted)
         /\ SelectVersion(lines, SelectVersion(lines, wanted)) = SelectVersion(lines, wanted)
<1>. DEFINE found == SelectVersion(lines, wanted)
<1>1. PICK k \in DOMAIN lines : Matches(lines[k], wanted)
  BY DEF SelectVersion
<1>2. PICK i \in DOMAIN lines : found = lines[i] /\ Matches(lines[i], wanted)
  BY <1>1, SelectFirst
<1>. HIDE DEF found
<1>3. found \in FullVersion
  BY <1>2 DEF Matches, Line
<1>4. \A v \in Line : Matches(v, found) => v = found
  BY <1>3, FullMatch
<1>5. Matches(found, found)
  BY <1>3, FullIsSeq DEF Matches
<1>6. PICK j \in DOMAIN lines : SelectVersion(lines, found) = lines[j] /\ Matches(lines[j], found)
  BY <1>2, <1>5, SelectFirst
<1>7. lines[j] = found
  BY <1>4, <1>6
<1>. QED  BY <1>2, <1>3, <1>6, <1>7 DEF found

\* A full version is found if it is there.
LEMMA SelectFull ==
  ASSUME NEW lines \in Seq(Line), NEW v \in FullVersion, NEW k \in DOMAIN lines, lines[k] = v
  PROVE  SelectVersion(lines, v) = v
<1>1. Matches(v, v)
  BY FullIsSeq DEF Matches
<1>2. PICK j \in DOMAIN lines : SelectVersion(lines, v) = lines[j] /\ Matches(lines[j], v)
  BY <1>1, SelectFirst
<1>. QED  BY <1>2, FullMatch DEF Line

LEMMA MatchesPrefix ==
  ASSUME NEW v \in FullVersion, NEW wanted \in Seq(Nat), Matches(v, wanted)
  PROVE  \A k \in DOMAIN wanted : v[k] = wanted[k]
<1>1. CASE Len(wanted) = 1 /\ v[1] = wanted[1]
  BY <1>1
<1>2. CASE Len(wanted) = 2 /\ v[1] = wanted[1] /\ v[2] = wanted[2]
  BY <1>2
<1>3. CASE v = wanted
  BY <1>3
<1>4. CASE SubSeq(v, 1, 3) = wanted
  <2>2. DOMAIN wanted = 1 .. 3 /\ \A k \in 1 .. 3 : wanted[k] = v[k]
    BY <1>4, FullIsSeq
  <2>. QED  BY <2>2
<1>. QED  BY <1>1, <1>2, <1>3, <1>4 DEF Matches

LEMMA LinesType ==
  ASSUME TypeOK, NEW i \in Node
  PROVE  Lines(i) \in Seq(Line) /\ Len(Lines(i)) > 0
<1>. DEFINE listed == IF ~server[i].repo THEN <<>>
                      ELSE IF i \in conf.late THEN <<Newest>> \o Available ELSE Available
<1>1. None \in Line /\ Newest \in Line /\ Available \in Seq(Line)
  BY VersionAssumption, SeqMonotonic DEF Line
<1>2. listed \in Seq(Line)
  BY <1>1
<1>3. Lines(i) = Append(listed, None)
  BY DEF Lines
<1>. HIDE DEF listed
<1>. QED  BY <1>1, <1>2, <1>3

LEMMA LineIsSeq == ASSUME NEW v \in Line PROVE v \in Seq(Nat)
<1>1. None \in Seq(Nat)
  BY DEF None
<1>. QED  BY <1>1, FullIsSeq DEF Line

LEMMA SelectType ==
  ASSUME NEW lines \in Seq(Line), NEW wanted \in Seq(Nat)
  PROVE  SelectVersion(lines, wanted) \in Seq(Nat)
<1>1. CASE SelectVersion(lines, wanted) = None
  BY <1>1 DEF None
<1>2. CASE SelectVersion(lines, wanted) # None
  BY <1>2, SelectAgain, FullIsSeq
<1>. QED  BY <1>1, <1>2

-----------------------------------------------------------------------------
(* Types.                                                                  *)

LEMMA InitType == Init => TypeOK
  BY ConfigAssumption DEF Init, TypeOK, Node, MainStep, NodeStep, None, Blank, Server

LEMMA NodeIsNat == ASSUME TypeOK PROVE conf.size \in Nat \ {0} /\ Node \subseteq Nat \ {0}
  BY ConfigAssumption DEF TypeOK, Node

LEMMA EditedType ==
  ASSUME TypeOK, NEW i \in Node, NEW setting \in Setting
  PROVE  Edited(i, setting) \in [Node -> Server]
<1>1. server \in [Node -> Server] /\ server[i] \in Server
  BY DEF TypeOK
<1>2. [server[i] EXCEPT !.file = @ \cup {setting}] \in Server
  BY <1>1 DEF Server
<1>. QED  BY <1>1, <1>2 DEF Edited

LEMMA StoppedType ==
  ASSUME TypeOK, NEW i \in Node
  PROVE  Stopped(i) \in [Node -> Server]
<1>1. server \in [Node -> Server] /\ server[i] \in Server
  BY DEF TypeOK
<1>2. [server[i] EXCEPT !.unit = "none", !.member = 0, !.loaded = {}] \in Server
  BY <1>1 DEF Server
<1>. QED  BY <1>1, <1>2 DEF Stopped

LEMMA WithType ==
  ASSUME TypeOK, NEW i \in Node, NEW part \in Part
  PROVE  With(i, part) \in [Node -> Server]
<1>1. \A j \in Node : server[j] \in Server
  BY DEF TypeOK
<1>2. \A j \in Node : [server[j] EXCEPT !.has = @ \cup {part}] \in Server
  BY <1>1 DEF Server
<1>. QED  BY <1>1, <1>2 DEF With

LEMMA ClustersType ==
  ASSUME TypeOK, NEW i \in Node, NEW unit, NEW c \in Clusters(i, unit)
  PROVE  c \in Nat
<1>. \A j \in Node : server[j].member \in Nat
  BY DEF TypeOK, Server
<1>. QED  BY NodeIsNat DEF Clusters

LEMMA StartedType ==
  ASSUME TypeOK, NEW i \in Node, NEW unit \in {"mysql", "bootstrap"}, NEW c \in Nat
  PROVE  Started(i, unit, c) \in [Node -> Server]
<1>1. \A j \in Node : server[j] \in Server
  BY DEF TypeOK
<1>2. \A j \in Node : server[j].has \subseteq Part /\ server[j].file \subseteq Setting
  BY <1>1 DEF Server
<1>3. Inherited(i, c) \in SUBSET Part
  BY <1>2 DEF Inherited, Part
<1>4. [server[i] EXCEPT !.unit = unit, !.member = c, !.loaded = server[i].file,
                        !.has = Inherited(i, c)] \in Server
  BY <1>1, <1>2, <1>3 DEF Server
<1>5. Started(i, unit, c) =
        [server EXCEPT ![i] = [server[i] EXCEPT !.unit = unit, !.member = c,
                                 !.loaded = server[i].file, !.has = Inherited(i, c)]]
  BY DEF Started
<1>. QED  BY <1>4, <1>5 DEF TypeOK

\* A command leaves the servers as they are, or has its effect.
LEMMA TryServers ==
  ASSUME NEW what, NEW may, NEW cancelled, NEW new, NEW ACTION ok, NEW ACTION bad,
         Try(what, may, cancelled, new, ok, bad)
  PROVE  /\ server' = new \/ UNCHANGED server
         /\ ok \/ bad
  BY DEF Try

LEMMA TryStartType ==
  ASSUME TypeOK, NEW i \in Node, NEW what, NEW unit \in {"mysql", "bootstrap"},
         NEW cancelled, NEW ACTION ok, NEW ACTION bad,
         TryStart(i, what, unit, cancelled, ok, bad)
  PROVE  server' \in [Node -> Server] /\ (ok \/ bad)
<1>1. CASE \E c \in Clusters(i, unit) :
             Try(what, server[i].version # None, cancelled, Started(i, unit, c), ok, bad)
  BY <1>1, ClustersType, StartedType DEF Try, TypeOK
<1>2. CASE bad /\ UNCHANGED server
  BY <1>2 DEF TypeOK
<1>. QED  BY <1>1, <1>2 DEF TryStart

\* What a step of a goroutine may change.
LEMMA NodeType ==
  ASSUME TypeOK, NEW i \in Node, NEW s \in NodeStep, Go(i, s), NodeOnly,
         server' \in [Node -> Server],
         UNCHANGED err \/ err' \in {"nil", "error"},
         UNCHANGED version \/ version' \in Seq(Nat),
         UNCHANGED picked \/ \E v \in Seq(Nat) : picked' = [picked EXCEPT ![i] = v]
  PROVE  TypeOK'
<1>. Node' = Node
  BY DEF NodeOnly, Node
<1>. QED  BY DEF TypeOK, Go, NodeOnly

LEMMA WorkType ==
  ASSUME TypeOK, NEW i \in Node, NEW step, NEW may, NEW new \in [Node -> Server],
         NEW next \in NodeStep, Work(i, step, may, new, next)
  PROVE  TypeOK'
<1>1. /\ server' = new \/ UNCHANGED server
      /\ Go(i, Then(next, NodesCancelled)) \/ Go(i, "failed")
      /\ NodeOnly /\ UNCHANGED <<err, version, picked>>
  BY DEF Work, Try, Shared
<1>2. Then(next, NodesCancelled) \in NodeStep /\ "failed" \in NodeStep
  BY DEF Then, NodeStep
<1>3. server' \in [Node -> Server]
  BY <1>1 DEF TypeOK
<1>. QED  BY <1>1, <1>2, <1>3, NodeType

LEMMA NodeNextType == ASSUME TypeOK, NEW i \in Node, NodeNext(i) PROVE TypeOK'
<1>. /\ {"configure", "check", "wrap", "versions", "pick", "store", "install", "startAlone",
         "fixRoot", "stopAlone", "edit", "custom", "done", "failed"} \subseteq NodeStep
     /\ {"root", "pmmUser"} \subseteq Part /\ {"cluster", "custom"} \subseteq Setting
  BY DEF NodeStep, Part, User, Setting
<1>. server \in [Node -> Server]
  BY DEF TypeOK
<1>. ASSUME NEW next \in NodeStep PROVE Then(next, NodesCancelled) \in NodeStep
  BY DEF Then
<1>1. CASE Configure(i)
  <2>0. server[i] \in Server
    OBVIOUS
  <2>1. [server EXCEPT ![i].repo = TRUE] \in [Node -> Server]
    BY <2>0 DEF Server
  <2>2. server' \in [Node -> Server]
    BY <1>1, <2>1 DEF Configure, Try
  <2>3. err' \in {"nil", "error"}
    BY <1>1 DEF Configure, Try
  <2>. QED  BY <1>1, <2>2, <2>3, NodeType DEF Configure
<1>2. CASE CheckErr(i)
  <2>. (IF err = "nil" THEN Then("versions", NodesCancelled) ELSE "wrap") \in NodeStep
    OBVIOUS
  <2>. QED  BY <1>2, NodeType DEF CheckErr
<1>3. CASE WrapErr(i)
  BY <1>3, NodeType DEF WrapErr
<1>4. CASE TornErr(i)
  BY <1>4 DEF TornErr, TypeOK, Node, MainStep, Ended
<1>5. CASE VersionList(i)
  BY <1>5, WorkType DEF VersionList
<1>6. CASE Pick(i)
  <2>. DEFINE found == IF version = None THEN Lines(i)[1] ELSE SelectVersion(Lines(i), version)
  <2>1. Lines(i) \in Seq(Line) /\ Lines(i)[1] \in Line /\ version \in Seq(Nat)
    BY LinesType DEF TypeOK
  <2>2. found \in Seq(Nat)
    BY <2>1, LineIsSeq, SelectType
  <2>3. /\ Go(i, "failed") \/ Go(i, "store")
        /\ picked' = [picked EXCEPT ![i] = found]
        /\ NodeOnly /\ UNCHANGED <<err, version, server, faults>>
    BY <1>6 DEF Pick
  <2>. HIDE DEF found
  <2>. QED  BY <2>2, <2>3, NodeType
<1>7. CASE Store(i)
  BY <1>7, NodeType DEF Store, TypeOK
<1>8. CASE TornVersion(i)
  BY <1>8 DEF TornVersion, TypeOK, Go, Node, MainStep, Ended
<1>9. CASE InstallPXC(i)
  <2>. PICK k \in DOMAIN Lines(i) : \/ Lines(i)[k] = version /\ version # None
                                   \/ UNCHANGED server
    BY <1>9, LinesType DEF InstallPXC, Work, Try
  <2>1. Lines(i)[k] \in Line
    BY LinesType
  <2>2. CASE UNCHANGED server
    BY <1>9, <2>2, NodeType DEF InstallPXC, Work, Try, Shared
  <2>3. CASE Lines(i)[k] = version /\ version # None
    <3>. [server EXCEPT ![i].version = version] \in [Node -> Server]
      BY <2>1, <2>3 DEF Line, Server
    <3>. QED  BY <1>9, WorkType DEF InstallPXC
  <2>. QED  BY <2>2, <2>3
<1>10. CASE StartAlone(i)
  <2>1. /\ server' \in [Node -> Server]
        /\ Go(i, Then("fixRoot", NodesCancelled)) \/ Go(i, "failed")
    BY <1>10, TryStartType DEF StartAlone
  <2>. QED  BY <1>10, <2>1, NodeType DEF StartAlone, Shared
<1>11. CASE FixRootUser(i)
  BY <1>11, WorkType, WithType DEF FixRootUser
<1>12. CASE StopAlone(i)
  BY <1>12, WorkType, StoppedType DEF StopAlone
<1>13. CASE EditConfig(i)
  <2>. (IF conf.custom THEN "custom" ELSE "done") \in NodeStep
    OBVIOUS
  <2>. QED  BY <1>13, WorkType, EditedType DEF EditConfig
<1>14. CASE SendConfig(i)
  BY <1>14, WorkType, EditedType DEF SendConfig
<1>. QED
  BY <1>1, <1>2, <1>3, <1>4, <1>5, <1>6, <1>7, <1>8, <1>9, <1>10, <1>11, <1>12, <1>13, <1>14
     DEF NodeNext

\* Where a step of Create leads to.
LEMMA MainType ==
  ASSUME TypeOK, MainOnly, main' \in MainStep, cur' \in Node,
         server' \in [Node -> Server], node' \in [Node -> NodeStep]
  PROVE  TypeOK'
<1>. Node' = Node
  BY DEF MainOnly, Node
<1>. QED  BY DEF TypeOK, MainOnly

LEMMA NextNodeType ==
  ASSUME TypeOK, NextNode PROVE main' \in MainStep /\ cur' \in Node
  BY NodeIsNat DEF TypeOK, NextNode, Advance, Node, MainStep, Ended

LEMMA FailType == ASSUME TypeOK, Fail PROVE main' \in MainStep /\ cur' \in Node
  BY DEF TypeOK, Fail, MainStep, Ended

LEMMA AdvanceType ==
  ASSUME TypeOK, NEW m \in MainStep, NEW c \in Node, Advance(m, c)
  PROVE  main' \in MainStep /\ cur' \in Node
  BY DEF Advance

LEMMA SerialType ==
  ASSUME TypeOK, NEW step, NEW i \in Node, NEW may, NEW new \in [Node -> Server],
         NEW ACTION ok, ok => main' \in MainStep /\ cur' \in Node,
         Serial(step, i, may, new, ok)
  PROVE  TypeOK'
<1>1. /\ server' = new \/ UNCHANGED server
      /\ ok \/ Fail
      /\ MainOnly /\ UNCHANGED node
  BY DEF Serial, Try
<1>. QED  BY <1>1, FailType, MainType DEF TypeOK

LEMMA MainNextType == ASSUME TypeOK, MainNext PROVE TypeOK'
<1>. /\ {"nodes", "start", "pmmUser", "pmmClient", "pmmEdit", "pmmService", "stopFirst",
         "startFirst", "created"} \subseteq MainStep
     /\ 1 \in Node /\ cur \in Node /\ server \in [Node -> Server]
     /\ {"root", "pmmUser", "pmmClient", "pmmService"} \subseteq Part /\ "pmm" \in Setting
  BY NodeIsNat DEF MainStep, Ended, TypeOK, Node, Part, User, Setting
<1>1. CASE CreateInstances
  <2>. node' \in [Node -> NodeStep]
    BY <1>1 DEF CreateInstances, TypeOK, NodeStep
  <2>. QED  BY <1>1, FailType, AdvanceType, MainType DEF CreateInstances
<1>2. CASE JoinNodes
  BY <1>2, FailType, AdvanceType, MainType DEF JoinNodes, TypeOK
<1>3. CASE StartNode
  <2>1. UnitOf(cur) \in {"mysql", "bootstrap"}
    BY DEF UnitOf
  <2>2. /\ (IF conf.pmm THEN Advance("pmmUser", cur) ELSE NextNode) \/ Fail
        /\ \/ UNCHANGED server
           \/ \E c \in Clusters(cur, UnitOf(cur)) : server' = Started(cur, UnitOf(cur), c)
    BY <1>3 DEF StartNode, TryStart, Try
  <2>3. server' \in [Node -> Server]
    BY <2>1, <2>2, ClustersType, StartedType
  <2>. QED  BY <1>3, <2>2, <2>3, FailType, AdvanceType, NextNodeType, MainType DEF StartNode, TypeOK
<1>4. CASE CreatePMMUser
  <2>1. Advance("pmmClient", cur) => main' \in MainStep /\ cur' \in Node
    BY AdvanceType
  <2>. QED  BY <1>4, <2>1, WithType, SerialType DEF CreatePMMUser
<1>5. CASE InstallPMMClient
  <2>1. Advance("pmmEdit", cur) => main' \in MainStep /\ cur' \in Node
    BY AdvanceType
  <2>. QED  BY <1>5, <2>1, WithType, SerialType DEF InstallPMMClient
<1>6. CASE SetSlowLog
  <2>1. Advance("pmmService", cur) => main' \in MainStep /\ cur' \in Node
    BY AdvanceType
  <2>. QED  BY <1>6, <2>1, EditedType, SerialType DEF SetSlowLog
<1>7. CASE AddServiceToPMM
  BY <1>7, NextNodeType, WithType, SerialType DEF AddServiceToPMM
<1>8. CASE StopFirst
  <2>1. Advance("startFirst", 1) => main' \in MainStep /\ cur' \in Node
    BY AdvanceType
  <2>. QED  BY <1>8, <2>1, StoppedType, SerialType DEF StopFirst
<1>9. CASE StartFirst
  <2>1. /\ Advance("created", 1) \/ Fail
        /\ \/ UNCHANGED server
           \/ \E c \in Clusters(1, "mysql") : server' = Started(1, "mysql", c)
    BY <1>9 DEF StartFirst, TryStart, Try
  <2>2. server' \in [Node -> Server]
    BY <2>1, ClustersType, StartedType
  <2>. QED  BY <1>9, <2>1, <2>2, FailType, AdvanceType, MainType DEF StartFirst, TypeOK
<1>. QED  BY <1>1, <1>2, <1>3, <1>4, <1>5, <1>6, <1>7, <1>8, <1>9 DEF MainNext

LEMMA NextType == ASSUME TypeOK, [Next]_vars PROVE TypeOK'
<1>1. CASE UNCHANGED vars
  BY <1>1 DEF vars, TypeOK, Node
<1>. QED  BY <1>1, NodeNextType, MainNextType DEF Next

\* The versions that the goroutines read and write, the nodes and the places of
\* Create and its goroutines always have their types.
THEOREM TypeCorrect == Spec => []TypeOK
<1>. QED  BY InitType, NextType, PTL DEF Spec

-----------------------------------------------------------------------------
(* Versions that are installed.                                            *)

Extends(v) == \A k \in DOMAIN conf.wanted : v[k] = conf.wanted[k]

\* What the nodes see, if they all see the same, and what they select of it.
Uniform == conf.late \cap Node \in {{}, Node}
List == Append(IF 1 \in conf.late THEN <<Newest>> \o Available ELSE Available, None)
Selected == IF conf.wanted = None THEN List[1] ELSE SelectVersion(List, conf.wanted)

Good(v) == v \in FullVersion /\ Extends(v) /\ (Uniform => v = Selected)
Known(v) == v = conf.wanted \/ Good(v)

Agreed ==
  /\ Known(version)
  /\ \A i \in Node : node[i] = "store" => Known(picked[i])
  /\ \A i \in Node : server[i].version # None => Good(server[i].version)

VersionInv == TypeOK /\ Agreed

LEMMA ListType ==
  /\ List \in Seq(Line) /\ Len(List) > 0
  /\ List[1] \in FullVersion
<1>. DEFINE listed == IF 1 \in conf.late THEN <<Newest>> \o Available ELSE Available
<1>1. listed \in Seq(FullVersion) /\ Len(listed) > 0
  BY VersionAssumption
<1>2. listed \in Seq(Line) /\ None \in Line
  BY <1>1, SeqMonotonic DEF Line
<1>3. List = Append(listed, None)
  BY DEF List
<1>. HIDE DEF listed
<1>. QED  BY <1>1, <1>2, <1>3

\* A node without the repository has nothing to select from.
LEMMA LinesAre ==
  ASSUME TypeOK, NEW i \in Node, Uniform, server[i].repo
  PROVE  Lines(i) = List
<1>1. 1 \in Node
  BY NodeIsNat DEF Node
<1>2. i \in conf.late <=> 1 \in conf.late
  BY <1>1 DEF Uniform
<1>. QED  BY <1>2 DEF Lines, List

LEMMA NoLines ==
  ASSUME TypeOK, NEW i \in Node, ~server[i].repo
  PROVE  Lines(i) = <<None>>
  BY DEF Lines

LEMMA GoodWhenFound ==
  ASSUME TypeOK, NEW i \in Node, NEW k \in DOMAIN Lines(i), Lines(i)[k] # None,
         Known(Lines(i)[k])
  PROVE  Good(Lines(i)[k])
<1>. DEFINE v == Lines(i)[k]
<1>1. v \in FullVersion
  BY LinesType DEF Line
<1>2. server[i].repo
  BY NoLines
<1>3. CASE Good(v)
  BY <1>3
<1>4. CASE v = conf.wanted
  <2>1. Extends(v)
    BY <1>4 DEF Extends
  <2>2. ASSUME Uniform PROVE v = Selected
    <3>1. List[k] = v /\ k \in DOMAIN List
      BY <1>2, <2>2, LinesAre
    <3>2. SelectVersion(List, v) = v
      BY <1>1, <3>1, SelectFull, ListType
    <3>. QED  BY <1>4, <3>2 DEF Selected
  <2>. QED  BY <1>1, <2>1, <2>2 DEF Good
<1>. QED  BY <1>3, <1>4 DEF Known

\* What a goroutine picks is good, or nothing if nothing was asked for.
LEMMA PickKnown ==
  ASSUME VersionInv, NEW i \in Node, NEW found,
         found = IF version = None THEN Lines(i)[1] ELSE SelectVersion(Lines(i), version),
         version = None \/ found # None
  PROVE  Known(found)
<1>1. /\ Lines(i) \in Seq(Line) /\ Len(Lines(i)) > 0
      /\ version \in Seq(Nat) /\ conf.wanted \in Seq(Nat)
  BY LinesType, ConfigAssumption DEF VersionInv, TypeOK
<1>2. version = None => conf.wanted = None
  BY FullIsSeq DEF VersionInv, Agreed, Known, Good
<1>3. CASE found = None
  BY <1>2, <1>3 DEF Known
<1>4. CASE found # None /\ version = None
  <2>1. found \in FullVersion /\ Extends(found)
    BY <1>1, <1>2, <1>4 DEF Line, Extends, None
  <2>2. server[i].repo
    BY <1>4, NoLines DEF VersionInv
  <2>3. Uniform => found = Selected
    BY <1>2, <1>4, <2>2, LinesAre DEF VersionInv, Selected
  <2>. QED  BY <2>1, <2>3 DEF Known, Good
<1>5. CASE found # None /\ version # None
  <2>1. /\ found \in FullVersion /\ Matches(found, version)
        /\ \E k \in DOMAIN Lines(i) : Lines(i)[k] = found
    BY <1>1, <1>5, SelectAgain
  <2>2. CASE Good(version)
    BY <2>1, <2>2, FullMatch DEF Good, Known, Line
  <2>3. CASE version = conf.wanted
    <3>1. Extends(found)
      BY <1>1, <2>1, <2>3, MatchesPrefix DEF Extends
    <3>2. server[i].repo
      BY <1>5, <2>1, NoLines DEF VersionInv
    <3>3. Uniform => found = Selected
      BY <1>5, <2>3, <3>2, LinesAre DEF VersionInv, Selected
    <3>. QED  BY <2>1, <3>1, <3>3 DEF Known, Good
  <2>. QED  BY <2>2, <2>3 DEF VersionInv, Agreed, Known
<1>. QED  BY <1>3, <1>4, <1>5

LEMMA AgreedIf ==
  ASSUME UNCHANGED conf, Known(version'),
         \A i \in Node : node'[i] = "store" => Known(picked'[i]),
         \A i \in Node : server'[i].version # None => Good(server'[i].version)
  PROVE  Agreed'
<1>1. Node' = Node /\ List' = List /\ (Uniform' <=> Uniform)
  BY DEF Node, List, Uniform
<1>2. Selected' = Selected
  BY <1>1 DEF Selected
<1>3. Known(version)'
  BY <1>1, <1>2 DEF Known, Good, Extends
<1>4. \A i \in Node : node'[i] = "store" => Known(picked[i])'
  BY <1>1, <1>2 DEF Known, Good, Extends
<1>5. \A i \in Node : server'[i].version # None => Good(server[i].version)'
  BY <1>1, <1>2 DEF Good, Extends
<1>. QED  BY <1>1, <1>3, <1>4, <1>5 DEF Agreed

\* Only the installation changes what is installed.
SameVersions == \A i \in Node : server'[i].version = server[i].version

LEMMA SameAfter ==
  ASSUME TypeOK, NEW i \in Node, NEW setting, NEW part, NEW unit, NEW c,
         \/ UNCHANGED server
         \/ server' = Edited(i, setting) \/ server' = Stopped(i) \/ server' = With(i, part)
         \/ server' = Started(i, unit, c)
         \/ server' = [server EXCEPT ![i].repo = TRUE]
  PROVE  SameVersions
<1>. server \in [Node -> Server]
  BY DEF TypeOK
<1>1. CASE server' = With(i, part)
  BY <1>1 DEF With, SameVersions, Server
<1>2. CASE server' = Started(i, unit, c)
  BY <1>2 DEF Started, SameVersions, Server
<1>3. CASE server' = Edited(i, setting)
  BY <1>3 DEF Edited, SameVersions, Server
<1>4. CASE server' = Stopped(i)
  BY <1>4 DEF Stopped, SameVersions, Server
<1>5. CASE server' = [server EXCEPT ![i].repo = TRUE]
  BY <1>5 DEF SameVersions, Server
<1>6. CASE UNCHANGED server
  BY <1>6 DEF SameVersions
<1>. QED  BY <1>1, <1>2, <1>3, <1>4, <1>5, <1>6

LEMMA AgreedSame ==
  ASSUME VersionInv, UNCHANGED <<conf, version, picked>>, SameVersions,
         \A i \in Node : node'[i] = "store" => node[i] = "store"
  PROVE  Agreed'
  BY AgreedIf DEF VersionInv, Agreed, SameVersions

\* The goroutines: what they leave alone, Pick, Store, TornVersion and InstallPXC.
LEMMA NodeAgreed == ASSUME VersionInv, NEW i \in Node, NodeNext(i) PROVE Agreed'
<1>. TypeOK
  BY DEF VersionInv
<1>. DEFINE Kept == /\ UNCHANGED <<conf, version, picked>>
                    /\ \A j \in Node : node'[j] = "store" => node[j] = "store"
<1>1. CASE CheckErr(i) \/ WrapErr(i) \/ TornErr(i) \/ TornVersion(i)
  <2>1. Kept /\ UNCHANGED server
    BY <1>1 DEF CheckErr, WrapErr, TornErr, TornVersion, NodeOnly, Go, Then, TypeOK
  <2>. QED  BY <2>1, AgreedSame DEF SameVersions
<1>2. CASE Configure(i)
  <2>1. Kept /\ (UNCHANGED server \/ server' = [server EXCEPT ![i].repo = TRUE])
    BY <1>2 DEF Configure, Try, NodeOnly, Go, TypeOK
  <2>. QED  BY <2>1, SameAfter, AgreedSame
<1>3. CASE VersionList(i) \/ StopAlone(i) \/ FixRootUser(i)
  <2>1. Kept
    BY <1>3 DEF VersionList, StopAlone, FixRootUser, Work, Try, NodeOnly, Shared, Go, Then, TypeOK
  <2>2. UNCHANGED server \/ server' = Stopped(i) \/ server' = With(i, "root")
    BY <1>3 DEF VersionList, StopAlone, FixRootUser, Work, Try
  <2>. QED  BY <2>1, <2>2, SameAfter, AgreedSame
<1>4. CASE EditConfig(i) \/ SendConfig(i)
  <2>1. Kept
    BY <1>4 DEF EditConfig, SendConfig, Work, Try, NodeOnly, Shared, Go, Then, TypeOK
  <2>2. UNCHANGED server \/ server' = Edited(i, "cluster") \/ server' = Edited(i, "custom")
    BY <1>4 DEF EditConfig, SendConfig, Work, Try
  <2>. QED  BY <2>1, <2>2, SameAfter, AgreedSame
<1>5. CASE StartAlone(i)
  <2>1. Kept
    BY <1>5 DEF StartAlone, TryStart, Try, NodeOnly, Shared, Go, Then, TypeOK
  <2>2. UNCHANGED server \/ \E c : server' = Started(i, "mysql", c)
    BY <1>5 DEF StartAlone, TryStart, Try
  <2>. QED  BY <2>1, <2>2, SameAfter, AgreedSame
<1>6. CASE Pick(i)
  <2>. PICK found : found = IF version = None THEN Lines(i)[1] ELSE SelectVersion(Lines(i), version)
    OBVIOUS
  <2>1. /\ picked' = [picked EXCEPT ![i] = found]
        /\ node' = [node EXCEPT ![i] = IF version # None /\ found = None THEN "failed" ELSE "store"]
        /\ UNCHANGED <<conf, version, server>>
    BY <1>6 DEF Pick, Go, NodeOnly
  <2>2. ASSUME NEW j \in Node, node'[j] = "store" PROVE Known(picked'[j])
    <3>1. CASE j # i
      BY <2>1, <2>2, <3>1 DEF VersionInv, Agreed, TypeOK
    <3>2. CASE j = i
      <4>1. picked'[j] = found /\ (version = None \/ found # None)
        BY <2>1, <2>2, <3>2 DEF TypeOK
      <4>. QED  BY <4>1, PickKnown
    <3>. QED  BY <3>1, <3>2
  <2>. QED  BY <2>1, <2>2, AgreedIf DEF VersionInv, Agreed
<1>7. CASE Store(i)
  <2>1. /\ node[i] = "store" /\ version' = picked[i]
        /\ UNCHANGED <<conf, picked, server>>
        /\ \A j \in Node : node'[j] = "store" => node[j] = "store"
    BY <1>7 DEF Store, Go, Then, NodeOnly, TypeOK
  <2>. QED  BY <2>1, AgreedIf DEF VersionInv, Agreed
<1>8. CASE InstallPXC(i)
  <2>1. Kept
    BY <1>8 DEF InstallPXC, Work, Try, NodeOnly, Shared, Go, Then, TypeOK
  <2>2. CASE UNCHANGED server
    BY <2>1, <2>2, AgreedSame DEF SameVersions
  <2>3. CASE ~UNCHANGED server
    <3>1. PICK k \in DOMAIN Lines(i) : Lines(i)[k] = version /\ version # None
      BY <1>8, <2>3 DEF InstallPXC, Work, Try
    <3>2. Good(version)
      BY <3>1, GoodWhenFound DEF VersionInv, Agreed
    <3>3. server' = [server EXCEPT ![i].version = version]
      BY <1>8, <2>3 DEF InstallPXC, Work, Try
    <3>4. \A j \in Node : server'[j].version = IF j = i THEN version ELSE server[j].version
      BY <3>3 DEF TypeOK, Server
    <3>. QED  BY <2>1, <3>2, <3>4, AgreedIf DEF VersionInv, Agreed
  <2>. QED  BY <2>2, <2>3
<1>. QED
  BY <1>1, <1>2, <1>3, <1>4, <1>5, <1>6, <1>7, <1>8 DEF NodeNext

LEMMA MainAgreed == ASSUME VersionInv, MainNext PROVE Agreed'
<1>. TypeOK /\ 1 \in Node /\ cur \in Node
  BY NodeIsNat DEF VersionInv, TypeOK, Node
<1>1. UNCHANGED <<conf, version, picked>>
  BY DEF MainNext, CreateInstances, JoinNodes, StartNode, CreatePMMUser, InstallPMMClient,
     SetSlowLog, AddServiceToPMM, StopFirst, StartFirst, Serial, MainOnly
<1>2. \A j \in Node : node'[j] = "store" => node[j] = "store"
  BY DEF MainNext, CreateInstances, JoinNodes, StartNode, CreatePMMUser, InstallPMMClient,
     SetSlowLog, AddServiceToPMM, StopFirst, StartFirst, Serial
<1>3. \/ UNCHANGED server
      \/ server' = Edited(cur, "pmm") \/ server' = Stopped(1)
      \/ \E part : server' = With(cur, part)
      \/ \E unit, c : server' = Started(cur, unit, c) \/ server' = Started(1, unit, c)
  BY DEF MainNext, CreateInstances, JoinNodes, StartNode, CreatePMMUser, InstallPMMClient,
     SetSlowLog, AddServiceToPMM, StopFirst, StartFirst, Serial, TryStart, Try
<1>4. SameVersions
  BY <1>3, SameAfter
<1>. QED  BY <1>1, <1>2, <1>4, AgreedSame

\* Whatever goroutine has put the full version into m.version, what is installed
\* extends what was asked for; and when all nodes see one list of versions, it is
\* the same everywhere.  (manager.go:158-172, utils.go:42-77)
THEOREM VersionsCorrect == Spec => []VersionsAgree
<1>1. Init => Agreed
  BY DEF Init, Agreed, Known, Blank, None
<1>2. VersionInv /\ [Next]_vars => VersionInv'
  <2>. SUFFICES ASSUME VersionInv, [Next]_vars PROVE VersionInv'
    OBVIOUS
  <2>1. TypeOK'
    BY NextType DEF VersionInv
  <2>2. CASE UNCHANGED vars
    BY <2>1, <2>2, AgreedSame DEF vars, SameVersions, VersionInv
  <2>3. CASE Next
    BY <2>1, <2>3, NodeAgreed, MainAgreed DEF Next, VersionInv
  <2>. QED  BY <2>2, <2>3
<1>3. VersionInv => VersionsAgree
  BY DEF VersionInv, Agreed, VersionsAgree, Good, Extends, Uniform
<1>. QED  BY <1>1, <1>2, <1>3, InitType, PTL DEF Spec, VersionInv

-----------------------------------------------------------------------------
(* The cluster.                                                            *)

Early == {"idle", "configure", "check", "wrap", "versions", "pick", "store", "install"}
PmmStep == {"pmmUser", "pmmClient", "pmmEdit", "pmmService"}
InLoop == main \in PmmStep \cup {"start", "stopFirst", "startFirst", "created"}

\* The goroutines run only while Create waits for them.
Places ==
  /\ main = "instances" => \A i \in Node : node[i] = "idle"
  /\ main = "nodes" => \A i \in Node : node[i] # "idle"
  /\ InLoop => \A i \in Node : node[i] = "done"
  /\ main = "failed" => \A i \in Node : node[i] \in {"idle", "done", "failed"}

Setup == {"cluster"} \cup (IF conf.custom THEN {"custom"} ELSE {})

\* A node that was never started with the settings of the cluster, and one that
\* can be, if it has the software at all.
Fresh(i) == server[i].member = 0 /\ server[i].loaded = {} /\ "pmm" \notin server[i].file
Ready(i) == server[i].version # None => "root" \in server[i].has /\ Setup \subseteq server[i].file

\* What a goroutine has done.
Done(i) ==
  /\ node[i] \in {"idle", "configure"} => ~server[i].repo
  /\ node[i] \in Early => server[i].version = None
  /\ node[i] \in Early \cup {"startAlone", "fixRoot", "stopAlone", "edit"} => server[i].file = {}
  /\ node[i] \in {"stopAlone", "edit", "custom"} => "root" \in server[i].has
  /\ node[i] = "custom" => "cluster" \in server[i].file
  /\ node[i] = "done" => Ready(i)

BeforeLoop == main \in {"instances", "nodes"} => \A i \in Node : Fresh(i) /\ Done(i)

Repositories == \A i \in Node : server[i].version # None => server[i].repo

Members ==
  \A i \in Node :
    /\ server[i].member \in {0, 1}
    /\ server[i].unit # "none" /\ "cluster" \in server[i].loaded => server[i].member = 1

\* How far the loop, and what follows it, has come.
IsUp(i) ==
  \/ main = "start" /\ i < cur
  \/ main \in PmmStep /\ i <= cur
  \/ main \in {"stopFirst", "created"}
  \/ main = "startFirst" /\ i # 1
Finished(i) ==
  \/ main \in PmmStep \cup {"start"} /\ i < cur
  \/ main \in {"stopFirst", "startFirst", "created"}

\* The settings for PMM were written and are not in force.
Rewritten(i) ==
  /\ conf.pmm
  /\ \/ main \in {"start", "pmmUser", "pmmClient", "pmmEdit"} /\ i < cur
     \/ main = "pmmService" /\ i <= cur
     \/ main \in {"stopFirst", "startFirst"}
     \/ main = "created" /\ (i > 1 \/ conf.size = 1)

\* A member of the cluster, of which some settings are not in force; one that
\* was not started yet.
Joined(i, unit, left) ==
  /\ server[i].member = 1 /\ server[i].version # None /\ server[i].unit = unit
  /\ "root" \in server[i].has
  /\ Setup \subseteq server[i].loaded /\ Setup \subseteq server[i].file
  /\ server[i].file \ server[i].loaded = left
Waiting(i) == Fresh(i) /\ Ready(i)

Up(i) ==
  /\ Joined(i, IF i = 1 /\ (main = "created" => conf.size = 1) THEN "bootstrap" ELSE "mysql",
               IF Rewritten(i) THEN {"pmm"} ELSE {})
  /\ main # "created" => "pmm" \notin server[i].loaded
Down(i) ==
  /\ server[i].member = 0 /\ server[i].loaded = {} /\ Ready(i)
  /\ main # "startFirst" => "pmm" \notin server[i].file

Loop ==
  InLoop =>
    /\ \A i \in Node : IF IsUp(i) THEN Up(i) ELSE Down(i)
    /\ \A i \in Node : Finished(i) /\ conf.pmm => Part \subseteq server[i].has
    /\ main \in PmmStep => conf.pmm
    /\ main \in {"stopFirst", "startFirst"} => conf.size > 1

Faults ==
  /\ \A f \in faults : f[1] \in {"setup", "configure"} => f[2] \in Node
  /\ \A f \in faults : f[1] = "setup" =>
       ~server[f[2]].repo /\ node[f[2]] \notin {"idle", "configure"}
  /\ main # "failed" /\ ~NodesCancelled =>
       \A f \in faults : f[1] \in {"setup", "configure"}

Cluster ==
  Places /\ BeforeLoop /\ Repositories /\ Members /\ Loop /\ Faults
ClusterInv == TypeOK /\ Cluster

LEMMA InitCluster == Init => Cluster
  BY DEF Init, Cluster, Places, InLoop, PmmStep, BeforeLoop, Fresh, Done, Early, Blank,
     Repositories, Members, Loop, Faults

\* A step of a goroutine is about its own node, while Create waits.
LEMMA LocalStep ==
  ASSUME ClusterInv, TypeOK', NEW i \in Node, main = "nodes",
         UNCHANGED conf, main' \in {"nodes", "crashed"},
         \A j \in Node \ {i} : server'[j] = server[j] /\ node'[j] = node[j],
         Fresh(i)', Done(i)',
         server'[i].version # None => server'[i].repo,
         server'[i].repo = server[i].repo \/ node[i] = "configure",
         node'[i] \notin {"idle", "configure"},
         \/ UNCHANGED faults /\ (node[i] = "failed" => node'[i] = "failed")
         \/ \E f : /\ faults' = faults \cup {f}
                 /\ \/ f[1] \notin {"setup", "configure"} /\ node'[i] = "failed"
                    \/ f = <<"configure", i>> /\ (node[i] = "failed" => node'[i] = "failed")
                    \/ /\ f = <<"setup", i>> /\ ~server'[i].repo
                       /\ node[i] = "failed" => node'[i] = "failed"
  PROVE  Cluster'
<1>. Node' = Node
  BY DEF Node
<1>1. Places' /\ Loop'
  BY DEF ClusterInv, Cluster, Places, InLoop, PmmStep, Loop
<1>2. \A j \in Node : Fresh(j)'
  BY DEF ClusterInv, Cluster, BeforeLoop, Fresh
<1>3. \A j \in Node : Done(j)'
  BY DEF ClusterInv, Cluster, BeforeLoop, Done, Ready, Setup
<1>4. BeforeLoop'
  BY <1>2, <1>3 DEF BeforeLoop
<1>5. Repositories'
  BY DEF ClusterInv, Cluster, Repositories
<1>6. Members'
  BY <1>2 DEF Members, Fresh
<1>7. Faults'
  <2>1. NodesCancelled => NodesCancelled'
    BY DEF NodesCancelled
  <2>2. node'[i] = "failed" => NodesCancelled'
    BY DEF NodesCancelled
  <2>3. CASE UNCHANGED faults
    BY <2>1, <2>3 DEF ClusterInv, Cluster, Faults
  <2>4. ASSUME NEW f, faults' = faults \cup {f},
               \/ f[1] \notin {"setup", "configure"} /\ node'[i] = "failed"
               \/ f = <<"configure", i>>
               \/ f = <<"setup", i>> /\ ~server'[i].repo
        PROVE  Faults'
    BY <2>1, <2>2, <2>4 DEF ClusterInv, Cluster, Faults
  <2>. QED  BY <2>3, <2>4
<1>. QED  BY <1>1, <1>4, <1>5, <1>6, <1>7 DEF Cluster

LEMMA NodesRun ==
  ASSUME ClusterInv, NEW i \in Node, NodeNext(i), main # "crashed"
  PROVE  main = "nodes" /\ Fresh(i) /\ Done(i) /\ node[i] \notin {"idle", "done", "failed"}
<1>1. node[i] \notin {"idle", "done", "failed"}
  BY DEF NodeNext, Configure, CheckErr, WrapErr, TornErr, VersionList, Pick, Store,
     TornVersion, InstallPXC, StartAlone, FixRootUser, StopAlone, EditConfig, SendConfig, Work
<1>2. main \in MainStep
  BY DEF ClusterInv, TypeOK
<1>3. main = "nodes"
  BY <1>1, <1>2 DEF ClusterInv, Cluster, Places, InLoop, PmmStep, MainStep, Ended
<1>. QED  BY <1>1, <1>3 DEF ClusterInv, Cluster, BeforeLoop

\* The steps of a goroutine that only change where it stands.
LEMMA StayLocal ==
  ASSUME ClusterInv, TypeOK', NEW i \in Node, main = "nodes", Fresh(i), Done(i),
         node[i] \notin {"idle", "done", "failed", "configure"},
         UNCHANGED <<conf, server, faults>>, main' \in {"nodes", "crashed"},
         NEW s, UNCHANGED node \/ Go(i, s), UNCHANGED node \/ s # "idle",
         \/ s = "failed"
         \/ s = "done" /\ server[i].version = None
         \/ s \in Early \ {"idle", "configure"} /\ server[i].version = None /\ server[i].file = {}
         \/ UNCHANGED node
  PROVE  Cluster'
<1>1. /\ \A j \in Node \ {i} : server'[j] = server[j] /\ node'[j] = node[j]
      /\ UNCHANGED node \/ node'[i] = s
  BY DEF Go, ClusterInv, TypeOK
<1>2. Fresh(i)' /\ (server'[i].version # None => server'[i].repo)
  BY DEF Fresh, ClusterInv, Cluster, Repositories
<1>3. Done(i)' /\ node'[i] \notin {"idle", "configure"}
  BY <1>1 DEF Done, Early, Ready, Setup
<1>. QED  BY <1>1, <1>2, <1>3, LocalStep

LEMMA StayCluster ==
  ASSUME ClusterInv, TypeOK', NEW i \in Node, main # "crashed", NodeNext(i),
         CheckErr(i) \/ WrapErr(i) \/ TornErr(i) \/ Pick(i) \/ Store(i) \/ TornVersion(i)
  PROVE  Cluster'
<1>0. main = "nodes" /\ Fresh(i) /\ Done(i)
  BY NodesRun
<1>1. CASE CheckErr(i)
  <2>1. /\ node[i] = "check" /\ UNCHANGED <<conf, main, server, faults>>
        /\ Go(i, "versions") \/ Go(i, "wrap") \/ Go(i, "failed")
    BY <1>1 DEF CheckErr, NodeOnly, Then
  <2>2. server[i].version = None /\ server[i].file = {}
    BY <1>0, <2>1 DEF Done, Early
  <2>. QED  BY <1>0, <2>1, <2>2, StayLocal DEF Early
<1>2. CASE WrapErr(i)
  <2>1. /\ node[i] = "wrap" /\ UNCHANGED <<conf, main, server, faults>>
        /\ Go(i, "done") \/ Go(i, "failed")
    BY <1>2 DEF WrapErr, NodeOnly
  <2>2. server[i].version = None
    BY <1>0, <2>1 DEF Done, Early
  <2>. QED  BY <1>0, <2>1, <2>2, StayLocal
<1>3. CASE TornErr(i)
  <2>1. node[i] = "wrap" /\ main' = "crashed" /\ UNCHANGED <<conf, node, server, faults>>
    BY <1>3 DEF TornErr
  <2>. QED  BY <1>0, <2>1, StayLocal
<1>4. CASE Pick(i)
  <2>1. /\ node[i] = "pick" /\ UNCHANGED <<conf, main, server, faults>>
        /\ Go(i, "store") \/ Go(i, "failed")
    BY <1>4 DEF Pick, NodeOnly
  <2>2. server[i].version = None /\ server[i].file = {}
    BY <1>0, <2>1 DEF Done, Early
  <2>. QED  BY <1>0, <2>1, <2>2, StayLocal DEF Early
<1>5. CASE Store(i)
  <2>1. /\ node[i] = "store" /\ UNCHANGED <<conf, main, server, faults>>
        /\ Go(i, "install") \/ Go(i, "failed")
    BY <1>5 DEF Store, NodeOnly, Then
  <2>2. server[i].version = None /\ server[i].file = {}
    BY <1>0, <2>1 DEF Done, Early
  <2>. QED  BY <1>0, <2>1, <2>2, StayLocal DEF Early
<1>6. CASE TornVersion(i)
  <2>1. /\ node[i] \in {"pick", "install"} /\ UNCHANGED <<conf, server, faults>>
        /\ \/ Go(i, "failed") /\ UNCHANGED main
           \/ main' = "crashed" /\ UNCHANGED node
    BY <1>6 DEF TornVersion
  <2>. QED  BY <1>0, <2>1, StayLocal
<1>. QED  BY <1>1, <1>2, <1>3, <1>4, <1>5, <1>6

\* A command fails and the goroutine ends, or it works and the goroutine goes on.
LEMMA WorkLocal ==
  ASSUME ClusterInv, TypeOK', NEW i \in Node, main = "nodes", UNCHANGED <<conf, main>>,
         node[i] \notin {"idle", "done", "failed", "configure"},
         NEW step, step \notin {"setup", "configure"}, NEW s, s \notin {"idle", "configure"},
         \/ Go(i, s) /\ UNCHANGED faults
         \/ Go(i, "failed") /\ (UNCHANGED faults \/ faults' = faults \cup {<<step, i>>}),
         \A j \in Node \ {i} : server'[j] = server[j],
         server'[i].version # None => server'[i].repo, server'[i].repo = server[i].repo,
         Fresh(i)', Go(i, s) => Done(i)'
  PROVE  Cluster'
<1>1. node' = [node EXCEPT ![i] = node'[i]] /\ (node'[i] = "failed" \/ Go(i, s))
  BY DEF Go, ClusterInv, TypeOK
<1>2. \A j \in Node \ {i} : node'[j] = node[j]
  BY <1>1 DEF ClusterInv, TypeOK
<1>3. Done(i)' /\ node'[i] \notin {"idle", "configure"}
  BY <1>1 DEF Go, Done, Early, ClusterInv, TypeOK
<1>4. \/ UNCHANGED faults
      \/ \E f : faults' = faults \cup {f} /\ f[1] \notin {"setup", "configure"} /\ node'[i] = "failed"
  BY DEF Go, ClusterInv, TypeOK
<1>. QED  BY <1>2, <1>3, <1>4, LocalStep

LEMMA WorkShape ==
  ASSUME NEW i \in Node, NEW step, NEW may, NEW new, NEW next, Work(i, step, may, new, next)
  PROVE  /\ node[i] = step /\ UNCHANGED <<conf, main>>
         /\ \/ Go(i, next) /\ server' = new /\ may /\ UNCHANGED faults
            \/ /\ Go(i, "failed") /\ (server' = server \/ (server' = new /\ may))
               /\ UNCHANGED faults \/ faults' = faults \cup {<<step, i>>}
  BY DEF Work, Try, Then, NodeOnly, Refused, Fault

\* Such a command of a goroutine that is about its own node and keeps it fresh.
LEMMA WorkCluster ==
  ASSUME ClusterInv, TypeOK', NEW i \in Node, main = "nodes",
         Fresh(i), NEW step, NEW may, NEW new \in [Node -> Server],
         NEW next \in {"pick", "install", "startAlone", "stopAlone", "edit", "custom", "done"},
         step \notin {"idle", "done", "failed", "configure", "setup"},
         Work(i, step, may, new, next),
         \A j \in Node \ {i} : new[j] = server[j],
         new[i].repo = server[i].repo,
         may /\ new[i].version # None => server[i].repo,
         new[i].member = 0, new[i].loaded = {}, "pmm" \notin new[i].file,
         may /\ Go(i, next) /\ server' = new => Done(i)'
  PROVE  Cluster'
<1>1. /\ node[i] = step /\ UNCHANGED <<conf, main>>
      /\ \/ Go(i, next) /\ server' = new /\ may /\ UNCHANGED faults
         \/ /\ Go(i, "failed") /\ (server' = server \/ (server' = new /\ may))
            /\ UNCHANGED faults \/ faults' = faults \cup {<<step, i>>}
  BY WorkShape
<1>2. server' = server \/ (server' = new /\ may)
  BY <1>1
<1>3. /\ \A j \in Node \ {i} : server'[j] = server[j]
      /\ server'[i].repo = server[i].repo
      /\ server'[i].version # None => server'[i].repo
      /\ Fresh(i)'
  BY <1>2 DEF Fresh, ClusterInv, Cluster, Repositories
<1>4. CASE Go(i, next) /\ server' = new /\ may /\ UNCHANGED faults
  <2>1. next \notin {"idle", "configure"}
    BY DEF Early
  <2>. QED  BY <1>1, <1>3, <1>4, <2>1, WorkLocal
<1>5. CASE /\ Go(i, "failed") /\ (server' = server \/ (server' = new /\ may))
           /\ UNCHANGED faults \/ faults' = faults \cup {<<step, i>>}
  <2>1. Done(i)'
    BY <1>5 DEF Go, Done, Early, ClusterInv, TypeOK
  <2>. QED  BY <1>1, <1>3, <1>5, <2>1, WorkLocal
<1>. QED  BY <1>1, <1>4, <1>5

LEMMA ConfigureCluster ==
  ASSUME ClusterInv, TypeOK', NEW i \in Node, main # "crashed", NodeNext(i), Configure(i)
  PROVE  Cluster'
<1>1. main = "nodes" /\ Fresh(i) /\ Done(i)
  BY NodesRun
<1>2. /\ node[i] = "configure" /\ UNCHANGED <<conf, main>>
      /\ node' = [node EXCEPT ![i] = "check"]
      /\ server' = server \/ server' = [server EXCEPT ![i].repo = TRUE]
      /\ \/ UNCHANGED faults \/ faults' = faults \cup {<<"configure", i>>}
         \/ server' = server /\ faults' = faults \cup {<<"setup", i>>}
  BY DEF Configure, Try, Go, NodeOnly, Refused, Fault
<1>3. /\ \A j \in Node \ {i} : server'[j] = server[j] /\ node'[j] = node[j]
      /\ node'[i] = "check"
      /\ server'[i] = server[i] \/ server'[i] = [server[i] EXCEPT !.repo = TRUE]
  BY <1>2 DEF ClusterInv, TypeOK
<1>4. server'[i].member = server[i].member /\ server'[i].loaded = server[i].loaded
      /\ server'[i].file = server[i].file /\ server'[i].version = server[i].version
  BY <1>3 DEF ClusterInv, TypeOK, Server
<1>5. server[i].version = None /\ server[i].file = {} /\ ~server[i].repo
  BY <1>1, <1>2 DEF Done, Early
<1>6. Fresh(i)' /\ Done(i)'
  BY <1>1, <1>3, <1>4, <1>5 DEF Fresh, Done, Early
<1>8. \/ UNCHANGED faults
      \/ faults' = faults \cup {<<"configure", i>>}
      \/ faults' = faults \cup {<<"setup", i>>} /\ server'[i] = server[i]
  BY <1>2
<1>9. /\ server'[i].version # None => server'[i].repo
      /\ node[i] # "failed" /\ node'[i] \notin {"idle", "configure"}
  BY <1>2, <1>3, <1>4, <1>5
<1>. QED  BY <1>1, <1>2, <1>3, <1>5, <1>6, <1>8, <1>9, LocalStep

LEMMA CommandCluster ==
  ASSUME ClusterInv, TypeOK', NEW i \in Node, main # "crashed", NodeNext(i),
         \/ VersionList(i) \/ InstallPXC(i) \/ FixRootUser(i) \/ StopAlone(i)
         \/ EditConfig(i) \/ SendConfig(i)
  PROVE  Cluster'
<1>0. /\ main = "nodes" /\ Fresh(i) /\ Done(i)
      /\ server \in [Node -> Server] /\ node \in [Node -> NodeStep]
      /\ server[i].version # None => server[i].repo
  BY NodesRun DEF ClusterInv, TypeOK, Cluster, Repositories
<1>1. CASE VersionList(i)
  <2>1. Work(i, "versions", TRUE, server, "pick")
    BY <1>1 DEF VersionList
  <2>2. node[i] = "versions"
    BY <2>1 DEF Work
  <2>3. Go(i, "pick") /\ server' = server => Done(i)'
    BY <1>0, <2>2 DEF Go, Done, Early
  <2>4. server[i].member = 0 /\ server[i].loaded = {} /\ "pmm" \notin server[i].file
    BY <1>0 DEF Fresh
  <2>. QED  BY <1>0, <2>1, <2>3, <2>4, WorkCluster
<1>2. CASE InstallPXC(i)
  <2>. DEFINE new == [server EXCEPT ![i].version = version]
              may == \E k \in DOMAIN Lines(i) : Lines(i)[k] = version /\ version # None
  <2>1. Work(i, "install", may, new, "startAlone")
    BY <1>2 DEF InstallPXC
  <2>2. node[i] = "install"
    BY <2>1 DEF Work
  <2>3. may => version \in FullVersion /\ server[i].repo
    BY LinesType, NoLines DEF ClusterInv, Line
  <2>4. /\ \A j \in Node \ {i} : new[j] = server[j]
        /\ new[i] = [server[i] EXCEPT !.version = version]
    BY <1>0
  <2>5. /\ new[i].repo = server[i].repo /\ new[i].member = server[i].member
        /\ new[i].loaded = server[i].loaded /\ new[i].file = server[i].file
    BY <1>0, <2>4 DEF Server
  <2>6. may => new \in [Node -> Server]
    BY <1>0, <2>3 DEF Server
  <2>7. server[i].file = {}
    BY <1>0, <2>2 DEF Done, Early
  <2>8. Go(i, "startAlone") /\ server' = new => Done(i)'
    BY <1>0, <2>5, <2>7 DEF Go, Done, Early
  <2>9. CASE ~may
    <3>1. Work(i, "install", FALSE, server, "startAlone")
      BY <2>1, <2>9 DEF Work, Try
    <3>2. FALSE /\ Go(i, "startAlone") /\ server' = server => Done(i)'
      OBVIOUS
    <3>. HIDE DEF may, new
    <3>. QED  BY <1>0, <3>1, <3>2, WorkCluster DEF Fresh
  <2>10. CASE may
    <3>1. Work(i, "install", TRUE, new, "startAlone")
      BY <2>1, <2>10 DEF Work, Try
    <3>. HIDE DEF may, new
    <3>2. new[i].member = 0 /\ new[i].loaded = {} /\ "pmm" \notin new[i].file
      BY <1>0, <2>5 DEF Fresh
    <3>. QED  BY <1>0, <2>3, <2>4, <2>5, <2>6, <2>8, <2>10, <3>1, <3>2, WorkCluster
  <2>. QED  BY <2>9, <2>10
<1>3. CASE FixRootUser(i)
  <2>. DEFINE new == With(i, "root")
  <2>1. Work(i, "fixRoot", server[i].unit # "none", new, "stopAlone")
    BY <1>3 DEF FixRootUser
  <2>2. node[i] = "fixRoot"
    BY <2>1 DEF Work
  <2>3. Replicas(i) = {i}
    BY <1>0 DEF Fresh, Replicas
  <2>4. /\ \A j \in Node \ {i} : new[j] = server[j]
        /\ new[i] = [server[i] EXCEPT !.has = @ \cup {"root"}]
    BY <1>0, <2>3 DEF With
  <2>5. /\ new[i].repo = server[i].repo /\ new[i].member = server[i].member
        /\ new[i].loaded = server[i].loaded /\ new[i].file = server[i].file
        /\ new[i].version = server[i].version /\ "root" \in new[i].has
    BY <1>0, <2>4 DEF Server
  <2>6. new \in [Node -> Server]
    BY WithType DEF ClusterInv, Part, User
  <2>. HIDE DEF new
  <2>7. server[i].file = {}
    BY <1>0, <2>2 DEF Done
  <2>8. Go(i, "stopAlone") /\ server' = new => Done(i)'
    BY <1>0, <2>5, <2>7 DEF Go, Done, Early
  <2>9. new[i].member = 0 /\ new[i].loaded = {} /\ "pmm" \notin new[i].file
    BY <1>0, <2>5 DEF Fresh
  <2>10. /\ \A j \in Node \ {i} : new[j] = server[j]
         /\ new[i].repo = server[i].repo
         /\ new[i].version # None => server[i].repo
    BY <1>0, <2>4, <2>5
  <2>11. main = "nodes" /\ Fresh(i)
    BY <1>0
  <2>. QED  BY <2>1, <2>6, <2>8, <2>9, <2>10, <2>11, WorkCluster
<1>4. CASE StopAlone(i)
  <2>. DEFINE new == Stopped(i)
  <2>1. Work(i, "stopAlone", TRUE, new, "edit")
    BY <1>4 DEF StopAlone
  <2>2. node[i] = "stopAlone"
    BY <2>1 DEF Work
  <2>3. /\ \A j \in Node \ {i} : new[j] = server[j]
        /\ new[i] = [server[i] EXCEPT !.unit = "none", !.member = 0, !.loaded = {}]
    BY <1>0 DEF Stopped
  <2>4. /\ new[i].repo = server[i].repo /\ new[i].member = 0
        /\ new[i].loaded = {} /\ new[i].file = server[i].file
        /\ new[i].version = server[i].version /\ new[i].has = server[i].has
    BY <1>0, <2>3 DEF Server
  <2>5. new \in [Node -> Server]
    BY StoppedType DEF ClusterInv
  <2>. HIDE DEF new
  <2>6. server[i].file = {} /\ "root" \in server[i].has
    BY <1>0, <2>2 DEF Done
  <2>7. Go(i, "edit") /\ server' = new => Done(i)'
    BY <1>0, <2>4, <2>6 DEF Go, Done, Early
  <2>8. "pmm" \notin new[i].file
    BY <2>4, <2>6
  <2>9. /\ \A j \in Node \ {i} : new[j] = server[j]
        /\ new[i].version # None => server[i].repo
    BY <1>0, <2>3, <2>4
  <2>10. main = "nodes" /\ Fresh(i)
    BY <1>0
  <2>. QED  BY <2>1, <2>4, <2>5, <2>7, <2>8, <2>9, <2>10, WorkCluster
<1>5. CASE EditConfig(i)
  <2>. DEFINE new == Edited(i, "cluster")
              next == IF conf.custom THEN "custom" ELSE "done"
  <2>1. Work(i, "edit", TRUE, new, next)
    BY <1>5 DEF EditConfig
  <2>2. node[i] = "edit"
    BY <2>1 DEF Work
  <2>3. /\ \A j \in Node \ {i} : new[j] = server[j]
        /\ new[i] = [server[i] EXCEPT !.file = @ \cup {"cluster"}]
    BY <1>0 DEF Edited
  <2>4. server[i].file = {} /\ "root" \in server[i].has
    BY <1>0, <2>2 DEF Done
  <2>5. /\ new[i].repo = server[i].repo /\ new[i].member = server[i].member
        /\ new[i].loaded = server[i].loaded /\ new[i].file = {"cluster"}
        /\ new[i].version = server[i].version /\ new[i].has = server[i].has
    BY <1>0, <2>3, <2>4 DEF Server
  <2>6. new \in [Node -> Server]
    BY EditedType DEF ClusterInv, Setting
  <2>. HIDE DEF new
  <2>7. UNCHANGED conf
    BY <2>1 DEF Work, NodeOnly
  <2>8. Go(i, next) /\ server' = new => Done(i)'
    BY <1>0, <2>4, <2>5, <2>7 DEF Go, Done, Early, Ready, Setup
  <2>9. /\ next \in {"custom", "done"}
        /\ new[i].member = 0 /\ new[i].loaded = {} /\ "pmm" \notin new[i].file
    BY <1>0, <2>5 DEF Fresh
  <2>. HIDE DEF next
  <2>11. /\ \A j \in Node \ {i} : new[j] = server[j]
         /\ new[i].repo = server[i].repo
         /\ new[i].version # None => server[i].repo
    BY <1>0, <2>3, <2>5
  <2>12. main = "nodes" /\ Fresh(i)
    BY <1>0
  <2>13. CASE next = "custom"
    <3>1. Work(i, "edit", TRUE, new, "custom") /\ (Go(i, "custom") /\ server' = new => Done(i)')
      BY <2>1, <2>8, <2>13
    <3>. QED  BY <3>1, <2>6, <2>9, <2>11, <2>12, WorkCluster
  <2>14. CASE next = "done"
    <3>1. Work(i, "edit", TRUE, new, "done") /\ (Go(i, "done") /\ server' = new => Done(i)')
      BY <2>1, <2>8, <2>14
    <3>. QED  BY <3>1, <2>6, <2>9, <2>11, <2>12, WorkCluster
  <2>. QED  BY <2>9, <2>13, <2>14
<1>6. CASE SendConfig(i)
  <2>. DEFINE new == Edited(i, "custom")
  <2>1. Work(i, "custom", TRUE, new, "done")
    BY <1>6 DEF SendConfig
  <2>2. node[i] = "custom"
    BY <2>1 DEF Work
  <2>3. /\ \A j \in Node \ {i} : new[j] = server[j]
        /\ new[i] = [server[i] EXCEPT !.file = @ \cup {"custom"}]
    BY <1>0 DEF Edited
  <2>4. "cluster" \in server[i].file /\ "root" \in server[i].has
    BY <1>0, <2>2 DEF Done
  <2>5. /\ new[i].repo = server[i].repo /\ new[i].member = server[i].member
        /\ new[i].loaded = server[i].loaded /\ new[i].file = server[i].file \cup {"custom"}
        /\ new[i].version = server[i].version /\ new[i].has = server[i].has
    BY <1>0, <2>3, <2>4 DEF Server
  <2>6. new \in [Node -> Server]
    BY EditedType DEF ClusterInv, Setting
  <2>. HIDE DEF new
  <2>7. Go(i, "done") /\ server' = new => Done(i)'
    BY <1>0, <2>4, <2>5 DEF Go, Done, Early, Ready, Setup
  <2>8. new[i].member = 0 /\ new[i].loaded = {} /\ "pmm" \notin new[i].file
    BY <1>0, <2>5 DEF Fresh
  <2>9. /\ \A j \in Node \ {i} : new[j] = server[j]
        /\ new[i].repo = server[i].repo
        /\ new[i].version # None => server[i].repo
    BY <1>0, <2>3, <2>5
  <2>10. main = "nodes" /\ Fresh(i)
    BY <1>0
  <2>. QED  BY <2>1, <2>6, <2>7, <2>8, <2>9, <2>10, WorkCluster
<1>. QED  BY <1>1, <1>2, <1>3, <1>4, <1>5, <1>6

\* What has no settings of the cluster starts alone.
LEMMA StartAloneCluster ==
  ASSUME ClusterInv, TypeOK', NEW i \in Node, main # "crashed", NodeNext(i), StartAlone(i)
  PROVE  Cluster'
<1>0. /\ main = "nodes" /\ Fresh(i) /\ Done(i)
      /\ server \in [Node -> Server] /\ node \in [Node -> NodeStep]
      /\ server[i].version # None => server[i].repo
  BY NodesRun DEF ClusterInv, TypeOK, Cluster, Repositories
<1>1. node[i] = "startAlone" /\ UNCHANGED <<conf, main>>
  BY DEF StartAlone, NodeOnly
<1>2. server[i].file = {} /\ Clusters(i, "mysql") = {0}
  BY <1>0, <1>1 DEF Done, Clusters
<1>. DEFINE new == Started(i, "mysql", 0)
<1>3. /\ server' = new \/ UNCHANGED server
      /\ \/ Go(i, "fixRoot") /\ UNCHANGED faults /\ server' = new
         \/ Go(i, "failed") /\ (UNCHANGED faults \/ faults' = faults \cup {<<"startAlone", i>>})
  BY <1>2 DEF StartAlone, TryStart, Try, Then, Refused, Fault
<1>4. /\ \A j \in Node \ {i} : new[j] = server[j]
      /\ new[i].repo = server[i].repo /\ new[i].member = 0
      /\ new[i].loaded = server[i].file /\ new[i].file = server[i].file
      /\ new[i].version = server[i].version /\ new[i].has = Inherited(i, 0)
  BY <1>0 DEF Started, Server
<1>5. Inherited(i, 0) = server[i].has
  BY DEF Inherited
<1>. HIDE DEF new
<1>6. /\ \A j \in Node \ {i} : server'[j] = server[j]
      /\ server'[i].repo = server[i].repo
      /\ server'[i].version # None => server'[i].repo
  BY <1>0, <1>3, <1>4
<1>7. Fresh(i)'
  BY <1>0, <1>2, <1>3, <1>4 DEF Fresh
<1>8. CASE Go(i, "fixRoot") /\ UNCHANGED faults /\ server' = new
  <2>1. Done(i)'
    BY <1>0, <1>2, <1>4, <1>8 DEF Go, Done, Early
  <2>. QED  BY <1>0, <1>1, <1>6, <1>7, <1>8, <2>1, WorkLocal
<1>9. CASE Go(i, "failed") /\ (UNCHANGED faults \/ faults' = faults \cup {<<"startAlone", i>>})
  <2>1. Done(i)'
    BY <1>0, <1>9 DEF Go, Done, Early
  <2>. QED  BY <1>0, <1>1, <1>6, <1>7, <1>9, <2>1, WorkLocal
<1>. QED  BY <1>3, <1>8, <1>9

LEMMA NodeCluster ==
  ASSUME ClusterInv, TypeOK', NEW i \in Node, main # "crashed", NodeNext(i)
  PROVE  Cluster'
  BY StayCluster, ConfigureCluster, CommandCluster, StartAloneCluster DEF NodeNext

-----------------------------------------------------------------------------
(* The loop that starts the cluster.                                       *)

\* Create ends with an error: nothing is promised any more but that there is no
\* second cluster.
LEMMA FailCluster ==
  ASSUME ClusterInv, MainOnly, main' = "failed", UNCHANGED node,
         \A i \in Node : node[i] \in {"idle", "done", "failed"},
         \A i \in Node : server'[i].version = server[i].version /\ server'[i].repo = server[i].repo,
         Members',
         UNCHANGED faults \/ \E f : faults' = faults \cup {f} /\ f[1] \notin {"setup", "configure"}
  PROVE  Cluster'
<1>. Node' = Node
  BY DEF MainOnly, Node
<1>1. Places'
  BY DEF Places, InLoop, PmmStep
<1>2. BeforeLoop' /\ Loop'
  BY DEF BeforeLoop, Loop, InLoop, PmmStep
<1>3. Repositories'
  BY DEF Repositories, ClusterInv, Cluster
<1>4. Faults'
  BY DEF Faults, ClusterInv, Cluster
<1>. QED  BY <1>1, <1>2, <1>3, <1>4 DEF Cluster

\* The steps inside the loop keep what is not about the loop.
LEMMA LoopStep ==
  ASSUME ClusterInv, InLoop, MainOnly, InLoop', UNCHANGED <<node, faults>>,
         \A i \in Node : server'[i].version = server[i].version /\ server'[i].repo = server[i].repo,
         Members', Loop'
  PROVE  Cluster'
<1>. Node' = Node
  BY DEF MainOnly, Node
<1>1. Places'
  BY DEF Places, ClusterInv, Cluster, InLoop, PmmStep
<1>2. BeforeLoop'
  BY DEF BeforeLoop, InLoop, PmmStep
<1>3. Repositories'
  BY DEF Repositories, ClusterInv, Cluster
<1>4. Faults'
  BY DEF Faults, ClusterInv, Cluster, NodesCancelled, InLoop, PmmStep
<1>. QED  BY <1>1, <1>2, <1>3, <1>4 DEF Cluster

LEMMA CreateInstancesCluster ==
  ASSUME ClusterInv, TypeOK', CreateInstances PROVE Cluster'
<1>0. /\ main = "instances" /\ MainOnly /\ UNCHANGED server
      /\ \A i \in Node : node[i] = "idle"
  BY DEF CreateInstances, ClusterInv, Cluster, Places
<1>1. CASE main' = "nodes" /\ node' = [i \in Node |-> "configure"] /\ UNCHANGED faults
  <2>. Node' = Node
    BY <1>0 DEF MainOnly, Node
  <2>1. Places' /\ Loop'
    BY <1>1 DEF Places, Loop, InLoop, PmmStep
  <2>2. BeforeLoop'
    BY <1>0, <1>1 DEF MainOnly, BeforeLoop, ClusterInv, Cluster, Fresh, Done, Early
  <2>3. Repositories' /\ Members'
    BY <1>0 DEF Repositories, Members, ClusterInv, Cluster
  <2>4. Faults'
    BY <1>0, <1>1 DEF Faults, ClusterInv, Cluster, NodesCancelled
  <2>. QED  BY <2>1, <2>2, <2>3, <2>4 DEF Cluster
<1>2. CASE main' = "failed" /\ UNCHANGED node /\ faults' = faults \cup {<<"instances", 0>>}
  <2>1. Members'
    BY <1>0 DEF Members, ClusterInv, Cluster, Node, MainOnly
  <2>. QED  BY <1>0, <1>2, <2>1, FailCluster
<1>. QED  BY <1>1, <1>2 DEF CreateInstances, Advance, Fail, Fault

LEMMA JoinNodesCluster ==
  ASSUME ClusterInv, TypeOK', JoinNodes PROVE Cluster'
<1>0. /\ main = "nodes" /\ MainOnly /\ UNCHANGED <<node, server, faults>>
      /\ \A i \in Node : node[i] \in {"done", "failed"}
  BY DEF JoinNodes
<1>. Node' = Node
  BY <1>0 DEF MainOnly, Node
<1>1. Members'
  BY <1>0 DEF Members, ClusterInv, Cluster
<1>2. CASE main' = "failed"
  BY <1>0, <1>1, <1>2, FailCluster
<1>3. CASE ~NodesCancelled /\ main' = "start" /\ cur' = 1
  <2>1. \A i \in Node : node[i] = "done"
    BY <1>0, <1>3 DEF NodesCancelled
  <2>2. Places'
    BY <1>0, <1>3, <2>1 DEF Places, InLoop, PmmStep
  <2>3. BeforeLoop' /\ Repositories'
    BY <1>0, <1>3 DEF BeforeLoop, Repositories, ClusterInv, Cluster
  <2>4. \A i \in Node : ~(IsUp(i)') /\ ~(Finished(i)') /\ Down(i)'
    BY <1>0, <1>3, <2>1, NodeIsNat DEF MainOnly, BeforeLoop, ClusterInv, Cluster, IsUp, Finished, PmmStep,
       Down, Fresh, Done, Ready, Setup
  <2>5. Loop'
    BY <1>3, <2>4 DEF Loop, PmmStep
  <2>6. Faults'
    BY <1>0, <1>3 DEF Faults, ClusterInv, Cluster, NodesCancelled
  <2>. QED  BY <1>1, <2>2, <2>3, <2>5, <2>6 DEF Cluster
<1>. QED  BY <1>2, <1>3 DEF JoinNodes, Advance, Fail

\* The loop goes on with the next node, or ends, with every node up to this one
\* in the cluster.
LEMMA NextNodeLoop ==
  ASSUME TypeOK, TypeOK', UNCHANGED conf, NextNode,
         \A i \in Node : i <= cur =>
           /\ Joined(i, UnitOf(i), IF conf.pmm THEN {"pmm"} ELSE {})'
           /\ "pmm" \notin server'[i].loaded
           /\ conf.pmm => Part \subseteq server'[i].has,
         \A i \in Node : i > cur => Waiting(i)'
  PROVE  InLoop' /\ Loop'
<1>0. /\ cur \in Nat \ {0} /\ conf.size \in Nat \ {0} /\ cur <= conf.size /\ Node' = Node
      /\ \A i \in Node : i \in Nat /\ 1 <= i /\ i <= conf.size
  BY NodeIsNat DEF TypeOK, Node
<1>. DEFINE Left == IF conf.pmm THEN {"pmm"} ELSE {}
<1>1. \A i \in Node : i > cur => Down(i)'
  BY DEF Waiting, Down, Fresh
<1>2. CASE cur < conf.size /\ main' = "start" /\ cur' = cur + 1
  <2>1. ASSUME NEW i \in Node, i <= cur PROVE Up(i)'
    <3>1. Rewritten(i)' <=> conf.pmm
      BY <1>0, <1>2, <2>1 DEF Rewritten
    <3>. QED  BY <1>0, <1>2, <2>1, <3>1 DEF Up, UnitOf
  <2>2. \A i \in Node : (IsUp(i)' <=> i <= cur) /\ (Finished(i)' <=> i <= cur)
    BY <1>0, <1>2 DEF IsUp, Finished, PmmStep
  <2>3. \A i \in Node : i <= cur \/ i > cur
    BY <1>0
  <2>. QED  BY <1>0, <1>1, <1>2, <2>1, <2>2, <2>3 DEF Loop, InLoop, PmmStep
<1>3. CASE cur = conf.size /\ conf.size > 1 /\ main' = "stopFirst"
  <2>1. ASSUME NEW i \in Node PROVE Up(i)'
    <3>1. (Rewritten(i)' <=> conf.pmm) /\ i <= cur
      BY <1>0, <1>3 DEF Rewritten, PmmStep
    <3>. QED  BY <1>0, <1>3, <3>1 DEF Up, UnitOf
  <2>2. \A i \in Node : IsUp(i)' /\ i <= cur
    BY <1>0, <1>3 DEF IsUp, PmmStep
  <2>. QED  BY <1>0, <1>3, <2>1, <2>2 DEF Loop, InLoop, PmmStep
<1>4. CASE cur = conf.size /\ conf.size = 1 /\ main' = "created"
  <2>1. ASSUME NEW i \in Node PROVE Up(i)'
    <3>1. (Rewritten(i)' <=> conf.pmm) /\ i <= cur
      BY <1>0, <1>4 DEF Rewritten, PmmStep
    <3>. QED  BY <1>0, <1>4, <3>1 DEF Up, UnitOf
  <2>2. \A i \in Node : IsUp(i)' /\ i <= cur
    BY <1>0, <1>4 DEF IsUp, PmmStep
  <2>. QED  BY <1>0, <1>4, <2>1, <2>2 DEF Loop, InLoop, PmmStep
<1>. QED  BY <1>0, <1>2, <1>3, <1>4 DEF NextNode, Advance

LEMMA StartedIs ==
  ASSUME TypeOK, NEW i \in Node, NEW unit, NEW c, NEW new, new = Started(i, unit, c)
  PROVE  /\ \A j \in Node \ {i} : new[j] = server[j]
         /\ new[i].repo = server[i].repo /\ new[i].version = server[i].version
         /\ new[i].file = server[i].file /\ new[i].loaded = server[i].file
         /\ new[i].unit = unit /\ new[i].member = c /\ new[i].has = Inherited(i, c)
  BY DEF TypeOK, Started, Server

\* A server that joins keeps what the members have as well.
LEMMA InheritedHas ==
  ASSUME NEW i \in Node, NEW c, NEW part \in server[i].has,
         \A j \in Node : server[j].member = c /\ c # 0 => part \in server[j].has
  PROVE  part \in Inherited(i, c)
  BY DEF Inherited

LEMMA WithIs ==
  ASSUME TypeOK, NEW i \in Node, NEW part, NEW new, new = With(i, part)
  PROVE  /\ \A j \in Node :
              /\ new[j].repo = server[j].repo /\ new[j].version = server[j].version
              /\ new[j].file = server[j].file /\ new[j].loaded = server[j].loaded
              /\ new[j].unit = server[j].unit /\ new[j].member = server[j].member
              /\ server[j].has \subseteq new[j].has
         /\ part \in new[i].has
  BY DEF TypeOK, With, Server

LEMMA SerialShape ==
  ASSUME NEW step, NEW i, NEW may, NEW new, NEW ACTION ok, Serial(step, i, may, new, ok)
  PROVE  /\ main = step /\ MainOnly /\ UNCHANGED node
         /\ \/ ok /\ server' = new /\ may /\ UNCHANGED faults
            \/ /\ main' = "failed" /\ (server' = server \/ server' = new)
               /\ UNCHANGED faults \/ faults' = faults \cup {<<step, i>>}
  BY DEF Serial, Try, Refused, Fault, Fail

\* A command after the goroutines ended fails.
LEMMA FailStep ==
  ASSUME ClusterInv, InLoop, MainOnly, main' = "failed", UNCHANGED node,
         \A i \in Node : server'[i].version = server[i].version /\ server'[i].repo = server[i].repo,
         Members', NEW f, f[1] \notin {"setup", "configure"},
         UNCHANGED faults \/ faults' = faults \cup {f}
  PROVE  Cluster'
<1>1. \A i \in Node : node[i] = "done"
  BY DEF ClusterInv, Cluster, Places
<1>. QED  BY <1>1, FailCluster

\* Nodes are members exactly when the loop has passed them.
LEMMA LoopFacts ==
  ASSUME ClusterInv, InLoop
  PROVE  /\ \A i \in Node : IF IsUp(i) THEN Up(i) ELSE Down(i)
         /\ \A i \in Node : server[i].member = 1 => IsUp(i) /\ "root" \in server[i].has
         /\ \A i \in Node : Finished(i) /\ conf.pmm => Part \subseteq server[i].has
         /\ \A i \in Node : server[i].member \in {0, 1}
  BY DEF ClusterInv, Cluster, Loop, Members, Up, Down, Joined

LEMMA StartNodeCluster ==
  ASSUME ClusterInv, TypeOK', StartNode PROVE Cluster'
<1>0. /\ main = "start" /\ InLoop /\ MainOnly /\ UNCHANGED node /\ TypeOK /\ cur \in Node /\ 1 \in Node
      /\ conf' = conf /\ Node' = Node /\ \A i \in Node : i \in Nat /\ 1 <= i
  BY NodeIsNat DEF StartNode, InLoop, ClusterInv, TypeOK, Node, MainOnly
<1>1. Down(cur) /\ Waiting(cur)
  BY <1>0, LoopFacts DEF IsUp, PmmStep, Down, Waiting, Fresh
<1>. PICK new : new = Started(cur, UnitOf(cur), 1)
  OBVIOUS
<1>2. ASSUME server[cur].version # None PROVE Clusters(cur, UnitOf(cur)) = {1}
  <2>1. "cluster" \in server[cur].file
    BY <1>1, <1>2 DEF Down, Ready, Setup
  <2>2. CASE cur = 1
    BY <2>1, <2>2 DEF Clusters, UnitOf
  <2>3. CASE cur # 1
    <3>1. server[1].member = 1
      BY <1>0, <2>3, LoopFacts DEF IsUp, Up, Joined
    <3>2. {server[j].member : j \in Node \ {cur}} \ {0} = {1}
      BY <1>0, <2>3, <3>1, LoopFacts
    <3>3. UnitOf(cur) = "mysql"
      BY <2>3 DEF UnitOf
    <3>. QED  BY <2>1, <3>2, <3>3 DEF Clusters
  <2>. QED  BY <2>2, <2>3
<1>3. \/ /\ IF conf.pmm THEN Advance("pmmUser", cur) ELSE NextNode
         /\ server' = new /\ server[cur].version # None /\ UNCHANGED faults
      \/ /\ main' = "failed"
         /\ server' = server \/ (server' = new /\ server[cur].version # None)
         /\ UNCHANGED faults \/ faults' = faults \cup {<<"start", cur>>}
  BY <1>2 DEF StartNode, TryStart, Try, Refused, Fault, Fail
<1>4. /\ \A j \in Node \ {cur} : new[j] = server[j]
      /\ new[cur].repo = server[cur].repo /\ new[cur].version = server[cur].version
      /\ new[cur].file = server[cur].file /\ new[cur].loaded = server[cur].file
      /\ new[cur].unit = UnitOf(cur) /\ new[cur].member = 1 /\ new[cur].has = Inherited(cur, 1)
  BY <1>0, StartedIs
<1>5. \A j \in Node : server'[j].version = server[j].version /\ server'[j].repo = server[j].repo
  BY <1>3, <1>4
<1>6. Members'
  BY <1>0, <1>3, <1>4 DEF Members, ClusterInv, Cluster
<1>7. CASE main' = "failed"
  <2>1. UNCHANGED faults \/ faults' = faults \cup {<<"start", cur>>}
    BY <1>3
  <2>. QED  BY <1>0, <1>5, <1>6, <1>7, <2>1, FailStep
<1>8. CASE /\ IF conf.pmm THEN Advance("pmmUser", cur) ELSE NextNode
           /\ server' = new /\ server[cur].version # None /\ UNCHANGED faults
  <2>1. "root" \in server[cur].has /\ Setup \subseteq server[cur].file /\ "pmm" \notin server[cur].file
    BY <1>0, <1>1, <1>8 DEF Down, Ready
  <2>2. "root" \in Inherited(cur, 1)
    BY <1>0, <2>1, LoopFacts, InheritedHas
  <2>3. ASSUME NEW i \in Node, i = cur
        PROVE  Joined(i, UnitOf(i), {})' /\ "pmm" \notin server'[i].loaded
    BY <1>0, <1>4, <1>8, <2>1, <2>2, <2>3 DEF Joined, Setup, UnitOf
  <2>4. ASSUME NEW i \in Node, i < cur
        PROVE  /\ Joined(i, UnitOf(i), IF conf.pmm THEN {"pmm"} ELSE {})'
               /\ "pmm" \notin server'[i].loaded
               /\ conf.pmm => Part \subseteq server'[i].has
    <3>1. Up(i) /\ (conf.pmm => Part \subseteq server[i].has) /\ server'[i] = server[i]
      BY <1>0, <1>4, <1>8, <2>4, LoopFacts DEF IsUp, Finished
    <3>2. Rewritten(i) <=> conf.pmm
      BY <1>0, <2>4 DEF Rewritten
    <3>. QED  BY <1>0, <3>1, <3>2 DEF Up, Joined, UnitOf, Setup
  <2>5. ASSUME NEW i \in Node, i > cur PROVE Waiting(i)'
    <3>1. Down(i) /\ server'[i] = server[i]
      BY <1>0, <1>4, <1>8, <2>5, LoopFacts DEF IsUp, PmmStep
    <3>. QED  BY <1>0, <3>1 DEF Down, Waiting, Fresh, Ready, Setup
  <2>6. \A i \in Node : i < cur \/ i = cur \/ i > cur
    BY <1>0
  <2>7. CASE conf.pmm /\ main' = "pmmUser" /\ cur' = cur
    <3>1. ASSUME NEW i \in Node, i < cur PROVE IsUp(i)' /\ Up(i)'
      <4>1. Rewritten(i)'
        BY <1>0, <2>7, <3>1 DEF Rewritten
      <4>. QED  BY <1>0, <2>4, <2>7, <3>1, <4>1 DEF IsUp, PmmStep, Up, UnitOf
    <3>2. ASSUME NEW i \in Node, i = cur PROVE IsUp(i)' /\ Up(i)'
      <4>1. ~(Rewritten(i)')
        BY <1>0, <2>7, <3>2 DEF Rewritten
      <4>. QED  BY <1>0, <2>3, <2>7, <3>2, <4>1 DEF IsUp, PmmStep, Up, UnitOf
    <3>3. ASSUME NEW i \in Node, i > cur PROVE ~(IsUp(i)') /\ Down(i)'
      BY <1>0, <2>5, <2>7, <3>3 DEF IsUp, PmmStep, Waiting, Fresh, Down
    <3>4. \A i \in Node : Finished(i)' => i < cur
      BY <1>0, <2>7 DEF Finished, PmmStep
    <3>5. Loop'
      BY <1>0, <2>4, <2>6, <2>7, <3>1, <3>2, <3>3, <3>4 DEF Loop, PmmStep
    <3>6. InLoop'
      BY <2>7 DEF InLoop, PmmStep
    <3>. QED  BY <1>0, <1>5, <1>6, <1>8, <3>5, <3>6, LoopStep
  <2>8. CASE ~conf.pmm /\ NextNode
    <3>1. ASSUME NEW i \in Node, i <= cur
          PROVE  /\ Joined(i, UnitOf(i), IF conf.pmm THEN {"pmm"} ELSE {})'
                 /\ "pmm" \notin server'[i].loaded
                 /\ conf.pmm => Part \subseteq server'[i].has
      <4>1. CASE i = cur
        BY <1>0, <2>3, <2>8, <4>1
      <4>2. CASE i < cur
        BY <2>4, <4>2
      <4>. QED  BY <1>0, <3>1, <4>1, <4>2
    <3>2. InLoop' /\ Loop'
      BY <1>0, <2>5, <2>8, <3>1, NextNodeLoop
    <3>. QED  BY <1>0, <1>5, <1>6, <1>8, <3>2, LoopStep
  <2>. QED  BY <1>8, <2>7, <2>8 DEF Advance
<1>. QED  BY <1>3, <1>7, <1>8

\* The steps that register the node with PMM: its server knows more, and the
\* settings for PMM are in its files from the third one on.
LEMMA PmmCluster ==
  ASSUME ClusterInv, TypeOK', NEW step \in PmmStep, main = step, MainOnly, UNCHANGED node,
         \A j \in Node :
           /\ server'[j].repo = server[j].repo /\ server'[j].version = server[j].version
           /\ server'[j].unit = server[j].unit /\ server'[j].member = server[j].member
           /\ server'[j].loaded = server[j].loaded
           /\ server[j].has \subseteq server'[j].has,
         NEW file,
         \A j \in Node : server'[j].file = IF j = cur THEN file ELSE server[j].file,
         file = server[cur].file \cup (IF step = "pmmEdit" THEN {"pmm"} ELSE {})
           \/ main' = "failed",
         \/ /\ main' = "failed"
            /\ UNCHANGED faults \/ faults' = faults \cup {<<step, cur>>}
         \/ /\ UNCHANGED <<cur, faults>>
            /\ <<step, main'>> \in {<<"pmmUser", "pmmClient">>, <<"pmmClient", "pmmEdit">>,
                                    <<"pmmEdit", "pmmService">>}
         \/ UNCHANGED faults /\ step = "pmmService" /\ NextNode /\ Part \subseteq server'[cur].has
  PROVE  Cluster'
<1>0. /\ InLoop /\ TypeOK /\ cur \in Node /\ Node' = Node /\ conf' = conf /\ conf.pmm
      /\ \A i \in Node : i \in Nat /\ (i < cur \/ i = cur \/ i > cur)
  BY NodeIsNat DEF InLoop, ClusterInv, Cluster, Loop, TypeOK, MainOnly, Node
<1>1. \A j \in Node : server'[j].version = server[j].version /\ server'[j].repo = server[j].repo
  OBVIOUS
<1>2. Members'
  BY <1>0 DEF Members, ClusterInv, Cluster
<1>3. CASE /\ main' = "failed"
           /\ UNCHANGED faults \/ faults' = faults \cup {<<step, cur>>}
  <2>1. <<step, cur>>[1] \notin {"setup", "configure"}
    BY DEF PmmStep
  <2>. QED  BY <1>0, <1>1, <1>2, <1>3, <2>1, FailStep
<1>4. CASE /\ UNCHANGED <<cur, faults>>
           /\ <<step, main'>> \in {<<"pmmUser", "pmmClient">>, <<"pmmClient", "pmmEdit">>,
                                   <<"pmmEdit", "pmmService">>}
  <2>0. /\ main \in {"pmmUser", "pmmClient", "pmmEdit"} /\ main' \in PmmStep
        /\ main' = "pmmService" <=> step = "pmmEdit"
        /\ main' # "failed" /\ main' # "startFirst" /\ main' # "created"
    BY <1>4 DEF PmmStep
  <2>1. ASSUME NEW i \in Node, i < cur PROVE IsUp(i)' /\ Up(i)'
    <3>1. Rewritten(i) /\ Rewritten(i)'
      BY <1>0, <1>4, <2>0, <2>1 DEF Rewritten, PmmStep
    <3>2. Up(i) /\ server'[i].file = server[i].file
      BY <1>0, <2>0, <2>1, LoopFacts DEF IsUp, PmmStep
    <3>. QED  BY <1>0, <1>4, <2>0, <2>1, <3>1, <3>2 DEF IsUp, Up, Joined, Setup
  <2>2. ASSUME NEW i \in Node, i = cur PROVE IsUp(i)' /\ Up(i)'
    <3>1. ~Rewritten(i) /\ (Rewritten(i)' <=> step = "pmmEdit")
      BY <1>0, <1>4, <2>0, <2>2 DEF Rewritten, PmmStep
    <3>2. /\ Up(i)
          /\ server'[i].file = server[i].file \cup (IF step = "pmmEdit" THEN {"pmm"} ELSE {})
      BY <1>0, <2>0, <2>2, LoopFacts DEF IsUp, PmmStep
    <3>3. "pmm" \notin server[i].loaded /\ server[i].file \ server[i].loaded = {}
      BY <2>0, <3>1, <3>2 DEF Up, Joined
    <3>4. server'[i].file \ server'[i].loaded = IF step = "pmmEdit" THEN {"pmm"} ELSE {}
      BY <3>2, <3>3
    <3>. QED  BY <1>0, <1>4, <2>0, <2>2, <3>1, <3>2, <3>3, <3>4 DEF IsUp, Up, Joined, Setup
  <2>3. ASSUME NEW i \in Node, i > cur PROVE ~(IsUp(i)') /\ Down(i)'
    <3>1. Down(i) /\ server'[i].file = server[i].file
      BY <1>0, <2>0, <2>3, LoopFacts DEF IsUp, PmmStep
    <3>. QED  BY <1>0, <1>4, <2>0, <2>3, <3>1 DEF IsUp, PmmStep, Down, Ready, Setup
  <2>4. \A i \in Node : Finished(i)' => Part \subseteq server'[i].has
    <3>1. \A i \in Node : Finished(i)' => Finished(i)
      BY <1>4, <2>0 DEF Finished, PmmStep
    <3>. QED  BY <1>0, <3>1, LoopFacts
  <2>5. Loop' /\ InLoop'
    BY <1>0, <2>0, <2>1, <2>2, <2>3, <2>4 DEF Loop, InLoop, PmmStep
  <2>. QED  BY <1>0, <1>1, <1>2, <1>4, <2>5, LoopStep
<1>5. CASE UNCHANGED faults /\ step = "pmmService" /\ NextNode /\ Part \subseteq server'[cur].has
  <2>0. main' # "failed" /\ file = server[cur].file
    BY <1>5 DEF NextNode, Advance
  <2>1. ASSUME NEW i \in Node, i <= cur
        PROVE  /\ Joined(i, UnitOf(i), IF conf.pmm THEN {"pmm"} ELSE {})'
               /\ "pmm" \notin server'[i].loaded
               /\ conf.pmm => Part \subseteq server'[i].has
    <3>1. Up(i) /\ Rewritten(i) /\ server'[i].file = server[i].file
      BY <1>0, <1>5, <2>0, <2>1, LoopFacts DEF IsUp, PmmStep, Rewritten
    <3>2. Part \subseteq server'[i].has
      <4>1. CASE i = cur
        BY <1>5, <4>1
      <4>2. CASE i < cur
        BY <1>0, <1>5, <4>2, LoopFacts DEF Finished, PmmStep
      <4>. QED  BY <1>0, <2>1, <4>1, <4>2
    <3>. QED  BY <1>0, <1>5, <3>1, <3>2 DEF Up, Joined, UnitOf, Setup
  <2>2. ASSUME NEW i \in Node, i > cur PROVE Waiting(i)'
    <3>1. Down(i) /\ server'[i].file = server[i].file
      BY <1>0, <1>5, <2>0, <2>2, LoopFacts DEF IsUp, PmmStep
    <3>. QED  BY <1>0, <1>5, <3>1 DEF Down, Waiting, Fresh, Ready, Setup
  <2>3. InLoop' /\ Loop'
    BY <1>0, <1>5, <2>1, <2>2, NextNodeLoop
  <2>. QED  BY <1>0, <1>1, <1>2, <1>5, <2>3, LoopStep
<1>. QED  BY <1>3, <1>4, <1>5

LEMMA PmmStepsCluster ==
  ASSUME ClusterInv, TypeOK',
         CreatePMMUser \/ InstallPMMClient \/ SetSlowLog \/ AddServiceToPMM
  PROVE  Cluster'
<1>0. TypeOK /\ cur \in Node /\ \A j \in Node : server[j].has \subseteq Part
  BY DEF ClusterInv, TypeOK, Server
<1>. DEFINE Same(new, file) ==
              \A j \in Node :
                /\ new[j].repo = server[j].repo /\ new[j].version = server[j].version
                /\ new[j].unit = server[j].unit /\ new[j].member = server[j].member
                /\ new[j].loaded = server[j].loaded
                /\ server[j].has \subseteq new[j].has
                /\ new[j].file = IF j = cur THEN file ELSE server[j].file
<1>1. CASE CreatePMMUser
  <2>. PICK new : new = With(cur, "pmmUser")
    OBVIOUS
  <2>1. Same(new, server[cur].file) /\ Same(server, server[cur].file)
    BY <1>0, WithIs
  <2>2. /\ main = "pmmUser" /\ MainOnly /\ UNCHANGED node
        /\ \/ Advance("pmmClient", cur) /\ server' = new /\ UNCHANGED faults
           \/ /\ main' = "failed" /\ (server' = server \/ server' = new)
              /\ UNCHANGED faults \/ faults' = faults \cup {<<"pmmUser", cur>>}
    BY <1>1, SerialShape DEF CreatePMMUser
  <2>. QED  BY <2>1, <2>2, PmmCluster DEF PmmStep, Advance
<1>2. CASE InstallPMMClient
  <2>. PICK new : new = With(cur, "pmmClient")
    OBVIOUS
  <2>1. Same(new, server[cur].file) /\ Same(server, server[cur].file)
    BY <1>0, WithIs
  <2>2. /\ main = "pmmClient" /\ MainOnly /\ UNCHANGED node
        /\ \/ Advance("pmmEdit", cur) /\ server' = new /\ UNCHANGED faults
           \/ /\ main' = "failed" /\ (server' = server \/ server' = new)
              /\ UNCHANGED faults \/ faults' = faults \cup {<<"pmmClient", cur>>}
    BY <1>2 DEF InstallPMMClient, Serial, Try, Refused, Fault, Fail
  <2>. QED  BY <2>1, <2>2, PmmCluster DEF PmmStep, Advance
<1>3. CASE SetSlowLog
  <2>. PICK new : new = Edited(cur, "pmm")
    OBVIOUS
  <2>1. Same(new, server[cur].file \cup {"pmm"}) /\ Same(server, server[cur].file)
    BY <1>0 DEF Edited, TypeOK, Server
  <2>2. /\ main = "pmmEdit" /\ MainOnly /\ UNCHANGED node
        /\ \/ Advance("pmmService", cur) /\ server' = new /\ UNCHANGED faults
           \/ /\ main' = "failed" /\ (server' = server \/ server' = new)
              /\ UNCHANGED faults \/ faults' = faults \cup {<<"pmmEdit", cur>>}
    BY <1>3 DEF SetSlowLog, Serial, Try, Refused, Fault, Fail
  <2>. QED  BY <2>1, <2>2, PmmCluster DEF PmmStep, Advance
<1>4. CASE AddServiceToPMM
  <2>. PICK new : new = With(cur, "pmmService")
    OBVIOUS
  <2>1. Same(new, server[cur].file) /\ Same(server, server[cur].file)
    BY <1>0, WithIs
  <2>2. /\ main = "pmmService" /\ MainOnly /\ UNCHANGED node
        /\ \/ /\ NextNode /\ server' = new /\ UNCHANGED faults
              /\ {"root", "pmmUser", "pmmClient"} \subseteq server[cur].has
           \/ /\ main' = "failed" /\ (server' = server \/ server' = new)
              /\ UNCHANGED faults \/ faults' = faults \cup {<<"pmmService", cur>>}
    BY <1>4 DEF AddServiceToPMM, Sql, Serial, Try, Refused, Fault, Fail
  <2>3. "pmmService" \in new[cur].has /\ server[cur].has \subseteq new[cur].has
    BY <1>0, WithIs
  <2>4. {"root", "pmmUser", "pmmClient"} \subseteq server[cur].has => Part \subseteq new[cur].has
    BY <2>3 DEF Part, User
  <2>. QED  BY <2>1, <2>2, <2>4, PmmCluster DEF PmmStep
<1>. QED  BY <1>1, <1>2, <1>3, <1>4

LEMMA StopFirstCluster ==
  ASSUME ClusterInv, TypeOK', StopFirst PROVE Cluster'
<1>. PICK new : new = Stopped(1)
  OBVIOUS
<1>0. /\ main = "stopFirst" /\ InLoop /\ MainOnly /\ UNCHANGED node /\ TypeOK /\ 1 \in Node
      /\ conf' = conf /\ Node' = Node /\ conf.size > 1 /\ \A i \in Node : i \in Nat
      /\ \/ Advance("startFirst", 1) /\ server' = new /\ UNCHANGED faults
         \/ /\ main' = "failed" /\ (server' = server \/ server' = new)
            /\ UNCHANGED faults \/ faults' = faults \cup {<<"stopFirst", 1>>}
  <2>1. /\ main = "stopFirst" /\ MainOnly /\ UNCHANGED node
        /\ \/ Advance("startFirst", 1) /\ server' = new /\ UNCHANGED faults
           \/ /\ main' = "failed" /\ (server' = server \/ server' = new)
              /\ UNCHANGED faults \/ faults' = faults \cup {<<"stopFirst", 1>>}
    BY DEF StopFirst, Serial, Try, Refused, Fault, Fail
  <2>2. TypeOK /\ 1 \in Node /\ InLoop /\ conf.size > 1 /\ \A i \in Node : i \in Nat
    BY <2>1, NodeIsNat DEF InLoop, ClusterInv, Cluster, Loop, Node
  <2>. QED  BY <2>1, <2>2 DEF MainOnly, Node
<1>1. /\ \A j \in Node \ {1} : new[j] = server[j]
      /\ new[1].repo = server[1].repo /\ new[1].version = server[1].version
      /\ new[1].file = server[1].file /\ new[1].loaded = {}
      /\ new[1].unit = "none" /\ new[1].member = 0 /\ new[1].has = server[1].has
  BY <1>0 DEF TypeOK, Stopped, Server
<1>2. \A j \in Node : server'[j].version = server[j].version /\ server'[j].repo = server[j].repo
  BY <1>0, <1>1
<1>3. Members'
  BY <1>0, <1>1 DEF Members, ClusterInv, Cluster
<1>4. CASE main' = "failed"
  <2>1. UNCHANGED faults \/ faults' = faults \cup {<<"stopFirst", 1>>}
    BY <1>0
  <2>. QED  BY <1>0, <1>2, <1>3, <1>4, <2>1, FailStep
<1>5. CASE main' = "startFirst" /\ server' = new /\ UNCHANGED faults
  <2>1. ASSUME NEW i \in Node, i # 1 PROVE IsUp(i)' /\ Up(i)'
    <3>1. Up(i) /\ (Rewritten(i)' <=> Rewritten(i)) /\ server'[i] = server[i]
      BY <1>0, <1>1, <1>5, <2>1, LoopFacts DEF IsUp, Rewritten
    <3>. QED  BY <1>0, <1>5, <2>1, <3>1 DEF IsUp, PmmStep, Up, Joined, Setup
  <2>2. ASSUME NEW i \in Node, i = 1 PROVE ~(IsUp(i)') /\ Down(i)'
    <3>1. Up(i)
      BY <1>0, LoopFacts DEF IsUp
    <3>. QED  BY <1>0, <1>1, <1>5, <2>2, <3>1 DEF IsUp, PmmStep, Up, Joined, Down, Ready, Setup
  <2>3. \A i \in Node : conf.pmm => Part \subseteq server'[i].has
    BY <1>0, <1>1, <1>5, LoopFacts DEF Finished
  <2>4. Loop' /\ InLoop'
    BY <1>0, <1>5, <2>1, <2>2, <2>3 DEF Loop, InLoop, PmmStep
  <2>. QED  BY <1>0, <1>2, <1>3, <1>5, <2>4, LoopStep
<1>. QED  BY <1>0, <1>4, <1>5 DEF Advance

LEMMA StartFirstCluster ==
  ASSUME ClusterInv, TypeOK', StartFirst PROVE Cluster'
<1>. PICK new : new = Started(1, "mysql", 1)
  OBVIOUS
<1>0. /\ main = "startFirst" /\ InLoop /\ MainOnly /\ UNCHANGED node /\ TypeOK
      /\ 1 \in Node /\ 2 \in Node
      /\ conf' = conf /\ Node' = Node /\ conf.size > 1 /\ \A i \in Node : i \in Nat /\ i >= 1
  <2>1. main = "startFirst" /\ MainOnly /\ UNCHANGED node
    BY DEF StartFirst
  <2>2. TypeOK /\ InLoop /\ conf.size > 1
    BY <2>1 DEF InLoop, ClusterInv, Cluster, Loop
  <2>3. 1 \in Node /\ 2 \in Node /\ \A i \in Node : i \in Nat /\ i >= 1
    BY <2>2, NodeIsNat DEF Node
  <2>. QED  BY <2>1, <2>2, <2>3 DEF MainOnly, Node
<1>1. Down(1)
  BY <1>0, LoopFacts DEF IsUp, PmmStep
<1>2. ASSUME server[1].version # None PROVE Clusters(1, "mysql") = {1}
  <2>1. "cluster" \in server[1].file
    BY <1>1, <1>2 DEF Down, Ready, Setup
  <2>2. server[2].member = 1
    BY <1>0, LoopFacts DEF IsUp, Up, Joined
  <2>3. {server[j].member : j \in Node \ {1}} \ {0} = {1}
    BY <1>0, <2>2, LoopFacts
  <2>. QED  BY <2>1, <2>3 DEF Clusters
<1>3. \/ /\ main' = "created"
         /\ server' = new /\ server[1].version # None /\ UNCHANGED faults
      \/ /\ main' = "failed"
         /\ server' = server \/ (server' = new /\ server[1].version # None)
         /\ UNCHANGED faults \/ faults' = faults \cup {<<"startFirst", 1>>}
  BY <1>2 DEF StartFirst, TryStart, Try, Refused, Fault, Fail, Advance
<1>4. /\ \A j \in Node \ {1} : new[j] = server[j]
      /\ new[1].repo = server[1].repo /\ new[1].version = server[1].version
      /\ new[1].file = server[1].file /\ new[1].loaded = server[1].file
      /\ new[1].unit = "mysql" /\ new[1].member = 1 /\ new[1].has = Inherited(1, 1)
  BY <1>0, StartedIs
<1>5. \A j \in Node : server'[j].version = server[j].version /\ server'[j].repo = server[j].repo
  BY <1>3, <1>4
<1>6. Members'
  BY <1>0, <1>3, <1>4 DEF Members, ClusterInv, Cluster
<1>7. CASE main' = "failed"
  <2>1. UNCHANGED faults \/ faults' = faults \cup {<<"startFirst", 1>>}
    BY <1>3
  <2>. QED  BY <1>0, <1>5, <1>6, <1>7, <2>1, FailStep
<1>8. CASE /\ main' = "created"
           /\ server' = new /\ server[1].version # None /\ UNCHANGED faults
  <2>1. "root" \in server[1].has /\ Setup \subseteq server[1].file
    BY <1>1, <1>8 DEF Down, Ready
  <2>2. "root" \in Inherited(1, 1)
    BY <1>0, <2>1, LoopFacts, InheritedHas
  <2>3. ASSUME conf.pmm PROVE Part \subseteq Inherited(1, 1)
    <3>1. \A j \in Node : Part \subseteq server[j].has
      BY <1>0, <2>3, LoopFacts DEF Finished
    <3>. QED  BY <1>0, <3>1, InheritedHas
  <2>4. ASSUME NEW i \in Node, i # 1 PROVE IsUp(i)' /\ Up(i)'
    <3>1. Up(i) /\ (Rewritten(i)' <=> Rewritten(i)) /\ server'[i] = server[i]
      BY <1>0, <1>4, <1>8, <2>4, LoopFacts DEF IsUp, Rewritten
    <3>. QED  BY <1>0, <1>8, <2>4, <3>1 DEF IsUp, PmmStep, Up, Joined, Setup
  <2>5. ASSUME NEW i \in Node, i = 1 PROVE IsUp(i)' /\ Up(i)'
    <3>1. ~(Rewritten(i)')
      BY <1>0, <1>8, <2>5 DEF Rewritten
    <3>. QED  BY <1>0, <1>4, <1>8, <2>1, <2>2, <2>5, <3>1 DEF IsUp, Up, Joined, Setup
  <2>6. \A i \in Node : conf.pmm => Part \subseteq server'[i].has
    BY <1>0, <1>4, <1>8, <2>3, LoopFacts DEF Finished
  <2>7. Loop' /\ InLoop'
    BY <1>0, <1>8, <2>4, <2>5, <2>6 DEF Loop, InLoop, PmmStep
  <2>. QED  BY <1>0, <1>5, <1>6, <1>8, <2>7, LoopStep
<1>. QED  BY <1>3, <1>7, <1>8

LEMMA NextCluster == ASSUME ClusterInv, [Next]_vars PROVE ClusterInv'
<1>1. TypeOK'
  BY NextType DEF ClusterInv
<1>2. CASE UNCHANGED vars
  <2>1. Node' = Node
    BY <1>2 DEF vars, Node
  <2>. QED  BY <1>1, <1>2, <2>1 DEF vars, ClusterInv, Cluster, Places, InLoop, BeforeLoop, Fresh, Done,
       Ready, Setup, Repositories, Members, Loop, IsUp, Finished, Rewritten, Up, Down, Joined, Faults,
       NodesCancelled
<1>3. CASE Next
  BY <1>1, <1>3, NodeCluster, CreateInstancesCluster, JoinNodesCluster, StartNodeCluster,
     PmmStepsCluster, StopFirstCluster, StartFirstCluster DEF Next, MainNext, ClusterInv
<1>. QED  BY <1>2, <1>3

LEMMA ClusterCorrect == Spec => []ClusterInv
<1>1. Init => ClusterInv
  BY InitType, InitCluster DEF ClusterInv
<1>. QED  BY <1>1, NextCluster, PTL DEF Spec

\* What the invariant says of a Create that succeeded.
LEMMA CreatedFacts ==
  ASSUME ClusterInv, main = "created"
  PROVE  /\ \A i \in Node : Up(i) /\ (conf.pmm => Part \subseteq server[i].has)
         /\ \A i \in Node : Rewritten(i) <=> conf.pmm /\ (i > 1 \/ conf.size = 1)
         /\ \A i \in Node : i \in Nat /\ i >= 1 /\ (conf.size = 1 => i = 1)
         /\ ~NodesCancelled
<1>1. InLoop
  BY DEF InLoop
<1>2. \A i \in Node : IsUp(i) /\ Finished(i)
  BY DEF IsUp, Finished
<1>3. \A i \in Node : i \in Nat /\ i >= 1 /\ (conf.size = 1 => i = 1)
  BY NodeIsNat DEF ClusterInv, Node
<1>4. ~NodesCancelled
  BY <1>1 DEF ClusterInv, Cluster, Places, NodesCancelled
<1>. QED  BY <1>1, <1>2, <1>3, <1>4, LoopFacts DEF Rewritten

\* There is never more than one cluster: whoever runs with the settings of the
\* cluster is in the one that the first node founded, and when Create succeeds
\* every node is in it, as one that would not found another.  (manager.go:95-154)
THEOREM OneClusterCorrect == Spec => []OneCluster
<1>1. ClusterInv => OneCluster
  <2>. SUFFICES ASSUME ClusterInv PROVE OneCluster
    OBVIOUS
  <2>1. ASSUME main = "created", NEW i \in Node
        PROVE  /\ server[i].member = 1
               /\ server[i].unit = IF conf.size = 1 THEN "bootstrap" ELSE "mysql"
    BY <2>1, CreatedFacts DEF Up, Joined
  <2>. QED  BY <2>1 DEF OneCluster, ClusterInv, Cluster, Members
<1>. QED  BY <1>1, ClusterCorrect, PTL

\* When Create succeeds every node runs with the settings of the cluster and of
\* the user, and just those for PMM may be missing.  (manager.go:95-154)
THEOREM SettingsCorrect == Spec => []SettingsInForce
<1>1. ClusterInv => SettingsInForce
  <2>. SUFFICES ASSUME ClusterInv, main = "created", NEW i \in Node
                PROVE  /\ "cluster" \in server[i].loaded
                       /\ conf.custom => "custom" \in server[i].loaded
                       /\ server[i].file \ server[i].loaded =
                            IF conf.pmm /\ (i > 1 \/ conf.size = 1) THEN {"pmm"} ELSE {}
    BY DEF SettingsInForce
  <2>. QED  BY CreatedFacts DEF Up, Joined, Setup
<1>. QED  BY <1>1, ClusterCorrect, PTL

\* When Create succeeds nothing that was asked for is missing on any node: what a
\* goroutine hides by an error that another one has erased is a node without
\* software, which cannot be started.  (manager.go:68-145)
THEOREM NothingMissingCorrect == Spec => []NothingMissing
<1>1. ClusterInv => NothingMissing
  <2>. SUFFICES ASSUME ClusterInv, main = "created", NEW i \in Node
                PROVE  {"root"} \cup (IF conf.pmm THEN Part ELSE {}) \subseteq server[i].has
    BY DEF NothingMissing
  <2>. QED  BY CreatedFacts DEF Up, Joined
<1>. QED  BY <1>1, ClusterCorrect, PTL

\* When Create succeeds, the only commands that failed are scripts of
\* cmd.Configure that had done their work.  (manager.go:71-74, 158-175)
THEOREM ErrorsCorrect == Spec => []OnlyErasedErrorsHide
<1>1. ClusterInv => OnlyErasedErrorsHide
  <2>. SUFFICES ASSUME ClusterInv, main = "created", NEW f \in faults
                PROVE  f[1] = "configure" /\ server[f[2]].repo
    BY DEF OnlyErasedErrorsHide
  <2>1. f[1] \in {"setup", "configure"} /\ f[2] \in Node
    BY CreatedFacts DEF ClusterInv, Cluster, Faults
  <2>2. server[f[2]].version # None /\ server[f[2]].repo
    BY <2>1, CreatedFacts DEF Up, Joined, ClusterInv, Cluster, Repositories
  <2>3. f[1] # "setup"
    BY <2>2 DEF ClusterInv, Cluster, Faults
  <2>. QED  BY <2>1, <2>2, <2>3
<1>. QED  BY <1>1, ClusterCorrect, PTL

\* Only the stop of the first node takes a member out of the cluster, and there
\* are others then.
LEMMA MembersStay ==
  ASSUME ClusterInv, [Next]_vars, NEW m \in Node, server[m].member # 0
  PROVE  \E j \in Node : server'[j].member # 0
<1>0. /\ TypeOK /\ cur \in Node /\ main \notin {"instances", "nodes"}
      /\ \A j \in Node : j \in Nat
  BY NodeIsNat DEF ClusterInv, TypeOK, Cluster, BeforeLoop, Fresh
<1>1. CASE \E i \in Node : NodeNext(i) /\ main # "crashed"
  BY <1>0, <1>1, NodesRun
<1>2. CASE UNCHANGED server
  BY <1>2
<1>3. CASE StartNode
  <2>1. main = "start" /\ (UNCHANGED server \/ \E c : server' = Started(cur, UnitOf(cur), c))
    BY <1>3 DEF StartNode, TryStart, Try
  <2>2. m # cur
    BY <1>0, <2>1, LoopFacts DEF InLoop, IsUp, PmmStep, Down
  <2>. QED  BY <1>0, <2>1, <2>2, StartedIs
<1>4. CASE StartFirst
  <2>1. main = "startFirst" /\ (UNCHANGED server \/ \E c : server' = Started(1, "mysql", c))
    BY <1>4 DEF StartFirst, TryStart, Try
  <2>2. m # 1
    BY <1>0, <2>1, LoopFacts DEF InLoop, IsUp, PmmStep, Down
  <2>3. 1 \in Node
    BY <1>0, NodeIsNat DEF Node
  <2>. QED  BY <1>0, <2>1, <2>2, <2>3, StartedIs
<1>5. CASE CreatePMMUser \/ InstallPMMClient \/ AddServiceToPMM
  <2>1. UNCHANGED server \/ \E part : server' = With(cur, part)
    BY <1>5 DEF CreatePMMUser, InstallPMMClient, AddServiceToPMM, Serial, Try
  <2>. QED  BY <1>0, <2>1, WithIs
<1>6. CASE SetSlowLog
  <2>1. UNCHANGED server \/ server' = Edited(cur, "pmm")
    BY <1>6 DEF SetSlowLog, Serial, Try
  <2>2. \A j \in Node : Edited(cur, "pmm")[j].member = server[j].member
    BY <1>0 DEF Edited, TypeOK, Server
  <2>. QED  BY <2>1, <2>2
<1>7. CASE StopFirst
  <2>1. main = "stopFirst" /\ (UNCHANGED server \/ server' = Stopped(1))
    BY <1>7 DEF StopFirst, Serial, Try
  <2>2. 2 \in Node /\ server[2].member = 1
    <3>1. InLoop /\ conf.size > 1
      BY <2>1 DEF InLoop, ClusterInv, Cluster, Loop
    <3>2. 2 \in Node
      BY <1>0, <3>1, NodeIsNat DEF Node
    <3>. QED  BY <2>1, <3>1, <3>2, LoopFacts DEF IsUp, Up, Joined
  <2>3. Stopped(1)[2] = server[2]
    BY <1>0, <2>2 DEF Stopped, TypeOK
  <2>. QED  BY <2>1, <2>2, <2>3
<1>8. CASE CreateInstances \/ JoinNodes \/ UNCHANGED vars
  BY <1>2, <1>8 DEF CreateInstances, JoinNodes, vars
<1>. QED  BY <1>1, <1>3, <1>4, <1>5, <1>6, <1>7, <1>8 DEF Next, MainNext

\* From the first start as bootstrap on the cluster always has a member, also
\* while the first node is restarted.  (manager.go:147-154)
THEOREM ClusterSurvivesCorrect == Spec => ClusterSurvives
<1>1. ClusterInv /\ [Next]_vars =>
        [(\E i \in Node : server[i].member # 0) => \E i \in Node : server'[i].member # 0]_vars
  BY MembersStay
<1>. QED  BY <1>1, ClusterCorrect, PTL DEF Spec, ClusterSurvives

-----------------------------------------------------------------------------
(* The refinement of ClusterCreation.                                      *)

Same == \A j \in Node : server'[j].member = server[j].member
Changed(i, c) ==
  /\ server'[i].member = c
  /\ \A j \in Node \ {i} : server'[j].member = server[j].member

Moves ==
  Creation!Found \/ (\E i \in 1 .. conf.size : Creation!Join(i) \/ Creation!Leave(i))
  \/ UNCHANGED Membership

LEMMA MovesSame == ASSUME UNCHANGED conf, Same PROVE Moves
  BY DEF Same, Moves, Membership, Node

LEMMA MembershipChanged ==
  ASSUME UNCHANGED conf, NEW i \in Node, NEW c, Changed(i, c)
  PROVE  Membership' = [Membership EXCEPT ![i] = c]
  BY DEF Changed, Membership, Node

LEMMA MembersFound ==
  ASSUME UNCHANGED conf, 1 \in Node, \A j \in Node : server[j].member = 0, Changed(1, 1)
  PROVE  Moves
<1>1. Membership' = [Membership EXCEPT ![1] = 1]
  BY MembershipChanged
<1>. QED  BY <1>1 DEF Moves, Creation!Found, Membership, Node

LEMMA MembersJoin ==
  ASSUME UNCHANGED conf, NEW i \in Node, NEW j \in Node \ {i}, server[i].member = 0,
         server[j].member # 0, Changed(i, server[j].member)
  PROVE  Moves
<1>1. Membership' = [Membership EXCEPT ![i] = Membership[j]]
  BY MembershipChanged DEF Membership
<1>2. Creation!Join(i)
  BY <1>1 DEF Creation!Join, Membership, Node
<1>. QED  BY <1>2 DEF Moves, Node

LEMMA MembersLeave ==
  ASSUME UNCHANGED conf, NEW i \in Node, NEW j \in Node \ {i}, server[j].member # 0,
         Changed(i, 0)
  PROVE  Moves
<1>1. Membership' = [Membership EXCEPT ![i] = 0]
  BY MembershipChanged
<1>2. Creation!Leave(i)
  BY <1>1 DEF Creation!Leave, Membership, Node
<1>. QED  BY <1>2 DEF Moves, Node

\* A node that starts joins what there is, or founds the cluster if it is the first.
LEMMA StartMoves ==
  ASSUME ClusterInv, StartNode \/ StartFirst, UNCHANGED conf
  PROVE  Moves
<1>0. main \in {"start", "startFirst"} /\ InLoop
  BY DEF StartNode, StartFirst, InLoop
<1>00. TypeOK /\ cur \in Node
  BY DEF ClusterInv, TypeOK
<1>01. 1 \in Node /\ Node \subseteq Nat \ {0}
  BY <1>00, NodeIsNat DEF Node
<1> DEFINE i == IF main = "start" THEN cur ELSE 1
           unit == IF main = "start" THEN UnitOf(cur) ELSE "mysql"
<1>1. UNCHANGED server \/ \E c \in Clusters(i, unit) :
                            server[i].version # None /\ server' = Started(i, unit, c)
  BY DEF StartNode, StartFirst, TryStart, Try
<1>2. CASE UNCHANGED server
  BY <1>2, MovesSame DEF Same
<1>3. ASSUME NEW c \in Clusters(i, unit), server[i].version # None,
             server' = Started(i, unit, c)
      PROVE  Moves
  <2>0. i \in Node /\ ~IsUp(i)
    <3>1. CASE main = "start"
      BY <1>00, <1>01, <3>1 DEF IsUp, PmmStep
    <3>2. CASE main = "startFirst"
      BY <1>01, <3>2 DEF IsUp, PmmStep
    <3>. QED  BY <1>0, <3>1, <3>2
  <2>1. server[i].member = 0 /\ "cluster" \in server[i].file
    BY <1>0, <1>3, <2>0, LoopFacts DEF Down, Ready, Setup
  <2>2. Changed(i, c)
    BY <1>00, <1>3, <2>0, StartedIs DEF Changed
  <2>3. CASE unit = "bootstrap"
    <3>1. i = 1 /\ main = "start" /\ c = 1
      BY <1>3, <2>1, <2>3 DEF UnitOf, Clusters
    <3>2. \A j \in Node : ~IsUp(j)
      BY <1>01, <3>1 DEF IsUp, PmmStep
    <3>3. \A j \in Node : server[j].member = 0
      BY <1>0, <3>2, LoopFacts DEF Down
    <3>. QED  BY <1>01, <2>2, <3>1, <3>3, MembersFound
  <2>4. CASE unit # "bootstrap"
    <3>1. PICK j \in Node \ {i} : c = server[j].member /\ c # 0
      BY <1>3, <2>1, <2>4 DEF Clusters
    <3>. QED  BY <2>0, <2>1, <2>2, <3>1, MembersJoin
  <2>. QED  BY <2>3, <2>4
<1>. QED  BY <1>1, <1>2, <1>3

LEMMA StopMoves ==
  ASSUME ClusterInv, StopFirst, UNCHANGED conf
  PROVE  Moves
<1>1. main = "stopFirst" /\ (UNCHANGED server \/ server' = Stopped(1))
  BY DEF StopFirst, Serial, Try
<1>2. TypeOK /\ InLoop /\ conf.size > 1 /\ conf.size \in Nat
  BY <1>1, NodeIsNat DEF InLoop, ClusterInv, Cluster, Loop
<1>3. 1 \in Node /\ 2 \in Node \ {1}
  BY <1>2 DEF Node
<1>4. server[2].member = 1
  BY <1>1, <1>2, <1>3, LoopFacts DEF IsUp, Up, Joined
<1>5. CASE server' = Stopped(1)
  <2>1. Changed(1, 0)
    BY <1>2, <1>3, <1>5 DEF Changed, Stopped, TypeOK, Server
  <2>. QED  BY <1>3, <1>4, <2>1, MembersLeave
<1>. QED  BY <1>1, <1>5, MovesSame DEF Same

LEMMA MembershipMoves ==
  ASSUME ClusterInv, ClusterInv', Next
  PROVE  UNCHANGED conf /\ main \notin Ended /\ Moves
<1>0. /\ TypeOK /\ cur \in Node /\ main # "crashed"
      /\ \A j \in Node : j \in Nat
  BY NodeIsNat DEF ClusterInv, TypeOK, Next
<1>1. ASSUME NEW i \in Node, NodeNext(i) PROVE UNCHANGED conf /\ main \notin Ended /\ Moves
  <2>1. UNCHANGED conf /\ main = "nodes" /\ Fresh(i)
    BY <1>0, <1>1, NodesRun DEF NodeNext, Configure, CheckErr, WrapErr, TornErr, VersionList,
       Pick, Store, TornVersion, InstallPXC, StartAlone, FixRootUser, StopAlone, EditConfig,
       SendConfig, Work, NodeOnly
  <2>2. main' = "nodes" \/ UNCHANGED server
    BY <1>1, <2>1 DEF NodeNext, Configure, CheckErr, WrapErr, TornErr, VersionList,
       Pick, Store, TornVersion, InstallPXC, StartAlone, FixRootUser, StopAlone, EditConfig,
       SendConfig, Work, NodeOnly
  <2>3. Same
    BY <2>1, <2>2 DEF Same, ClusterInv, Cluster, BeforeLoop, Fresh, Node
  <2>. QED  BY <2>1, <2>3, MovesSame DEF Ended
<1>2. ASSUME MainNext PROVE UNCHANGED conf /\ main \notin Ended
  BY <1>2 DEF MainNext, CreateInstances, JoinNodes, StartNode, CreatePMMUser, InstallPMMClient,
     SetSlowLog, AddServiceToPMM, StopFirst, StartFirst, Serial, MainOnly, Ended
<1>3. CASE StartNode \/ StartFirst
  BY <1>2, <1>3, StartMoves DEF MainNext
<1>4. CASE StopFirst
  BY <1>2, <1>4, StopMoves DEF MainNext
<1>5. CASE CreatePMMUser \/ InstallPMMClient \/ AddServiceToPMM
  <2>1. UNCHANGED server \/ \E part : server' = With(cur, part)
    BY <1>5 DEF CreatePMMUser, InstallPMMClient, AddServiceToPMM, Serial, Try
  <2>2. Same
    BY <1>0, <2>1, WithIs DEF Same
  <2>. QED  BY <1>2, <1>5, <2>2, MovesSame DEF MainNext
<1>6. CASE SetSlowLog
  <2>1. UNCHANGED server \/ server' = Edited(cur, "pmm")
    BY <1>6 DEF SetSlowLog, Serial, Try
  <2>2. \A j \in Node : Edited(cur, "pmm")[j].member = server[j].member
    BY <1>0 DEF Edited, TypeOK, Server
  <2>. QED  BY <1>2, <1>6, <2>1, <2>2, MovesSame DEF MainNext, Same
<1>7. CASE CreateInstances \/ JoinNodes
  <2>1. UNCHANGED server
    BY <1>7 DEF CreateInstances, JoinNodes
  <2>. QED  BY <1>2, <1>7, <2>1, MovesSame DEF MainNext, Same
<1>. QED  BY <1>1, <1>2, <1>3, <1>4, <1>5, <1>6, <1>7 DEF Next, MainNext

\* Create ends without an error only when every node is in the cluster.
Returned ==
  \/ Status \in {"creating", "failed"}
  \/ Status = "created" /\ \A i \in 1 .. conf.size : Membership[i] # 0

LEMMA StatusMoves == ClusterInv => Returned
<1>. SUFFICES ASSUME ClusterInv PROVE Returned
  OBVIOUS
<1>1. CASE main = "created"
  <2>1. \A i \in Node : server[i].member = 1
    BY <1>1, CreatedFacts DEF Up, Joined
  <2>. QED  BY <1>1, <2>1 DEF Returned, Status, Membership, Node
<1>. QED  BY <1>1 DEF Returned, Status

\* The Galera cluster of a percona_pxc resource is one that its first node founds,
\* that the others join, that lives on while the first node is restarted, and that
\* is complete when Create succeeds; after Create nothing touches the nodes any
\* more.  (manager.Create, manager.go:54-156)
THEOREM PxcImplementsCreation == Spec => ImplementsCreation
<1>1. Init => Creation!CreationInit
  <2>1. Init => conf.size \in Nat \ {0}
    BY ConfigAssumption DEF Init
  <2>. QED  BY <2>1 DEF Init, Creation!CreationInit, Status, Membership, Node, Blank
<1>2. ClusterInv /\ ClusterInv' /\ Returned' /\ [Next]_vars =>
        [Creation!CreationNext]_(Creation!creationVars)
  <2>1. ASSUME ClusterInv, ClusterInv', Returned', Next PROVE Creation!CreationNext
    <3>1. UNCHANGED conf /\ Status = "creating" /\ Moves
      BY <2>1, MembershipMoves DEF Status, Ended
    <3>. QED  BY <2>1, <3>1 DEF Creation!CreationNext, Moves, Returned
  <2>2. ASSUME UNCHANGED vars PROVE UNCHANGED Creation!creationVars
    BY <2>2 DEF vars, Creation!creationVars, Status, Membership, Node
  <2>. QED  BY <2>1, <2>2
<1>. QED  BY <1>1, <1>2, StatusMoves, ClusterCorrect, PTL
     DEF Spec, ImplementsCreation, Creation!CreationSpec
-----------------------------------------------------------------------------
(* Create ends: every step of it is a step forward.                        *)

StepRank(step) ==
  [idle |-> 0, configure |-> 1, check |-> 2, wrap |-> 3, versions |-> 4, pick |-> 5,
   store |-> 6, install |-> 7, startAlone |-> 8, fixRoot |-> 9, stopAlone |-> 10,
   edit |-> 11, custom |-> 12, done |-> 13, failed |-> 14][step]
NodeRank == [i \in Node |-> StepRank(node[i])]

MainRank ==
  IF main = "instances" THEN 0
  ELSE IF main = "nodes" THEN 1
  ELSE IF main \in PmmStep \cup {"start"}
  THEN 5 * cur + [start |-> 0, pmmUser |-> 1, pmmClient |-> 2, pmmEdit |-> 3, pmmService |-> 4][main]
  ELSE 5 * conf.size + (IF main = "stopFirst" THEN 5 ELSE IF main = "startFirst" THEN 6 ELSE 7)

\* The ranks of everyone are bounded, by the size of the cluster alone.
RanksBounded == NodeRank \in [Node -> 0 .. 14] /\ MainRank \in 0 .. 5 * conf.size + 7

\* Nobody goes back, ...
NoneBack ==
  /\ UNCHANGED conf
  /\ \A i \in Node : NodeRank'[i] >= NodeRank[i]
  /\ MainRank' >= MainRank

\* ... and somebody goes on.
OneOn == (\E i \in Node : NodeRank'[i] > NodeRank[i]) \/ MainRank' > MainRank

Forward == [][NoneBack /\ OneOn]_vars

\* As long as Create has not ended it is at a step of its own, or waits for
\* goroutines one of which is at work, or for nobody any more.
SomebodyRuns ==
  main \notin Ended =>
    \/ main # "nodes"
    \/ \E i \in Node : node[i] \notin {"idle", "done", "failed"}
    \/ \A i \in Node : node[i] \in {"done", "failed"}

LEMMA StepRanks ==
  /\ \A step \in NodeStep : StepRank(step) \in 0 .. 14
  /\ \A step \in NodeStep \ {"failed"} : StepRank("failed") > StepRank(step)
<1>1. ASSUME NEW step \in NodeStep
      PROVE  StepRank(step) \in 0 .. 14 /\ (step # "failed" => StepRank("failed") > StepRank(step))
  BY DEF NodeStep, StepRank
<1>. QED  BY <1>1

\* The goroutine of a node goes to a later step, or takes the process with it.
NodeOn(i) ==
  /\ UNCHANGED <<conf, cur>>
  /\ \/ UNCHANGED main /\ \E s : Go(i, s) /\ StepRank(s) > StepRank(node[i])
     \/ main' = "crashed" /\ UNCHANGED node

LEMMA WorkOn ==
  ASSUME TypeOK, NEW i \in Node, NEW step, NEW may, NEW new, NEW next,
         Work(i, step, may, new, next), step # "failed", StepRank(next) > StepRank(step)
  PROVE  NodeOn(i)
<1>1. node[i] = step /\ step \in NodeStep
  BY WorkShape DEF TypeOK
<1>2. StepRank("failed") > StepRank(step)
  BY <1>1, StepRanks
<1>3. UNCHANGED cur
  BY DEF Work, NodeOnly
<1>. QED  BY <1>1, <1>2, <1>3, WorkShape DEF NodeOn

LEMMA NodeForward ==
  ASSUME ClusterInv, main # "crashed", NEW i \in Node, NodeNext(i)
  PROVE  NodeOn(i)
<1>1. TypeOK
  BY DEF ClusterInv
<1>2. CASE Configure(i)
  <2>1. node[i] = "configure" /\ UNCHANGED <<conf, main, cur>> /\ Go(i, "check")
    BY <1>2 DEF Configure, NodeOnly
  <2>. QED  BY <2>1 DEF NodeOn, StepRank
<1>3. CASE CheckErr(i)
  <2>1. node[i] = "check" /\ UNCHANGED <<conf, main, cur>>
        /\ (Go(i, "versions") \/ Go(i, "wrap") \/ Go(i, "failed"))
    BY <1>3 DEF CheckErr, NodeOnly, Then
  <2>. QED  BY <2>1 DEF NodeOn, StepRank
<1>4. CASE WrapErr(i)
  <2>1. node[i] = "wrap" /\ UNCHANGED <<conf, main, cur>> /\ (Go(i, "done") \/ Go(i, "failed"))
    BY <1>4 DEF WrapErr, NodeOnly
  <2>. QED  BY <2>1 DEF NodeOn, StepRank
<1>5. CASE TornErr(i)
  BY <1>5 DEF TornErr, NodeOn
<1>6. CASE VersionList(i)
  <2>1. StepRank("pick") > StepRank("versions")
    BY DEF StepRank
  <2>. QED  BY <1>1, <1>6, <2>1, WorkOn DEF VersionList
<1>7. CASE Pick(i)
  <2>1. node[i] = "pick" /\ UNCHANGED <<conf, main, cur>> /\ (Go(i, "store") \/ Go(i, "failed"))
    BY <1>7 DEF Pick, NodeOnly
  <2>. QED  BY <2>1 DEF NodeOn, StepRank
<1>8. CASE Store(i)
  <2>1. node[i] = "store" /\ UNCHANGED <<conf, main, cur>> /\ (Go(i, "install") \/ Go(i, "failed"))
    BY <1>8 DEF Store, NodeOnly, Then
  <2>. QED  BY <2>1 DEF NodeOn, StepRank
<1>9. CASE TornVersion(i)
  <2>1. /\ node[i] \in {"pick", "install"} /\ UNCHANGED <<conf, cur>>
        /\ (Go(i, "failed") /\ UNCHANGED main) \/ (main' = "crashed" /\ UNCHANGED node)
    BY <1>9 DEF TornVersion
  <2>2. StepRank("failed") > StepRank(node[i])
    BY <2>1 DEF StepRank
  <2>. QED  BY <2>1, <2>2 DEF NodeOn
<1>10. CASE InstallPXC(i)
  <2>1. StepRank("startAlone") > StepRank("install")
    BY DEF StepRank
  <2>. QED  BY <1>1, <1>10, <2>1, WorkOn DEF InstallPXC
<1>11. CASE StartAlone(i)
  <2>1. node[i] = "startAlone" /\ UNCHANGED <<conf, main, cur>>
        /\ (Go(i, "fixRoot") \/ Go(i, "failed"))
    BY <1>11 DEF StartAlone, TryStart, Try, Then, NodeOnly
  <2>. QED  BY <2>1 DEF NodeOn, StepRank
<1>12. CASE FixRootUser(i)
  <2>1. StepRank("stopAlone") > StepRank("fixRoot")
    BY DEF StepRank
  <2>. QED  BY <1>1, <1>12, <2>1, WorkOn DEF FixRootUser
<1>13. CASE StopAlone(i)
  <2>1. StepRank("edit") > StepRank("stopAlone")
    BY DEF StepRank
  <2>. QED  BY <1>1, <1>13, <2>1, WorkOn DEF StopAlone
<1>14. CASE EditConfig(i)
  <2>1. StepRank(IF conf.custom THEN "custom" ELSE "done") > StepRank("edit")
    BY DEF StepRank
  <2>. QED  BY <1>1, <1>14, <2>1, WorkOn DEF EditConfig
<1>15. CASE SendConfig(i)
  <2>1. StepRank("done") > StepRank("custom")
    BY DEF StepRank
  <2>. QED  BY <1>1, <1>15, <2>1, WorkOn DEF SendConfig
<1>. QED  BY <1>2, <1>3, <1>4, <1>5, <1>6, <1>7, <1>8, <1>9, <1>10, <1>11, <1>12, <1>13, <1>14,
            <1>15 DEF NodeNext

LEMMA MainForward ==
  ASSUME ClusterInv, MainNext
  PROVE  /\ UNCHANGED conf /\ MainRank' > MainRank
         /\ UNCHANGED node \/ \A i \in Node : node[i] = "idle" /\ node'[i] = "configure"
<1>1. /\ UNCHANGED conf /\ cur \in Node
      /\ conf.size \in Nat /\ conf.size >= 1 /\ cur \in Nat /\ cur >= 1 /\ cur <= conf.size
  <2>1. UNCHANGED conf
    BY DEF MainNext, CreateInstances, JoinNodes, StartNode, CreatePMMUser, InstallPMMClient,
       SetSlowLog, AddServiceToPMM, StopFirst, StartFirst, Serial, MainOnly
  <2>2. cur \in Node /\ conf.size \in Nat \ {0}
    BY NodeIsNat DEF ClusterInv, TypeOK
  <2>. QED  BY <2>1, <2>2 DEF Node
<1>2. UNCHANGED node \/ \A i \in Node : node[i] = "idle" /\ node'[i] = "configure"
  BY DEF ClusterInv, Cluster, Places, MainNext, CreateInstances, JoinNodes, StartNode,
     CreatePMMUser, InstallPMMClient, SetSlowLog, AddServiceToPMM, StopFirst, StartFirst, Serial
<1>. SUFFICES MainRank' > MainRank
  BY <1>1, <1>2
<1>3. ASSUME main \in MainStep \ Ended, main' = "failed" PROVE MainRank' > MainRank
  BY <1>1, <1>3 DEF MainRank, MainStep, Ended, PmmStep
<1>. SUFFICES ASSUME main' # "failed" PROVE MainRank' > MainRank
  <2>1. main \in MainStep \ Ended
    BY DEF ClusterInv, TypeOK, MainNext, CreateInstances, JoinNodes, StartNode, CreatePMMUser,
       InstallPMMClient, SetSlowLog, AddServiceToPMM, StopFirst, StartFirst, Serial, Ended
  <2>. QED  BY <1>3, <2>1
<1>4. ASSUME NextNode PROVE MainRank' \in Nat /\ MainRank' > 5 * cur + 4
  <2>1. CASE cur < conf.size
    <3>1. main' = "start" /\ cur' = cur + 1
      BY <1>4, <2>1 DEF NextNode, Advance
    <3>. QED  BY <1>1, <3>1 DEF MainRank
  <2>2. CASE ~(cur < conf.size)
    <3>1. main' \in {"stopFirst", "created"}
      BY <1>4, <2>2 DEF NextNode, Advance
    <3>. QED  BY <1>1, <2>2, <3>1 DEF MainRank, PmmStep
  <2>. QED  BY <2>1, <2>2
<1>5. CASE CreateInstances
  <2>1. main = "instances" /\ main' = "nodes"
    BY <1>5 DEF CreateInstances, Advance, Fail
  <2>. QED  BY <2>1 DEF MainRank
<1>6. CASE JoinNodes
  <2>1. main = "nodes" /\ main' = "start" /\ cur' = 1
    BY <1>6 DEF JoinNodes, Advance, Fail
  <2>. QED  BY <2>1 DEF MainRank
<1>7. CASE StartNode
  <2>1. main = "start" /\ (NextNode \/ (main' = "pmmUser" /\ cur' = cur))
    BY <1>7 DEF StartNode, TryStart, Try, Advance, Fail
  <2>2. MainRank = 5 * cur
    BY <1>1, <2>1 DEF MainRank
  <2>3. CASE NextNode
    BY <1>1, <1>4, <2>2, <2>3
  <2>4. CASE main' = "pmmUser" /\ cur' = cur
    <3>1. MainRank' = 5 * cur + 1
      BY <1>1, <2>4 DEF MainRank, PmmStep
    <3>. QED  BY <1>1, <2>2, <3>1
  <2>. QED  BY <2>1, <2>3, <2>4
<1>8. CASE CreatePMMUser
  <2>1. main = "pmmUser" /\ main' = "pmmClient" /\ cur' = cur
    BY <1>8 DEF CreatePMMUser, Serial, Try, Advance, Fail
  <2>. QED  BY <1>1, <2>1 DEF MainRank, PmmStep
<1>9. CASE InstallPMMClient
  <2>1. main = "pmmClient" /\ main' = "pmmEdit" /\ cur' = cur
    BY <1>9 DEF InstallPMMClient, Serial, Try, Advance, Fail
  <2>. QED  BY <1>1, <2>1 DEF MainRank, PmmStep
<1>10. CASE SetSlowLog
  <2>1. main = "pmmEdit" /\ main' = "pmmService" /\ cur' = cur
    BY <1>10 DEF SetSlowLog, Serial, Try, Advance, Fail
  <2>. QED  BY <1>1, <2>1 DEF MainRank, PmmStep
<1>11. CASE AddServiceToPMM
  <2>1. main = "pmmService" /\ NextNode
    BY <1>11 DEF AddServiceToPMM, Serial, Try, Fail
  <2>2. MainRank = 5 * cur + 4
    BY <1>1, <2>1 DEF MainRank, PmmStep
  <2>. QED  BY <1>1, <1>4, <2>1, <2>2
<1>12. CASE StopFirst
  <2>1. main = "stopFirst" /\ main' = "startFirst"
    BY <1>12 DEF StopFirst, Serial, Try, Advance, Fail
  <2>. QED  BY <1>1, <2>1 DEF MainRank, PmmStep
<1>13. CASE StartFirst
  <2>1. main = "startFirst" /\ main' = "created"
    BY <1>13 DEF StartFirst, TryStart, Try, Advance, Fail
  <2>. QED  BY <1>1, <2>1 DEF MainRank, PmmStep
<1>. QED  BY <1>5, <1>6, <1>7, <1>8, <1>9, <1>10, <1>11, <1>12, <1>13 DEF MainNext

LEMMA RanksCorrect == ASSUME TypeOK PROVE RanksBounded
<1>1. /\ conf.size \in Nat /\ conf.size >= 1
      /\ cur \in Nat /\ cur >= 1 /\ cur <= conf.size
  BY NodeIsNat DEF TypeOK, Node
<1>2. NodeRank \in [Node -> 0 .. 14]
  BY StepRanks DEF TypeOK, NodeRank
<1>3. MainRank \in 0 .. 5 * conf.size + 7
  BY <1>1 DEF MainRank, PmmStep
<1>. QED  BY <1>2, <1>3 DEF RanksBounded

LEMMA NextForward == ASSUME ClusterInv, RanksBounded', Next PROVE NoneBack /\ OneOn
<1>1. main # "crashed" /\ RanksBounded /\ TypeOK
  BY RanksCorrect DEF Next, ClusterInv
<1>2. NodeRank \in [Node -> Nat] /\ MainRank \in Nat /\ \A i \in Node : NodeRank[i] = StepRank(node[i])
  BY <1>1, NodeIsNat DEF RanksBounded, NodeRank
<1>3. ASSUME NEW i \in Node, NodeNext(i) PROVE NoneBack /\ OneOn
  <2>1. NodeOn(i) /\ main = "nodes"
    BY <1>1, <1>3, NodeForward, NodesRun
  <2>2. UNCHANGED conf /\ UNCHANGED cur /\ Node' = Node
    BY <2>1 DEF NodeOn, Node
  <2>3. CASE main' = "crashed" /\ UNCHANGED node
    <3>1. NodeRank' = NodeRank
      BY <2>2, <2>3 DEF NodeRank
    <3>2. MainRank = 1 /\ MainRank' > 1 /\ MainRank' \in Nat
      BY <1>1, <2>1, <2>2, <2>3, NodeIsNat DEF MainRank, PmmStep
    <3>. QED  BY <1>2, <2>2, <3>1, <3>2 DEF NoneBack, OneOn
  <2>4. ASSUME UNCHANGED main, NEW s, Go(i, s), StepRank(s) > StepRank(node[i])
        PROVE  NoneBack /\ OneOn
    <3>1. NodeRank' = [NodeRank EXCEPT ![i] = StepRank(s)]
      BY <1>1, <2>2, <2>4 DEF NodeRank, Go, TypeOK
    <3>2. MainRank' = MainRank
      BY <2>2, <2>4 DEF MainRank
    <3>3. NodeRank'[i] > NodeRank[i] /\ \A j \in Node \ {i} : NodeRank'[j] = NodeRank[j]
      BY <1>2, <2>4, <3>1
    <3>4. NodeRank'[i] >= NodeRank[i]
      BY <1>2, <2>2, <3>3 DEF RanksBounded
    <3>. QED  BY <1>2, <2>2, <3>2, <3>3, <3>4 DEF NoneBack, OneOn
  <2>. QED  BY <2>1, <2>3, <2>4 DEF NodeOn
<1>4. CASE MainNext
  <2>1. UNCHANGED conf /\ MainRank' > MainRank /\ Node' = Node
    BY <1>4, MainForward DEF ClusterInv, Node
  <2>2. \A i \in Node : NodeRank'[i] >= NodeRank[i]
    <3>1. CASE UNCHANGED node
      <4>1. NodeRank' = NodeRank
        BY <2>1, <3>1 DEF NodeRank
      <4>. QED  BY <1>2, <4>1
    <3>2. CASE \A i \in Node : node[i] = "idle" /\ node'[i] = "configure"
      BY <2>1, <3>2 DEF NodeRank, StepRank
    <3>. QED  BY <1>4, <3>1, <3>2, MainForward
  <2>3. MainRank' \in Nat
    BY <1>1, <2>1, NodeIsNat DEF RanksBounded
  <2>. QED  BY <1>2, <2>1, <2>2, <2>3 DEF NoneBack, OneOn
<1>. QED  BY <1>3, <1>4 DEF Next

\* Every step of Create takes Create or a goroutine to a later place and nobody to
\* an earlier one: no step is repeated, also when an error was lost, and the loop
\* over the nodes ends.  (manager.go:54-156)
THEOREM ForwardCorrect == Spec => Forward
<1>1. ClusterInv /\ RanksBounded' /\ [Next]_vars => [NoneBack /\ OneOn]_vars
  BY NextForward
<1>2. ClusterInv => RanksBounded
  BY RanksCorrect DEF ClusterInv
<1>. QED  BY <1>1, <1>2, ClusterCorrect, PTL DEF Spec, Forward

\* The places are bounded by the number of nodes alone.  Together with the last
\* theorem: a Create takes a bounded number of steps, whatever fails.
THEOREM RanksAreBounded == Spec => []RanksBounded
<1>1. ClusterInv => RanksBounded
  BY RanksCorrect DEF ClusterInv
<1>. QED  BY <1>1, ClusterCorrect, PTL

\* Create never waits for itself: while g.Wait() has not returned a goroutine is
\* at work, and each of them was started.  (manager.go:68-94)
THEOREM NobodyWaitsInVain == Spec => []SomebodyRuns
<1>1. ClusterInv => SomebodyRuns
  BY DEF ClusterInv, Cluster, Places, SomebodyRuns
<1>. QED  BY <1>1, ClusterCorrect, PTL
=============================================================================
