-------------------------- MODULE AwsNetworkProofs --------------------------
(***************************************************************************)
(* Theorems about the networks that the resources of AwsInfra share: where *)
(* the objects lie that a Create has found, and who can cut off whom.      *)
(***************************************************************************)
EXTENDS AwsInfraProofs

USE SharingAssumption, ConfigAssumption

-----------------------------------------------------------------------------
(* The order in which a Create gets to know its network.                   *)

\* The steps before the VPC, the gateway, the group, the subnet and the route
\* table of a resource are known.  Nothing leads back to them.
BeforeVpc == KeyStep \cup {"absent", "lock", "vpcById", "vpcByName", "vpcCreate"}
BeforeIgw == BeforeVpc \cup {"vpcModify", "igwGet", "igwCreate"}
BeforeSg == BeforeIgw \cup {"igwAttach", "sgGet", "sgCreate"}
BeforeSubnet == BeforeSg \cup {"sgIngress", "sgEgress", "subnetGet", "subnetCreate"}
BeforeRtb == BeforeSubnet \cup {"rtbGet", "rtbCreate"}

Placed == Kind \ {"vpc"}
Found == {"igw", "sg", "subnet"}

\* No step takes a resource back before its VPC or its route table was known.
Onward(r) ==
  /\ pc'[r] \in BeforeVpc => pc[r] \in BeforeVpc
  /\ pc'[r] \in BeforeRtb => pc[r] \in BeforeRtb

LEMMA CreateOnward ==
  ASSUME TypeOK, NEW r \in Resource, CreateNext(r)
  PROVE  Onward(r)
<1> USE DEF TypeOK, Return, Fault, Fail, Onward, BeforeVpc, KeyStep, BeforeIgw, BeforeSg,
        BeforeSubnet, BeforeRtb
<1>1. CASE Lock(r) \/ KeyPair(r) \/ VpcModify(r) \/ SgEgress(r)
  BY <1>1, KeyMoves DEF Lock, VpcModify, SgEgress, Call, ByName
<1>2. CASE VpcById(r) \/ VpcByName(r) \/ IgwGet(r)
  BY <1>2 DEF VpcById, VpcByName, IgwGet, Look, ByName
<1>3. CASE SgGet(r) \/ SubnetGet(r) \/ RtbGet(r)
  BY <1>3 DEF SgGet, SubnetGet, RtbGet, Look
<1>4. CASE VpcCreate(r) \/ IgwCreate(r) \/ SgCreate(r)
  BY <1>4 DEF VpcCreate, IgwCreate, SgCreate, Make
<1>5. CASE SubnetCreate(r) \/ RtbCreate(r) \/ Run(r)
  BY <1>5 DEF SubnetCreate, RtbCreate, Run, Make
<1>6. CASE IgwAttach(r) \/ SgIngress(r) \/ RtbRoute(r) \/ RtbAssociate(r)
  BY <1>6 DEF IgwAttach, SgIngress, RtbRoute, RtbAssociate, Attach
<1>7. CASE Unlock(r) \/ Provision(r)
  BY <1>7 DEF Unlock, Provision
<1> QED BY <1>1, <1>2, <1>3, <1>4, <1>5, <1>6, <1>7 DEF CreateNext

\* A Create only adds to the account.  It adds its VPC at one step before it
\* knows it, and everything else at a later step.
LEMMA CreateAdds ==
  ASSUME TypeOK, NEW r \in Resource, CreateNext(r)
  PROVE  /\ shutting' = shutting
         /\ \A k \in Kind : up[k] \subseteq up'[k] /\ up'[k] \subseteq up[k] \cup {r}
         /\ \A t \in Tie : link[t] \subseteq link'[t] /\ link'[t] \subseteq link[t] \cup {r}
<1> USE DEF TypeOK, account, Kind, Tie
<1>1. CASE Lock(r) \/ KeyPair(r) \/ VpcModify(r) \/ SgEgress(r)
  BY <1>1, KeyMoves DEF Lock, VpcModify, SgEgress, Call
<1>2. CASE VpcById(r) \/ VpcByName(r) \/ IgwGet(r)
  BY <1>2 DEF VpcById, VpcByName, IgwGet, Look
<1>3. CASE SgGet(r) \/ SubnetGet(r) \/ RtbGet(r)
  BY <1>3 DEF SgGet, SubnetGet, RtbGet, Look
<1>4. CASE VpcCreate(r) \/ IgwCreate(r) \/ SgCreate(r)
  BY <1>4 DEF VpcCreate, IgwCreate, SgCreate, Make
<1>5. CASE SubnetCreate(r) \/ RtbCreate(r) \/ Run(r)
  BY <1>5 DEF SubnetCreate, RtbCreate, Run, Make
<1>6. CASE IgwAttach(r) \/ SgIngress(r) \/ RtbRoute(r) \/ RtbAssociate(r)
  BY <1>6 DEF IgwAttach, SgIngress, RtbRoute, RtbAssociate, Attach
<1>7. CASE Unlock(r) \/ Provision(r)
  BY <1>7 DEF Unlock, Provision
<1> QED BY <1>1, <1>2, <1>3, <1>4, <1>5, <1>6, <1>7 DEF CreateNext

\* The one object a Create adds, or the one it adopts, is of the kind of its
\* step.
LEMMA CreateKinds ==
  ASSUME TypeOK, NEW r \in Resource, CreateNext(r)
  PROVE  /\ \A k \in Placed : up'[k] # up[k] =>
              pc[r] = CASE k = "igw" -> "igwCreate" [] k = "sg" -> "sgCreate"
                        [] k = "subnet" -> "subnetCreate" [] k = "rtb" -> "rtbCreate"
                        [] k = "instance" -> "run"
         /\ up'["vpc"] # up["vpc"] => pc[r] = "vpcCreate"
         /\ up'["rtb"] # up["rtb"] => pc'[r] \notin BeforeRtb
         /\ up'["sg"] # up["sg"] => net[r]["vpc"] \in Vpcs
         /\ up'["instance"] # up["instance"] => net[r]["subnet"] \in up["subnet"]
         /\ \A t \in Tie : link'[t] # link[t] =>
              pc[r] = CASE t = "attachment" -> "igwAttach" [] t = "ingress" -> "sgIngress"
                        [] t = "route" -> "rtbRoute" [] t = "association" -> "rtbAssociate"
<1> USE DEF TypeOK, account, Kind, Tie, Placed
<1>1. CASE Lock(r) \/ KeyPair(r) \/ VpcModify(r) \/ SgEgress(r)
  BY <1>1, KeyMoves DEF Lock, VpcModify, SgEgress, Call
<1>2. CASE VpcById(r) \/ VpcByName(r) \/ IgwGet(r)
  BY <1>2 DEF VpcById, VpcByName, IgwGet, Look
<1>3. CASE SgGet(r) \/ SubnetGet(r) \/ RtbGet(r)
  BY <1>3 DEF SgGet, SubnetGet, RtbGet, Look
<1>4. CASE VpcCreate(r) \/ IgwCreate(r) \/ SgCreate(r)
  <2>1. CASE VpcCreate(r)
    BY <2>1 DEF VpcCreate, Make
  <2>2. CASE IgwCreate(r)
    BY <2>2 DEF IgwCreate, Make
  <2>3. CASE SgCreate(r)
    BY <2>3 DEF SgCreate, Make, MayMake
  <2> QED BY <1>4, <2>1, <2>2, <2>3
<1>5. CASE SubnetCreate(r) \/ Run(r)
  <2>1. CASE SubnetCreate(r)
    BY <2>1 DEF SubnetCreate, Make
  <2>2. CASE Run(r)
    BY <2>2 DEF Run, Make, MayMake
  <2> QED BY <1>5, <2>1, <2>2
<1>6. CASE RtbCreate(r)
  <2>1. pc'[r] \in {"rtbRoute", "broken"}
    BY <1>6 DEF RtbCreate, Make, Return, Fault, Fail
  <2>2. pc'[r] \notin BeforeRtb
    BY <2>1 DEF BeforeVpc, KeyStep, BeforeIgw, BeforeSg, BeforeSubnet, BeforeRtb
  <2> QED BY <1>6, <2>2 DEF RtbCreate, Make
<1>7. CASE IgwAttach(r) \/ SgIngress(r) \/ RtbRoute(r) \/ RtbAssociate(r)
  BY <1>7 DEF IgwAttach, SgIngress, RtbRoute, RtbAssociate, Attach
<1>8. CASE Unlock(r) \/ Provision(r)
  BY <1>8 DEF Unlock, Provision
<1> QED BY <1>1, <1>2, <1>3, <1>4, <1>5, <1>6, <1>7, <1>8 DEF CreateNext

\* What a Create remembers: its VPC at one of the steps before it knows it,
\* then a gateway, a group and a subnet, found in its VPC or made.
LEMMA CreateRemembers ==
  ASSUME TypeOK, NEW r \in Resource, CreateNext(r)
  PROVE  /\ \A s \in Resource \ {r} : net'[s] = net[s]
         /\ net'[r]["vpc"] # net[r]["vpc"] => pc[r] \in BeforeVpc /\ pc'[r] \notin BeforeVpc
         /\ net'[r]["igw"] # net[r]["igw"] =>
              \/ pc[r] = "igwGet" /\ net'[r]["igw"] \in Gateways(net[r]["vpc"])
              \/ pc[r] = "igwCreate" /\ net'[r]["igw"] = r
         /\ net'[r]["sg"] # net[r]["sg"] =>
              \/ /\ pc[r] = "sgGet"
                 /\ net'[r]["sg"] \in up["sg"]
                 /\ GroupName(net[net'[r]["sg"]]["vpc"]) = GroupName(net[r]["vpc"])
              \/ pc[r] = "sgCreate" /\ net'[r]["sg"] = r
         /\ net'[r]["subnet"] # net[r]["subnet"] =>
              \/ pc[r] = "subnetGet" /\ net'[r]["subnet"] \in Inside(net[r]["vpc"], "subnet")
              \/ pc[r] = "subnetCreate" /\ net'[r]["subnet"] = r
<1> USE DEF TypeOK, NetKind, Remember
<1>1. CASE Lock(r) \/ KeyPair(r) \/ VpcModify(r) \/ SgEgress(r)
  BY <1>1, KeyMoves DEF Lock, VpcModify, SgEgress, Call
<1>2. CASE VpcById(r) \/ VpcByName(r)
  BY <1>2 DEF VpcById, VpcByName, Look, BeforeVpc, KeyStep, Return
<1>3. CASE IgwGet(r) \/ SgGet(r) \/ SubnetGet(r) \/ RtbGet(r)
  BY <1>3 DEF IgwGet, SgGet, SubnetGet, RtbGet, Look
<1>4. CASE VpcCreate(r)
  BY <1>4 DEF VpcCreate, Make, BeforeVpc, KeyStep, Return
<1>5. CASE IgwCreate(r) \/ SgCreate(r) \/ SubnetCreate(r) \/ RtbCreate(r) \/ Run(r)
  BY <1>5 DEF IgwCreate, SgCreate, SubnetCreate, RtbCreate, Run, Make
<1>6. CASE IgwAttach(r) \/ SgIngress(r) \/ RtbRoute(r) \/ RtbAssociate(r)
  BY <1>6 DEF IgwAttach, SgIngress, RtbRoute, RtbAssociate, Attach
<1>7. CASE Unlock(r) \/ Provision(r)
  BY <1>7 DEF Unlock, Provision
<1> QED BY <1>1, <1>2, <1>3, <1>4, <1>5, <1>6, <1>7 DEF CreateNext

-----------------------------------------------------------------------------
(* Where found objects lie.                                                *)

\* Before it knows its VPC a Create has made and found nothing.
Fresh(r) ==
  pc[r] \in BeforeVpc =>
    /\ \A k \in Placed : r \notin up[k]
    /\ \A t \in Tie : r \notin link[t]
    /\ \A k \in Found : net[r][k] = None

\* What a Create has found of a kind lies in the VPC it has found.
Nearby(r, kind) ==
  net[r][kind] # None =>
    /\ net[r][kind] \in Resource
    /\ pc[net[r][kind]] \notin BeforeVpc
    /\ net[net[r][kind]]["vpc"] = net[r]["vpc"]

\* Whoever has a route table or instances knows its network.
Routed(r) ==
  /\ r \in up["rtb"] \cup link["route"] \cup link["association"] => pc[r] \notin BeforeRtb
  /\ r \in up["instance"] => pc[r] \notin BeforeRtb /\ net[r]["subnet"] # None

NetInv ==
  \A r \in Resource :
    Fresh(r) /\ Nearby(r, "igw") /\ Nearby(r, "subnet") /\ Routed(r)

LEMMA BeforeIn ==
  /\ BeforeVpc \subseteq BeforeRtb
  /\ BeforeVpc \cap DeleteStep = {} /\ BeforeRtb \cap DeleteStep = {}
  /\ {"created", "broken", "lost", "destroyed"} \cap BeforeRtb = {}
BY DEF BeforeVpc, KeyStep, BeforeIgw, BeforeSg, BeforeSubnet, BeforeRtb, DeleteStep

LEMMA CreateIsCreating ==
  ASSUME TypeOK, NEW r \in Resource, CreateNext(r)
  PROVE  Creating(r)
<1> USE DEF Creating, CreateStep
<1>1. CASE Lock(r) \/ Unlock(r)
  BY <1>1 DEF Lock, Unlock, Critical, KeyStep
<1>2. CASE ~Lock(r) /\ ~Unlock(r)
  BY <1>2, CriticalMoves DEF Moves
<1> QED BY <1>1, <1>2

\* Once a VPC is known it stays.
LEMMA CreateKeepsVpc ==
  ASSUME TypeOK, NEW r \in Resource, CreateNext(r)
  PROVE  \A q \in Resource : pc[q] \notin BeforeVpc =>
           pc'[q] \notin BeforeVpc /\ net'[q]["vpc"] = net[q]["vpc"]
<1>1. \A q \in Resource \ {r} : pc'[q] = pc[q] /\ net'[q] = net[q]
  BY CreateTouchesOwn, CreateRemembers
<1>2. Onward(r) /\ (net'[r]["vpc"] # net[r]["vpc"] => pc[r] \in BeforeVpc)
  BY CreateOnward, CreateRemembers
<1> QED BY <1>1, <1>2 DEF Onward

LEMMA FreshCreate ==
  ASSUME TypeOK, NEW r \in Resource, CreateNext(r), NEW s \in Resource, Fresh(s)
  PROVE  Fresh(s)'
<1> USE DEF Fresh
<1> SUFFICES ASSUME pc'[s] \in BeforeVpc
             PROVE  /\ \A k \in Placed : s \notin up'[k]
                    /\ \A t \in Tie : s \notin link'[t]
                    /\ \A k \in Found : net'[s][k] = None
  OBVIOUS
<1>1. CASE s # r
  <2>1. pc'[s] = pc[s] /\ net'[s] = net[s]
    BY <1>1, CreateTouchesOwn, CreateRemembers
  <2>2. /\ \A k \in Placed : s \in up'[k] => s \in up[k]
        /\ \A t \in Tie : s \in link'[t] => s \in link[t]
    BY <1>1, CreateAdds DEF Placed
  <2> QED BY <2>1, <2>2
<1>2. CASE s = r
  <2>1. pc[r] \in BeforeVpc
    BY <1>2, CreateOnward DEF Onward
  <2>2. \A k \in Placed : up'[k] = up[k]
    BY <2>1, CreateKinds DEF Placed, Kind, BeforeVpc, KeyStep
  <2>3. \A t \in Tie : link'[t] = link[t]
    BY <2>1, CreateKinds DEF Tie, BeforeVpc, KeyStep
  <2>4. \A k \in Found : net'[r][k] = net[r][k]
    BY <2>1, CreateRemembers DEF Found, BeforeVpc, KeyStep
  <2> QED BY <1>2, <2>1, <2>2, <2>3, <2>4
<1> QED BY <1>1, <1>2

\* What is found or made in one step lies in the VPC if it did so before.
LEMMA NearbyCreate ==
  ASSUME TypeOK, NEW r \in Resource, CreateNext(r), NEW kind \in Found,
         \A q \in Resource : Fresh(q) /\ Nearby(q, kind),
         net'[r][kind] # net[r][kind] =>
           /\ net'[r][kind] \in Resource
           /\ pc[r] \notin BeforeVpc /\ pc[net'[r][kind]] \notin BeforeVpc
           /\ net[net'[r][kind]]["vpc"] = net[r]["vpc"],
         NEW s \in Resource
  PROVE  Nearby(s, kind)'
<1> SUFFICES ASSUME net'[s][kind] # None
             PROVE  /\ net'[s][kind] \in Resource
                    /\ pc'[net'[s][kind]] \notin BeforeVpc
                    /\ net'[net'[s][kind]]["vpc"] = net'[s]["vpc"]
  BY DEF Nearby
<1>1. CASE net'[s][kind] = net[s][kind]
  <2>1. pc[s] \notin BeforeVpc
    BY <1>1 DEF Fresh
  <2>2. /\ net[s][kind] \in Resource
        /\ pc[net[s][kind]] \notin BeforeVpc
        /\ net[net[s][kind]]["vpc"] = net[s]["vpc"]
    BY <1>1 DEF Nearby
  <2> QED BY <1>1, <2>1, <2>2, CreateKeepsVpc
<1>2. CASE net'[s][kind] # net[s][kind]
  <2>1. s = r
    BY <1>2, CreateRemembers
  <2> QED BY <1>2, <2>1, CreateKeepsVpc
<1> QED BY <1>1, <1>2

LEMMA RoutedCreate ==
  ASSUME TypeOK, NEW r \in Resource, CreateNext(r), NEW s \in Resource, Routed(s)
  PROVE  Routed(s)'
<1> USE DEF Routed, Placed, Kind, Tie
<1>1. CASE s # r
  <2>1. pc'[s] = pc[s] /\ net'[s] = net[s]
    BY <1>1, CreateTouchesOwn, CreateRemembers
  <2>2. /\ \A k \in Kind : s \in up'[k] => s \in up[k]
        /\ \A t \in Tie : s \in link'[t] => s \in link[t]
    BY <1>1, CreateAdds
  <2> QED BY <2>1, <2>2
<1>2. CASE s = r
  <2>1. r \in up'["rtb"] => pc'[r] \notin BeforeRtb
    BY <1>2, CreateKinds, CreateOnward DEF Onward
  <2>2. r \in link'["route"] \cup link'["association"] => pc'[r] \notin BeforeRtb
    <3>1. ASSUME NEW t \in {"route", "association"}, link'[t] # link[t]
          PROVE  pc[r] \notin BeforeRtb
      BY <3>1, CreateKinds
      DEF BeforeVpc, KeyStep, BeforeIgw, BeforeSg, BeforeSubnet, BeforeRtb
    <3> QED BY <1>2, <3>1, CreateOnward DEF Onward
  <2>3. ASSUME r \in up'["instance"]
        PROVE  pc'[r] \notin BeforeRtb /\ net'[r]["subnet"] # None
    <3>1. pc[r] \notin BeforeRtb /\ net[r]["subnet"] # None
      <4>1. CASE up'["instance"] = up["instance"]
        BY <1>2, <2>3, <4>1
      <4>2. CASE up'["instance"] # up["instance"]
        <5>1. pc[r] = "run" /\ net[r]["subnet"] \in up["subnet"]
          BY <4>2, CreateKinds
        <5> QED BY <5>1 DEF TypeOK, BeforeVpc, KeyStep, BeforeIgw, BeforeSg, BeforeSubnet, BeforeRtb
      <4> QED BY <4>1, <4>2
    <3>2. pc[r] \notin {"subnetGet", "subnetCreate"}
      BY <3>1 DEF BeforeSubnet, BeforeRtb
    <3> QED BY <3>1, <3>2, CreateOnward, CreateRemembers DEF Onward
  <2> QED BY <1>2, <2>1, <2>2, <2>3
<1> QED BY <1>1, <1>2

LEMMA NetCreate ==
  ASSUME TypeOK, NetInv, NEW r \in Resource, CreateNext(r)
  PROVE  NetInv'
<1>0. \A q \in Resource : Fresh(q) /\ Nearby(q, "igw") /\ Nearby(q, "subnet") /\ Routed(q)
  BY DEF NetInv
<1>1. ASSUME net'[r]["igw"] # net[r]["igw"]
      PROVE  /\ net'[r]["igw"] \in Resource
             /\ pc[r] \notin BeforeVpc /\ pc[net'[r]["igw"]] \notin BeforeVpc
             /\ net[net'[r]["igw"]]["vpc"] = net[r]["vpc"]
  <2>1. pc[r] \in {"igwGet", "igwCreate"}
    BY <1>1, CreateRemembers
  <2>2. CASE net'[r]["igw"] = r
    BY <2>1, <2>2 DEF BeforeVpc, KeyStep
  <2>3. CASE net'[r]["igw"] \in Gateways(net[r]["vpc"])
    BY <1>0, <2>1, <2>3 DEF Gateways, Fresh, TypeOK, Tie, BeforeVpc, KeyStep
  <2> QED BY <1>1, <2>2, <2>3, CreateRemembers
<1>2. ASSUME net'[r]["subnet"] # net[r]["subnet"]
      PROVE  /\ net'[r]["subnet"] \in Resource
             /\ pc[r] \notin BeforeVpc /\ pc[net'[r]["subnet"]] \notin BeforeVpc
             /\ net[net'[r]["subnet"]]["vpc"] = net[r]["vpc"]
  <2>1. pc[r] \in {"subnetGet", "subnetCreate"}
    BY <1>2, CreateRemembers
  <2>2. CASE net'[r]["subnet"] = r
    BY <2>1, <2>2 DEF BeforeVpc, KeyStep
  <2>3. CASE net'[r]["subnet"] \in Inside(net[r]["vpc"], "subnet")
    BY <1>0, <2>1, <2>3 DEF Inside, Fresh, TypeOK, Placed, Kind, BeforeVpc, KeyStep
  <2> QED BY <1>2, <2>2, <2>3, CreateRemembers
<1>3. \A s \in Resource : Nearby(s, "igw")'
  BY <1>0, <1>1, NearbyCreate DEF Found
<1>4. \A s \in Resource : Nearby(s, "subnet")'
  BY <1>0, <1>2, NearbyCreate DEF Found
<1>5. \A s \in Resource : Fresh(s)' /\ Routed(s)'
  BY <1>0, FreshCreate, RoutedCreate
<1> QED BY <1>3, <1>4, <1>5 DEF NetInv

\* A step that only removes leaves everything where it is.
LEMMA NetKept ==
  ASSUME NetInv, UNCHANGED net, \A r \in Resource : Onward(r),
         \A k \in Kind : up'[k] \subseteq up[k],
         \A t \in Tie : link'[t] \subseteq link[t]
  PROVE  NetInv'
<1> USE DEF Onward, Placed, Kind, Tie
<1>1. ASSUME NEW s \in Resource PROVE Fresh(s)' /\ Routed(s)'
  BY DEF NetInv, Fresh, Routed
<1>2. ASSUME NEW s \in Resource PROVE Nearby(s, "igw")' /\ Nearby(s, "subnet")'
  BY DEF NetInv, Nearby
<1> QED BY <1>1, <1>2 DEF NetInv

LEMMA DeleteLoosens ==
  ASSUME TypeOK, NEW r \in Resource, DeleteNext(r)
  PROVE  UNCHANGED net /\ \A t \in Tie : link'[t] \subseteq link[t]
<1> USE DEF account, TypeOK, Tie
<1>1. CASE GetResources(r) \/ Terminate(r) \/ AwaitTerminated(r)
  BY <1>1 DEF GetResources, Terminate, AwaitTerminated
<1>2. CASE RtbDescribe(r) \/ RtbDisassociate(r) \/ IgwDescribe(r) \/ IgwDetach(r)
  BY <1>2 DEF RtbDescribe, RtbDisassociate, IgwDescribe, IgwDetach
<1>3. CASE RtbDelete(r) \/ SubnetDelete(r) \/ SgDelete(r)
  BY <1>3 DEF RtbDelete, SubnetDelete, SgDelete, Remove, Severed
<1>4. CASE IgwDelete(r) \/ VpcDelete(r)
  BY <1>4 DEF IgwDelete, VpcDelete, Remove, Severed
<1> QED BY <1>1, <1>2, <1>3, <1>4 DEF DeleteNext

LEMMA NetInductive == TypeOK /\ NetInv /\ [Next]_vars => NetInv'
<1> SUFFICES ASSUME TypeOK, NetInv, [Next]_vars PROVE NetInv'
  OBVIOUS
<1> USE DEF Onward
<1>1. ASSUME NEW r \in Resource, Create(r) PROVE NetInv'
  BY <1>1, NetKept DEF Create, Return, account, TypeOK, BeforeVpc, KeyStep, BeforeIgw, BeforeSg,
                       BeforeSubnet, BeforeRtb
<1>2. ASSUME NEW r \in Resource, Delete(r) PROVE NetInv'
  BY <1>2, NetKept, BeforeIn DEF Delete, Return, account, TypeOK, DeleteStep
<1>3. ASSUME NEW r \in Resource, DeleteNext(r) PROVE NetInv'
  <2>1. \A s \in Resource : Onward(s)
    <3>1. (DeleteStep \cup {"broken", "destroyed"}) \cap BeforeRtb = {}
      BY BeforeIn
    <3> QED BY ONLY <1>3, <3>1, TypeOK, DeleteMoves, BeforeIn DEF Onward, Moves, TypeOK
  <2> QED BY <1>3, <2>1, DeleteKeepsVpcs, DeleteLoosens, NetKept
<1>4. ASSUME NEW r \in Resource, InstanceGone(r) PROVE NetInv'
  BY <1>4, NetKept DEF InstanceGone, TypeOK, Kind
<1>5. ASSUME NEW c \in Cloud, EndRun(c) PROVE NetInv'
  BY <1>5, EndRunKeeps, NetKept, BeforeIn
<1>6. ASSUME NEW r \in Resource, Panic(r) PROVE NetInv'
  BY <1>5, <1>6 DEF Panic
<1>7. ASSUME NEW c \in Cloud, NewRun(c) \/ Interrupt(c) \/ Kill(c) PROVE NetInv'
  BY <1>5, <1>7 DEF NewRun, Interrupt, Kill
<1>8. CASE UNCHANGED vars
  BY <1>8, NetKept DEF vars
<1> QED BY <1>1, <1>2, <1>3, <1>4, <1>6, <1>7, <1>8, NetCreate DEF Next

LEMMA NetInit == Init => NetInv
BY DEF Init, NetInv, Fresh, Nearby, Routed, Placed, Found, Kind, Tie, NetKind

-----------------------------------------------------------------------------
(* Who can cut off a created resource.                                     *)


\* A resource can only be reached through a route table that serves its subnet.
Serves(s, r) ==
  /\ s \in link["association"] \cap link["route"]
  /\ net[s]["subnet"] = net[r]["subnet"]
  /\ net[s]["igw"] \in link["attachment"]

LEMMA ReachableBy ==
  ASSUME NEW r \in Resource
  PROVE  Reachable(r) <=>
           /\ r \in up["instance"] \ shutting
           /\ net[r]["sg"] \in link["ingress"]
           /\ \E s : Serves(s, r)
BY DEF Reachable, Serves

\* What keeps a resource reachable.
LEMMA ReachableKept ==
  ASSUME NEW r \in Resource, NEW s, r \in up'["instance"] \ shutting',
         net'[r]["sg"] \in link'["ingress"], Serves(s, r)'
  PROVE  Reachable(r)'
BY DEF Reachable, Serves

LEMMA CreateCutsNobody ==
  ASSUME TypeOK, NetInv, NEW q \in Resource, CreateNext(q),
         NEW r \in Resource, pc[r] = "created", Reachable(r)
  PROVE  Reachable(r)'
<1>1. PICK s : Serves(s, r)
  BY ReachableBy
<1>2. q # r
  <2>1. Creating(q)
    BY CreateIsCreating
  <2> QED BY <2>1 DEF Creating, CreateStep, Critical, KeyStep
<1>3. net'[r] = net[r]
  BY <1>2, CreateRemembers
<1>4. s \in Resource /\ pc[s] \notin BeforeRtb
  BY <1>1 DEF Serves, NetInv, Routed, TypeOK, Tie
<1>5. net'[s]["subnet"] = net[s]["subnet"] /\ net'[s]["igw"] = net[s]["igw"]
  <2>1. pc[s] \notin {"igwGet", "igwCreate", "subnetGet", "subnetCreate"}
    BY <1>4 DEF BeforeVpc, KeyStep, BeforeIgw, BeforeSg, BeforeSubnet, BeforeRtb
  <2> QED BY <1>4, <2>1, CreateRemembers
<1>6. Serves(s, r)'
  BY <1>1, <1>3, <1>5, CreateAdds DEF Serves, Tie
<1>7. r \in up'["instance"] \ shutting' /\ net'[r]["sg"] \in link'["ingress"]
  BY <1>3, CreateAdds, ReachableBy DEF Kind, Tie
<1> QED BY <1>6, <1>7, ReachableKept

\* What the removal of an object of q leaves.
LEMMA RemoveLeaves ==
  ASSUME TypeOK, NEW q \in Resource, NEW step, NEW kind \in Kind \ {"instance"}, NEW next,
         Remove(q, step, kind, next)
  PROVE  /\ up'["instance"] = up["instance"] /\ shutting' = shutting
         /\ \A i \in link["attachment"] : i \in link'["attachment"]
         /\ \A i \in link["ingress"] : i \in link'["ingress"] \/ (kind = "sg" /\ i = q)
         /\ \A i \in link["route"] : i \in link'["route"] \/ (kind = "rtb" /\ i = q)
         /\ \A i \in link["association"] :
              i \in link'["association"] \/ (kind = "subnet" /\ net[i]["subnet"] = q)
<1>1. link' = Severed(q, kind) \/ link' = link
  BY DEF Remove
<1>2. /\ \A i \in link["attachment"] : i \in Severed(q, kind)["attachment"]
      /\ \A i \in link["ingress"] : i \in Severed(q, kind)["ingress"] \/ (kind = "sg" /\ i = q)
      /\ \A i \in link["route"] : i \in Severed(q, kind)["route"] \/ (kind = "rtb" /\ i = q)
      /\ \A i \in link["association"] :
           \/ i \in Severed(q, kind)["association"]
           \/ kind = "subnet" /\ net[i]["subnet"] = q
  BY DEF Severed, Tie
<1>3. up'["instance"] = up["instance"] /\ shutting' = shutting
  BY DEF Remove, TypeOK, Kind
<1> QED BY <1>1, <1>2, <1>3

LEMMA DeleteCutsByRouteTable ==
  ASSUME TypeOK, NetInv, NEW q \in Resource, DeleteNext(q),
         NEW r \in Resource, pc[r] = "created", Reachable(r), ~Reachable(r)'
  PROVE  /\ q # r
         /\ pc[q] = "dRtbDisassociate"
         /\ net[q]["subnet"] = net[r]["subnet"]
<1> USE DEF Kind, Tie
<1>1. PICK s : Serves(s, r)
  BY ReachableBy
<1>2. r \in up["instance"] \ shutting /\ net[r]["sg"] \in link["ingress"]
  BY ReachableBy
<1>3. s \in Resource
  BY <1>1 DEF Serves, TypeOK
<1>4. q # r /\ net' = net
  BY DeleteMoves, DeleteLoosens DEF Moves, DeleteStep
<1>5. CASE GetResources(q) \/ AwaitTerminated(q) \/ RtbDescribe(q) \/ IgwDescribe(q)
  <2>1. UNCHANGED <<up, link, shutting>>
    BY <1>5 DEF GetResources, AwaitTerminated, RtbDescribe, IgwDescribe, account
  <2> QED BY <1>1, <1>2, <1>4, <2>1, ReachableKept DEF Serves
<1>6. CASE Terminate(q)
  <2>1. UNCHANGED <<up, link>> /\ shutting' \subseteq shutting \cup {q}
    BY <1>6 DEF Terminate
  <2> QED BY <1>1, <1>2, <1>4, <2>1, ReachableKept DEF Serves
<1>7. CASE RtbDisassociate(q)
  <2>1. /\ pc[q] = "dRtbDisassociate"
        /\ UNCHANGED <<up, shutting>>
        /\ \A t \in Tie \ {"association"} : link'[t] = link[t]
        /\ link["association"] \ {q} \subseteq link'["association"]
    BY <1>7 DEF RtbDisassociate, TypeOK
  <2>2. CASE s = q
    BY <1>1, <1>4, <2>1, <2>2 DEF Serves
  <2>3. CASE s # q
    BY <1>1, <1>2, <1>4, <2>1, <2>3, ReachableKept DEF Serves
  <2> QED BY <2>2, <2>3
<1>8. CASE RtbDelete(q)
  <2>1. s # q \/ UNCHANGED <<up, link>>
    BY <1>1, <1>8 DEF RtbDelete, Remove, MayRemove, Serves
  <2>2. PICK step \in Step, next \in Step, kind \in {"rtb"} : Remove(q, step, kind, next)
    <3>1. FromSubnet(page[q]) \in Step /\ "dRtbDelete" \in Step
      BY FromMoves DEF Step, DeleteStep, Settled
    <3> QED BY <1>8, <3>1 DEF RtbDelete
  <2>3. /\ up'["instance"] = up["instance"] /\ shutting' = shutting
        /\ \A i \in link["route"] : i \in link'["route"] \/ i = q
        /\ link["attachment"] \subseteq link'["attachment"]
        /\ link["ingress"] \subseteq link'["ingress"]
        /\ link["association"] \subseteq link'["association"]
    BY <2>2, RemoveLeaves
  <2>4. Serves(s, r)'
    BY <1>1, <1>4, <2>1, <2>3 DEF Serves
  <2> QED BY <1>2, <1>4, <2>3, <2>4, ReachableKept
<1>9. CASE SubnetDelete(q)
  <2>1. net[r]["subnet"] # q \/ UNCHANGED link
    BY <1>2, <1>9 DEF SubnetDelete, Remove, MayRemove
  <2>2. PICK step \in Step, next \in Step, kind \in {"subnet"} : Remove(q, step, kind, next)
    <3>1. FromSg(page[q]) \in Step /\ "dSubnet" \in Step
      BY FromMoves DEF Step, DeleteStep, Settled
    <3> QED BY <1>9, <3>1 DEF SubnetDelete
  <2>3. /\ up'["instance"] = up["instance"] /\ shutting' = shutting
        /\ \A i \in link["association"] : i \in link'["association"] \/ net[i]["subnet"] = q
        /\ link["attachment"] \subseteq link'["attachment"]
        /\ link["ingress"] \subseteq link'["ingress"]
        /\ link["route"] \subseteq link'["route"]
    BY <2>2, RemoveLeaves
  <2>4. Serves(s, r)'
    BY <1>1, <1>4, <2>1, <2>3 DEF Serves
  <2> QED BY <1>2, <1>4, <2>3, <2>4, ReachableKept
<1>10. CASE SgDelete(q)
  <2>1. net[r]["sg"] # q \/ UNCHANGED link
    BY <1>2, <1>10 DEF SgDelete, Remove, MayRemove
  <2>2. PICK step \in Step, next \in Step, kind \in {"sg"} : Remove(q, step, kind, next)
    <3>1. FromIgw(page[q]) \in Step /\ "dSg" \in Step
      BY FromMoves DEF Step, DeleteStep, Settled
    <3> QED BY <1>10, <3>1 DEF SgDelete
  <2>3. /\ up'["instance"] = up["instance"] /\ shutting' = shutting
        /\ \A i \in link["ingress"] : i \in link'["ingress"] \/ i = q
        /\ link["attachment"] \subseteq link'["attachment"]
        /\ link["association"] \subseteq link'["association"]
        /\ link["route"] \subseteq link'["route"]
    BY <2>2, RemoveLeaves
  <2>4. Serves(s, r)'
    BY <1>1, <1>4, <2>3 DEF Serves
  <2>5. net'[r]["sg"] \in link'["ingress"]
    BY <1>2, <1>4, <2>1, <2>3
  <2> QED BY <1>2, <2>3, <2>4, <2>5, ReachableKept
<1>11. CASE IgwDetach(q)
  <2>1. /\ UNCHANGED <<up, shutting>>
        /\ \A t \in Tie \ {"attachment"} : link'[t] = link[t]
        /\ link["attachment"] \ {q} \subseteq link'["attachment"]
        /\ UNCHANGED link \/ Inside(net[q]["vpc"], "instance") = {}
    BY <1>11 DEF IgwDetach, TypeOK
  <2>2. ASSUME net[s]["igw"] = q PROVE r \in Inside(net[q]["vpc"], "instance")
    <3>1. net[q]["vpc"] = net[s]["vpc"]
      BY <1>3, <2>2 DEF NetInv, Nearby
    <3>2. net[s]["subnet"] = net[r]["subnet"] /\ net[r]["subnet"] # None
      BY <1>1, <1>2 DEF Serves, NetInv, Routed
    <3>3. net[s]["vpc"] = net[r]["vpc"]
      BY <1>3, <3>2 DEF NetInv, Nearby
    <3> QED BY <1>2, <3>1, <3>3 DEF Inside
  <2>3. Serves(s, r)'
    BY <1>1, <1>4, <2>1, <2>2 DEF Serves
  <2> QED BY <1>2, <1>4, <2>1, <2>3, ReachableKept
<1>12. CASE IgwDelete(q) \/ VpcDelete(q)
  <2>1. PICK kind \in {"igw", "vpc"}, step \in Step, next \in Step : Remove(q, step, kind, next)
    <3>1. CASE IgwDelete(q)
      <4>1. FromVpc(page[q]) \in Step /\ "dIgwDelete" \in Step
        BY FromMoves DEF Step, DeleteStep, Settled
      <4> QED BY <3>1, <4>1 DEF IgwDelete
    <3>2. CASE VpcDelete(q)
      BY <3>2 DEF VpcDelete, Step, DeleteStep, Settled
    <3> QED BY <1>12, <3>1, <3>2
  <2>2. kind \in Kind \ {"instance"} /\ kind \notin {"sg", "rtb", "subnet"}
    OBVIOUS
  <2>3. /\ up'["instance"] = up["instance"] /\ shutting' = shutting
        /\ \A t \in Tie : link[t] \subseteq link'[t]
    BY <2>1, <2>2, RemoveLeaves
  <2> QED BY <1>1, <1>2, <1>4, <2>3, ReachableKept DEF Serves
<1> QED BY <1>5, <1>6, <1>7, <1>8, <1>9, <1>10, <1>11, <1>12 DEF DeleteNext

CutsOff(r) ==
  /\ pc[r] = "created" /\ Reachable(r) /\ ~Reachable(r)'
  /\ ~ \E s \in Resource \ {r} :
         /\ pc[s] = "dRtbDisassociate"
         /\ net[s]["subnet"] = net[r]["subnet"]

LEMMA CutOffStep ==
  ASSUME TypeOK, NetInv, [Next]_vars, NEW r \in Resource
  PROVE  ~CutsOff(r)
<1> SUFFICES ASSUME CutsOff(r) PROVE FALSE
  OBVIOUS
<1> USE DEF CutsOff
<1>0. ASSUME UNCHANGED <<up, link, shutting, net>> PROVE FALSE
  BY <1>0 DEF Reachable
<1>1. ASSUME NEW q \in Resource, Create(q) \/ Delete(q) PROVE FALSE
  BY <1>0, <1>1 DEF Create, Delete, account
<1>2. ASSUME NEW q \in Resource, CreateNext(q) PROVE FALSE
  BY <1>2, CreateCutsNobody
<1>3. ASSUME NEW q \in Resource, DeleteNext(q) PROVE FALSE
  BY <1>3, DeleteCutsByRouteTable
<1>4. ASSUME NEW q \in Resource, InstanceGone(q) PROVE FALSE
  <2>1. q # r
    BY <1>4 DEF InstanceGone, Reachable
  <2>2. UNCHANGED <<link, net>>
    BY <1>4 DEF InstanceGone
  <2>3. r \in up'["instance"] \ shutting'
    BY <1>4, <2>1 DEF InstanceGone, Reachable, TypeOK, Kind
  <2> QED BY <2>2, <2>3 DEF Reachable
<1>5. ASSUME NEW c \in Cloud, EndRun(c) PROVE FALSE
  BY <1>0, <1>5, EndRunKeeps
<1>6. ASSUME NEW q \in Resource, Panic(q) PROVE FALSE
  BY <1>5, <1>6 DEF Panic
<1>7. ASSUME NEW c \in Cloud, NewRun(c) \/ Interrupt(c) \/ Kill(c) PROVE FALSE
  BY <1>5, <1>7 DEF NewRun, Interrupt, Kill
<1>8. CASE UNCHANGED vars
  BY <1>0, <1>8 DEF vars
<1> QED BY <1>1, <1>2, <1>3, <1>4, <1>6, <1>7, <1>8 DEF Next

\* However many resources and configurations share networks, and whatever
\* fails: the one step that cuts off the instances of a created resource is
\* that of another destroy which disassociates the route table of its subnet.
THEOREM CutOffByRouteTable == Spec => CutOffOnlyByRouteTable
<1>1. Init => TypeOK /\ NetInv
  BY TypeInit, NetInit
<1>2. TypeOK /\ NetInv /\ [Next]_vars => (TypeOK /\ NetInv)'
  BY TypeInductive, NetInductive
<1>3. TypeOK /\ NetInv /\ [Next]_vars =>
        [\A r \in Resource :
           pc[r] = "created" /\ Reachable(r) /\ ~Reachable(r)' =>
             \E s \in Resource \ {r} :
               /\ pc[s] = "dRtbDisassociate"
               /\ net[s]["subnet"] = net[r]["subnet"]]_vars
  BY CutOffStep DEF CutsOff
<1> QED BY <1>1, <1>2, <1>3, PTL DEF Spec, CutOffOnlyByRouteTable

-----------------------------------------------------------------------------
(* Names of VPCs.  A group is looked up by the name of its VPC alone, so   *)
(* that it lies in the VPC at hand depends on who can make a VPC meanwhile. *)

\* The VPCs r can come to work in: its own, the one it names by its id, and those
\* of its vpc_name.
MayUse(r, v) == v \in {r, WantedId[r]} \/ (VpcName[r] # None /\ VpcName[v] = VpcName[r])

\* Two configurations have neither a vpc_name nor a VPC in common.  There may be
\* any number of them; one alone shares with itself what it likes.
SeparateConfigurations ==
  \A r \in Resource, s \in Resource : CloudOf[r] # CloudOf[s] =>
    \A v \in Resource \cup Foreign, w \in Resource \cup Foreign :
      MayUse(r, v) /\ MayUse(s, w) => GroupName(v) # GroupName(w)

\* No two foreign VPCs have the same name, and no VPC has an id as its name.
UniqueNames ==
  /\ \A f \in Foreign : \A g \in Foreign : VpcName[f] = VpcName[g] /\ VpcName[f] # None => f = g
  /\ \A v \in Resource \cup Foreign : VpcName[v] \notin Resource \cup Foreign

\* The VPC of the Create that works on the network is the only one of its name.
Named(r) ==
  pc[r] \in Critical \ BeforeVpc =>
    /\ net[r]["vpc"] \in Resource \cup Foreign
    /\ \A v \in Vpcs : GroupName(v) = GroupName(net[r]["vpc"]) => v = net[r]["vpc"]

\* A VPC outlives its groups.
Hosted(r) == r \in up["sg"] => net[r]["vpc"] \in Vpcs

\* From a step on, the group and the subnet are known.
Known(r) ==
  /\ pc[r] \in (CreateStep \ BeforeSg) => net[r]["sg"] # None
  /\ pc[r] \in (CreateStep \ BeforeSubnet) => net[r]["subnet"] # None

GroupInv ==
  \A r \in Resource : Named(r) /\ Hosted(r) /\ Known(r) /\ Nearby(r, "sg")

\* The VPC of a Create is one it can come to work in.
Chosen(r) ==
  /\ pc[r] = "vpcByName" => VpcName[r] # None
  /\ net[r]["vpc"] # None => MayUse(r, net[r]["vpc"])

ChoiceInv == \A r \in Resource : Chosen(r)

LEMMA CreateChooses ==
  ASSUME TypeOK, NEW r \in Resource, CreateNext(r), Chosen(r)
  PROVE  Chosen(r)'
<1> USE DEF TypeOK, Return, Fault, Fail, Remember, NetKind, Chosen, MayUse
<1>1. CASE Lock(r) \/ KeyPair(r) \/ VpcModify(r) \/ SgEgress(r)
  BY <1>1, KeyMoves DEF Lock, VpcModify, SgEgress, Call, ByName
<1>2. CASE VpcById(r) \/ VpcByName(r)
  BY <1>2 DEF VpcById, VpcByName, Look, ByName
<1>3. CASE IgwGet(r) \/ SgGet(r) \/ SubnetGet(r) \/ RtbGet(r)
  BY <1>3 DEF IgwGet, SgGet, SubnetGet, RtbGet, Look
<1>4. CASE VpcCreate(r) \/ IgwCreate(r) \/ SgCreate(r)
  BY <1>4 DEF VpcCreate, IgwCreate, SgCreate, Make
<1>5. CASE SubnetCreate(r) \/ RtbCreate(r) \/ Run(r)
  BY <1>5 DEF SubnetCreate, RtbCreate, Run, Make
<1>6. CASE IgwAttach(r) \/ SgIngress(r) \/ RtbRoute(r) \/ RtbAssociate(r)
  BY <1>6 DEF IgwAttach, SgIngress, RtbRoute, RtbAssociate, Attach
<1>7. CASE Unlock(r) \/ Provision(r)
  BY <1>7 DEF Unlock, Provision
<1> QED BY <1>1, <1>2, <1>3, <1>4, <1>5, <1>6, <1>7 DEF CreateNext

LEMMA ChoiceInductive == TypeOK /\ ChoiceInv /\ [Next]_vars => ChoiceInv'
<1> SUFFICES ASSUME TypeOK, ChoiceInv, [Next]_vars, NEW s \in Resource PROVE Chosen(s)'
  BY DEF ChoiceInv
<1>0. Chosen(s)
  BY DEF ChoiceInv
<1>1. ASSUME UNCHANGED net, pc'[s] # "vpcByName" \/ pc'[s] = pc[s] PROVE Chosen(s)'
  BY <1>0, <1>1 DEF Chosen, MayUse
<1>2. ASSUME NEW r \in Resource, Create(r) \/ Delete(r) PROVE Chosen(s)'
  BY <1>1, <1>2 DEF Create, Delete, Return, TypeOK
<1>3. ASSUME NEW r \in Resource, CreateNext(r) PROVE Chosen(s)'
  <2>1. CASE s = r
    BY <1>0, <1>3, <2>1, CreateChooses
  <2>2. CASE s # r
    BY <1>0, <1>3, <2>2, CreateTouchesOwn, CreateRemembers DEF Chosen, MayUse
  <2> QED BY <2>1, <2>2
<1>4. ASSUME NEW r \in Resource, DeleteNext(r) PROVE Chosen(s)'
  <2>1. pc'[s] # "vpcByName" \/ pc'[s] = pc[s]
    BY <1>4, DeleteMoves DEF Moves, TypeOK, DeleteStep
  <2> QED BY <1>1, <1>4, <2>1, DeleteLoosens
<1>5. ASSUME NEW r \in Resource, InstanceGone(r) PROVE Chosen(s)'
  BY <1>1, <1>5 DEF InstanceGone
<1>6. ASSUME NEW c \in Cloud, EndRun(c) PROVE Chosen(s)'
  BY <1>1, <1>6, EndRunKeeps
<1>7. ASSUME NEW r \in Resource, Panic(r) PROVE Chosen(s)'
  BY <1>6, <1>7 DEF Panic
<1>8. ASSUME NEW c \in Cloud, NewRun(c) \/ Interrupt(c) \/ Kill(c) PROVE Chosen(s)'
  BY <1>6, <1>8 DEF NewRun, Interrupt, Kill
<1>9. CASE UNCHANGED vars
  BY <1>1, <1>9 DEF vars
<1> QED BY <1>2, <1>3, <1>4, <1>5, <1>7, <1>8, <1>9 DEF Next

LEMMA ChoiceInit == Init => ChoiceInv
BY DEF Init, ChoiceInv, Chosen, NetKind

\* Who works at one time in VPCs of one group name is one Create.
LEMMA OneAtATime ==
  ASSUME LockInv, ChoiceInv, SeparateConfigurations,
         NEW q \in Resource, NEW r \in Resource, pc[q] \in Critical, pc[r] \in Critical,
         net[q]["vpc"] \in Resource \cup Foreign, net[r]["vpc"] \in Resource \cup Foreign,
         GroupName(net[q]["vpc"]) = GroupName(net[r]["vpc"])
  PROVE  q = r
<1>1. MayUse(q, net[q]["vpc"]) /\ MayUse(r, net[r]["vpc"])
  BY DEF ChoiceInv, Chosen
<1>2. CloudOf[q] = CloudOf[r]
  BY <1>1 DEF SeparateConfigurations
<1> QED BY <1>2 DEF LockInv, LockOwner

LEMMA GroupNames ==
  ASSUME TypeOK', OneVpcPerName', SeparateConfigurations, UniqueNames,
         NEW v \in Resource \cup Foreign, NEW w \in Resource \cup Foreign,
         v \in Vpcs', w \in Vpcs', GroupName(v) = GroupName(w)
  PROVE  v = w
<1>2. CASE VpcName[v] = None \/ VpcName[w] = None
  BY <1>2 DEF GroupName, UniqueNames
<1>3. CASE VpcName[v] # None /\ VpcName[w] # None
  <2>1. VpcName[v] = VpcName[w]
    BY <1>3 DEF GroupName
  <2>2. CASE v \in Foreign /\ w \in Foreign
    BY <1>3, <2>1, <2>2 DEF UniqueNames
  <2>3. v \in Resource /\ w \in Resource => CloudOf[v] = CloudOf[w]
    BY DEF SeparateConfigurations, MayUse
  <2>4. CASE v \in up'["vpc"] \/ w \in up'["vpc"]
    BY <1>3, <2>1, <2>3, <2>4 DEF OneVpcPerName, Vpcs, TypeOK, Kind
  <2> QED BY <2>2, <2>4 DEF Vpcs
<1> QED BY <1>2, <1>3

\* A Create goes on from the look-up of its VPC with one that exists.
LEMMA CreateEnters ==
  ASSUME TypeOK, NEW r \in Resource, CreateNext(r),
         pc[r] \in BeforeVpc, pc'[r] \in Critical \ BeforeVpc
  PROVE  net'[r]["vpc"] \in Vpcs'
<1> USE DEF TypeOK, Return, Fault, Fail, Vpcs, NetKind, Kind, Remember, BeforeVpc, KeyStep
<1>1. CASE Lock(r) \/ KeyPair(r) \/ VpcModify(r) \/ SgEgress(r)
  <2>1. CASE Lock(r) \/ KeyPair(r)
    <3>1. pc'[r] \in BeforeVpc \cup {"broken"}
      BY <2>1, KeyMoves DEF Lock, Call, ByName
    <3> QED BY <3>1 DEF Critical, KeyStep
  <2>2. CASE VpcModify(r) \/ SgEgress(r)
    BY <2>2 DEF VpcModify, SgEgress, Call
  <2> QED BY <1>1, <2>1, <2>2
<1>2. CASE VpcById(r) \/ VpcByName(r)
  BY <1>2 DEF VpcById, VpcByName, Look, ByName, account, Critical, KeyStep
<1>3. CASE IgwGet(r) \/ SgGet(r) \/ SubnetGet(r) \/ RtbGet(r)
  BY <1>3 DEF IgwGet, SgGet, SubnetGet, RtbGet, Look
<1>4. CASE VpcCreate(r)
  BY <1>4 DEF VpcCreate, Make, Critical, KeyStep
<1>5. CASE IgwCreate(r) \/ SgCreate(r) \/ SubnetCreate(r) \/ RtbCreate(r) \/ Run(r)
  BY <1>5 DEF IgwCreate, SgCreate, SubnetCreate, RtbCreate, Run, Make
<1>6. CASE IgwAttach(r) \/ SgIngress(r) \/ RtbRoute(r) \/ RtbAssociate(r)
  BY <1>6 DEF IgwAttach, SgIngress, RtbRoute, RtbAssociate, Attach
<1>7. CASE Unlock(r) \/ Provision(r)
  BY <1>7 DEF Unlock, Provision
<1> QED BY <1>1, <1>2, <1>3, <1>4, <1>5, <1>6, <1>7 DEF CreateNext

\* A Create goes on from the look-up of a group or a subnet with one.
LEMMA CreateKnows ==
  ASSUME TypeOK, NEW r \in Resource, CreateNext(r)
  PROVE  /\ pc'[r] \in CreateStep \ BeforeSg =>
              \/ pc[r] \in CreateStep \ BeforeSg
              \/ net'[r]["sg"] \in Resource
         /\ pc'[r] \in CreateStep \ BeforeSubnet =>
              \/ pc[r] \in CreateStep \ BeforeSubnet
              \/ net'[r]["subnet"] \in Resource
<1> USE DEF TypeOK, Return, Fault, Fail, NetKind, Kind, Remember, CreateStep, Critical, KeyStep,
        BeforeVpc, KeyStep, BeforeIgw, BeforeSg, BeforeSubnet
<1>1. CASE Lock(r) \/ KeyPair(r) \/ VpcModify(r) \/ SgEgress(r)
  BY <1>1, KeyMoves DEF Lock, VpcModify, SgEgress, Call, ByName
<1>2. CASE VpcById(r) \/ VpcByName(r) \/ IgwGet(r)
  BY <1>2 DEF VpcById, VpcByName, IgwGet, Look, ByName
<1>3. CASE SgGet(r) \/ SubnetGet(r) \/ RtbGet(r)
  BY <1>3 DEF SgGet, SubnetGet, RtbGet, Look, Inside
<1>4. CASE VpcCreate(r) \/ IgwCreate(r) \/ SgCreate(r)
  BY <1>4 DEF VpcCreate, IgwCreate, SgCreate, Make
<1>5. CASE SubnetCreate(r) \/ RtbCreate(r) \/ Run(r)
  BY <1>5 DEF SubnetCreate, RtbCreate, Run, Make
<1>6. CASE IgwAttach(r) \/ SgIngress(r) \/ RtbRoute(r) \/ RtbAssociate(r)
  BY <1>6 DEF IgwAttach, SgIngress, RtbRoute, RtbAssociate, Attach
<1>7. CASE Unlock(r) \/ Provision(r)
  BY <1>7 DEF Unlock, Provision
<1> QED BY <1>1, <1>2, <1>3, <1>4, <1>5, <1>6, <1>7 DEF CreateNext

\* Nobody else makes a VPC of its group name while a Create works on the network.
LEMMA NamedCreate ==
  ASSUME TypeOK, TypeOK', LockInv, OneVpcPerName', ChoiceInv,
         SeparateConfigurations, UniqueNames,
         NEW r \in Resource, CreateNext(r), NEW s \in Resource, Named(s)
  PROVE  Named(s)'
<1> SUFFICES ASSUME pc'[s] \in Critical \ BeforeVpc
             PROVE  /\ net'[s]["vpc"] \in Resource \cup Foreign
                    /\ \A v \in Vpcs' : GroupName(v) = GroupName(net'[s]["vpc"]) => v = net'[s]["vpc"]
  BY DEF Named, GroupName
<1>1. CASE s = r /\ pc[r] \in BeforeVpc
  <2>1. net'[s]["vpc"] \in Vpcs'
    BY <1>1, CreateEnters
  <2>2. \A v \in Vpcs' : GroupName(v) = GroupName(net'[s]["vpc"]) => v = net'[s]["vpc"]
    <3>1. \A v \in Resource \cup Foreign, w \in Resource \cup Foreign :
            v \in Vpcs' /\ w \in Vpcs' /\ GroupName(v) = GroupName(w) => v = w
      <4> SUFFICES ASSUME NEW v \in Resource \cup Foreign, NEW w \in Resource \cup Foreign,
                          v \in Vpcs', w \in Vpcs', GroupName(v) = GroupName(w)
                   PROVE  v = w
        OBVIOUS
      <4> QED BY GroupNames
    <3> QED BY <2>1, <3>1 DEF TypeOK, Vpcs, Kind
  <2> QED BY <2>1, <2>2 DEF TypeOK, Vpcs, Kind
<1>2. CASE ~(s = r /\ pc[r] \in BeforeVpc)
  <2>1. pc[s] \in Critical \ BeforeVpc
    <3>1. CASE s # r
      BY <3>1, CreateTouchesOwn
    <3>2. CASE s = r
      <4>1. ~Lock(r) /\ ~Unlock(r)
        BY <1>2, <3>2 DEF Lock, Unlock, Return, BeforeVpc, Critical, KeyStep, TypeOK
      <4>2. {"run", "provision", "created", "broken"} \cap Critical = {}
        BY DEF Critical, KeyStep
      <4> QED BY <1>2, <3>2, <4>1, <4>2, CriticalMoves DEF Moves, TypeOK
    <3> QED BY <3>1, <3>2
  <2>2. net'[s]["vpc"] = net[s]["vpc"] /\ net[s]["vpc"] \in Resource \cup Foreign
    BY <2>1, CreateKeepsVpc DEF Named
  <2>3. ASSUME NEW v \in Vpcs', v \notin Vpcs PROVE GroupName(v) # GroupName(net[s]["vpc"])
    <3>1. v = r /\ pc[r] = "vpcCreate"
      BY <2>3, CreateAdds, CreateKinds DEF Vpcs, Kind
    <3>2. s # r
      BY <1>2, <3>1 DEF BeforeVpc, KeyStep
    <3>3. mu[CloudOf[s]] = s /\ mu[CloudOf[r]] = r
      BY <2>1, <3>1 DEF LockInv, LockOwner, Critical, KeyStep
    <3>4. MayUse(r, r) /\ MayUse(s, net[s]["vpc"])
      BY <2>2 DEF ChoiceInv, Chosen, MayUse
    <3> QED BY <2>2, <3>1, <3>2, <3>3, <3>4 DEF SeparateConfigurations
  <2> QED BY <2>1, <2>2, <2>3 DEF Named
<1> QED BY <1>1, <1>2

LEMMA GroupCreate ==
  ASSUME TypeOK, TypeOK', LockInv, OneVpcPerName', ChoiceInv, NetInv, GroupInv,
         SeparateConfigurations, UniqueNames, NEW r \in Resource, CreateNext(r)
  PROVE  GroupInv'
<1>0. \A q \in Resource : Fresh(q) /\ Named(q) /\ Hosted(q) /\ Known(q) /\ Nearby(q, "sg")
  BY DEF NetInv, GroupInv
<1>1. \A s \in Resource : Named(s)'
  BY <1>0, NamedCreate
<1>2. ASSUME NEW s \in Resource PROVE Hosted(s)'
  <2> SUFFICES ASSUME s \in up'["sg"] PROVE net'[s]["vpc"] \in Vpcs'
    BY DEF Hosted
  <2>1. Vpcs \subseteq Vpcs'
    BY CreateAdds DEF Vpcs, Kind
  <2>2. CASE s \in up["sg"]
    <3>1. pc[s] \notin BeforeVpc
      BY <1>0, <2>2 DEF Fresh, Placed, Kind
    <3> QED BY <1>0, <2>1, <2>2, <3>1, CreateKeepsVpc DEF Hosted
  <2>3. CASE s \notin up["sg"]
    <3>1. s = r
      BY <2>3, CreateAdds DEF Kind
    <3>2. pc[r] = "sgCreate" /\ net[r]["vpc"] \in Vpcs
      BY <2>3, CreateKinds DEF Placed, Kind
    <3>3. pc[r] \notin BeforeVpc
      BY <3>2 DEF BeforeVpc, KeyStep
    <3> QED BY <2>1, <3>1, <3>2, <3>3, CreateKeepsVpc
  <2> QED BY <2>2, <2>3
<1>3. ASSUME NEW s \in Resource PROVE Known(s)'
  <2>1. CASE s # r
    BY <1>0, <2>1, CreateTouchesOwn, CreateRemembers DEF Known
  <2>2. CASE s = r
    <3>1. pc[r] \in CreateStep \ BeforeSg => net'[r]["sg"] # None
      <4> USE DEF BeforeSg
      <4>1. pc[r] \in CreateStep \ BeforeSg => net'[r]["sg"] = net[r]["sg"]
        BY CreateRemembers
      <4> QED BY <1>0, <4>1 DEF Known
    <3>2. pc[r] \in CreateStep \ BeforeSubnet => net'[r]["subnet"] # None
      <4>1. pc[r] \in CreateStep \ BeforeSubnet => net'[r]["subnet"] = net[r]["subnet"]
        BY CreateRemembers DEF BeforeSubnet
      <4> QED BY <1>0, <4>1 DEF Known
    <3> QED BY <2>2, <3>1, <3>2, CreateKnows DEF Known
  <2> QED BY <2>1, <2>2
<1>4. ASSUME net'[r]["sg"] # net[r]["sg"]
      PROVE  /\ net'[r]["sg"] \in Resource
             /\ pc[r] \notin BeforeVpc /\ pc[net'[r]["sg"]] \notin BeforeVpc
             /\ net[net'[r]["sg"]]["vpc"] = net[r]["vpc"]
  <2>1. pc[r] \in {"sgGet", "sgCreate"}
    BY <1>4, CreateRemembers
  <2>2. CASE net'[r]["sg"] = r
    BY <2>1, <2>2 DEF BeforeVpc, KeyStep
  <2>3. CASE net'[r]["sg"] # r
    <3>1. PICK g \in up["sg"] : g = net'[r]["sg"] /\ GroupName(net[g]["vpc"]) = GroupName(net[r]["vpc"])
      BY <1>4, <2>3, CreateRemembers
    <3>2. g \in Resource /\ pc[g] \notin BeforeVpc /\ net[g]["vpc"] \in Vpcs
      BY <1>0 DEF Fresh, Hosted, Placed, Kind, TypeOK
    <3>3. pc[r] \in Critical \ BeforeVpc
      BY <2>1 DEF Critical, KeyStep, BeforeVpc
    <3>4. net[g]["vpc"] = net[r]["vpc"]
      BY <1>0, <3>1, <3>2, <3>3 DEF Named
    <3> QED BY <3>1, <3>2, <3>3, <3>4
  <2> QED BY <2>2, <2>3
<1>5. \A s \in Resource : Nearby(s, "sg")'
  BY <1>0, <1>4, NearbyCreate DEF Found
<1> QED BY <1>1, <1>2, <1>3, <1>5 DEF GroupInv

LEMMA DeleteKeepsHosts ==
  ASSUME TypeOK, NEW r \in Resource, DeleteNext(r),
         NEW s \in up["sg"], net[s]["vpc"] \in Vpcs
  PROVE  net[s]["vpc"] \in Vpcs'
<1>1. CASE VpcDelete(r)
  <2>1. net[s]["vpc"] # r \/ up' = up
    BY <1>1 DEF VpcDelete, Remove, MayRemove, Inside
  <2>2. up' = up \/ up'["vpc"] = up["vpc"] \ {r}
    BY <1>1 DEF VpcDelete, Remove, TypeOK, Kind
  <2> QED BY <2>1, <2>2 DEF Vpcs
<1>2. CASE ~VpcDelete(r)
  <2> USE DEF account, TypeOK, Kind
  <2>1. CASE GetResources(r) \/ Terminate(r) \/ AwaitTerminated(r)
    BY <2>1 DEF GetResources, Terminate, AwaitTerminated, Vpcs
  <2>2. CASE RtbDescribe(r) \/ RtbDisassociate(r) \/ IgwDescribe(r) \/ IgwDetach(r)
    BY <2>2 DEF RtbDescribe, RtbDisassociate, IgwDescribe, IgwDetach, Vpcs
  <2>3. CASE RtbDelete(r) \/ SubnetDelete(r) \/ SgDelete(r) \/ IgwDelete(r)
    BY <2>3 DEF RtbDelete, SubnetDelete, SgDelete, IgwDelete, Remove, Vpcs
  <2> QED BY <1>2, <2>1, <2>2, <2>3 DEF DeleteNext
<1> QED BY <1>1, <1>2

\* A step that only removes, and no VPC that has a group.
LEMMA GroupKept ==
  ASSUME GroupInv, UNCHANGED net, \A r \in Resource : Onward(r),
         \A r \in Resource : pc'[r] \in CreateStep \ BeforeVpc => pc'[r] = pc[r],
         Vpcs' \subseteq Vpcs, up'["sg"] \subseteq up["sg"],
         \A s \in up["sg"] : net[s]["vpc"] \in Vpcs => net[s]["vpc"] \in Vpcs'
  PROVE  GroupInv'
<1> SUFFICES ASSUME NEW s \in Resource
             PROVE  Named(s)' /\ Hosted(s)' /\ Known(s)' /\ Nearby(s, "sg")'
  BY DEF GroupInv
<1>0. Named(s) /\ Hosted(s) /\ Known(s) /\ Nearby(s, "sg")
  BY DEF GroupInv
<1>1. Named(s)'
  <2>1. pc'[s] \in Critical \ BeforeVpc => pc'[s] = pc[s]
    BY DEF CreateStep
  <2> QED BY <1>0, <2>1 DEF Named, GroupName
<1>2. Hosted(s)'
  BY <1>0 DEF Hosted
<1>3. Known(s)'
  <2>1. BeforeVpc \subseteq BeforeSg /\ BeforeVpc \subseteq BeforeSubnet
    BY DEF BeforeIgw, BeforeSg, BeforeSubnet
  <2> QED BY <1>0, <2>1 DEF Known
<1>4. Nearby(s, "sg")'
  BY <1>0 DEF Nearby, Onward
<1> QED BY <1>1, <1>2, <1>3, <1>4

LEMMA GroupInductive ==
  ASSUME SeparateConfigurations, UniqueNames
  PROVE  /\ TypeOK /\ LockInv /\ NameInv /\ ChoiceInv /\ NetInv /\ GroupInv
         /\ TypeOK' /\ NameInv' /\ [Next]_vars
         => GroupInv'
<1> SUFFICES ASSUME TypeOK, LockInv, NameInv, ChoiceInv, NetInv, GroupInv, TypeOK', NameInv',
                    [Next]_vars
             PROVE  GroupInv'
  OBVIOUS
<1>1. ASSUME NEW r \in Resource, Create(r) PROVE GroupInv'
  <2>1. UNCHANGED <<up, net>> /\ pc' = [pc EXCEPT ![r] = "lock"] /\ pc[r] = "absent"
    BY <1>1 DEF Create, Return, account
  <2>2. "lock" \in BeforeVpc /\ "absent" \in BeforeVpc /\ BeforeVpc \subseteq BeforeRtb
    BY BeforeIn DEF BeforeVpc, KeyStep
  <2> QED BY <2>1, <2>2, GroupKept DEF TypeOK, Onward, Vpcs
<1>2. ASSUME NEW r \in Resource, CreateNext(r) PROVE GroupInv'
  BY <1>2, GroupCreate DEF NameInv
<1>3. ASSUME NEW r \in Resource, Delete(r) PROVE GroupInv'
  <2>1. UNCHANGED <<up, net>> /\ pc' = [pc EXCEPT ![r] = "dGet"]
    BY <1>3 DEF Delete, Return, account
  <2>2. "dGet" \notin BeforeRtb \cup BeforeVpc \cup CreateStep
    BY BeforeIn DEF DeleteStep, CreateStep, Critical, KeyStep
  <2> QED BY <2>1, <2>2, GroupKept DEF TypeOK, Onward, Vpcs
<1>4. ASSUME NEW r \in Resource, DeleteNext(r) PROVE GroupInv'
  <2>1. \A s \in Resource :
          Onward(s) /\ (pc'[s] \in CreateStep \ BeforeVpc => pc'[s] = pc[s])
    <3>1. (DeleteStep \cup {"broken", "destroyed"}) \cap (CreateStep \cup BeforeRtb \cup BeforeVpc) = {}
      BY BeforeIn DEF DeleteStep, CreateStep, Critical, KeyStep
    <3>2. /\ \A s \in Resource \ {r} : pc'[s] = pc[s]
          /\ pc'[r] \in DeleteStep \cup {"broken", "destroyed"}
      BY <1>4, DeleteMoves DEF Moves, TypeOK
    <3>3. ASSUME NEW s \in Resource
          PROVE  Onward(s) /\ (pc'[s] \in CreateStep \ BeforeVpc => pc'[s] = pc[s])
      <4>1. CASE s = r
        <5>1. pc'[s] \notin CreateStep \cup BeforeRtb \cup BeforeVpc
          BY <3>1, <3>2, <4>1
        <5> QED BY <5>1 DEF Onward
      <4>2. CASE s # r
        BY <3>2, <4>2 DEF Onward
      <4> QED BY <4>1, <4>2
    <3> QED BY <3>3
  <2>2. Vpcs' \subseteq Vpcs /\ up'["sg"] \subseteq up["sg"] /\ UNCHANGED net
    BY <1>4, DeleteKeepsVpcs, DeleteLoosens DEF Vpcs, Kind
  <2>3. ASSUME NEW s \in up["sg"], net[s]["vpc"] \in Vpcs PROVE net[s]["vpc"] \in Vpcs'
    BY <1>4, <2>3, DeleteKeepsHosts
  <2> QED BY <2>1, <2>2, <2>3, GroupKept
<1>5. ASSUME NEW r \in Resource, InstanceGone(r) PROVE GroupInv'
  <2>1. UNCHANGED <<pc, net>> /\ up'["vpc"] = up["vpc"] /\ up'["sg"] = up["sg"]
    BY <1>5 DEF InstanceGone, TypeOK, Kind
  <2> QED BY <2>1, GroupKept DEF Onward, Vpcs
<1>6. ASSUME NEW c \in Cloud, EndRun(c) PROVE GroupInv'
  <2>1. {"lost", "broken"} \cap (CreateStep \cup BeforeRtb \cup BeforeVpc) = {}
    BY BeforeIn DEF CreateStep, Critical, KeyStep
  <2> QED BY <1>6, <2>1, EndRunKeeps, GroupKept DEF Onward, Vpcs
<1>7. ASSUME NEW r \in Resource, Panic(r) PROVE GroupInv'
  BY <1>6, <1>7 DEF Panic
<1>8. ASSUME NEW c \in Cloud, NewRun(c) \/ Interrupt(c) \/ Kill(c) PROVE GroupInv'
  BY <1>6, <1>8 DEF NewRun, Interrupt, Kill
<1>9. CASE UNCHANGED vars
  BY <1>9, GroupKept DEF vars, Onward, Vpcs
<1> QED BY <1>1, <1>2, <1>3, <1>4, <1>5, <1>7, <1>8, <1>9 DEF Next

\* For configurations that have no VPC in common, and foreign VPCs with names of
\* their own: a Create past its critical section has its group and its subnet in its own VPC,
\* whatever destroys, failures and kills have come between its look-ups.
THEOREM PlacedInOneVpc ==
  ASSUME SeparateConfigurations, UniqueNames
  PROVE  Spec => []PlacementConsistent
<1> DEFINE Inv == TypeOK /\ LockInv /\ NameInv /\ ChoiceInv /\ NetInv /\ GroupInv
<1>1. Init => Inv
  <2>1. Init => NameInv
    BY DEF Init, NameInv, OneVpcPerName, Kind
  <2>2. Init => GroupInv
    BY DEF Init, GroupInv, Named, Hosted, Known, Nearby, NetKind, Kind, CreateStep, Critical, KeyStep
  <2> QED BY <2>1, <2>2, TypeInit, LockInit, ChoiceInit, NetInit
<1>2. Inv /\ [Next]_vars => Inv'
  BY TypeInductive, LockInductive, NameInductive, ChoiceInductive, NetInductive,
     GroupInductive
<1>3. Inv => PlacementConsistent
  <2> SUFFICES ASSUME Inv, NEW r \in Resource, pc[r] \in {"unlock", "run", "provision"}
               PROVE  /\ net[net[r]["sg"]]["vpc"] = net[r]["vpc"]
                      /\ net[net[r]["subnet"]]["vpc"] = net[r]["vpc"]
    BY DEF PlacementConsistent
  <2>1. pc[r] \in CreateStep \ BeforeSubnet /\ pc[r] \in CreateStep \ BeforeSg
    BY DEF CreateStep, Critical, KeyStep, BeforeVpc, BeforeIgw, BeforeSg, BeforeSubnet
  <2>2. net[r]["sg"] # None /\ net[r]["subnet"] # None
    BY <2>1 DEF GroupInv, Known
  <2> QED BY <2>2 DEF GroupInv, NetInv, Nearby
<1> QED BY <1>1, <1>2, <1>3, PTL DEF Spec

=============================================================================
