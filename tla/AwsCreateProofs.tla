-------------------------- MODULE AwsCreateProofs --------------------------
(***************************************************************************)
(* Creates that share a network do not make each other fail, as long as no *)
(* two configurations share one or a key; and, for any configurations, how *)
(* Terraform loses a resource, and what stops a destroy when errors are    *)
(* ignored and when no call fails.                                         *)
(***************************************************************************)
EXTENDS AwsNetworkProofs, AwsLifecycleProofs

USE SharingAssumption, ConfigAssumption, SwitchAssumption, BoundAssumption
USE KeyAssumption DEF keys

-----------------------------------------------------------------------------
(* Nothing has failed and no destroy has begun.                            *)

Quiet ==
  /\ faults = 0 /\ kills = 0
  /\ \A s \in Resource : ~Deleting(s) /\ pc[s] \notin {"broken", "destroyed"}

BeforeAttached == BeforeIgw \cup {"igwAttach"}

\* What a Create has got to know exists and is complete.
Sound(r) ==
  /\ pc[r] # "lost"
  /\ pc[r] \notin BeforeVpc => net[r]["vpc"] \in Vpcs
  /\ pc[r] = "igwAttach" => net[r]["igw"] = r
  /\ pc[r] \notin BeforeAttached => net[r]["igw"] \in link["attachment"]
  /\ pc[r] = "sgIngress" => net[r]["sg"] = r
  /\ pc[r] \notin BeforeSg =>
       net[r]["sg"] \in up["sg"] /\ (net[r]["sg"] \in link["ingress"] \/ pc[r] = "sgIngress")
  /\ pc[r] \notin BeforeSubnet => net[r]["subnet"] \in up["subnet"]
  /\ pc[r] \in {"unlock", "run", "provision"} => \E s \in Resource : Serves(s, r)
  /\ pc[r] = "provision" => r \in up["instance"]

\* What a Create is about to make is not there yet.
Missing(r) ==
  /\ pc[r] \in {"igwCreate", "igwAttach"} => Gateways(net[r]["vpc"]) = {}
  /\ pc[r] = "sgCreate" => Inside(net[r]["vpc"], "sg") = {}
  /\ pc[r] = "subnetCreate" => Inside(net[r]["vpc"], "subnet") = {}
  /\ pc[r] \in {"rtbCreate", "rtbRoute", "rtbAssociate"} =>
       Inside(net[r]["vpc"], "rtb") \cap link["route"] \subseteq {r}

\* An object that is not being worked on is complete, and a VPC has one subnet.
Complete(r) ==
  /\ r \in up["sg"] => r \in link["ingress"] \/ pc[r] = "sgIngress"
  /\ r \in up["rtb"] => r \in link["association"] \/ pc[r] \in {"rtbRoute", "rtbAssociate"}
  /\ r \in link["association"] => r \in up["rtb"] \cap link["route"] /\ pc[r] \notin Critical \ {"unlock"}
  /\ pc[r] \in {"rtbRoute", "rtbAssociate"} => r \in up["rtb"]
  /\ pc[r] = "rtbAssociate" => r \in link["route"]
  /\ \A s \in up["subnet"] : r \in up["subnet"] /\ net[s]["vpc"] = net[r]["vpc"] => s = r

QuietInv == Quiet => \A r \in Resource : Sound(r) /\ Missing(r) /\ Complete(r)

\* No two configurations name one key pair, and one keeps it in one file.
SeparateKeys ==
  \A r, s \in Resource : KeyName[r] = KeyName[s] =>
    CloudOf[r] = CloudOf[s] /\ KeyFile[r] = KeyFile[s]

\* The steps of a Create that found no key pair of the name.
KeyDrawn == {"keyFile", "keyWrite", "keyWritten", "keyImport"}

\* A key pair has the key of its file, and a file is only torn while it is written.
Keyed(r) ==
  /\ pc[r] \in KeyDrawn => Namesakes(r) = {}
  /\ pc[r] \in CreateStep \ (KeyDrawn \cup {"lock", "keyDescribe"}) => Namesakes(r) # {}
  /\ file[KeyFile[r]] = Torn =>
       \E q \in Resource : pc[q] = "keyWritten" /\ KeyFile[q] = KeyFile[r]
  /\ r \in pairs \/ pc[r] = "keyImport" => key[r] = file[KeyFile[r]]

KeyInv == Quiet => \A r \in Resource : Keyed(r)
-----------------------------------------------------------------------------
(* How a Create fails although no call fails: AWS refuses it.              *)

Refused(r) ==
  \/ pc[r] = "sgCreate" /\ ~MayMake(r, "sg")
  \/ pc[r] = "subnetCreate" /\ ~MayMake(r, "subnet")
  \/ pc[r] = "rtbCreate" /\ ~MayMake(r, "rtb")
  \/ pc[r] = "run" /\ ~MayMake(r, "instance")
  \/ pc[r] = "igwAttach" /\ ~MayTie(r, "attachment")
  \/ pc[r] = "rtbRoute" /\ ~MayTie(r, "route")
  \/ pc[r] = "rtbAssociate" /\ ~MayTie(r, "association")
  \/ pc[r] = "provision" /\ ~(Reachable(r) /\ Fits(r))
  \/ pc[r] = "keyCheck" /\ ~Fits(r)
  \/ pc[r] = "keyFile" /\ file[KeyFile[r]] = Torn
  \/ pc[r] = "keyImport" /\ Namesakes(r) # {}

LEMMA RefusedOnly ==
  ASSUME TypeOK, NEW r \in Resource, CreateNext(r), faults' = faults, pc'[r] = "broken"
  PROVE  Refused(r)
<1> USE DEF TypeOK, Refused, Return, Fault, Fail
<1>0. CASE KeyPair(r)
  BY <1>0 DEF KeyPair, KeyDescribe, KeyCheck, KeyRead, KeyTruncate, KeyWrite, KeyImport,
              AfterKeys, ByName
<1>1. CASE Lock(r) \/ VpcModify(r) \/ SgEgress(r)
  BY <1>1 DEF Lock, VpcModify, SgEgress, Call, ByName
<1>2. CASE VpcById(r) \/ VpcByName(r) \/ IgwGet(r)
  BY <1>2 DEF VpcById, VpcByName, IgwGet, Look, ByName
<1>3. CASE SgGet(r) \/ SubnetGet(r) \/ RtbGet(r)
  BY <1>3 DEF SgGet, SubnetGet, RtbGet, Look
<1>4. CASE VpcCreate(r)
  <2>1. MayMake(r, "vpc")
    BY DEF MayMake
  <2> QED BY <1>4, <2>1 DEF VpcCreate, Make
<1>5. CASE IgwCreate(r)
  <2>1. MayMake(r, "igw")
    BY DEF MayMake
  <2> QED BY <1>5, <2>1 DEF IgwCreate, Make
<1>6. CASE SgCreate(r) \/ SubnetCreate(r) \/ RtbCreate(r) \/ Run(r)
  BY <1>6 DEF SgCreate, SubnetCreate, RtbCreate, Run, Make
<1>7. CASE IgwAttach(r) \/ RtbRoute(r) \/ RtbAssociate(r)
  BY <1>7 DEF IgwAttach, RtbRoute, RtbAssociate, Attach
<1>8. CASE SgIngress(r)
  <2>1. MayTie(r, "ingress")
    BY DEF MayTie
  <2> QED BY <1>8, <2>1 DEF SgIngress, Attach
<1>9. CASE Unlock(r) \/ Provision(r)
  BY <1>9 DEF Unlock, Provision
<1> QED BY <1>0, <1>1, <1>2, <1>3, <1>4, <1>5, <1>6, <1>7, <1>8, <1>9 DEF CreateNext

\* Of the resources that use one key pair, one at a time works on it.
LEMMA AloneWithKey ==
  ASSUME TypeOK, LockInv, SeparateKeys, NEW q \in Resource, NEW r \in Resource,
         pc[q] \in KeyStep, pc[r] \in KeyStep, KeyName[q] = KeyName[r]
  PROVE  q = r
<1>1. pc[q] \in Critical /\ pc[r] \in Critical /\ CloudOf[q] = CloudOf[r]
  BY DEF Critical, SeparateKeys
<1> QED BY <1>1 DEF LockInv, LockOwner

\* In a quiet state a key file is the private key of the key pair of its name.
LEMMA KeyFits ==
  ASSUME SeparateKeys, Quiet, KeyInv, NEW r \in Resource, TypeOK, Namesakes(r) # {}
  PROVE  Fits(r)
<1> PICK s \in Namesakes(r) : TRUE
  OBVIOUS
<1>1. s \in Resource /\ s \in pairs /\ KeyFile[s] = KeyFile[r]
  BY DEF Namesakes, TypeOK, SeparateKeys
<1> QED BY <1>1 DEF Fits, KeyInv, Keyed

\* In a quiet state no call of a Create is refused.
LEMMA NothingRefused ==
  ASSUME TypeOK, LockInv, NetInv, GroupInv, ShutInv, Quiet, QuietInv, KeyInv, SeparateKeys,
         NEW r \in Resource
  PROVE  ~Refused(r)
<1> USE DEF TypeOK
<1>0. Sound(r) /\ Missing(r) /\ Complete(r)
  BY DEF QuietInv
<1>1. ASSUME pc[r] = "sgCreate" PROVE MayMake(r, "sg")
  <2>1. pc[r] \notin BeforeVpc
    BY <1>1 DEF BeforeVpc, KeyStep
  <2> QED BY <1>0, <1>1, <2>1 DEF Sound, Missing, MayMake
<1>2. ASSUME pc[r] = "subnetCreate" PROVE MayMake(r, "subnet")
  <2>1. pc[r] \notin BeforeVpc
    BY <1>2 DEF BeforeVpc, KeyStep
  <2> QED BY <1>0, <1>2, <2>1 DEF Sound, Missing, MayMake
<1>3. ASSUME pc[r] = "rtbCreate" PROVE MayMake(r, "rtb")
  <2>1. pc[r] \notin BeforeVpc
    BY <1>3 DEF BeforeVpc, KeyStep
  <2> QED BY <1>0, <1>3, <2>1 DEF Sound, MayMake
<1>4. ASSUME pc[r] = "run" PROVE MayMake(r, "instance")
  <2>1. pc[r] \notin BeforeSg /\ pc[r] \notin BeforeSubnet
    BY <1>4 DEF BeforeVpc, KeyStep, BeforeIgw, BeforeSg, BeforeSubnet
  <2>2. net[r]["sg"] \in up["sg"] /\ net[r]["subnet"] \in up["subnet"]
    BY <1>0, <2>1 DEF Sound
  <2>3. net[r]["sg"] # None /\ net[r]["subnet"] # None
    BY <2>2 DEF Kind
  <2>4. net[net[r]["sg"]]["vpc"] = net[net[r]["subnet"]]["vpc"]
    BY <2>3 DEF GroupInv, NetInv, Nearby
  <2> QED BY <2>2, <2>4 DEF MayMake
<1>5. ASSUME pc[r] = "igwAttach" PROVE MayTie(r, "attachment")
  <2>1. pc[r] \notin BeforeVpc
    BY <1>5 DEF BeforeVpc, KeyStep
  <2> QED BY <1>0, <1>5, <2>1 DEF Sound, Missing, MayTie
<1>6. ASSUME pc[r] = "rtbRoute" PROVE MayTie(r, "route")
  <2>1. pc[r] \notin BeforeAttached
    BY <1>6 DEF BeforeVpc, KeyStep, BeforeIgw, BeforeAttached
  <2>2. net[r]["igw"] \in link["attachment"]
    BY <1>0, <2>1 DEF Sound
  <2>3. net[net[r]["igw"]]["vpc"] = net[r]["vpc"]
    BY <2>2 DEF NetInv, Nearby, Tie
  <2> QED BY <2>2, <2>3 DEF MayTie, Gateways
<1>7. ASSUME pc[r] = "rtbAssociate" PROVE MayTie(r, "association")
  <2>1. pc[r] \notin BeforeSubnet
    BY <1>7 DEF BeforeVpc, KeyStep, BeforeIgw, BeforeSg, BeforeSubnet
  <2>2. net[r]["subnet"] \in up["subnet"]
    BY <1>0, <2>1 DEF Sound
  <2>3. ASSUME NEW s \in link["association"] PROVE net[s]["subnet"] # net[r]["subnet"]
    <3> SUFFICES ASSUME net[s]["subnet"] = net[r]["subnet"] PROVE FALSE
      OBVIOUS
    <3>1. s \in Resource
      BY DEF Tie
    <3>2. s \in up["rtb"] \cap link["route"]
      BY <3>1 DEF QuietInv, Complete
    <3>3. net[s]["vpc"] = net[r]["vpc"]
      BY <2>2, <3>1 DEF NetInv, Nearby, Kind
    <3>4. s \in Inside(net[r]["vpc"], "rtb") \cap link["route"]
      BY <3>2, <3>3 DEF Inside
    <3>5. s = r
      BY <1>0, <1>7, <3>4 DEF Missing
    <3> QED BY <1>0, <1>7, <3>5 DEF Complete, Critical, KeyStep
  <2> QED BY <2>2, <2>3 DEF MayTie
<1>8. ASSUME pc[r] = "provision" PROVE Reachable(r)
  <2>1. r \in up["instance"]
    BY <1>0, <1>8 DEF Sound
  <2>2. r \notin shutting
    BY <1>8 DEF ShutInv, DeleteStep
  <2>3. pc[r] \notin BeforeSg
    BY <1>8 DEF BeforeVpc, KeyStep, BeforeIgw, BeforeSg
  <2>4. net[r]["sg"] \in link["ingress"]
    BY <1>0, <1>8, <2>3 DEF Sound
  <2>5. \E s \in Resource : Serves(s, r)
    BY <1>0, <1>8 DEF Sound
  <2> QED BY <2>1, <2>2, <2>4, <2>5 DEF Reachable, Serves
<1>9. ASSUME pc[r] \in {"keyCheck", "provision"} PROVE Fits(r)
  <2>1. pc[r] \in CreateStep \ (KeyDrawn \cup {"lock", "keyDescribe"})
    BY <1>9 DEF CreateStep, Critical, KeyStep, KeyDrawn
  <2> QED BY <2>1, KeyFits DEF KeyInv, Keyed
<1>10. ASSUME pc[r] = "keyFile" PROVE file[KeyFile[r]] # Torn
  <2> SUFFICES ASSUME file[KeyFile[r]] = Torn PROVE FALSE
    OBVIOUS
  <2> PICK q \in Resource : pc[q] = "keyWritten" /\ KeyFile[q] = KeyFile[r]
    BY DEF KeyInv, Keyed
  <2> QED BY <1>10, AloneWithKey DEF KeyStep
<1>11. ASSUME pc[r] = "keyImport" PROVE Namesakes(r) = {}
  BY <1>11 DEF KeyInv, Keyed, KeyDrawn
<1> QED BY <1>1, <1>2, <1>3, <1>4, <1>5, <1>6, <1>7, <1>8, <1>9, <1>10, <1>11 DEF Refused

-----------------------------------------------------------------------------
(* Where a Create that goes on comes from, and with what.                  *)

\* The gateway and the group.
LEMMA EntersGroup ==
  ASSUME TypeOK, NEW r \in Resource, CreateNext(r), pc'[r] # "broken"
  PROVE  /\ pc'[r] = "igwCreate" => pc[r] = "igwGet" /\ Gateways(net[r]["vpc"]) = {}
         /\ pc'[r] = "igwAttach" => pc[r] = "igwCreate" /\ net'[r]["igw"] = r
         /\ pc'[r] \notin BeforeAttached =>
              \/ pc[r] \notin BeforeAttached
              \/ pc[r] = "igwGet" /\ net'[r]["igw"] \in Gateways(net[r]["vpc"])
              \/ pc[r] = "igwAttach" /\ r \in link'["attachment"]
         /\ pc'[r] = "sgCreate" =>
              /\ pc[r] = "sgGet"
              /\ \A s \in up["sg"] : GroupName(net[s]["vpc"]) # GroupName(net[r]["vpc"])
         /\ pc'[r] = "sgIngress" => pc[r] = "sgCreate" /\ net'[r]["sg"] = r
         /\ pc'[r] \notin BeforeSg =>
              \/ pc[r] \notin BeforeSg \cup {"sgIngress"}
              \/ /\ pc[r] = "sgGet" /\ net'[r]["sg"] \in up["sg"]
                 /\ GroupName(net[net'[r]["sg"]]["vpc"]) = GroupName(net[r]["vpc"])
              \/ pc[r] = "sgCreate" /\ pc'[r] = "sgIngress" /\ r \in up'["sg"]
              \/ pc[r] = "sgIngress" /\ r \in link'["ingress"]
<1> USE DEF TypeOK, Return, Fault, Fail, Remember, NetKind, Kind, Tie
<1> DEFINE B == BeforeVpc \cup BeforeIgw \cup BeforeAttached \cup BeforeSg
<1>0. B = KeyStep \cup {"absent", "lock", "vpcById", "vpcByName", "vpcCreate", "vpcModify",
           "igwGet", "igwCreate", "igwAttach", "sgGet", "sgCreate"}
  BY DEF BeforeVpc, KeyStep, BeforeIgw, BeforeAttached, BeforeSg
<1> USE DEF BeforeVpc, KeyStep, BeforeIgw, BeforeAttached, BeforeSg
<1>1. CASE Lock(r) \/ KeyPair(r) \/ VpcModify(r) \/ SgEgress(r)
  BY <1>1, KeyMoves DEF Lock, VpcModify, SgEgress, Call, ByName
<1>2. CASE VpcById(r) \/ VpcByName(r)
  BY <1>2 DEF VpcById, VpcByName, Look, ByName
<1>3. CASE IgwGet(r)
  BY <1>3 DEF IgwGet, Look
<1>4. CASE SgGet(r)
  BY <1>4 DEF SgGet, Look
<1>5. CASE SubnetGet(r) \/ RtbGet(r)
  BY <1>5 DEF SubnetGet, RtbGet, Look
<1>6. CASE VpcCreate(r) \/ IgwCreate(r)
  BY <1>6 DEF VpcCreate, IgwCreate, Make
<1>7. CASE SgCreate(r)
  BY <1>7 DEF SgCreate, Make
<1>8. CASE SubnetCreate(r) \/ RtbCreate(r) \/ Run(r)
  BY <1>8 DEF SubnetCreate, RtbCreate, Run, Make
<1>9. CASE IgwAttach(r)
  BY <1>9 DEF IgwAttach, Attach
<1>10. CASE SgIngress(r)
  BY <1>10 DEF SgIngress, Attach
<1>11. CASE RtbRoute(r) \/ RtbAssociate(r)
  BY <1>11 DEF RtbRoute, RtbAssociate, Attach
<1>12. CASE Unlock(r) \/ Provision(r)
  BY <1>12 DEF Unlock, Provision
<1> QED BY <1>1, <1>2, <1>3, <1>4, <1>5, <1>6, <1>7, <1>8, <1>9, <1>10, <1>11, <1>12
       DEF CreateNext

\* The subnet, the route table and the instances.
LEMMA EntersTable ==
  ASSUME TypeOK, NEW r \in Resource, CreateNext(r), pc'[r] # "broken"
  PROVE  /\ pc'[r] = "subnetCreate" =>
              pc[r] = "subnetGet" /\ Inside(net[r]["vpc"], "subnet") = {}
         /\ pc'[r] \notin BeforeSubnet =>
              \/ pc[r] \notin BeforeSubnet
              \/ pc[r] = "subnetGet" /\ net'[r]["subnet"] \in up["subnet"]
              \/ pc[r] = "subnetCreate" /\ net'[r]["subnet"] = r /\ r \in up'["subnet"]
         /\ pc'[r] = "rtbCreate" =>
              pc[r] = "rtbGet" /\ Inside(net[r]["vpc"], "rtb") \cap link["route"] = {}
         /\ pc'[r] = "rtbRoute" => pc[r] = "rtbCreate" /\ r \in up'["rtb"]
         /\ pc'[r] = "rtbAssociate" => pc[r] = "rtbRoute" /\ r \in link'["route"]
         /\ pc'[r] = "unlock" =>
              \/ /\ pc[r] = "rtbGet"
                 /\ \E s : s \in Inside(net[r]["vpc"], "rtb") \cap link["route"]
              \/ pc[r] = "rtbAssociate" /\ r \in link'["association"]
         /\ pc'[r] = "run" => pc[r] = "unlock"
         /\ pc'[r] = "provision" => pc[r] = "run" /\ r \in up'["instance"]
<1> USE DEF TypeOK, Return, Fault, Fail, Remember, NetKind, Kind, Tie, Inside
<1> USE DEF BeforeVpc, KeyStep, BeforeIgw, BeforeSg, BeforeSubnet
<1>1. CASE Lock(r) \/ KeyPair(r) \/ VpcModify(r) \/ SgEgress(r)
  BY <1>1, KeyMoves DEF Lock, VpcModify, SgEgress, Call, ByName
<1>2. CASE VpcById(r) \/ VpcByName(r) \/ IgwGet(r) \/ SgGet(r)
  BY <1>2 DEF VpcById, VpcByName, IgwGet, SgGet, Look, ByName
<1>3. CASE SubnetGet(r)
  BY <1>3 DEF SubnetGet, Look
<1>4. CASE RtbGet(r)
  BY <1>4 DEF RtbGet, Look
<1>5. CASE VpcCreate(r) \/ IgwCreate(r) \/ SgCreate(r)
  BY <1>5 DEF VpcCreate, IgwCreate, SgCreate, Make
<1>6. CASE SubnetCreate(r)
  BY <1>6 DEF SubnetCreate, Make
<1>7. CASE RtbCreate(r)
  BY <1>7 DEF RtbCreate, Make
<1>8. CASE Run(r)
  BY <1>8 DEF Run, Make
<1>9. CASE IgwAttach(r) \/ SgIngress(r)
  BY <1>9 DEF IgwAttach, SgIngress, Attach
<1>10. CASE RtbRoute(r)
  BY <1>10 DEF RtbRoute, Attach
<1>11. CASE RtbAssociate(r)
  BY <1>11 DEF RtbAssociate, Attach
<1>12. CASE Unlock(r) \/ Provision(r)
  BY <1>12 DEF Unlock, Provision
<1> QED BY <1>1, <1>2, <1>3, <1>4, <1>5, <1>6, <1>7, <1>8, <1>9, <1>10, <1>11, <1>12
       DEF CreateNext

\* An object that a Create adds is the one its next step is about.
LEMMA AddsThenWorks ==
  ASSUME TypeOK, NEW r \in Resource, CreateNext(r), pc'[r] # "broken"
  PROVE  /\ up'["sg"] # up["sg"] => pc'[r] = "sgIngress"
         /\ up'["rtb"] # up["rtb"] => pc'[r] = "rtbRoute"
         /\ up'["subnet"] # up["subnet"] => Inside(net[r]["vpc"], "subnet") = {}
         /\ pc[r] = "sgIngress" => r \in link'["ingress"]
         /\ pc[r] = "rtbRoute" => r \in link'["route"] /\ pc'[r] = "rtbAssociate"
         /\ pc[r] = "rtbAssociate" => r \in link'["association"] /\ pc'[r] = "unlock"
<1> USE DEF TypeOK, Return, Fault, Fail, Kind, Tie
<1>1. CASE Lock(r) \/ KeyPair(r) \/ VpcModify(r) \/ SgEgress(r)
  BY <1>1, KeyMoves DEF Lock, VpcModify, SgEgress, Call, account, KeyStep
<1>2. CASE VpcById(r) \/ VpcByName(r) \/ IgwGet(r) \/ SgGet(r)
  BY <1>2 DEF VpcById, VpcByName, IgwGet, SgGet, Look, account
<1>3. CASE SubnetGet(r) \/ RtbGet(r)
  BY <1>3 DEF SubnetGet, RtbGet, Look, account
<1>4. CASE VpcCreate(r) \/ IgwCreate(r) \/ RtbCreate(r) \/ Run(r)
  BY <1>4 DEF VpcCreate, IgwCreate, RtbCreate, Run, Make
<1>5. CASE SgCreate(r)
  BY <1>5 DEF SgCreate, Make
<1>6. CASE SubnetCreate(r)
  BY <1>6 DEF SubnetCreate, Make, MayMake
<1>7. CASE IgwAttach(r) \/ SgIngress(r)
  BY <1>7 DEF IgwAttach, SgIngress, Attach
<1>8. CASE RtbRoute(r)
  BY <1>8 DEF RtbRoute, Attach
<1>9. CASE RtbAssociate(r)
  BY <1>9 DEF RtbAssociate, Attach
<1>10. CASE Unlock(r) \/ Provision(r)
  BY <1>10 DEF Unlock, Provision, account
<1> QED BY <1>1, <1>2, <1>3, <1>4, <1>5, <1>6, <1>7, <1>8, <1>9, <1>10 DEF CreateNext

-----------------------------------------------------------------------------
(* Creates keep each other's networks sound.                               *)

\* A Create that makes a part of a network works alone in its VPC.
LEMMA OthersWait ==
  ASSUME TypeOK, LockInv, ChoiceInv, SeparateConfigurations,
         NEW q \in Resource, NEW r \in Resource, pc[q] \in Critical, pc[r] \in Critical,
         net[q]["vpc"] \in Vpcs, GroupName(net[r]["vpc"]) = GroupName(net[q]["vpc"]),
         net[r]["vpc"] \in Vpcs
  PROVE  q = r
BY OneAtATime DEF Vpcs, TypeOK, Kind

\* Objects do not move.
LEMMA StaysPut ==
  ASSUME TypeOK, NetInv, NEW q \in Resource, CreateNext(q)
  PROVE  /\ \A k \in Placed : \A s \in up[k] : net'[s]["vpc"] = net[s]["vpc"]
         /\ \A t \in Tie : \A s \in link[t] : net'[s]["vpc"] = net[s]["vpc"]
BY CreateKeepsVpc DEF NetInv, Fresh, TypeOK, Placed

LEMMA ServesKept ==
  ASSUME TypeOK, NetInv, NEW q \in Resource, CreateNext(q), NEW r \in Resource,
         net'[r]["subnet"] = net[r]["subnet"], NEW s \in Resource, Serves(s, r)
  PROVE  Serves(s, r)'
<1>1. pc[s] \notin BeforeRtb
  BY DEF Serves, NetInv, Routed
<1>2. pc[s] \notin {"igwGet", "igwCreate", "subnetGet", "subnetCreate"}
  BY <1>1 DEF BeforeVpc, KeyStep, BeforeIgw, BeforeSg, BeforeSubnet, BeforeRtb
<1>3. net'[s]["subnet"] = net[s]["subnet"] /\ net'[s]["igw"] = net[s]["igw"]
  BY <1>2, CreateRemembers
<1> QED BY <1>3, CreateAdds DEF Serves, Tie

\* Where a Create goes.
LEMMA CreateGoes ==
  ASSUME TypeOK, NEW q \in Resource, CreateNext(q), pc'[q] # "broken"
  PROVE  /\ pc'[q] \in CreateStep \cup {"created"}
         /\ pc[q] \in (Critical \ {"unlock"}) \cup {"lock"} => pc'[q] \in Critical
<1>1. CASE Lock(q) \/ Unlock(q)
  BY <1>1 DEF Lock, Unlock, Return, TypeOK, CreateStep, Critical, KeyStep
<1>2. CASE ~Lock(q) /\ ~Unlock(q)
  <2>1. /\ Critical \cup {"run", "provision"} \subseteq CreateStep
        /\ Critical \cap {"run", "provision"} = {} /\ "lock" \notin Critical \cup {"run", "provision"}
    BY DEF CreateStep, Critical, KeyStep
  <2>2. \/ pc[q] \in Critical /\ pc'[q] \in Critical \cup {"broken"}
        \/ pc[q] \in {"run", "provision"} /\ pc'[q] \in {"provision", "created", "broken"}
    BY <1>2, CriticalMoves DEF Moves, TypeOK
  <2> QED BY <2>1, <2>2
<1> QED BY <1>1, <1>2

LEMMA SoundOther ==
  ASSUME TypeOK, NetInv, NEW q \in Resource, CreateNext(q),
         NEW r \in Resource \ {q}, Sound(r)
  PROVE  Sound(r)'
<1>1. pc'[r] = pc[r] /\ net'[r] = net[r]
  BY CreateTouchesOwn, CreateRemembers
<1>2. /\ \A k \in Kind : up[k] \subseteq up'[k]
      /\ \A t \in Tie : link[t] \subseteq link'[t]
  BY CreateAdds
<1>3. /\ Vpcs \subseteq Vpcs' /\ up["sg"] \subseteq up'["sg"] /\ up["subnet"] \subseteq up'["subnet"]
      /\ up["instance"] \subseteq up'["instance"]
      /\ link["attachment"] \subseteq link'["attachment"]
      /\ link["ingress"] \subseteq link'["ingress"]
  BY <1>2 DEF Vpcs, Kind, Tie
<1>4. ASSUME NEW s \in Resource, Serves(s, r) PROVE Serves(s, r)'
  BY <1>1, <1>4, ServesKept
<1> QED BY <1>1, <1>3, <1>4 DEF Sound

LEMMA MissingOther ==
  ASSUME TypeOK, LockInv, ChoiceInv, NetInv, SeparateConfigurations,
         NEW q \in Resource, CreateNext(q), Sound(q),
         NEW r \in Resource \ {q}, Sound(r), Missing(r)
  PROVE  Missing(r)'
<1>1. pc'[r] = pc[r] /\ net'[r] = net[r]
  BY CreateTouchesOwn, CreateRemembers
<1>2. CASE pc[r] \notin Critical \/ pc[r] \in BeforeVpc
  BY <1>1, <1>2 DEF Missing, Critical, KeyStep, BeforeVpc
<1>3. CASE pc[q] \notin Critical \/ pc[q] \in BeforeVpc
  <2>1. /\ up'["sg"] = up["sg"] /\ up'["subnet"] = up["subnet"] /\ up'["rtb"] = up["rtb"]
        /\ link'["attachment"] = link["attachment"] /\ link'["route"] = link["route"]
    BY <1>3, CreateKinds DEF Placed, Kind, Tie, Critical, KeyStep, BeforeVpc
  <2>2. Gateways(net[r]["vpc"])' = Gateways(net[r]["vpc"])
    BY <1>1, <2>1, StaysPut DEF Gateways, Tie
  <2>3. \A k \in {"sg", "subnet", "rtb"} : Inside(net[r]["vpc"], k)' = Inside(net[r]["vpc"], k)
    BY <1>1, <2>1, StaysPut DEF Inside, Placed, Kind
  <2> QED BY <1>1, <2>1, <2>2, <2>3 DEF Missing
<1>4. CASE pc[r] \in Critical \ BeforeVpc /\ pc[q] \in Critical \ BeforeVpc
  <2>1. net[q]["vpc"] # net[r]["vpc"]
    BY <1>4, OthersWait DEF Sound, Critical, KeyStep
  <2>2. net'[q]["vpc"] # net'[r]["vpc"]
    BY <1>1, <1>4, <2>1, CreateKeepsVpc
  <2>3. Gateways(net[r]["vpc"])' \subseteq Gateways(net[r]["vpc"])
    BY <1>1, <2>2, StaysPut, CreateAdds DEF Gateways, Tie
  <2>4. \A k \in {"sg", "subnet", "rtb"} :
          Inside(net[r]["vpc"], k)' \subseteq Inside(net[r]["vpc"], k)
    BY <1>1, <2>2, StaysPut, CreateAdds DEF Inside, Placed, Kind
  <2>5. link'["route"] \subseteq link["route"] \cup {q} /\ q \notin Inside(net[r]["vpc"], "rtb")'
    BY <1>1, <2>2, CreateAdds DEF Inside, Tie
  <2> QED BY <1>1, <2>3, <2>4, <2>5 DEF Missing
<1> QED BY <1>2, <1>3, <1>4

\* Who has a subnet alone in its VPC, keeps it alone.
LEMMA OneSubnet ==
  ASSUME TypeOK, NetInv, NEW q \in Resource, CreateNext(q), pc'[q] # "broken",
         \A i \in Resource : Complete(i),
         NEW r \in up'["subnet"], NEW s \in up'["subnet"], net'[s]["vpc"] = net'[r]["vpc"]
  PROVE  s = r
<1>1. up'["subnet"] \subseteq up["subnet"] \cup {q}
  BY CreateAdds DEF Kind
<1>2. \A i \in up["subnet"] : i \in Resource /\ net'[i]["vpc"] = net[i]["vpc"]
  BY StaysPut DEF Placed, Kind, TypeOK
<1>3. CASE r \in up["subnet"] /\ s \in up["subnet"]
  BY <1>2, <1>3 DEF Complete
<1>4. CASE q \notin up["subnet"] /\ q \in up'["subnet"]
  <2>1. pc[q] = "subnetCreate" /\ Inside(net[q]["vpc"], "subnet") = {}
    BY <1>4, CreateKinds, AddsThenWorks DEF Placed, Kind
  <2>2. net'[q]["vpc"] = net[q]["vpc"]
    BY <2>1, CreateKeepsVpc DEF BeforeVpc, KeyStep
  <2>3. ASSUME NEW i \in up["subnet"] PROVE net'[i]["vpc"] # net'[q]["vpc"]
    <3>1. net[i]["vpc"] # net[q]["vpc"]
      BY <2>1 DEF Inside
    <3>2. net'[i]["vpc"] = net[i]["vpc"]
      BY <1>2
    <3> QED BY <2>2, <3>1, <3>2
  <2> QED BY <1>1, <1>3, <2>3
<1> QED BY <1>1, <1>3, <1>4

LEMMA CompleteOther ==
  ASSUME TypeOK, NetInv, NEW q \in Resource, CreateNext(q), pc'[q] # "broken",
         \A i \in Resource : Complete(i), NEW r \in Resource \ {q}
  PROVE  Complete(r)'
<1>1. pc'[r] = pc[r]
  BY CreateTouchesOwn
<1>2. /\ \A k \in Kind : r \in up'[k] <=> r \in up[k]
      /\ \A t \in Tie : r \in link'[t] <=> r \in link[t]
  BY CreateAdds
<1>3. /\ r \in up'["sg"] <=> r \in up["sg"]
      /\ r \in up'["rtb"] <=> r \in up["rtb"]
      /\ r \in link'["ingress"] <=> r \in link["ingress"]
      /\ r \in link'["route"] <=> r \in link["route"]
      /\ r \in link'["association"] <=> r \in link["association"]
  BY <1>2 DEF Kind, Tie
<1>4. Complete(r)
  OBVIOUS
<1> QED BY <1>1, <1>3, <1>4, OneSubnet DEF Complete

LEMMA UnlockOnly ==
  ASSUME TypeOK, NEW r \in Resource, CreateNext(r), pc[r] = "unlock"
  PROVE  Unlock(r)
<1>1. ~(Lock(r) \/ KeyPair(r) \/ VpcModify(r) \/ SgEgress(r))
  BY KeyMoves DEF Lock, VpcModify, SgEgress, Call, KeyStep
<1>2. ~(VpcById(r) \/ VpcByName(r) \/ IgwGet(r) \/ SgGet(r) \/ SubnetGet(r) \/ RtbGet(r))
  BY DEF VpcById, VpcByName, IgwGet, SgGet, SubnetGet, RtbGet, Look
<1>3. ~(VpcCreate(r) \/ IgwCreate(r) \/ SgCreate(r) \/ SubnetCreate(r) \/ RtbCreate(r) \/ Run(r))
  BY DEF VpcCreate, IgwCreate, SgCreate, SubnetCreate, RtbCreate, Run, Make
<1>4. ~(IgwAttach(r) \/ SgIngress(r) \/ RtbRoute(r) \/ RtbAssociate(r))
  BY DEF IgwAttach, SgIngress, RtbRoute, RtbAssociate, Attach
<1>5. ~Provision(r)
  BY DEF Provision
<1> QED BY <1>1, <1>2, <1>3, <1>4, <1>5 DEF CreateNext

LEMMA CompleteOwn ==
  ASSUME TypeOK, NetInv, NEW q \in Resource, CreateNext(q), pc'[q] # "broken",
         \A i \in Resource : Complete(i)
  PROVE  Complete(q)'
<1>0. Complete(q)
  OBVIOUS
<1>1. /\ up["rtb"] \subseteq up'["rtb"]
      /\ link["ingress"] \subseteq link'["ingress"]
      /\ link["route"] \subseteq link'["route"]
      /\ link["association"] \subseteq link'["association"]
  BY CreateAdds DEF Kind, Tie
<1>2. q \in up'["sg"] => q \in link'["ingress"] \/ pc'[q] = "sgIngress"
  BY <1>0, <1>1, AddsThenWorks DEF Complete
<1>3. q \in up'["rtb"] =>
        q \in link'["association"] \/ pc'[q] \in {"rtbRoute", "rtbAssociate"}
  BY <1>0, <1>1, AddsThenWorks DEF Complete
<1>4. pc'[q] \in {"rtbRoute", "rtbAssociate"} => q \in up'["rtb"]
  BY <1>0, <1>1, EntersTable DEF Complete
<1>5. pc'[q] = "rtbAssociate" => q \in link'["route"]
  BY EntersTable
<1>6. ASSUME q \in link'["association"]
      PROVE  q \in up'["rtb"] \cap link'["route"] /\ pc'[q] \notin Critical \ {"unlock"}
  <2>1. CASE q \in link["association"]
    <3>1. pc[q] \in {"unlock", "run", "provision"}
      <4>1. pc[q] \in CreateStep
        BY CreateIsCreating DEF Creating
      <4>2. pc[q] \notin BeforeRtb
        BY <2>1 DEF NetInv, Routed
      <4>3. "lock" \in BeforeRtb
        BY DEF BeforeVpc, KeyStep, BeforeIgw, BeforeSg, BeforeSubnet, BeforeRtb
      <4> QED BY <1>0, <2>1, <4>1, <4>2, <4>3 DEF Complete, CreateStep
    <3>2. pc'[q] \notin Critical
      <4>1. CASE Unlock(q)
        BY <4>1 DEF Unlock, Return, TypeOK, Critical, KeyStep
      <4>2. CASE ~Unlock(q)
        <5>1. ~Lock(q)
          BY <3>1 DEF Lock
        <5>2. pc[q] # "unlock"
          BY <4>2, UnlockOnly
        <5>3. pc[q] \notin Critical
          BY <3>1, <5>2 DEF Critical, KeyStep
        <5> QED BY <4>2, <5>1, <5>3, CriticalMoves DEF Moves, TypeOK, Critical, KeyStep
      <4> QED BY <4>1, <4>2
    <3> QED BY <1>0, <1>1, <2>1, <3>2 DEF Complete
  <2>2. CASE q \notin link["association"]
    <3>1. pc[q] = "rtbAssociate"
      BY <1>6, <2>2, CreateKinds DEF Tie
    <3> QED BY <1>0, <1>1, <3>1, AddsThenWorks DEF Complete
  <2> QED BY <2>1, <2>2
<1>7. \A s \in up'["subnet"] :
        q \in up'["subnet"] /\ net'[s]["vpc"] = net'[q]["vpc"] => s = q
  BY OneSubnet
<1> QED BY <1>2, <1>3, <1>4, <1>5, <1>6, <1>7 DEF Complete

LEMMA MissingOwn ==
  ASSUME TypeOK, NetInv, NEW q \in Resource, CreateNext(q), pc'[q] # "broken", Missing(q)
  PROVE  Missing(q)'
<1>1. ASSUME pc'[q] \in {"igwCreate", "igwAttach"} PROVE Gateways(net[q]["vpc"])' = {}
  <2>1. pc[q] \in {"igwGet", "igwCreate"} /\ Gateways(net[q]["vpc"]) = {}
    BY <1>1, EntersGroup DEF Missing
  <2>2. link'["attachment"] = link["attachment"]
    BY <2>1, CreateKinds DEF Tie
  <2>3. net'[q]["vpc"] = net[q]["vpc"]
    BY <2>1, CreateKeepsVpc DEF BeforeVpc, KeyStep
  <2> QED BY <2>1, <2>2, <2>3, StaysPut DEF Gateways, Tie
<1>2. ASSUME pc'[q] = "sgCreate" PROVE Inside(net[q]["vpc"], "sg")' = {}
  <2>1. /\ pc[q] = "sgGet"
        /\ \A s \in up["sg"] : GroupName(net[s]["vpc"]) # GroupName(net[q]["vpc"])
    BY <1>2, EntersGroup
  <2>2. up'["sg"] = up["sg"]
    BY <2>1, CreateKinds DEF Placed, Kind
  <2>3. net'[q]["vpc"] = net[q]["vpc"]
    BY <2>1, CreateKeepsVpc DEF BeforeVpc, KeyStep
  <2> QED BY <2>1, <2>2, <2>3, StaysPut DEF Inside, Placed, Kind
<1>3. ASSUME pc'[q] = "subnetCreate" PROVE Inside(net[q]["vpc"], "subnet")' = {}
  <2>1. pc[q] = "subnetGet" /\ Inside(net[q]["vpc"], "subnet") = {}
    BY <1>3, EntersTable
  <2>2. up'["subnet"] = up["subnet"]
    BY <2>1, CreateKinds DEF Placed, Kind
  <2>3. net'[q]["vpc"] = net[q]["vpc"]
    BY <2>1, CreateKeepsVpc DEF BeforeVpc, KeyStep
  <2> QED BY <2>1, <2>2, <2>3, StaysPut DEF Inside, Placed, Kind
<1>4. ASSUME pc'[q] \in {"rtbCreate", "rtbRoute", "rtbAssociate"}
      PROVE  Inside(net[q]["vpc"], "rtb")' \cap link'["route"] \subseteq {q}
  <2>1. /\ pc[q] \in {"rtbGet", "rtbCreate", "rtbRoute"}
        /\ Inside(net[q]["vpc"], "rtb") \cap link["route"] \subseteq {q}
    BY <1>4, EntersTable DEF Missing
  <2>2. up'["rtb"] \subseteq up["rtb"] \cup {q} /\ link'["route"] \subseteq link["route"] \cup {q}
    BY CreateAdds DEF Kind, Tie
  <2>3. net'[q]["vpc"] = net[q]["vpc"]
    BY <2>1, CreateKeepsVpc DEF BeforeVpc, KeyStep
  <2> QED BY <2>1, <2>2, <2>3, StaysPut DEF Inside, Placed, Kind
<1> QED BY <1>1, <1>2, <1>3, <1>4 DEF Missing

\* The route table a Create finds serves its subnet.
LEMMA FoundServes ==
  ASSUME TypeOK, LockInv, ChoiceInv, NetInv, SeparateConfigurations,
         \A i \in Resource : Sound(i) /\ Complete(i),
         NEW q \in Resource, CreateNext(q), pc[q] = "rtbGet",
         NEW s \in Inside(net[q]["vpc"], "rtb") \cap link["route"]
  PROVE  Serves(s, q)'
<1>1. s \in Resource /\ s \in up["rtb"] /\ s \in link["route"] /\ net[s]["vpc"] = net[q]["vpc"]
  BY DEF Inside, TypeOK, Tie
<1>2. pc[s] \notin BeforeRtb
  BY <1>1 DEF NetInv, Routed
<1>3. "rtbGet" \in BeforeRtb /\ "rtbGet" \in Critical
  BY DEF BeforeRtb, Critical, KeyStep
<1>4. s # q
  BY <1>2, <1>3
<1>5. pc[s] \notin {"rtbRoute", "rtbAssociate"}
  <2>1. net[q]["vpc"] \in Vpcs
    <3>1. pc[q] \notin BeforeVpc
      BY DEF BeforeVpc, KeyStep
    <3> QED BY <3>1 DEF Sound
  <2> QED BY <1>1, <1>3, <1>4, <2>1, OthersWait DEF Critical, KeyStep
<1>6. s \in link["association"]
  BY <1>1, <1>5 DEF Complete
<1>7. /\ pc[s] \notin BeforeSubnet /\ pc[s] \notin BeforeAttached
      /\ pc[q] \notin BeforeSubnet
  BY <1>2 DEF BeforeVpc, KeyStep, BeforeIgw, BeforeAttached, BeforeSg, BeforeSubnet, BeforeRtb
<1>8. /\ net[s]["subnet"] \in up["subnet"] /\ net[q]["subnet"] \in up["subnet"]
      /\ net[s]["igw"] \in link["attachment"]
  BY <1>1, <1>7 DEF Sound
<1>9. net[s]["subnet"] = net[q]["subnet"]
  <2>1. net[s]["subnet"] \in Resource /\ net[q]["subnet"] \in Resource
    BY <1>8 DEF TypeOK, Kind
  <2>2. net[net[s]["subnet"]]["vpc"] = net[net[q]["subnet"]]["vpc"]
    BY <1>1, <2>1 DEF NetInv, Nearby
  <2> QED BY <1>8, <2>1, <2>2 DEF Complete
<1>10. Serves(s, q)
  BY <1>1, <1>6, <1>8, <1>9 DEF Serves
<1>11. net'[q]["subnet"] = net[q]["subnet"]
  BY CreateRemembers
<1> QED BY <1>1, <1>10, <1>11, ServesKept

LEMMA SoundOwn ==
  ASSUME TypeOK, TypeOK', LockInv, ChoiceInv, NetInv, SeparateConfigurations,
         \A i \in Resource : Sound(i) /\ Complete(i),
         NEW q \in Resource, CreateNext(q), pc'[q] # "broken"
  PROVE  Sound(q)'
<1>0. Sound(q) /\ Complete(q)
  OBVIOUS
<1>1. /\ Vpcs \subseteq Vpcs'
      /\ up["sg"] \subseteq up'["sg"] /\ up["subnet"] \subseteq up'["subnet"]
      /\ link["attachment"] \subseteq link'["attachment"]
      /\ link["ingress"] \subseteq link'["ingress"] /\ link["route"] \subseteq link'["route"]
  BY CreateAdds DEF Vpcs, Kind, Tie
<1>2. pc'[q] # "lost"
  BY CreateGoes DEF CreateStep, Critical, KeyStep
<1>3. ASSUME pc'[q] \notin BeforeVpc PROVE net'[q]["vpc"] \in Vpcs'
  <2>1. CASE pc[q] \in BeforeVpc
    <3>1. pc[q] \in CreateStep
      BY CreateIsCreating DEF Creating
    <3>2. pc[q] \in (Critical \ {"unlock"}) \cup {"lock"}
      <4>1. "absent" \notin CreateStep
        BY DEF CreateStep, Critical, KeyStep
      <4>2. BeforeVpc \ {"absent"} \subseteq (Critical \ {"unlock"}) \cup {"lock"}
        BY DEF BeforeVpc, Critical, KeyStep
      <4> QED BY <2>1, <3>1, <4>1, <4>2
    <3>3. pc'[q] \in Critical
      BY <3>2, CreateGoes
    <3> QED BY <1>3, <2>1, <3>3, CreateEnters
  <2>2. CASE pc[q] \notin BeforeVpc
    BY <1>0, <1>1, <2>2, CreateKeepsVpc DEF Sound
  <2> QED BY <2>1, <2>2
<1>4. pc'[q] = "igwAttach" => net'[q]["igw"] = q
  BY EntersGroup
<1>5. ASSUME pc'[q] \notin BeforeAttached PROVE net'[q]["igw"] \in link'["attachment"]
  <2>1. CASE pc[q] \notin BeforeAttached
    <3>1. pc[q] \notin {"igwGet", "igwCreate"}
      BY <2>1 DEF BeforeIgw, BeforeAttached
    <3>2. net'[q]["igw"] = net[q]["igw"]
      BY <3>1, CreateRemembers
    <3> QED BY <1>0, <1>1, <2>1, <3>2 DEF Sound
  <2>2. CASE net'[q]["igw"] \in Gateways(net[q]["vpc"])
    BY <1>1, <2>2 DEF Gateways
  <2>3. CASE pc[q] = "igwAttach" /\ q \in link'["attachment"]
    BY <1>0, <2>3, CreateRemembers DEF Sound
  <2> QED BY <1>5, <2>1, <2>2, <2>3, EntersGroup
<1>6. pc'[q] = "sgIngress" => net'[q]["sg"] = q
  BY EntersGroup
<1>7. ASSUME pc'[q] \notin BeforeSg
      PROVE  /\ net'[q]["sg"] \in up'["sg"]
             /\ net'[q]["sg"] \in link'["ingress"] \/ pc'[q] = "sgIngress"
  <2>1. CASE pc[q] \notin BeforeSg \cup {"sgIngress"}
    <3>1. pc[q] \notin {"sgGet", "sgCreate"}
      BY <2>1 DEF BeforeSg
    <3>2. net'[q]["sg"] = net[q]["sg"]
      BY <3>1, CreateRemembers
    <3> QED BY <1>0, <1>1, <2>1, <3>2 DEF Sound
  <2>2. CASE /\ pc[q] = "sgGet" /\ net'[q]["sg"] \in up["sg"]
             /\ GroupName(net[net'[q]["sg"]]["vpc"]) = GroupName(net[q]["vpc"])
    <3>1. PICK g \in Resource : /\ g = net'[q]["sg"] /\ g \in up["sg"]
                                /\ GroupName(net[g]["vpc"]) = GroupName(net[q]["vpc"])
      BY <2>2 DEF TypeOK, Kind
    <3>2. pc[g] # "sgIngress"
      <4>1. ASSUME pc[g] = "sgIngress"
            PROVE  net[g]["vpc"] \in Vpcs /\ net[q]["vpc"] \in Vpcs
        <5>1. pc[g] \notin BeforeVpc /\ pc[q] \notin BeforeVpc
          BY <2>2, <4>1 DEF BeforeVpc, KeyStep
        <5> QED BY <4>1, <5>1, <2>2 DEF Sound
      <4> QED BY <2>2, <3>1, <4>1, OthersWait DEF Critical, KeyStep
    <3>3. g \in link["ingress"]
      BY <3>1, <3>2 DEF Complete
    <3> QED BY <1>1, <3>1, <3>3
  <2>3. CASE pc[q] = "sgCreate" /\ pc'[q] = "sgIngress" /\ q \in up'["sg"]
    BY <1>6, <2>3
  <2>4. CASE pc[q] = "sgIngress" /\ q \in link'["ingress"]
    <3>1. pc[q] \notin BeforeSg
      BY <2>4 DEF BeforeVpc, KeyStep, BeforeIgw, BeforeSg
    <3>2. net[q]["sg"] = q /\ q \in up["sg"]
      BY <1>0, <2>4, <3>1 DEF Sound
    <3>3. net'[q]["sg"] = net[q]["sg"]
      BY <2>4, CreateRemembers
    <3> QED BY <1>1, <2>4, <3>2, <3>3
  <2> QED BY <1>7, <2>1, <2>2, <2>3, <2>4, EntersGroup
<1>8. ASSUME pc'[q] \notin BeforeSubnet PROVE net'[q]["subnet"] \in up'["subnet"]
  <2>1. CASE pc[q] \notin BeforeSubnet
    <3>1. pc[q] \notin {"subnetGet", "subnetCreate"}
      BY <2>1 DEF BeforeSubnet
    <3>2. net'[q]["subnet"] = net[q]["subnet"]
      BY <3>1, CreateRemembers
    <3> QED BY <1>0, <1>1, <2>1, <3>2 DEF Sound
  <2>2. CASE pc[q] \in BeforeSubnet
    BY <1>1, <1>8, <2>2, EntersTable
  <2> QED BY <2>1, <2>2
<1>9. ASSUME pc'[q] \in {"unlock", "run", "provision"}
      PROVE  \E s \in Resource : Serves(s, q)'
  <2>1. CASE pc[q] \in {"unlock", "run"}
    <3>1. PICK s \in Resource : Serves(s, q)
      BY <1>0, <2>1 DEF Sound
    <3>2. net'[q]["subnet"] = net[q]["subnet"]
      BY <2>1, CreateRemembers
    <3> QED BY <3>1, <3>2, ServesKept
  <2>2. CASE pc[q] = "rtbGet" /\ \E s : s \in Inside(net[q]["vpc"], "rtb") \cap link["route"]
    <3>1. PICK s \in Resource : s \in Inside(net[q]["vpc"], "rtb") \cap link["route"]
      BY <2>2 DEF Inside, TypeOK, Kind
    <3> QED BY <2>2, <3>1, FoundServes
  <2>3. CASE pc[q] = "rtbAssociate" /\ q \in link'["association"]
    <3>1. pc[q] \notin BeforeAttached
      BY <2>3 DEF BeforeVpc, KeyStep, BeforeIgw, BeforeAttached
    <3>2. net'[q]["igw"] = net[q]["igw"] /\ net[q]["igw"] \in link["attachment"]
      BY <1>0, <2>3, <3>1, CreateRemembers DEF Sound
    <3>3. q \in link["route"]
      BY <1>0, <2>3 DEF Complete
    <3> QED BY <1>1, <2>3, <3>2, <3>3 DEF Serves
  <2> QED BY <1>9, <2>1, <2>2, <2>3, EntersTable
<1>10. pc'[q] = "provision" => q \in up'["instance"]
  BY EntersTable
<1> QED BY <1>2, <1>3, <1>4, <1>5, <1>6, <1>7, <1>8, <1>9, <1>10 DEF Sound

-----------------------------------------------------------------------------
(* Quiet states come from quiet states.                                    *)

LEMMA CreateCounts ==
  ASSUME TypeOK, NEW r \in Resource, CreateNext(r)
  PROVE  kills' = kills /\ faults' \in {faults, faults + 1}
<1> USE DEF TypeOK, Return, Fault, Fail, terraform
<1>0. CASE KeyPair(r)
  BY <1>0, KeyMoves DEF KeyPair, KeyDescribe, KeyCheck, KeyRead, KeyTruncate, KeyWrite, KeyImport
<1>1. CASE Lock(r) \/ VpcModify(r) \/ SgEgress(r)
  BY <1>1 DEF Lock, VpcModify, SgEgress, Call
<1>2. CASE VpcById(r) \/ VpcByName(r) \/ IgwGet(r)
  BY <1>2 DEF VpcById, VpcByName, IgwGet, Look
<1>3. CASE SgGet(r) \/ SubnetGet(r) \/ RtbGet(r)
  BY <1>3 DEF SgGet, SubnetGet, RtbGet, Look
<1>4. CASE VpcCreate(r) \/ IgwCreate(r) \/ SgCreate(r)
  BY <1>4 DEF VpcCreate, IgwCreate, SgCreate, Make
<1>5. CASE SubnetCreate(r) \/ RtbCreate(r) \/ Run(r)
  BY <1>5 DEF SubnetCreate, RtbCreate, Run, Make
<1>6. CASE IgwAttach(r) \/ SgIngress(r) \/ RtbRoute(r) \/ RtbAssociate(r)
  BY <1>6 DEF IgwAttach, SgIngress, RtbRoute, RtbAssociate, Attach
<1>7. CASE Unlock(r) \/ Provision(r)
  BY <1>7 DEF Unlock, Provision
<1> QED BY <1>0, <1>1, <1>2, <1>3, <1>4, <1>5, <1>6, <1>7 DEF CreateNext

Goes(r) == CreateNext(r) /\ pc'[r] # "broken"

LEMMA QuietStep ==
  ASSUME TypeOK, LockInv, ShutInv, [Next]_vars, Quiet'
  PROVE  /\ Quiet
         /\ \/ UNCHANGED <<pc, up, link, net, pairs, file, key>>
            \/ \E r \in Resource : Create(r) \/ Goes(r)
<1> DEFINE Goal == /\ Quiet
                   /\ \/ UNCHANGED <<pc, up, link, net, pairs, file, key>>
                      \/ \E r \in Resource : Create(r) \/ Goes(r)
<1> SUFFICES Goal
  OBVIOUS
<1>0. faults \in Nat /\ kills \in Nat /\ faults' = 0 /\ kills' = 0
  BY DEF TypeOK, Quiet
<1>1. ASSUME NEW r \in Resource, Create(r) PROVE Goal
  <2>1. UNCHANGED <<faults, kills>> /\ pc' = [pc EXCEPT ![r] = "lock"] /\ pc[r] = "absent"
    BY <1>1 DEF Create, Return, terraform
  <2>2. \A s \in Resource : pc[s] \in DeleteStep \cup {"broken", "destroyed"} => pc'[s] = pc[s]
    BY <2>1 DEF TypeOK, DeleteStep
  <2> QED BY <1>1, <2>1, <2>2 DEF Quiet, Deleting
<1>2. ASSUME NEW r \in Resource, CreateNext(r) PROVE Goal
  <2>1. faults = 0 /\ kills = 0
    BY <1>0, <1>2, CreateCounts
  <2>2. \A s \in Resource \ {r} : pc'[s] = pc[s]
    BY <1>2, CreateTouchesOwn
  <2>3. pc[r] \notin DeleteStep \cup {"broken", "destroyed"}
    BY <1>2, CreateIsCreating DEF Creating, CreateStep, Critical, KeyStep, DeleteStep
  <2>4. Quiet
    BY <2>1, <2>2, <2>3 DEF Quiet, Deleting
  <2>5. pc'[r] # "broken"
    BY DEF Quiet
  <2> QED BY <1>2, <2>4, <2>5 DEF Goes
<1>3. ASSUME NEW r \in Resource, Delete(r) PROVE Goal
  <2>1. pc'[r] = "dGet"
    BY <1>3 DEF Delete, Return, TypeOK
  <2> QED BY <2>1 DEF Quiet, Deleting, DeleteStep
<1>4. ASSUME NEW r \in Resource, DeleteNext(r) PROVE Goal
  <2>1. pc'[r] \in DeleteStep \cup {"broken", "destroyed"}
    BY <1>4, DeleteMoves DEF Moves, TypeOK
  <2> QED BY <2>1 DEF Quiet, Deleting
<1>5. ASSUME NEW r \in Resource, InstanceGone(r) PROVE Goal
  <2>1. pc[r] \in DeleteStep \cup {"broken", "destroyed"} /\ pc' = pc
    BY <1>5 DEF InstanceGone, ShutInv
  <2> QED BY <2>1 DEF Quiet, Deleting
<1>6. ASSUME NEW r \in Resource, Panic(r) PROVE Goal
  BY <1>0, <1>6 DEF Panic
<1>7. ASSUME NEW c \in Cloud, NewRun(c) PROVE Goal
  <2>1. \A r \in Resource : pc'[r] = pc[r]
    BY <1>7 DEF NewRun, EndRun, Busy, InFlight, Creating
  <2>2. UNCHANGED <<up, link, net, pairs, file, key, faults, kills>>
    BY <1>7, EndRunKeeps DEF NewRun
  <2>3. pc' = pc
    BY <1>7, <2>1 DEF NewRun, EndRun, TypeOK
  <2> QED BY <2>2, <2>3 DEF Quiet, Deleting
<1>8. ASSUME NEW c \in Cloud, Interrupt(c) PROVE Goal
  <2>1. mu[c] # None /\ pc[mu[c]] \notin Critical
    BY <1>8 DEF Interrupt, Hung, Leaked
  <2>2. mu[c] \in Resource /\ pc[mu[c]] = "broken"
    BY <2>1 DEF TypeOK, LockInv, LockOwner
  <2>3. EndRun(c) /\ ~InFlight(mu[c])
    BY <1>8, <2>2 DEF Interrupt, InFlight, Creating, Deleting, CreateStep, Critical, KeyStep, DeleteStep
  <2>4. pc'[mu[c]] = "broken"
    BY <2>2, <2>3, EndRunKeeps
  <2> QED BY <2>2, <2>4 DEF Quiet
<1>9. ASSUME NEW c \in Cloud, Kill(c) PROVE Goal
  BY <1>0, <1>9 DEF Kill
<1>10. CASE UNCHANGED vars
  BY <1>10 DEF vars, Quiet, Deleting
<1> QED BY <1>1, <1>2, <1>3, <1>4, <1>5, <1>6, <1>7, <1>8, <1>9, <1>10 DEF Next

LEMMA QuietInductive ==
  ASSUME SeparateConfigurations
  PROVE  /\ TypeOK /\ LockInv /\ ChoiceInv /\ NetInv /\ ShutInv /\ QuietInv
         /\ TypeOK' /\ [Next]_vars
         => QuietInv'
<1> SUFFICES ASSUME TypeOK, LockInv, ChoiceInv, NetInv, ShutInv, QuietInv, TypeOK', [Next]_vars, Quiet',
                    NEW r \in Resource
             PROVE  Sound(r)' /\ Missing(r)' /\ Complete(r)'
  BY DEF QuietInv
<1>1. \A i \in Resource : Sound(i) /\ Missing(i) /\ Complete(i)
  BY QuietStep DEF QuietInv
<1>2. CASE UNCHANGED <<pc, up, link, net>>
  <2>1. Sound(r) /\ Missing(r) /\ Complete(r)
    BY <1>1
  <2> QED BY <1>2, <2>1 DEF Sound, Missing, Complete, Serves, Vpcs, Gateways, Inside
<1>3. ASSUME NEW q \in Resource, Create(q) PROVE Sound(r)' /\ Missing(r)' /\ Complete(r)'
  <2>1. UNCHANGED <<up, link, net>> /\ pc' = [pc EXCEPT ![q] = "lock"] /\ pc[q] = "absent"
    BY <1>3 DEF Create, Return, account
  <2>2. Sound(r) /\ Missing(r) /\ Complete(r)
    BY <1>1
  <2>3. pc'[r] = pc[r] \/ (pc[r] = "absent" /\ pc'[r] = "lock")
    BY <2>1 DEF TypeOK
  <2>4. {"absent", "lock"} \subseteq BeforeVpc \cap BeforeAttached \cap BeforeSg \cap BeforeSubnet
    BY DEF BeforeVpc, KeyStep, BeforeIgw, BeforeAttached, BeforeSg, BeforeSubnet
  <2>5. "lock" \notin Critical
    BY DEF Critical, KeyStep
  <2>6. Sound(r)'
    BY <2>1, <2>2, <2>3, <2>4 DEF Sound, Serves, Vpcs
  <2>7. Missing(r)'
    BY <2>1, <2>2, <2>3 DEF Missing, Gateways, Inside
  <2>8. Complete(r)'
    BY <2>1, <2>2, <2>3, <2>5 DEF Complete
  <2> QED BY <2>6, <2>7, <2>8
<1>4. ASSUME NEW q \in Resource, Goes(q) PROVE Sound(r)' /\ Missing(r)' /\ Complete(r)'
  <2>0. CreateNext(q) /\ pc'[q] # "broken"
    BY <1>4 DEF Goes
  <2>1. CASE r = q
    BY <1>1, <2>0, <2>1, SoundOwn, MissingOwn, CompleteOwn
  <2>2. CASE r # q
    BY <1>1, <2>0, <2>2, SoundOther, MissingOther, CompleteOther
  <2> QED BY <2>1, <2>2
<1> QED BY <1>2, <1>3, <1>4, QuietStep

\* All but createKeyPair leaves the keys alone.
LEMMA KeysIdle ==
  ASSUME TypeOK, NEW r \in Resource, CreateNext(r), ~KeyPair(r)
  PROVE  /\ UNCHANGED <<pairs, file, key>>
         /\ \/ Lock(r)
            \/ /\ pc[r] \in CreateStep \ (KeyStep \cup {"lock"})
               /\ pc'[r] \notin KeyStep \cup {"lock"}
<1> USE DEF TypeOK, Return, Fault, Fail, CreateStep, Critical, KeyStep, ByName
<1>1. CASE Lock(r) \/ VpcModify(r) \/ SgEgress(r)
  BY <1>1 DEF Lock, VpcModify, SgEgress, Call
<1>2. CASE VpcById(r) \/ VpcByName(r) \/ IgwGet(r)
  BY <1>2 DEF VpcById, VpcByName, IgwGet, Look
<1>3. CASE SgGet(r) \/ SubnetGet(r) \/ RtbGet(r)
  BY <1>3 DEF SgGet, SubnetGet, RtbGet, Look
<1>4. CASE VpcCreate(r) \/ IgwCreate(r) \/ SgCreate(r)
  BY <1>4 DEF VpcCreate, IgwCreate, SgCreate, Make
<1>5. CASE SubnetCreate(r) \/ RtbCreate(r) \/ Run(r)
  BY <1>5 DEF SubnetCreate, RtbCreate, Run, Make
<1>6. CASE IgwAttach(r) \/ SgIngress(r) \/ RtbRoute(r) \/ RtbAssociate(r)
  BY <1>6 DEF IgwAttach, SgIngress, RtbRoute, RtbAssociate, Attach
<1>7. CASE Unlock(r) \/ Provision(r)
  BY <1>7 DEF Unlock, Provision
<1> QED BY <1>1, <1>2, <1>3, <1>4, <1>5, <1>6, <1>7 DEF CreateNext

LEMMA KeyedStep ==
  ASSUME TypeOK, LockInv, SeparateKeys, NEW q \in Resource, KeyPair(q), pc'[q] # "broken",
         \A i \in Resource : Keyed(i), NEW r \in Resource
  PROVE  Keyed(r)'
<1> USE DEF TypeOK, Return, Fault, Fail
<1>0. \A s \in Resource \ {q} : pc'[s] = pc[s]
  BY KeyMoves
<1>1. pc[q] \in KeyStep /\ KeyDrawn \subseteq KeyStep
  BY KeyMoves DEF KeyDrawn, KeyStep
<1>2. \A s \in Resource \ {q} : pc[s] \in KeyStep => KeyName[s] # KeyName[q]
  BY <1>1, AloneWithKey
<1>3. pc[q] \in KeyDrawn => q \notin pairs /\ \A s \in pairs : KeyFile[s] # KeyFile[q]
  BY DEF Keyed, Namesakes
<1>4. CASE KeyDescribe(q) \/ KeyCheck(q)
  <2>1. /\ UNCHANGED <<pairs, file, key>> /\ pc[q] \in {"keyDescribe", "keyCheck"}
        /\ \/ pc'[q] = "keyFile" /\ Namesakes(q) = {}
           \/ /\ pc'[q] \in {"keyCheck", "vpcById", "vpcByName", "vpcCreate"}
              /\ Namesakes(q) # {}
    BY <1>4 DEF KeyDescribe, KeyCheck, AfterKeys, ByName, Fits
  <2>2. Keyed(r)
    OBVIOUS
  <2>3. Namesakes(r)' = Namesakes(r)
    BY <2>1 DEF Namesakes
  <2>4. \A p \in Resource : pc[p] = "keyWritten" => pc'[p] = "keyWritten"
    BY <1>0, <2>1
  <2> QED BY ONLY <1>0, <2>1, <2>2, <2>3, <2>4 DEF Keyed, KeyDrawn
<1>5. CASE KeyRead(q)
  <2>1. /\ UNCHANGED <<pairs, file>> /\ pc[q] = "keyFile" /\ pc'[q] \in {"keyWrite", "keyImport"}
        /\ \A s \in Resource \ {q} : key'[s] = key[s]
        /\ pc'[q] = "keyImport" => key'[q] = file[KeyFile[q]]
    BY <1>5 DEF KeyRead, Get
  <2>2. Keyed(r) /\ q \notin pairs
    BY <1>3, <2>1 DEF KeyDrawn
  <2>3. Namesakes(r)' = Namesakes(r)
    BY <2>1 DEF Namesakes
  <2>4. \A p \in Resource : pc[p] = "keyWritten" => pc'[p] = "keyWritten"
    BY <1>0, <2>1
  <2> QED BY <1>0, <2>1, <2>2, <2>3, <2>4 DEF Keyed, KeyDrawn
<1>6. CASE KeyTruncate(q)
  <2>1. /\ UNCHANGED <<pairs, key>> /\ pc[q] = "keyWrite" /\ pc'[q] = "keyWritten"
        /\ \A s \in Resource : KeyFile[s] # KeyFile[q] => file'[KeyFile[s]] = file[KeyFile[s]]
    BY <1>6 DEF KeyTruncate, KeyFiles
  <2>2. Keyed(r) /\ q \notin pairs /\ (r \in pairs => KeyFile[r] # KeyFile[q])
    BY <1>3, <2>1 DEF KeyDrawn
  <2>3. Namesakes(r)' = Namesakes(r)
    BY <2>1 DEF Namesakes
  <2>4. pc'[r] = "keyImport" => KeyFile[r] # KeyFile[q]
    BY <1>0, <1>2, <2>1 DEF KeyStep
  <2>5. file'[KeyFile[r]] = Torn =>
          \E p \in Resource : pc'[p] = "keyWritten" /\ KeyFile[p] = KeyFile[r]
    BY <1>0, <2>1, <2>2 DEF Keyed
  <2> QED BY <1>0, <2>1, <2>2, <2>3, <2>4, <2>5 DEF Keyed, KeyDrawn
<1>7. CASE KeyWrite(q)
  <2>1. /\ UNCHANGED pairs /\ pc[q] = "keyWritten" /\ pc'[q] = "keyImport"
        /\ \A s \in Resource : KeyFile[s] # KeyFile[q] => file'[KeyFile[s]] = file[KeyFile[s]]
        /\ file'[KeyFile[q]] = q /\ key'[q] = q
        /\ \A s \in Resource \ {q} : key'[s] = key[s]
    BY <1>7 DEF KeyWrite, Get, KeyFiles
  <2>2. Keyed(r) /\ q \notin pairs /\ (r \in pairs => KeyFile[r] # KeyFile[q])
    BY <1>3, <2>1 DEF KeyDrawn
  <2>3. Namesakes(r)' = Namesakes(r)
    BY <2>1 DEF Namesakes
  <2>4. r # q /\ pc'[r] = "keyImport" => KeyFile[r] # KeyFile[q]
    BY <1>0, <1>2, <2>1 DEF KeyStep
  <2>5. ASSUME file'[KeyFile[r]] = Torn
        PROVE  \E p \in Resource : pc'[p] = "keyWritten" /\ KeyFile[p] = KeyFile[r]
    <3>1. KeyFile[r] # KeyFile[q]
      BY <2>1, <2>5
    <3>2. file[KeyFile[r]] = Torn
      BY <2>1, <2>5, <3>1
    <3>3. PICK p \in Resource : pc[p] = "keyWritten" /\ KeyFile[p] = KeyFile[r]
      BY <2>2, <3>2 DEF Keyed
    <3> QED BY <1>0, <3>1, <3>3
  <2> QED BY <1>0, <2>1, <2>2, <2>3, <2>4, <2>5 DEF Keyed, KeyDrawn
<1>8. CASE KeyImport(q)
  <2>1. /\ UNCHANGED <<file, key>> /\ pc[q] = "keyImport" /\ pairs' = pairs \cup {q}
        /\ pc'[q] \in {"vpcById", "vpcByName", "vpcCreate"}
    BY <1>8 DEF KeyImport, AfterKeys, ByName
  <2>2. Keyed(r) /\ Keyed(q)
    OBVIOUS
  <2>3. Namesakes(r) \subseteq Namesakes(r)' /\ q \in Namesakes(q)'
    BY <2>1 DEF Namesakes
  <2>4. pc'[r] \in KeyDrawn => Namesakes(r)' = Namesakes(r)
    <3>1. pc'[r] \in KeyDrawn => r # q /\ KeyName[r] # KeyName[q]
      BY <1>0, <1>1, <1>2, <2>1 DEF KeyDrawn
    <3> QED BY <2>1, <3>1 DEF Namesakes
  <2>5. \A p \in Resource : pc[p] = "keyWritten" => pc'[p] = "keyWritten"
    BY <1>0, <2>1
  <2> QED BY <1>0, <2>1, <2>2, <2>3, <2>4, <2>5 DEF Keyed, KeyDrawn
<1> QED BY <1>4, <1>5, <1>6, <1>7, <1>8 DEF KeyPair

LEMMA KeyInductive ==
  ASSUME SeparateKeys
  PROVE  TypeOK /\ LockInv /\ ShutInv /\ KeyInv /\ [Next]_vars => KeyInv'
<1> SUFFICES ASSUME TypeOK, LockInv, ShutInv, KeyInv, [Next]_vars, Quiet', NEW r \in Resource
             PROVE  Keyed(r)'
  BY DEF KeyInv
<1>1. \A i \in Resource : Keyed(i)
  BY QuietStep DEF KeyInv
<1>2. CASE UNCHANGED <<pc, up, link, net, pairs, file, key>>
  BY <1>1, <1>2 DEF Keyed, Namesakes
<1>3. ASSUME NEW q \in Resource, UNCHANGED <<pairs, file, key>>,
             \A s \in Resource \ {q} : pc'[s] = pc[s],
             \/ pc[q] \in {"absent", "lock"} /\ pc'[q] \in {"lock", "keyDescribe"}
             \/ /\ pc[q] \in CreateStep \ (KeyStep \cup {"lock"})
                /\ pc'[q] \notin KeyStep \cup {"lock"}
      PROVE  Keyed(r)'
  <2>1. Keyed(r) /\ Namesakes(r)' = Namesakes(r)
    BY <1>1, <1>3 DEF Namesakes
  <2>2. \A p \in Resource : pc[p] = "keyWritten" => pc'[p] = "keyWritten"
    BY <1>3 DEF KeyStep
  <2> QED BY <1>3, <2>1, <2>2 DEF Keyed, KeyDrawn, KeyStep
<1>4. ASSUME NEW q \in Resource, Create(q) PROVE Keyed(r)'
  BY <1>3, <1>4 DEF Create, Return, TypeOK
<1>5. ASSUME NEW q \in Resource, Goes(q) PROVE Keyed(r)'
  <2>1. CASE KeyPair(q)
    BY <1>1, <1>5, <2>1, KeyedStep DEF Goes
  <2>2. CASE Lock(q)
    BY <1>3, <2>2 DEF Lock, Return, TypeOK
  <2>3. CASE ~KeyPair(q) /\ ~Lock(q)
    BY <1>3, <1>5, <2>3, KeysIdle, CreateTouchesOwn DEF Goes
  <2> QED BY <2>1, <2>2, <2>3
<1> QED BY <1>2, <1>4, <1>5, QuietStep

Disturbed(r) ==
  /\ Creating(r) /\ pc'[r] = "broken"
  /\ ~(faults' > 0) /\ ~(kills > 0)
  /\ ~ \E s \in Resource : Deleting(s) \/ pc[s] \in {"broken", "destroyed"}

LEMMA DisturbStep ==
  ASSUME TypeOK, TypeOK', LockInv, NetInv, GroupInv, ShutInv, QuietInv, KeyInv, SeparateKeys,
         [Next]_vars, NEW r \in Resource
  PROVE  ~Disturbed(r)
<1> SUFFICES ASSUME Disturbed(r) PROVE FALSE
  OBVIOUS
<1> USE DEF Disturbed
<1>0. pc[r] \in CreateStep /\ pc[r] # "broken"
  BY DEF Creating, CreateStep, Critical, KeyStep
<1>1. \A s \in Resource : ~Deleting(s) /\ pc[s] \notin {"broken", "destroyed"}
  OBVIOUS
<1>2. faults' = 0 /\ kills = 0 /\ faults \in Nat
  BY DEF TypeOK
<1>3. ASSUME NEW q \in Resource, Create(q) \/ Delete(q) PROVE FALSE
  <2>1. \/ pc' = [pc EXCEPT ![q] = "lock"]
        \/ pc' = [pc EXCEPT ![q] = "dGet"]
    BY <1>3 DEF Create, Delete, Return
  <2> QED BY <1>0, <2>1 DEF TypeOK
<1>4. ASSUME NEW q \in Resource, CreateNext(q) PROVE FALSE
  <2>1. q = r
    BY <1>0, <1>4, CreateTouchesOwn
  <2>2. faults = 0 /\ faults' = faults
    BY <1>2, <1>4, CreateCounts
  <2>3. Refused(r)
    BY <1>4, <2>1, <2>2, RefusedOnly
  <2>4. Quiet
    BY <1>1, <1>2, <2>2 DEF Quiet
  <2> QED BY <2>3, <2>4, NothingRefused
<1>5. ASSUME NEW q \in Resource, DeleteNext(q) PROVE FALSE
  BY <1>1, <1>5, DeleteMoves DEF Moves, Deleting
<1>6. ASSUME NEW q \in Resource, InstanceGone(q) PROVE FALSE
  BY <1>0, <1>6 DEF InstanceGone
<1>7. ASSUME NEW c \in Cloud, EndRun(c) PROVE FALSE
  BY <1>0, <1>7 DEF EndRun, Creating
<1>8. ASSUME NEW q \in Resource, Panic(q) PROVE FALSE
  BY <1>7, <1>8 DEF Panic
<1>9. ASSUME NEW c \in Cloud, NewRun(c) \/ Interrupt(c) \/ Kill(c) PROVE FALSE
  BY <1>7, <1>9 DEF NewRun, Interrupt, Kill
<1>10. CASE UNCHANGED vars
  BY <1>0, <1>10 DEF vars
<1> QED BY <1>3, <1>4, <1>5, <1>6, <1>8, <1>9, <1>10 DEF Next

\* For configurations that have no VPC and no key pair in common and keep a key pair
\* in one file, and foreign VPCs with names of their own: as long as no call fails, nothing is killed and no destroy has
\* begun, no Create fails, whatever Creates find of each other's half-made networks
\* and keys.
THEOREM CreatesAgree ==
  ASSUME SeparateConfigurations, SeparateKeys, UniqueNames
  PROVE  Spec => CreatesDoNotDisturb
<1> DEFINE Inv == /\ TypeOK /\ LockInv /\ NameInv /\ ChoiceInv /\ NetInv /\ GroupInv
                  /\ ShutInv /\ QuietInv /\ KeyInv
<1>1. Init => Inv
  <2>1. Init => NameInv /\ ShutInv
    BY DEF Init, NameInv, OneVpcPerName, ShutInv, Kind
  <2>2. Init => GroupInv
    BY DEF Init, GroupInv, Named, Hosted, Known, Nearby, NetKind, Kind, CreateStep, Critical, KeyStep
  <2>3. Init => QuietInv
    <3>1. "absent" \in BeforeVpc \cap BeforeAttached \cap BeforeSg \cap BeforeSubnet
      BY DEF BeforeVpc, KeyStep, BeforeIgw, BeforeAttached, BeforeSg, BeforeSubnet
    <3> QED BY <3>1 DEF Init, QuietInv, Sound, Missing, Complete, Kind, Tie
  <2>4. Init => KeyInv
    BY DEF Init, KeyInv, Keyed, KeyFiles, KeyDrawn, CreateStep, Critical, KeyStep
  <2> QED BY <2>1, <2>2, <2>3, <2>4, TypeInit, LockInit, ChoiceInit, NetInit
<1>2. Inv /\ [Next]_vars => Inv'
  BY TypeInductive, LockInductive, NameInductive, ChoiceInductive, NetInductive,
     GroupInductive, ShutInductive, QuietInductive, KeyInductive
<1>3. Inv /\ Inv' /\ [Next]_vars =>
        [\A r \in Resource : Creating(r) /\ pc'[r] = "broken" =>
           \/ faults' > 0 \/ kills > 0
           \/ \E s \in Resource : Deleting(s) \/ pc[s] \in {"broken", "destroyed"}]_vars
  BY DisturbStep DEF Disturbed
<1> QED BY <1>1, <1>2, <1>3, PTL DEF Spec, CreatesDoNotDisturb

-----------------------------------------------------------------------------
(* How Terraform loses a resource, and what a Delete that ignores errors    *)
(* stops at.                                                               *)

\* A resource whose VPC is not known yet has nothing in the account.
FreshInv == \A r \in Resource : pc[r] \in BeforeVpc => Disposable(r) = {}

\* Once a Create makes objects its VPC is known.
LEMMA CreateMakes ==
  ASSUME TypeOK, NEW r \in Resource, CreateNext(r), up' # up
  PROVE  pc'[r] \notin BeforeVpc
<1> USE DEF TypeOK, Make, Return, Fault, Fail, BeforeVpc, KeyStep
<1>1. ~(Lock(r) \/ KeyPair(r) \/ VpcModify(r) \/ SgEgress(r) \/ Unlock(r) \/ Provision(r))
  BY KeyMoves DEF Lock, VpcModify, SgEgress, Call, Unlock, Provision, account
<1>2. ~(VpcById(r) \/ VpcByName(r) \/ IgwGet(r) \/ SgGet(r) \/ SubnetGet(r) \/ RtbGet(r))
  BY DEF VpcById, VpcByName, IgwGet, SgGet, SubnetGet, RtbGet, Look, account
<1>3. ~(IgwAttach(r) \/ SgIngress(r) \/ RtbRoute(r) \/ RtbAssociate(r))
  BY DEF IgwAttach, SgIngress, RtbRoute, RtbAssociate, Attach
<1>4. CASE VpcCreate(r) \/ IgwCreate(r) \/ SgCreate(r)
  BY <1>4 DEF VpcCreate, IgwCreate, SgCreate
<1>5. CASE SubnetCreate(r) \/ RtbCreate(r) \/ Run(r)
  BY <1>5 DEF SubnetCreate, RtbCreate, Run
<1> QED BY <1>1, <1>2, <1>3, <1>4, <1>5 DEF CreateNext

LEMMA FreshInductive == TypeOK /\ FreshInv /\ [Next]_vars => FreshInv'
<1> SUFFICES ASSUME TypeOK, FreshInv, [Next]_vars, NEW s \in Resource, pc'[s] \in BeforeVpc
             PROVE  Disposable(s)' = {}
  BY DEF FreshInv
<1>0. ASSUME pc[s] \in BeforeVpc, \A k \in Kind : s \in up'[k] => s \in up[k]
      PROVE  Disposable(s)' = {}
  BY <1>0 DEF FreshInv, Disposable
<1>1. ASSUME NEW r \in Resource, Create(r) PROVE Disposable(s)' = {}
  <2>1. s # r => pc'[s] = pc[s]
    BY <1>1 DEF Create, Return, TypeOK
  <2>2. pc[s] \in BeforeVpc
    BY <1>1, <2>1 DEF Create, BeforeVpc, KeyStep
  <2> QED BY <1>0, <1>1, <2>2 DEF Create, account
<1>2. ASSUME NEW r \in Resource, CreateNext(r) PROVE Disposable(s)' = {}
  <2>1. CASE s # r
    BY <1>0, <1>2, <2>1, CreateTouchesOwn
  <2>2. CASE s = r
    <3>1. pc[s] \in BeforeVpc /\ up' = up
      BY <1>2, <2>2, CreateOnward, CreateMakes DEF Onward
    <3> QED BY <1>0, <3>1
  <2> QED BY <2>1, <2>2
<1>3. ASSUME NEW r \in Resource, Delete(r) \/ DeleteNext(r) PROVE Disposable(s)' = {}
  <2>1. \A k \in Kind : up'[k] \subseteq up[k]
    BY <1>3, DeleteKeepsVpcs DEF Delete, account
  <2>2. pc'[r] \notin BeforeVpc /\ \A q \in Resource \ {r} : pc'[q] = pc[q]
    BY <1>3, DeleteMoves DEF Delete, Return, Moves, TypeOK, BeforeVpc, KeyStep, DeleteStep
  <2> QED BY <1>0, <2>1, <2>2
<1>4. ASSUME NEW r \in Resource, InstanceGone(r) PROVE Disposable(s)' = {}
  BY <1>0, <1>4 DEF InstanceGone, TypeOK, Kind
<1>5. ASSUME NEW c \in Cloud, EndRun(c) PROVE Disposable(s)' = {}
  <2>1. pc'[s] = pc[s]
    BY <1>5, EndRunKeeps DEF BeforeVpc, KeyStep
  <2> QED BY <1>0, <1>5, <2>1, EndRunKeeps
<1>6. ASSUME NEW r \in Resource, Panic(r) PROVE Disposable(s)' = {}
  BY <1>5, <1>6 DEF Panic
<1>7. ASSUME NEW c \in Cloud, NewRun(c) \/ Interrupt(c) \/ Kill(c) PROVE Disposable(s)' = {}
  BY <1>5, <1>7 DEF NewRun, Interrupt, Kill
<1>8. CASE UNCHANGED vars
  BY <1>0, <1>8 DEF vars
<1> QED BY <1>1, <1>2, <1>3, <1>4, <1>6, <1>7, <1>8 DEF Next

\* A Create is only lost with its process: the machine or the operator kills it, or
\* the destroy of another resource ends it while it ignores an error.  An operator
\* who interrupts a run that hangs loses no Create that has made anything.
\* (create.go:104, the ids of resource.go, delete.go:143-151)
LostWithProcess ==
  [][\A r \in Resource : Creating(r) /\ pc'[r] = "lost" =>
       \/ Kill(CloudOf[r])
       \/ \E s \in Resource \ {r} : CloudOf[s] = CloudOf[r] /\ Panic(s)
       \/ Interrupt(CloudOf[r]) /\ Disposable(r)' = {}]_vars

\* Who ends the operation of r that runs, when it is not r itself.
LEMMA RunEnds ==
  ASSUME TypeOK, [Next]_vars, NEW r \in Resource, InFlight(r),
         \/ Creating(r) /\ pc'[r] = "lost"
         \/ Deleting(r) /\ pc'[r] = "broken" /\ ~DeleteNext(r)
  PROVE  \/ Kill(CloudOf[r])
         \/ \E s \in Resource : CloudOf[s] = CloudOf[r] /\ Panic(s)
         \/ Interrupt(CloudOf[r]) /\ pc[r] = "lock"
<1>0. /\ pc[r] \in CreateStep \cup DeleteStep
      /\ pc[r] \notin {"absent", "created", "broken", "lost"}
      /\ pc'[r] \in {"lost", "broken"} /\ pc'[r] # pc[r]
      /\ Creating(r) => pc'[r] = "lost"
  BY DEF InFlight, Creating, Deleting, CreateStep, Critical, KeyStep, DeleteStep
<1>1. ASSUME NEW q \in Resource, Create(q) \/ Delete(q) PROVE FALSE
  BY <1>0, <1>1 DEF Create, Delete, Return, TypeOK
<1>2. ASSUME NEW q \in Resource, CreateNext(q) PROVE FALSE
  <2>1. q = r
    BY <1>0, <1>2, CreateTouchesOwn
  <2>2. pc'[r] # "lost"
    <3> USE DEF TypeOK, Critical, KeyStep
    <3>1. CASE Lock(r) \/ Unlock(r)
      BY <3>1 DEF Lock, Unlock, Return
    <3>2. CASE ~Lock(r) /\ ~Unlock(r)
      BY <1>2, <2>1, <3>2, CriticalMoves DEF Moves
    <3> QED BY <3>1, <3>2
  <2>3. Creating(r)
    BY <1>2, <2>1, CreateIsCreating
  <2> QED BY <1>0, <2>2, <2>3
<1>3. ASSUME NEW q \in Resource, DeleteNext(q) PROVE FALSE
  <2>1. pc[q] \in DeleteStep /\ pc'[q] # "lost" /\ \A s \in Resource \ {q} : pc'[s] = pc[s]
    BY <1>3, DeleteMoves DEF Moves, TypeOK, DeleteStep
  <2>2. q = r
    BY <1>0, <2>1
  <2> QED BY <1>3, <2>1, <2>2
<1>4. ASSUME NEW q \in Resource, InstanceGone(q) PROVE FALSE
  BY <1>0, <1>4 DEF InstanceGone
<1>5. ASSUME NEW c \in Cloud, EndRun(c) PROVE c = CloudOf[r]
  BY <1>0, <1>5 DEF EndRun
<1>6. ASSUME NEW c \in Cloud, NewRun(c) PROVE FALSE
  BY <1>5, <1>6 DEF NewRun, Busy
<1>7. CASE UNCHANGED vars
  BY <1>0, <1>7 DEF vars
<1>8. ASSUME NEW c \in Cloud, Interrupt(c)
      PROVE  Interrupt(CloudOf[r]) /\ pc[r] = "lock"
  BY <1>5, <1>8 DEF Interrupt, Hung
<1>9. ASSUME NEW c \in Cloud, Kill(c) PROVE Kill(CloudOf[r])
  BY <1>5, <1>9 DEF Kill
<1>10. ASSUME NEW q \in Resource, Panic(q) PROVE CloudOf[q] = CloudOf[r]
  BY <1>5, <1>10 DEF Panic
<1> QED BY <1>1, <1>2, <1>3, <1>4, <1>6, <1>7, <1>8, <1>9, <1>10 DEF Next

\* Whatever fails and however many resources and configurations there are, a
\* Create is only lost with its process, and an interrupt of a hung run leaves
\* nothing in the account that Terraform does not know of.
THEOREM LostOnlyWithProcess == Spec => LostWithProcess
<1>1. Init => TypeOK /\ FreshInv
  BY TypeInit DEF Init, FreshInv, Disposable, Kind
<1>2. TypeOK /\ FreshInv /\ [Next]_vars => (TypeOK /\ FreshInv)'
  BY TypeInductive, FreshInductive
<1>3. TypeOK /\ FreshInv /\ [Next]_vars =>
        [\A r \in Resource : Creating(r) /\ pc'[r] = "lost" =>
           \/ Kill(CloudOf[r])
           \/ \E s \in Resource \ {r} : CloudOf[s] = CloudOf[r] /\ Panic(s)
           \/ Interrupt(CloudOf[r]) /\ Disposable(r)' = {}]_vars
  <2> SUFFICES ASSUME TypeOK, FreshInv, [Next]_vars, NEW r \in Resource, Creating(r),
                      pc'[r] = "lost"
               PROVE  \/ Kill(CloudOf[r])
                      \/ \E s \in Resource \ {r} : CloudOf[s] = CloudOf[r] /\ Panic(s)
                      \/ Interrupt(CloudOf[r]) /\ Disposable(r)' = {}
    OBVIOUS
  <2>1. \A s \in Resource : Panic(s) => s # r
    BY DEF Panic, Creating, CreateStep, Critical, KeyStep
  <2>2. Interrupt(CloudOf[r]) /\ pc[r] = "lock" => Disposable(r)' = {}
    <3>1. ASSUME Interrupt(CloudOf[r]) PROVE up' = up
      BY <3>1 DEF Interrupt, EndRun, account
    <3> QED BY <3>1 DEF FreshInv, BeforeVpc, KeyStep, Disposable
  <2> QED BY <2>1, <2>2, RunEnds DEF InFlight
<1> QED BY <1>1, <1>2, <1>3, PTL DEF Spec, LostWithProcess

\* With ignore_errors_on_destroy set, two calls of a Delete still end it with an
\* error: the one that lists its objects, and the one that disassociates a route
\* table.  (delete.go:17-190)
IgnoredErrorsStopAt ==
  [][IgnoreErrors =>
       \A r \in Resource : Deleting(r) /\ pc'[r] = "broken" =>
         \/ pc[r] \in {"dGet", "dRtbDisassociate"}
         \/ Kill(CloudOf[r])
         \/ \E s \in Resource : CloudOf[s] = CloudOf[r] /\ Panic(s)]_vars

LEMMA DeleteGoesOn ==
  ASSUME TypeOK, IgnoreErrors, NEW r \in Resource, DeleteNext(r),
         pc[r] \notin {"dGet", "dRtbDisassociate"}
  PROVE  pc'[r] # "broken"
<1> USE DEF TypeOK, Return, Fault, Fail, OnDeleteError
<1>1. ~GetResources(r) /\ ~RtbDisassociate(r)
  BY DEF GetResources, RtbDisassociate
<1>2. CASE Terminate(r) \/ RtbDescribe(r)
  BY <1>2 DEF Terminate, RtbDescribe
<1>3. CASE AwaitTerminated(r)
  <2>1. pc' = [pc EXCEPT ![r] = FromRtb(page[r])]
    BY <1>3 DEF AwaitTerminated
  <2>2. FromRtb(page[r]) # "broken"
    BY FromMoves DEF DeleteStep
  <2> QED BY <2>1, <2>2
<1>4. CASE IgwDescribe(r) \/ IgwDetach(r)
  BY <1>4 DEF IgwDescribe, IgwDetach
<1>5. /\ FromSubnet(page[r]) # "broken" /\ FromSg(page[r]) # "broken"
      /\ FromIgw(page[r]) # "broken" /\ FromVpc(page[r]) # "broken"
  BY FromMoves DEF DeleteStep
<1>6. ASSUME NEW step, NEW kind, NEW next, Remove(r, step, kind, next), next # "broken"
      PROVE  pc'[r] # "broken"
  BY <1>6 DEF Remove
<1>7. CASE RtbDelete(r) \/ SubnetDelete(r) \/ SgDelete(r) \/ IgwDelete(r) \/ VpcDelete(r)
  BY <1>5, <1>6, <1>7 DEF RtbDelete, SubnetDelete, SgDelete, IgwDelete, VpcDelete
<1> QED BY <1>1, <1>2, <1>3, <1>4, <1>7 DEF DeleteNext

\* Exactly what is left of the readme's promise that errors of a destroy are
\* ignored, for every account: two calls, and the end of the process.
THEOREM IgnoredErrorsGoOn == Spec => IgnoredErrorsStopAt
<1>1. TypeOK /\ [Next]_vars =>
        [IgnoreErrors =>
           \A r \in Resource : Deleting(r) /\ pc'[r] = "broken" =>
             \/ pc[r] \in {"dGet", "dRtbDisassociate"}
             \/ Kill(CloudOf[r])
             \/ \E s \in Resource : CloudOf[s] = CloudOf[r] /\ Panic(s)]_vars
  BY DeleteGoesOn, RunEnds DEF InFlight, Deleting, DeleteStep
<1> QED BY <1>1, TypeCorrect, PTL DEF Spec, IgnoredErrorsStopAt

-----------------------------------------------------------------------------
(* What stops a destroy when no call of AWS fails.                         *)

\* What is undone before its step is undone when the step comes.
Loose(r) ==
  /\ pc[r] = "dWait" /\ r \in up["instance"] => r \in shutting
  /\ pc[r] = "dRtbDisassociate" => r \in link["association"] \/ Parted(r)
  /\ pc[r] = "dRtbDelete" => r \notin link["association"]
  /\ pc[r] = "dIgwDelete" => r \notin link["attachment"]

LooseInv == ~IgnoreErrors /\ FullPage => \A r \in Resource : Loose(r)

\* A gateway that is attached exists.
GatewayInv ==
  /\ link["attachment"] \subseteq up["igw"]
  /\ \A r \in Resource : pc[r] = "igwAttach" => r \in up["igw"]

Undoing == {"dWait", "dRtbDisassociate", "dRtbDelete", "dIgwDelete"}

LEMMA FromNeverUndoing ==
  ASSUME NEW p
  PROVE  {FromInstance(p), FromRtb(p), FromSubnet(p), FromSg(p), FromIgw(p), FromVpc(p)}
           \cap Undoing = {}
BY DEF FromInstance, FromRtb, FromSubnet, FromSg, FromIgw, FromVpc, Undoing

\* What keeps a resource loose when the step is not its own.
LEMMA LooseKept ==
  ASSUME NEW s \in Resource, Loose(s), pc'[s] \in Undoing => pc'[s] = pc[s],
         s \in up'["instance"] => s \in up["instance"] /\ (s \in shutting => s \in shutting'),
         s \in link["association"] => s \in link'["association"] \/ Parted(s)',
         s \in link'["association"] => s \in link["association"],
         s \in link'["attachment"] => s \in link["attachment"],
         Parted(s) => Parted(s)'
  PROVE  Loose(s)'
BY DEF Loose, Undoing

LEMMA PartedKept ==
  ASSUME TypeOK, NEW s \in Resource, Parted(s), UNCHANGED net,
         \A q \in Resource : /\ pc[q] \notin CreateStep \cup {"absent"} =>
                                  pc'[q] \notin CreateStep \cup {"absent"}
                             /\ q \in up'["subnet"] => q \in up["subnet"]
  PROVE  Parted(s)'
BY DEF Parted

\* A step of a Create is not in the way of a Delete that runs.
LEMMA LooseCreate ==
  ASSUME TypeOK, NEW r \in Resource, CreateNext(r), NEW s \in Resource, Loose(s)
  PROVE  Loose(s)'
<1>1. pc[r] \in CreateStep
  BY CreateIsCreating DEF Creating
<1>2. /\ \A q \in Resource \ {r} : pc'[q] = pc[q] /\ net'[q] = net[q]
      /\ pc'[r] \notin Clearing
  BY CreateTouchesOwn, CreateRemembers
<1>3. CASE s = r
  BY <1>2, <1>3 DEF Loose, Clearing, DeleteStep
<1>4. CASE s # r
  <2>1. Parted(s) => Parted(s)'
    <3>1. ASSUME Parted(s) PROVE net[s]["subnet"] # r
      BY <1>1, <3>1 DEF Parted
    <3>2. up'["subnet"] \subseteq up["subnet"] \cup {r}
      BY CreateAdds DEF Kind
    <3> QED BY <1>2, <1>4, <3>1, <3>2 DEF Parted
  <2>2. /\ s \in up'["instance"] => s \in up["instance"]
        /\ shutting' = shutting
        /\ \A t \in {"association", "attachment"} : s \in link'[t] <=> s \in link[t]
    BY <1>4, CreateAdds DEF Kind, Tie
  <2>3. pc'[s] = pc[s]
    BY <1>2, <1>4
  <2> QED BY <2>1, <2>2, <2>3, LooseKept
<1> QED BY <1>3, <1>4

\* What a step of a Delete leaves of the other resources, and what of its own.
LEMMA DeleteSpares ==
  ASSUME TypeOK, NEW r \in Resource, DeleteNext(r)
  PROVE  /\ \A k \in Kind : up[k] \subseteq up'[k] \cup {r}
         /\ shutting \subseteq shutting'
         /\ \A s \in link["association"] :
              \/ s \in link'["association"] \/ s = r
              \/ net[s]["subnet"] = r /\ r \notin up'["subnet"]
         /\ r \in up["igw"] \ up'["igw"] => r \notin link["attachment"]
<1> USE DEF TypeOK, Kind, Tie
<1>1. CASE GetResources(r) \/ Terminate(r) \/ AwaitTerminated(r)
  BY <1>1 DEF GetResources, Terminate, AwaitTerminated, account
<1>2. CASE RtbDescribe(r) \/ RtbDisassociate(r) \/ IgwDescribe(r) \/ IgwDetach(r)
  BY <1>2 DEF RtbDescribe, RtbDisassociate, IgwDescribe, IgwDetach, account
<1>3. ASSUME NEW step, NEW kind \in Kind \ {"instance", "subnet"}, NEW next,
             Remove(r, step, kind, next)
      PROVE  /\ \A k \in Kind : up[k] \subseteq up'[k] \cup {r}
             /\ \A k \in Kind : up'[k] # up[k] => k = kind /\ MayRemove(r, kind)
             /\ shutting' = shutting
             /\ \A s \in link["association"] : s \in link'["association"]
  <2>1. \A s \in link["association"] : s \in link'["association"]
    BY <1>3, RemoveLeaves
  <2> QED BY <1>3, <2>1 DEF Remove
<1>6. CASE RtbDelete(r)
  <2>1. Remove(r, "dRtbDelete", "rtb", FromSubnet(page[r]))
    BY <1>6 DEF RtbDelete
  <2>2. shutting' = shutting /\ up'["igw"] = up["igw"]
    BY <1>3, <2>1
  <2> QED BY <1>3, <2>1, <2>2
<1>7. CASE SgDelete(r) \/ VpcDelete(r)
  <2>1. \/ Remove(r, "dSg", "sg", FromIgw(page[r]))
        \/ Remove(r, "dVpc", "vpc", "destroyed")
    BY <1>7 DEF SgDelete, VpcDelete
  <2>2. shutting' = shutting /\ up'["igw"] = up["igw"]
    BY <1>3, <2>1
  <2> QED BY <1>3, <2>1, <2>2
<1>4. CASE SubnetDelete(r)
  <2>1. Remove(r, "dSubnet", "subnet", FromSg(page[r]))
    BY <1>4 DEF SubnetDelete
  <2>2. /\ shutting' = shutting
        /\ \/ up' = [up EXCEPT !["subnet"] = @ \ {r}] /\ link' = Severed(r, "subnet")
           \/ UNCHANGED <<up, link>>
    BY ONLY <2>1 DEF Remove
  <2>3. ASSUME NEW k \in Kind PROVE up[k] \subseteq up'[k] \cup {r}
    <3>1. up \in [Kind -> SUBSET Resource] /\ k \in DOMAIN up
      BY DEF TypeOK
    <3>2. up'[k] = up[k] \/ up'[k] = up[k] \ {r}
      BY ONLY <2>2, <3>1
    <3> QED BY ONLY <3>2
  <2>4. up'["igw"] = up["igw"]
    BY <2>2
  <2>5. ASSUME NEW s \in link["association"]
        PROVE  \/ s \in link'["association"]
               \/ net[s]["subnet"] = r /\ r \notin up'["subnet"]
    <3>1. CASE UNCHANGED <<up, link>>
      BY <3>1
    <3>2. CASE up' = [up EXCEPT !["subnet"] = @ \ {r}] /\ link' = Severed(r, "subnet")
      <4>1. r \notin up'["subnet"]
        BY <3>2
      <4>2. net[s]["subnet"] # r => s \in link'["association"]
        BY <3>2 DEF Severed
      <4> QED BY <4>1, <4>2
    <3> QED BY <2>2, <3>1, <3>2
  <2> QED BY <2>2, <2>3, <2>4, <2>5
<1>5. CASE IgwDelete(r)
  <2>1. /\ \A k \in Kind : up[k] \subseteq up'[k] \cup {r}
        /\ up'["igw"] # up["igw"] => MayRemove(r, "igw")
        /\ shutting' = shutting
        /\ \A s \in link["association"] : s \in link'["association"]
    BY <1>3, <1>5 DEF IgwDelete
  <2> QED BY <2>1 DEF MayRemove
<1> QED BY <1>1, <1>2, <1>4, <1>5, <1>6, <1>7 DEF DeleteNext

LEMMA LooseDeleteOther ==
  ASSUME TypeOK, NEW r \in Resource, DeleteNext(r), NEW s \in Resource \ {r}, Loose(s)
  PROVE  Loose(s)'
<1>1. /\ pc'[s] = pc[s]
      /\ pc'[r] \notin CreateStep \cup {"absent"}
      /\ \A q \in Resource \ {r} : pc'[q] = pc[q]
  BY DeleteMoves DEF Moves, TypeOK, DeleteStep, CreateStep, Critical, KeyStep
<1>2. net' = net /\ \A k \in Kind : up'[k] \subseteq up[k]
  BY DeleteLoosens, DeleteKeepsVpcs
<1>3. Parted(s) => Parted(s)'
  BY <1>1, <1>2, PartedKept DEF Kind
<1>4. s \in link["association"] => s \in link'["association"] \/ Parted(s)'
  BY <1>1, <1>2, DeleteSpares DEF Parted
<1>5. /\ s \in up'["instance"] => s \in up["instance"]
      /\ s \in shutting => s \in shutting'
      /\ \A t \in {"association", "attachment"} : s \in link'[t] => s \in link[t]
  BY <1>2, DeleteSpares, DeleteLoosens DEF Kind, Tie
<1> QED BY <1>1, <1>3, <1>4, <1>5, LooseKept

LEMMA LooseDelete ==
  ASSUME TypeOK, NEW r \in Resource, DeleteNext(r), Loose(r), ~IgnoreErrors
  PROVE  Loose(r)'
<1> USE DEF TypeOK, Return, Fault, Fail, OnDeleteError, Tie
<1>0. ASSUME pc'[r] \notin Undoing PROVE Loose(r)'
  BY <1>0 DEF Loose, Undoing
<1>1. CASE GetResources(r)
  <2>1. \E p : \/ Return(r, FromInstance(p))
               \/ Fault(r, "broken")
    BY ONLY <1>1 DEF GetResources
  <2>2. \E p : pc' = [pc EXCEPT ![r] = FromInstance(p)] \/ pc' = [pc EXCEPT ![r] = "broken"]
    BY ONLY <2>1 DEF Return, Fault
  <2>3. \E p : pc'[r] \in {FromInstance(p), "broken"}
    BY ONLY <2>2, pc \in [Resource -> Step], r \in Resource
  <2> QED BY <1>0, <2>3, FromNeverUndoing DEF Undoing
<1>2. CASE Terminate(r)
  BY <1>2 DEF Terminate, Loose
<1>3. CASE AwaitTerminated(r)
  <2>1. pc'[r] \in {FromRtb(page[r]), "broken"}
    BY <1>3 DEF AwaitTerminated
  <2> QED BY <1>0, <2>1, FromNeverUndoing DEF Undoing
<1>4. CASE RtbDescribe(r) \/ RtbDisassociate(r)
  BY <1>4 DEF RtbDescribe, RtbDisassociate, Loose, account
<1>5. CASE IgwDescribe(r) \/ IgwDetach(r)
  BY <1>5 DEF IgwDescribe, IgwDetach, Loose, account
<1>6. ASSUME NEW step, NEW kind, NEW next, Remove(r, step, kind, next), next \notin Undoing
      PROVE  Loose(r)'
  <2>1. pc'[r] \in {next, "broken"}
    BY <1>6 DEF Remove
  <2> QED BY <1>0, <1>6, <2>1 DEF Undoing
<1>7. CASE RtbDelete(r) \/ SubnetDelete(r) \/ SgDelete(r) \/ IgwDelete(r) \/ VpcDelete(r)
  <2>1. {FromSubnet(page[r]), FromSg(page[r]), FromIgw(page[r]), FromVpc(page[r]), "destroyed"}
          \cap Undoing = {}
    BY FromNeverUndoing DEF Undoing
  <2> QED BY <1>6, <1>7, <2>1 DEF RtbDelete, SubnetDelete, SgDelete, IgwDelete, VpcDelete
<1> QED BY <1>1, <1>2, <1>3, <1>4, <1>5, <1>7 DEF DeleteNext

LEMMA LooseInductive == TypeOK /\ LooseInv /\ [Next]_vars => LooseInv'
<1> SUFFICES ASSUME TypeOK, ~IgnoreErrors, FullPage, [Next]_vars,
                    \A r \in Resource : Loose(r), NEW s \in Resource
             PROVE  Loose(s)'
  BY DEF LooseInv
<1>0. ASSUME UNCHANGED <<up, link, shutting, net>>,
             \A q \in Resource :
               /\ pc'[q] \in Undoing => pc'[q] = pc[q]
               /\ pc[q] \notin CreateStep \cup {"absent"} =>
                    pc'[q] \notin CreateStep \cup {"absent"}
      PROVE  Loose(s)'
  BY <1>0, PartedKept, LooseKept
<1>1. ASSUME NEW r \in Resource, Create(r) \/ Delete(r) PROVE Loose(s)'
  <2>1. UNCHANGED <<up, link, shutting, net>>
    BY <1>1 DEF Create, Delete, account
  <2>2. \/ pc[r] = "absent" /\ pc' = [pc EXCEPT ![r] = "lock"]
        \/ pc' = [pc EXCEPT ![r] = "dGet"]
    BY <1>1 DEF Create, Delete, Return
  <2> QED BY <1>0, <2>1, <2>2 DEF TypeOK, Undoing, CreateStep, Critical, KeyStep
<1>2. ASSUME NEW r \in Resource, CreateNext(r) PROVE Loose(s)'
  BY <1>2, LooseCreate
<1>3. ASSUME NEW r \in Resource, DeleteNext(r) PROVE Loose(s)'
  BY <1>3, LooseDelete, LooseDeleteOther
<1>4. ASSUME NEW r \in Resource, InstanceGone(r) PROVE Loose(s)'
  <2>1. UNCHANGED <<pc, link, net>> /\ up'["subnet"] = up["subnet"]
    BY <1>4 DEF InstanceGone, TypeOK, Kind
  <2>2. s \in up'["instance"] => s \in up["instance"] /\ (s \in shutting => s \in shutting')
    BY <1>4 DEF InstanceGone, TypeOK, Kind
  <2>3. Parted(s) => Parted(s)'
    BY <2>1, PartedKept
  <2> QED BY <2>1, <2>2, <2>3, LooseKept
<1>5. ASSUME NEW c \in Cloud, EndRun(c) PROVE Loose(s)'
  BY <1>0, <1>5, EndRunKeeps DEF Undoing, CreateStep, Critical, KeyStep
<1>6. ASSUME NEW r \in Resource, Panic(r) PROVE Loose(s)'
  BY <1>5, <1>6 DEF Panic
<1>7. ASSUME NEW c \in Cloud, NewRun(c) \/ Interrupt(c) \/ Kill(c) PROVE Loose(s)'
  BY <1>5, <1>7 DEF NewRun, Interrupt, Kill
<1>8. CASE UNCHANGED vars
  BY <1>0, <1>8 DEF vars
<1> QED BY <1>1, <1>2, <1>3, <1>4, <1>6, <1>7, <1>8 DEF Next

LEMMA EntersAttach ==
  ASSUME TypeOK, NEW r \in Resource, CreateNext(r), pc'[r] = "igwAttach"
  PROVE  r \in up'["igw"]
<1> USE DEF TypeOK, Return, Fault, Fail, Kind
<1>1. ~(Lock(r) \/ KeyPair(r) \/ VpcModify(r) \/ SgEgress(r) \/ Unlock(r) \/ Provision(r))
  BY KeyMoves DEF Lock, VpcModify, SgEgress, Call, Unlock, Provision, ByName, KeyStep
<1>2. ~(VpcById(r) \/ VpcByName(r) \/ IgwGet(r) \/ SgGet(r) \/ SubnetGet(r) \/ RtbGet(r))
  BY DEF VpcById, VpcByName, IgwGet, SgGet, SubnetGet, RtbGet, Look, ByName
<1>3. ~(IgwAttach(r) \/ SgIngress(r) \/ RtbRoute(r) \/ RtbAssociate(r))
  BY DEF IgwAttach, SgIngress, RtbRoute, RtbAssociate, Attach
<1>4. ~(VpcCreate(r) \/ SgCreate(r) \/ SubnetCreate(r) \/ RtbCreate(r) \/ Run(r))
  BY DEF VpcCreate, SgCreate, SubnetCreate, RtbCreate, Run, Make
<1>5. CASE IgwCreate(r)
  BY <1>5 DEF IgwCreate, Make
<1> QED BY <1>1, <1>2, <1>3, <1>4, <1>5 DEF CreateNext

LEMMA GatewayInductive == TypeOK /\ GatewayInv /\ [Next]_vars => GatewayInv'
<1> SUFFICES ASSUME TypeOK, GatewayInv, [Next]_vars PROVE GatewayInv'
  OBVIOUS
<1>0. ASSUME up'["igw"] = up["igw"], link'["attachment"] \subseteq link["attachment"],
             \A q \in Resource : pc'[q] = "igwAttach" => pc[q] = "igwAttach"
      PROVE  GatewayInv'
  BY <1>0 DEF GatewayInv
<1>1. ASSUME NEW r \in Resource, Create(r) \/ Delete(r) PROVE GatewayInv'
  BY <1>0, <1>1 DEF Create, Delete, Return, account, TypeOK
<1>2. ASSUME NEW r \in Resource, CreateNext(r) PROVE GatewayInv'
  <2>1. up["igw"] \subseteq up'["igw"] /\ link'["attachment"] \subseteq link["attachment"] \cup {r}
    BY <1>2, CreateAdds DEF Kind, Tie
  <2>2. link'["attachment"] # link["attachment"] => pc[r] = "igwAttach"
    BY <1>2, CreateKinds DEF Tie
  <2>3. \A q \in Resource : pc'[q] = "igwAttach" => q \in up'["igw"]
    BY <1>2, <2>1, EntersAttach, CreateTouchesOwn DEF GatewayInv
  <2> QED BY <2>1, <2>2, <2>3 DEF GatewayInv
<1>3. ASSUME NEW r \in Resource, DeleteNext(r) PROVE GatewayInv'
  <2>1. link'["attachment"] \subseteq link["attachment"]
    BY <1>3, DeleteLoosens DEF Tie
  <2>2. up["igw"] \subseteq up'["igw"] \cup {r}
    BY <1>3, DeleteSpares DEF Kind
  <2>3. r \in up["igw"] \ up'["igw"] => r \notin link["attachment"]
    BY <1>3, DeleteSpares
  <2>4. pc'[r] # "igwAttach" /\ \A q \in Resource \ {r} : pc'[q] = pc[q]
    BY <1>3, DeleteMoves DEF Moves, TypeOK, DeleteStep
  <2> QED BY <2>1, <2>2, <2>3, <2>4 DEF GatewayInv
<1>4. ASSUME NEW r \in Resource, InstanceGone(r) PROVE GatewayInv'
  BY <1>0, <1>4 DEF InstanceGone, TypeOK, Kind
<1>5. ASSUME NEW c \in Cloud, EndRun(c) PROVE GatewayInv'
  BY <1>0, <1>5, EndRunKeeps
<1>6. ASSUME NEW r \in Resource, Panic(r) PROVE GatewayInv'
  BY <1>5, <1>6 DEF Panic
<1>7. ASSUME NEW c \in Cloud, NewRun(c) \/ Interrupt(c) \/ Kill(c) PROVE GatewayInv'
  BY <1>5, <1>7 DEF NewRun, Interrupt, Kill
<1>8. CASE UNCHANGED vars
  BY <1>0, <1>8 DEF vars
<1> QED BY <1>1, <1>2, <1>3, <1>4, <1>6, <1>7, <1>8 DEF Next

\* The step of a Delete that fails although AWS has served all its calls.
LEMMA RefusedByOthers ==
  ASSUME TypeOK, GatewayInv, NEW r \in Resource, Cleared(r), Loose(r), ~IgnoreErrors, FullPage,
         DeleteNext(r), UNCHANGED faults, pc'[r] = "broken"
  PROVE  \/ \E s \in Resource \ {r} : Uses(s, r)
         \/ pc[r] = "dRtbDisassociate" /\ Parted(r)
<1> USE DEF TypeOK, Kind, Tie
<1>0. ~ \E next : Fault(r, next)
  BY DEF Fault
<1>1. pc[r] \in Clearing => Disposable(r) \subseteq Ahead(pc[r])
  BY DEF Cleared
<1> USE DEF Return, Fail
<1>2. ~(GetResources(r) \/ Terminate(r) \/ RtbDescribe(r) \/ IgwDescribe(r))
  <2>1. \A p : FromInstance(p) # "broken"
    BY FromMoves DEF DeleteStep
  <2> QED BY <1>0, <2>1 DEF GetResources, Terminate, RtbDescribe, IgwDescribe
<1>3. ~AwaitTerminated(r)
  <2>1. FromRtb(page[r]) # "broken"
    BY FromMoves DEF DeleteStep
  <2> QED BY <1>0, <2>1 DEF AwaitTerminated, Loose
<1>4. CASE RtbDisassociate(r)
  BY <1>0, <1>4 DEF RtbDisassociate, Loose
<1>5. CASE IgwDetach(r)
  <2>1. pc[r] = "dIgwDetach" /\ Inside(net[r]["vpc"], "instance") # {}
    BY <1>0, <1>5 DEF IgwDetach
  <2>2. r \notin up["instance"]
    BY <1>1, <2>1 DEF Clearing, DeleteStep, Ahead, Disposable
  <2> QED BY <2>1, <2>2 DEF Uses, Inside
<1>6. ASSUME NEW step, NEW kind, NEW next, Remove(r, step, kind, next), next # "broken"
      PROVE  pc[r] = step /\ ~MayRemove(r, kind)
  BY <1>0, <1>6 DEF Remove
<1>7. CASE RtbDelete(r)
  <2>1. FromSubnet(page[r]) # "broken"
    BY FromMoves DEF DeleteStep
  <2>2. pc[r] = "dRtbDelete" /\ ~MayRemove(r, "rtb")
    BY <1>6, <1>7, <2>1 DEF RtbDelete
  <2> QED BY <2>2 DEF MayRemove, Loose
<1>8. CASE SubnetDelete(r)
  <2>1. FromSg(page[r]) # "broken"
    BY FromMoves DEF DeleteStep
  <2>2. pc[r] = "dSubnet" /\ ~MayRemove(r, "subnet")
    BY <1>6, <1>8, <2>1 DEF SubnetDelete
  <2>3. PICK s \in up["instance"] : net[s]["subnet"] = r
    BY <2>2 DEF MayRemove
  <2>4. r \notin up["instance"]
    BY <1>1, <2>2 DEF Clearing, DeleteStep, Ahead, Disposable
  <2> QED BY <2>3, <2>4 DEF Uses, Disposable, NetKind
<1>9. CASE SgDelete(r)
  <2>1. FromIgw(page[r]) # "broken"
    BY FromMoves DEF DeleteStep
  <2>2. pc[r] = "dSg" /\ ~MayRemove(r, "sg")
    BY <1>6, <1>9, <2>1 DEF SgDelete
  <2>3. PICK s \in up["instance"] : net[s]["sg"] = r
    BY <2>2 DEF MayRemove
  <2>4. r \notin up["instance"]
    BY <1>1, <2>2 DEF Clearing, DeleteStep, Ahead, Disposable
  <2> QED BY <2>3, <2>4 DEF Uses, Disposable, NetKind
<1>10. CASE IgwDelete(r)
  <2>1. FromVpc(page[r]) # "broken"
    BY FromMoves DEF DeleteStep
  <2>2. pc[r] = "dIgwDelete" /\ ~MayRemove(r, "igw")
    BY <1>6, <1>10, <2>1 DEF IgwDelete
  <2> QED BY <2>2 DEF MayRemove, Loose
<1>11. CASE VpcDelete(r)
  <2>1. pc[r] = "dVpc" /\ ~MayRemove(r, "vpc")
    BY <1>6, <1>11 DEF VpcDelete
  <2>2. Disposable(r) \subseteq {"vpc"}
    BY <1>1, <2>1 DEF Clearing, DeleteStep, Ahead, Disposable
  <2>3. \/ \E k \in {"sg", "subnet", "rtb"} : Inside(r, k) # {}
        \/ Gateways(r) # {}
    BY <2>1 DEF MayRemove
  <2>4. PICK s \in up["sg"] \cup up["subnet"] \cup up["rtb"] \cup up["igw"] : net[s]["vpc"] = r
    BY <2>3 DEF Inside, Gateways, GatewayInv
  <2>5. s # r /\ Disposable(s) # {}
    BY <2>2, <2>4 DEF Disposable
  <2> QED BY <2>4, <2>5 DEF Uses, NetKind
<1> QED BY <1>2, <1>3, <1>4, <1>5, <1>7, <1>8, <1>9, <1>10, <1>11 DEF DeleteNext

\* Whatever has happened before, in any account: a destroy whose calls AWS serves
\* is only stopped by others who use its network, or just did.  So when nobody
\* else has anything left in the network, a retry of the destroy completes it.
THEOREM OnlyOthersStopDestroy == Spec => DestroyStoppedByOthers
<1> DEFINE Inv == TypeOK /\ DestroyInv /\ LooseInv /\ GatewayInv
<1>1. Init => Inv
  BY TypeInit DEF Init, DestroyInv, Cleared, Clearing, DeleteStep, LooseInv, Loose, GatewayInv,
                  Tie, Kind
<1>2. Inv /\ [Next]_vars => Inv'
  BY TypeInductive, DestroyInductive, LooseInductive, GatewayInductive
<1>3. Inv /\ [Next]_vars =>
        [~IgnoreErrors /\ FullPage /\ UNCHANGED faults =>
           \A r \in Resource : Deleting(r) /\ pc'[r] = "broken" =>
             \/ Kill(CloudOf[r])
             \/ \E s \in Resource \ {r} : Uses(s, r)
             \/ pc[r] = "dRtbDisassociate" /\ Parted(r)]_vars
  <2> SUFFICES ASSUME Inv, [Next]_vars, ~IgnoreErrors, FullPage, UNCHANGED faults,
                      NEW r \in Resource, Deleting(r), pc'[r] = "broken"
               PROVE  \/ Kill(CloudOf[r])
                      \/ \E s \in Resource \ {r} : Uses(s, r)
                      \/ pc[r] = "dRtbDisassociate" /\ Parted(r)
    OBVIOUS
  <2>1. CASE DeleteNext(r)
    BY <2>1, RefusedByOthers DEF DestroyInv, LooseInv
  <2>2. CASE ~DeleteNext(r)
    <3>1. \A s \in Resource : ~Panic(s)
      BY DEF Panic
    <3>2. pc[r] # "lock"
      BY DEF Deleting, DeleteStep
    <3> QED BY <2>2, <3>1, <3>2, RunEnds DEF InFlight
  <2> QED BY <2>1, <2>2
<1> QED BY <1>1, <1>2, <1>3, PTL DEF Spec, DestroyStoppedByOthers

=============================================================================
