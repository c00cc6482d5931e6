------------------------------ MODULE AwsInfra ------------------------------
(***************************************************************************)
(* The AWS backend of the provider: internal/cloud/aws.  Terraform runs    *)
(* the Create and Delete of many resources concurrently in one provider    *)
(* process; they share a Cloud value, its mutex infraMu, and the network   *)
(* objects of the account, which CreateInfrastructure looks up by name     *)
(* before it makes one and DeleteInfrastructure removes by owner tag.      *)
(*                                                                         *)
(* Every object carries the tag of the resource whose Create made it, and  *)
(* one Create makes at most one object of a kind, so an object is named by *)
(* its kind and by the resource that made it.  The instances of a resource *)
(* are one object.  An object lies in the VPC its maker had found.  The key *)
(* pairs of the account and the files of their private keys are kept apart:*)
(* no Delete removes them.                                                 *)
(***************************************************************************)
EXTENDS Integers, FiniteSets

CONSTANTS
  Resource,      \* resource ids, one Create each
  Foreign,       \* VPCs that exist before, empty, made by someone else
  Cloud,         \* provider configurations, each a process with a Cloud value
  CloudOf,       \* the configuration that manages a resource
  VpcName,       \* vpc_name of a resource, Name tag of a foreign VPC
  WantedId,      \* vpc_id of a resource
  KeyName,       \* key_pair_name of a resource
  KeyFile,       \* the file of its private key, in path_to_key_pair_storage
  None,          \* no vpc_id, no name, no object, no holder, no file
  Torn,          \* the content of a key file whose write was cut off
  IgnoreErrors,  \* ignore_errors_on_destroy
  FullPage,      \* the first page of GetResources lists all that is tagged
  MaxFaults,     \* bound on calls that fail although they could be served
  MaxKills       \* bound on kills of a process that is not hung

ASSUME SharingAssumption ==
  /\ CloudOf \in [Resource -> Cloud]
  /\ Resource \cap Foreign = {}
  /\ None \notin Resource \cup Foreign

ASSUME ConfigAssumption ==
  /\ DOMAIN VpcName = Resource \cup Foreign
  /\ WantedId \in [Resource -> Resource \cup Foreign \cup {None}]

\* A key file is named after its key pair.
ASSUME KeyAssumption ==
  /\ DOMAIN KeyName = Resource /\ DOMAIN KeyFile = Resource
  /\ \A r, s \in Resource : KeyFile[r] = KeyFile[s] => KeyName[r] = KeyName[s]
  /\ Torn \notin Resource \cup {None}

ASSUME SwitchAssumption ==
  /\ IgnoreErrors \in BOOLEAN
  /\ FullPage \in BOOLEAN

ASSUME BoundAssumption == MaxFaults \in Nat /\ MaxKills \in Nat

VARIABLES
  pc,        \* where the latest operation on each resource stands
  mu,        \* infraMu of each Cloud: the resource whose Create holds it
  known,     \* resources in the Terraform state when the current run began
  page,      \* the kinds of object DeleteInfrastructure was told to delete
  up,        \* the objects that exist: for each kind, their makers
  link,      \* what was done to an object after it was made
  shutting,  \* the instances that are shutting down
  net,       \* the network objects each Create found or made
  pairs,     \* the key pairs of the account, by the resource that imported each
  file,      \* whose key each key file holds: that of the Create that drew it
  key,       \* the key a Create has got from its key file
  faults, kills

vars == <<pc, mu, known, page, up, link, shutting, net, pairs, file, key, faults, kills>>
terraform == <<mu, known, kills>>
account == <<up, link, shutting>>
keys == <<pairs, file, key>>

\* The kinds of object DeleteInfrastructure removes.
Kind == {"instance", "rtb", "subnet", "sg", "igw", "vpc"}
NetKind == {"vpc", "igw", "sg", "subnet"}
Tie == {"attachment",   \* an internet gateway attached to its VPC
        "ingress",      \* a security group that lets traffic in
        "route",        \* a route table with a default route
        "association"}  \* a route table that serves its maker's subnet

\* The steps of createKeyPair, and of CreateInfrastructure between infraMu.Lock
\* and infraMu.Unlock.
KeyStep == {"keyDescribe", "keyCheck", "keyFile", "keyWrite", "keyWritten", "keyImport"}
Critical == KeyStep \cup
  {"vpcById", "vpcByName", "vpcCreate", "vpcModify",
   "igwGet", "igwCreate", "igwAttach", "sgGet", "sgCreate", "sgIngress",
   "sgEgress", "subnetGet", "subnetCreate", "rtbGet", "rtbCreate",
   "rtbRoute", "rtbAssociate", "unlock"}
CreateStep == Critical \cup {"lock", "run", "provision"}
DeleteStep ==
  {"dGet", "dTerminate", "dWait", "dRtbDescribe", "dRtbDisassociate",
   "dRtbDelete", "dSubnet", "dSg", "dIgwDescribe", "dIgwDetach",
   "dIgwDelete", "dVpc"}
Settled == {"absent", "created", "broken", "destroyed", "lost"}
Step == CreateStep \cup DeleteStep \cup Settled

KeyFiles == {KeyFile[r] : r \in Resource}

TypeOK ==
  /\ pc \in [Resource -> Step]
  /\ mu \in [Cloud -> Resource \cup {None}]
  /\ known \subseteq Resource
  /\ page \in [Resource -> SUBSET Kind]
  /\ up \in [Kind -> SUBSET Resource]
  /\ link \in [Tie -> SUBSET Resource]
  /\ shutting \subseteq up["instance"]
  /\ net \in [Resource -> [NetKind -> Resource \cup Foreign \cup {None}]]
  /\ pairs \subseteq Resource
  /\ file \in [KeyFiles -> Resource \cup {None, Torn}]
  /\ key \in [Resource -> Resource \cup {None}]
  /\ faults \in Nat
  /\ kills \in Nat

Creating(r) == pc[r] \in CreateStep
Deleting(r) == pc[r] \in DeleteStep
InFlight(r) == Creating(r) \/ Deleting(r)
InState(r) == pc[r] \in {"created", "broken"}

Init ==
  /\ pc = [r \in Resource |-> "absent"]
  /\ mu = [c \in Cloud |-> None]
  /\ known = {}
  /\ page = [r \in Resource |-> {}]
  /\ up = [k \in Kind |-> {}]
  /\ link = [t \in Tie |-> {}]
  /\ shutting = {}
  /\ net = [r \in Resource |-> [k \in NetKind |-> None]]
  /\ pairs = {}
  /\ file = [f \in KeyFiles |-> None]
  /\ key = [r \in Resource |-> None]
  /\ faults = 0
  /\ kills = 0

-----------------------------------------------------------------------------
(* The account as AWS keeps it: where objects are, what AWS refuses.       *)

\* The objects of r that its Delete removes, and all that carry its tag.
Disposable(r) == {k \in Kind : r \in up[k]}
Tagged(r) == Disposable(r) \cup (IF r \in pairs THEN {"keyPair"} ELSE {})
Vpcs == up["vpc"] \cup Foreign
Inside(v, kind) == {s \in up[kind] : net[s]["vpc"] = v}
Gateways(v) == {s \in link["attachment"] : net[s]["vpc"] = v}

\* A call that makes an object is refused when the VPC is gone, and when it
\* holds a subnet with the one CIDR block the code uses or a group of that name.
MayMake(r, kind) ==
  LET v == net[r]["vpc"]
  IN  CASE kind \in {"vpc", "igw"} -> TRUE
        [] kind = "rtb" -> v \in Vpcs
        [] kind \in {"sg", "subnet"} -> v \in Vpcs /\ Inside(v, kind) = {}
        [] kind = "instance" ->
             /\ net[r]["sg"] \in up["sg"]
             /\ net[r]["subnet"] \in up["subnet"]
             /\ net[net[r]["sg"]]["vpc"] = net[net[r]["subnet"]]["vpc"]

\* A VPC has one gateway, a default route needs it, a subnet has one route table.
MayTie(r, tie) ==
  CASE tie = "attachment" -> net[r]["vpc"] \in Vpcs /\ Gateways(net[r]["vpc"]) = {}
    [] tie = "ingress" -> TRUE
    [] tie = "route" -> net[r]["igw"] \in Gateways(net[r]["vpc"])
    [] tie = "association" ->
         /\ net[r]["subnet"] \in up["subnet"]
         /\ \A s \in link["association"] : net[s]["subnet"] # net[r]["subnet"]

\* An object in use is not removed: DependencyViolation.
MayRemove(r, kind) ==
  CASE kind = "rtb" -> r \notin link["association"]
    [] kind \in {"sg", "subnet"} -> \A s \in up["instance"] : net[s][kind] # r
    [] kind = "igw" -> r \notin link["attachment"]
    [] kind = "vpc" -> /\ \A k \in {"sg", "subnet", "rtb"} : Inside(r, k) = {}
                       /\ Gateways(r) = {}

\* What disappears from link with an object of r.
Severed(r, kind) ==
  [t \in Tie |->
     {s \in link[t] :
        /\ ~(t = "route" /\ kind = "rtb" /\ s = r)
        /\ ~(t = "ingress" /\ kind = "sg" /\ s = r)
        /\ ~(t = "association" /\ kind = "subnet" /\ net[s]["subnet"] = r)}]

\* The provider can open an SSH connection to the instances of r.
Reachable(r) ==
  /\ r \in up["instance"] \ shutting
  /\ net[r]["sg"] \in link["ingress"]
  /\ \E s \in link["association"] \cap link["route"] :
       net[s]["subnet"] = net[r]["subnet"] /\ net[s]["igw"] \in link["attachment"]

\* The key pairs of the name r uses, and whether the key file of r is the
\* private key of one: a key pair has the key its importer had got.
Namesakes(r) == {s \in pairs : KeyName[s] = KeyName[r]}
Fits(r) == \E s \in Namesakes(r) : file[KeyFile[r]] = key[s]

-----------------------------------------------------------------------------
(* How a call of the provider ends.                                        *)

Return(r, next) == pc' = [pc EXCEPT ![r] = next] /\ UNCHANGED faults

Fault(r, next) ==
  /\ faults < MaxFaults
  /\ faults' = faults + 1
  /\ pc' = [pc EXCEPT ![r] = next]

\* A call without effect: AWS refuses it, or it fails although AWS could serve it.
Fail(r, may, next) == IF may THEN Fault(r, next) ELSE Return(r, next)

\* An error inside Create always ends it, and leaves infraMu as it is.  An
\* error inside Delete ends it unless errors are ignored.
OnDeleteError(next) == IF IgnoreErrors THEN next ELSE "broken"

Remember(r, kind, o) ==
  net' = [net EXCEPT ![r] = [k \in NetKind |-> IF k = kind THEN o ELSE net[r][k]]]

\* Describe: adopt any of the objects found, or go on without.
Look(r, step, kind, found, hit, miss) ==
  /\ pc[r] = step
  /\ \/ \E o \in found : Remember(r, kind, o) /\ Return(r, hit)
     \/ found = {} /\ Return(r, miss) /\ UNCHANGED net
     \/ Fault(r, "broken") /\ UNCHANGED net
  /\ UNCHANGED <<terraform, page, keys, account>>

\* A call that makes an object; its answer may be lost after the effect.
Make(r, step, kind, next) ==
  /\ pc[r] = step
  /\ \/ /\ MayMake(r, kind)
        /\ up' = [up EXCEPT ![kind] = @ \cup {r}]
        /\ \/ Remember(r, kind, r) /\ Return(r, next)
           \/ Fault(r, "broken") /\ UNCHANGED net
     \/ Fail(r, MayMake(r, kind), "broken") /\ UNCHANGED <<up, net>>
  /\ UNCHANGED <<terraform, page, keys, link, shutting>>

\* A call that changes an object r has made.
Attach(r, step, tie, next) ==
  /\ pc[r] = step
  /\ \/ /\ MayTie(r, tie)
        /\ link' = [link EXCEPT ![tie] = @ \cup {r}]
        /\ Return(r, next) \/ Fault(r, "broken")
     \/ Fail(r, MayTie(r, tie), "broken") /\ UNCHANGED link
  /\ UNCHANGED <<terraform, page, keys, up, shutting, net>>

\* A call of Create that changes nothing the model keeps.
Call(r, step, next) ==
  /\ pc[r] = step
  /\ Return(r, next) \/ Fault(r, "broken")
  /\ UNCHANGED <<terraform, page, keys, account, net>>

\* A call of Delete that removes an object of r.
Remove(r, step, kind, next) ==
  /\ pc[r] = step
  /\ \/ /\ MayRemove(r, kind)
        /\ up' = [up EXCEPT ![kind] = @ \ {r}]
        /\ link' = Severed(r, kind)
        /\ Return(r, next) \/ Fault(r, OnDeleteError(next))
     \/ Fail(r, MayRemove(r, kind), OnDeleteError(next)) /\ UNCHANGED <<up, link>>
  /\ UNCHANGED <<terraform, page, keys, shutting, net>>

-----------------------------------------------------------------------------
(* CreateInfrastructure and CreateInstances.                               *)

\* The resource's Create stores the id it generated, then calls the Cloud.
Create(r) ==
  /\ pc[r] = "absent"
  /\ Return(r, "lock")
  /\ UNCHANGED <<terraform, page, keys, account, net>>

\* Mutant: infraMu is not taken.
LockMissing(r) ==
  /\ pc[r] = "lock"
  /\ mu' = [mu EXCEPT ![CloudOf[r]] = r]
  /\ Return(r, "keyDescribe")
  /\ UNCHANGED <<known, kills, page, keys, account, net>>

Lock(r) ==
  /\ pc[r] = "lock"
  /\ mu[CloudOf[r]] = None
  /\ mu' = [mu EXCEPT ![CloudOf[r]] = r]
  /\ Return(r, "keyDescribe")
  /\ UNCHANGED <<known, kills, page, keys, account, net>>

ByName(r) == IF VpcName[r] # None THEN "vpcByName" ELSE "vpcCreate"

AfterKeys(r) == IF WantedId[r] # None THEN "vpcById" ELSE ByName(r)

\* createKeyPair asks for the key pair of the name.
KeyDescribe(r) ==
  /\ pc[r] = "keyDescribe"
  /\ \/ Return(r, IF Namesakes(r) = {} THEN "keyFile" ELSE "keyCheck")
     \/ Fault(r, "broken")
  /\ UNCHANGED <<terraform, page, keys, account, net>>

\* A key pair that exists must belong to the key file, which must be there.
KeyCheck(r) ==
  /\ pc[r] = "keyCheck"
  /\ \/ Fits(r) /\ Return(r, AfterKeys(r))
     \/ Fail(r, Fits(r), "broken")
  /\ UNCHANGED <<terraform, page, keys, account, net>>

Get(r, k) == key' = [key EXCEPT ![r] = k]

\* GetSSHPublicKey: the key of the file, or, if there is none, a new one, which
\* is written to the file before it is used.
KeyRead(r) ==
  LET content == file[KeyFile[r]]
  IN  /\ pc[r] = "keyFile"
      /\ \/ content \in Resource /\ Get(r, content) /\ Return(r, "keyImport")
         \/ content = None /\ Return(r, "keyWrite") /\ UNCHANGED key
         \/ Fail(r, content # Torn, "broken") /\ UNCHANGED key
      /\ UNCHANGED <<terraform, page, account, net, pairs, file>>

\* os.WriteFile empties the file, then writes it: it may fail or be cut off before
\* the first and before the second.
KeyTruncate(r) ==
  /\ pc[r] = "keyWrite"
  /\ \/ file' = [file EXCEPT ![KeyFile[r]] = Torn] /\ Return(r, "keyWritten")
     \/ Fault(r, "broken") /\ UNCHANGED file
  /\ UNCHANGED <<terraform, page, account, net, pairs, key>>

KeyWrite(r) ==
  /\ pc[r] = "keyWritten"
  /\ \/ /\ file' = [file EXCEPT ![KeyFile[r]] = r]
        /\ Get(r, r)
        /\ Return(r, "keyImport")
     \/ Fault(r, "broken") /\ UNCHANGED <<file, key>>
  /\ UNCHANGED <<terraform, page, account, net, pairs>>

\* AWS refuses a second key pair of a name.
KeyImport(r) ==
  /\ pc[r] = "keyImport"
  /\ \/ /\ Namesakes(r) = {}
        /\ pairs' = pairs \cup {r}
        /\ Return(r, AfterKeys(r)) \/ Fault(r, "broken")
     \/ Fail(r, Namesakes(r) = {}, "broken") /\ UNCHANGED pairs
  /\ UNCHANGED <<terraform, page, account, net, file, key>>

KeyPair(r) ==
  \/ KeyDescribe(r) \/ KeyCheck(r)
  \/ KeyRead(r) \/ KeyTruncate(r) \/ KeyWrite(r) \/ KeyImport(r)

VpcById(r) ==
  Look(r, "vpcById", "vpc", {WantedId[r]} \cap Vpcs, "igwGet", ByName(r))

\* Mutant: the look-up by name also filters by the tag of the resource.
VpcOwnByName(r) ==
  Look(r, "vpcByName", "vpc", {v \in up["vpc"] \cap {r} : VpcName[v] = VpcName[r]},
       "igwGet", "vpcCreate")

VpcByName(r) ==
  Look(r, "vpcByName", "vpc", {v \in Vpcs : VpcName[v] = VpcName[r]}, "igwGet", "vpcCreate")

VpcCreate(r) == Make(r, "vpcCreate", "vpc", "vpcModify")
VpcModify(r) == Call(r, "vpcModify", "igwGet")

IgwGet(r) ==
  Look(r, "igwGet", "igw", Gateways(net[r]["vpc"]), "sgGet", "igwCreate")
IgwCreate(r) == Make(r, "igwCreate", "igw", "igwAttach")
IgwAttach(r) == Attach(r, "igwAttach", "attachment", "sgGet")

\* Mutant: the groups of all VPCs without a name have one name.
GroupNameOnly(v) == VpcName[v]

\* A group is named after its VPC, or after the id of a VPC without a name;
\* it is looked up by that name alone, in the whole region.
GroupName(v) == IF VpcName[v] # None THEN VpcName[v] ELSE v

SgGet(r) ==
  Look(r, "sgGet", "sg",
       {s \in up["sg"] : GroupName(net[s]["vpc"]) = GroupName(net[r]["vpc"])},
       "subnetGet", "sgCreate")
SgCreate(r) == Make(r, "sgCreate", "sg", "sgIngress")
SgIngress(r) == Attach(r, "sgIngress", "ingress", "sgEgress")
SgEgress(r) == Call(r, "sgEgress", "subnetGet")

SubnetGet(r) ==
  Look(r, "subnetGet", "subnet", Inside(net[r]["vpc"], "subnet"), "rtbGet", "subnetCreate")
SubnetCreate(r) == Make(r, "subnetCreate", "subnet", "rtbGet")

\* Mutant: an existing route table ends CreateInfrastructure without unlocking.
RtbGetReturns(r) ==
  Look(r, "rtbGet", "rtb", Inside(net[r]["vpc"], "rtb") \cap link["route"],
       "run", "rtbCreate")

\* A route table with a default route is taken as it is, associated or not.
RtbGet(r) ==
  Look(r, "rtbGet", "rtb", Inside(net[r]["vpc"], "rtb") \cap link["route"],
       "unlock", "rtbCreate")
RtbCreate(r) == Make(r, "rtbCreate", "rtb", "rtbRoute")
RtbRoute(r) == Attach(r, "rtbRoute", "route", "rtbAssociate")
RtbAssociate(r) == Attach(r, "rtbAssociate", "association", "unlock")

Unlock(r) ==
  /\ pc[r] = "unlock"
  /\ mu' = [mu EXCEPT ![CloudOf[r]] = None]
  /\ Return(r, "run")
  /\ UNCHANGED <<known, kills, page, keys, account, net>>

Run(r) == Make(r, "run", "instance", "provision")

\* Mutant: the SSH connection is tried until it is there.
ProvisionForever(r) ==
  /\ pc[r] = "provision"
  /\ Reachable(r)
  /\ Return(r, "created") \/ Fault(r, "broken")
  /\ UNCHANGED <<terraform, page, keys, account, net>>

\* Everything Create does with the instances needs an SSH connection to them,
\* with the key file.
Provision(r) ==
  /\ pc[r] = "provision"
  /\ \/ Reachable(r) /\ Fits(r) /\ Return(r, "created")
     \/ Fail(r, Reachable(r) /\ Fits(r), "broken")
  /\ UNCHANGED <<terraform, page, keys, account, net>>

CreateNext(r) ==
  \/ Lock(r) \/ KeyPair(r)
  \/ VpcById(r) \/ VpcByName(r) \/ VpcCreate(r) \/ VpcModify(r)
  \/ IgwGet(r) \/ IgwCreate(r) \/ IgwAttach(r)
  \/ SgGet(r) \/ SgCreate(r) \/ SgIngress(r) \/ SgEgress(r)
  \/ SubnetGet(r) \/ SubnetCreate(r)
  \/ RtbGet(r) \/ RtbCreate(r) \/ RtbRoute(r) \/ RtbAssociate(r)
  \/ Unlock(r) \/ Run(r) \/ Provision(r)

-----------------------------------------------------------------------------
(* DeleteInfrastructure: kind after kind, of those in the page, no lock.   *)

FromVpc(p) == IF "vpc" \in p THEN "dVpc" ELSE "destroyed"
FromIgw(p) == IF "igw" \in p THEN "dIgwDescribe" ELSE FromVpc(p)
FromSg(p) == IF "sg" \in p THEN "dSg" ELSE FromIgw(p)
FromSubnet(p) == IF "subnet" \in p THEN "dSubnet" ELSE FromSg(p)
FromRtb(p) == IF "rtb" \in p THEN "dRtbDescribe" ELSE FromSubnet(p)
FromInstance(p) == IF "instance" \in p THEN "dTerminate" ELSE FromRtb(p)

\* Terraform destroys, in a later run, a resource it has in its state.
Delete(r) ==
  /\ InState(r)
  /\ r \in known
  /\ known' = known \ {r}
  /\ Return(r, "dGet")
  /\ UNCHANGED <<mu, kills, page, keys, account, net>>

\* Only the first page of the answer is read; a key pair in it is passed over.
Pages(r) ==
  IF FullPage THEN {Tagged(r)}
  ELSE {p \in SUBSET Tagged(r) : p = {} => Tagged(r) = {}}

GetResources(r) ==
  /\ pc[r] = "dGet"
  /\ \/ \E p \in Pages(r) : /\ page' = [page EXCEPT ![r] = p \cap Kind]
                            /\ Return(r, FromInstance(p))
     \/ Fault(r, "broken") /\ UNCHANGED page
  /\ UNCHANGED <<terraform, keys, account, net>>

\* Mutant: the instances are those of the network, not those with the tag.
TerminateNetwork(r) ==
  /\ pc[r] = "dTerminate"
  /\ shutting' = shutting \cup {s \in up["instance"] : net[s]["vpc"] = net[r]["vpc"]}
  /\ Return(r, "dWait")
  /\ UNCHANGED <<terraform, page, keys, up, link, net>>

\* Mutant: an instance that is already gone counts as shutting down again.
TerminateAgain(r) ==
  /\ pc[r] = "dTerminate"
  /\ shutting' = shutting \cup {r}
  /\ Return(r, "dWait")
  /\ UNCHANGED <<terraform, page, keys, up, link, net>>

Terminate(r) ==
  /\ pc[r] = "dTerminate"
  /\ \/ /\ shutting' = shutting \cup ({r} \cap up["instance"])
        /\ Return(r, "dWait") \/ Fault(r, OnDeleteError("dWait"))
     \/ Fault(r, OnDeleteError("dWait")) /\ UNCHANGED shutting
  /\ UNCHANGED <<terraform, page, keys, up, link, net>>

\* Mutant: the instances are terminated and not waited for.
TerminationNotAwaited(r) ==
  /\ pc[r] = "dWait"
  /\ Return(r, FromRtb(page[r])) \/ Fault(r, OnDeleteError(FromRtb(page[r])))
  /\ UNCHANGED <<terraform, page, keys, account, net>>

\* The wait gives up on instances that nobody has asked to terminate.
AwaitTerminated(r) ==
  /\ pc[r] = "dWait"
  /\ \/ r \notin up["instance"] /\ Return(r, FromRtb(page[r]))
     \/ Fail(r, r \notin up["instance"] \ shutting, OnDeleteError(FromRtb(page[r])))
  /\ UNCHANGED <<terraform, page, keys, account, net>>

\* Mutant: a route table is deleted without being disassociated.
RtbNotDisassociated(r) ==
  /\ pc[r] = "dRtbDescribe"
  /\ Return(r, "dRtbDelete") \/ Fault(r, OnDeleteError("dRtbDelete"))
  /\ UNCHANGED <<terraform, page, keys, account, net>>

RtbDescribe(r) ==
  /\ pc[r] = "dRtbDescribe"
  /\ \/ Return(r, IF r \in link["association"] THEN "dRtbDisassociate" ELSE "dRtbDelete")
     \/ Fault(r, OnDeleteError("dRtbDelete"))
  /\ UNCHANGED <<terraform, page, keys, account, net>>

\* The one error of a removal that is returned whether errors are ignored or not.
RtbDisassociate(r) ==
  /\ pc[r] = "dRtbDisassociate"
  /\ \/ /\ r \in link["association"]
        /\ link' = [link EXCEPT !["association"] = @ \ {r}]
        /\ Return(r, "dRtbDelete") \/ Fault(r, "broken")
     \/ Fail(r, r \in link["association"], "broken") /\ UNCHANGED link
  /\ UNCHANGED <<terraform, page, keys, up, shutting, net>>

RtbDelete(r) == Remove(r, "dRtbDelete", "rtb", FromSubnet(page[r]))
SubnetDelete(r) == Remove(r, "dSubnet", "subnet", FromSg(page[r]))
SgDelete(r) == Remove(r, "dSg", "sg", FromIgw(page[r]))

\* The gateway an earlier answer described is detached if it was attached.
IgwDescribe(r) ==
  /\ pc[r] = "dIgwDescribe"
  /\ \/ Return(r, IF r \in link["attachment"] THEN "dIgwDetach" ELSE "dIgwDelete")
     \/ ~IgnoreErrors /\ Fault(r, "broken")
  /\ UNCHANGED <<terraform, page, keys, account, net>>

\* Detaching is refused while the VPC has instances with a public address.
IgwDetach(r) ==
  LET may == Inside(net[r]["vpc"], "instance") = {}
  IN  /\ pc[r] = "dIgwDetach"
      /\ \/ /\ may
            /\ link' = [link EXCEPT !["attachment"] = @ \ {r}]
            /\ Return(r, "dIgwDelete") \/ Fault(r, OnDeleteError("dIgwDelete"))
         \/ Fail(r, may, OnDeleteError("dIgwDelete")) /\ UNCHANGED link
      /\ UNCHANGED <<terraform, page, keys, up, shutting, net>>

IgwDelete(r) == Remove(r, "dIgwDelete", "igw", FromVpc(page[r]))
VpcDelete(r) == Remove(r, "dVpc", "vpc", "destroyed")

DeleteNext(r) ==
  \/ GetResources(r) \/ Terminate(r) \/ AwaitTerminated(r)
  \/ RtbDescribe(r) \/ RtbDisassociate(r) \/ RtbDelete(r)
  \/ SubnetDelete(r) \/ SgDelete(r)
  \/ IgwDescribe(r) \/ IgwDetach(r) \/ IgwDelete(r) \/ VpcDelete(r)

-----------------------------------------------------------------------------
(* The process of a configuration and its end.                             *)

\* Mutant: Delete drops the id before the objects are gone.
EndRunForgets(c) ==
  /\ pc' = [r \in Resource |->
              IF CloudOf[r] = c /\ InFlight(r) THEN "lost" ELSE pc[r]]
  /\ mu' = [mu EXCEPT ![c] = None]
  /\ known' = {r \in Resource : IF CloudOf[r] = c THEN InState(r)' ELSE r \in known}
  /\ UNCHANGED <<page, keys, account, net>>

\* The run of c is over: a new process has a new Cloud, with infraMu free.
\* Terraform never learns the id of a resource that was being created, and
\* keeps one that was being deleted.
EndRun(c) ==
  /\ pc' = [r \in Resource |->
              IF CloudOf[r] # c \/ ~InFlight(r) THEN pc[r]
              ELSE IF Creating(r) THEN "lost" ELSE "broken"]
  /\ mu' = [mu EXCEPT ![c] = None]
  /\ known' = {r \in Resource : IF CloudOf[r] = c THEN InState(r)' ELSE r \in known}
  /\ UNCHANGED <<page, keys, account, net>>

Busy(c) == \E r \in Resource : CloudOf[r] = c /\ InFlight(r)

\* A Create that failed holds infraMu, and nothing but an end of the process
\* frees it.
Leaked(c) == mu[c] # None /\ pc[mu[c]] \notin Critical

\* Only Creates that wait for a leaked infraMu are left.
Hung(c) ==
  /\ Leaked(c)
  /\ Busy(c)
  /\ \A r \in Resource : CloudOf[r] = c /\ InFlight(r) => pc[r] = "lock"

\* terraform apply returns and is run again.
NewRun(c) ==
  /\ ~Busy(c)
  /\ mu[c] # None \/ \E r \in Resource \ known : CloudOf[r] = c /\ InState(r)
  /\ EndRun(c)
  /\ UNCHANGED <<faults, kills>>

\* The operator gives up on a run that hangs.
Interrupt(c) ==
  /\ Hung(c)
  /\ EndRun(c)
  /\ UNCHANGED <<faults, kills>>

\* The process is killed, or the machine fails, in the middle of a run.
Kill(c) ==
  /\ Busy(c)
  /\ kills < MaxKills
  /\ kills' = kills + 1
  /\ EndRun(c)
  /\ UNCHANGED faults

\* The description of a gateway fails, the error is ignored, and the code
\* indexes the empty answer: the whole process ends.
Panic(r) ==
  /\ pc[r] = "dIgwDescribe"
  /\ IgnoreErrors
  /\ faults < MaxFaults
  /\ faults' = faults + 1
  /\ EndRun(CloudOf[r])
  /\ UNCHANGED kills

\* AWS: an instance that was shutting down is gone.
InstanceGone(r) ==
  /\ r \in shutting
  /\ shutting' = shutting \ {r}
  /\ up' = [up EXCEPT !["instance"] = @ \ {r}]
  /\ UNCHANGED <<pc, terraform, page, keys, link, net, faults>>

Next ==
  \/ \E r \in Resource :
       Create(r) \/ CreateNext(r) \/ Delete(r) \/ DeleteNext(r) \/ Panic(r) \/ InstanceGone(r)
  \/ \E c \in Cloud : NewRun(c) \/ Interrupt(c) \/ Kill(c)

Spec == Init /\ [][Next]_vars

-----------------------------------------------------------------------------
(* What the code guarantees.                                               *)

\* The critical section of infraMu: whoever works on the network of the
\* account holds the mutex of its Cloud, and the mutex is only ever held by a
\* Create that works there or that failed there.  (create.go:104-138)
LockOwner ==
  /\ \A r \in Resource : pc[r] \in Critical => mu[CloudOf[r]] = r
  /\ \A c \in Cloud : mu[c] # None =>
       CloudOf[mu[c]] = c /\ pc[mu[c]] \in Critical \cup {"broken"}

\* Look-up and creation under infraMu make one VPC of a name, however Creates
\* interleave with each other, with Deletes and with failed or killed runs;
\* the resources of two configurations share no mutex and are not covered.
\* (createOrGetVPC, create.go:211-277)
OneVpcPerName ==
  \A r \in up["vpc"] : VpcName[r] # None =>
    /\ \A s \in up["vpc"] :
         CloudOf[s] = CloudOf[r] /\ VpcName[s] = VpcName[r] => s = r
    /\ \A f \in Foreign : VpcName[f] # VpcName[r]

\* When a Delete succeeds and Terraform forgets the resource, nothing of what it
\* was told to remove is left in the account, and, if it was told of everything,
\* nothing at all but the key pair its Create may have imported: whatever step its
\* Create had reached, whoever else works on the same network.  (delete.go:17-190;
\* no Delete removes the key pair that create.go:190-203 tags like the rest)
DestroyComplete ==
  \A r \in Resource : pc[r] = "destroyed" /\ ~IgnoreErrors =>
    /\ page[r] \cap Disposable(r) = {}
    /\ FullPage => Tagged(r) \subseteq {"keyPair"}

\* A Create past its critical section has placed its security group and its
\* subnet in the VPC it was configured for, provided VPC names are unique
\* among foreign VPCs and no two configurations name one VPC.
\* (createOrGetSecurityGroup looks groups up by name alone, create.go:353-364)
PlacementConsistent ==
  \A r \in Resource : pc[r] \in {"unlock", "run", "provision"} =>
    /\ net[net[r]["sg"]]["vpc"] = net[r]["vpc"]
    /\ net[net[r]["subnet"]]["vpc"] = net[r]["vpc"]

\* The destroy of a resource whose network others share stops at the first
\* object in use: the one step with which it cuts off the instances of another
\* created resource is to disassociate the route table it made.
\* (delete.go:86-96; everything else is refused by AWS)
CutOffOnlyByRouteTable ==
  [][\A r \in Resource :
       pc[r] = "created" /\ Reachable(r) /\ ~Reachable(r)' =>
         \E s \in Resource \ {r} :
           /\ pc[s] = "dRtbDisassociate"
           /\ net[s]["subnet"] = net[r]["subnet"]]_vars

\* s uses the network of r: it has instances in its VPC, or has objects and one of
\* the objects of its network was made by r.
Uses(s, r) ==
  \/ s \in Inside(net[r]["vpc"], "instance")
  \/ Disposable(s) # {} /\ \E k \in NetKind : net[s][k] = r

\* The subnet of r was made by another resource, whose Delete has removed it, and
\* the association of the route table of r with it.
Parted(r) ==
  /\ net[r]["subnet"] \in Resource \ ({r} \cup up["subnet"])
  /\ pc[net[r]["subnet"]] \notin CreateStep \cup {"absent"}

\* A Delete that AWS serves is only stopped by another resource, which uses its
\* network or removed the subnet its route table was associated with in between.
\* (delete.go:17-190, and what AWS refuses to remove)
DestroyStoppedByOthers ==
  [][~IgnoreErrors /\ FullPage /\ UNCHANGED faults =>
       \A r \in Resource : Deleting(r) /\ pc'[r] = "broken" =>
         \/ Kill(CloudOf[r])
         \/ \E s \in Resource \ {r} : Uses(s, r)
         \/ pc[r] = "dRtbDisassociate" /\ Parted(r)]_vars

\* Creates that share a network do not make each other fail: unless a call
\* failed, a process was killed or a destroy has begun, every Create succeeds,
\* whatever they find of each other's half-made network and keys, provided no two
\* configurations name one VPC or one key pair, and a configuration keeps a key
\* pair in one file.
\* (CreateInfrastructure as a whole, create.go:103-209)
CreatesDoNotDisturb ==
  [][\A r \in Resource : Creating(r) /\ pc'[r] = "broken" =>
       \/ faults' > 0 \/ kills > 0
       \/ \E s \in Resource : Deleting(s) \/ pc[s] \in {"broken", "destroyed"}]_vars

\* With ignore_errors_on_destroy set, an error of a removal does not end a
\* Delete; only a failing GetResources and the end of the process do.
\* (readme.md:41 and the branches on IgnoreErrorsOnDestroy of delete.go)
IgnoredErrorsDoNotStop ==
  [][IgnoreErrors =>
       \A r \in Resource : Deleting(r) /\ pc[r] # "dGet" /\ pc'[r] = "broken" =>
         (\E s \in Resource : Panic(s)) \/ (\E c \in Cloud : Kill(c))]_vars

\* With ignore_errors_on_destroy set, an error that a Delete logs and ignores
\* costs no other resource its Create: only a kill, or the operator's interrupt
\* of a hung run, makes Terraform lose a resource.  (delete.go:143-151)
IgnoredErrorsLoseNothing ==
  [][IgnoreErrors =>
       \A r \in Resource : Creating(r) /\ pc'[r] = "lost" =>
         \E c \in Cloud : Kill(c) \/ Interrupt(c)]_vars

-----------------------------------------------------------------------------
(* Progress: goroutines that can run do run, AWS ends terminations, and an *)
(* operator keeps applying, retries destroys and interrupts hung runs.     *)

Fairness ==
  /\ \A r \in Resource : WF_vars(CreateNext(r)) /\ WF_vars(DeleteNext(r))
  /\ \A r \in Resource : WF_vars(InstanceGone(r))

OperatorFairness ==
  /\ \A r \in Resource : WF_vars(Delete(r))
  /\ \A c \in Cloud : WF_vars(NewRun(c)) /\ WF_vars(Interrupt(c))

FairSpec == Spec /\ Fairness
RetrySpec == FairSpec /\ OperatorFairness

\* A Create ends, unless it waits for a mutex that a failed Create has leaked.
CreateEnds ==
  \A r \in Resource : Creating(r) ~> (~Creating(r) \/ Leaked(CloudOf[r]))

\* From whatever step a Create had reached when it failed, repeated destroys of
\* all resources remove everything they made, shared network included, except the
\* key pair of the one that imported it, which no Delete removes.
\* (delete.go:17-190)
DestroyConverges ==
  \A r \in Resource :
    InState(r) ~> (pc[r] = "destroyed" /\ Tagged(r) \subseteq {"keyPair"})

-----------------------------------------------------------------------------
(* The life cycle of a resource, as Terraform sees it.                     *)

Phase ==
  [r \in Resource |->
     IF Creating(r) THEN "creating"
     ELSE IF Deleting(r) THEN "deleting"
     ELSE IF pc[r] = "created" THEN "ready" ELSE pc[r]]

Lifecycle == INSTANCE ResourceLifecycle WITH
  Lenient <- IgnoreErrors \/ ~FullPage,
  phase <- Phase,
  footprint <- {r \in Resource : Disposable(r) # {}}

\* Every run of the AWS backend is a run of the life cycle every resource of the
\* provider has, with the objects a Delete removes for the footprint: the key pair
\* a Create may have imported is not among them and outlives its resource.
ImplementsLifecycle == Lifecycle!LifecycleSpec
=============================================================================
