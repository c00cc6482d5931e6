--------------------------- MODULE AwsInfraProofs ---------------------------
(***************************************************************************)
(* Theorems about AwsInfra, for every set of resources, configurations and *)
(* VPCs and every number of faults and kills.                              *)
(***************************************************************************)
EXTENDS AwsInfra, TLAPS

USE SharingAssumption, ConfigAssumption, SwitchAssumption, BoundAssumption DEF keys

Place == Resource \cup Foreign \cup {None}

-----------------------------------------------------------------------------
(* Type correctness: what each form of a call does to the types.           *)

LEMMA ReturnType ==
  ASSUME TypeOK, NEW r \in Resource, NEW next \in Step, Return(r, next)
  PROVE  pc' \in [Resource -> Step] /\ faults' \in Nat
BY DEF TypeOK, Return

LEMMA FaultType ==
  ASSUME TypeOK, NEW r \in Resource, NEW next \in Step, Fault(r, next)
  PROVE  pc' \in [Resource -> Step] /\ faults' \in Nat
BY DEF TypeOK, Fault

LEMMA FailType ==
  ASSUME TypeOK, NEW r \in Resource, NEW may \in BOOLEAN, NEW next \in Step,
         Fail(r, may, next)
  PROVE  pc' \in [Resource -> Step] /\ faults' \in Nat
BY ReturnType, FaultType DEF Fail

LEMMA BrokenStep == "broken" \in Step
BY DEF Step, Settled

LEMMA RememberType ==
  ASSUME TypeOK, NEW r \in Resource, NEW kind, NEW o \in Place, Remember(r, kind, o)
  PROVE  net' \in [Resource -> [NetKind -> Place]]
BY DEF TypeOK, Remember, Place

LEMMA LookType ==
  ASSUME TypeOK, NEW r \in Resource, NEW step, NEW kind,
         NEW found \in SUBSET Place, NEW hit \in Step, NEW miss \in Step,
         Look(r, step, kind, found, hit, miss)
  PROVE  TypeOK'
<1>1. pc' \in [Resource -> Step] /\ faults' \in Nat
  BY ReturnType, FaultType, BrokenStep DEF Look
<1>2. net' \in [Resource -> [NetKind -> Place]]
  BY RememberType DEF Look, TypeOK, Place
<1>3. UNCHANGED <<mu, known, kills, page, up, link, shutting, pairs, file, key>>
  BY DEF Look, terraform, account
<1> QED BY <1>1, <1>2, <1>3 DEF TypeOK, Place

LEMMA MakeType ==
  ASSUME TypeOK, NEW r \in Resource, NEW step, NEW kind \in Kind, NEW next \in Step,
         Make(r, step, kind, next)
  PROVE  TypeOK'
<1>1. pc' \in [Resource -> Step] /\ faults' \in Nat
  BY ReturnType, FaultType, BrokenStep DEF Make, Fail
<1>2. net' \in [Resource -> [NetKind -> Place]]
  BY RememberType DEF Make, TypeOK, Place
<1>3. up' \in [Kind -> SUBSET Resource] /\ up["instance"] \subseteq up'["instance"]
  BY DEF Make, TypeOK, Kind
<1>4. UNCHANGED <<mu, known, kills, page, link, shutting, pairs, file, key>>
  BY DEF Make, terraform
<1> QED BY <1>1, <1>2, <1>3, <1>4 DEF TypeOK, Place

LEMMA AttachType ==
  ASSUME TypeOK, NEW r \in Resource, NEW step, NEW tie \in Tie, NEW next \in Step,
         Attach(r, step, tie, next)
  PROVE  TypeOK'
<1>1. pc' \in [Resource -> Step] /\ faults' \in Nat
  BY ReturnType, FaultType, BrokenStep DEF Attach, Fail
<1>2. link' \in [Tie -> SUBSET Resource]
  BY DEF Attach, TypeOK
<1>3. UNCHANGED <<mu, known, kills, page, up, shutting, net, pairs, file, key>>
  BY DEF Attach, terraform
<1> QED BY <1>1, <1>2, <1>3 DEF TypeOK

LEMMA CallType ==
  ASSUME TypeOK, NEW r \in Resource, NEW step, NEW next \in Step, Call(r, step, next)
  PROVE  TypeOK'
<1>1. pc' \in [Resource -> Step] /\ faults' \in Nat
  BY ReturnType, FaultType, BrokenStep DEF Call
<1>2. UNCHANGED <<mu, known, kills, page, up, link, shutting, net, pairs, file, key>>
  BY DEF Call, terraform, account
<1> QED BY <1>1, <1>2 DEF TypeOK

LEMMA SeveredType ==
  ASSUME TypeOK, NEW r \in Resource, NEW kind
  PROVE  Severed(r, kind) \in [Tie -> SUBSET Resource]
BY DEF TypeOK, Severed

LEMMA RemoveType ==
  ASSUME TypeOK, NEW r \in Resource, NEW step, NEW kind \in Kind \ {"instance"},
         NEW next \in Step, Remove(r, step, kind, next)
  PROVE  TypeOK'
<1>0. OnDeleteError(next) \in Step
  BY BrokenStep DEF OnDeleteError
<1>1. pc' \in [Resource -> Step] /\ faults' \in Nat
  BY <1>0, ReturnType, FaultType DEF Remove, Fail
<1>2. up' \in [Kind -> SUBSET Resource] /\ up'["instance"] = up["instance"]
  BY DEF Remove, TypeOK, Kind
<1>3. link' \in [Tie -> SUBSET Resource]
  BY SeveredType DEF Remove, TypeOK
<1>4. UNCHANGED <<mu, known, kills, page, shutting, net, pairs, file, key>>
  BY DEF Remove, terraform
<1> QED BY <1>1, <1>2, <1>3, <1>4 DEF TypeOK

LEMMA FromType ==
  ASSUME NEW p
  PROVE  /\ FromVpc(p) \in Step /\ FromIgw(p) \in Step /\ FromSg(p) \in Step
         /\ FromSubnet(p) \in Step /\ FromRtb(p) \in Step /\ FromInstance(p) \in Step
BY DEF FromVpc, FromIgw, FromSg, FromSubnet, FromRtb, FromInstance,
       Step, DeleteStep, Settled

LEMMA FoundType ==
  ASSUME TypeOK
  PROVE  /\ Vpcs \subseteq Place
         /\ \A v : Gateways(v) \subseteq Place
         /\ \A v : \A kind \in Kind : Inside(v, kind) \subseteq Place
BY DEF TypeOK, Vpcs, Gateways, Inside, Place, Kind, Tie

\* What the steps of createKeyPair do: they leave all but the keys alone.
LEMMA KeyMoves ==
  ASSUME NEW r \in Resource, KeyPair(r)
  PROVE  /\ UNCHANGED <<mu, known, kills, page, up, link, shutting, net>>
         /\ pc[r] \in KeyStep
         /\ \E n \in KeyStep \cup {"vpcById", "vpcByName", "vpcCreate", "broken"} :
              /\ pc' = [pc EXCEPT ![r] = n]
              /\ n = "vpcCreate" => VpcName[r] = None
              /\ n = "vpcByName" => VpcName[r] # None
<1> USE DEF KeyStep, AfterKeys, ByName, Return, Fault, Fail, terraform, account
<1>1. CASE KeyDescribe(r) \/ KeyCheck(r)
  BY <1>1 DEF KeyDescribe, KeyCheck
<1>2. CASE KeyRead(r) \/ KeyTruncate(r)
  BY <1>2 DEF KeyRead, KeyTruncate
<1>3. CASE KeyWrite(r) \/ KeyImport(r)
  BY <1>3 DEF KeyWrite, KeyImport
<1> QED BY <1>1, <1>2, <1>3 DEF KeyPair

LEMMA KeyType ==
  ASSUME TypeOK, NEW r \in Resource, KeyPair(r)
  PROVE  TypeOK'
<1>1. pc' \in [Resource -> Step]
  <2>1. KeyStep \cup {"vpcById", "vpcByName", "vpcCreate", "broken"} \subseteq Step
    BY DEF Step, CreateStep, Critical, KeyStep, Settled
  <2> QED BY <2>1, KeyMoves DEF TypeOK
<1>2. faults' \in Nat
  BY DEF KeyPair, KeyDescribe, KeyCheck, KeyRead, KeyTruncate, KeyWrite, KeyImport,
         Return, Fault, Fail, TypeOK
<1>3. pairs' \subseteq Resource
  BY DEF KeyPair, KeyDescribe, KeyCheck, KeyRead, KeyTruncate, KeyWrite, KeyImport, TypeOK
<1>4. file' \in [KeyFiles -> Resource \cup {None, Torn}]
  BY DEF KeyPair, KeyDescribe, KeyCheck, KeyRead, KeyTruncate, KeyWrite, KeyImport, TypeOK
<1>5. key' \in [Resource -> Resource \cup {None}]
  BY DEF KeyPair, KeyDescribe, KeyCheck, KeyRead, KeyTruncate, KeyWrite, KeyImport, Get, TypeOK
<1> QED BY <1>1, <1>2, <1>3, <1>4, <1>5, KeyMoves DEF TypeOK

LEMMA CreateType ==
  ASSUME TypeOK, NEW r \in Resource, CreateNext(r)
  PROVE  TypeOK'
<1> USE DEF Step, CreateStep, Critical, KeyStep
<1>1. CASE Lock(r)
  <2>1. pc' \in [Resource -> Step] /\ faults' \in Nat
    BY <1>1, ReturnType DEF Lock
  <2> QED BY <1>1, <2>1 DEF Lock, TypeOK, account
<1>2. CASE KeyPair(r)
  BY <1>2, KeyType
<1>3. CASE VpcById(r)
  BY <1>3, LookType, FoundType DEF VpcById, ByName
<1>4. CASE VpcByName(r)
  <2>1. {v \in Vpcs : VpcName[v] = VpcName[r]} \subseteq Place
    BY FoundType
  <2> QED BY <1>4, <2>1, LookType DEF VpcByName
<1>5. CASE VpcCreate(r)
  BY <1>5, MakeType DEF VpcCreate, Kind
<1>6. CASE VpcModify(r)
  BY <1>6, CallType DEF VpcModify
<1>7. CASE IgwGet(r)
  BY <1>7, LookType, FoundType DEF IgwGet
<1>8. CASE IgwCreate(r)
  BY <1>8, MakeType DEF IgwCreate, Kind
<1>9. CASE IgwAttach(r)
  BY <1>9, AttachType DEF IgwAttach, Tie
<1>10. CASE SgGet(r)
  <2>1. {s \in up["sg"] : GroupName(net[s]["vpc"]) = GroupName(net[r]["vpc"])} \subseteq Place
    BY DEF TypeOK, Kind, Place
  <2> QED BY <1>10, <2>1, LookType DEF SgGet
<1>11. CASE SgCreate(r)
  BY <1>11, MakeType DEF SgCreate, Kind
<1>12. CASE SgIngress(r)
  BY <1>12, AttachType DEF SgIngress, Tie
<1>13. CASE SgEgress(r)
  BY <1>13, CallType DEF SgEgress
<1>14. CASE SubnetGet(r)
  BY <1>14, LookType, FoundType DEF SubnetGet, Kind
<1>15. CASE SubnetCreate(r)
  BY <1>15, MakeType DEF SubnetCreate, Kind
<1>16. CASE RtbGet(r)
  <2>1. Inside(net[r]["vpc"], "rtb") \cap link["route"] \subseteq Place
    BY FoundType DEF Kind
  <2> QED BY <1>16, <2>1, LookType DEF RtbGet
<1>17. CASE RtbCreate(r)
  BY <1>17, MakeType DEF RtbCreate, Kind
<1>18. CASE RtbRoute(r)
  BY <1>18, AttachType DEF RtbRoute, Tie
<1>19. CASE RtbAssociate(r)
  BY <1>19, AttachType DEF RtbAssociate, Tie
<1>20. CASE Unlock(r)
  <2>1. pc' \in [Resource -> Step] /\ faults' \in Nat
    BY <1>20, ReturnType DEF Unlock
  <2> QED BY <1>20, <2>1 DEF Unlock, TypeOK, account
<1>21. CASE Run(r)
  BY <1>21, MakeType DEF Run, Kind
<1>22. CASE Provision(r)
  <2>1. pc' \in [Resource -> Step] /\ faults' \in Nat
    BY <1>22, ReturnType, FaultType DEF Provision, Fail, Settled
  <2> QED BY <1>22, <2>1 DEF Provision, TypeOK, terraform, account
<1> QED
  BY <1>1, <1>2, <1>3, <1>4, <1>5, <1>6, <1>7, <1>8, <1>9, <1>10, <1>11, <1>12,
     <1>13, <1>14, <1>15, <1>16, <1>17, <1>18, <1>19, <1>20, <1>21, <1>22
  DEF CreateNext

LEMMA DeleteType ==
  ASSUME TypeOK, NEW r \in Resource, DeleteNext(r)
  PROVE  TypeOK'
<1>0. \A next \in Step : OnDeleteError(next) \in Step
  BY BrokenStep DEF OnDeleteError
<1>1. CASE GetResources(r)
  <2>1. pc' \in [Resource -> Step] /\ faults' \in Nat
    BY <1>1, ReturnType, FaultType, FromType, BrokenStep DEF GetResources
  <2>2. page' \in [Resource -> SUBSET Kind]
    <3>1. page' = page \/ \E p \in Pages(r) : page' = [page EXCEPT ![r] = p \cap Kind]
      BY <1>1 DEF GetResources
    <3>2. page \in [Resource -> SUBSET Kind]
      BY DEF TypeOK
    <3> QED BY ONLY <3>1, <3>2
  <2> QED BY <1>1, <2>1, <2>2 DEF GetResources, TypeOK, terraform, account
<1>2. CASE Terminate(r)
  <2>0. "dWait" \in Step
    BY DEF Step, DeleteStep
  <2>1. pc' \in [Resource -> Step] /\ faults' \in Nat
    BY <1>0, <1>2, <2>0, ReturnType, FaultType DEF Terminate
  <2> QED BY <1>2, <2>1 DEF Terminate, TypeOK, terraform
<1>3. CASE AwaitTerminated(r)
  <2>1. pc' \in [Resource -> Step] /\ faults' \in Nat
    BY <1>0, <1>3, ReturnType, FaultType, FromType DEF AwaitTerminated, Fail
  <2> QED BY <1>3, <2>1 DEF AwaitTerminated, TypeOK, terraform, account
<1>4. CASE RtbDescribe(r)
  <2>0. "dRtbDisassociate" \in Step /\ "dRtbDelete" \in Step
    BY DEF Step, DeleteStep
  <2>1. pc' \in [Resource -> Step] /\ faults' \in Nat
    BY <1>0, <1>4, <2>0, ReturnType, FaultType DEF RtbDescribe
  <2> QED BY <1>4, <2>1 DEF RtbDescribe, TypeOK, terraform, account
<1>5. CASE RtbDisassociate(r)
  <2>0. "dRtbDelete" \in Step
    BY DEF Step, DeleteStep
  <2>1. pc' \in [Resource -> Step] /\ faults' \in Nat
    BY <1>5, <2>0, ReturnType, FaultType, BrokenStep DEF RtbDisassociate, Fail
  <2>2. link' \in [Tie -> SUBSET Resource]
    BY <1>5 DEF RtbDisassociate, TypeOK, Tie
  <2> QED BY <1>5, <2>1, <2>2 DEF RtbDisassociate, TypeOK, terraform
<1>6. CASE RtbDelete(r)
  BY <1>6, RemoveType, FromType DEF RtbDelete, Kind
<1>7. CASE SubnetDelete(r)
  BY <1>7, RemoveType, FromType DEF SubnetDelete, Kind
<1>8. CASE SgDelete(r)
  BY <1>8, RemoveType, FromType DEF SgDelete, Kind
<1>9. CASE IgwDescribe(r)
  <2>0. "dIgwDetach" \in Step /\ "dIgwDelete" \in Step
    BY DEF Step, DeleteStep
  <2>1. pc' \in [Resource -> Step] /\ faults' \in Nat
    BY <1>9, <2>0, ReturnType, FaultType, BrokenStep DEF IgwDescribe
  <2> QED BY <1>9, <2>1 DEF IgwDescribe, TypeOK, terraform, account
<1>10. CASE IgwDetach(r)
  <2>0. "dIgwDelete" \in Step
    BY DEF Step, DeleteStep
  <2>1. pc' \in [Resource -> Step] /\ faults' \in Nat
    BY <1>0, <1>10, <2>0, ReturnType, FaultType DEF IgwDetach, Fail
  <2>2. link' \in [Tie -> SUBSET Resource]
    BY <1>10 DEF IgwDetach, TypeOK, Tie
  <2> QED BY <1>10, <2>1, <2>2 DEF IgwDetach, TypeOK, terraform
<1>11. CASE IgwDelete(r)
  BY <1>11, RemoveType, FromType DEF IgwDelete, Kind
<1>12. CASE VpcDelete(r)
  <2>0. "destroyed" \in Step
    BY DEF Step, Settled
  <2> QED BY <1>12, <2>0, RemoveType DEF VpcDelete, Kind
<1> QED
  BY <1>1, <1>2, <1>3, <1>4, <1>5, <1>6, <1>7, <1>8, <1>9, <1>10, <1>11, <1>12
  DEF DeleteNext

LEMMA EndRunType ==
  ASSUME TypeOK, NEW c \in Cloud, EndRun(c), faults' \in Nat, kills' \in Nat
  PROVE  TypeOK'
<1>1. pc' \in [Resource -> Step]
  BY DEF EndRun, TypeOK, Step, Settled
<1>2. mu' \in [Cloud -> Resource \cup {None}] /\ known' \subseteq Resource
  BY DEF EndRun, TypeOK
<1> QED BY <1>1, <1>2 DEF EndRun, TypeOK, account

LEMMA TypeInductive == TypeOK /\ [Next]_vars => TypeOK'
<1> SUFFICES ASSUME TypeOK, [Next]_vars PROVE TypeOK'
  OBVIOUS
<1>1. ASSUME NEW r \in Resource, Create(r) PROVE TypeOK'
  <2>0. "lock" \in Step
    BY DEF Step, CreateStep
  <2>1. pc' \in [Resource -> Step] /\ faults' \in Nat
    BY <1>1, <2>0, ReturnType DEF Create
  <2> QED BY <1>1, <2>1 DEF Create, TypeOK, terraform, account
<1>2. ASSUME NEW r \in Resource, Delete(r) PROVE TypeOK'
  <2>0. "dGet" \in Step
    BY DEF Step, DeleteStep
  <2>1. pc' \in [Resource -> Step] /\ faults' \in Nat
    BY <1>2, <2>0, ReturnType DEF Delete
  <2> QED BY <1>2, <2>1 DEF Delete, TypeOK, account
<1>3. ASSUME NEW r \in Resource, Panic(r) PROVE TypeOK'
  BY <1>3, EndRunType DEF Panic, TypeOK
<1>4. ASSUME NEW r \in Resource, InstanceGone(r) PROVE TypeOK'
  BY <1>4 DEF InstanceGone, TypeOK, terraform, Kind
<1>5. ASSUME NEW c \in Cloud, NewRun(c) \/ Interrupt(c) \/ Kill(c) PROVE TypeOK'
  BY <1>5, EndRunType DEF NewRun, Interrupt, Kill, TypeOK
<1>6. CASE UNCHANGED vars
  BY <1>6 DEF vars, TypeOK
<1> QED BY <1>1, <1>2, <1>3, <1>4, <1>5, <1>6, CreateType, DeleteType DEF Next

LEMMA TypeInit == Init => TypeOK
BY DEF Init, TypeOK, Step, Settled

\* Every variable keeps its type, and an instance that shuts down exists.
THEOREM TypeCorrect == Spec => []TypeOK
BY TypeInit, TypeInductive, PTL DEF Spec

-----------------------------------------------------------------------------
(* Where a step of one resource can lead.                                  *)

Moves(r, from, to) ==
  /\ pc[r] \in from
  /\ \E n \in to : pc' = [pc EXCEPT ![r] = n]

LEMMA CriticalMoves ==
  ASSUME TypeOK, NEW r \in Resource, CreateNext(r), ~Lock(r), ~Unlock(r)
  PROVE  /\ UNCHANGED <<mu, known>>
         /\ \/ Moves(r, Critical, Critical \cup {"broken"})
            \/ Moves(r, {"run", "provision"}, {"provision", "created", "broken"})
<1> USE DEF Moves, Critical, KeyStep, Return, Fault, Fail, terraform
<1>1. CASE KeyPair(r) \/ VpcModify(r) \/ SgEgress(r)
  BY <1>1, KeyMoves DEF VpcModify, SgEgress, Call, ByName
<1>2. CASE VpcById(r) \/ VpcByName(r) \/ IgwGet(r)
  BY <1>2 DEF VpcById, VpcByName, IgwGet, Look, ByName
<1>3. CASE SgGet(r) \/ SubnetGet(r) \/ RtbGet(r)
  BY <1>3 DEF SgGet, SubnetGet, RtbGet, Look
<1>4. CASE VpcCreate(r) \/ IgwCreate(r) \/ SgCreate(r)
  BY <1>4 DEF VpcCreate, IgwCreate, SgCreate, Make
<1>5. CASE SubnetCreate(r) \/ RtbCreate(r) \/ Run(r)
  BY <1>5 DEF SubnetCreate, RtbCreate, Run, Make
<1>6. CASE IgwAttach(r) \/ SgIngress(r) \/ RtbRoute(r) \/ RtbAssociate(r)
  BY <1>6 DEF IgwAttach, SgIngress, RtbRoute, RtbAssociate, Attach
<1>7. CASE Provision(r)
  BY <1>7 DEF Provision
<1> QED BY <1>1, <1>2, <1>3, <1>4, <1>5, <1>6, <1>7 DEF CreateNext

LEMMA FromMoves ==
  ASSUME NEW p
  PROVE  /\ FromVpc(p) \in DeleteStep \cup {"destroyed"}
         /\ FromIgw(p) \in DeleteStep \cup {"destroyed"}
         /\ FromSg(p) \in DeleteStep \cup {"destroyed"}
         /\ FromSubnet(p) \in DeleteStep \cup {"destroyed"}
         /\ FromRtb(p) \in DeleteStep \cup {"destroyed"}
         /\ FromInstance(p) \in DeleteStep \cup {"destroyed"}
BY DEF FromVpc, FromIgw, FromSg, FromSubnet, FromRtb, FromInstance, DeleteStep

LEMMA DeleteMoves ==
  ASSUME TypeOK, NEW r \in Resource, DeleteNext(r)
  PROVE  /\ UNCHANGED <<mu, known>>
         /\ Moves(r, DeleteStep, DeleteStep \cup {"broken", "destroyed"})
<1> USE DEF Moves, Return, Fault, Fail, terraform, OnDeleteError
<1>1. CASE GetResources(r) \/ AwaitTerminated(r)
  BY <1>1, FromMoves DEF GetResources, AwaitTerminated, DeleteStep
<1>2. CASE Terminate(r) \/ RtbDescribe(r) \/ RtbDisassociate(r)
  BY <1>2 DEF Terminate, RtbDescribe, RtbDisassociate, DeleteStep
<1>3. CASE IgwDescribe(r) \/ IgwDetach(r)
  BY <1>3 DEF IgwDescribe, IgwDetach, DeleteStep
<1>4. CASE RtbDelete(r) \/ SubnetDelete(r) \/ SgDelete(r)
  BY <1>4, FromMoves DEF RtbDelete, SubnetDelete, SgDelete, Remove, DeleteStep
<1>5. CASE IgwDelete(r) \/ VpcDelete(r)
  BY <1>5, FromMoves DEF IgwDelete, VpcDelete, Remove, DeleteStep
<1> QED BY <1>1, <1>2, <1>3, <1>4, <1>5 DEF DeleteNext

-----------------------------------------------------------------------------
(* The critical section.  LockOwner alone is not inductive: a failed holder *)
(* must not be destroyed in its own run, which `known' excludes.            *)

LockInv ==
  /\ LockOwner
  /\ \A r \in known : InState(r)
  /\ \A c \in Cloud : mu[c] \notin known

LEMMA LockInit == Init => LockInv
BY DEF Init, LockInv, LockOwner, Critical, KeyStep

LEMMA LockMoves ==
  ASSUME TypeOK, LockInv, NEW r \in Resource, NEW from, NEW to, Moves(r, from, to),
         UNCHANGED <<mu, known>>,
         from \cap {"created", "broken"} = {},
         \/ from = Critical /\ to = Critical \cup {"broken"}
         \/ from \cap Critical = {} /\ to \cap Critical = {}
  PROVE  LockInv'
<1> PICK n \in to : pc' = [pc EXCEPT ![r] = n]
  BY DEF Moves
<1>0. pc[r] \in from /\ pc'[r] = n /\ \A s \in Resource \ {r} : pc'[s] = pc[s]
  BY DEF Moves, TypeOK
<1>1. r \notin known
  BY <1>0 DEF LockInv, InState
<1>2. (\A s \in known : InState(s))'
  BY <1>0, <1>1 DEF LockInv, InState, TypeOK
<1>3. pc'[r] \in Critical => pc[r] \in Critical
  BY <1>0
<1>4. pc[r] \in Critical => pc'[r] \in Critical \cup {"broken"}
  BY <1>0
<1>5. ~(pc[r] = "broken")
  BY <1>0
<1>6. LockOwner'
  BY <1>0, <1>3, <1>4, <1>5 DEF LockOwner, LockInv, TypeOK
<1> QED BY <1>2, <1>6 DEF LockInv

LEMMA LockCreate ==
  ASSUME TypeOK, LockInv, NEW r \in Resource, CreateNext(r)
  PROVE  LockInv'
<1>1. CASE Lock(r)
  BY <1>1 DEF Lock, Return, Critical, KeyStep, TypeOK, LockInv, LockOwner, InState
<1>2. CASE Unlock(r)
  BY <1>2 DEF Unlock, Return, Critical, KeyStep, TypeOK, LockInv, LockOwner, InState
<1>3. CASE ~Lock(r) /\ ~Unlock(r)
  <2>0. UNCHANGED <<mu, known>>
    BY <1>3, CriticalMoves
  <2>1. CASE Moves(r, Critical, Critical \cup {"broken"})
    <3>1. Critical \cap {"created", "broken"} = {}
      BY DEF Critical, KeyStep
    <3> QED BY <2>0, <2>1, <3>1, LockMoves
  <2>2. CASE Moves(r, {"run", "provision"}, {"provision", "created", "broken"})
    <3>1. /\ {"run", "provision"} \cap Critical = {}
          /\ {"provision", "created", "broken"} \cap Critical = {}
          /\ {"run", "provision"} \cap {"created", "broken"} = {}
      BY DEF Critical, KeyStep
    <3> QED BY <2>0, <2>2, <3>1, LockMoves
  <2> QED BY <1>3, <2>1, <2>2, CriticalMoves
<1> QED BY <1>1, <1>2, <1>3

LEMMA LockEndRun ==
  ASSUME TypeOK, LockInv, NEW c \in Cloud, EndRun(c)
  PROVE  LockInv'
<1> USE DEF TypeOK, LockInv, InState
<1>1. \A r \in Resource : CloudOf[r] # c => pc'[r] = pc[r]
  BY DEF EndRun
<1>2. \A r \in Resource : CloudOf[r] = c => pc'[r] \notin Critical
  BY DEF EndRun, InFlight, Creating, CreateStep, Critical, KeyStep
<1>3. LockOwner'
  BY <1>1, <1>2 DEF LockOwner, EndRun
<1>4. (\A r \in known : InState(r))'
  BY <1>1 DEF EndRun
<1>5. (\A d \in Cloud : mu[d] \notin known)'
  <2> SUFFICES ASSUME NEW d \in Cloud PROVE mu'[d] \notin known'
    OBVIOUS
  <2>1. CASE d = c
    BY <2>1 DEF EndRun
  <2>2. CASE d # c
    BY <2>2 DEF EndRun, LockOwner
  <2> QED BY <2>1, <2>2
<1> QED BY <1>3, <1>4, <1>5

LEMMA LockInductive == TypeOK /\ LockInv /\ [Next]_vars => LockInv'
<1> SUFFICES ASSUME TypeOK, LockInv, [Next]_vars PROVE LockInv'
  OBVIOUS
<1>1. ASSUME NEW r \in Resource, Create(r) PROVE LockInv'
  BY <1>1 DEF Create, Return, terraform, Critical, KeyStep, TypeOK, LockInv, LockOwner, InState
<1>2. ASSUME NEW r \in Resource, Delete(r) PROVE LockInv'
  BY <1>2 DEF Delete, Return, Critical, KeyStep, TypeOK, LockInv, LockOwner, InState
<1>3. ASSUME NEW r \in Resource, DeleteNext(r) PROVE LockInv'
  <2>1. /\ DeleteStep \cap Critical = {}
        /\ (DeleteStep \cup {"broken", "destroyed"}) \cap Critical = {}
        /\ DeleteStep \cap {"created", "broken"} = {}
    BY DEF Critical, KeyStep, DeleteStep
  <2> QED BY ONLY <1>3, <2>1, TypeOK, LockInv, DeleteMoves, LockMoves
<1>4. ASSUME NEW r \in Resource, InstanceGone(r) PROVE LockInv'
  BY <1>4 DEF InstanceGone, terraform, LockInv, LockOwner, InState
<1>5. ASSUME NEW r \in Resource, Panic(r) PROVE LockInv'
  BY <1>5, LockEndRun DEF Panic, TypeOK
<1>6. ASSUME NEW c \in Cloud, NewRun(c) \/ Interrupt(c) \/ Kill(c) PROVE LockInv'
  BY <1>6, LockEndRun DEF NewRun, Interrupt, Kill
<1>7. CASE UNCHANGED vars
  BY <1>7 DEF vars, LockInv, LockOwner, InState
<1> QED BY <1>1, <1>2, <1>3, <1>4, <1>5, <1>6, <1>7, LockCreate DEF Next

\* infraMu is held by whoever works on the network, and by nobody else except a
\* Create that failed while it worked there.
THEOREM LockOwned == Spec => []LockOwner
<1>1. Init => TypeOK /\ LockInv
  BY TypeInit, LockInit
<1>2. TypeOK /\ LockInv /\ [Next]_vars => (TypeOK /\ LockInv)'
  BY TypeInductive, LockInductive
<1>3. TypeOK /\ LockInv => LockOwner
  BY DEF LockInv
<1> QED BY <1>1, <1>2, <1>3, PTL DEF Spec

-----------------------------------------------------------------------------
(* One VPC of a name.  The strengthening: a Create that is about to make a *)
(* VPC has seen that there is none of its name, and nobody of its          *)
(* configuration can have made one since.                                  *)

NameFree(r) ==
  /\ \A s \in up["vpc"] : CloudOf[s] = CloudOf[r] => VpcName[s] # VpcName[r]
  /\ \A f \in Foreign : VpcName[f] # VpcName[r]

NameInv ==
  /\ OneVpcPerName
  /\ \A r \in Resource : pc[r] = "vpcCreate" /\ VpcName[r] # None => NameFree(r)

\* A step that leaves the VPCs alone, or deletes one, and does not take a
\* named resource to the creation of a VPC.
LEMMA NameKept ==
  ASSUME TypeOK, NameInv, up'["vpc"] \subseteq up["vpc"],
         \A r \in Resource : pc'[r] = "vpcCreate" /\ VpcName[r] # None =>
            pc[r] = "vpcCreate" \/ NameFree(r)
  PROVE  NameInv'
BY DEF NameInv, OneVpcPerName, NameFree

LEMMA NameCreate ==
  ASSUME TypeOK, LockInv, NameInv, NEW r \in Resource, CreateNext(r)
  PROVE  NameInv'
<1> USE DEF Return, Fault, Fail, TypeOK
<1>1. CASE VpcCreate(r)
  <2>1. \A s \in Resource \ {r} :
          pc'[s] = pc[s] /\ (pc[s] = "vpcCreate" => CloudOf[s] # CloudOf[r])
    BY <1>1 DEF VpcCreate, Make, LockInv, LockOwner, Critical, KeyStep
  <2>2. pc[r] = "vpcCreate" /\ pc'[r] # "vpcCreate"
    BY <1>1 DEF VpcCreate, Make
  <2>3. CASE up' = up
    BY <2>1, <2>2, <2>3, NameKept
  <2>4. CASE up'["vpc"] = up["vpc"] \cup {r}
    <3>1. VpcName[r] # None => NameFree(r)
      BY <2>2 DEF NameInv
    <3>2. OneVpcPerName'
      BY <2>4, <3>1 DEF NameInv, OneVpcPerName, NameFree, Kind
    <3>3. ASSUME NEW s \in Resource, pc'[s] = "vpcCreate", VpcName[s] # None
          PROVE  NameFree(s)'
      BY <2>1, <2>2, <2>4, <3>3 DEF NameInv, NameFree
    <3> QED BY <3>2, <3>3 DEF NameInv
  <2> QED BY <1>1, <2>3, <2>4 DEF VpcCreate, Make, Kind
<1>2. CASE ~VpcCreate(r)
  <2>1. up'["vpc"] = up["vpc"]
    <3> USE <1>2 DEF account, Kind
    <3>1. CASE Lock(r) \/ KeyPair(r) \/ VpcModify(r) \/ SgEgress(r)
      BY <3>1, KeyMoves DEF Lock, VpcModify, SgEgress, Call
    <3>2. CASE VpcById(r) \/ VpcByName(r) \/ IgwGet(r)
      BY <3>2 DEF VpcById, VpcByName, IgwGet, Look
    <3>3. CASE SgGet(r) \/ SubnetGet(r) \/ RtbGet(r)
      BY <3>3 DEF SgGet, SubnetGet, RtbGet, Look
    <3>4. CASE IgwCreate(r) \/ SgCreate(r)
      BY <3>4 DEF IgwCreate, SgCreate, Make
    <3>5. CASE SubnetCreate(r) \/ RtbCreate(r) \/ Run(r)
      BY <3>5 DEF SubnetCreate, RtbCreate, Run, Make
    <3>6. CASE IgwAttach(r) \/ SgIngress(r) \/ RtbRoute(r) \/ RtbAssociate(r)
      BY <3>6 DEF IgwAttach, SgIngress, RtbRoute, RtbAssociate, Attach
    <3>7. CASE Unlock(r) \/ Provision(r)
      BY <3>7 DEF Unlock, Provision
    <3> QED BY <3>1, <3>2, <3>3, <3>4, <3>5, <3>6, <3>7 DEF CreateNext
  <2>2. \A s \in Resource \ {r} : pc'[s] = pc[s]
    <3>1. CASE Lock(r) \/ Unlock(r)
      BY <3>1 DEF Lock, Unlock
    <3>2. CASE ~Lock(r) /\ ~Unlock(r)
      BY <3>2, CriticalMoves DEF Moves
    <3> QED BY <3>1, <3>2
  <2>3. ASSUME pc'[r] = "vpcCreate", VpcName[r] # None
        PROVE  NameFree(r)
    <3>1. VpcByName(r)
      <4> USE <2>3
      <4>1. CASE Lock(r) \/ KeyPair(r) \/ VpcModify(r) \/ SgEgress(r)
        BY <4>1, KeyMoves DEF Lock, VpcModify, SgEgress, Call, ByName
      <4>2. CASE VpcById(r) \/ IgwGet(r)
        BY <4>2 DEF VpcById, IgwGet, Look, ByName
      <4>3. CASE SgGet(r) \/ SubnetGet(r) \/ RtbGet(r)
        BY <4>3 DEF SgGet, SubnetGet, RtbGet, Look
      <4>4. CASE IgwCreate(r) \/ SgCreate(r)
        BY <4>4 DEF IgwCreate, SgCreate, Make
      <4>5. CASE SubnetCreate(r) \/ RtbCreate(r) \/ Run(r)
        BY <4>5 DEF SubnetCreate, RtbCreate, Run, Make
      <4>6. CASE IgwAttach(r) \/ SgIngress(r) \/ RtbRoute(r) \/ RtbAssociate(r)
        BY <4>6 DEF IgwAttach, SgIngress, RtbRoute, RtbAssociate, Attach
      <4>7. CASE Unlock(r) \/ Provision(r)
        BY <4>7 DEF Unlock, Provision
      <4> QED BY <1>2, <4>1, <4>2, <4>3, <4>4, <4>5, <4>6, <4>7 DEF CreateNext
    <3>2. {v \in Vpcs : VpcName[v] = VpcName[r]} = {}
      BY <2>3, <3>1 DEF VpcByName, Look
    <3> QED BY <3>2 DEF Vpcs, NameFree
  <2> QED BY <2>1, <2>2, <2>3, NameKept
<1> QED BY <1>1, <1>2

LEMMA DeleteKeepsVpcs ==
  ASSUME TypeOK, NEW r \in Resource, DeleteNext(r)
  PROVE  \A k \in Kind : up'[k] \subseteq up[k]
<1> USE DEF account, TypeOK
<1>1. CASE GetResources(r) \/ Terminate(r) \/ AwaitTerminated(r)
  BY <1>1 DEF GetResources, Terminate, AwaitTerminated
<1>2. CASE RtbDescribe(r) \/ RtbDisassociate(r) \/ IgwDescribe(r) \/ IgwDetach(r)
  BY <1>2 DEF RtbDescribe, RtbDisassociate, IgwDescribe, IgwDetach
<1>3. CASE RtbDelete(r) \/ SubnetDelete(r) \/ SgDelete(r)
  BY <1>3 DEF RtbDelete, SubnetDelete, SgDelete, Remove, Kind
<1>4. CASE IgwDelete(r) \/ VpcDelete(r)
  BY <1>4 DEF IgwDelete, VpcDelete, Remove, Kind
<1> QED BY <1>1, <1>2, <1>3, <1>4 DEF DeleteNext

LEMMA EndRunKeeps ==
  ASSUME NEW c \in Cloud, EndRun(c)
  PROVE  /\ UNCHANGED <<page, up, link, shutting, net, pairs, file, key>>
         /\ \A r \in Resource :
              pc'[r] = pc[r] \/ (InFlight(r) /\ pc'[r] \in {"lost", "broken"})
BY DEF EndRun, account

LEMMA NameInductive == TypeOK /\ LockInv /\ NameInv /\ [Next]_vars => NameInv'
<1> SUFFICES ASSUME TypeOK, LockInv, NameInv, [Next]_vars PROVE NameInv'
  OBVIOUS
<1>1. ASSUME NEW r \in Resource, Create(r) PROVE NameInv'
  BY <1>1, NameKept DEF Create, Return, account, TypeOK
<1>2. ASSUME NEW r \in Resource, Delete(r) PROVE NameInv'
  BY <1>2, NameKept DEF Delete, Return, account, TypeOK
<1>3. ASSUME NEW r \in Resource, DeleteNext(r) PROVE NameInv'
  <2>1. up'["vpc"] \subseteq up["vpc"]
    BY <1>3, DeleteKeepsVpcs DEF Kind
  <2>2. \A s \in Resource : pc'[s] = "vpcCreate" => pc[s] = "vpcCreate"
    <3>1. "vpcCreate" \notin DeleteStep \cup {"broken", "destroyed"}
      BY DEF DeleteStep
    <3> QED BY <1>3, <3>1, DeleteMoves DEF Moves, TypeOK
  <2> QED BY <2>1, <2>2, NameKept
<1>4. ASSUME NEW r \in Resource, InstanceGone(r) PROVE NameInv'
  BY <1>4, NameKept DEF InstanceGone, TypeOK, Kind
<1>5. ASSUME NEW c \in Cloud, EndRun(c) PROVE NameInv'
  BY <1>5, EndRunKeeps, NameKept
<1>6. ASSUME NEW r \in Resource, Panic(r) PROVE NameInv'
  BY <1>5, <1>6 DEF Panic, TypeOK
<1>7. ASSUME NEW c \in Cloud, NewRun(c) \/ Interrupt(c) \/ Kill(c) PROVE NameInv'
  BY <1>5, <1>7 DEF NewRun, Interrupt, Kill
<1>8. CASE UNCHANGED vars
  BY <1>8, NameKept DEF vars
<1> QED BY <1>1, <1>2, <1>3, <1>4, <1>6, <1>7, <1>8, NameCreate DEF Next

\* However Creates, Deletes, failures and kills interleave, one configuration
\* never makes two VPCs of a name, nor one beside a foreign VPC of that name.
THEOREM UniqueVpc == Spec => []OneVpcPerName
<1>1. Init => TypeOK /\ LockInv /\ NameInv
  BY TypeInit, LockInit DEF Init, NameInv, OneVpcPerName, Kind
<1>2. TypeOK /\ LockInv /\ NameInv /\ [Next]_vars => (TypeOK /\ LockInv /\ NameInv)'
  BY TypeInductive, LockInductive, NameInductive
<1>3. NameInv => OneVpcPerName
  BY DEF NameInv
<1> QED BY <1>1, <1>2, <1>3, PTL DEF Spec

-----------------------------------------------------------------------------
(* A destroy is complete.  The strengthening: at each step of Delete what   *)
(* is left of the page is of the kinds still ahead, and what is left of the *)
(* resource is in the page if that lists everything.                        *)

Ahead(step) ==
  {k \in Kind :
     /\ step # "destroyed"
     /\ k = "instance" => step \in {"dTerminate", "dWait"}
     /\ k = "rtb" => step \in {"dTerminate", "dWait", "dRtbDescribe",
                               "dRtbDisassociate", "dRtbDelete"}
     /\ k = "subnet" => step \notin {"dSg", "dIgwDescribe", "dIgwDetach", "dIgwDelete", "dVpc"}
     /\ k = "sg" => step \notin {"dIgwDescribe", "dIgwDetach", "dIgwDelete", "dVpc"}
     /\ k = "igw" => step # "dVpc"}

Clearing == (DeleteStep \ {"dGet"}) \cup {"destroyed"}

Cleared(r) ==
  pc[r] \in Clearing =>
    /\ Disposable(r) \cap page[r] \subseteq Ahead(pc[r])
    /\ FullPage => Disposable(r) \subseteq page[r]

DestroyInv == ~IgnoreErrors => \A r \in Resource : Cleared(r)

LEMMA FromAhead ==
  ASSUME NEW p, NEW T \in SUBSET (p \cap Kind)
  PROVE  /\ T \subseteq Ahead(FromInstance(p))
         /\ T \subseteq Ahead("dWait") /\ "instance" \notin T => T \subseteq Ahead(FromRtb(p))
         /\ T \subseteq Ahead("dRtbDelete") /\ "rtb" \notin T => T \subseteq Ahead(FromSubnet(p))
         /\ T \subseteq Ahead("dSubnet") /\ "subnet" \notin T => T \subseteq Ahead(FromSg(p))
         /\ T \subseteq Ahead("dSg") /\ "sg" \notin T => T \subseteq Ahead(FromIgw(p))
         /\ T \subseteq Ahead("dIgwDelete") /\ "igw" \notin T => T \subseteq Ahead(FromVpc(p))
         /\ T \subseteq Ahead("dVpc") /\ "vpc" \notin T => T = {}
<1> USE DEF Ahead, Kind
<1>1. T \subseteq Ahead("dVpc") /\ "vpc" \notin T => T = {}
  OBVIOUS
<1>2. T \subseteq Ahead("dIgwDelete") /\ "igw" \notin T => T \subseteq Ahead(FromVpc(p))
  BY DEF FromVpc
<1>3. T \subseteq Ahead("dSg") /\ "sg" \notin T => T \subseteq Ahead(FromIgw(p))
  BY DEF FromIgw, FromVpc
<1>4. T \subseteq Ahead("dSubnet") /\ "subnet" \notin T => T \subseteq Ahead(FromSg(p))
  BY DEF FromSg, FromIgw, FromVpc
<1>5. T \subseteq Ahead("dRtbDelete") /\ "rtb" \notin T => T \subseteq Ahead(FromSubnet(p))
  BY DEF FromSubnet, FromSg, FromIgw, FromVpc
<1>6. "instance" \notin T => T \subseteq Ahead(FromRtb(p))
  BY DEF FromRtb, FromSubnet, FromSg, FromIgw, FromVpc
<1>7. T \subseteq Ahead(FromInstance(p))
  BY DEF FromInstance, FromRtb, FromSubnet, FromSg, FromIgw, FromVpc
<1> QED BY <1>1, <1>2, <1>3, <1>4, <1>5, <1>6, <1>7

\* A step after which the resource has no more objects than before, in a page
\* that is the same, keeps what was cleared if it does not advance.
LEMMA ClearedKept ==
  ASSUME TypeOK, NEW r \in Resource, Cleared(r), UNCHANGED page,
         \A k \in Kind : r \in up'[k] => r \in up[k],
         pc'[r] \in Clearing => pc[r] \in Clearing /\ Ahead(pc[r]) \subseteq Ahead(pc'[r])
  PROVE  Cleared(r)'
BY DEF Cleared, Disposable

LEMMA CreateTouchesOwn ==
  ASSUME TypeOK, NEW r \in Resource, CreateNext(r)
  PROVE  /\ \A s \in Resource \ {r} :
              pc'[s] = pc[s] /\ \A k \in Kind : s \in up'[k] => s \in up[k]
         /\ pc'[r] \notin Clearing
         /\ UNCHANGED page
<1> USE DEF TypeOK
<1>1. (\A s \in Resource \ {r} : pc'[s] = pc[s]) /\ pc'[r] \notin Clearing
  <2> USE DEF Clearing, DeleteStep
  <2>1. CASE Lock(r) \/ Unlock(r)
    BY <2>1 DEF Lock, Unlock, Return
  <2>2. CASE ~Lock(r) /\ ~Unlock(r)
    <3>1. (Critical \cup {"broken", "provision", "created"}) \cap Clearing = {}
      BY DEF Critical, KeyStep, Clearing, DeleteStep
    <3> QED BY <2>2, <3>1, CriticalMoves DEF Moves
  <2> QED BY <2>1, <2>2
<1>2. UNCHANGED page /\ \A k \in Kind : up'[k] \subseteq up[k] \cup {r}
  <2> USE DEF account
  <2>1. CASE Lock(r) \/ KeyPair(r) \/ VpcModify(r) \/ SgEgress(r)
    BY <2>1, KeyMoves DEF Lock, VpcModify, SgEgress, Call
  <2>2. CASE VpcById(r) \/ VpcByName(r) \/ IgwGet(r)
    BY <2>2 DEF VpcById, VpcByName, IgwGet, Look
  <2>3. CASE SgGet(r) \/ SubnetGet(r) \/ RtbGet(r)
    BY <2>3 DEF SgGet, SubnetGet, RtbGet, Look
  <2>4. CASE VpcCreate(r) \/ IgwCreate(r) \/ SgCreate(r)
    BY <2>4 DEF VpcCreate, IgwCreate, SgCreate, Make
  <2>5. CASE SubnetCreate(r) \/ RtbCreate(r) \/ Run(r)
    BY <2>5 DEF SubnetCreate, RtbCreate, Run, Make
  <2>6. CASE IgwAttach(r) \/ SgIngress(r) \/ RtbRoute(r) \/ RtbAssociate(r)
    BY <2>6 DEF IgwAttach, SgIngress, RtbRoute, RtbAssociate, Attach
  <2>7. CASE Unlock(r) \/ Provision(r)
    BY <2>7 DEF Unlock, Provision
  <2> QED BY <2>1, <2>2, <2>3, <2>4, <2>5, <2>6, <2>7 DEF CreateNext
<1> QED BY <1>1, <1>2

\* A failing step of Delete ends it; the next attempt starts with GetResources.
LEMMA ClearedBroken ==
  ASSUME TypeOK, NEW r \in Resource, pc'[r] = "broken"
  PROVE  Cleared(r)'
BY DEF Cleared, Clearing, DeleteStep

\* A step that removes the objects of one kind, or finds that there are none.
LEMMA ClearedRemove ==
  ASSUME TypeOK, NEW r \in Resource, ~IgnoreErrors, Cleared(r),
         NEW step \in Clearing, NEW kind \in Kind, NEW next \in Step,
         Remove(r, step, kind, next),
         \A T \in SUBSET (page[r] \cap Kind) :
            T \subseteq Ahead(step) /\ kind \notin T => T \subseteq Ahead(next)
  PROVE  Cleared(r)'
<1> USE DEF TypeOK
<1>1. CASE pc'[r] = "broken"
  BY <1>1, ClearedBroken
<1>2. CASE pc'[r] # "broken"
  <2>1. pc[r] = step /\ pc'[r] = next /\ up' = [up EXCEPT ![kind] = @ \ {r}] /\ page' = page
    BY <1>2 DEF Remove, Return, Fault, Fail, OnDeleteError
  <2>2. Disposable(r)' \subseteq Disposable(r) \ {kind}
    BY <2>1 DEF Disposable
  <2>3. /\ Disposable(r) \cap page[r] \subseteq Ahead(step)
        /\ FullPage => Disposable(r) \subseteq page[r]
    BY <2>1 DEF Cleared
  <2>4. Disposable(r)' \cap page[r] \in SUBSET (page[r] \cap Kind)
    BY <2>1 DEF Disposable
  <2>5. Disposable(r)' \cap page[r] \subseteq Ahead(next)
    BY <2>2, <2>3, <2>4
  <2> QED BY <2>1, <2>2, <2>3, <2>5 DEF Cleared
<1> QED BY <1>1, <1>2

LEMMA ClearedDelete ==
  ASSUME TypeOK, NEW r \in Resource, ~IgnoreErrors, Cleared(r), DeleteNext(r)
  PROVE  Cleared(r)'
<1> USE DEF TypeOK
<1>a. page[r] \in SUBSET Kind
  OBVIOUS
<1>1. CASE GetResources(r)
  <2>1. CASE pc'[r] = "broken"
    BY <2>1, ClearedBroken
  <2>2. CASE pc'[r] # "broken"
    <3>1. PICK p \in Pages(r) : page'[r] = p \cap Kind /\ pc'[r] = FromInstance(p) /\ up' = up
      BY <1>1, <2>2 DEF GetResources, Return, Fault, account
    <3>2. /\ Disposable(r)' = Disposable(r)
          /\ Disposable(r) \cap page'[r] \in SUBSET (p \cap Kind)
      BY <3>1 DEF Disposable
    <3>3. Disposable(r) \cap page'[r] \subseteq Ahead(FromInstance(p))
      BY <3>2, FromAhead
    <3>4. FullPage => Disposable(r) \subseteq page'[r]
      BY <3>1 DEF Pages, Tagged, Disposable
    <3> QED BY <3>1, <3>2, <3>3, <3>4 DEF Cleared
  <2> QED BY <2>1, <2>2
<1>2. CASE Terminate(r)
  <2>1. CASE pc'[r] = "broken"
    BY <2>1, ClearedBroken
  <2>2. CASE pc'[r] # "broken"
    <3>1. pc[r] = "dTerminate" /\ pc'[r] = "dWait" /\ UNCHANGED <<page, up>>
      BY <1>2, <2>2 DEF Terminate, Return, Fault, OnDeleteError
    <3> QED BY <3>1, ClearedKept DEF Clearing, DeleteStep, Ahead
  <2> QED BY <2>1, <2>2
<1>3. CASE AwaitTerminated(r)
  <2>1. CASE pc'[r] = "broken"
    BY <2>1, ClearedBroken
  <2>2. CASE pc'[r] # "broken"
    <3>1. /\ pc[r] = "dWait" /\ pc'[r] = FromRtb(page[r]) /\ UNCHANGED <<page, up>>
          /\ r \notin up["instance"]
      BY <1>3, <2>2 DEF AwaitTerminated, Return, Fault, Fail, OnDeleteError, account
    <3>2. /\ Disposable(r)' = Disposable(r)
          /\ Disposable(r) \cap page[r] \in SUBSET (page[r] \cap Kind)
          /\ "instance" \notin Disposable(r)
          /\ Disposable(r) \cap page[r] \subseteq Ahead("dWait")
          /\ FullPage => Disposable(r) \subseteq page[r]
      BY <3>1 DEF Disposable, Cleared, Clearing, DeleteStep
    <3> DEFINE T == Disposable(r) \cap page[r]
    <3>3. T \subseteq Ahead(FromRtb(page[r]))
      <4>1. T \in SUBSET (page[r] \cap Kind) /\ "instance" \notin T /\ T \subseteq Ahead("dWait")
        BY <3>2
      <4> HIDE DEF T
      <4> QED BY <4>1, FromAhead
    <3> QED BY <3>1, <3>2, <3>3 DEF Cleared
  <2> QED BY <2>1, <2>2
<1>4. CASE RtbDescribe(r) \/ RtbDisassociate(r)
  <2>1. CASE pc'[r] = "broken"
    BY <2>1, ClearedBroken
  <2>2. CASE pc'[r] # "broken"
    <3>1. /\ pc[r] \in {"dRtbDescribe", "dRtbDisassociate"}
          /\ pc'[r] \in {"dRtbDisassociate", "dRtbDelete"}
          /\ UNCHANGED <<page, up>>
      BY <1>4, <2>2 DEF RtbDescribe, RtbDisassociate, Return, Fault, Fail, OnDeleteError, account
    <3> QED BY <3>1, ClearedKept DEF Clearing, DeleteStep, Ahead
  <2> QED BY <2>1, <2>2
<1>5. CASE IgwDescribe(r) \/ IgwDetach(r)
  <2>1. CASE pc'[r] = "broken"
    BY <2>1, ClearedBroken
  <2>2. CASE pc'[r] # "broken"
    <3>1. /\ pc[r] \in {"dIgwDescribe", "dIgwDetach"}
          /\ pc'[r] \in {"dIgwDetach", "dIgwDelete"}
          /\ UNCHANGED <<page, up>>
      BY <1>5, <2>2 DEF IgwDescribe, IgwDetach, Return, Fault, Fail, OnDeleteError, account
    <3> QED BY <3>1, ClearedKept DEF Clearing, DeleteStep, Ahead
  <2> QED BY <2>1, <2>2
<1>b. /\ {"dRtbDelete", "dSubnet", "dSg", "dIgwDelete", "dVpc"} \subseteq Clearing
      /\ {"rtb", "subnet", "sg", "igw", "vpc"} \subseteq Kind
  BY DEF Clearing, DeleteStep, Kind
<1>6. CASE RtbDelete(r)
  <2>1. \A T \in SUBSET (page[r] \cap Kind) :
          T \subseteq Ahead("dRtbDelete") /\ "rtb" \notin T => T \subseteq Ahead(FromSubnet(page[r]))
    BY FromAhead
  <2> QED BY <1>6, <1>b, <2>1, ClearedRemove, FromType DEF RtbDelete
<1>7. CASE SubnetDelete(r)
  <2>1. \A T \in SUBSET (page[r] \cap Kind) :
          T \subseteq Ahead("dSubnet") /\ "subnet" \notin T => T \subseteq Ahead(FromSg(page[r]))
    BY FromAhead
  <2> QED BY <1>7, <1>b, <2>1, ClearedRemove, FromType DEF SubnetDelete
<1>8. CASE SgDelete(r)
  <2>1. \A T \in SUBSET (page[r] \cap Kind) :
          T \subseteq Ahead("dSg") /\ "sg" \notin T => T \subseteq Ahead(FromIgw(page[r]))
    BY FromAhead
  <2> QED BY <1>8, <1>b, <2>1, ClearedRemove, FromType DEF SgDelete
<1>9. CASE IgwDelete(r)
  <2>1. \A T \in SUBSET (page[r] \cap Kind) :
          T \subseteq Ahead("dIgwDelete") /\ "igw" \notin T => T \subseteq Ahead(FromVpc(page[r]))
    BY FromAhead
  <2> QED BY <1>9, <1>b, <2>1, ClearedRemove, FromType DEF IgwDelete
<1>10. CASE VpcDelete(r)
  <2>1. "destroyed" \in Step
    BY DEF Step, Settled
  <2>2. \A T \in SUBSET (page[r] \cap Kind) :
          T \subseteq Ahead("dVpc") /\ "vpc" \notin T => T \subseteq Ahead("destroyed")
    BY FromAhead
  <2> QED BY <1>10, <1>b, <2>1, <2>2, ClearedRemove DEF VpcDelete
<1> QED BY <1>1, <1>2, <1>3, <1>4, <1>5, <1>6, <1>7, <1>8, <1>9, <1>10 DEF DeleteNext

LEMMA PageOwn ==
  ASSUME TypeOK, NEW r \in Resource, DeleteNext(r), NEW s \in Resource \ {r}
  PROVE  page'[s] = page[s]
<1> USE DEF TypeOK
<1>1. CASE GetResources(r)
  BY <1>1 DEF GetResources
<1>2. CASE Terminate(r) \/ AwaitTerminated(r) \/ RtbDescribe(r) \/ RtbDisassociate(r)
  BY <1>2 DEF Terminate, AwaitTerminated, RtbDescribe, RtbDisassociate
<1>3. CASE IgwDescribe(r) \/ IgwDetach(r)
  BY <1>3 DEF IgwDescribe, IgwDetach
<1>4. CASE RtbDelete(r) \/ SubnetDelete(r) \/ SgDelete(r) \/ IgwDelete(r) \/ VpcDelete(r)
  BY <1>4 DEF RtbDelete, SubnetDelete, SgDelete, IgwDelete, VpcDelete, Remove
<1> QED BY <1>1, <1>2, <1>3, <1>4 DEF DeleteNext

LEMMA DestroyInductive == TypeOK /\ DestroyInv /\ [Next]_vars => DestroyInv'
<1> SUFFICES ASSUME TypeOK, ~IgnoreErrors, [Next]_vars,
                    \A r \in Resource : Cleared(r),
                    NEW s \in Resource
             PROVE  Cleared(s)'
  BY DEF DestroyInv
<1> USE DEF TypeOK
<1>1. ASSUME NEW r \in Resource, Create(r) PROVE Cleared(s)'
  BY <1>1, ClearedKept DEF Create, Return, account, Clearing, DeleteStep
<1>2. ASSUME NEW r \in Resource, CreateNext(r) PROVE Cleared(s)'
  <2>1. CASE s = r
    BY <1>2, <2>1, CreateTouchesOwn DEF Cleared
  <2>2. CASE s # r
    BY <1>2, <2>2, CreateTouchesOwn, ClearedKept
  <2> QED BY <2>1, <2>2
<1>3. ASSUME NEW r \in Resource, Delete(r) PROVE Cleared(s)'
  BY <1>3, ClearedKept DEF Delete, Return, account, Clearing, DeleteStep
<1>4. ASSUME NEW r \in Resource, DeleteNext(r) PROVE Cleared(s)'
  <2>1. CASE s = r
    BY <1>4, <2>1, ClearedDelete
  <2>2. CASE s # r
    <3>1. pc'[s] = pc[s]
      BY <1>4, <2>2, DeleteMoves DEF Moves
    <3>2. \A k \in Kind : s \in up'[k] => s \in up[k]
      BY <1>4, DeleteKeepsVpcs
    <3>3. page'[s] = page[s]
      BY <1>4, <2>2, PageOwn
    <3> QED BY <3>1, <3>2, <3>3 DEF Cleared, Disposable
  <2> QED BY <2>1, <2>2
<1>5. ASSUME NEW r \in Resource, InstanceGone(r) PROVE Cleared(s)'
  BY <1>5, ClearedKept DEF InstanceGone, Kind
<1>6. ASSUME NEW c \in Cloud, EndRun(c) PROVE Cleared(s)'
  BY <1>6, EndRunKeeps, ClearedKept DEF Clearing, DeleteStep
<1>7. ASSUME NEW r \in Resource, Panic(r) PROVE Cleared(s)'
  BY <1>6, <1>7 DEF Panic
<1>8. ASSUME NEW c \in Cloud, NewRun(c) \/ Interrupt(c) \/ Kill(c) PROVE Cleared(s)'
  BY <1>6, <1>8 DEF NewRun, Interrupt, Kill
<1>9. CASE UNCHANGED vars
  BY <1>9, ClearedKept DEF vars
<1> QED BY <1>1, <1>2, <1>3, <1>4, <1>5, <1>7, <1>8, <1>9 DEF Next

\* Unless errors are ignored, a resource that Terraform has forgotten after its
\* destroy has none of the objects left that the account's answer listed and a
\* Delete removes; if the answer was not cut off, nothing carries its tag any more
\* but the key pair it may have imported.
THEOREM DestroyedLeavesNothing == Spec => []DestroyComplete
<1>1. Init => TypeOK /\ DestroyInv
  BY TypeInit DEF Init, DestroyInv, Cleared, Clearing, DeleteStep
<1>2. TypeOK /\ DestroyInv /\ [Next]_vars => (TypeOK /\ DestroyInv)'
  BY TypeInductive, DestroyInductive
<1>3. DestroyInv => DestroyComplete
  BY DEF DestroyInv, DestroyComplete, Cleared, Clearing, Ahead, Tagged, Disposable
<1> QED BY <1>1, <1>2, <1>3, PTL DEF Spec

-----------------------------------------------------------------------------
(* Operations end: every step of one is a step forward.                    *)

\* The place of a step in CreateInfrastructure, CreateInstances and the commands
\* after them, and in DeleteInfrastructure.
StepRank(step) ==
  [lock |-> 1, keyDescribe |-> 2, keyCheck |-> 3, keyFile |-> 3, keyWrite |-> 4,
   keyWritten |-> 5, keyImport |-> 6, vpcById |-> 7, vpcByName |-> 8, vpcCreate |-> 9,
   vpcModify |-> 10, igwGet |-> 11, igwCreate |-> 12, igwAttach |-> 13, sgGet |-> 14,
   sgCreate |-> 15, sgIngress |-> 16, sgEgress |-> 17, subnetGet |-> 18,
   subnetCreate |-> 19, rtbGet |-> 20, rtbCreate |-> 21, rtbRoute |-> 22,
   rtbAssociate |-> 23, unlock |-> 24, run |-> 25, provision |-> 26,
   dGet |-> 1, dTerminate |-> 2, dWait |-> 3, dRtbDescribe |-> 4,
   dRtbDisassociate |-> 5, dRtbDelete |-> 6, dSubnet |-> 7, dSg |-> 8,
   dIgwDescribe |-> 9, dIgwDetach |-> 10, dIgwDelete |-> 11, dVpc |-> 12][step]

\* An operation ends with its next step or goes on to a later place.
Advances(r) ==
  \/ ~InFlight(r)'
  \/ Creating(r) /\ Creating(r)' /\ StepRank(pc'[r]) > StepRank(pc[r])
  \/ Deleting(r) /\ Deleting(r)' /\ StepRank(pc'[r]) > StepRank(pc[r])

\* Whatever another operation does, one that runs stays where it is, ends or goes
\* on; a step of its own never leaves it where it is.  There is no loop in it, so
\* it has at most as many steps left as there are places ahead of it.
\* (create.go:103-140 and delete.go:17-190)
Forward ==
  [][\A r \in Resource : InFlight(r) =>
       \/ Advances(r)
       \/ pc'[r] = pc[r] /\ ~CreateNext(r) /\ ~DeleteNext(r)]_vars

LEMMA CreateForward ==
  ASSUME TypeOK, NEW r \in Resource, CreateNext(r)
  PROVE  Advances(r)
<1> DEFINE Takes(step, nexts) ==
      pc[r] = step /\ \E n \in nexts \cup {"broken"} : pc' = [pc EXCEPT ![r] = n]
<1> USE DEF Return, Fault, Fail
<1>1. ASSUME NEW step \in CreateStep, NEW nexts \in SUBSET (CreateStep \cup {"created"}),
             Takes(step, nexts),
             \A n \in nexts : n = "created" \/ StepRank(n) > StepRank(step)
      PROVE  Advances(r)
  BY <1>1 DEF Advances, InFlight, Creating, Deleting, CreateStep, DeleteStep, Critical, KeyStep, TypeOK
<1>2. CASE Lock(r) \/ Unlock(r) \/ Run(r) \/ Provision(r)
  <2>1. Takes("lock", {"keyDescribe"}) \/ Takes("unlock", {"run"})
          \/ Takes("run", {"provision"}) \/ Takes("provision", {"created"})
    BY <1>2 DEF Lock, Unlock, Run, Provision, Make
  <2> HIDE DEF Takes
  <2> QED BY <1>1, <2>1 DEF StepRank, CreateStep, Critical, KeyStep
<1>3. CASE VpcModify(r) \/ SgEgress(r)
  <2>1. Takes("vpcModify", {"igwGet"}) \/ Takes("sgEgress", {"subnetGet"})
    BY <1>3 DEF VpcModify, SgEgress, Call
  <2> HIDE DEF Takes
  <2> QED BY <1>1, <2>1 DEF StepRank, CreateStep, Critical, KeyStep
<1>8. CASE KeyPair(r)
  <2> DEFINE After == {"vpcById", "vpcByName", "vpcCreate"}
  <2>1. CASE KeyDescribe(r) \/ KeyCheck(r)
    <3>1. Takes("keyDescribe", {"keyCheck", "keyFile"}) \/ Takes("keyCheck", After)
      BY <2>1 DEF KeyDescribe, KeyCheck, AfterKeys, ByName
    <3> HIDE DEF Takes
    <3> QED BY <1>1, <3>1 DEF StepRank, CreateStep, Critical, KeyStep
  <2>2. CASE KeyRead(r) \/ KeyTruncate(r)
    <3>1. Takes("keyFile", {"keyWrite", "keyImport"}) \/ Takes("keyWrite", {"keyWritten"})
      BY <2>2 DEF KeyRead, KeyTruncate
    <3> HIDE DEF Takes
    <3> QED BY <1>1, <3>1 DEF StepRank, CreateStep, Critical, KeyStep
  <2>3. CASE KeyWrite(r) \/ KeyImport(r)
    <3>1. Takes("keyWritten", {"keyImport"}) \/ Takes("keyImport", After)
      BY <2>3 DEF KeyWrite, KeyImport, AfterKeys, ByName
    <3> HIDE DEF Takes
    <3> QED BY <1>1, <3>1 DEF StepRank, CreateStep, Critical, KeyStep
  <2> QED BY <1>8, <2>1, <2>2, <2>3 DEF KeyPair
<1>4. CASE VpcById(r) \/ VpcByName(r) \/ IgwGet(r)
  <2>1. Takes("vpcById", {"igwGet", "vpcByName", "vpcCreate"})
          \/ Takes("vpcByName", {"igwGet", "vpcCreate"}) \/ Takes("igwGet", {"sgGet", "igwCreate"})
    BY <1>4 DEF VpcById, VpcByName, IgwGet, Look, ByName
  <2> HIDE DEF Takes
  <2> QED BY <1>1, <2>1 DEF StepRank, CreateStep, Critical, KeyStep
<1>5. CASE SgGet(r) \/ SubnetGet(r) \/ RtbGet(r)
  <2>1. Takes("sgGet", {"subnetGet", "sgCreate"}) \/ Takes("subnetGet", {"rtbGet", "subnetCreate"})
          \/ Takes("rtbGet", {"unlock", "rtbCreate"})
    BY <1>5 DEF SgGet, SubnetGet, RtbGet, Look
  <2> HIDE DEF Takes
  <2> QED BY <1>1, <2>1 DEF StepRank, CreateStep, Critical, KeyStep
<1>6. CASE VpcCreate(r) \/ IgwCreate(r) \/ SgCreate(r) \/ SubnetCreate(r) \/ RtbCreate(r)
  <2>1. Takes("vpcCreate", {"vpcModify"}) \/ Takes("igwCreate", {"igwAttach"})
          \/ Takes("sgCreate", {"sgIngress"}) \/ Takes("subnetCreate", {"rtbGet"})
          \/ Takes("rtbCreate", {"rtbRoute"})
    BY <1>6 DEF VpcCreate, IgwCreate, SgCreate, SubnetCreate, RtbCreate, Make
  <2> HIDE DEF Takes
  <2> QED BY <1>1, <2>1 DEF StepRank, CreateStep, Critical, KeyStep
<1>7. CASE IgwAttach(r) \/ SgIngress(r) \/ RtbRoute(r) \/ RtbAssociate(r)
  <2>1. Takes("igwAttach", {"sgGet"}) \/ Takes("sgIngress", {"sgEgress"})
          \/ Takes("rtbRoute", {"rtbAssociate"}) \/ Takes("rtbAssociate", {"unlock"})
    BY <1>7 DEF IgwAttach, SgIngress, RtbRoute, RtbAssociate, Attach
  <2> HIDE DEF Takes
  <2> QED BY <1>1, <2>1 DEF StepRank, CreateStep, Critical, KeyStep
<1> QED BY <1>2, <1>3, <1>4, <1>5, <1>6, <1>7, <1>8 DEF CreateNext

\* The steps that the answer of GetResources leads to lie ahead of where it is used.
LEMMA FromRanks ==
  ASSUME NEW p
  PROVE  /\ FromVpc(p) \in {"dVpc", "destroyed"}
         /\ FromIgw(p) \in {"dIgwDescribe", "dVpc", "destroyed"}
         /\ FromSg(p) \in {"dSg", "dIgwDescribe", "dVpc", "destroyed"}
         /\ FromSubnet(p) \in {"dSubnet", "dSg", "dIgwDescribe", "dVpc", "destroyed"}
         /\ FromRtb(p) \in {"dRtbDescribe", "dSubnet", "dSg", "dIgwDescribe", "dVpc", "destroyed"}
         /\ FromInstance(p) \in {"dTerminate", "dRtbDescribe", "dSubnet", "dSg",
                                 "dIgwDescribe", "dVpc", "destroyed"}
BY DEF FromVpc, FromIgw, FromSg, FromSubnet, FromRtb, FromInstance

LEMMA DeleteForward ==
  ASSUME TypeOK, NEW r \in Resource, DeleteNext(r)
  PROVE  Advances(r)
<1> DEFINE Takes(step, nexts) ==
      pc[r] = step /\ \E n \in nexts \cup {"broken"} : pc' = [pc EXCEPT ![r] = n]
<1> DEFINE AfterSg == {"dIgwDescribe", "dVpc", "destroyed"}
<1> DEFINE AfterRtb == {"dSubnet", "dSg"} \cup AfterSg
<1> USE DEF Return, Fault, Fail, OnDeleteError
<1>1. ASSUME NEW step \in DeleteStep, NEW nexts \in SUBSET (DeleteStep \cup {"destroyed"}),
             Takes(step, nexts),
             \A n \in nexts : n = "destroyed" \/ StepRank(n) > StepRank(step)
      PROVE  Advances(r)
  BY <1>1 DEF Advances, InFlight, Creating, Deleting, CreateStep, DeleteStep, Critical, KeyStep, TypeOK
<1>2. CASE GetResources(r) \/ Terminate(r) \/ AwaitTerminated(r)
  <2>1. Takes("dGet", {"dTerminate", "dRtbDescribe"} \cup AfterRtb) \/ Takes("dTerminate", {"dWait"})
          \/ Takes("dWait", {"dRtbDescribe"} \cup AfterRtb)
    BY <1>2, FromRanks DEF GetResources, Terminate, AwaitTerminated
  <2> HIDE DEF Takes
  <2> QED BY <1>1, <2>1 DEF StepRank, DeleteStep
<1>3. CASE RtbDescribe(r) \/ RtbDisassociate(r) \/ IgwDescribe(r) \/ IgwDetach(r)
  <2>1. Takes("dRtbDescribe", {"dRtbDisassociate", "dRtbDelete"})
          \/ Takes("dRtbDisassociate", {"dRtbDelete"})
          \/ Takes("dIgwDescribe", {"dIgwDetach", "dIgwDelete"}) \/ Takes("dIgwDetach", {"dIgwDelete"})
    BY <1>3 DEF RtbDescribe, RtbDisassociate, IgwDescribe, IgwDetach
  <2> HIDE DEF Takes
  <2> QED BY <1>1, <2>1 DEF StepRank, DeleteStep
<1>4. CASE RtbDelete(r) \/ SubnetDelete(r) \/ SgDelete(r) \/ IgwDelete(r) \/ VpcDelete(r)
  <2>1. ASSUME NEW step, NEW kind, NEW next, Remove(r, step, kind, next)
        PROVE  Takes(step, {next})
    BY <2>1 DEF Remove
  <2> HIDE DEF Takes
  <2>2. Takes("dRtbDelete", {FromSubnet(page[r])}) \/ Takes("dSubnet", {FromSg(page[r])})
          \/ Takes("dSg", {FromIgw(page[r])}) \/ Takes("dIgwDelete", {FromVpc(page[r])})
          \/ Takes("dVpc", {"destroyed"})
    BY <1>4, <2>1 DEF RtbDelete, SubnetDelete, SgDelete, IgwDelete, VpcDelete
  <2> QED BY <1>1, <2>2, FromRanks DEF StepRank, DeleteStep
<1> QED BY <1>2, <1>3, <1>4 DEF DeleteNext

LEMMA OthersStay ==
  ASSUME TypeOK, [Next]_vars, NEW r \in Resource, InFlight(r), ~CreateNext(r), ~DeleteNext(r)
  PROVE  pc'[r] = pc[r] \/ ~InFlight(r)'
<1> USE DEF InFlight, Creating, Deleting, CreateStep, DeleteStep, Critical, KeyStep, TypeOK
<1>1. ASSUME NEW s \in Resource, CreateNext(s) PROVE pc'[r] = pc[r]
  BY <1>1, CriticalMoves DEF Moves, Lock, Unlock, Return
<1>2. ASSUME NEW s \in Resource, DeleteNext(s) PROVE pc'[r] = pc[r]
  BY <1>2, DeleteMoves DEF Moves
<1>3. ASSUME NEW s \in Resource, Create(s) \/ Delete(s) PROVE pc'[r] = pc[r]
  BY <1>3 DEF Create, Delete, InState, Return
<1>4. ASSUME NEW s \in Resource, InstanceGone(s) PROVE pc'[r] = pc[r]
  BY <1>4 DEF InstanceGone
<1>5. ASSUME NEW c \in Cloud, EndRun(c) PROVE pc'[r] = pc[r] \/ ~InFlight(r)'
  BY <1>5 DEF EndRun
<1>6. ASSUME NEW s \in Resource, Panic(s) PROVE pc'[r] = pc[r] \/ ~InFlight(r)'
  BY <1>5, <1>6, SharingAssumption DEF Panic
<1>7. ASSUME NEW c \in Cloud, NewRun(c) \/ Interrupt(c) \/ Kill(c)
      PROVE  pc'[r] = pc[r] \/ ~InFlight(r)'
  BY <1>5, <1>7 DEF NewRun, Interrupt, Kill
<1>8. CASE UNCHANGED vars
  BY <1>8 DEF vars
<1> QED BY <1>1, <1>2, <1>3, <1>4, <1>6, <1>7, <1>8 DEF Next

\* No Create and no Delete goes round in circles or stands still at a step of its
\* own, whatever fails and whatever the others do: the part of CreateEnds that
\* does not depend on fairness.
THEOREM OperationsGoForward == Spec => Forward
<1>1. TypeOK /\ [Next]_vars =>
        [\A r \in Resource : InFlight(r) =>
           \/ Advances(r)
           \/ pc'[r] = pc[r] /\ ~CreateNext(r) /\ ~DeleteNext(r)]_vars
  BY CreateForward, DeleteForward, OthersStay DEF Advances
<1> QED BY <1>1, TypeCorrect, PTL DEF Spec, Forward

=============================================================================
