------------------------- MODULE AwsLifecycleProofs -------------------------
(***************************************************************************)
(* The AWS backend implements ResourceLifecycle, for every value of the    *)
(* constants: each of its steps is a step of the life cycle of a resource, *)
(* a crash of it, or invisible there.                                      *)
(***************************************************************************)
EXTENDS AwsInfraProofs

USE SharingAssumption, ConfigAssumption, SwitchAssumption, BoundAssumption

Foot == {r \in Resource : Disposable(r) # {}}

\* An instance shuts down only for a Delete that runs, has failed or is done.
ShutInv ==
  \A r \in shutting : pc[r] \in DeleteStep \cup {"broken", "destroyed"}

LEMMA ShutInductive == TypeOK /\ ShutInv /\ [Next]_vars => ShutInv'
<1> SUFFICES ASSUME TypeOK, ShutInv, [Next]_vars PROVE ShutInv'
  OBVIOUS
<1> USE DEF TypeOK, ShutInv
<1>0. shutting \subseteq Resource
  BY DEF Kind
<1>1. ASSUME NEW r \in Resource, Create(r) PROVE ShutInv'
  BY <1>1 DEF Create, Return, account, DeleteStep
<1>2. ASSUME NEW r \in Resource, CreateNext(r) PROVE ShutInv'
  <2>1. shutting' = shutting
    <3> USE DEF account
    <3>1. CASE Lock(r) \/ KeyPair(r) \/ VpcModify(r) \/ SgEgress(r)
      BY <3>1, KeyMoves DEF Lock, VpcModify, SgEgress, Call
    <3>2. CASE VpcById(r) \/ VpcByName(r) \/ IgwGet(r)
      BY <3>2 DEF VpcById, VpcByName, IgwGet, Look
    <3>3. CASE SgGet(r) \/ SubnetGet(r) \/ RtbGet(r)
      BY <3>3 DEF SgGet, SubnetGet, RtbGet, Look
    <3>4. CASE VpcCreate(r) \/ IgwCreate(r) \/ SgCreate(r)
      BY <3>4 DEF VpcCreate, IgwCreate, SgCreate, Make
    <3>5. CASE SubnetCreate(r) \/ RtbCreate(r) \/ Run(r)
      BY <3>5 DEF SubnetCreate, RtbCreate, Run, Make
    <3>6. CASE IgwAttach(r) \/ SgIngress(r) \/ RtbRoute(r) \/ RtbAssociate(r)
      BY <3>6 DEF IgwAttach, SgIngress, RtbRoute, RtbAssociate, Attach
    <3>7. CASE Unlock(r) \/ Provision(r)
      BY <3>7 DEF Unlock, Provision
    <3> QED BY <1>2, <3>1, <3>2, <3>3, <3>4, <3>5, <3>6, <3>7 DEF CreateNext
  <2>2. \A s \in Resource \ {r} : pc'[s] = pc[s]
    BY <1>2, CreateTouchesOwn
  <2>3. Creating(r)
    <3>1. CASE Lock(r) \/ Unlock(r)
      BY <3>1 DEF Lock, Unlock, Creating, CreateStep, Critical, KeyStep
    <3>2. CASE ~Lock(r) /\ ~Unlock(r)
      BY <1>2, <3>2, CriticalMoves DEF Moves, Creating, CreateStep
    <3> QED BY <3>1, <3>2
  <2>4. r \notin shutting
    BY <2>3 DEF Creating, CreateStep, Critical, KeyStep, DeleteStep
  <2> QED BY <1>0, <2>1, <2>2, <2>4
<1>3. ASSUME NEW r \in Resource, Delete(r) PROVE ShutInv'
  BY <1>3 DEF Delete, Return, account, DeleteStep
<1>4. ASSUME NEW r \in Resource, DeleteNext(r) PROVE ShutInv'
  <2>1. shutting' \subseteq shutting \cup {r}
    <3> USE DEF account
    <3>1. CASE GetResources(r) \/ Terminate(r) \/ AwaitTerminated(r)
      BY <3>1 DEF GetResources, Terminate, AwaitTerminated
    <3>2. CASE RtbDescribe(r) \/ RtbDisassociate(r) \/ IgwDescribe(r) \/ IgwDetach(r)
      BY <3>2 DEF RtbDescribe, RtbDisassociate, IgwDescribe, IgwDetach
    <3>3. CASE RtbDelete(r) \/ SubnetDelete(r) \/ SgDelete(r)
      BY <3>3 DEF RtbDelete, SubnetDelete, SgDelete, Remove
    <3>4. CASE IgwDelete(r) \/ VpcDelete(r)
      BY <3>4 DEF IgwDelete, VpcDelete, Remove
    <3> QED BY <1>4, <3>1, <3>2, <3>3, <3>4 DEF DeleteNext
  <2>2. /\ \A s \in Resource \ {r} : pc'[s] = pc[s]
        /\ pc'[r] \in DeleteStep \cup {"broken", "destroyed"}
    BY <1>4, DeleteMoves DEF Moves
  <2> QED BY <1>0, <2>1, <2>2
<1>5. ASSUME NEW r \in Resource, InstanceGone(r) PROVE ShutInv'
  BY <1>5 DEF InstanceGone
<1>6. ASSUME NEW c \in Cloud, EndRun(c) PROVE ShutInv'
  <2>1. shutting' = shutting
    BY <1>6, EndRunKeeps
  <2>2. \A r \in shutting : ~Creating(r)
    BY DEF Creating, CreateStep, Critical, KeyStep, DeleteStep
  <2>3. \A r \in shutting : pc'[r] = pc[r] \/ pc'[r] = "broken"
    BY <1>6, <2>2 DEF EndRun, Kind
  <2> QED BY <2>1, <2>3
<1>7. ASSUME NEW r \in Resource, Panic(r) PROVE ShutInv'
  BY <1>6, <1>7 DEF Panic
<1>8. ASSUME NEW c \in Cloud, NewRun(c) \/ Interrupt(c) \/ Kill(c) PROVE ShutInv'
  BY <1>6, <1>8 DEF NewRun, Interrupt, Kill
<1>9. CASE UNCHANGED vars
  BY <1>9 DEF vars
<1> QED BY <1>1, <1>2, <1>3, <1>4, <1>5, <1>7, <1>8, <1>9 DEF Next

-----------------------------------------------------------------------------
(* The footprint of a resource in each kind of step.                       *)

LEMMA CreateFoot ==
  ASSUME TypeOK, NEW r \in Resource, CreateNext(r)
  PROVE  \/ Foot' = Foot
         \/ Foot' = Foot \cup {r} /\ pc'[r] # "created"
<1> USE DEF TypeOK
<1>1. CASE up' = up
  BY <1>1 DEF Foot, Disposable
<1>2. ASSUME NEW step, NEW kind \in Kind, NEW next, next # "created", Make(r, step, kind, next)
      PROVE  up' = up \/ (Foot' = Foot \cup {r} /\ pc'[r] # "created")
  <2>1. CASE up' = [up EXCEPT ![kind] = @ \cup {r}] /\ pc'[r] # "created"
    <3>1. \A s \in Resource \ {r} : Disposable(s)' = Disposable(s)
      BY <2>1 DEF Disposable
    <3>2. kind \in Disposable(r)'
      BY <2>1 DEF Disposable
    <3> QED BY <2>1, <3>1, <3>2 DEF Foot
  <2>2. CASE up' = up
    BY <2>2
  <2> QED BY <1>2, <2>1, <2>2 DEF Make, Return, Fault
<1>3. CASE VpcCreate(r) \/ IgwCreate(r) \/ SgCreate(r)
  BY <1>1, <1>2, <1>3 DEF VpcCreate, IgwCreate, SgCreate, Kind
<1>4. CASE SubnetCreate(r) \/ RtbCreate(r) \/ Run(r)
  BY <1>1, <1>2, <1>4 DEF SubnetCreate, RtbCreate, Run, Kind
<1> USE DEF account
<1>5. CASE Lock(r) \/ KeyPair(r) \/ VpcModify(r) \/ SgEgress(r)
  BY <1>1, <1>5, KeyMoves DEF Lock, VpcModify, SgEgress, Call
<1>6. CASE VpcById(r) \/ VpcByName(r) \/ IgwGet(r)
  BY <1>1, <1>6 DEF VpcById, VpcByName, IgwGet, Look
<1>7. CASE SgGet(r) \/ SubnetGet(r) \/ RtbGet(r)
  BY <1>1, <1>7 DEF SgGet, SubnetGet, RtbGet, Look
<1>8. CASE IgwAttach(r) \/ SgIngress(r) \/ RtbRoute(r) \/ RtbAssociate(r)
  BY <1>1, <1>8 DEF IgwAttach, SgIngress, RtbRoute, RtbAssociate, Attach
<1>9. CASE Unlock(r) \/ Provision(r)
  BY <1>1, <1>9 DEF Unlock, Provision
<1> QED BY <1>3, <1>4, <1>5, <1>6, <1>7, <1>8, <1>9 DEF CreateNext

LEMMA DeleteFoot ==
  ASSUME TypeOK, NEW r \in Resource, DeleteNext(r)
  PROVE  Foot' = Foot \/ Foot' = Foot \ {r}
<1> USE DEF TypeOK
<1>1. CASE up' = up
  BY <1>1 DEF Foot, Disposable
<1>2. ASSUME NEW kind \in Kind, up' = [up EXCEPT ![kind] = @ \ {r}]
      PROVE  Foot' = Foot \/ Foot' = Foot \ {r}
  <2>1. \A s \in Resource \ {r} : Disposable(s)' = Disposable(s)
    BY <1>2 DEF Disposable
  <2>2. Disposable(r)' \subseteq Disposable(r)
    BY <1>2 DEF Disposable
  <2> QED BY <2>1, <2>2 DEF Foot
<1>3. CASE RtbDelete(r) \/ SubnetDelete(r) \/ SgDelete(r) \/ IgwDelete(r) \/ VpcDelete(r)
  <2>1. \E kind \in Kind : up' = [up EXCEPT ![kind] = @ \ {r}] \/ up' = up
    BY <1>3 DEF RtbDelete, SubnetDelete, SgDelete, IgwDelete, VpcDelete, Remove, Kind
  <2> QED BY <1>1, <1>2, <2>1
<1>4. CASE GetResources(r) \/ Terminate(r) \/ AwaitTerminated(r)
  BY <1>1, <1>4 DEF GetResources, Terminate, AwaitTerminated, account
<1>5. CASE RtbDescribe(r) \/ RtbDisassociate(r) \/ IgwDescribe(r) \/ IgwDetach(r)
  BY <1>1, <1>5 DEF RtbDescribe, RtbDisassociate, IgwDescribe, IgwDetach, account
<1> QED BY <1>3, <1>4, <1>5 DEF DeleteNext

-----------------------------------------------------------------------------
(* The step simulation.                                                    *)

PhaseOf(step) ==
  IF step \in CreateStep THEN "creating"
  ELSE IF step \in DeleteStep THEN "deleting"
  ELSE IF step = "created" THEN "ready" ELSE step

LEMMA PhaseIs == Phase = [r \in Resource |-> PhaseOf(pc[r])]
BY DEF Phase, PhaseOf, Creating, Deleting

LEMMA PhaseMoves ==
  ASSUME TypeOK, NEW r \in Resource, NEW n, pc' = [pc EXCEPT ![r] = n]
  PROVE  Phase' = [Phase EXCEPT ![r] = PhaseOf(n)]
<1>1. Phase' = [s \in Resource |-> PhaseOf(pc'[s])]
  BY DEF Phase, PhaseOf, Creating, Deleting
<1> QED BY <1>1, PhaseIs DEF TypeOK

LEMMA PhaseValues ==
  /\ \A n \in CreateStep : PhaseOf(n) = "creating"
  /\ \A n \in DeleteStep : PhaseOf(n) = "deleting"
  /\ PhaseOf("created") = "ready"
  /\ \A n \in {"absent", "broken", "destroyed", "lost"} : PhaseOf(n) = n
BY DEF PhaseOf, CreateStep, DeleteStep, Critical, KeyStep

LifeInv == TypeOK /\ LockInv /\ DestroyInv /\ ShutInv

LEMMA LifeStep ==
  LifeInv /\ LifeInv' /\ [Next]_vars => [Lifecycle!LifecycleNext]_(Lifecycle!lifecycleVars)
<1> DEFINE Goal == [Lifecycle!LifecycleNext]_(Lifecycle!lifecycleVars)
<1> SUFFICES ASSUME LifeInv, LifeInv', [Next]_vars PROVE Goal
  OBVIOUS
<1> USE DEF LifeInv
<1>0. ASSUME Phase' = Phase, Foot' = Foot PROVE Goal
  BY <1>0 DEF Lifecycle!lifecycleVars, Foot
<1>1. ASSUME NEW r \in Resource, Create(r) PROVE Goal
  <2>1. pc[r] = "absent" /\ pc' = [pc EXCEPT ![r] = "lock"] /\ Foot' = Foot
    BY <1>1 DEF Create, Return, account, Foot, Disposable
  <2>2. Phase[r] = "absent" /\ Phase' = [Phase EXCEPT ![r] = "creating"]
    <3>1. PhaseOf("lock") = "creating" /\ PhaseOf("absent") = "absent"
      BY DEF PhaseOf, CreateStep, Critical, KeyStep, DeleteStep
    <3>2. Phase' = [Phase EXCEPT ![r] = PhaseOf("lock")]
      BY <2>1, PhaseMoves
    <3> QED BY <2>1, <3>1, <3>2, PhaseIs
  <2>3. Lifecycle!BeginCreate(r)
    BY <2>1, <2>2 DEF Lifecycle!BeginCreate, Lifecycle!Move, Foot
  <2> QED BY <2>3 DEF Lifecycle!LifecycleNext
<1>2. ASSUME NEW r \in Resource, CreateNext(r) PROVE Goal
  <2>1. PICK n \in CreateStep \cup {"created", "broken"} :
          pc[r] \in CreateStep /\ pc' = [pc EXCEPT ![r] = n]
    <3>1. CASE Lock(r) \/ Unlock(r)
      BY <3>1 DEF Lock, Unlock, Return, CreateStep, Critical, KeyStep
    <3>2. CASE ~Lock(r) /\ ~Unlock(r)
      BY <1>2, <3>2, CriticalMoves DEF Moves, CreateStep
    <3> QED BY <3>1, <3>2
  <2>2. /\ Phase[r] = "creating" /\ PhaseOf(n) \in {"creating", "ready", "broken"}
        /\ Phase' = [Phase EXCEPT ![r] = PhaseOf(n)]
        /\ n # "created" => PhaseOf(n) # "ready"
    BY <2>1, PhaseIs, PhaseMoves, PhaseValues
  <2>3. CASE Foot' = Foot
    <3>1. CASE PhaseOf(n) = "creating"
      BY <1>0, <2>2, <2>3, <3>1, PhaseIs
    <3>2. CASE PhaseOf(n) \in {"ready", "broken"}
      <4>1. Lifecycle!EndCreate(r)
        BY <2>2, <2>3, <3>2 DEF Lifecycle!EndCreate, Lifecycle!Move, Foot
      <4> QED BY <4>1 DEF Lifecycle!LifecycleNext
    <3> QED BY <2>2, <3>1, <3>2
  <2>4. CASE Foot' = Foot \cup {r} /\ n # "created"
    <3>1. PhaseOf(n) = "creating" => Phase' = Phase
      BY <2>2, PhaseIs
    <3>2. Lifecycle!Grow(r)
      BY <2>2, <2>4, <3>1 DEF Lifecycle!Grow, Foot
    <3> QED BY <3>2 DEF Lifecycle!LifecycleNext
  <2>5. pc'[r] = n
    BY <2>1 DEF TypeOK
  <2> QED BY <1>2, <2>3, <2>4, <2>5, CreateFoot
<1>3. ASSUME NEW r \in Resource, Delete(r) PROVE Goal
  <2>1. pc[r] \in {"created", "broken"} /\ pc' = [pc EXCEPT ![r] = "dGet"] /\ Foot' = Foot
    BY <1>3 DEF Delete, InState, Return, account, Foot, Disposable
  <2>2. Phase[r] \in {"ready", "broken"} /\ Phase' = [Phase EXCEPT ![r] = "deleting"]
    <3>1. PhaseOf("dGet") = "deleting" /\ PhaseOf("created") = "ready" /\ PhaseOf("broken") = "broken"
      BY DEF PhaseOf, CreateStep, Critical, KeyStep, DeleteStep
    <3>2. Phase' = [Phase EXCEPT ![r] = PhaseOf("dGet")]
      BY <2>1, PhaseMoves
    <3> QED BY <2>1, <3>1, <3>2, PhaseIs
  <2>3. Lifecycle!BeginDelete(r)
    BY <2>1, <2>2 DEF Lifecycle!BeginDelete, Lifecycle!Move, Foot
  <2> QED BY <2>3 DEF Lifecycle!LifecycleNext
<1>4. ASSUME NEW r \in Resource, DeleteNext(r) PROVE Goal
  <2>1. PICK n \in DeleteStep \cup {"broken", "destroyed"} :
          pc[r] \in DeleteStep /\ pc' = [pc EXCEPT ![r] = n]
    BY <1>4, DeleteMoves DEF Moves
  <2>2. /\ Phase[r] = "deleting" /\ PhaseOf(n) \in {"deleting", "broken", "destroyed"}
        /\ Phase' = [Phase EXCEPT ![r] = PhaseOf(n)]
        /\ PhaseOf(n) = "destroyed" => n = "destroyed"
    BY <2>1, PhaseIs, PhaseMoves, PhaseValues
  <2>3. PhaseOf(n) = "deleting" => Phase' = Phase
    BY <2>2, PhaseIs
  <2>4. CASE Foot' = Foot
    <3>1. CASE PhaseOf(n) = "deleting"
      BY <1>0, <2>3, <2>4, <3>1
    <3>2. CASE PhaseOf(n) = "broken"
      <4>1. Lifecycle!FailDelete(r)
        BY <2>2, <2>4, <3>2 DEF Lifecycle!FailDelete, Lifecycle!Move, Foot
      <4> QED BY <4>1 DEF Lifecycle!LifecycleNext
    <3>3. CASE PhaseOf(n) = "destroyed"
      <4>1. pc'[r] = "destroyed"
        BY <2>1, <2>2, <3>3 DEF TypeOK
      <4>2. ~(IgnoreErrors \/ ~FullPage) => Disposable(r)' = {}
        BY <4>1 DEF DestroyInv, Cleared, Clearing, Ahead
      <4>3. (IgnoreErrors \/ ~FullPage) \/ r \notin Foot
        BY <2>4, <4>2 DEF Foot
      <4>4. Lifecycle!EndDelete(r)
        BY <2>2, <2>4, <3>3, <4>3 DEF Lifecycle!EndDelete, Lifecycle!Move, Foot
      <4> QED BY <4>4 DEF Lifecycle!LifecycleNext
    <3> QED BY <2>2, <3>1, <3>2, <3>3
  <2>5. CASE Foot' = Foot \ {r}
    <3>1. Lifecycle!Shrink(r)
      BY <2>2, <2>3, <2>5 DEF Lifecycle!Shrink, Lifecycle!Move, Foot
    <3> QED BY <3>1 DEF Lifecycle!LifecycleNext
  <2> QED BY <1>4, <2>4, <2>5, DeleteFoot
<1>5. ASSUME NEW r \in Resource, InstanceGone(r) PROVE Goal
  <2>1. pc' = pc /\ r \in shutting /\ up' = [up EXCEPT !["instance"] = @ \ {r}]
    BY <1>5 DEF InstanceGone
  <2>2. Phase' = Phase
    BY <2>1 DEF Phase, Creating, Deleting
  <2>3. Phase[r] \in {"deleting", "broken", "destroyed"}
    BY <2>1, PhaseIs, PhaseValues DEF ShutInv
  <2>4. Foot' = Foot \/ Foot' = Foot \ {r}
    <3>1. \A s \in Resource \ {r} : Disposable(s)' = Disposable(s)
      BY <2>1 DEF Disposable, TypeOK, Kind
    <3>2. Disposable(r)' \subseteq Disposable(r)
      BY <2>1 DEF Disposable, TypeOK, Kind
    <3> QED BY <3>1, <3>2 DEF Foot
  <2>5. CASE Foot' = Foot
    BY <1>0, <2>2, <2>5
  <2>6. CASE Foot' = Foot \ {r}
    <3>1. Lifecycle!Shrink(r)
      BY <2>2, <2>3, <2>6 DEF Lifecycle!Shrink, Foot
    <3> QED BY <3>1 DEF Lifecycle!LifecycleNext
  <2> QED BY <2>4, <2>5, <2>6
<1>6. ASSUME NEW c \in Cloud, EndRun(c) PROVE Goal
  <2> DEFINE S == {r \in Resource : CloudOf[r] = c}
  <2>1. Foot' = Foot
    BY <1>6, EndRunKeeps DEF Foot, Disposable
  <2>2. Phase' = [r \in Resource |-> PhaseOf(pc'[r])]
    BY DEF Phase, PhaseOf, Creating, Deleting
  <2>3. ASSUME NEW r \in Resource
        PROVE  Phase'[r] = IF r \in S /\ Phase[r] = "creating" THEN "lost"
                           ELSE IF r \in S /\ Phase[r] = "deleting" THEN "broken"
                           ELSE Phase[r]
    <3>0. pc[r] \in Step /\ Phase[r] = PhaseOf(pc[r]) /\ Phase'[r] = PhaseOf(pc'[r])
      BY <2>2, PhaseIs DEF TypeOK
    <3>1. CASE pc[r] \in CreateStep
      <4>1. pc'[r] = IF CloudOf[r] = c THEN "lost" ELSE pc[r]
        BY <1>6, <3>1 DEF EndRun, InFlight, Creating
      <4> QED BY <3>0, <3>1, <4>1, PhaseValues
    <3>2. CASE pc[r] \in DeleteStep
      <4>1. pc[r] \notin CreateStep
        BY <3>2 DEF DeleteStep, CreateStep, Critical, KeyStep
      <4>2. pc'[r] = IF CloudOf[r] = c THEN "broken" ELSE pc[r]
        BY <1>6, <3>2, <4>1 DEF EndRun, InFlight, Creating, Deleting
      <4> QED BY <3>0, <3>2, <4>2, PhaseValues
    <3>3. CASE pc[r] \notin CreateStep /\ pc[r] \notin DeleteStep
      <4>1. pc'[r] = pc[r]
        BY <1>6, <3>3 DEF EndRun, InFlight, Creating, Deleting
      <4>2. pc[r] \in Settled
        BY <3>0, <3>3 DEF Step
      <4>3. PhaseOf(pc[r]) \notin {"creating", "deleting"}
        BY <4>2, PhaseValues DEF Settled
      <4> QED BY <3>0, <4>1, <4>3
    <3> QED BY <3>1, <3>2, <3>3
  <2>4. Lifecycle!Crash(S)
    BY <2>1, <2>2, <2>3 DEF Lifecycle!Crash, Foot
  <2> QED BY <2>4 DEF Lifecycle!LifecycleNext
<1>7. ASSUME NEW r \in Resource, Panic(r) PROVE Goal
  BY <1>6, <1>7 DEF Panic
<1>8. ASSUME NEW c \in Cloud, NewRun(c) \/ Interrupt(c) \/ Kill(c) PROVE Goal
  BY <1>6, <1>8 DEF NewRun, Interrupt, Kill
<1>9. CASE UNCHANGED vars
  <2>1. Phase' = Phase /\ Foot' = Foot
    BY <1>9 DEF vars, Phase, Creating, Deleting, Foot, Disposable
  <2> QED BY <1>0, <2>1
<1> QED BY <1>1, <1>2, <1>3, <1>4, <1>5, <1>7, <1>8, <1>9 DEF Next

\* The AWS backend implements the life cycle of resources: the objects of the six
\* kinds that a Delete removes appear only while a Create runs, disappear only
\* through a Delete, and a Delete that succeeds leaves none of them, unless errors
\* are ignored or the answer is cut off.  The key pair that a Create may import is
\* of none of these kinds: it outlives its resource.
THEOREM AwsImplementsLifecycle == Spec => ImplementsLifecycle
<1>1. Init => LifeInv
  BY TypeInit, LockInit DEF Init, LifeInv, DestroyInv, Cleared, Clearing, DeleteStep, ShutInv
<1>2. LifeInv /\ [Next]_vars => LifeInv'
  BY TypeInductive, LockInductive, DestroyInductive, ShutInductive DEF LifeInv
<1>3. Init => Lifecycle!LifecycleInit
  BY DEF Init, Lifecycle!LifecycleInit, Phase, Creating, Deleting, CreateStep, Critical, KeyStep,
         DeleteStep, Disposable
<1>4. LifeInv /\ LifeInv' /\ [Next]_vars
        => [Lifecycle!LifecycleNext]_(Lifecycle!lifecycleVars)
  BY LifeStep
<1> QED
  BY <1>1, <1>2, <1>3, <1>4, PTL DEF Spec, ImplementsLifecycle, Lifecycle!LifecycleSpec

-----------------------------------------------------------------------------
(* What the life cycle promises holds for the account.                     *)

Promise == Lifecycle!DestroyedIsGone /\ Lifecycle!FootprintAccounted

LEMMA LifeType == TypeOK => Lifecycle!LifecycleTypeOK
<1> SUFFICES ASSUME TypeOK PROVE Lifecycle!LifecycleTypeOK
  OBVIOUS
<1>1. ASSUME NEW r \in Resource PROVE PhaseOf(pc[r]) \in Lifecycle!Phase
  BY DEF TypeOK, PhaseOf, Step, Settled, Lifecycle!Phase
<1> QED BY <1>1, PhaseIs DEF Lifecycle!LifecycleTypeOK

LEMMA PromiseStep ==
  Lifecycle!LifecycleTypeOK /\ Promise
    /\ [Lifecycle!LifecycleNext]_(Lifecycle!lifecycleVars) => Promise'
<1> DEFINE may == IgnoreErrors \/ ~FullPage
<1> SUFFICES ASSUME Lifecycle!LifecycleTypeOK, Promise,
                    [Lifecycle!LifecycleNext]_(Lifecycle!lifecycleVars),
                    NEW r \in Resource
             PROVE  r \in Foot' => Phase'[r] # "absent" /\ (Phase'[r] = "destroyed" => may)
  BY DEF Promise, Lifecycle!DestroyedIsGone, Lifecycle!FootprintAccounted, Foot
<1>0. r \in Foot => Phase[r] # "absent" /\ (Phase[r] = "destroyed" => may)
  BY DEF Promise, Lifecycle!FootprintAccounted, Foot
<1>1. Phase \in [Resource -> Lifecycle!Phase] /\ Foot \subseteq Resource
  BY DEF Lifecycle!LifecycleTypeOK, Foot
<1>2. ASSUME NEW s \in Resource,
             Lifecycle!BeginCreate(s) \/ Lifecycle!EndCreate(s)
               \/ Lifecycle!BeginDelete(s) \/ Lifecycle!FailDelete(s)
      PROVE  r \in Foot' => Phase'[r] # "absent" /\ (Phase'[r] = "destroyed" => may)
  <2>1. /\ Foot' = Foot
        /\ \E n \in {"creating", "ready", "broken", "deleting"} :
             Phase' = [Phase EXCEPT ![s] = n]
    BY <1>2 DEF Lifecycle!BeginCreate, Lifecycle!EndCreate, Lifecycle!BeginDelete,
                Lifecycle!FailDelete, Lifecycle!Move, Foot
  <2> QED BY <1>0, <1>1, <2>1
<1>3. ASSUME NEW s \in Resource, Lifecycle!Grow(s)
      PROVE  r \in Foot' => Phase'[r] # "absent" /\ (Phase'[r] = "destroyed" => may)
  <2>1. /\ Phase[s] = "creating" /\ Foot' = Foot \cup {s}
        /\ Phase' = Phase \/ Phase' = [Phase EXCEPT ![s] = "broken"]
    BY <1>3 DEF Lifecycle!Grow, Foot
  <2> QED BY <1>0, <1>1, <2>1
<1>4. ASSUME NEW s \in Resource, Lifecycle!Shrink(s)
      PROVE  r \in Foot' => Phase'[r] # "absent" /\ (Phase'[r] = "destroyed" => may)
  <2>1. /\ Foot' = Foot \ {s}
        /\ \/ Phase' = Phase
           \/ Phase' = [Phase EXCEPT ![s] = "broken"]
           \/ Phase' = [Phase EXCEPT ![s] = "destroyed"]
    BY <1>4 DEF Lifecycle!Shrink, Lifecycle!Move, Foot
  <2> QED BY <1>0, <1>1, <2>1
<1>5. ASSUME NEW s \in Resource, Lifecycle!EndDelete(s)
      PROVE  r \in Foot' => Phase'[r] # "absent" /\ (Phase'[r] = "destroyed" => may)
  <2>1. /\ may \/ s \notin Foot
        /\ Foot' = Foot /\ Phase' = [Phase EXCEPT ![s] = "destroyed"]
    BY <1>5 DEF Lifecycle!EndDelete, Lifecycle!Move, Foot
  <2> QED BY <1>0, <1>1, <2>1
<1>6. ASSUME NEW S \in SUBSET Resource, Lifecycle!Crash(S)
      PROVE  r \in Foot' => Phase'[r] # "absent" /\ (Phase'[r] = "destroyed" => may)
  <2>1. Foot' = Foot /\ Phase'[r] \in {Phase[r], "lost", "broken"}
    BY <1>6 DEF Lifecycle!Crash, Foot
  <2> QED BY <1>0, <2>1
<1>7. CASE UNCHANGED Lifecycle!lifecycleVars
  BY <1>0, <1>7 DEF Lifecycle!lifecycleVars, Foot
<1> QED BY <1>2, <1>3, <1>4, <1>5, <1>6, <1>7 DEF Lifecycle!LifecycleNext

\* Whatever the account holds of the kinds a Delete removes belongs to a resource
\* whose Create has begun and that is not destroyed, unless a destroy was told to
\* ignore errors or read only part of the answer.  It follows from the life cycle
\* alone, and says nothing of the key pairs, which no Delete removes.
THEOREM NothingUnaccounted == Spec => []Promise
<1>1. Lifecycle!LifecycleInit => Promise
  BY DEF Lifecycle!LifecycleInit, Promise, Lifecycle!DestroyedIsGone,
         Lifecycle!FootprintAccounted
<1>2. TypeOK /\ Promise /\ [Lifecycle!LifecycleNext]_(Lifecycle!lifecycleVars) => Promise'
  BY LifeType, PromiseStep
<1> QED
  BY <1>1, <1>2, AwsImplementsLifecycle, TypeCorrect, PTL
     DEF ImplementsLifecycle, Lifecycle!LifecycleSpec

=============================================================================
