--------------------------- MODULE GcpInfraProofs ---------------------------
(***************************************************************************)
(* Theorems about GcpInfra, for every set of resources and names and every *)
(* number of faults, kills and changes of vpc_name.                        *)
(***************************************************************************)
EXTENDS GcpInfra, TLAPS

USE NameAssumption, SwitchAssumption, BoundAssumption

-----------------------------------------------------------------------------
(* What a step of a Create may do, and what a step of a Delete may do.     *)

\* pc of r goes from one set of steps to another; nothing is left of the rest.
Moves(r, from, to) ==
  /\ pc[r] \in from
  /\ \E n \in to : pc' = [pc EXCEPT ![r] = n]
  /\ faults' \in Nat
  /\ UNCHANGED terraform

Grows ==
  /\ networks \subseteq networks' /\ subnetworks \subseteq subnetworks'
  /\ firewalls \subseteq firewalls'

\* What appears bears the name of r, and lies in a network that exists.
Adds(r) ==
  /\ networks' \subseteq networks \cup {vpcName[r]}
  /\ subnetworks' \subseteq networks' \cap (subnetworks \cup {vpcName[r]})
  /\ firewalls' \subseteq networks' \cap (firewalls \cup {vpcName[r]})

Sheds ==
  /\ networks' \subseteq networks /\ subnetworks' \subseteq subnetworks
  /\ firewalls' \subseteq firewalls

LEMMA GetDoes ==
  ASSUME TypeOK, NEW r \in Resource, NEW step, NEW found, NEW hit, NEW miss,
         Get(r, step, found, hit, miss)
  PROVE  /\ Moves(r, {step}, {hit, miss, "broken"})
         /\ UNCHANGED <<mu, instances, networks, subnetworks, firewalls>>
BY DEF TypeOK, Get, Return, Fault, Moves, named

LEMMA InsertDoes ==
  ASSUME TypeOK, NEW r \in Resource, NEW step, NEW may \in BOOLEAN,
         NEW new \in BOOLEAN, NEW next, Insert(r, step, may, new, next)
  PROVE  /\ Moves(r, {step}, {next, "broken"})
         /\ UNCHANGED mu
         /\ (may /\ new) \/ UNCHANGED <<instances, networks, subnetworks, firewalls>>
BY DEF TypeOK, Insert, Fail, Return, Fault, Moves, named

\* The steps with which a Create works on the networks, infraMu in hand.
Working(r) ==
  \/ GetSSHPublicKey(r) \/ NetworkGet(r) \/ NetworkInsert(r)
  \/ SubnetworkGet(r) \/ SubnetworkInsert(r) \/ FirewallGet(r) \/ FirewallInsert(r)

LEMMA WorkingDoes ==
  ASSUME TypeOK, NEW r \in Resource, Working(r)
  PROVE  /\ Moves(r, Critical \ {"unlock"}, (Critical \ {"key"}) \cup {"broken"})
         /\ UNCHANGED <<mu, instances>>
         /\ Grows /\ Adds(r)
<1> DEFINE From == Critical \ {"unlock"}
           To == (Critical \ {"key"}) \cup {"broken"}
<1> USE DEF Critical
<1>0. ASSUME UNCHANGED <<networks, subnetworks, firewalls>> PROVE Grows /\ Adds(r)
  BY <1>0 DEF Grows, Adds, TypeOK
<1>1. ASSUME NEW step \in From, NEW hit \in To, NEW miss \in To, NEW found,
             Get(r, step, found, hit, miss)
      PROVE  Moves(r, From, To) /\ UNCHANGED <<mu, instances>> /\ Grows /\ Adds(r)
  BY <1>0, <1>1, GetDoes DEF Moves
<1>2. CASE GetSSHPublicKey(r)
  BY <1>1, <1>2 DEF GetSSHPublicKey
<1>3. CASE NetworkGet(r)
  BY <1>1, <1>3 DEF NetworkGet
<1>4. CASE SubnetworkGet(r)
  BY <1>1, <1>4 DEF SubnetworkGet
<1>5. CASE FirewallGet(r)
  BY <1>1, <1>5 DEF FirewallGet
<1>6. ASSUME NEW step \in From, NEW next \in To, NEW may \in BOOLEAN, NEW new \in BOOLEAN,
             Insert(r, step, may, new, next),
             may /\ new => UNCHANGED instances /\ Grows /\ Adds(r)
      PROVE  Moves(r, From, To) /\ UNCHANGED <<mu, instances>> /\ Grows /\ Adds(r)
  <2>1. /\ Moves(r, {step}, {next, "broken"})
        /\ UNCHANGED mu
        /\ (may /\ new) \/ UNCHANGED <<instances, networks, subnetworks, firewalls>>
    BY <1>6, InsertDoes
  <2>2. Moves(r, From, To)
    BY <1>6, <2>1 DEF Moves
  <2> QED BY <1>0, <1>6, <2>1, <2>2
<1>7. CASE NetworkInsert(r)
  <2> DEFINE may == vpcName[r] \notin networks
             new == networks' = networks \cup {vpcName[r]}
                    /\ UNCHANGED <<instances, subnetworks, firewalls>>
  <2>1. may /\ new => UNCHANGED instances /\ Grows /\ Adds(r)
    BY DEF Grows, Adds, TypeOK
  <2>2. Insert(r, "netInsert", may, new, "subGet") /\ may \in BOOLEAN /\ new \in BOOLEAN
    BY <1>7 DEF NetworkInsert
  <2> HIDE DEF may, new
  <2> QED BY <1>6, <2>1, <2>2
<1>8. CASE SubnetworkInsert(r)
  <2> DEFINE may == vpcName[r] \in networks \ subnetworks
             new == subnetworks' = subnetworks \cup {vpcName[r]}
                    /\ UNCHANGED <<instances, networks, firewalls>>
  <2>1. may /\ new => UNCHANGED instances /\ Grows /\ Adds(r)
    BY DEF Grows, Adds, TypeOK
  <2>2. Insert(r, "subInsert", may, new, "fwGet") /\ may \in BOOLEAN /\ new \in BOOLEAN
    BY <1>8 DEF SubnetworkInsert
  <2> HIDE DEF may, new
  <2> QED BY <1>6, <2>1, <2>2
<1>9. CASE FirewallInsert(r)
  <2> DEFINE may == vpcName[r] \in networks \ firewalls
             new == firewalls' = firewalls \cup {vpcName[r]}
                    /\ UNCHANGED <<instances, networks, subnetworks>>
  <2>1. may /\ new => UNCHANGED instances /\ Grows /\ Adds(r)
    BY DEF Grows, Adds, TypeOK
  <2>2. Insert(r, "fwInsert", may, new, "unlock") /\ may \in BOOLEAN /\ new \in BOOLEAN
    BY <1>9 DEF FirewallInsert
  <2> HIDE DEF may, new
  <2> QED BY <1>6, <2>1, <2>2
<1> QED BY <1>2, <1>3, <1>4, <1>5, <1>7, <1>8, <1>9 DEF Working

LEMMA LaunchDoes ==
  ASSUME TypeOK, NEW r \in Resource, BulkInsert(r) \/ WaitUntilReady(r)
  PROVE  /\ Moves(r, {"insert", "wait"}, {"wait", "created", "broken"})
         /\ UNCHANGED <<mu, networks, subnetworks, firewalls>>
         /\ \/ UNCHANGED instances
            \/ instances' = instances \cup {r} /\ pc'[r] # "created"
<1>1. CASE WaitUntilReady(r)
  BY <1>1 DEF WaitUntilReady, Fail, Return, Fault, Moves, named, TypeOK
<1>2. CASE BulkInsert(r)
  BY <1>2 DEF BulkInsert, Insert, Fail, Return, Fault, Moves, named, TypeOK
<1> QED BY <1>1, <1>2

-----------------------------------------------------------------------------
(* The invariant of a Delete that is past the instances: it is not about   *)
(* the default network, and the instances are gone.                        *)

Named == {"dFirewall", "dSubnetwork", "dNetwork"}

DeleteInv ==
  \A r \in Resource : pc[r] \in Named =>
    /\ vpcName[r] # Default
    /\ ~IgnoreErrors => r \notin instances

\* A Delete that ends with success leaves nothing of the name.
Gone(r) ==
  \/ vpcName[r] = Default
  \/ IgnoreErrors
  \/ vpcName[r] \notin networks' \cup subnetworks' \cup firewalls'

\* What DeleteInv says of r after a step, and of a Delete that has ended.
Past(r) ==
  /\ pc'[r] \in Named => vpcName[r] # Default
  /\ pc'[r] \in Named \cup {"destroyed"} => IgnoreErrors \/ r \notin instances'

LEMMA DeleteDoes ==
  ASSUME TypeOK, DeleteInv, NEW r \in Resource, DeleteNext(r)
  PROVE  /\ Moves(r, DeleteStep, DeleteStep \cup {"broken", "destroyed"})
         /\ UNCHANGED mu
         /\ instances' = instances \/ (instances' = instances \ {r} /\ pc[r] = "dInstances")
         /\ Past(r)
<1> USE DEF DeleteStep, Past, Named, DeleteInv, TypeOK
<1>1. CASE ListInstances(r)
  <2>1. CASE Fault(r, "broken")
    BY <1>1, <2>1 DEF ListInstances, Fault, Moves
  <2>2. CASE Return(r, IF r \in instances THEN "dInstances" ELSE AfterInstances(r))
    BY <1>1, <2>2 DEF ListInstances, AfterInstances, Return, Moves
  <2> QED BY <1>1, <2>1, <2>2 DEF ListInstances
<1>2. CASE DeleteInstances(r)
  BY <1>2 DEF DeleteInstances, AfterInstances, OnDeleteError, Return, Fault, Moves
<1>3. ASSUME NEW step \in Named, NEW next \in Named \cup {"destroyed"},
             NEW present \in BOOLEAN, NEW may \in BOOLEAN, NEW new \in BOOLEAN,
             Remove(r, step, present, may, new, next)
      PROVE  /\ Moves(r, DeleteStep, DeleteStep \cup {"broken", "destroyed"})
             /\ UNCHANGED <<mu, instances>>
             /\ Past(r)
  BY <1>3 DEF Remove, OnDeleteError, Fail, Return, Fault, Moves
<1>4. CASE DeleteFirewall(r)
  <2> DEFINE present == vpcName[r] \in firewalls
             may == TRUE
             new == firewalls' = firewalls \ {vpcName[r]} /\ UNCHANGED <<networks, subnetworks>>
  <2>1. Remove(r, "dFirewall", present, may, new, "dSubnetwork")
    BY <1>4, Zenon DEF DeleteFirewall
  <2>2. present \in BOOLEAN /\ may \in BOOLEAN /\ new \in BOOLEAN
    OBVIOUS
  <2> HIDE DEF present, may, new
  <2> QED BY <1>3, <2>1, <2>2
<1>5. CASE DeleteSubnetwork(r)
  <2> DEFINE present == vpcName[r] \in subnetworks
             may == \A s \in instances : VpcName[s] # vpcName[r]
             new == subnetworks' = subnetworks \ {vpcName[r]} /\ UNCHANGED <<networks, firewalls>>
  <2>1. Remove(r, "dSubnetwork", present, may, new, "dNetwork")
    BY <1>5, Zenon DEF DeleteSubnetwork
  <2>2. present \in BOOLEAN /\ may \in BOOLEAN /\ new \in BOOLEAN
    OBVIOUS
  <2> HIDE DEF present, may, new
  <2> QED BY <1>3, <2>1, <2>2
<1>6. CASE DeleteNetwork(r)
  <2> DEFINE present == vpcName[r] \in networks
             may == vpcName[r] \notin subnetworks \cup firewalls
             new == networks' = networks \ {vpcName[r]} /\ UNCHANGED <<subnetworks, firewalls>>
  <2>1. Remove(r, "dNetwork", present, may, new, "destroyed")
    BY <1>6, Zenon DEF DeleteNetwork
  <2>2. present \in BOOLEAN /\ may \in BOOLEAN /\ new \in BOOLEAN
    OBVIOUS
  <2> HIDE DEF present, may, new
  <2> QED BY <1>3, <2>1, <2>2
<1> QED BY <1>1, <1>2, <1>4, <1>5, <1>6 DEF DeleteNext

LEMMA DeleteSheds ==
  ASSUME TypeOK, DeleteInv, NEW r \in Resource, DeleteNext(r)
  PROVE  /\ Sheds
         /\ subnetworks' \subseteq networks' /\ firewalls' \subseteq networks'
         /\ Default \in networks' \cap subnetworks'
         /\ pc'[r] = "destroyed" => Gone(r)
         /\ firewalls' # firewalls =>
              pc[r] = "dFirewall" /\ firewalls' = firewalls \ {vpcName[r]}
<1> USE DEF Sheds, Gone, Named, DeleteInv, TypeOK, named
<1>1. CASE ListInstances(r)
  BY <1>1 DEF ListInstances, AfterInstances, Return, Fault
<1>2. CASE DeleteInstances(r)
  BY <1>2 DEF DeleteInstances, AfterInstances, OnDeleteError, Return, Fault
<1>3. CASE DeleteFirewall(r)
  BY <1>3 DEF DeleteFirewall, Remove, OnDeleteError, Fail, Return, Fault
<1>4. CASE DeleteSubnetwork(r)
  BY <1>4 DEF DeleteSubnetwork, Remove, OnDeleteError, Fail, Return, Fault
<1>5. CASE DeleteNetwork(r)
  BY <1>5 DEF DeleteNetwork, Remove, OnDeleteError, Fail, Return, Fault
<1> QED BY <1>1, <1>2, <1>3, <1>4, <1>5 DEF DeleteNext

LEMMA EndRunDoes ==
  ASSUME TypeOK, EndRun
  PROVE  /\ pc' \in [Resource -> Settled]
         /\ \A r \in Resource :
              pc'[r] = IF Creating(r) THEN "lost" ELSE IF Deleting(r) THEN "broken" ELSE pc[r]
         /\ mu' = None
         /\ known' \subseteq Resource
         /\ \A r \in known' : pc'[r] \in {"created", "broken"}
         /\ UNCHANGED <<vpcName, updates, instances, networks, subnetworks, firewalls>>
BY DEF EndRun, TypeOK, Settled, Creating, Deleting, InState, named

-----------------------------------------------------------------------------
(* The inductive invariant.                                                *)

\* A mutex that a failed Create leaks stays until the run ends, and before that
\* Terraform does not know the resource and cannot destroy it.
LockInv ==
  /\ LockOwner
  /\ mu \notin known
  /\ \A r \in known : InState(r)

\* What exists of the networks the provider makes.
Made == ((networks \ Foreign) \cup subnetworks \cup firewalls) \ {Default}
Accountable(r) == pc[r] \notin {"absent", "destroyed"}

AccountInv ==
  /\ NetworksAccounted
  /\ updates = 0 => vpcName = VpcName

IInv == TypeOK /\ LockInv /\ DeleteInv /\ AccountInv

LEMMA IInvInit == Init => IInv
BY DEF Init, IInv, TypeOK, LockInv, LockOwner, DeleteInv, AccountInv, NetworksAccounted,
       Settled, Critical, Named

\* A step keeps the account of what exists if it keeps the resources that
\* account for it, and accounts for what it adds.
LEMMA AccountKept ==
  ASSUME TypeOK, AccountInv, UNCHANGED <<vpcName, updates>>,
         \A s \in Resource : Accountable(s) => Accountable(s)',
         \A n \in Made' \ Made : \E s \in Resource : vpcName[s] = n /\ Accountable(s)'
  PROVE  AccountInv'
<1>1. SUFFICES ASSUME ~IgnoreErrors, updates = 0, NEW n \in Made'
               PROVE  \E s \in Resource : VpcName[s] = n /\ Accountable(s)'
  BY DEF AccountInv, NetworksAccounted, Made, Accountable
<1>2. vpcName = VpcName
  BY <1>1 DEF AccountInv
<1>3. CASE n \in Made
  BY <1>1, <1>3 DEF AccountInv, NetworksAccounted, Made, Accountable
<1>4. CASE n \notin Made
  BY <1>1, <1>2, <1>4
<1> QED BY <1>3, <1>4

LEMMA CreatePreserves ==
  ASSUME IInv, NEW r \in Resource, CreateNext(r)
  PROVE  IInv'
<1> USE DEF IInv, TypeOK
<1>1. CASE Working(r)
  <2>1. /\ Moves(r, Critical \ {"unlock"}, (Critical \ {"key"}) \cup {"broken"})
        /\ UNCHANGED <<mu, instances>> /\ Grows /\ Adds(r)
    BY <1>1, WorkingDoes
  <2>2. TypeOK'
    BY <2>1 DEF Moves, Grows, Adds, CreateStep, Settled, terraform
  <2>3. LockInv'
    BY <2>1 DEF Moves, LockInv, LockOwner, Critical, InState, terraform
  <2>4. DeleteInv'
    BY <2>1 DEF Moves, DeleteInv, Named, Critical, terraform
  <2>5. AccountInv'
    <3>1. \A s \in Resource : Accountable(s) => Accountable(s)'
      BY <2>1 DEF Moves, Accountable, Critical
    <3>2. Accountable(r)' /\ Made' \subseteq Made \cup {vpcName[r]}
      BY <2>1 DEF Moves, Accountable, Critical, Adds, Made
    <3> QED BY <2>1, <3>1, <3>2, AccountKept DEF Moves, terraform
  <2> QED BY <2>2, <2>3, <2>4, <2>5
<1>2. CASE BulkInsert(r) \/ WaitUntilReady(r)
  <2>1. /\ Moves(r, {"insert", "wait"}, {"wait", "created", "broken"})
        /\ UNCHANGED <<mu, networks, subnetworks, firewalls>>
        /\ instances' \subseteq instances \cup {r}
    BY <1>2, LaunchDoes
  <2>2. TypeOK'
    BY <2>1 DEF Moves, CreateStep, Settled, terraform
  <2>3. LockInv'
    BY <2>1 DEF Moves, LockInv, LockOwner, Critical, InState, terraform
  <2>4. DeleteInv'
    BY <2>1 DEF Moves, DeleteInv, Named, terraform
  <2>5. AccountInv'
    <3>1. \A s \in Resource : Accountable(s) => Accountable(s)'
      BY <2>1 DEF Moves, Accountable
    <3>2. Made' = Made
      BY <2>1 DEF Made
    <3> QED BY <2>1, <3>1, <3>2, AccountKept DEF Moves, terraform
  <2> QED BY <2>2, <2>3, <2>4, <2>5
<1>3. CASE Lock(r)
  <2> USE <1>3 DEF Lock, Return, terraform, named
  <2>1. TypeOK'
    BY DEF CreateStep, Critical
  <2>2. LockInv'
    BY DEF LockInv, LockOwner, Critical, InState
  <2>3. DeleteInv'
    BY DEF DeleteInv, Named
  <2>4. AccountInv'
    BY DEF AccountInv, NetworksAccounted
  <2> QED BY <2>1, <2>2, <2>3, <2>4
<1>4. CASE Unlock(r)
  <2> USE <1>4 DEF Unlock, Return, terraform, named
  <2>1. TypeOK'
    BY DEF CreateStep
  <2>2. LockInv'
    BY DEF LockInv, LockOwner, Critical, InState
  <2>3. DeleteInv'
    BY DEF DeleteInv, Named
  <2>4. AccountInv'
    BY DEF AccountInv, NetworksAccounted
  <2> QED BY <2>1, <2>2, <2>3, <2>4
<1> QED BY <1>1, <1>2, <1>3, <1>4 DEF CreateNext, Working

LEMMA DeletePreserves ==
  ASSUME IInv, NEW r \in Resource, DeleteNext(r)
  PROVE  IInv'
<1> USE DEF IInv, TypeOK
<1>1. /\ Moves(r, DeleteStep, DeleteStep \cup {"broken", "destroyed"})
      /\ UNCHANGED mu
      /\ instances' \subseteq instances
      /\ Past(r)
  BY DeleteDoes
<1>2. /\ Sheds
      /\ subnetworks' \subseteq networks' /\ firewalls' \subseteq networks'
      /\ Default \in networks' \cap subnetworks'
      /\ pc'[r] = "destroyed" => Gone(r)
  BY DeleteSheds
<1>3. TypeOK'
  BY <1>1, <1>2 DEF Moves, Sheds, Settled, terraform
<1>4. LockInv'
  <2>1. r # mu /\ r \notin known
    BY <1>1 DEF Moves, LockInv, LockOwner, InState, DeleteStep, Critical
  <2> QED BY <1>1, <2>1 DEF Moves, LockInv, LockOwner, InState, DeleteStep, Critical, terraform
<1>5. DeleteInv'
  BY <1>1 DEF Moves, Past, DeleteInv, Named, terraform
<1>6. AccountInv'
  <2>1. SUFFICES ASSUME ~IgnoreErrors, updates = 0, NEW n \in Made'
                 PROVE  \E s \in Resource : VpcName[s] = n /\ Accountable(s)'
    BY <1>1 DEF Moves, AccountInv, NetworksAccounted, Made, Accountable, terraform
  <2>2. n \in Made
    BY <1>2 DEF Sheds, Made
  <2>3. PICK s \in Resource : VpcName[s] = n /\ Accountable(s)
    BY <2>1, <2>2 DEF AccountInv, NetworksAccounted, Made, Accountable
  <2>4. CASE s # r
    BY <1>1, <2>3, <2>4 DEF Moves, Accountable
  <2>5. CASE s = r
    <3>1. vpcName[r] = n /\ n \in networks' \cup subnetworks' \cup firewalls' /\ n # Default
      BY <2>1, <2>3, <2>5 DEF AccountInv, Made
    <3>2. pc'[r] # "destroyed"
      BY <1>2, <2>1, <3>1 DEF Gone
    <3> QED BY <1>1, <2>3, <2>5, <3>2 DEF Moves, Accountable, DeleteStep
  <2> QED BY <2>4, <2>5
<1> QED BY <1>3, <1>4, <1>5, <1>6

LEMMA EndRunPreserves ==
  ASSUME IInv, EndRun, faults' \in Nat, kills' \in Nat
  PROVE  IInv'
<1> USE DEF IInv, TypeOK
<1>1. /\ pc' \in [Resource -> Settled]
      /\ \A r \in Resource :
           pc'[r] = IF Creating(r) THEN "lost" ELSE IF Deleting(r) THEN "broken" ELSE pc[r]
      /\ mu' = None
      /\ known' \subseteq Resource
      /\ \A r \in known' : pc'[r] \in {"created", "broken"}
      /\ UNCHANGED <<vpcName, updates, instances, networks, subnetworks, firewalls>>
  BY EndRunDoes
<1>2. TypeOK'
  BY <1>1
<1>3. LockInv'
  BY <1>1 DEF LockInv, LockOwner, InState, Settled, Critical
<1>4. DeleteInv'
  BY <1>1 DEF DeleteInv, Named, Settled
<1>5. AccountInv'
  <2>1. \A s \in Resource : Accountable(s) => Accountable(s)'
    BY <1>1 DEF Accountable
  <2>2. Made' = Made
    BY <1>1 DEF Made
  <2> QED BY <1>1, <2>1, <2>2, AccountKept
<1> QED BY <1>2, <1>3, <1>4, <1>5

LEMMA IInvStep == IInv /\ [Next]_vars => IInv'
<1> SUFFICES ASSUME IInv, [Next]_vars PROVE IInv'
  OBVIOUS
<1> USE DEF IInv, TypeOK
<1>1. ASSUME NEW r \in Resource, Create(r) PROVE IInv'
  <2> USE <1>1 DEF Create, Return, terraform, named
  <2>1. TypeOK'
    BY DEF CreateStep
  <2>2. LockInv'
    BY DEF LockInv, LockOwner, InState, Critical
  <2>3. DeleteInv'
    BY DEF DeleteInv, Named
  <2>4. AccountInv'
    BY DEF AccountInv, NetworksAccounted
  <2> QED BY <2>1, <2>2, <2>3, <2>4
<1>2. ASSUME NEW r \in Resource, CreateNext(r) PROVE IInv'
  BY <1>2, CreatePreserves
<1>3. ASSUME NEW r \in Resource, Delete(r) PROVE IInv'
  <2> USE <1>3 DEF Delete, InState, Return, named
  <2>1. TypeOK'
    BY DEF DeleteStep
  <2>2. LockInv'
    BY DEF LockInv, LockOwner, Critical
  <2>3. DeleteInv'
    BY DEF DeleteInv, Named
  <2>4. AccountInv'
    BY DEF AccountInv, NetworksAccounted
  <2> QED BY <2>1, <2>2, <2>3, <2>4
<1>4. ASSUME NEW r \in Resource, Update(r) PROVE IInv'
  <2> USE <1>4 DEF Update, named
  <2>1. TypeOK'
    OBVIOUS
  <2>2. LockInv'
    BY DEF LockInv, LockOwner, InState
  <2>3. DeleteInv'
    BY DEF DeleteInv, Named, InState
  <2>4. AccountInv'
    BY DEF AccountInv, NetworksAccounted
  <2> QED BY <2>1, <2>2, <2>3, <2>4
<1>5. ASSUME NEW r \in Resource, DeleteNext(r) PROVE IInv'
  BY <1>5, DeletePreserves
<1>6. ASSUME NEW r \in Resource, Panic(r) PROVE IInv'
  BY <1>6, EndRunPreserves DEF Panic
<1>7. CASE NewRun \/ Interrupt \/ Kill
  BY <1>7, EndRunPreserves DEF NewRun, Interrupt, Kill
<1>8. CASE UNCHANGED vars
  BY <1>8 DEF vars, LockInv, LockOwner, InState, DeleteInv, AccountInv, NetworksAccounted
<1> QED BY <1>1, <1>2, <1>3, <1>4, <1>5, <1>6, <1>7, <1>8 DEF Next

LEMMA Invariant == Spec => []IInv
BY IInvInit, IInvStep, PTL DEF Spec

-----------------------------------------------------------------------------
\* Every variable keeps its type; a subnetwork and a firewall rule lie in a
\* network that exists, and the default network is never removed.
THEOREM TypeCorrect == Spec => []TypeOK
<1>1. IInv => TypeOK
  BY DEF IInv
<1> QED BY <1>1, Invariant, PTL

\* Whoever works on the networks holds infraMu, which else only a Create that
\* failed there still holds (CreateInfrastructure).
THEOREM LockOwned == Spec => []LockOwner
<1>1. IInv => LockOwner
  BY DEF IInv, LockInv
<1> QED BY <1>1, Invariant, PTL

\* Nothing that bears the name of a network outlives the last resource of that
\* name, however Creates and Deletes interleave (DeleteInfrastructure).
THEOREM NetworksNotOrphaned == Spec => []NetworksAccounted
<1>1. IInv => NetworksAccounted
  BY DEF IInv, AccountInv
<1> QED BY <1>1, Invariant, PTL

LEMMA CutOffStep ==
  IInv /\ [Next]_vars =>
    \A r \in Resource : pc[r] = "created" /\ Reachable(r) /\ ~Reachable(r)' =>
      \E s \in Resource \ {r} : pc[s] = "dFirewall" /\ vpcName[s] = VpcName[r]
<1> SUFFICES ASSUME IInv, [Next]_vars, NEW r \in Resource,
                    pc[r] = "created", Reachable(r), ~Reachable(r)'
             PROVE  \E s \in Resource \ {r} : pc[s] = "dFirewall" /\ vpcName[s] = VpcName[r]
  OBVIOUS
<1> USE DEF IInv, Reachable
<1>1. CASE UNCHANGED <<instances, firewalls>>
  BY <1>1
<1>2. ASSUME NEW s \in Resource, CreateNext(s) PROVE FALSE
  <2>1. CASE Working(s)
    BY <2>1, WorkingDoes DEF Grows
  <2>2. CASE BulkInsert(s) \/ WaitUntilReady(s)
    BY <2>2, LaunchDoes
  <2>3. CASE Lock(s) \/ Unlock(s)
    BY <1>1, <2>3 DEF Lock, Unlock, named
  <2> QED BY <1>2, <2>1, <2>2, <2>3 DEF CreateNext, Working
<1>3. ASSUME NEW s \in Resource, DeleteNext(s)
      PROVE  s # r /\ pc[s] = "dFirewall" /\ vpcName[s] = VpcName[r]
  <2>1. /\ pc[s] \in DeleteStep
        /\ instances' = instances \/ (instances' = instances \ {s} /\ pc[s] = "dInstances")
    BY <1>3, DeleteDoes DEF Moves
  <2>2. s # r
    BY <2>1 DEF DeleteStep
  <2>3. r \in instances'
    BY <2>1, <2>2
  <2>4. firewalls' # firewalls => pc[s] = "dFirewall" /\ firewalls' = firewalls \ {vpcName[s]}
    BY <1>3, DeleteSheds
  <2> QED BY <2>2, <2>3, <2>4
<1>4. CASE EndRun
  BY <1>1, <1>4, EndRunDoes
<1>5. ASSUME NEW s \in Resource, Create(s) \/ Delete(s) \/ Update(s) PROVE FALSE
  BY <1>1, <1>5 DEF Create, Delete, Update, named
<1>6. ASSUME NEW s \in Resource, Panic(s) PROVE EndRun
  BY <1>6 DEF Panic
<1>7. CASE NewRun \/ Interrupt \/ Kill
  BY <1>4, <1>7 DEF NewRun, Interrupt, Kill
<1>8. CASE UNCHANGED vars
  BY <1>1, <1>8 DEF vars
<1> QED BY <1>2, <1>3, <1>4, <1>5, <1>6, <1>7, <1>8 DEF Next

\* A destroy cuts off the instances of another created resource in one way
\* only: it deletes the firewall rule of the network they share.
THEOREM OthersStayReachable == Spec => CutOffOnlyByFirewall
BY Invariant, CutOffStep, PTL DEF Spec, CutOffOnlyByFirewall

-----------------------------------------------------------------------------
(* The refinement: the phase of a resource follows from its step, and its  *)
(* footprint are its instances.                                            *)

PhaseOf(step) ==
  IF step \in CreateStep THEN "creating"
  ELSE IF step \in DeleteStep THEN "deleting"
  ELSE IF step = "created" THEN "ready" ELSE step

LEMMA PhaseIs == Phase = [r \in Resource |-> PhaseOf(pc[r])]
BY DEF Phase, PhaseOf, Creating, Deleting

LEMMA PhaseMoves ==
  ASSUME TypeOK, NEW r \in Resource, NEW n, pc' = [pc EXCEPT ![r] = n]
  PROVE  Phase' = [Phase EXCEPT ![r] = PhaseOf(n)]
<1>1. Phase' = [s \in Resource |-> PhaseOf(pc'[s])]
  BY DEF Phase, PhaseOf, Creating, Deleting
<1> QED BY <1>1, PhaseIs DEF TypeOK

LEMMA PhaseValues ==
  /\ \A n \in CreateStep : PhaseOf(n) = "creating"
  /\ \A n \in DeleteStep : PhaseOf(n) = "deleting"
  /\ PhaseOf("created") = "ready"
  /\ \A n \in {"absent", "broken", "destroyed", "lost"} : PhaseOf(n) = n
BY DEF PhaseOf, CreateStep, DeleteStep, Critical

LEMMA LifeStep ==
  IInv /\ [Next]_vars => [Lifecycle!LifecycleNext]_(Lifecycle!lifecycleVars)
<1> DEFINE Goal == [Lifecycle!LifecycleNext]_(Lifecycle!lifecycleVars)
<1> SUFFICES ASSUME IInv, [Next]_vars PROVE Goal
  OBVIOUS
<1> USE DEF IInv
<1>0. ASSUME Phase' = Phase, instances' = instances PROVE Goal
  BY <1>0 DEF Lifecycle!lifecycleVars
<1>1. ASSUME NEW r \in Resource, Create(r) PROVE Goal
  <2>1. pc[r] = "absent" /\ pc' = [pc EXCEPT ![r] = "lock"] /\ UNCHANGED instances
    BY <1>1 DEF Create, Return
  <2>2. Phase[r] = "absent" /\ Phase' = [Phase EXCEPT ![r] = "creating"]
    <3>1. PhaseOf("lock") = "creating"
      BY PhaseValues DEF CreateStep
    <3>2. Phase' = [Phase EXCEPT ![r] = PhaseOf("lock")]
      BY <2>1, PhaseMoves
    <3> QED BY <2>1, <3>1, <3>2, PhaseIs, PhaseValues
  <2>3. Lifecycle!BeginCreate(r)
    BY <2>1, <2>2 DEF Lifecycle!BeginCreate, Lifecycle!Move
  <2> QED BY <2>3 DEF Lifecycle!LifecycleNext
<1>2. ASSUME NEW r \in Resource, NEW n \in CreateStep \cup {"created", "broken"},
             pc[r] \in CreateStep, pc' = [pc EXCEPT ![r] = n],
             instances' = instances \/ (instances' = instances \cup {r} /\ n # "created")
      PROVE  Goal
  <2>1. /\ Phase[r] = "creating"
        /\ Phase' = [Phase EXCEPT ![r] = PhaseOf(n)]
    BY <1>2, PhaseIs, PhaseMoves, PhaseValues
  <2>2. CASE instances' = instances
    <3>1. CASE n \in CreateStep
      BY <1>0, <2>1, <2>2, <3>1, PhaseIs, PhaseValues
    <3>2. CASE n \in {"created", "broken"}
      <4>1. Lifecycle!EndCreate(r)
        BY <2>1, <2>2, <3>2, PhaseValues DEF Lifecycle!EndCreate, Lifecycle!Move
      <4> QED BY <4>1 DEF Lifecycle!LifecycleNext
    <3> QED BY <3>1, <3>2
  <2>3. CASE instances' = instances \cup {r} /\ n # "created"
    <3>1. Phase' = Phase \/ Phase' = [Phase EXCEPT ![r] = "broken"]
      BY <2>1, <2>3, PhaseIs, PhaseValues
    <3>2. Lifecycle!Grow(r)
      BY <2>1, <2>3, <3>1 DEF Lifecycle!Grow
    <3> QED BY <3>2 DEF Lifecycle!LifecycleNext
  <2> QED BY <1>2, <2>2, <2>3
<1>3. ASSUME NEW r \in Resource, CreateNext(r) PROVE Goal
  <2>1. CASE Working(r)
    <3>1. Moves(r, Critical \ {"unlock"}, (Critical \ {"key"}) \cup {"broken"})
          /\ UNCHANGED instances
      BY <2>1, WorkingDoes
    <3> QED BY <1>2, <3>1 DEF Moves, CreateStep
  <2>2. CASE BulkInsert(r) \/ WaitUntilReady(r)
    <3>1. /\ Moves(r, {"insert", "wait"}, {"wait", "created", "broken"})
          /\ UNCHANGED instances \/ (instances' = instances \cup {r} /\ pc'[r] # "created")
      BY <2>2, LaunchDoes
    <3> QED BY <1>2, <3>1 DEF Moves, CreateStep, TypeOK
  <2>3. CASE Lock(r) \/ Unlock(r)
    BY <1>2, <2>3 DEF Lock, Unlock, Return, CreateStep, Critical
  <2> QED BY <1>3, <2>1, <2>2, <2>3 DEF CreateNext, Working
<1>4. ASSUME NEW r \in Resource, Delete(r) PROVE Goal
  <2>1. pc[r] \in {"created", "broken"} /\ pc' = [pc EXCEPT ![r] = "dList"]
        /\ UNCHANGED instances
    BY <1>4 DEF Delete, InState, Return
  <2>2. Phase[r] \in {"ready", "broken"} /\ Phase' = [Phase EXCEPT ![r] = "deleting"]
    <3>1. PhaseOf("dList") = "deleting"
      BY PhaseValues DEF DeleteStep
    <3>2. Phase' = [Phase EXCEPT ![r] = PhaseOf("dList")]
      BY <2>1, PhaseMoves
    <3> QED BY <2>1, <3>1, <3>2, PhaseIs, PhaseValues
  <2>3. Lifecycle!BeginDelete(r)
    BY <2>1, <2>2 DEF Lifecycle!BeginDelete, Lifecycle!Move
  <2> QED BY <2>3 DEF Lifecycle!LifecycleNext
<1>5. ASSUME NEW r \in Resource, Update(r) PROVE Goal
  <2>1. UNCHANGED <<pc, instances>>
    BY <1>5 DEF Update
  <2> QED BY <1>0, <2>1 DEF Phase, Creating, Deleting
<1>6. ASSUME NEW r \in Resource, DeleteNext(r) PROVE Goal
  <2>1. /\ Moves(r, DeleteStep, DeleteStep \cup {"broken", "destroyed"})
        /\ instances' = instances \/ instances' = instances \ {r}
        /\ Past(r)
    BY <1>6, DeleteDoes
  <2>2. PICK n \in DeleteStep \cup {"broken", "destroyed"} : pc' = [pc EXCEPT ![r] = n]
    BY <2>1 DEF Moves
  <2>3. /\ Phase[r] = "deleting"
        /\ Phase' = [Phase EXCEPT ![r] = PhaseOf(n)]
        /\ n \in DeleteStep => Phase' = Phase
    <3>1. Phase[r] = "deleting"
      BY <2>1, PhaseIs, PhaseValues DEF Moves
    <3>2. Phase' = [Phase EXCEPT ![r] = PhaseOf(n)]
      BY <2>2, PhaseMoves
    <3> QED BY <3>1, <3>2, PhaseIs, PhaseValues
  <2>4. n = "destroyed" => IgnoreErrors \/ r \notin instances'
    BY <2>1, <2>2 DEF Past, TypeOK
  <2>5. CASE instances' = instances
    <3>1. CASE n \in DeleteStep
      BY <1>0, <2>3, <2>5, <3>1
    <3>2. CASE n = "broken"
      <4>1. Lifecycle!FailDelete(r)
        BY <2>3, <2>5, <3>2, PhaseValues DEF Lifecycle!FailDelete, Lifecycle!Move
      <4> QED BY <4>1 DEF Lifecycle!LifecycleNext
    <3>3. CASE n = "destroyed"
      <4>1. Lifecycle!EndDelete(r)
        BY <2>3, <2>4, <2>5, <3>3, PhaseValues DEF Lifecycle!EndDelete, Lifecycle!Move
      <4> QED BY <4>1 DEF Lifecycle!LifecycleNext
    <3> QED BY <3>1, <3>2, <3>3
  <2>6. CASE instances' = instances \ {r}
    <3>1. Lifecycle!Shrink(r)
      BY <2>3, <2>6, PhaseValues DEF Lifecycle!Shrink, Lifecycle!Move
    <3> QED BY <3>1 DEF Lifecycle!LifecycleNext
  <2> QED BY <2>1, <2>5, <2>6
<1>7. ASSUME EndRun PROVE Goal
  <2>1. /\ \A r \in Resource :
             pc'[r] = IF Creating(r) THEN "lost" ELSE IF Deleting(r) THEN "broken" ELSE pc[r]
        /\ UNCHANGED instances
    BY <1>7, EndRunDoes
  <2>2. Phase' = [r \in Resource |-> PhaseOf(pc'[r])]
    BY DEF Phase, PhaseOf, Creating, Deleting
  <2>3. ASSUME NEW r \in Resource
        PROVE  Phase'[r] = IF Phase[r] = "creating" THEN "lost"
                           ELSE IF Phase[r] = "deleting" THEN "broken" ELSE Phase[r]
    <3>1. Phase[r] = PhaseOf(pc[r]) /\ Phase'[r] = PhaseOf(pc'[r])
      BY <2>2, PhaseIs
    <3>2. CASE pc[r] \in CreateStep
      BY <2>1, <3>1, <3>2, PhaseValues DEF Creating
    <3>3. CASE pc[r] \in DeleteStep \ CreateStep
      BY <2>1, <3>1, <3>3, PhaseValues DEF Creating, Deleting
    <3>4. CASE pc[r] \notin CreateStep \cup DeleteStep
      BY <2>1, <3>1, <3>4, PhaseValues DEF Creating, Deleting, TypeOK, Settled
    <3> QED BY <3>2, <3>3, <3>4
  <2>4. Lifecycle!Crash(Resource)
    BY <2>1, <2>2, <2>3 DEF Lifecycle!Crash
  <2> QED BY <2>4 DEF Lifecycle!LifecycleNext
<1>8. ASSUME NEW r \in Resource, Panic(r) PROVE Goal
  BY <1>7, <1>8 DEF Panic
<1>9. CASE NewRun \/ Interrupt \/ Kill
  BY <1>7, <1>9 DEF NewRun, Interrupt, Kill
<1>10. CASE UNCHANGED vars
  BY <1>0, <1>10 DEF vars, Phase, Creating, Deleting
<1> QED BY <1>1, <1>3, <1>4, <1>5, <1>6, <1>8, <1>9, <1>10 DEF Next

\* The Google Cloud backend implements the life cycle of resources: instances
\* appear only while a Create runs, disappear only through a Delete, and a
\* Delete that succeeds leaves none, unless errors are ignored.
THEOREM GcpImplementsLifecycle == Spec => ImplementsLifecycle
<1>1. Init => Lifecycle!LifecycleInit
  BY DEF Init, Lifecycle!LifecycleInit, Phase, Creating, Deleting, CreateStep, Critical,
         DeleteStep
<1> QED
  BY <1>1, Invariant, LifeStep, PTL DEF Spec, ImplementsLifecycle, Lifecycle!LifecycleSpec

-----------------------------------------------------------------------------
(* What the life cycle promises holds for the instances.                   *)

Promise == Lifecycle!DestroyedIsGone /\ Lifecycle!FootprintAccounted

LEMMA LifeType == TypeOK => Lifecycle!LifecycleTypeOK
<1> SUFFICES ASSUME TypeOK PROVE Lifecycle!LifecycleTypeOK
  OBVIOUS
<1>1. ASSUME NEW r \in Resource PROVE PhaseOf(pc[r]) \in Lifecycle!Phase
  BY DEF TypeOK, PhaseOf, Settled, Lifecycle!Phase
<1> QED BY <1>1, PhaseIs DEF TypeOK, Lifecycle!LifecycleTypeOK

LEMMA PromiseStep ==
  Lifecycle!LifecycleTypeOK /\ Lifecycle!LifecycleTypeOK' /\ Promise
    /\ [Lifecycle!LifecycleNext]_(Lifecycle!lifecycleVars) => Promise'
<1> SUFFICES ASSUME Lifecycle!LifecycleTypeOK, Lifecycle!LifecycleTypeOK', Promise,
                    [Lifecycle!LifecycleNext]_(Lifecycle!lifecycleVars),
                    NEW r \in Resource
             PROVE  r \in instances' => Phase'[r] # "absent" /\ (Phase'[r] = "destroyed" => IgnoreErrors)
  BY DEF Promise, Lifecycle!DestroyedIsGone, Lifecycle!FootprintAccounted,
         Lifecycle!LifecycleTypeOK
<1>0. r \in instances => Phase[r] # "absent" /\ (Phase[r] = "destroyed" => IgnoreErrors)
  BY DEF Promise, Lifecycle!FootprintAccounted
<1>1. Phase \in [Resource -> Lifecycle!Phase] /\ instances \subseteq Resource
  BY DEF Lifecycle!LifecycleTypeOK
<1>2. ASSUME NEW s \in Resource,
             Lifecycle!BeginCreate(s) \/ Lifecycle!EndCreate(s)
               \/ Lifecycle!BeginDelete(s) \/ Lifecycle!FailDelete(s)
      PROVE  r \in instances' => Phase'[r] # "absent" /\ (Phase'[r] = "destroyed" => IgnoreErrors)
  <2>1. /\ instances' = instances
        /\ \E n \in {"creating", "ready", "broken", "deleting"} :
             Phase' = [Phase EXCEPT ![s] = n]
    BY <1>2 DEF Lifecycle!BeginCreate, Lifecycle!EndCreate, Lifecycle!BeginDelete,
                Lifecycle!FailDelete, Lifecycle!Move
  <2> QED BY <1>0, <1>1, <2>1
<1>3. ASSUME NEW s \in Resource, Lifecycle!Grow(s)
      PROVE  r \in instances' => Phase'[r] # "absent" /\ (Phase'[r] = "destroyed" => IgnoreErrors)
  <2>1. /\ Phase[s] = "creating" /\ instances' = instances \cup {s}
        /\ Phase' = Phase \/ Phase' = [Phase EXCEPT ![s] = "broken"]
    BY <1>3 DEF Lifecycle!Grow
  <2> QED BY <1>0, <1>1, <2>1
<1>4. ASSUME NEW s \in Resource, Lifecycle!Shrink(s)
      PROVE  r \in instances' => Phase'[r] # "absent" /\ (Phase'[r] = "destroyed" => IgnoreErrors)
  <2>1. /\ instances' = instances \ {s}
        /\ \/ Phase' = Phase
           \/ Phase' = [Phase EXCEPT ![s] = "broken"]
           \/ Phase' = [Phase EXCEPT ![s] = "destroyed"]
    BY <1>4 DEF Lifecycle!Shrink, Lifecycle!Move
  <2> QED BY <1>0, <1>1, <2>1
<1>5. ASSUME NEW s \in Resource, Lifecycle!EndDelete(s)
      PROVE  r \in instances' => Phase'[r] # "absent" /\ (Phase'[r] = "destroyed" => IgnoreErrors)
  <2>1. /\ IgnoreErrors \/ s \notin instances
        /\ instances' = instances /\ Phase' = [Phase EXCEPT ![s] = "destroyed"]
    BY <1>5 DEF Lifecycle!EndDelete, Lifecycle!Move
  <2> QED BY <1>0, <1>1, <2>1
<1>6. ASSUME NEW S \in SUBSET Resource, Lifecycle!Crash(S)
      PROVE  r \in instances' => Phase'[r] # "absent" /\ (Phase'[r] = "destroyed" => IgnoreErrors)
  <2>1. instances' = instances /\ Phase'[r] \in {Phase[r], "lost", "broken"}
    BY <1>6 DEF Lifecycle!Crash
  <2> QED BY <1>0, <2>1
<1>7. CASE UNCHANGED Lifecycle!lifecycleVars
  BY <1>0, <1>7 DEF Lifecycle!lifecycleVars
<1> QED BY <1>2, <1>3, <1>4, <1>5, <1>6, <1>7 DEF Lifecycle!LifecycleNext

\* Instances always belong to a resource whose Create has begun and that is not
\* destroyed, unless its destroy was told to ignore errors.
THEOREM NothingUnaccounted == Spec => []Promise
<1>1. Lifecycle!LifecycleInit => Promise
  BY DEF Lifecycle!LifecycleInit, Promise, Lifecycle!DestroyedIsGone,
         Lifecycle!FootprintAccounted
<1>2. TypeOK /\ TypeOK' /\ Promise /\ [Lifecycle!LifecycleNext]_(Lifecycle!lifecycleVars) => Promise'
  <2>1. TypeOK' => Lifecycle!LifecycleTypeOK'
    BY LifeType, PTL
  <2> QED BY <2>1, LifeType, PromiseStep
<1> QED
  BY <1>1, <1>2, GcpImplementsLifecycle, TypeCorrect, PTL
     DEF ImplementsLifecycle, Lifecycle!LifecycleSpec

-----------------------------------------------------------------------------
(* Creates do not disturb each other.  As long as nothing has failed and no *)
(* destroy has begun, what a Create has found is there, and what it is     *)
(* about to make is not.                                                   *)

Quiet ==
  /\ faults = 0 /\ kills = 0
  /\ \A s \in Resource : ~Deleting(s) /\ pc[s] \notin {"broken", "destroyed"}

Sound(r) ==
  /\ pc[r] \in CreateStep \cup {"absent"} => vpcName[r] = VpcName[r]
  /\ pc[r] = "netInsert" => vpcName[r] \notin networks
  /\ pc[r] \in {"subGet", "subInsert"} => vpcName[r] \in networks
  /\ pc[r] = "subInsert" => vpcName[r] \notin subnetworks
  /\ pc[r] \in {"fwGet", "fwInsert", "unlock", "insert"} => vpcName[r] \in subnetworks
  /\ pc[r] = "fwInsert" => vpcName[r] \notin firewalls
  /\ pc[r] \in {"unlock", "insert", "wait"} => vpcName[r] \in firewalls
  /\ pc[r] = "wait" => r \in instances

QuietInv == Quiet => \A r \in Resource : Sound(r)

\* How a Create fails although no call fails: the cloud refuses it.
Refused(r) ==
  \/ pc[r] = "netInsert" /\ vpcName[r] \in networks
  \/ pc[r] = "subInsert" /\ vpcName[r] \notin networks \ subnetworks
  \/ pc[r] = "fwInsert" /\ vpcName[r] \notin networks \ firewalls
  \/ pc[r] = "insert" /\ vpcName[r] \notin subnetworks
  \/ pc[r] = "wait" /\ ~Reachable(r)

LEMMA RefusedOnly ==
  ASSUME TypeOK, NEW r \in Resource, CreateNext(r), faults' = faults, pc'[r] = "broken"
  PROVE  Refused(r)
<1> USE DEF TypeOK, Refused, Return, Fault, Fail, Get, Insert
<1>1. CASE Lock(r) \/ Unlock(r)
  BY <1>1 DEF Lock, Unlock
<1>2. CASE GetSSHPublicKey(r) \/ NetworkGet(r) \/ SubnetworkGet(r) \/ FirewallGet(r)
  BY <1>2 DEF GetSSHPublicKey, NetworkGet, SubnetworkGet, FirewallGet
<1>3. CASE NetworkInsert(r)
  BY <1>3 DEF NetworkInsert
<1>4. CASE SubnetworkInsert(r)
  BY <1>4 DEF SubnetworkInsert
<1>5. CASE FirewallInsert(r)
  BY <1>5 DEF FirewallInsert
<1>6. CASE BulkInsert(r)
  BY <1>6 DEF BulkInsert
<1>7. CASE WaitUntilReady(r)
  BY <1>7 DEF WaitUntilReady
<1> QED BY <1>1, <1>2, <1>3, <1>4, <1>5, <1>6, <1>7 DEF CreateNext

LEMMA NothingRefused ==
  ASSUME TypeOK, NEW r \in Resource, Sound(r)
  PROVE  ~Refused(r)
<1>1. ASSUME pc[r] \in {"subInsert", "fwInsert"} PROVE vpcName[r] \in networks
  BY <1>1 DEF Sound, TypeOK
<1>2. pc[r] = "wait" => Reachable(r)
  BY DEF Sound, Reachable, CreateStep
<1> QED BY <1>1, <1>2 DEF Sound, Refused

\* What a Create does that goes on.
LEMMA SoundOwn ==
  ASSUME TypeOK, NEW r \in Resource, CreateNext(r), pc'[r] # "broken", Sound(r)
  PROVE  Sound(r)'
<1> USE DEF TypeOK, Return, Fault, Fail, Get, Insert, terraform, named
<1>0. pc[r] \in CreateStep /\ vpcName' = vpcName /\ vpcName[r] = VpcName[r]
  <2>1. pc[r] \in CreateStep
    BY DEF CreateNext, Lock, GetSSHPublicKey, NetworkGet, NetworkInsert, SubnetworkGet,
           SubnetworkInsert, FirewallGet, FirewallInsert, Unlock, BulkInsert, WaitUntilReady,
           CreateStep, Critical
  <2>2. vpcName' = vpcName
    BY DEF CreateNext, Lock, GetSSHPublicKey, NetworkGet, NetworkInsert, SubnetworkGet,
           SubnetworkInsert, FirewallGet, FirewallInsert, Unlock, BulkInsert, WaitUntilReady
  <2> QED BY <2>1, <2>2 DEF Sound
<1> USE <1>0 DEF Sound
<1>1. CASE Lock(r) \/ GetSSHPublicKey(r)
  BY <1>1 DEF Lock, GetSSHPublicKey
<1>2. CASE NetworkGet(r)
  BY <1>2 DEF NetworkGet
<1>3. CASE NetworkInsert(r)
  BY <1>3 DEF NetworkInsert
<1>4. CASE SubnetworkGet(r)
  BY <1>4 DEF SubnetworkGet
<1>5. CASE SubnetworkInsert(r)
  BY <1>5 DEF SubnetworkInsert
<1>6. CASE FirewallGet(r)
  BY <1>6 DEF FirewallGet
<1>7. CASE FirewallInsert(r)
  BY <1>7 DEF FirewallInsert
<1>8. CASE Unlock(r)
  BY <1>8 DEF Unlock
<1>9. CASE BulkInsert(r)
  BY <1>9 DEF BulkInsert
<1>10. CASE WaitUntilReady(r)
  BY <1>10 DEF WaitUntilReady
<1> QED BY <1>1, <1>2, <1>3, <1>4, <1>5, <1>6, <1>7, <1>8, <1>9, <1>10 DEF CreateNext

\* What another Create does: it adds, and only with infraMu in hand.
LEMMA CreateGrows ==
  ASSUME TypeOK, NEW q \in Resource, CreateNext(q)
  PROVE  /\ pc[q] \in CreateStep
         /\ \A s \in Resource \ {q} : pc'[s] = pc[s]
         /\ UNCHANGED <<vpcName, kills>> /\ faults' \in {faults, faults + 1}
         /\ Grows /\ instances \subseteq instances'
         /\ pc[q] \in Critical \/ UNCHANGED <<networks, subnetworks, firewalls>>
<1>0. faults' \in {faults, faults + 1}
  BY DEF CreateNext, Lock, GetSSHPublicKey, NetworkGet, NetworkInsert, SubnetworkGet,
         SubnetworkInsert, FirewallGet, FirewallInsert, Unlock, BulkInsert, WaitUntilReady,
         Get, Insert, Fail, Return, Fault
<1>1. CASE Working(q)
  BY <1>0, <1>1, WorkingDoes DEF Moves, TypeOK, CreateStep, terraform
<1>2. CASE BulkInsert(q) \/ WaitUntilReady(q)
  BY <1>0, <1>2, LaunchDoes DEF Moves, TypeOK, CreateStep, Grows, terraform
<1>3. CASE Lock(q) \/ Unlock(q)
  BY <1>0, <1>3 DEF Lock, Unlock, Return, TypeOK, CreateStep, Critical, Grows, terraform, named
<1> QED BY <1>1, <1>2, <1>3 DEF CreateNext, Working

LEMMA SoundOther ==
  ASSUME TypeOK, LockInv, NEW q \in Resource, CreateNext(q), NEW r \in Resource \ {q}, Sound(r)
  PROVE  Sound(r)'
<1>1. pc'[r] = pc[r] /\ vpcName' = vpcName
  BY CreateGrows
<1>2. /\ networks \subseteq networks' /\ subnetworks \subseteq subnetworks'
      /\ firewalls \subseteq firewalls' /\ instances \subseteq instances'
  BY CreateGrows DEF Grows
<1>3. pc[r] \in Critical => UNCHANGED <<networks, subnetworks, firewalls>>
  BY CreateGrows DEF LockInv, LockOwner
<1>4. {"netInsert", "subInsert", "fwInsert"} \subseteq Critical
  BY DEF Critical
<1> QED BY <1>1, <1>2, <1>3, <1>4 DEF Sound

LEMMA DeleteEnds ==
  ASSUME TypeOK, NEW q \in Resource, DeleteNext(q)
  PROVE  /\ pc[q] \in DeleteStep
         /\ pc'[q] \in DeleteStep \cup {"broken", "destroyed"}
BY DEF TypeOK, DeleteNext, ListInstances, DeleteInstances, DeleteFirewall, DeleteSubnetwork,
       DeleteNetwork, Remove, AfterInstances, OnDeleteError, Fail, Return, Fault, DeleteStep

Goes(r) == CreateNext(r) /\ pc'[r] # "broken"

LEMMA QuietStep ==
  ASSUME IInv, [Next]_vars, Quiet'
  PROVE  /\ Quiet
         /\ \/ UNCHANGED <<pc, vpcName, instances, networks, subnetworks, firewalls>>
            \/ \E r \in Resource : Create(r) \/ Update(r) \/ Goes(r)
<1> DEFINE Goal ==
      /\ Quiet
      /\ \/ UNCHANGED <<pc, vpcName, instances, networks, subnetworks, firewalls>>
         \/ \E r \in Resource : Create(r) \/ Update(r) \/ Goes(r)
<1> SUFFICES Goal
  OBVIOUS
<1>0. /\ faults \in Nat /\ kills \in Nat /\ faults' = 0 /\ kills' = 0
      /\ pc \in [Resource -> CreateStep \cup DeleteStep \cup Settled]
  BY DEF IInv, TypeOK, Quiet
<1>1. ASSUME NEW r \in Resource, Create(r) PROVE Goal
  <2>1. UNCHANGED <<faults, kills>> /\ pc' = [pc EXCEPT ![r] = "lock"] /\ pc[r] = "absent"
    BY <1>1 DEF Create, Return, terraform
  <2>2. \A s \in Resource : pc[s] \in DeleteStep \cup {"broken", "destroyed"} => pc'[s] = pc[s]
    BY <1>0, <2>1 DEF DeleteStep
  <2> QED BY <1>1, <2>1, <2>2 DEF Quiet, Deleting
<1>2. ASSUME NEW r \in Resource, CreateNext(r) PROVE Goal
  <2>1. faults = 0 /\ kills = 0
    BY <1>0, <1>2, CreateGrows DEF IInv
  <2>2. \A s \in Resource \ {r} : pc'[s] = pc[s]
    BY <1>2, CreateGrows DEF IInv
  <2>3. pc[r] \notin DeleteStep \cup {"broken", "destroyed"}
    BY <1>2, CreateGrows DEF IInv, CreateStep, Critical, DeleteStep
  <2>4. Quiet
    BY <2>1, <2>2, <2>3 DEF Quiet, Deleting
  <2>5. pc'[r] # "broken"
    BY DEF Quiet
  <2> QED BY <1>2, <2>4, <2>5 DEF Goes
<1>3. ASSUME NEW r \in Resource, Delete(r) PROVE Goal
  <2>1. pc'[r] = "dList"
    BY <1>0, <1>3 DEF Delete, Return
  <2> QED BY <2>1 DEF Quiet, Deleting, DeleteStep
<1>4. ASSUME NEW r \in Resource, DeleteNext(r) PROVE Goal
  <2>1. pc[r] \in DeleteStep /\ \E n \in DeleteStep \cup {"broken", "destroyed"} : pc'[r] = n
    BY <1>0, <1>4, DeleteEnds DEF IInv
  <2> QED BY <2>1 DEF Quiet, Deleting
<1>5. ASSUME NEW r \in Resource, Update(r) PROVE Goal
  BY <1>5 DEF Update, Quiet, Deleting
<1>6. ASSUME NEW r \in Resource, Panic(r) PROVE Goal
  BY <1>0, <1>6 DEF Panic
<1>7. CASE NewRun
  <2>1. pc' = pc
    BY <1>0, <1>7, EndRunDoes DEF NewRun, Busy, InFlight, EndRun, IInv
  <2>2. UNCHANGED <<vpcName, instances, networks, subnetworks, firewalls, faults, kills>>
    BY <1>7, EndRunDoes DEF NewRun, IInv
  <2> QED BY <2>1, <2>2 DEF Quiet, Deleting
<1>8. CASE Interrupt
  <2>1. mu # None /\ pc[mu] \notin Critical
    BY <1>8 DEF Interrupt, Hung, Leaked
  <2>2. mu \in Resource /\ pc[mu] = "broken"
    BY <2>1 DEF IInv, TypeOK, LockInv, LockOwner
  <2>3. pc'[mu] = "broken"
    BY <1>8, <2>2, EndRunDoes
    DEF Interrupt, IInv, Creating, Deleting, CreateStep, Critical, DeleteStep
  <2> QED BY <2>2, <2>3 DEF Quiet
<1>9. CASE Kill
  BY <1>0, <1>9 DEF Kill
<1>10. CASE UNCHANGED vars
  BY <1>10 DEF vars, Quiet, Deleting
<1> QED BY <1>1, <1>2, <1>3, <1>4, <1>5, <1>6, <1>7, <1>8, <1>9, <1>10 DEF Next

LEMMA QuietInductive == IInv /\ QuietInv /\ [Next]_vars => QuietInv'
<1> SUFFICES ASSUME IInv, QuietInv, [Next]_vars, Quiet', NEW r \in Resource
             PROVE  Sound(r)'
  BY DEF QuietInv
<1>1. Sound(r)
  BY QuietStep DEF QuietInv
<1>2. CASE UNCHANGED <<pc, vpcName, instances, networks, subnetworks, firewalls>>
  BY <1>1, <1>2 DEF Sound
<1>3. ASSUME NEW q \in Resource, Create(q) PROVE Sound(r)'
  <2>1. /\ UNCHANGED <<vpcName, instances, networks, subnetworks, firewalls>>
        /\ pc'[r] = pc[r] \/ (pc[r] = "absent" /\ pc'[r] = "lock")
    BY <1>3 DEF Create, Return, terraform, named, IInv, TypeOK
  <2> QED BY <1>1, <2>1 DEF Sound
<1>4. ASSUME NEW q \in Resource, Update(q) PROVE Sound(r)'
  <2>1. /\ UNCHANGED <<pc, instances, networks, subnetworks, firewalls>>
        /\ vpcName'[r] = vpcName[r] \/ pc[r] \in {"created", "broken"}
    BY <1>4 DEF Update, InState, named, IInv, TypeOK
  <2>2. {"created", "broken"} \cap (CreateStep \cup {"absent"}) = {}
    BY DEF CreateStep, Critical
  <2> QED BY <1>1, <2>1, <2>2 DEF Sound
<1>5. ASSUME NEW q \in Resource, Goes(q) PROVE Sound(r)'
  BY <1>1, <1>5, SoundOwn, SoundOther DEF Goes, IInv
<1> QED BY <1>2, <1>3, <1>4, <1>5, QuietStep

Disturbed(r) ==
  /\ Creating(r) /\ pc'[r] = "broken"
  /\ ~(faults' > 0) /\ ~(kills > 0)
  /\ ~ \E s \in Resource : Deleting(s) \/ pc[s] \in {"broken", "destroyed"}

LEMMA DisturbStep ==
  ASSUME IInv, IInv', QuietInv, [Next]_vars, NEW r \in Resource
  PROVE  ~Disturbed(r)
<1> SUFFICES ASSUME Disturbed(r) PROVE FALSE
  OBVIOUS
<1> USE DEF Disturbed
<1>0. pc[r] \in CreateStep /\ pc[r] # "broken"
  BY DEF Creating, CreateStep, Critical
<1>1. \A s \in Resource : ~Deleting(s) /\ pc[s] \notin {"broken", "destroyed"}
  OBVIOUS
<1>2. faults' = 0 /\ kills = 0 /\ faults \in Nat
  BY DEF IInv, TypeOK
<1>3. ASSUME NEW q \in Resource, Create(q) \/ Delete(q) PROVE FALSE
  <2>1. \/ pc' = [pc EXCEPT ![q] = "lock"]
        \/ pc' = [pc EXCEPT ![q] = "dList"]
    BY <1>3 DEF Create, Delete, Return
  <2> QED BY <1>0, <2>1 DEF IInv, TypeOK
<1>4. ASSUME NEW q \in Resource, CreateNext(q) PROVE FALSE
  <2>1. q = r
    BY <1>0, <1>4, CreateGrows DEF IInv
  <2>2. faults = 0 /\ faults' = faults
    BY <1>2, <1>4, CreateGrows DEF IInv
  <2>3. Refused(r)
    BY <1>4, <2>1, <2>2, RefusedOnly DEF IInv
  <2>4. Sound(r)
    BY <1>1, <1>2, <2>2 DEF Quiet, QuietInv
  <2> QED BY <2>3, <2>4, NothingRefused DEF IInv
<1>5. ASSUME NEW q \in Resource, DeleteNext(q) PROVE FALSE
  BY <1>1, <1>5, DeleteEnds DEF Deleting, IInv
<1>6. ASSUME NEW q \in Resource, Update(q) PROVE FALSE
  BY <1>0, <1>6 DEF Update
<1>7. CASE EndRun
  BY <1>7, EndRunDoes DEF IInv
<1>8. ASSUME NEW q \in Resource, Panic(q) PROVE FALSE
  BY <1>7, <1>8 DEF Panic
<1>9. CASE NewRun \/ Interrupt \/ Kill
  BY <1>7, <1>9 DEF NewRun, Interrupt, Kill
<1>10. CASE UNCHANGED vars
  BY <1>0, <1>10 DEF vars
<1> QED BY <1>3, <1>4, <1>5, <1>6, <1>8, <1>9, <1>10 DEF Next

\* However many Creates share networks: as long as no call fails, nothing is
\* killed and no destroy has begun, none of them fails (CreateInfrastructure).
THEOREM CreatesAgree == Spec => CreatesDoNotDisturb
<1>1. Init => QuietInv
  BY DEF Init, QuietInv, Sound
<1>2. IInv /\ IInv' /\ QuietInv /\ [Next]_vars =>
        [\A r \in Resource : Creating(r) /\ pc'[r] = "broken" =>
           \/ faults' > 0 \/ kills > 0
           \/ \E s \in Resource : Deleting(s) \/ pc[s] \in {"broken", "destroyed"}]_vars
  BY DisturbStep DEF Disturbed
<1> QED BY <1>1, <1>2, Invariant, QuietInductive, PTL DEF Spec, CreatesDoNotDisturb

-----------------------------------------------------------------------------
(* How operations end that do not end themselves: how Terraform loses a      *)
(* resource, and what a Delete that ignores errors stops at.               *)

\* Before its Create inserts them a resource has no instances.
FreshInv ==
  \A r \in Resource : pc[r] \in {"absent", "lock", "insert"} \cup Critical => r \notin instances

LEMMA FreshInductive == IInv /\ FreshInv /\ [Next]_vars => FreshInv'
<1> SUFFICES ASSUME IInv, FreshInv, [Next]_vars PROVE FreshInv'
  OBVIOUS
<1> USE DEF IInv, TypeOK, FreshInv
<1>0. ASSUME instances' \subseteq instances,
             \A r \in Resource : pc'[r] # pc[r] /\ r \in instances' =>
               pc'[r] \notin {"absent", "lock", "insert"} \cup Critical
      PROVE  FreshInv'
  BY <1>0
<1>1. ASSUME NEW q \in Resource, Create(q) \/ Delete(q) PROVE FreshInv'
  <2>1. /\ instances' = instances
        /\ \/ pc[q] = "absent" /\ pc' = [pc EXCEPT ![q] = "lock"]
           \/ pc' = [pc EXCEPT ![q] = "dList"]
    BY <1>1 DEF Create, Delete, Return
  <2> QED BY <2>1 DEF Critical
<1>2. ASSUME NEW q \in Resource, Working(q) PROVE FreshInv'
  BY <1>2, WorkingDoes DEF Moves, Critical
<1>3. ASSUME NEW q \in Resource, BulkInsert(q) \/ WaitUntilReady(q) PROVE FreshInv'
  <2>1. CASE BulkInsert(q)
    <3>1. \/ instances' = instances \cup {q} /\ pc'[q] \in {"wait", "broken"}
          \/ instances' = instances /\ pc'[q] = "broken"
      BY <2>1 DEF BulkInsert, Insert, Fail, Return, Fault
    <3>2. \A r \in Resource \ {q} : pc'[r] = pc[r]
      BY <2>1, LaunchDoes DEF Moves
    <3> QED BY <3>1, <3>2 DEF Critical
  <2>2. CASE WaitUntilReady(q)
    BY <2>2 DEF WaitUntilReady, Fail, Return, Fault, Critical
  <2> QED BY <1>3, <2>1, <2>2
<1>4. ASSUME NEW q \in Resource, Lock(q) \/ Unlock(q) PROVE FreshInv'
  <2>1. /\ instances' = instances
        /\ \/ pc[q] = "lock" /\ pc' = [pc EXCEPT ![q] = "key"]
           \/ pc[q] = "unlock" /\ pc' = [pc EXCEPT ![q] = "insert"]
    BY <1>4 DEF Lock, Unlock, Return
  <2> QED BY <2>1 DEF Critical
<1>5. ASSUME NEW q \in Resource, DeleteNext(q) PROVE FreshInv'
  BY <1>0, <1>5, DeleteDoes DEF Moves, Critical, DeleteStep
<1>6. ASSUME NEW q \in Resource, Update(q) PROVE FreshInv'
  BY <1>6 DEF Update
<1>7. CASE EndRun
  BY <1>7, EndRunDoes, <1>0 DEF Critical, Settled
<1>8. CASE NewRun \/ Interrupt \/ Kill \/ \E q \in Resource : Panic(q)
  BY <1>7, <1>8 DEF NewRun, Interrupt, Kill, Panic
<1>9. CASE UNCHANGED vars
  BY <1>9 DEF vars
<1> QED BY <1>1, <1>2, <1>3, <1>4, <1>5, <1>6, <1>8, <1>9 DEF Next, CreateNext, Working

\* Who ends the operation of r that runs, when it is not r itself.
LEMMA RunEnds ==
  ASSUME IInv, [Next]_vars, NEW r \in Resource,
         \/ Creating(r) /\ pc'[r] = "lost"
         \/ Deleting(r) /\ pc'[r] = "broken" /\ ~DeleteNext(r)
  PROVE  \/ Kill
         \/ \E s \in Resource : Panic(s)
         \/ Interrupt /\ pc[r] = "lock"
<1>0. /\ pc[r] \in CreateStep \cup DeleteStep
      /\ pc[r] \notin {"absent", "created", "broken", "lost"}
      /\ pc'[r] \in {"lost", "broken"} /\ pc'[r] # pc[r]
      /\ Creating(r) => pc'[r] = "lost"
  BY DEF Creating, Deleting, CreateStep, Critical, DeleteStep
<1>1. ASSUME NEW q \in Resource, Create(q) \/ Delete(q) PROVE FALSE
  BY <1>0, <1>1 DEF Create, Delete, Return, IInv, TypeOK
<1>2. ASSUME NEW q \in Resource, CreateNext(q) PROVE FALSE
  <2>1. q = r /\ Creating(r)
    BY <1>0, <1>2, CreateGrows DEF IInv, Creating
  <2>2. pc'[r] # "lost"
    <3> USE DEF Critical, IInv, TypeOK
    <3>1. CASE Working(r)
      BY <3>1, WorkingDoes DEF Moves
    <3>2. CASE BulkInsert(r) \/ WaitUntilReady(r)
      BY <3>2, LaunchDoes DEF Moves
    <3>3. CASE Lock(r) \/ Unlock(r)
      BY <3>3 DEF Lock, Unlock, Return
    <3> QED BY <1>2, <2>1, <3>1, <3>2, <3>3 DEF CreateNext, Working
  <2> QED BY <1>0, <2>1, <2>2
<1>3. ASSUME NEW q \in Resource, DeleteNext(q) PROVE FALSE
  <2>1. /\ pc[q] \in DeleteStep /\ pc'[q] # "lost"
        /\ \A s \in Resource \ {q} : pc'[s] = pc[s]
    BY <1>3, DeleteDoes DEF IInv, Moves, TypeOK, DeleteStep
  <2>2. q = r
    BY <1>0, <2>1
  <2> QED BY <1>3, <2>1, <2>2
<1>4. ASSUME NEW q \in Resource, Update(q) PROVE FALSE
  BY <1>0, <1>4 DEF Update
<1>5. CASE NewRun
  BY <1>0, <1>5 DEF NewRun, Busy, InFlight, Creating, Deleting
<1>6. CASE Interrupt
  BY <1>0, <1>6 DEF Interrupt, Hung, InFlight, Creating, Deleting
<1>7. CASE UNCHANGED vars
  BY <1>0, <1>7 DEF vars
<1> QED BY <1>1, <1>2, <1>3, <1>4, <1>5, <1>6, <1>7 DEF Next

\* A Create is only lost with the process: the machine or the operator kills it,
\* or the destroy of another resource ends it while it ignores an error.  An
\* operator who interrupts a run that hangs loses no Create that has instances.
\* (cloud.go:390-415 and 559-568)
LostWithProcess ==
  [][\A r \in Resource : Creating(r) /\ pc'[r] = "lost" =>
       \/ Kill
       \/ \E s \in Resource \ {r} : Panic(s)
       \/ Interrupt /\ r \notin instances']_vars

\* Whatever fails, in any project: a Create is only lost with the process, and an
\* interrupt of a hung run leaves no instances that Terraform does not know of.
THEOREM LostOnlyWithProcess == Spec => LostWithProcess
<1>1. Init => FreshInv
  BY DEF Init, FreshInv
<1>2. IInv /\ FreshInv /\ [Next]_vars =>
        [\A r \in Resource : Creating(r) /\ pc'[r] = "lost" =>
           \/ Kill
           \/ \E s \in Resource \ {r} : Panic(s)
           \/ Interrupt /\ r \notin instances']_vars
  <2> SUFFICES ASSUME IInv, FreshInv, [Next]_vars, NEW r \in Resource, Creating(r),
                      pc'[r] = "lost"
               PROVE  \/ Kill
                      \/ \E s \in Resource \ {r} : Panic(s)
                      \/ Interrupt /\ r \notin instances'
    OBVIOUS
  <2>1. \A s \in Resource : Panic(s) => s # r
    BY DEF Panic, Creating, CreateStep, Critical
  <2>2. Interrupt /\ pc[r] = "lock" => r \notin instances'
    BY DEF Interrupt, EndRun, FreshInv
  <2> QED BY <2>1, <2>2, RunEnds
<1> QED BY <1>1, <1>2, Invariant, FreshInductive, PTL DEF Spec, LostWithProcess

LEMMA DeleteGoesOn ==
  ASSUME TypeOK, IgnoreErrors, NEW r \in Resource, DeleteNext(r), pc[r] # "dList"
  PROVE  pc'[r] # "broken"
<1> USE DEF TypeOK, Return, Fault, Fail, OnDeleteError
<1>1. ~ListInstances(r)
  BY DEF ListInstances
<1>2. CASE DeleteInstances(r)
  BY <1>2 DEF DeleteInstances, AfterInstances
<1>3. CASE DeleteFirewall(r)
  BY <1>3 DEF DeleteFirewall, Remove
<1>4. CASE DeleteSubnetwork(r)
  BY <1>4 DEF DeleteSubnetwork, Remove
<1>5. CASE DeleteNetwork(r)
  BY <1>5 DEF DeleteNetwork, Remove
<1> QED BY <1>1, <1>2, <1>3, <1>4, <1>5 DEF DeleteNext

LEMMA StoppedBy ==
  ASSUME IInv, [Next]_vars, IgnoreErrors, NEW r \in Resource,
         Deleting(r), pc[r] # "dList", pc'[r] = "broken"
  PROVE  Kill \/ \E s \in Resource : Panic(s)
<1>1. ~DeleteNext(r)
  BY DeleteGoesOn DEF IInv
<1>2. pc[r] # "lock"
  BY DEF Deleting, DeleteStep
<1> QED BY <1>1, <1>2, RunEnds

\* With ignore_errors_on_destroy, whatever fails and however many resources there
\* are, a Delete that has listed its instances only ends with an error when the
\* process ends (DeleteInfrastructure).
THEOREM IgnoredErrorsGoOn == Spec => IgnoredErrorsDoNotStop
<1>1. IInv /\ [Next]_vars =>
        [IgnoreErrors =>
           \A r \in Resource : Deleting(r) /\ pc[r] # "dList" /\ pc'[r] = "broken" =>
             Kill \/ \E s \in Resource : Panic(s)]_vars
  BY StoppedBy
<1> QED BY <1>1, Invariant, PTL DEF Spec, IgnoredErrorsDoNotStop

-----------------------------------------------------------------------------
(* What stops a destroy when no call fails.                                *)

\* Another resource that has been created, and not destroyed, asked for the
\* network that r is about.
Shared(r) == \E s \in Resource \ {r} : VpcName[s] = vpcName[r] /\ Accountable(s)

\* What the Delete of r has removed is there again.
Remade(r) ==
  \/ pc[r] \in {"dSubnetwork", "dNetwork"} /\ vpcName[r] \in firewalls
  \/ pc[r] = "dNetwork" /\ vpcName[r] \in subnetworks

\* A Delete whose calls are served is only stopped by another resource of the
\* network: it has instances there, or its Create has made again what the Delete
\* had removed.  Who made it can be told as long as no vpc_name has changed.
\* (cloud.go:584-660: what is in use is not removed)
DestroyStoppedByOthers ==
  [][~IgnoreErrors /\ UNCHANGED faults =>
       \A r \in Resource : Deleting(r) /\ pc'[r] = "broken" =>
         \/ Kill
         \/ \E s \in Resource \ {r} : s \in instances /\ VpcName[s] = vpcName[r]
         \/ pc[r] = "dNetwork" /\ Remade(r) /\ (updates = 0 => Shared(r))]_vars

RemadeInv ==
  ~IgnoreErrors /\ updates = 0 => \A r \in Resource : Remade(r) => Shared(r)

\* Other resources stay accountable, so what is left stays accounted for.
LEMMA RemadeKept ==
  ASSUME NEW r \in Resource, Remade(r) => Shared(r), Remade(r)' => Remade(r),
         UNCHANGED vpcName,
         \A s \in Resource \ {r} : Accountable(s) => Accountable(s)'
  PROVE  Remade(r)' => Shared(r)'
BY DEF Shared

LEMMA RemadeCreate ==
  ASSUME IInv, updates = 0, NEW q \in Resource, CreateNext(q),
         NEW r \in Resource, Remade(r) => Shared(r)
  PROVE  Remade(r)' => Shared(r)'
<1> USE DEF IInv, TypeOK
<1>1. /\ pc[q] \in CreateStep /\ pc'[q] \notin {"dSubnetwork", "dNetwork"} /\ Accountable(q)'
      /\ UNCHANGED vpcName /\ \A s \in Resource \ {q} : pc'[s] = pc[s]
  <2>1. CASE Working(q)
    BY <2>1, WorkingDoes DEF Moves, Critical, CreateStep, Accountable, terraform
  <2>2. CASE BulkInsert(q) \/ WaitUntilReady(q)
    BY <2>2, LaunchDoes DEF Moves, CreateStep, Accountable, terraform
  <2>3. CASE Lock(q) \/ Unlock(q)
    BY <2>3 DEF Lock, Unlock, Return, CreateStep, Critical, Accountable, terraform
  <2> QED BY <2>1, <2>2, <2>3 DEF CreateNext, Working
<1>2. \A s \in Resource : Accountable(s) => Accountable(s)'
  BY <1>1 DEF Accountable
<1>3. Adds(q)
  <2>1. CASE Working(q)
    BY <2>1, WorkingDoes
  <2>2. CASE BulkInsert(q) \/ WaitUntilReady(q)
    BY <2>2, LaunchDoes DEF Adds
  <2>3. CASE Lock(q) \/ Unlock(q)
    BY <2>3 DEF Lock, Unlock, Adds, named
  <2> QED BY <2>1, <2>2, <2>3 DEF CreateNext, Working
<1>4. CASE r = q
  BY <1>1, <1>4 DEF Remade
<1>5. CASE r # q /\ vpcName[q] = vpcName[r]
  <2>1. vpcName = VpcName
    BY DEF AccountInv
  <2> QED BY <1>1, <1>5, <2>1 DEF Shared
<1>6. CASE r # q /\ vpcName[q] # vpcName[r]
  <2>1. Remade(r)' => Remade(r)
    BY <1>1, <1>3, <1>6 DEF Remade, Adds
  <2> QED BY <1>1, <1>2, <2>1, RemadeKept
<1> QED BY <1>4, <1>5, <1>6

LEMMA RemadeDelete ==
  ASSUME IInv, ~IgnoreErrors, updates = 0, NEW q \in Resource, DeleteNext(q),
         NEW r \in Resource, Remade(r) => Shared(r)
  PROVE  Remade(r)' => Shared(r)'
<1> USE DEF IInv, TypeOK
<1>1. /\ pc[q] \in DeleteStep /\ UNCHANGED vpcName
      /\ pc'[q] \in DeleteStep \cup {"broken", "destroyed"}
      /\ \A s \in Resource \ {q} : pc'[s] = pc[s]
  BY DeleteDoes DEF Moves, terraform
<1>2. /\ subnetworks' \subseteq subnetworks /\ firewalls' \subseteq firewalls
      /\ pc'[q] = "destroyed" => Gone(q)
  BY DeleteSheds DEF Sheds
<1>3. vpcName = VpcName
  BY DEF AccountInv
<1>4. CASE r # q
  <2>1. Remade(r)' => Remade(r)
    BY <1>1, <1>2, <1>4 DEF Remade
  <2>2. CASE pc'[q] # "destroyed"
    <3>1. \A s \in Resource \ {r} : Accountable(s) => Accountable(s)'
      BY <1>1, <2>2 DEF Accountable, DeleteStep
    <3> QED BY <1>1, <2>1, <3>1, RemadeKept
  <2>3. CASE pc'[q] = "destroyed" /\ VpcName[q] # vpcName[r]
    BY <1>1, <2>1, <2>3 DEF Shared, Accountable
  <2>4. CASE pc'[q] = "destroyed" /\ VpcName[q] = vpcName[r]
    <3>1. Remade(r) => vpcName[r] # Default
      BY DEF Remade, DeleteInv, Named
    <3>2. Gone(q)
      BY <1>2, <2>4
    <3> QED BY <1>1, <1>3, <2>1, <2>4, <3>1, <3>2 DEF Gone, Remade
  <2> QED BY <2>2, <2>3, <2>4
<1>5. CASE r = q
  <2>1. CASE DeleteFirewall(r)
    <3>1. pc'[r] = "dSubnetwork" => vpcName[r] \notin firewalls'
      BY <2>1 DEF DeleteFirewall, Remove, OnDeleteError, Fail, Return, Fault, named
    <3>2. pc'[r] \in {"dSubnetwork", "broken"}
      BY <2>1 DEF DeleteFirewall, Remove, OnDeleteError, Fail, Return, Fault
    <3> QED BY <1>1, <3>1, <3>2 DEF Remade
  <2>2. CASE DeleteSubnetwork(r)
    <3>1. pc'[r] = "dNetwork" => vpcName[r] \notin subnetworks' /\ firewalls' = firewalls
      BY <2>2 DEF DeleteSubnetwork, Remove, OnDeleteError, Fail, Return, Fault, named
    <3>2. pc[r] = "dSubnetwork" /\ pc'[r] \in {"dNetwork", "broken"}
      BY <2>2 DEF DeleteSubnetwork, Remove, OnDeleteError, Fail, Return, Fault
    <3>3. Remade(r)' => Remade(r)
      BY <1>1, <3>1, <3>2 DEF Remade
    <3> QED BY <1>1, <1>5, <3>3, RemadeKept DEF Accountable
  <2>3. CASE ~DeleteFirewall(r) /\ ~DeleteSubnetwork(r)
    <3>1. pc'[r] \notin {"dSubnetwork", "dNetwork"}
      BY <1>5, <2>3 DEF DeleteNext, ListInstances, DeleteInstances, DeleteNetwork, Remove,
                        AfterInstances, OnDeleteError, Fail, Return, Fault
    <3> QED BY <3>1 DEF Remade
  <2> QED BY <2>1, <2>2, <2>3
<1> QED BY <1>4, <1>5

LEMMA RemadeInductive == IInv /\ RemadeInv /\ [Next]_vars => RemadeInv'
<1> SUFFICES ASSUME IInv, RemadeInv, [Next]_vars, ~IgnoreErrors, updates' = 0,
                    NEW r \in Resource
             PROVE  Remade(r)' => Shared(r)'
  BY DEF RemadeInv
<1> USE DEF IInv, TypeOK
<1>1. updates = 0 /\ ~ \E q \in Resource : Update(q)
  <2>1. updates \in Nat
    OBVIOUS
  <2>2. ASSUME NEW q \in Resource, Update(q) PROVE FALSE
    <3>1. updates' = updates + 1
      BY <2>2 DEF Update
    <3> QED BY <2>1, <3>1
  <2>3. updates' = updates
    <3>1. CASE UNCHANGED vars
      BY <3>1 DEF vars
    <3>2. ASSUME NEW q \in Resource, CreateNext(q) PROVE updates' = updates
      <4>1. CASE Working(q) \/ BulkInsert(q) \/ WaitUntilReady(q)
        BY <4>1, WorkingDoes, LaunchDoes DEF Moves, terraform
      <4> QED BY <3>2, <4>1 DEF CreateNext, Working, Lock, Unlock, terraform
    <3>3. ASSUME NEW q \in Resource, DeleteNext(q) PROVE updates' = updates
      BY <3>3, DeleteDoes DEF Moves, terraform
    <3>4. CASE NewRun \/ Interrupt \/ Kill \/ \E q \in Resource : Panic(q)
      BY <3>4 DEF NewRun, Interrupt, Kill, Panic, EndRun
    <3>5. ASSUME NEW q \in Resource, Create(q) \/ Delete(q) PROVE updates' = updates
      BY <3>5 DEF Create, Delete, terraform
    <3> QED BY <2>2, <3>1, <3>2, <3>3, <3>4, <3>5 DEF Next
  <2> QED BY <2>2, <2>3
<1>2. Remade(r) => Shared(r)
  BY <1>1 DEF RemadeInv
<1>3. ASSUME NEW q \in Resource, Create(q) \/ Delete(q) PROVE Remade(r)' => Shared(r)'
  <2>1. /\ UNCHANGED <<vpcName, networks, subnetworks, firewalls>>
        /\ \E n \in {"lock", "dList"} : pc' = [pc EXCEPT ![q] = n]
    BY <1>3 DEF Create, Delete, Return, named, terraform
  <2>2. Remade(r)' => Remade(r)
    BY <2>1 DEF Remade
  <2> QED BY <1>2, <2>1, <2>2, RemadeKept DEF Accountable
<1>4. ASSUME NEW q \in Resource, CreateNext(q) PROVE Remade(r)' => Shared(r)'
  BY <1>1, <1>2, <1>4, RemadeCreate
<1>5. ASSUME NEW q \in Resource, DeleteNext(q) PROVE Remade(r)' => Shared(r)'
  BY <1>1, <1>2, <1>5, RemadeDelete
<1>6. CASE EndRun
  BY <1>6, EndRunDoes DEF Remade, Settled
<1>7. CASE NewRun \/ Interrupt \/ Kill \/ \E q \in Resource : Panic(q)
  BY <1>6, <1>7 DEF NewRun, Interrupt, Kill, Panic
<1>8. CASE UNCHANGED vars
  BY <1>2, <1>8 DEF vars, Remade, Shared, Accountable
<1> QED BY <1>1, <1>3, <1>4, <1>5, <1>7, <1>8 DEF Next

\* The step of a Delete that fails although all its calls were served.
LEMMA RefusedByOthers ==
  ASSUME IInv, NEW r \in Resource, ~IgnoreErrors, DeleteNext(r), UNCHANGED faults,
         pc'[r] = "broken"
  PROVE  \/ \E s \in Resource \ {r} : s \in instances /\ VpcName[s] = vpcName[r]
         \/ pc[r] = "dNetwork" /\ Remade(r)
<1> USE DEF IInv, TypeOK
<1>0. ~ \E next : Fault(r, next)
  BY DEF Fault
<1>1. ~ListInstances(r) /\ ~DeleteInstances(r) /\ ~DeleteFirewall(r)
  BY <1>0 DEF ListInstances, DeleteInstances, DeleteFirewall, Remove, AfterInstances, Return,
              Fail
<1>2. CASE DeleteSubnetwork(r)
  <2>1. pc[r] = "dSubnetwork" /\ \E s \in instances : VpcName[s] = vpcName[r]
    BY <1>0, <1>2 DEF DeleteSubnetwork, Remove, Return, Fail
  <2>2. r \notin instances
    BY <2>1 DEF DeleteInv, Named
  <2> QED BY <2>1, <2>2
<1>3. CASE DeleteNetwork(r)
  <2>1. pc[r] = "dNetwork" /\ vpcName[r] \in subnetworks \cup firewalls
    BY <1>0, <1>3 DEF DeleteNetwork, Remove, Return, Fail
  <2> QED BY <2>1 DEF Remade
<1> QED BY <1>1, <1>2, <1>3 DEF DeleteNext

\* Whatever has happened before: a destroy whose calls are served is only stopped
\* by another resource that still uses its network, or has made it again.
THEOREM OnlyOthersStopDestroy == Spec => DestroyStoppedByOthers
<1>1. Init => RemadeInv
  BY DEF Init, RemadeInv, Remade
<1>2. IInv /\ RemadeInv /\ [Next]_vars =>
        [~IgnoreErrors /\ UNCHANGED faults =>
           \A r \in Resource : Deleting(r) /\ pc'[r] = "broken" =>
             \/ Kill
             \/ \E s \in Resource \ {r} : s \in instances /\ VpcName[s] = vpcName[r]
             \/ pc[r] = "dNetwork" /\ Remade(r) /\ (updates = 0 => Shared(r))]_vars
  <2> SUFFICES ASSUME IInv, RemadeInv, [Next]_vars, ~IgnoreErrors, UNCHANGED faults,
                      NEW r \in Resource, Deleting(r), pc'[r] = "broken"
               PROVE  \/ Kill
                      \/ \E s \in Resource \ {r} : s \in instances /\ VpcName[s] = vpcName[r]
                      \/ pc[r] = "dNetwork" /\ Remade(r) /\ (updates = 0 => Shared(r))
    OBVIOUS
  <2>1. CASE DeleteNext(r)
    BY <2>1, RefusedByOthers DEF RemadeInv
  <2>2. CASE ~DeleteNext(r)
    <3>1. \A s \in Resource : ~Panic(s)
      BY DEF Panic
    <3>2. pc[r] # "lock"
      BY DEF Deleting, DeleteStep
    <3> QED BY <2>2, <3>1, <3>2, RunEnds
  <2> QED BY <2>1, <2>2
<1> QED BY <1>1, <1>2, Invariant, RemadeInductive, PTL DEF Spec, DestroyStoppedByOthers

-----------------------------------------------------------------------------
(* Operations end: every step of one is a step forward.                    *)

\* The place of a step in CreateInfrastructure and CreateInstances, and in
\* DeleteInfrastructure.
StepRank(step) ==
  [lock |-> 1, key |-> 2, netGet |-> 3, netInsert |-> 4, subGet |-> 5, subInsert |-> 6,
   fwGet |-> 7, fwInsert |-> 8, unlock |-> 9, insert |-> 10, wait |-> 11,
   dList |-> 1, dInstances |-> 2, dFirewall |-> 3, dSubnetwork |-> 4, dNetwork |-> 5][step]

\* An operation ends with its next step or goes on to a later place.
Advances(r) ==
  \/ ~InFlight(r)'
  \/ Creating(r) /\ Creating(r)' /\ StepRank(pc'[r]) > StepRank(pc[r])
  \/ Deleting(r) /\ Deleting(r)' /\ StepRank(pc'[r]) > StepRank(pc[r])

\* Whatever another operation does, one that runs stays where it is, ends or goes
\* on; a step of its own never leaves it where it is.  The loop that waits for
\* instances is one step here, which the deadline of the operation bounds.
\* (cloud.go:390-415, 296-331 and 542-663)
Forward ==
  [][\A r \in Resource : InFlight(r) =>
       \/ Advances(r)
       \/ pc'[r] = pc[r] /\ ~CreateNext(r) /\ ~DeleteNext(r)]_vars

LEMMA CreateForward ==
  ASSUME TypeOK, NEW r \in Resource, CreateNext(r)
  PROVE  Advances(r)
<1> DEFINE Takes(step, nexts) ==
      pc[r] = step /\ \E n \in nexts \cup {"broken"} : pc' = [pc EXCEPT ![r] = n]
<1> USE DEF Return, Fault, Fail
<1>1. ASSUME NEW step \in CreateStep, NEW nexts \in SUBSET (CreateStep \cup {"created"}),
             Takes(step, nexts),
             \A n \in nexts : n = "created" \/ StepRank(n) > StepRank(step)
      PROVE  Advances(r)
  BY <1>1 DEF Advances, InFlight, Creating, Deleting, CreateStep, DeleteStep, Critical, TypeOK
<1>2. CASE Lock(r) \/ GetSSHPublicKey(r) \/ Unlock(r) \/ WaitUntilReady(r)
  <2>1. Takes("lock", {"key"}) \/ Takes("key", {"netGet"}) \/ Takes("unlock", {"insert"})
          \/ Takes("wait", {"created"})
    BY <1>2 DEF Lock, GetSSHPublicKey, Get, Unlock, WaitUntilReady
  <2> HIDE DEF Takes
  <2> QED BY <1>1, <2>1 DEF StepRank, CreateStep, Critical
<1>3. CASE NetworkGet(r) \/ SubnetworkGet(r) \/ FirewallGet(r)
  <2>1. Takes("netGet", {"subGet", "netInsert"}) \/ Takes("subGet", {"fwGet", "subInsert"})
          \/ Takes("fwGet", {"unlock", "fwInsert"})
    BY <1>3 DEF NetworkGet, SubnetworkGet, FirewallGet, Get
  <2> HIDE DEF Takes
  <2> QED BY <1>1, <2>1 DEF StepRank, CreateStep, Critical
<1>4. CASE NetworkInsert(r) \/ SubnetworkInsert(r) \/ FirewallInsert(r) \/ BulkInsert(r)
  <2>1. Takes("netInsert", {"subGet"}) \/ Takes("subInsert", {"fwGet"})
          \/ Takes("fwInsert", {"unlock"}) \/ Takes("insert", {"wait"})
    BY <1>4 DEF NetworkInsert, SubnetworkInsert, FirewallInsert, BulkInsert, Insert
  <2> HIDE DEF Takes
  <2> QED BY <1>1, <2>1 DEF StepRank, CreateStep, Critical
<1> QED BY <1>2, <1>3, <1>4 DEF CreateNext

LEMMA DeleteForward ==
  ASSUME TypeOK, NEW r \in Resource, DeleteNext(r)
  PROVE  Advances(r)
<1> DEFINE Takes(step, nexts) ==
      pc[r] = step /\ \E n \in nexts \cup {"broken"} : pc' = [pc EXCEPT ![r] = n]
<1> USE DEF Return, Fault, Fail, OnDeleteError
<1>1. ASSUME NEW step \in DeleteStep, NEW nexts \in SUBSET (DeleteStep \cup {"destroyed"}),
             Takes(step, nexts),
             \A n \in nexts : n = "destroyed" \/ StepRank(n) > StepRank(step)
      PROVE  Advances(r)
  BY <1>1 DEF Advances, InFlight, Creating, Deleting, CreateStep, DeleteStep, Critical, TypeOK
<1>2. CASE ListInstances(r) \/ DeleteInstances(r)
  <2>1. Takes("dList", {"dInstances", "dFirewall", "destroyed"})
          \/ Takes("dInstances", {"dFirewall", "destroyed"})
    BY <1>2 DEF ListInstances, DeleteInstances, AfterInstances
  <2> HIDE DEF Takes
  <2> QED BY <1>1, <2>1 DEF StepRank, DeleteStep
<1>3. CASE DeleteFirewall(r) \/ DeleteSubnetwork(r) \/ DeleteNetwork(r)
  <2>1. Takes("dFirewall", {"dSubnetwork"}) \/ Takes("dSubnetwork", {"dNetwork"})
          \/ Takes("dNetwork", {"destroyed"})
    BY <1>3 DEF DeleteFirewall, DeleteSubnetwork, DeleteNetwork, Remove
  <2> HIDE DEF Takes
  <2> QED BY <1>1, <2>1 DEF StepRank, DeleteStep
<1> QED BY <1>2, <1>3 DEF DeleteNext

LEMMA OthersStay ==
  ASSUME TypeOK, [Next]_vars, NEW r \in Resource, InFlight(r), ~CreateNext(r), ~DeleteNext(r)
  PROVE  pc'[r] = pc[r] \/ ~InFlight(r)'
<1> USE DEF InFlight, Creating, Deleting, CreateStep, DeleteStep, Critical, TypeOK
<1>1. ASSUME NEW s \in Resource, CreateNext(s) PROVE pc'[r] = pc[r]
  <2>1. Lock(s) \/ Unlock(s) \/ Working(s) \/ BulkInsert(s) \/ WaitUntilReady(s)
    BY <1>1 DEF CreateNext, Working
  <2> QED BY <1>1, <2>1, WorkingDoes, LaunchDoes DEF Moves, Lock, Unlock, Return
<1>2. ASSUME NEW s \in Resource, DeleteNext(s) PROVE pc'[r] = pc[r]
  BY <1>2 DEF DeleteNext, ListInstances, DeleteInstances, DeleteFirewall, DeleteSubnetwork,
              DeleteNetwork, Remove, Fail, Return, Fault
<1>3. ASSUME NEW s \in Resource, Create(s) \/ Delete(s) PROVE pc'[r] = pc[r]
  BY <1>3 DEF Create, Delete, InState, Return
<1>4. ASSUME NEW s \in Resource, Update(s) PROVE pc'[r] = pc[r]
  BY <1>4 DEF Update
<1>5. EndRun => ~InFlight(r)'
  BY DEF EndRun
<1>6. ASSUME NEW s \in Resource, Panic(s) PROVE ~InFlight(r)'
  BY <1>5, <1>6 DEF Panic
<1>7. NewRun \/ Interrupt \/ Kill => ~InFlight(r)'
  BY <1>5 DEF NewRun, Interrupt, Kill
<1>8. CASE UNCHANGED vars
  BY <1>8 DEF vars
<1> QED BY <1>1, <1>2, <1>3, <1>4, <1>6, <1>7, <1>8 DEF Next

\* No Create and no Delete goes round in circles or stands still at a step of its
\* own, whatever fails and whatever the others do: the part of CreateEnds that
\* does not depend on fairness.
THEOREM OperationsGoForward == Spec => Forward
<1>1. TypeOK /\ [Next]_vars =>
        [\A r \in Resource : InFlight(r) =>
           \/ Advances(r)
           \/ pc'[r] = pc[r] /\ ~CreateNext(r) /\ ~DeleteNext(r)]_vars
  BY CreateForward, DeleteForward, OthersStay DEF Advances
<1> QED BY <1>1, TypeCorrect, PTL DEF Spec, Forward

=============================================================================
