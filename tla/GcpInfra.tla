------------------------------ MODULE GcpInfra ------------------------------
(***************************************************************************)
(* The Google Cloud backend of the provider: internal/cloud/gcp.  Network, *)
(* subnetwork and firewall rule are named after the vpc_name of a resource *)
(* and bear no mark of their maker: every resource of a name shares them,  *)
(* a Create makes what is missing, and a Delete of any of them removes     *)
(* what bears the name.  Only instances bear the label of a resource.      *)
(*                                                                         *)
(* One configuration, so one provider process with one Cloud value and one *)
(* mutex infraMu.  The instances of a resource are one object.             *)
(***************************************************************************)
EXTENDS Integers, FiniteSets

CONSTANTS
  Resource,      \* resource ids, one Create each
  Name,          \* names of networks
  Default,       \* the network that every project has
  Foreign,       \* names of empty networks made by someone else
  VpcName,       \* vpc_name of a resource when it is created
  None,          \* nobody holds infraMu
  IgnoreErrors,  \* ignore_errors_on_destroy
  MaxFaults,     \* bound on calls that fail although they could be served
  MaxKills,      \* bound on kills of a process that is not hung
  MaxUpdates     \* bound on changes of vpc_name

ASSUME NameAssumption ==
  /\ VpcName \in [Resource -> Name]
  /\ Default \in Name
  /\ Foreign \subseteq Name \ {Default}
  /\ None \notin Resource

ASSUME SwitchAssumption == IgnoreErrors \in BOOLEAN
ASSUME BoundAssumption == MaxFaults \in Nat /\ MaxKills \in Nat /\ MaxUpdates \in Nat

VARIABLES
  pc,         \* where the latest operation on each resource stands
  mu,         \* infraMu: the resource whose Create holds it
  known,      \* resources in the Terraform state when the current run began
  vpcName,    \* vpc_name in the Terraform state
  instances,  \* the resources that have instances
  networks, subnetworks, firewalls,  \* what exists, by the name of the network
  faults, kills, updates

vars == <<pc, mu, known, vpcName, instances, networks, subnetworks, firewalls,
          faults, kills, updates>>
terraform == <<known, vpcName, kills, updates>>
named == <<networks, subnetworks, firewalls>>

Critical ==
  {"key", "netGet", "netInsert", "subGet", "subInsert", "fwGet", "fwInsert", "unlock"}
CreateStep == Critical \cup {"lock", "insert", "wait"}
DeleteStep == {"dList", "dInstances", "dFirewall", "dSubnetwork", "dNetwork"}
Settled == {"absent", "created", "broken", "destroyed", "lost"}

TypeOK ==
  /\ pc \in [Resource -> CreateStep \cup DeleteStep \cup Settled]
  /\ mu \in Resource \cup {None}
  /\ known \subseteq Resource
  /\ vpcName \in [Resource -> Name]
  /\ instances \subseteq Resource
  /\ networks \subseteq Name
  /\ subnetworks \subseteq networks
  /\ firewalls \subseteq networks
  /\ Default \in networks \cap subnetworks
  /\ {faults, kills, updates} \subseteq Nat

Creating(r) == pc[r] \in CreateStep
Deleting(r) == pc[r] \in DeleteStep
InFlight(r) == Creating(r) \/ Deleting(r)
InState(r) == pc[r] \in {"created", "broken"}

Init ==
  /\ pc = [r \in Resource |-> "absent"]
  /\ mu = None
  /\ known = {}
  /\ vpcName = VpcName
  /\ instances = {}
  /\ networks = Foreign \cup {Default}
  /\ subnetworks = {Default}
  /\ firewalls = {}
  /\ faults = 0 /\ kills = 0 /\ updates = 0

-----------------------------------------------------------------------------
(* How a call ends.                                                        *)

Return(r, next) == pc' = [pc EXCEPT ![r] = next] /\ UNCHANGED faults

Fault(r, next) ==
  /\ faults < MaxFaults
  /\ faults' = faults + 1
  /\ pc' = [pc EXCEPT ![r] = next]

\* A call without effect: it is refused, or fails although it could be served.
Fail(r, may, next) == IF may THEN Fault(r, next) ELSE Return(r, next)

\* A call of Create; every error ends it, and leaves infraMu as it is.
Get(r, step, found, hit, miss) ==
  /\ pc[r] = step
  /\ Return(r, IF found THEN hit ELSE miss) \/ Fault(r, "broken")
  /\ UNCHANGED <<mu, terraform, instances, named>>

\* Insert and the wait for its operation, whose answer may be lost; the effect does
\* not come later than the answer.
Insert(r, step, may, new, next) ==
  /\ pc[r] = step
  /\ \/ may /\ new /\ (Return(r, next) \/ Fault(r, "broken"))
     \/ Fail(r, may, "broken") /\ UNCHANGED <<instances, named>>
  /\ UNCHANGED <<mu, terraform>>

-----------------------------------------------------------------------------
(* CreateInfrastructure and CreateInstances.                               *)

Create(r) ==
  /\ pc[r] = "absent"
  /\ Return(r, "lock")
  /\ UNCHANGED <<mu, terraform, instances, named>>

\* Mutant: infraMu is not taken.
LockMissing(r) ==
  /\ pc[r] = "lock"
  /\ mu' = r
  /\ Return(r, "key")
  /\ UNCHANGED <<terraform, instances, named>>

Lock(r) ==
  /\ pc[r] = "lock"
  /\ mu = None
  /\ mu' = r
  /\ Return(r, "key")
  /\ UNCHANGED <<terraform, instances, named>>

GetSSHPublicKey(r) == Get(r, "key", TRUE, "netGet", "netGet")

NetworkGet(r) == Get(r, "netGet", vpcName[r] \in networks, "subGet", "netInsert")
NetworkInsert(r) ==
  Insert(r, "netInsert", vpcName[r] \notin networks,
         networks' = networks \cup {vpcName[r]} /\ UNCHANGED <<instances, subnetworks, firewalls>>,
         "subGet")

SubnetworkGet(r) == Get(r, "subGet", vpcName[r] \in subnetworks, "fwGet", "subInsert")
SubnetworkInsert(r) ==
  Insert(r, "subInsert", vpcName[r] \in networks \ subnetworks,
         subnetworks' = subnetworks \cup {vpcName[r]} /\ UNCHANGED <<instances, networks, firewalls>>,
         "fwGet")

\* Mutant: a firewall rule that exists ends CreateInfrastructure.
FirewallGetReturns(r) == Get(r, "fwGet", vpcName[r] \in firewalls, "insert", "fwInsert")

FirewallGet(r) == Get(r, "fwGet", vpcName[r] \in firewalls, "unlock", "fwInsert")
FirewallInsert(r) ==
  Insert(r, "fwInsert", vpcName[r] \in networks \ firewalls,
         firewalls' = firewalls \cup {vpcName[r]} /\ UNCHANGED <<instances, networks, subnetworks>>,
         "unlock")

Unlock(r) ==
  /\ pc[r] = "unlock"
  /\ mu' = None
  /\ Return(r, "insert")
  /\ UNCHANGED <<terraform, instances, named>>

\* The label of the resource is all that ties the instances to it.
BulkInsert(r) ==
  Insert(r, "insert", vpcName[r] \in subnetworks,
         instances' = instances \cup {r} /\ UNCHANGED named, "wait")

\* The provider can open an SSH connection to the instances of r, which lie in
\* the network r had when it was created.
Reachable(r) == r \in instances /\ VpcName[r] \in firewalls

\* Mutant: no deadline ends the wait for instances out of reach.
WaitForever(r) ==
  /\ pc[r] = "wait"
  /\ Reachable(r)
  /\ Return(r, "created")
  /\ UNCHANGED <<mu, terraform, instances, named>>

\* The loop pings until the instances answer or the context's deadline is over;
\* what follows it needs the connection, too.
WaitUntilReady(r) ==
  /\ pc[r] = "wait"
  /\ \/ Reachable(r) /\ Return(r, "created")
     \/ Fail(r, Reachable(r), "broken")
  /\ UNCHANGED <<mu, terraform, instances, named>>

CreateNext(r) ==
  \/ Lock(r) \/ GetSSHPublicKey(r) \/ NetworkGet(r) \/ NetworkInsert(r)
  \/ SubnetworkGet(r) \/ SubnetworkInsert(r) \/ FirewallGet(r) \/ FirewallInsert(r)
  \/ Unlock(r) \/ BulkInsert(r) \/ WaitUntilReady(r)

-----------------------------------------------------------------------------
(* DeleteInfrastructure; it does not take infraMu.                         *)

\* Terraform destroys, in a later run, a resource it has in its state.
Delete(r) ==
  /\ InState(r) /\ r \in known
  /\ known' = known \ {r}
  /\ Return(r, "dList")
  /\ UNCHANGED <<mu, vpcName, kills, updates, instances, named>>

\* Update changes nothing in the cloud, and Terraform stores the new name.
Update(r) ==
  /\ InState(r) /\ r \in known
  /\ updates < MaxUpdates
  /\ updates' = updates + 1
  /\ \E n \in Name : vpcName' = [vpcName EXCEPT ![r] = n]
  /\ UNCHANGED <<pc, mu, known, kills, faults, instances, named>>

\* Mutant: ignore_errors_on_destroy is not looked at.
OnDeleteErrorStop(next) == "broken"

OnDeleteError(next) == IF IgnoreErrors THEN next ELSE "broken"

\* Mutant: the default network is no exception.
AfterInstancesAlways(r) == "dFirewall"

AfterInstances(r) == IF vpcName[r] = Default THEN "destroyed" ELSE "dFirewall"

\* Mutant: without instances there is nothing to delete.
ListInstancesEarly(r) ==
  /\ pc[r] = "dList"
  /\ Return(r, IF r \in instances THEN "dInstances" ELSE "destroyed")
  /\ UNCHANGED <<mu, terraform, instances, named>>

ListInstances(r) ==
  /\ pc[r] = "dList"
  /\ \/ Return(r, IF r \in instances THEN "dInstances" ELSE AfterInstances(r))
     \/ Fault(r, "broken")
  /\ UNCHANGED <<mu, terraform, instances, named>>

\* Mutant: Delete does not wait for the operations it has started.
DeleteInstancesNoWait(r) ==
  /\ pc[r] = "dInstances"
  /\ Return(r, AfterInstances(r))
  /\ \/ instances' = instances \ {r}
     \/ UNCHANGED instances
  /\ UNCHANGED <<mu, terraform, named>>

\* Mutant: instances are listed by their network, not by the label.
DeleteInstancesOfNetwork(r) ==
  /\ pc[r] = "dInstances"
  /\ instances' = {s \in instances : VpcName[s] # vpcName[r]}
  /\ Return(r, AfterInstances(r))
  /\ UNCHANGED <<mu, terraform, named>>

\* An error of the call itself is a nil operation, see Panic.
DeleteInstances(r) ==
  /\ pc[r] = "dInstances"
  /\ \/ /\ instances' = instances \ {r}
        /\ Return(r, AfterInstances(r)) \/ Fault(r, OnDeleteError(AfterInstances(r)))
     \/ Fault(r, OnDeleteError(AfterInstances(r))) /\ UNCHANGED instances
  /\ UNCHANGED <<mu, terraform, named>>

\* A missing object is no error; one that is in use is not removed.
Remove(r, step, present, may, new, next) ==
  /\ pc[r] = step
  /\ \/ ~present /\ Return(r, next) /\ UNCHANGED named
     \/ present /\ may /\ new /\ (Return(r, next) \/ Fault(r, OnDeleteError(next)))
     \/ Fail(r, present => may, OnDeleteError(next)) /\ UNCHANGED named
  /\ UNCHANGED <<mu, terraform, instances>>

\* Mutant: the firewall rule of a network is deleted after its subnetwork.
DeleteFirewallKept(r) ==
  /\ pc[r] = "dFirewall"
  /\ Return(r, "dSubnetwork")
  /\ UNCHANGED <<mu, terraform, instances, named>>

DeleteFirewall(r) ==
  Remove(r, "dFirewall", vpcName[r] \in firewalls, TRUE,
         firewalls' = firewalls \ {vpcName[r]} /\ UNCHANGED <<networks, subnetworks>>,
         "dSubnetwork")

DeleteSubnetwork(r) ==
  Remove(r, "dSubnetwork", vpcName[r] \in subnetworks,
         \A s \in instances : VpcName[s] # vpcName[r],
         subnetworks' = subnetworks \ {vpcName[r]} /\ UNCHANGED <<networks, firewalls>>,
         "dNetwork")

DeleteNetwork(r) ==
  Remove(r, "dNetwork", vpcName[r] \in networks,
         vpcName[r] \notin subnetworks \cup firewalls,
         networks' = networks \ {vpcName[r]} /\ UNCHANGED <<subnetworks, firewalls>>,
         "destroyed")

DeleteNext(r) ==
  \/ ListInstances(r) \/ DeleteInstances(r)
  \/ DeleteFirewall(r) \/ DeleteSubnetwork(r) \/ DeleteNetwork(r)

-----------------------------------------------------------------------------
(* The provider process and its end.                                       *)

\* Terraform never learns the id of a resource that was being created, and
\* keeps one that was being deleted.
EndRun ==
  /\ pc' = [r \in Resource |->
              IF Creating(r) THEN "lost" ELSE IF Deleting(r) THEN "broken" ELSE pc[r]]
  /\ mu' = None
  /\ known' = {r \in Resource : InState(r)'}
  /\ UNCHANGED <<vpcName, updates, instances, named>>

Busy == \E r \in Resource : InFlight(r)
Leaked == mu # None /\ pc[mu] \notin Critical
Hung == Leaked /\ Busy /\ \A r \in Resource : InFlight(r) => pc[r] = "lock"

NewRun ==
  /\ ~Busy
  /\ mu # None \/ \E r \in Resource \ known : InState(r)
  /\ EndRun
  /\ UNCHANGED <<faults, kills>>

Interrupt == Hung /\ EndRun /\ UNCHANGED <<faults, kills>>

Kill ==
  /\ Busy
  /\ kills < MaxKills
  /\ kills' = kills + 1
  /\ EndRun
  /\ UNCHANGED faults

\* The call that deletes an instance fails, the error is ignored, and the code
\* waits for the operation it did not get: the whole process ends.
Panic(r) ==
  /\ pc[r] = "dInstances"
  /\ IgnoreErrors
  /\ faults < MaxFaults
  /\ faults' = faults + 1
  /\ EndRun
  /\ UNCHANGED kills

Next ==
  \/ \E r \in Resource :
       Create(r) \/ CreateNext(r) \/ Delete(r) \/ Update(r) \/ DeleteNext(r) \/ Panic(r)
  \/ NewRun \/ Interrupt \/ Kill

Spec == Init /\ [][Next]_vars

Fairness == \A r \in Resource : WF_vars(CreateNext(r)) /\ WF_vars(DeleteNext(r))
OperatorFairness ==
  /\ \A r \in Resource : WF_vars(Delete(r))
  /\ WF_vars(NewRun) /\ WF_vars(Interrupt)

FairSpec == Spec /\ Fairness
RetrySpec == FairSpec /\ OperatorFairness

-----------------------------------------------------------------------------
(* What the code guarantees.                                               *)

\* The critical section of infraMu: whoever works on the networks holds the
\* mutex, and it is only ever held by a Create that works there or that failed
\* there.  (cloud.go:391-413)
LockOwner ==
  /\ \A r \in Resource : pc[r] \in Critical => mu = r
  /\ mu # None => pc[mu] \in Critical \cup {"broken"}

\* Nothing that bears the name of a network outlives the last resource of that
\* name: whatever exists was asked for by a resource that is not destroyed yet.
\* It takes that vpc_name has never changed in the Terraform state, and leaves
\* out the default network, whose firewall rule no Delete removes.
\* (cloud.go:584-660: objects are found by name, without the mutex)
NetworksAccounted ==
  ~IgnoreErrors /\ updates = 0 =>
    \A n \in ((networks \ Foreign) \cup subnetworks \cup firewalls) \ {Default} :
      \E r \in Resource : VpcName[r] = n /\ pc[r] \notin {"absent", "destroyed"}

\* The one step with which the destroy of a resource cuts off the instances of
\* another created resource is to delete the firewall rule both share.
\* (cloud.go:584-609; the subnetwork is refused while it has instances)
CutOffOnlyByFirewall ==
  [][\A r \in Resource :
       pc[r] = "created" /\ Reachable(r) /\ ~Reachable(r)' =>
         \E s \in Resource \ {r} : pc[s] = "dFirewall" /\ vpcName[s] = VpcName[r]]_vars

\* Creates that share a network do not make each other fail: unless a call
\* failed, a process was killed or a destroy has begun, every Create succeeds.
\* (CreateInfrastructure, cloud.go:390-415)
CreatesDoNotDisturb ==
  [][\A r \in Resource : Creating(r) /\ pc'[r] = "broken" =>
       \/ faults' > 0 \/ kills > 0
       \/ \E s \in Resource : Deleting(s) \/ pc[s] \in {"broken", "destroyed"}]_vars

\* With ignore_errors_on_destroy set, only a failing list of the instances and
\* the end of the process end a Delete with an error.
\* (readme.md:41 and the branches on IgnoreErrorsOnDestroy of cloud.go)
IgnoredErrorsDoNotStop ==
  [][IgnoreErrors =>
       \A r \in Resource : Deleting(r) /\ pc[r] # "dList" /\ pc'[r] = "broken" =>
         Kill \/ \E s \in Resource : Panic(s)]_vars

\* With ignore_errors_on_destroy set, an error that a Delete logs and ignores
\* costs no other resource its Create.  (cloud.go:559-568)
IgnoredErrorsLoseNothing ==
  [][IgnoreErrors =>
       \A r \in Resource : Creating(r) /\ pc'[r] = "lost" => Kill \/ Interrupt]_vars

\* A Create ends, unless it waits for a mutex that a failed Create has leaked.
CreateEnds == \A r \in Resource : Creating(r) ~> (~Creating(r) \/ Leaked)

\* A resource Terraform knows of is destroyed in the end, and its instances are
\* gone, in whatever order the resources that share a network are destroyed and
\* however often they stand in each other's way; the instances of a resource that
\* a crash has lost may keep a network for ever.  (cloud.go:542-663)
DestroyConverges ==
  \A r \in Resource :
    InState(r) ~> \/ pc[r] = "destroyed" /\ r \notin instances
                  \/ \E s \in Resource : pc[s] = "lost"

-----------------------------------------------------------------------------
(* The life cycle of a resource, as Terraform sees it.                     *)

Phase ==
  [r \in Resource |->
     IF Creating(r) THEN "creating"
     ELSE IF Deleting(r) THEN "deleting"
     ELSE IF pc[r] = "created" THEN "ready" ELSE pc[r]]

Lifecycle == INSTANCE ResourceLifecycle WITH
  Lenient <- IgnoreErrors,
  phase <- Phase,
  footprint <- instances

\* Every run of the Google Cloud backend is a run of the same life cycle as one
\* of the AWS backend.
ImplementsLifecycle == Lifecycle!LifecycleSpec
=============================================================================
