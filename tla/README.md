# TLA+ verification of terraform-provider-percona

This directory holds TLA+ models of the Terraform provider for Percona products, TLC
configurations that check them on small instances, and TLAPS proofs of the properties that
matter most for every value of the constants. Paths below are relative to `src/internal/`.

## 1. The system

`terraform` starts one provider process per provider configuration and run, and calls `Create`
and `Delete` of many resources in it concurrently (`Read` and `Update` do nothing, but after an
`Update` Terraform stores the new arguments). A `Create`
generates a resource id, calls `Configure` and `CreateInfrastructure` of the cloud, then
`CreateInstances`, and lets a *manager* set the software up over SSH and SQL. A `Delete` calls
`DeleteInfrastructure`. The Terraform state receives the id of a resource only when its `Create`
has returned; a process that dies loses the ids of the resources it was creating.

| component | state it keeps | operations | interacts with | hard behaviour | correct when |
|---|---|---|---|---|---|
| AWS infrastructure (`cloud/aws/create.go`, `delete.go`) | mutex `infraMu`, a configuration per resource; the objects of the account, with the tag of their maker | `CreateInfrastructure`, `DeleteInfrastructure` | EC2 and tagging API; shared by all resources | Creates share a network by name; Deletes do not lock; errors leak the mutex; partial failures; kills | no duplicate VPC, destroys complete but for the key pair, nobody else's instances cut off but in one known way |
| AWS client (`cloud/aws/client.go`) | session and client of the shared value | `CreateInstances`, `ListInstances`, commands | EC2, SSH | waits for readiness | instances belong to the resource, waits end |
| Google Cloud backend (`cloud/gcp/cloud.go`) | mutex, configurations; networks named after `vpc_name`, instances with a label | the same | Compute API, SSH | objects are shared and removed by name; a wait without an end of its own | nothing outlives the last resource of a network |
| Resource life cycle (`resource/resource.go`, `cloud/cloud.go`) | the Terraform state | `Create`, `Delete` of every resource | Terraform, both backends | crashes between two calls | both backends keep the same promise |
| Percona Server manager (`resource/ps/manager.go`) | the servers, the orchestrators, a shared `err` | `createCluster` | two levels of `errgroup`, SSH, SQL | goroutines cancel each other; a captured variable is raced for; dropped errors | success means that everything is set up, failure means that nothing runs on |
| Percona Server resource (`resource/ps/resource.go`) | outputs | `Create`, `Delete`, `setOutputValues` | manager, cloud | dropped errors, list order | outputs describe the cluster |
| MySQL client, commands (`db/mysql`, `resource/ps/cmd`) | users, plugins, replication of a server | one statement or command each | servers | commands that fail after their effect | effects in the order the manager needs |
| Percona XtraDB Cluster (`resource/pxc`) | nodes of a Galera cluster, a shared `err` | `Create` | `errgroup`, SSH, SQL | bootstrap order, captured `err`, a script that hides a failure, edits that no restart follows | one cluster that survives the restart of its first node, known settings in force |
| Key pair and SSH (`utils/ssh.go`, `createKeyPair`) | a key file, a key of the cloud | read or make, import | files, EC2 | check-then-act on a file, a write that is cut off, a key pair that no Delete removes | file and cloud hold one key |
| Version selection (`utils/utils.go`) | `m.version` of a manager | `SelectVersion` | goroutines of a manager | unlocked sharing, lists that differ | what is installed was asked for; one version on all nodes that see one list |
| INI editing (`utils/ini.go`) | a remote file | `SetIniFields` | SFTP | no truncation | the file is the edited one |
| PMM and RDS (`resource/pmm`, `db/psql`) | services of a PMM server, users on an RDS instance | `Create`, `Delete` of `percona_pmm` and `percona_pmm_rds` | HTTP, SQL, the cloud | the id is stored last, statements that cannot be repeated, instances that several resources share, an address that changes | who leaves a service behind is known, nobody removes or breaks another one's |
| Telemetry (`metrics`), schemas, orchestrator template | none | - | - | - | out of scope: data and pure I/O |

`PROJECT.json` has the same list with the status of each part, the hazards at their lines with the
properties that cover them, and the map from every definition to the lines it stands for.

## 2. Plan

Written in this order; "done" is what this directory holds.

1. **done** the abstract specifications: `ResourceLifecycle` of a resource, whatever the cloud, and
   `ClusterCreation` of a database resource's Create, whatever the database.
2. **done** `AwsInfra` with `MCAwsInfra`, `AwsInfraProofs`, `AwsLifecycleProofs`,
   `AwsNetworkProofs`, `AwsCreateProofs`.
3. **done** `PerconaServer` with `MCPerconaServer`, `PerconaServerProofs`.
4. **done** `GcpInfra` with `MCGcpInfra`, `GcpInfraProofs`.
5. **done** `PxcCluster` with `MCPxcCluster`, `PxcClusterProofs`. The selection of a version and the
   variable its goroutines share are part of this module: the code of the two managers is the same.
6. **done** `PmmServices` with `MCPmmServices`, `PmmServicesProofs`.
7. **done** key pair and key file (`utils/ssh.go:140-195`, `aws/create.go:142-209`), as a part of
   `AwsInfra`, since `infraMu` is what orders two Creates with one key.
8. *open* composition of `AwsInfra` or `GcpInfra` with `PerconaServer`, in which commands need
   `Reachable`. Today the two sides meet at an outcome: `Provision` of the backends stands for all
   commands of a manager, and a command of a manager may fail whether or not the network is there,
   so each side already allows what the other one can do to it.

## 3. The modules

### ResourceLifecycle

One resource moves `absent -> creating -> ready | broken -> deleting -> destroyed | broken`, and a
crash turns `creating` into `lost` and `deleting` into `broken`. Its *footprint*, whether it has
objects in the cloud that a Delete removes, grows only while a Create runs, shrinks only through a Delete (a late
termination included), and is empty when a Delete succeeds, unless the destroy is *lenient*.
`LifecycleSpec` is a PROPERTY of the runs of both backends, and a theorem about both. It promises
`DestroyedIsGone` and `FootprintAccounted`, and so do the backends (`NothingUnaccounted`).

### ClusterCreation

What the Create of a database resource promises about its cluster, for both managers: the first
instance founds it (`Found`), the others join the cluster that another one is in (`Join`), an
instance leaves it only while another one keeps it (`Leave`), Create succeeds only when every
instance is in it, and when Create has returned nothing touches the instances. `CreationSpec` is a
PROPERTY of `ps_create` and `pxc_create`, and a theorem about both managers. In `PerconaServer` an
instance is in the cluster of the server that bootstrapped its group, or of the master it replicates
from; the master is in its own when it has the user its replicas log in with. In `PxcCluster` it is
the Galera cluster that the running unit belongs to.

### AwsInfra

One action per AWS call, named after the function that makes it (`VpcByName`, `IgwAttach`,
`RtbAssociate`, ...); `pc[r]` is the call that the operation on `r` makes next. `mu` is `infraMu`
of each configuration, `net` the ids a Create keeps in its configuration, `up`, `link` and
`shutting` are the account, `known` the Terraform state at the beginning of a run, `page` what
`GetResources` returned to a Delete.

- Forms of a call: `Look` (describe, then adopt or make), `Make`, `Attach`, `Call` in Create;
  `Remove` in Delete. A call can fail although AWS could serve it (`Fault`, at most `MaxFaults`),
  without effect or after it, when its answer is lost; or be refused by AWS's own rules
  (`MayMake`, `MayTie`, `MayRemove`, external: an object in use is not deleted, one gateway per
  VPC, ...).
- `Lock` has no counterpart on the error paths: a Create that fails between `Lock` and `Unlock`
  leaves `mu` set (create.go:104-138). `Leaked` names that state, `Hung` a run of which nothing is
  left but waits for a leaked mutex; an operator ends it (`Interrupt`).
- `createKeyPair`: `pairs` are the key pairs of the account, by the resource whose Create imported
  each and whose tag it has; `file` says whose key each key file holds (`Torn`: its write was cut
  off); `key` is the key a Create has got from its file. `KeyDescribe` and `KeyCheck` take a key pair that
  exists, if the file is its private key (`Fits`), and refuse it otherwise; `KeyRead` reads the file or,
  with `KeyTruncate` and `KeyWrite`, makes one; `KeyImport` is refused when the name is taken.
- `Kind` are the six kinds of object that `DeleteInfrastructure` removes, `Disposable(r)` those of
  `r`. The key pair is not among them: `Tagged(r)`, what GetResources lists, has it too, and a Delete
  passes it over. So **a destroy is complete but for the key pair** of the Create that imported it,
  which stays in the account with the tag of a resource that is gone, as does its key file. Every
  property and theorem about destroys says so.
- `EndRun` is the end of a process: `mu` and the configurations go with it, resources that were
  being created are lost to Terraform, those being deleted stay in its state.
- `Panic` is the index into an empty answer at delete.go:151.
- Abstractions: a Create makes at most one object of each kind, so an object is its kind and its
  maker; all instances of a resource are one object; foreign VPCs are empty; there is no key pair and no
  key file before the first run, and nobody but a Create touches them; EC2's describe calls see what was made before; retries within the AWS SDK are part of a
  call. `FullPage = FALSE` stands for more than one page of tagged objects, of which the code reads
  the first.

### GcpInfra

The same structure for Google Cloud. Networks, subnetworks and firewall rules are named after
`vpc_name`, without a mark of their maker, so they are sets of names; only instances carry the
label of a resource. Every Create of a name finds or makes them under `infraMu`, every Delete of a
resource removes what bears its name, without the mutex. `vpcName` is the value in the Terraform
state, which an `Update` that does nothing in the cloud may change; `VpcName` the one a resource was
created with. The wait for readiness (cloud.go:296-331) is an action that succeeds when the
instances are `Reachable` and else ends with the deadline of the operation, 20 minutes by default in
the SDK. `Panic` is the wait on a nil operation at cloud.go:568. A request and the wait for its operation
are one step (`Insert`, `DeleteInstances`): an effect that comes only after a failed wait or a kill is
not in the model. The footprint is the instances; networks are the subject of `NetworksAccounted`. The
key file of cloud.go:393-398 is the outcome of the step `GetSSHPublicKey`, as the account has no key.
One configuration only; foreign networks are empty; the default network exists with its subnetwork.

### PerconaServer

`createCluster` of one resource with the arguments `conf`. `main`, `setup` and `orc` are the sequential parts (createCluster,
setupPerconaServer, setupOrchestrator), `node` and `host` the goroutines of the two inner error
groups, `err` the variable of `setupGRInstances` that its goroutines assign instead of one of their
own (manager.go:455), `server` what is installed, configured, running and replicating on each
instance, `serving` the orchestrators that run.

- A command may fail without effect or after it (`Try`, at most `MaxFaults`); a failing restart
  may also leave the server down.
- Cancellation: a context is cancelled when a goroutine of its group fails. A command begun before
  may still take effect; none is begun after (`Then`, `sshDialWithContext`). `Wait` returns when
  all goroutines have ended (`JoinNodes`, `JoinHosts`, `JoinCluster`).
- The race on `err`: a goroutine assigns it (`RestartGroup`), checks it (`CheckErr`) and wraps it
  (`WrapErr`: an `err` that is nil by then makes the wrapped error nil, so the goroutine ends with
  success). A read of the two-word value torn by a write is undefined behaviour: `TornErr`, the
  end of the process.
- Abstractions: an edit or a sent file takes effect with the last command it consists of; the
  version list is an outcome; commands end; the values of outputs are dropped. What `START
  GROUP_REPLICATION` does is external (`Joinable`, `Groups`): with the bootstrap flag a server
  founds a group, without it joins the one that exists.

### PxcCluster

`Create` of `percona_pxc` (`resource/pxc/manager.go:54-198`). `main` and `cur` are the sequential
part, `node` the goroutines that configure and install, `err` the variable of `Create` that they
assign (line 71), `version` is `m.version` and `picked` what a goroutine is about to store in it,
`server` is what each node has: package repository, installed version, the systemd unit that runs,
the cluster it is in (named after the node that founded it), settings in the files and in force,
users and PMM parts.

- `SelectVersion` is the code's first match in a list that begins with the newest version, for a
  wanted version of one to four parts; the list ends in the empty line that the output of apt-cache
  ends in, and is only that line when the repository was not set up. `Pick`, `Store` and
  `InstallPXC` read, assign and read again `m.version`, which has no lock. `late` are the nodes that
  see a version published in the meantime. `TornErr` and `TornVersion` are the reads of a two-word
  value torn by a write: undefined behaviour, with the outcomes it can have.
- `Configure` may report success although the repository was not set up: the status of the script
  is that of its last line (`cmd/cmd.go:22`). `InstallPXC` has no such case: its script could hide a
  failed apt-get too (`cmd/cmd.go:13-19`), but then the start of the node fails, where the model has
  the failure already at the command. The list of versions has no lines of stderr in it.
- The loop over the nodes: `StartNode` (the first one as bootstrap), the four steps for PMM, and
  after the last node `StopFirst` and `StartFirst`.
- External: what a Galera node does when it is started (`Clusters`: with the settings of the
  cluster it joins the cluster of another node, founds one as bootstrap, gives up when there is
  none), the state transfer (`Inherited`), the replication of users (`With`), systemd (`TryStart`).

### PmmServices

`percona_pmm` and `percona_pmm_rds` (`resource/pmm`, `db/psql`, and `CREATE USER` of `db/mysql`).
The operations of all resources interleave call by call; `pc`, `todo` and `db` are the place of an
operation, the instances its loop has still to reach and the one it has reached. `id` is the id in
the Terraform state, `attempt` the id a Create has generated: the pair of resource and attempt is
the label of a service. `services`, `users` and `rights` are what is at the servers and on the
instances, with the label of whoever made it; `alive` are the PMM servers that run.

- `percona_pmm_rds` stores its id only after `RDS/Add` has answered (`rds.go:95-104`), `percona_pmm`
  before it registers anything; an error in the middle of its loop is logged there
  (`pmm.go:121-127`).
- MySQL keeps a user that exists, with its password; PostgreSQL refuses to make it again; other
  engines are refused by the code. RDS instances are discovered only on AWS, since the Google Cloud
  backend has no `Credentials`.
- `address` is the `pmm_address` in the Terraform state. It is not ForceNew (`rds.go:32-36`) and
  `RDS.Update` returns nil, so `Update` changes it and nothing else, at most `MaxUpdates` times in all;
  `updates` remembers from which server it moved a label away. Delete of such a resource reads the address anew, lists
  the services of that server, and succeeds when none is there: **the service at the old server
  stays**, as `OrphansAccounted` says. Its other arguments, of which the code reads none after
  Create, are fixed.
- `Delete` lists the services, keeps those with its label and removes them one by one.
- External: PMM accepts a service when it can log in and has none for the instance (`Accepts`);
  Terraform does not run an operation on a resource while one runs on a resource it depends on
  (`Dependent`); `Kill` ends the process.
- Abstractions: the cloud calls of `PMM.Create` and `PMM.Delete` are one step each, since `AwsInfra`
  and `GcpInfra` have them; the server of a `percona_pmm` whose Create was killed is out of reach of
  every resource, and leaves the model.

## 4. Runs

| run | question | instance and bounds |
|---|---|---|
| `aws_shared` | mutex, unique VPCs, who cuts off, stops or disturbs whom, life cycle with destroys complete but for the key pair | 2 resources, 1 `vpc_name`, 1 key pair, 2 faults, 1 kill |
| `aws_foreign` | do group and subnet end in the VPC that was meant | 3 resources: VPC by id, foreign VPC by name, own VPC; 2 configurations that share a key file, 1 fault |
| `aws_lenient` | do Creates end, with Deletes that ignore errors and read one page of two around them | 2 resources, 1 fault, fair |
| `aws_retry` | do repeated destroys remove everything but the key pair | 2 configurations racing for one `vpc_name` and one key file, 1 fault, fair operator |
| `aws_ignored` | *violation*: an ignored error that stops a destroy | 2 resources, 1 fault |
| `aws_crash` | *violation*: an ignored error that ends the process | 2 resources, 1 fault |
| `gcp_shared` | mutex, orphaned networks, who cuts off or disturbs whom, life cycle; do Creates end, do repeated destroys converge | 2 resources, 1 name, 2 faults, 1 kill, 1 update, fair operator |
| `gcp_ignored` | what stops a destroy with ignored errors | 2 resources, a foreign network, 2 faults, 1 kill |
| `gcp_crash` | *violation*: an ignored error that ends the process | 2 resources, 1 fault |
| `ps_create` | replication order, one group, discovery, settings and parts with every option, what dropped errors and the shared `err` can hide; does it create a cluster as `ClusterCreation` says, does Create return | 4 clusters: 2 servers and 2 orchestrators with every option, 1 server, a group of 3, a group of 2 with an orchestrator; 2 faults, fair |
| `pxc_create` | one cluster, created as `ClusterCreation` says, which versions are installed, settings in force, what the shared `err` and a script can hide | 12 clusters of 1 to 3 nodes with every form of a version, with and without PMM, with lists that differ; 2 faults |
| `pmm_services` | which services nobody removes, whether one resource breaks another one's, do repeated destroys end | 1 `percona_pmm`, 2 `percona_pmm_rds`, a given server, 3 instances of 3 engines, 4 sets of arguments; 2 Creates each, 1 change of address, 1 fault, 1 kill, fair operator |

Why the bounds are enough. The hazards need two resources (an owner and an adopter, or a Create and
a Delete); every resource has one Create and any number of
Deletes, so the state is finite without further bounds. Two faults are a failing operation with a
failing clean-up, or two goroutines that race for one variable; one kill is a crash at any step. Two Creates of an RDS
registration are the least at which the second one meets what the first has left, and one change of
address is the least at which a Delete asks another server than its Create. For Galera two
nodes race for `err` and `m.version`, and with three one is neither the first nor the last. For
group replication three servers are the least at which two members race while the first one
bootstraps. Deadlock is not checked: a model in which all resources are destroyed, created or lost,
or in which Create has returned, has nothing left to do.

What the runs show beyond "it holds":

- A leaked mutex does not make Creates fail, it makes them wait for ever: `CreateEnds` holds only
  with `Leaked` as a way out. `infraMu.Lock` is not bound to a context.
- `OneVpcPerName` and `CreatesDoNotDisturb` hold among resources of one configuration, and for
  several that name no VPC and no key pair in common. Resources of one configuration that keep one
  key pair in two files refuse each other's key (create.go:170-171, 185-186), as do two
  configurations that write one key file at the same time. Two configurations share no mutex; `aws_retry` lets them race, duplicates included, and shows that
  destroys converge all the same.
- `NetworksAccounted` needs `updates = 0`: after a change of `vpc_name` a destroy looks for the new
  name and the old network stays.
- In group replication a failed restart can be taken for a success. `NothingMissing` states the
  most that costs, the replication user of a server other than the first, and `SettingsInForce` that
  the settings are in force even then.

- In a Galera cluster the settings for PMM (`manager.go:134-137` turns off performance_schema where
  the server log is the source of queries) are in force only on a first node that was restarted:
  `SettingsInForce` says exactly where they are not.
- A `Configure` script whose error was erased, or that hid its failure, cannot lead to a cluster
  with a node that was not set up: the list of versions is empty then, and the goroutine fails.
- Nodes that see different lists may install different versions, and then only those that were
  asked for; with one list the unlocked sharing of `m.version` is harmless, torn reads excepted.
- A PostgreSQL instance can be registered by the first Create that reaches `CREATE USER`, and by
  none after it, not even after a destroy: nothing removes the user.
- A service that no destroy removes is left by a lost answer of `RDS/Add`, by a kill, or by a change
  of `pmm_address`: a Delete after it succeeds without having asked the old server. At the server it
  asks, a Delete that is interrupted anywhere leaves none.
- The key pair of a Create outlives its resource (create.go:190-203, delete.go:44-188). It does not
  stop later Creates as long as its key file is kept.

- A destroy that repeats itself makes progress: what stops it while AWS serves its calls is another
  resource that has instances in the network or made its VPC's parts, or whose Delete removed the
  shared subnet, and with it the association, after this one had looked (`DestroyStoppedByOthers`).
  No remainder that a failed Create leaves stops it.

Findings, each with a violation run: `ignore_errors_on_destroy` does not cover an error of
`DisassociateRouteTable` (delete.go:90); with that option an error of `DescribeInternetGateways`
(delete.go:151) or of `Instances.Delete` (gcp/cloud.go:568) ends the process, and a concurrent
Create of another resource is lost with it.

## 5. Fairness

- `CreateNext(r)`, `DeleteNext(r)` of the backends: weakly fair. The Go scheduler
  runs every goroutine that can run, and every call ends: SDK calls by their context or their own
  limits, commands by assumption. A wait for `infraMu` is not enabled while the mutex is held, so
  fairness does not assume that it ends.
- `FairSpec` of `PerconaServer` is `WF_vars(Next)`: something that can run does run. Everything the
  model does is a step of a goroutine towards its end, so nothing more is needed: the theorem
  `ForwardCorrect` says that every step raises the rank of somebody and lowers nobody's.
- `OperatorSpec` of `PmmServices`: an operation that has begun goes on, and somebody repeats the
  destroy of a `percona_pmm_rds` resource. `DestroyConverges` gives up when the server is gone, as
  the code then can only fail.
- `InstanceGone`: AWS ends a termination it has accepted.
- `OperatorFairness`, only in `RetrySpec`: somebody keeps running `terraform destroy`, starts a new
  run after each, and interrupts a run that hangs. The code does not promise this; the properties
  of `RetrySpec` say what becomes of an account whose owner keeps trying.

## 6. Proofs

The eight modules prove 53 theorems, listed in `PROJECT.json`; 34 of them state a property that a run
checks. The theorems hold for every set of resources, configurations and names and every bound, from the
named assumptions of the modules (constants have their types, a foreign VPC is not a resource, the
default network is not foreign). `PlacedInOneVpc` and `CreatesAgree` of AWS assume in addition what
`aws_foreign` and `aws_shared` have: two configurations have neither a `vpc_name` nor a VPC in common
(`SeparateConfigurations`: nothing is assumed of resources of one configuration), and no name belongs
to two foreign VPCs or is an id of one (`UniqueNames`); `CreatesAgree` assumes that a key pair is used
in one configuration and kept in one file (`SeparateKeys`). Without these the code promises neither:
two configurations share no mutex, and a file that is not the one of the key pair is refused.

`AwsInfraProofs`

- `TypeCorrect`: `TypeOK` is inductive; one lemma for each form of a call.
- `LockOwned`: `LockOwner` is not inductive, since a Create that leaked the mutex must not start
  over as another operation while the mutex is held. `LockInv` adds that a leaked mutex is that of
  a resource Terraform does not know yet in this run, so no Delete of it can begin before the run
  and with it the mutex ends.
- `UniqueVpc`: `NameInv` adds that a Create that is about to make a VPC has seen, under the mutex,
  that there is none of its name: nobody of its configuration can make one meanwhile, and foreign
  VPCs do not change.
- `DestroyedLeavesNothing`: `DestroyInv` says for each step of a Delete which kinds of object can
  still exist: those of `page` that are still ahead of it, however much of the account the page lists.
  The theorem says what a success means with a short page, that all it lists is gone, and with a
  full one, that at most the key pair is left.
- `OperationsGoForward`: see *Termination* below.

`AwsLifecycleProofs` adds `ShutInv` (an instance shuts down only for a Delete that has begun) and
shows step by step that the phase (a function of `pc`) and the footprint (the resources with
objects a Delete removes) move as `ResourceLifecycle` allows: `AwsImplementsLifecycle`. `NothingUnaccounted` carries what the
life cycle promises over to the account: that the promise is an invariant of the abstract
specification is proved with the concrete variables in the place of the abstract ones. It speaks of the objects of
`Kind`; of the key pair the code promises nothing once a Create has imported it.

`AwsNetworkProofs` is about the networks that resources share.

- `NetInv`: until a Create has its VPC it has nothing (`Fresh`), the gateway and the subnet it found lie
  in that VPC (`Nearby`), and who has a route table or instances knows its network (`Routed`). Hence
  `CutOffByRouteTable`: of the objects a destroy removes only the route table, with its associations,
  can serve somebody else's instances.
- `GroupInv`: the same for the security group, which is looked up by its name and not by its VPC
  (`Named`, `Hosted`, `Known`). It needs `OneVpcPerName`, and the mutex, which keeps it true between
  finding the VPC and finding the group. That a Create of another configuration does not break it
  needs `ChoiceInv`: the VPC a Create works in is its own, the one it names by id, or one of its
  `vpc_name`, so that two configurations never work in VPCs of one group name (`OneAtATime`). Hence
  `PlacedInOneVpc`.

`AwsCreateProofs` proves, for configurations that name no VPC in common, `CreatesAgree`, and for any
at all what can happen to an operation that others do not leave alone. `QuietInv` describes the account while nothing has failed and
no destroy has begun: what a Create knows exists and is complete (`Sound`), what it is about to make
is missing (`Missing`), and objects nobody works on are complete, with one subnet in a VPC
(`Complete`). In such a state AWS refuses none of the calls that a Create can make. `KeyInv` is the same for keys:
while nothing has failed, a key pair has the key of its file (`Keyed`), a file is torn only while
somebody writes it, and who found no key pair still finds none, because it holds the mutex
(`AloneWithKey`); so no key is refused.

- `LostOnlyWithProcess`: a Create is lost by a kill, by the panic of another resource's Delete, or by
  an interrupt of a hung run, and what is interrupted there waits for the mutex and has nothing in
  the account (`FreshInv`).
- `IgnoredErrorsGoOn`: the extent of the finding of `aws_ignored`. With ignored errors a Delete ends
  with an error in `GetResources`, in `DisassociateRouteTable` or with its process; every other call
  keeps what `readme.md` promises.
- `OnlyOthersStopDestroy`: `LooseInv` says that what a Delete has to undo before a step (terminate,
  disassociate, detach) is undone when the step comes, or was undone by somebody who removed the
  subnet, and `GatewayInv` that an attached gateway exists. Then whatever AWS refuses is refused
  because of another resource. This is the safety core of `DestroyConverges`.

`GcpInfraProofs` proves one inductive invariant `IInv`, the conjunction of `TypeOK`, `LockInv` (as
above), `DeleteInv` (a Delete that is past the instances is not about the default network, and its
instances are gone unless errors are ignored) and `AccountInv` (`NetworksAccounted`, and `vpc_name`
is the original one until the first update). Steps are summarised first (`WorkingDoes`,
`LaunchDoes`, `DeleteDoes`, `DeleteSheds`): which steps a call leads to, what it may add and remove.
From it follow `TypeCorrect`, `LockOwned`, `NetworksNotOrphaned`, `OthersStayReachable` (an action
property) and `GcpImplementsLifecycle`. `QuietInv`, as that of AWS, gives `CreatesAgree`.
`IgnoredErrorsGoOn` shows that with ignored errors only the end of the process stops a Delete that has
listed its instances. `NothingUnaccounted` and `LostOnlyWithProcess` are as for AWS.
`OnlyOthersStopDestroy`: a Delete whose calls are served is stopped by instances of another resource
in its network, or because a Create has made again, in between, what it had removed; `RemadeInv`
says that as long as no `vpc_name` has changed that Create is one of another resource that is still
there.

`PxcClusterProofs` proves the inductive invariant `ClusterInv`, for clusters of every size:

- `Places`: which places of the goroutines go with which place of `main`.
- `BeforeLoop`: how far each node's set-up is at each place of its goroutine, in particular that a
  node whose goroutine is done, and that has a version installed, has root's user and all settings.
- `Agreed`: what is in `version`, in `picked` and on the nodes is what was asked for or a full version
  that extends it, and with one list the one that everybody selects. Lemmas about `SelectVersion`
  (there is a least matching index, what is found matches, and a version that was found finds
  itself again) show that no order of the reads and writes of `m.version` breaks it.
- `Repositories`: who has installed a version has a repository.
- `Members`, `Loop`: who is in the cluster, with what in force, at each node and place of the loop
  and of the restart after it.
- `Faults`: which commands can have failed when no goroutine has. A `Configure` whose failure was
  hidden leaves no repository, hence no version, and the goroutine or the start of the node fails.

From it follow `TypeCorrect`, `OneClusterCorrect`, `VersionsCorrect`, `SettingsCorrect`,
`NothingMissingCorrect`, `ErrorsCorrect`, `ClusterSurvivesCorrect` (an action property: the cluster
survives the restart of its first node) and `PxcImplementsCreation`, which subsumes it.

`PmmServicesProofs`: `TypeCorrect`; `BookInv` (services are where their maker's address is or was
before an `Update`, one for each instance of a server; a Delete has listed what is its own and still there; a Create has no id stored)
gives `Accountable` and `OwnOnly`; `LoginInv` (at each step of a Create up to `RDS/Add` the user is
there with the rights it has got so far, and users are never removed) gives `LoginsWork`.
`DestroyedLeavesNothing` says what a Delete of a `percona_pmm_rds` resource needs and what it leaves:
nobody takes away the server it has (Terraform orders the two, `Exclusive`), it fails only by a failing call, a kill or
without a server, and when it succeeds no service at that server has its label
(`Listed`), and one elsewhere only where an `Update` moved the resource away from.

`PerconaServerProofs` proves `ClusterInv`, for clusters of every size with any options:

- `Where` and `Places`: which places of the three sequential parts and of the goroutines go together.
- `Errors`: without an excuse (a restart error that was erased, or a Create that is failing anyway)
  nothing has failed, and the dropped errors come last.
- `Servers`: what a server has at each place of its goroutine (`Prepared`, `Member`), and what is true
  at every place even of one that failed (`Safe`: no server replicates but from one that is ready
  for it, only the first one has the bootstrap flag).
- `AsyncLoop` and `GroupLoop`: the loops after the goroutines; servers the loop has passed are
  `Complete`, those ahead of it `Untouched`.

It is needed in this strength because a property of a Create that *succeeds* has to be carried
through every place where a goroutine can be when another one's failure is hidden from it. From it
follow `TypeCorrect`, `MasterCorrect`, `OneGroupCorrect`, `DiscoverCorrect`, `SettingsCorrect`,
`NothingMissingCorrect`, `ErrorsCorrect`, `QuietCorrect` (an action property: what has returned leaves
the instances alone) and `PsImplementsCreation`, which subsumes it.

*Termination.* What liveness rests on, fairness apart, is proved for all components. In the two
managers `ForwardCorrect` gives every sequential part and every goroutine a rank: each step raises
the rank of somebody and lowers nobody's; `RanksAreBounded` bounds the ranks by the number of
instances; `NobodyWaitsInVain` says that as long as Create has not ended, it or one of the
goroutines it waits for is at a step of its own, or nobody is left to wait for. So a Create ends
after a bounded number of steps if somebody who can run does run. Of this last link `CreateReturns`
is the model-checked form for `PerconaServer`; `PxcCluster` has no liveness run, as its code waits
for nothing but its goroutines and its commands. In the backends and in `PmmServices`
`OperationsGoForward` says that every step of an operation ends it or takes it to a later place
(of a loop: to a smaller set of instances), and that nobody else moves it but to its end; with
`LockOwned`, which says who holds the mutex that a Create waits for, this is what
`CreateEnds` rests on.

So every safety property of a passing run has its theorem. Only model-checked are `CreateEnds`,
`CreateReturns` and `DestroyConverges`: liveness under fairness, and ENABLED, which it is defined by,
are out of the prover's reach, as are inductions over data (that a sum of bounded ranks cannot rise
for ever is one). No module declares a RECURSIVE operator.

## 7. Not modelled

Telemetry, schemas, the text of commands, SQL and configuration files, the template of the
orchestrator, the values of outputs: data or pure I/O. With the text of files goes what
`utils/ini.go` leaves behind when the edited file is shorter than the old one. What the models leave
out of a component they have is said in section 3: the key file of Google Cloud, effects of an
operation there after a failed wait, updates of arguments other than `vpc_name` and `pmm_address`. Concurrent replacement of the clients of the shared Cloud
value by `Configure` is a data race between equal values. Waits that ignore the context
(`time.Sleep`, `RunInstances`) only delay. `m.version` is shared by the goroutines of
`resource/ps/manager.go` as by those of `resource/pxc/manager.go`; it is modelled in `PxcCluster`,
and an outcome of a command in `PerconaServer`. The infrastructure of a PXC cluster and its Delete
are those of the backends.

## 8. Running

    tlc -workers 2 -config AwsShared.cfg MCAwsInfra.tla
    tlc -workers 2 -config GcpShared.cfg MCGcpInfra.tla
    tlc -workers 2 -config PsCreate.cfg  MCPerconaServer.tla
    tlc -workers 2 -config Pxc.cfg       MCPxcCluster.tla
    tlc -workers 2 -config Pmm.cfg       MCPmmServices.tla
    tlapm AwsInfraProofs.tla ; tlapm AwsLifecycleProofs.tla ; tlapm AwsNetworkProofs.tla
    tlapm AwsCreateProofs.tla ; tlapm GcpInfraProofs.tla
    tlapm PerconaServerProofs.tla ; tlapm PxcClusterProofs.tla ; tlapm PmmServicesProofs.tla

Each property has a mutant in the module it checks: an operator with a plausible bug
(`LockMissing`, `TerminationNotAwaited`, `AfterInstancesAlways`, ...) that replaces one definition and
breaks the property.
