---------------------------- MODULE PmmServices ----------------------------
(***************************************************************************)
(* RDS instances as services of PMM servers: internal/resource/pmm.        *)
(* A percona_pmm resource makes a PMM server and may register every RDS    *)
(* instance it discovers; a percona_pmm_rds resource registers one at a    *)
(* server of either kind, or at one that is there already.  Both make a    *)
(* user for PMM on the instance first.  The address of a percona_pmm_rds   *)
(* resource may be changed in place.  The operations of all resources      *)
(* interleave; Terraform runs a percona_pmm_rds resource only while none   *)
(* runs on the percona_pmm resource whose address it has.                  *)
(***************************************************************************)
EXTENDS Integers, Sequences

CONSTANTS
  Pmm,         \* percona_pmm resources; each stands for its server, too
  Rds,         \* percona_pmm_rds resources
  Given,       \* PMM servers that Terraform does not manage
  Database,    \* the RDS instances of the account
  Engine,      \* the engine of each
  Configs,     \* the arguments the resources may begin with
  MaxCreates,  \* bound on the Creates of a resource
  MaxUpdates,  \* bound on the changes of pmm_address
  MaxFaults,   \* bound on calls that fail although they could succeed
  MaxKills     \* bound on the provider processes that are killed

Resource == Pmm \cup Rds
Server == Pmm \cup Given

\* discovered: the instances that RDS/Discover lists; registers: the percona_pmm
\* resources whose rds_username and rds_password are set; address: the server of
\* pmm_address at first; identifier: rds_id; password: that of the user for PMM.
ASSUME ConfigAssumption ==
  \A c \in Configs :
    /\ c.discovered \subseteq Database
    /\ c.registers \subseteq Pmm
    /\ c.address \in [Rds -> Server]
    /\ c.identifier \in [Rds -> Database]
    /\ DOMAIN c.password = Resource
ASSUME SetAssumption ==
  /\ Pmm \cap Rds = {} /\ Server \cap Rds = {} /\ Pmm \cap Given = {}
  /\ Database # {} /\ Engine \in [Database -> {"mysql", "postgresql", "other"}]
ASSUME BoundAssumption ==
  {MaxCreates, MaxUpdates, MaxFaults, MaxKills} \subseteq Nat

VARIABLES
  conf,      \* the arguments of the resources
  address,   \* the server of pmm_address in Terraform's configuration and state
  pc,        \* the call that the operation on a resource makes next
  id,        \* the resource id in Terraform's state; 0: none
  attempt,   \* how many Creates of a resource have begun
  todo,      \* the instances the loop of an operation has yet to reach
  db,        \* the instance it has reached
  alive,     \* the PMM servers that run
  services,  \* what is registered: server, db, and the label of its maker
  users,     \* the users for PMM on the instances, with the label of their maker
  rights,    \* what was granted to them
  updates,   \* the servers that an Update has moved a resource away from
  kills,     \* the Creates that each kill of a process has ended
  faults     \* the calls that failed although they could have succeeded

vars == <<conf, address, pc, id, attempt, todo, db, alive, services, users, rights,
          updates, kills, faults>>

Attempt == 1 .. MaxCreates
CreateStep ==
  {"launch", "discover", "user", "grant", "limit", "schema", "add", "return"}
DeleteStep == {"destroy", "list", "remove"}
Step == {"absent", "known"} \cup CreateStep \cup DeleteStep
Right == {"grant", "limit", "schema"}

\* The label of a service is the id that its Create has generated.
Label == Resource \X Attempt
Service == [server : Server, db : Database, by : Resource, n : Attempt]
User == [db : Database, by : Resource, n : Attempt]

\* The loop variables of an operation that is not in its loop.
First == CHOOSE d \in Database : TRUE

TypeOK ==
  /\ conf \in Configs
  /\ address \in [Rds -> Server]
  /\ pc \in [Resource -> Step]
  /\ id \in [Resource -> Attempt \cup {0}]
  /\ attempt \in [Resource -> Attempt \cup {0}]
  /\ todo \in [Resource -> SUBSET Database]
  /\ db \in [Resource -> Database]
  /\ alive \subseteq Server
  /\ services \subseteq Service
  /\ users \subseteq User
  /\ rights \subseteq Database \X Right
  /\ updates \in Seq(Label \X Server)
  /\ kills \in Seq(SUBSET Label)
  /\ faults \in Seq((CreateStep \cup DeleteStep) \X Label)

Init ==
  /\ conf \in Configs
  /\ address = conf.address
  /\ pc = [r \in Resource |-> "absent"]
  /\ id = [r \in Resource |-> 0]
  /\ attempt = [r \in Resource |-> 0]
  /\ todo = [r \in Resource |-> {}]
  /\ db = [r \in Resource |-> First]
  /\ alive = Given
  /\ services = {} /\ users = {} /\ rights = {}
  /\ updates = <<>> /\ kills = <<>> /\ faults = <<>>

-----------------------------------------------------------------------------
(* Calls.                                                                  *)

AddressOf(r) == IF r \in Pmm THEN r ELSE address[r]

Running(r) == pc[r] \notin {"absent", "known"}

\* The operations that Terraform orders with those on r: a percona_pmm_rds
\* resource depends on the percona_pmm resource whose address it refers to.
Dependent(r) ==
  {q \in Resource : (q \in Rds /\ address[q] = r) \/ (r \in Rds /\ address[r] = q)}

LabelOf(r) == <<r, attempt[r]>>

Fault(r) ==
  /\ Len(faults) < MaxFaults
  /\ faults' = Append(faults, <<pc[r], LabelOf(r)>>)

\* A call with its effect on the world: it succeeds (ok), or it fails (bad), with
\* or without the effect; it is refused when it may not succeed.
Try(r, may, effect, same, ok, bad) ==
  \/ may /\ effect /\ ((ok /\ UNCHANGED faults) \/ (bad /\ Fault(r)))
  \/ same /\ bad /\ (IF may THEN Fault(r) ELSE UNCHANGED faults)

Go(r, step) == pc' = [pc EXCEPT ![r] = step]
World == <<alive, services, users, rights>>

-----------------------------------------------------------------------------
(* Create.                                                                 *)

BeginCreate(r) ==
  /\ pc[r] = "absent"
  /\ attempt[r] < MaxCreates
  /\ \A q \in Dependent(r) : ~Running(q)
  /\ r \in Rds => AddressOf(r) \in alive
  /\ attempt' = [attempt EXCEPT ![r] = @ + 1]
  /\ Go(r, IF r \in Pmm THEN "launch" ELSE "discover")
  /\ UNCHANGED <<conf, address, updates, id, todo, db, World, kills, faults>>

To(r, step) == Go(r, step) /\ UNCHANGED <<id, todo, db>>

\* Create has put the id into the data of the resource, which Terraform gets when
\* the telemetry was sent; with or without an error.
Ended(r) == todo' = [todo EXCEPT ![r] = {}] /\ db' = [db EXCEPT ![r] = First]
Store(r) == Go(r, "return") /\ UNCHANGED id /\ Ended(r)

Return(r) ==
  /\ pc[r] = "return"
  /\ Go(r, "known")
  /\ id' = [id EXCEPT ![r] = attempt[r]]
  /\ UNCHANGED <<conf, address, updates, attempt, todo, db, World, kills, faults>>

\* The resource is not, or no longer, in Terraform's state.
Forget(r) ==
  Go(r, "absent") /\ id' = [id EXCEPT ![r] = 0] /\ Ended(r)

\* Configure, after which the id is stored; then CreateInfrastructure,
\* CreateInstances and the command that starts the server.
Launch(r) ==
  /\ pc[r] = "launch"
  /\ \/ Forget(r) /\ UNCHANGED alive /\ Fault(r)
     \/ Try(r, TRUE, alive' = alive \cup {r}, UNCHANGED alive,
            IF r \notin conf.registers THEN Store(r) ELSE To(r, "discover"), Store(r))
  /\ UNCHANGED <<conf, address, updates, attempt, services, users, rights, kills>>

\* A percona_pmm resource goes on with any of the instances that are left, and
\* ends well when there is none.
NextOf(r, left) ==
  \/ left = {} /\ Store(r)
  \/ \E d \in left :
       /\ Go(r, "user")
       /\ todo' = [todo EXCEPT ![r] = left \ {d}]
       /\ db' = [db EXCEPT ![r] = d]
       /\ UNCHANGED id

\* percona_pmm_rds looks for its own instance in the list, which may lack it.
Discover(r) ==
  /\ pc[r] = "discover"
  /\ Try(r, AddressOf(r) \in alive /\ (r \in Rds => conf.identifier[r] \in conf.discovered),
         TRUE, TRUE,
         NextOf(r, IF r \in Pmm THEN conf.discovered ELSE {conf.identifier[r]}),
         IF r \in Pmm THEN Store(r) ELSE Forget(r))
  /\ UNCHANGED <<conf, address, updates, attempt, World, kills>>

\* An error of AddRDSInstanceToPMM ends the Create of a percona_pmm_rds resource;
\* that of a percona_pmm resource logs it.
Failed(r) == IF r \in Pmm THEN NextOf(r, todo[r]) ELSE Forget(r)
Registered(r) == IF r \in Pmm THEN NextOf(r, todo[r]) ELSE Store(r)

Work(r, step, may, effect, same, ok) ==
  /\ pc[r] = step
  /\ Try(r, may, effect, same, ok, Failed(r))
  /\ UNCHANGED <<conf, address, updates, attempt, kills>>

HasUser(d) == \E u \in users : u.db = d

MadeUser(r) == [db |-> db[r], by |-> r, n |-> attempt[r]]

\* Mutant: the user gets the password of the last Create.
CreateUserAnew(r) ==
  /\ Work(r, "user", Engine[db[r]] # "other",
          users' = {u \in users : u.db # db[r]} \cup {MadeUser(r)}, UNCHANGED users, To(r, "grant"))
  /\ UNCHANGED <<alive, services, rights>>

\* MySQL keeps the user that exists, with its password; PostgreSQL refuses to
\* make it again; other engines are not supported.
CreateUser(r) ==
  LET new == IF HasUser(db[r]) THEN users ELSE users \cup {MadeUser(r)}
      may == \/ Engine[db[r]] = "mysql"
             \/ Engine[db[r]] = "postgresql" /\ ~HasUser(db[r])
  IN  /\ Work(r, "user", may, users' = new, UNCHANGED users, To(r, "grant"))
      /\ UNCHANGED <<alive, services, rights>>

GrantTo(r, right, next) ==
  /\ Work(r, right, TRUE, rights' = rights \cup {<<db[r], right>>}, UNCHANGED rights,
          To(r, next))
  /\ UNCHANGED <<alive, services, users>>

Grant(r) == GrantTo(r, "grant", "limit")
SetLimit(r) == GrantTo(r, "limit", IF Engine[db[r]] = "mysql" THEN "schema" ELSE "add")
GrantSchema(r) == GrantTo(r, "schema", "add")

\* Mutant: the address of the server is taken for the server.
MadeServiceUnresolved(r) == [server |-> r, db |-> db[r], by |-> r, n |-> attempt[r]]

MadeService(r) == [server |-> AddressOf(r), db |-> db[r], by |-> r, n |-> attempt[r]]

\* The server connects to the instance, and has one service of a name.
Accepts(r) ==
  /\ AddressOf(r) \in alive
  /\ \A x \in services : ~(x.server = AddressOf(r) /\ x.db = db[r])
  /\ \E u \in users : u.db = db[r] /\ conf.password[u.by] = conf.password[r]

\* Only now is the id of a percona_pmm_rds resource stored.
AddService(r) ==
  /\ Work(r, "add", Accepts(r), services' = services \cup {MadeService(r)},
          UNCHANGED services, Registered(r))
  /\ UNCHANGED <<alive, users, rights>>

CreateNext(r) ==
  \/ BeginCreate(r) \/ Launch(r) \/ Discover(r)
  \/ CreateUser(r) \/ Grant(r) \/ SetLimit(r) \/ GrantSchema(r) \/ AddService(r)
  \/ Return(r)

-----------------------------------------------------------------------------
(* Delete.                                                                 *)

\* A percona_pmm resource may be replaced while others refer to it.
BeginDelete(r) ==
  /\ pc[r] = "known"
  /\ \A q \in Dependent(r) : ~Running(q)
  /\ Go(r, IF r \in Pmm THEN "destroy" ELSE "list")
  /\ UNCHANGED <<conf, address, updates, id, attempt, todo, db, World, kills, faults>>

Keep(r) == Go(r, "known") /\ UNCHANGED id /\ Ended(r)

\* DeleteInfrastructure of the cloud; the services go with their server.
Destroy(r) ==
  /\ pc[r] = "destroy"
  /\ Try(r, TRUE,
         alive' = alive \ {r} /\ services' = {x \in services : x.server # r},
         UNCHANGED <<alive, services>>, Forget(r), Keep(r))
  /\ UNCHANGED <<conf, address, updates, attempt, users, rights, kills>>

OwnServices(r) ==
  {x \in services : x.server = AddressOf(r) /\ x.by = r /\ x.n = id[r]}

\* Mutant: the services of a resource are found by their name.
ListByName(r) ==
  /\ pc[r] = "list"
  /\ Try(r, AddressOf(r) \in alive, TRUE, TRUE,
         /\ Go(r, "remove")
         /\ todo' = [todo EXCEPT ![r] = {x.db : x \in {y \in services :
                       y.server = AddressOf(r) /\ y.db = conf.identifier[r]}}]
         /\ UNCHANGED <<id, db>>,
         Keep(r))
  /\ UNCHANGED <<conf, address, updates, attempt, World, kills>>

\* Mutant: it is an error if no service has the label of the resource.
ListSome(r) ==
  /\ pc[r] = "list"
  /\ Try(r, AddressOf(r) \in alive /\ OwnServices(r) # {}, TRUE, TRUE,
         /\ Go(r, "remove")
         /\ todo' = [todo EXCEPT ![r] = {x.db : x \in OwnServices(r)}]
         /\ UNCHANGED <<id, db>>,
         Keep(r))
  /\ UNCHANGED <<conf, address, updates, attempt, World, kills>>

\* ServicesList: those with the label of the resource are to be removed.
List(r) ==
  /\ pc[r] = "list"
  /\ Try(r, AddressOf(r) \in alive, TRUE, TRUE,
         /\ Go(r, "remove")
         /\ todo' = [todo EXCEPT ![r] = {x.db : x \in OwnServices(r)}]
         /\ UNCHANGED <<id, db>>,
         Keep(r))
  /\ UNCHANGED <<conf, address, updates, attempt, World, kills>>

\* Mutant: an error of a removal is logged.
RemoveAnyway(r) ==
  /\ pc[r] = "remove"
  /\ IF todo[r] = {} THEN Forget(r) /\ UNCHANGED <<services, faults>>
     ELSE \E d \in todo[r] :
            /\ Go(r, "remove") /\ todo' = [todo EXCEPT ![r] = @ \ {d}]
            /\ UNCHANGED <<id, db>>
            /\ \/ /\ services' = {x \in services : ~(x.server = AddressOf(r) /\ x.db = d)}
                  /\ UNCHANGED faults
               \/ UNCHANGED services /\ Fault(r)
  /\ UNCHANGED <<conf, address, updates, attempt, alive, users, rights, kills>>

\* ServicesRemove, one service after the other.
Remove(r) ==
  /\ pc[r] = "remove"
  /\ IF todo[r] = {} THEN Forget(r) /\ UNCHANGED <<services, faults>>
     ELSE \E d \in todo[r] :
            Try(r, AddressOf(r) \in alive,
                services' = {x \in services : ~(x.server = AddressOf(r) /\ x.db = d)},
                UNCHANGED services,
                /\ Go(r, "remove") /\ todo' = [todo EXCEPT ![r] = @ \ {d}]
                /\ UNCHANGED <<id, db>>,
                Keep(r))
  /\ UNCHANGED <<conf, address, updates, attempt, alive, users, rights, kills>>

DeleteNext(r) == BeginDelete(r) \/ Destroy(r) \/ List(r) \/ Remove(r)

-----------------------------------------------------------------------------
(* Update.                                                                 *)

\* Update calls nobody, and Terraform stores the new address: the server that the
\* resource has registered its instance at is not told.
Update(r) ==
  /\ pc[r] = "known"
  /\ Len(updates) < MaxUpdates
  /\ \E server \in alive \ {address[r]} :
       /\ \A q \in Dependent(r) \cup ({server} \cap Pmm) : ~Running(q)
       /\ address' = [address EXCEPT ![r] = server]
  /\ updates' = Append(updates, <<LabelOf(r), address[r]>>)
  /\ UNCHANGED <<conf, pc, id, attempt, todo, db, World, kills, faults>>

-----------------------------------------------------------------------------
(* The provider process is killed: Terraform keeps what it is deleting, and *)
(* never learns of what it was creating.  A server whose address is in no   *)
(* state is out of everybody's reach.                                       *)

Creating == {r \in Resource : pc[r] \in CreateStep}

Kill ==
  /\ Len(kills) < MaxKills
  /\ \E r \in Resource : Running(r)
  /\ pc' = [r \in Resource |->
              IF r \in Creating THEN "absent" ELSE IF Running(r) THEN "known" ELSE pc[r]]
  /\ id' = [r \in Resource |-> IF r \in Creating THEN 0 ELSE id[r]]
  /\ alive' = alive \ (Creating \cap Pmm)
  /\ services' = {x \in services : x.server \notin Creating \cap Pmm}
  /\ kills' = Append(kills, {LabelOf(r) : r \in Creating})
  /\ todo' = [r \in Resource |-> {}] /\ db' = [r \in Resource |-> First]
  /\ UNCHANGED <<conf, address, updates, attempt, users, rights, faults>>

Next ==
  \/ \E r \in Resource : CreateNext(r) \/ DeleteNext(r)
  \/ \E r \in Rds : Update(r)
  \/ Kill

Spec == Init /\ [][Next]_vars

\* What the provider has begun goes on; somebody repeats the destroy of the
\* percona_pmm_rds resources until it succeeds.
OperatorSpec ==
  /\ Spec
  /\ \A r \in Resource : WF_vars(Running(r) /\ (CreateNext(r) \/ DeleteNext(r)))
  /\ \A r \in Rds : WF_vars(BeginDelete(r))

-----------------------------------------------------------------------------
(* What the code guarantees.                                               *)

\* A service of a percona_pmm_rds resource that no destroy would remove, because
\* its label is in no state, or in one with another address, is left by a Create
\* that never had the answer of RDS/Add, or that was killed before it returned, or
\* by an Update away from its server; and by no Delete that went to the server it
\* is at, however that was interrupted.  (rds.go:32-36, 95-104, 114-133,
\* util.go:15-61)
OrphansAccounted ==
  \A x \in services : x.by \in Rds =>
    \/ /\ x.server = AddressOf(x.by)
       /\ id[x.by] = x.n \/ (pc[x.by] = "return" /\ attempt[x.by] = x.n)
    \/ \E k \in DOMAIN updates : updates[k] = <<<<x.by, x.n>>, x.server>>
    \/ \E k \in DOMAIN faults : faults[k] = <<"add", <<x.by, x.n>>>>
    \/ \E k \in DOMAIN kills : <<x.by, x.n>> \in kills[k]

\* What is registered stays registered, until the resource that did it is
\* destroyed, or the server is: no other resource for the same instance or the
\* same server removes it, and no later life of the same resource does.
\* (util.go:15-61)
OnlyOwnServices ==
  [][\A x \in services \ services' :
       \/ pc[x.by] = "remove" /\ id[x.by] = x.n
       \/ x.server \in alive \ alive']_vars

\* The user that a service logs in with is there as long as the service, with its
\* password and its rights, whatever other Creates do to the same instance.  On
\* PostgreSQL it is the one its own Create has made: an instance is registered
\* once, by the first Create that gets as far as the user, and never again.
\* (util.go:63-116, mysql.go:95-101, 155-169, psql.go:34-61)
ServicesWork ==
  \A x \in services :
    \E u \in users :
      /\ u.db = x.db /\ conf.password[u.by] = conf.password[x.by]
      /\ Engine[x.db] = "postgresql" => u.by = x.by /\ u.n = x.n
      /\ {x.db} \X {"grant", "limit"} \subseteq rights
      /\ Engine[x.db] = "mysql" => <<x.db, "schema">> \in rights

\* Repeated destroys of a percona_pmm_rds resource come to an end, as long as its
\* server is there.  (rds.go:119-138)
DestroyConverges ==
  \A r \in Rds : id[r] # 0 ~> (id[r] = 0 \/ AddressOf(r) \notin alive)
=============================================================================
