------------------------- MODULE PmmServicesProofs -------------------------
(* Proofs about PmmServices, for all accounts, arguments and bounds.       *)
EXTENDS PmmServices, TLAPS

-----------------------------------------------------------------------------
(* Types.                                                                  *)

LEMMA FirstType == First \in Database
  BY SetAssumption DEF First

LEMMA InitType == Init => TypeOK
  BY FirstType, ConfigAssumption, SetAssumption, BoundAssumption
     DEF Init, TypeOK, Step, Attempt, Server

LEMMA AddressType == ASSUME TypeOK, NEW r \in Resource PROVE AddressOf(r) \in Server
  BY ConfigAssumption DEF TypeOK, AddressOf, Resource, Server

\* What the pieces of a call do to the types.
LEMMA FaultType ==
  ASSUME TypeOK, NEW r \in Resource, pc[r] \in CreateStep \cup DeleteStep,
         attempt[r] \in Attempt, Fault(r)
  PROVE  faults' \in Seq((CreateStep \cup DeleteStep) \X Label)
  BY DEF TypeOK, Fault, LabelOf, Label

Loop == <<pc, id, todo, db>>

LoopType ==
  /\ pc \in [Resource -> Step]
  /\ id \in [Resource -> Attempt \cup {0}]
  /\ todo \in [Resource -> SUBSET Database]
  /\ db \in [Resource -> Database]

LEMMA ToType ==
  ASSUME TypeOK, NEW r \in Resource, NEW s \in Step, To(r, s)
  PROVE  LoopType'
  BY DEF TypeOK, LoopType, To, Go

LEMMA StoreType ==
  ASSUME TypeOK, NEW r \in Resource, Store(r)
  PROVE  LoopType'
  BY FirstType DEF TypeOK, LoopType, Store, Go, Ended, Step, CreateStep

LEMMA ForgetType ==
  ASSUME TypeOK, NEW r \in Resource, Forget(r)
  PROVE  LoopType'
  BY FirstType DEF TypeOK, LoopType, Forget, Go, Ended, Step

LEMMA KeepType ==
  ASSUME TypeOK, NEW r \in Resource, Keep(r)
  PROVE  LoopType'
  BY FirstType DEF TypeOK, LoopType, Keep, Go, Ended, Step

LEMMA NextOfType ==
  ASSUME TypeOK, NEW r \in Resource, NEW left \in SUBSET Database, NextOf(r, left)
  PROVE  LoopType'
<1>1. CASE Store(r)
  BY <1>1, StoreType
<1>2. CASE \E d \in left :
             /\ Go(r, "user")
             /\ todo' = [todo EXCEPT ![r] = left \ {d}]
             /\ db' = [db EXCEPT ![r] = d]
             /\ UNCHANGED id
  BY <1>2 DEF TypeOK, LoopType, Go, Step, CreateStep
<1>. QED  BY <1>1, <1>2 DEF NextOf

LEMMA FailedType ==
  ASSUME TypeOK, NEW r \in Resource, Failed(r)
  PROVE  LoopType'
<1>. todo[r] \in SUBSET Database
  BY DEF TypeOK
<1>. QED  BY NextOfType, ForgetType DEF Failed

LEMMA RegisteredType ==
  ASSUME TypeOK, NEW r \in Resource, Registered(r)
  PROVE  LoopType'
<1>. todo[r] \in SUBSET Database
  BY DEF TypeOK
<1>. QED  BY NextOfType, StoreType DEF Registered

\* A resource that is in a state of its own has begun a Create; only its kind
\* starts and removes servers, or removes services.
Begun ==
  \A r \in Resource :
    /\ pc[r] # "absent" => attempt[r] \in Attempt
    /\ pc[r] \in {"launch", "destroy"} => r \in Pmm
    /\ pc[r] \in {"list", "remove"} => r \in Rds

\* The steps that an operation of either kind may come to.
Later == {"absent", "known"} \cup (CreateStep \ {"launch"})

TypeInv == TypeOK /\ Begun

LEMMA InitBegun == Init => Begun
  BY DEF Init, Begun

\* The log of failed calls, which grows at most by the call of r.
FaultsOK == faults \in Seq((CreateStep \cup DeleteStep) \X Label)

LEMMA FaultsType ==
  ASSUME TypeInv, NEW r \in Resource, pc[r] \in CreateStep \cup DeleteStep,
         Fault(r) \/ UNCHANGED faults
  PROVE  FaultsOK'
<1>. attempt[r] \in Attempt
  BY DEF TypeInv, Begun, CreateStep, DeleteStep
<1>1. CASE Fault(r)
  BY <1>1, FaultType DEF TypeInv, FaultsOK
<1>2. CASE UNCHANGED faults
  BY <1>2 DEF TypeInv, TypeOK, FaultsOK
<1>. QED  BY <1>1, <1>2

\* A step of r leaves the others where they are, and does not undo its Creates.
LEMMA BegunStep ==
  ASSUME TypeInv, LoopType', UNCHANGED attempt, NEW r \in Resource, pc[r] # "absent",
         \E s \in Later : pc' = [pc EXCEPT ![r] = s]
  PROVE  Begun'
  BY DEF TypeInv, TypeOK, Begun, Later, CreateStep

LEMMA BeginCreateType == ASSUME TypeInv, NEW r \in Resource, BeginCreate(r) PROVE TypeInv'
  BY BoundAssumption
     DEF TypeInv, TypeOK, Begun, BeginCreate, Go, World, Step, CreateStep, Attempt

LEMMA ReturnType == ASSUME TypeInv, NEW r \in Resource, Return(r) PROVE TypeInv'
  BY DEF TypeInv, TypeOK, Begun, Return, Go, World, Step, CreateStep

LEMMA BeginDeleteType == ASSUME TypeInv, NEW r \in Resource, BeginDelete(r) PROVE TypeInv'
<1>1. TypeOK'
  BY DEF TypeInv, TypeOK, BeginDelete, Go, World, Step, DeleteStep
<1>2. Begun'
  BY DEF TypeInv, TypeOK, Begun, BeginDelete, Go, Resource
<1>. QED  BY <1>1, <1>2 DEF TypeInv

LEMMA UpdateType == ASSUME TypeInv, NEW r \in Rds, Update(r) PROVE TypeInv'
<1>1. r \in Resource /\ pc[r] = "known" /\ attempt[r] \in Attempt
  BY DEF Update, Resource, TypeInv, Begun
<1>2. address' \in [Rds -> Server]
  BY DEF Update, TypeInv, TypeOK
<1>3. updates' \in Seq(Label \X Server)
  <2>1. address[r] \in Server
    BY DEF Update, TypeInv, TypeOK
  <2>2. <<LabelOf(r), address[r]>> \in Label \X Server
    BY <1>1, <2>1 DEF Label, LabelOf
  <2>. QED  BY <2>2 DEF Update, TypeInv, TypeOK
<1>4. UNCHANGED <<conf, pc, id, attempt, todo, db, alive, services, users, rights, kills, faults>>
  BY DEF Update, World
<1>. QED  BY <1>2, <1>3, <1>4 DEF TypeInv, TypeOK, Begun

LEMMA KillType == ASSUME TypeInv, Kill PROVE TypeInv'
<1>. DEFINE ended == {LabelOf(r) : r \in Creating}
<1>1. ended \in SUBSET Label
  BY DEF TypeInv, TypeOK, Begun, LabelOf, Label, Creating, CreateStep
<1>2. kills' \in Seq(SUBSET Label)
  BY <1>1 DEF Kill, TypeInv, TypeOK
<1>. QED
  BY <1>2, FirstType DEF TypeInv, TypeOK, Begun, Kill, Step, Creating, Running

\* The pieces the other steps are made of.
LEMMA LoopSteps ==
  ASSUME TypeInv, NEW r \in Resource, NEW left \in SUBSET Database,
         \/ Store(r) \/ Forget(r) \/ Keep(r) \/ NextOf(r, left)
         \/ Failed(r) \/ Registered(r) \/ \E s \in Later : To(r, s)
  PROVE  LoopType' /\ \E s \in Later : pc' = [pc EXCEPT ![r] = s]
<1>1. LoopType'
  BY StoreType, ForgetType, KeepType, NextOfType, FailedType, RegisteredType, ToType
     DEF TypeInv, Later, Step
<1>2. \E s \in Later : pc' = [pc EXCEPT ![r] = s]
  BY DEF Store, Forget, Keep, NextOf, Failed, Registered, To, Go, Later, CreateStep
<1>. QED  BY <1>1, <1>2

\* A step of an operation on r that keeps the types of the world.
LEMMA StepType ==
  ASSUME TypeInv, NEW r \in Resource, pc[r] \in CreateStep \cup DeleteStep,
         UNCHANGED <<conf, address, updates, attempt, kills>>,
         Fault(r) \/ UNCHANGED faults,
         NEW left \in SUBSET Database,
         \/ Store(r) \/ Forget(r) \/ Keep(r) \/ NextOf(r, left)
         \/ Failed(r) \/ Registered(r) \/ \E s \in Later : To(r, s),
         alive' \subseteq Server, services' \subseteq Service,
         users' \subseteq User, rights' \subseteq Database \X Right
  PROVE  TypeInv'
<1>1. LoopType' /\ \E s \in Later : pc' = [pc EXCEPT ![r] = s]
  BY LoopSteps
<1>2. FaultsOK'
  BY FaultsType
<1>3. Begun'
  BY <1>1, BegunStep DEF CreateStep, DeleteStep
<1>. QED  BY <1>1, <1>2, <1>3 DEF TypeInv, TypeOK, LoopType, FaultsOK

LEMMA LaunchType == ASSUME TypeInv, NEW r \in Resource, Launch(r) PROVE TypeInv'
<1>1. alive' \subseteq Server
  BY DEF Launch, Try, TypeInv, TypeOK, Begun, Server
<1>2. Store(r) \/ Forget(r) \/ \E s \in Later : To(r, s)
  BY DEF Launch, Try, Later, CreateStep
<1>3. Fault(r) \/ UNCHANGED faults
  BY DEF Launch, Try
<1>4. /\ pc[r] \in CreateStep
      /\ UNCHANGED <<conf, address, updates, attempt, services, users, rights, kills>>
  BY DEF Launch, CreateStep
<1>. QED  BY <1>1, <1>2, <1>3, <1>4, StepType DEF TypeInv, TypeOK

LEMMA DiscoverType == ASSUME TypeInv, NEW r \in Resource, Discover(r) PROVE TypeInv'
<1>. DEFINE found == IF r \in Pmm THEN conf.discovered ELSE {conf.identifier[r]}
<1>1. found \in SUBSET Database
  BY ConfigAssumption DEF TypeInv, TypeOK, Resource
<1>2. NextOf(r, found) \/ Store(r) \/ Forget(r)
  BY DEF Discover, Try
<1>3. Fault(r) \/ UNCHANGED faults
  BY DEF Discover, Try
<1>4. pc[r] \in CreateStep /\ UNCHANGED <<conf, address, updates, attempt, alive, services, users, rights, kills>>
  BY DEF Discover, CreateStep, World
<1>. HIDE DEF found
<1>. QED  BY <1>1, <1>2, <1>3, <1>4, StepType DEF TypeInv, TypeOK

LEMMA CreateUserType == ASSUME TypeInv, NEW r \in Resource, CreateUser(r) PROVE TypeInv'
<1>1. users' = users \/ users' = users \cup {MadeUser(r)}
  BY DEF CreateUser, Work, Try
<1>2. To(r, "grant") \/ Failed(r)
  BY DEF CreateUser, Work, Try
<1>3. Fault(r) \/ UNCHANGED faults
  BY DEF CreateUser, Work, Try
<1>4. pc[r] \in CreateStep /\ UNCHANGED <<conf, address, updates, attempt, alive, services, rights, kills>>
  BY DEF CreateUser, Work, CreateStep
<1>5. MadeUser(r) \in User
  BY <1>4 DEF MadeUser, User, TypeInv, TypeOK, Begun, CreateStep
<1>6. users' \subseteq User
  BY <1>1, <1>5 DEF TypeInv, TypeOK
<1>7. "grant" \in Later
  BY DEF Later, CreateStep
<1>. QED  BY <1>2, <1>3, <1>4, <1>6, <1>7, StepType DEF TypeInv, TypeOK

LEMMA GrantToType ==
  ASSUME TypeInv, NEW r \in Resource, NEW right \in Right, NEW next \in Later,
         GrantTo(r, right, next)
  PROVE  TypeInv'
<1>1. rights' = rights \/ rights' = rights \cup {<<db[r], right>>}
  BY DEF GrantTo, Work, Try
<1>2. To(r, next) \/ Failed(r)
  BY DEF GrantTo, Work, Try
<1>3. Fault(r) \/ UNCHANGED faults
  BY DEF GrantTo, Work, Try
<1>4. pc[r] \in CreateStep /\ UNCHANGED <<conf, address, updates, attempt, alive, services, users, kills>>
  BY DEF GrantTo, Work, CreateStep, Right
<1>5. rights' \subseteq Database \X Right
  BY <1>1 DEF TypeInv, TypeOK
<1>. QED  BY <1>2, <1>3, <1>4, <1>5, StepType DEF TypeInv, TypeOK

LEMMA AddServiceType == ASSUME TypeInv, NEW r \in Resource, AddService(r) PROVE TypeInv'
<1>1. services' = services \/ services' = services \cup {MadeService(r)}
  BY DEF AddService, Work, Try
<1>2. Registered(r) \/ Failed(r)
  BY DEF AddService, Work, Try
<1>3. Fault(r) \/ UNCHANGED faults
  BY DEF AddService, Work, Try
<1>4. pc[r] \in CreateStep /\ UNCHANGED <<conf, address, updates, attempt, alive, users, rights, kills>>
  BY DEF AddService, Work, CreateStep
<1>5. MadeService(r) \in Service
  BY <1>4, AddressType DEF MadeService, Service, TypeInv, TypeOK, Begun, CreateStep
<1>6. services' \subseteq Service
  BY <1>1, <1>5 DEF TypeInv, TypeOK
<1>. QED  BY <1>2, <1>3, <1>4, <1>6, StepType DEF TypeInv, TypeOK

LEMMA DestroyType == ASSUME TypeInv, NEW r \in Resource, Destroy(r) PROVE TypeInv'
<1>1. alive' \subseteq alive /\ services' \subseteq services
  BY DEF Destroy, Try
<1>2. Keep(r) \/ Forget(r)
  BY DEF Destroy, Try
<1>3. Fault(r) \/ UNCHANGED faults
  BY DEF Destroy, Try
<1>4. pc[r] \in DeleteStep /\ UNCHANGED <<conf, address, updates, attempt, users, rights, kills>>
  BY DEF Destroy, DeleteStep
<1>. QED  BY <1>1, <1>2, <1>3, <1>4, StepType DEF TypeInv, TypeOK

LEMMA ListType == ASSUME TypeInv, NEW r \in Resource, List(r) PROVE TypeInv'
<1>. DEFINE own == {x.db : x \in OwnServices(r)}
<1>1. own \in SUBSET Database
  BY DEF OwnServices, TypeInv, TypeOK, Service
<1>2. \/ Keep(r)
      \/ Go(r, "remove") /\ todo' = [todo EXCEPT ![r] = own] /\ UNCHANGED <<id, db>>
  BY DEF List, Try
<1>3. Fault(r) \/ UNCHANGED faults
  BY DEF List, Try
<1>4. pc[r] \in DeleteStep /\ UNCHANGED <<conf, address, updates, attempt, alive, services, users, rights, kills>>
  BY DEF List, DeleteStep, World
<1>. HIDE DEF own
<1>5. CASE Keep(r)
  BY <1>3, <1>4, <1>5, StepType DEF TypeInv, TypeOK
<1>6. CASE Go(r, "remove") /\ todo' = [todo EXCEPT ![r] = own] /\ UNCHANGED <<id, db>>
  <2>1. FaultsOK'
    BY <1>3, <1>4, FaultsType
  <2>2. TypeOK'
    BY <1>1, <1>4, <1>6, <2>1 DEF TypeInv, TypeOK, Go, FaultsOK, Step, DeleteStep
  <2>3. pc[r] \in {"list", "remove"}
    BY DEF List
  <2>4. Begun'
    BY <1>4, <1>6, <2>3 DEF TypeInv, TypeOK, Begun, Go
  <2>. QED  BY <2>2, <2>4 DEF TypeInv
<1>. QED  BY <1>2, <1>5, <1>6

LEMMA RemoveType == ASSUME TypeInv, NEW r \in Resource, Remove(r) PROVE TypeInv'
<1>1. services' \subseteq services
  BY DEF Remove, Try
<1>2. \/ Keep(r) \/ Forget(r)
      \/ \E d \in todo[r] :
           Go(r, "remove") /\ todo' = [todo EXCEPT ![r] = @ \ {d}] /\ UNCHANGED <<id, db>>
  BY DEF Remove, Try
<1>3. Fault(r) \/ UNCHANGED faults
  BY DEF Remove, Try
<1>4. pc[r] \in DeleteStep /\ UNCHANGED <<conf, address, updates, attempt, alive, users, rights, kills>>
  BY DEF Remove, DeleteStep
<1>5. CASE Keep(r) \/ Forget(r)
  BY <1>1, <1>3, <1>4, <1>5, StepType DEF TypeInv, TypeOK
<1>6. ASSUME NEW d \in todo[r],
             Go(r, "remove") /\ todo' = [todo EXCEPT ![r] = @ \ {d}] /\ UNCHANGED <<id, db>>
      PROVE  TypeInv'
  <2>1. FaultsOK'
    BY <1>3, <1>4, FaultsType
  <2>2. TypeOK'
    BY <1>1, <1>4, <1>6, <2>1 DEF TypeInv, TypeOK, Go, FaultsOK, Step, DeleteStep
  <2>3. pc[r] \in {"list", "remove"}
    BY DEF Remove
  <2>4. Begun'
    BY <1>4, <1>6, <2>3 DEF TypeInv, TypeOK, Begun, Go
  <2>. QED  BY <2>2, <2>4 DEF TypeInv
<1>. QED  BY <1>2, <1>5, <1>6

LEMMA NextType == ASSUME TypeInv, [Next]_vars PROVE TypeInv'
<1>1. ASSUME NEW r \in Resource, CreateNext(r) PROVE TypeInv'
  <2>. {"grant", "limit", "schema"} \subseteq Right /\ {"limit", "schema", "add"} \subseteq Later
    BY DEF Right, Later, CreateStep
  <2>1. CASE Grant(r) \/ SetLimit(r) \/ GrantSchema(r)
    BY <2>1, GrantToType DEF Grant, SetLimit, GrantSchema
  <2>. QED
    BY <1>1, <2>1, BeginCreateType, LaunchType, DiscoverType, CreateUserType,
       AddServiceType, ReturnType DEF CreateNext
<1>2. ASSUME NEW r \in Resource, DeleteNext(r) PROVE TypeInv'
  BY <1>2, BeginDeleteType, DestroyType, ListType, RemoveType DEF DeleteNext
<1>3. CASE UNCHANGED vars
  BY <1>3 DEF vars, TypeInv, TypeOK, Begun
<1>. QED  BY <1>1, <1>2, <1>3, UpdateType, KillType DEF Next

\* Every variable always has its type: resources, labels, services and the loop
\* variables of the operations on them.
THEOREM TypeCorrect == Spec => []TypeOK
<1>1. Init => TypeInv
  BY InitType, InitBegun DEF TypeInv
<1>2. TypeInv /\ [Next]_vars => TypeInv'
  BY NextType
<1>. QED  BY <1>1, <1>2, PTL DEF Spec, TypeInv

-----------------------------------------------------------------------------
(* Who removes what.                                                       *)

\* An Update has moved the maker of a service away from its server.
Moved(x) == \E k \in DOMAIN updates : updates[k] = <<<<x.by, x.n>>, x.server>>

\* Services have the labels of Creates that have begun; those of the latest one of
\* a percona_pmm_rds resource are at its address, unless it was moved away; a server
\* has one service of an instance, and the services go with their server.
Located ==
  \A x \in services :
    /\ x.n <= attempt[x.by]
    /\ x.by \in Rds /\ x.n = attempt[x.by] => x.server = AddressOf(x.by) \/ Moved(x)
Unique ==
  \A x \in services : \A y \in services : x.server = y.server /\ x.db = y.db => x = y
Served == \A x \in services : x.server \in alive

\* The id is stored by the last step of a Create, and is that of the latest one.
Unstored ==
  \A r \in Resource :
    id[r] = IF pc[r] \in {"absent"} \cup CreateStep THEN 0 ELSE attempt[r]

\* The loop of a Delete has the instances of the services that it has to remove.
Listed ==
  \A r \in Resource : pc[r] = "remove" =>
    /\ \A d \in todo[r] : \E x \in services :
         x.server = AddressOf(r) /\ x.db = d /\ x.by = r /\ x.n = id[r]
    /\ \A x \in services :
         x.by = r /\ x.n = id[r] /\ x.server = AddressOf(r) => x.db \in todo[r]

Exclusive ==
  \A r \in Resource : Running(r) => \A q \in Dependent(r) : ~Running(q)

Book ==
  /\ Located /\ Unique /\ Served
  /\ Unstored /\ Listed /\ Exclusive /\ OrphansAccounted
BookInv == TypeInv /\ Book

LEMMA InitBook == Init => Book
  BY DEF Init, Book, Located, Unique, Served, Unstored, Listed, Exclusive, Running,
         OrphansAccounted

\* What a step of r leaves alone.
Others(r) ==
  \A q \in Resource \ {r} :
    pc'[q] = pc[q] /\ id'[q] = id[q] /\ todo'[q] = todo[q] /\ db'[q] = db[q]

\* What was logged stays logged.
Logged ==
  /\ \A k \in DOMAIN faults : k \in DOMAIN faults' /\ faults'[k] = faults[k]
  /\ \A k \in DOMAIN kills : k \in DOMAIN kills' /\ kills'[k] = kills[k]

LEMMA FaultLogged ==
  ASSUME TypeInv, NEW r \in Resource, Fault(r) \/ UNCHANGED faults, UNCHANGED kills
  PROVE  Logged
<1>1. CASE Fault(r)
  <2>. DEFINE f == <<pc[r], LabelOf(r)>>
              Call == ((CreateStep \cup DeleteStep) \X Label) \cup {f}
  <2>1. faults \in Seq(Call)
    BY DEF TypeInv, TypeOK
  <2>2. f \in Call /\ faults' = Append(faults, f)
    BY <1>1 DEF Fault
  <2>. HIDE DEF f, Call
  <2>3. \A k \in DOMAIN faults : k \in DOMAIN faults' /\ faults'[k] = faults[k]
    BY <2>1, <2>2
  <2>. QED  BY <2>3 DEF Logged
<1>2. CASE UNCHANGED faults
  BY <1>2 DEF Logged
<1>. QED  BY <1>1, <1>2

LEMMA OthersStay ==
  ASSUME TypeInv, NEW r \in Resource, NEW left,
         \/ Store(r) \/ Forget(r) \/ Keep(r) \/ NextOf(r, left)
         \/ Failed(r) \/ Registered(r) \/ \E s \in Later : To(r, s)
  PROVE  Others(r)
<1>1. NextOf(r, left) => Others(r)
  BY DEF NextOf, Store, Ended, Go, Others, TypeInv, TypeOK
<1>2. NextOf(r, todo[r]) => Others(r)
  BY DEF NextOf, Store, Ended, Go, Others, TypeInv, TypeOK
<1>3. (Store(r) \/ Forget(r) \/ Keep(r) \/ \E s \in Later : To(r, s)) => Others(r)
  BY DEF Store, Forget, Keep, To, Ended, Go, Others, TypeInv, TypeOK
<1>. QED  BY <1>1, <1>2, <1>3 DEF Failed, Registered

\* The property, of one service.
Accounted(x) ==
  \/ /\ x.server = AddressOf(x.by)
     /\ id[x.by] = x.n \/ (pc[x.by] = "return" /\ attempt[x.by] = x.n)
  \/ Moved(x)
  \/ \E k \in DOMAIN faults : faults[k] = <<"add", <<x.by, x.n>>>>
  \/ \E k \in DOMAIN kills : <<x.by, x.n>> \in kills[k]

LEMMA OrphansKept ==
  ASSUME BookInv, NEW r \in Resource, Others(r), Logged,
         UNCHANGED <<attempt, address, updates>>, pc[r] # "return",
         \/ id'[r] = id[r]
         \/ r \in Pmm
         \/ \A x \in services : x.by = r /\ x.server = AddressOf(r) => x.n # id[r]
  PROVE  \A x \in services : x.by \in Rds => Accounted(x)'
<1>. SUFFICES ASSUME NEW x \in services, x.by \in Rds
              PROVE  Accounted(x)'
  OBVIOUS
<1>. x.by \in Resource
  BY DEF Resource
<1>0. AddressOf(x.by)' = AddressOf(x.by) /\ Moved(x)' = Moved(x)
  BY DEF AddressOf, Moved
<1>1. Accounted(x)
  BY DEF BookInv, Book, OrphansAccounted, Accounted, Moved
<1>2. CASE \/ Moved(x)
           \/ \E k \in DOMAIN faults : faults[k] = <<"add", <<x.by, x.n>>>>
           \/ \E k \in DOMAIN kills : <<x.by, x.n>> \in kills[k]
  BY <1>0, <1>2 DEF Logged, Accounted
<1>3. CASE x.by # r
  BY <1>0, <1>1, <1>2, <1>3 DEF Others, Accounted
<1>4. CASE x.by = r
  BY <1>0, <1>1, <1>2, <1>4, SetAssumption DEF Accounted, Server
<1>. QED  BY <1>3, <1>4

\* Where services are does not change while none is added and no address changes.
LEMMA LocatedKept ==
  ASSUME BookInv, UNCHANGED <<attempt, address, updates>>, services' \subseteq services
  PROVE  Located'
<1>1. \A q : AddressOf(q)' = AddressOf(q)
  BY DEF AddressOf
<1>2. \A x : Moved(x)' = Moved(x)
  BY DEF Moved
<1>. QED  BY <1>1, <1>2 DEF BookInv, Book, Located

\* Nothing of what the world and the others know depends on where r is, unless it
\* is in its loop, or has an answer that Terraform does not know of.
LEMMA BookStep ==
  ASSUME BookInv, TypeInv', NEW r \in Resource, Others(r), Logged,
         UNCHANGED <<conf, address, updates>>,
         pc[r] \in CreateStep \cup DeleteStep,
         UNCHANGED attempt,
         alive \subseteq alive', UNCHANGED services,
         id'[r] = IF pc'[r] \in {"absent"} \cup CreateStep THEN 0 ELSE attempt[r],
         pc'[r] # "remove",
         pc[r] # "return",
         \/ id'[r] = id[r]
         \/ r \in Pmm
         \/ \A x \in services : x.by = r /\ x.server = AddressOf(r) => x.n # id[r]
  PROVE  Book'
<1>1. \A q \in Resource : AddressOf(q)' = AddressOf(q) /\ Dependent(q)' = Dependent(q)
  BY DEF AddressOf, Dependent
<1>2. \A x \in services : x.by \in Resource
  BY DEF BookInv, TypeInv, TypeOK, Service
<1>3. Located' /\ Unique' /\ Served'
  BY <1>1, <1>2, LocatedKept DEF BookInv, Book, Unique, Served, Resource
<1>4. Unstored'
  BY DEF Others, BookInv, Book, Unstored
<1>5. Listed'
  BY <1>1 DEF Others, BookInv, Book, Listed
<1>6. Exclusive'
  BY <1>1 DEF Others, BookInv, Book, Exclusive, Running, CreateStep, DeleteStep, Dependent
<1>7. OrphansAccounted'
  BY OrphansKept DEF OrphansAccounted, Accounted, Moved
<1>. QED  BY <1>3, <1>4, <1>5, <1>6, <1>7 DEF Book

\* Where the pieces of a Create lead to.
LEMMA CreateGoes ==
  ASSUME TypeInv, NEW r \in Resource, NEW left,
         \/ Store(r) \/ Forget(r) \/ NextOf(r, left)
         \/ Failed(r) \/ Registered(r) \/ \E s \in CreateStep : To(r, s)
  PROVE  /\ pc'[r] # "remove"
         /\ id'[r] = id[r] \/ id'[r] = 0
         /\ pc'[r] \in {"absent"} \cup CreateStep
         /\ pc'[r] = "absent" => id'[r] = 0
<1>. DEFINE P == /\ pc'[r] # "remove"
                 /\ id'[r] = id[r] \/ id'[r] = 0
                 /\ pc'[r] \in {"absent"} \cup CreateStep
                 /\ pc'[r] = "absent" => id'[r] = 0
<1>1. NextOf(r, left) => P
  BY DEF NextOf, Store, Ended, Go, TypeInv, TypeOK, CreateStep
<1>2. NextOf(r, todo[r]) => P
  BY DEF NextOf, Store, Ended, Go, TypeInv, TypeOK, CreateStep
<1>3. (Store(r) \/ Forget(r) \/ \E s \in CreateStep : To(r, s)) => P
  BY DEF Store, Forget, To, Ended, Go, TypeInv, TypeOK, CreateStep
<1>. QED  BY <1>1, <1>2, <1>3 DEF Failed, Registered

\* A step of a Create that registers nothing.
LEMMA CreateBook ==
  ASSUME BookInv, TypeInv', NEW r \in Resource, pc[r] \in CreateStep \ {"return"},
         UNCHANGED <<conf, address, updates, attempt, kills, services>>, alive \subseteq alive',
         Fault(r) \/ UNCHANGED faults, NEW left,
         \/ Store(r) \/ Forget(r) \/ NextOf(r, left)
         \/ Failed(r) \/ Registered(r) \/ \E s \in CreateStep \ {"launch"} : To(r, s)
  PROVE  Book'
<1>1. Others(r)
  BY OthersStay DEF BookInv, Later
<1>2. Logged
  BY FaultLogged DEF BookInv
<1>3. id[r] = 0
  BY DEF BookInv, Book, Unstored
<1>4. /\ pc'[r] # "remove"
      /\ id'[r] = id[r] \/ id'[r] = 0
      /\ pc'[r] \in {"absent"} \cup CreateStep
  <2>. \A s \in CreateStep \ {"launch"} : To(r, s) => s \in CreateStep
    OBVIOUS
  <2>. QED  BY CreateGoes DEF BookInv
<1>. QED  BY <1>1, <1>2, <1>3, <1>4, BookStep DEF CreateStep

LEMMA DiscoverBook == ASSUME BookInv, TypeInv', NEW r \in Resource, Discover(r) PROVE Book'
<1>. DEFINE found == IF r \in Pmm THEN conf.discovered ELSE {conf.identifier[r]}
<1>1. NextOf(r, found) \/ Store(r) \/ Forget(r)
  BY DEF Discover, Try
<1>2. Fault(r) \/ UNCHANGED faults
  BY DEF Discover, Try
<1>3. pc[r] \in CreateStep \ {"return"} /\ UNCHANGED <<conf, address, updates, attempt, kills, alive, services>>
  BY DEF Discover, CreateStep, World
<1>. HIDE DEF found
<1>. QED  BY <1>1, <1>2, <1>3, CreateBook

LEMMA CreateUserBook ==
  ASSUME BookInv, TypeInv', NEW r \in Resource, CreateUser(r) PROVE Book'
<1>1. To(r, "grant") \/ Failed(r)
  BY DEF CreateUser, Work, Try
<1>2. Fault(r) \/ UNCHANGED faults
  BY DEF CreateUser, Work, Try
<1>3. pc[r] \in CreateStep \ {"return"} /\ UNCHANGED <<conf, address, updates, attempt, kills, alive, services>>
  BY DEF CreateUser, Work, CreateStep
<1>4. "grant" \in CreateStep \ {"launch"}
  BY DEF CreateStep
<1>. QED  BY <1>1, <1>2, <1>3, <1>4, CreateBook

LEMMA GrantToBook ==
  ASSUME BookInv, TypeInv', NEW r \in Resource, NEW right \in Right,
         NEW next \in CreateStep \ {"launch"}, GrantTo(r, right, next)
  PROVE  Book'
<1>1. To(r, next) \/ Failed(r)
  BY DEF GrantTo, Work, Try
<1>2. Fault(r) \/ UNCHANGED faults
  BY DEF GrantTo, Work, Try
<1>3. pc[r] \in CreateStep \ {"return"} /\ UNCHANGED <<conf, address, updates, attempt, kills, alive, services>>
  BY DEF GrantTo, Work, CreateStep, Right
<1>. QED  BY <1>1, <1>2, <1>3, CreateBook

LEMMA LaunchBook == ASSUME BookInv, TypeInv', NEW r \in Resource, Launch(r) PROVE Book'
<1>1. Store(r) \/ Forget(r) \/ \E s \in CreateStep \ {"launch"} : To(r, s)
  BY DEF Launch, Try, CreateStep
<1>2. Fault(r) \/ UNCHANGED faults
  BY DEF Launch, Try
<1>3. pc[r] \in CreateStep \ {"return"} /\ UNCHANGED <<conf, address, updates, attempt, kills, services>>
  BY DEF Launch, CreateStep
<1>4. alive \subseteq alive'
  BY DEF Launch, Try
<1>. QED  BY <1>1, <1>2, <1>3, <1>4, CreateBook

\* The only step that registers a service: its id is about to be stored, or its
\* error is logged.
LEMMA AddServiceBook ==
  ASSUME BookInv, TypeInv', NEW r \in Resource, AddService(r) PROVE Book'
<1>1. pc[r] = "add" /\ UNCHANGED <<conf, address, updates, attempt, kills, alive, users, rights>>
  BY DEF AddService, Work
<1>2. \/ /\ Accepts(r) /\ services' = services \cup {MadeService(r)}
         /\ (Registered(r) /\ UNCHANGED faults) \/ (Failed(r) /\ Fault(r))
      \/ UNCHANGED services /\ Failed(r) /\ (Fault(r) \/ UNCHANGED faults)
  BY DEF AddService, Work, Try
<1>3. CASE UNCHANGED services /\ Failed(r) /\ (Fault(r) \/ UNCHANGED faults)
  BY <1>1, <1>3, CreateBook DEF CreateStep
<1>4. CASE /\ Accepts(r) /\ services' = services \cup {MadeService(r)}
           /\ (Registered(r) /\ UNCHANGED faults) \/ (Failed(r) /\ Fault(r))
  <2>. PICK m : m = MadeService(r)
    OBVIOUS
  <2>0. m.server = AddressOf(r) /\ m.db = db[r] /\ m.by = r /\ m.n = attempt[r]
    BY DEF MadeService
  <2>00. services' = services \cup {m} /\ (Registered(r) \/ Failed(r))
    BY <1>4
  <2>1. Others(r)
    BY <2>00, OthersStay DEF BookInv
  <2>2. Logged
    BY <1>1, <1>4, FaultLogged DEF BookInv
  <2>3. /\ pc'[r] # "remove"
        /\ id'[r] = 0
        /\ pc'[r] \in {"absent"} \cup CreateStep
    BY <1>1, <2>00, CreateGoes DEF BookInv, Book, Unstored, CreateStep
  <2>4. \A q \in Resource : AddressOf(q)' = AddressOf(q) /\ Dependent(q)' = Dependent(q)
    BY <1>1 DEF AddressOf, Dependent
  <2>5. \A x \in services : x.by \in Resource
    BY DEF BookInv, TypeInv, TypeOK, Service
  <2>. \A x : Moved(x)' = Moved(x)
    BY <1>1 DEF Moved
  <2>6. Located'
    <3>1. ASSUME NEW x \in services
          PROVE  /\ x.n <= attempt'[x.by]
                 /\ x.by \in Rds /\ x.n = attempt'[x.by] => x.server = AddressOf(x.by)' \/ Moved(x)'
      BY <1>1, <2>4, <2>5 DEF BookInv, Book, Located
    <3>2. m.n <= attempt'[m.by] /\ m.server = AddressOf(m.by)'
      BY <1>1, <2>0, <2>4 DEF BookInv, TypeInv, TypeOK, Attempt
    <3>. QED  BY <2>00, <3>1, <3>2 DEF Located
  <2>7. Unique' /\ Served'
    BY <1>1, <1>4, <2>0, <2>00 DEF BookInv, Book, Unique, Served, Accepts
  <2>8. Unstored'
    BY <1>1, <2>1, <2>3 DEF Others, BookInv, Book, Unstored
  <2>9. Listed'
    BY <2>0, <2>00, <2>1, <2>3, <2>4 DEF Others, BookInv, Book, Listed
  <2>10. Exclusive'
    BY <1>1, <2>1, <2>4 DEF Others, BookInv, Book, Exclusive, Running, Dependent
  <2>11. \A x \in services : x.by \in Rds => Accounted(x)'
    BY <1>1, <2>1, <2>2, <2>3, OrphansKept DEF BookInv, Book, Unstored, CreateStep
  <2>12. ASSUME r \in Rds PROVE Accounted(m)'
    <3>1. CASE Registered(r)
      BY <1>1, <2>0, <2>12, <3>1, SetAssumption
         DEF Registered, Store, Go, Accounted, AddressOf, Server, BookInv, TypeInv, TypeOK
    <3>2. CASE Fault(r)
      <4>1. faults' = Append(faults, <<"add", <<m.by, m.n>>>>)
        BY <1>1, <2>0, <3>2 DEF Fault, LabelOf
      <4>2. Len(faults) + 1 \in DOMAIN faults' /\ faults'[Len(faults) + 1] = <<"add", <<m.by, m.n>>>>
        BY <4>1 DEF BookInv, TypeInv, TypeOK
      <4>. QED  BY <4>2 DEF Accounted
    <3>. QED  BY <1>4, <3>1, <3>2
  <2>13. OrphansAccounted'
    BY <2>0, <2>00, <2>11, <2>12 DEF OrphansAccounted, Accounted, Moved
  <2>. QED  BY <2>6, <2>7, <2>8, <2>9, <2>10, <2>13 DEF Book
<1>. QED  BY <1>2, <1>3, <1>4

\* An operation begins while none that it depends on, or that depends on it, runs.
LEMMA BeginExclusive ==
  ASSUME BookInv, NEW r \in Resource, NEW s, pc' = [pc EXCEPT ![r] = s], UNCHANGED address,
         \A q \in Dependent(r) : ~Running(q)
  PROVE  Exclusive'
<1>. \A q \in Resource : Dependent(q)' = Dependent(q)
  BY DEF Dependent
<1>. SUFFICES ASSUME NEW q \in Resource, NEW o \in Dependent(q), Running(q)', Running(o)'
              PROVE  FALSE
  BY DEF Exclusive
<1>1. o \in Resource /\ q \in Dependent(o)
  BY DEF Dependent
<1>2. \A v \in Resource \ {r} : Running(v)' = Running(v)
  BY DEF Running, BookInv, TypeInv, TypeOK
<1>3. q # o
  BY SetAssumption, ConfigAssumption DEF Dependent, BookInv, TypeInv, TypeOK, Server
<1>4. CASE q = r
  BY <1>1, <1>2, <1>3, <1>4
<1>5. CASE o = r
  BY <1>1, <1>2, <1>3, <1>5
<1>. QED
  BY <1>1, <1>2, <1>4, <1>5 DEF BookInv, Book, Exclusive

LEMMA BeginCreateBook == ASSUME BookInv, TypeInv', NEW r \in Resource, BeginCreate(r) PROVE Book'
<1>1. /\ pc[r] = "absent" /\ \A q \in Dependent(r) : ~Running(q)
      /\ \E s \in {"launch", "discover"} : pc' = [pc EXCEPT ![r] = s]
      /\ attempt' = [attempt EXCEPT ![r] = @ + 1]
      /\ UNCHANGED <<conf, address, updates, id, todo, db, alive, services, users, rights, kills, faults>>
  BY DEF BeginCreate, Go, World
<1>2. \A q \in Resource : AddressOf(q)' = AddressOf(q) /\ Dependent(q)' = Dependent(q)
  BY <1>1 DEF AddressOf, Dependent
<1>3. \A x \in services : x.by \in Resource
  BY DEF BookInv, TypeInv, TypeOK, Service
<1>4. Located' /\ Unique' /\ Served'
  <2>1. ASSUME NEW x \in services
        PROVE  /\ x.n <= attempt'[x.by]
               /\ x.by \in Rds /\ x.n = attempt'[x.by] => x.server = AddressOf(x.by)' \/ Moved(x)'
    <3>1. /\ x.n <= attempt[x.by]
          /\ x.by \in Rds /\ x.n = attempt[x.by] => x.server = AddressOf(x.by) \/ Moved(x)
      BY DEF BookInv, Book, Located
    <3>2. x.n \in Nat /\ attempt[x.by] \in Nat /\ Moved(x)' = Moved(x)
      BY <1>1, <1>3 DEF Moved, Service, Attempt, BookInv, TypeInv, TypeOK
    <3>3. x.by = r => attempt'[x.by] = attempt[x.by] + 1
      BY <1>1 DEF BookInv, TypeInv, TypeOK
    <3>4. x.by # r => attempt'[x.by] = attempt[x.by]
      BY <1>1, <1>3 DEF BookInv, TypeInv, TypeOK
    <3>. QED  BY <1>2, <1>3, <3>1, <3>2, <3>3, <3>4
  <2>. QED  BY <1>1, <2>1 DEF BookInv, Book, Located, Unique, Served
<1>5. Unstored'
  BY <1>1 DEF BookInv, TypeInv, TypeOK, Book, Unstored, CreateStep
<1>6. Listed'
  <2>. \A q \in Resource : pc'[q] = "remove" => pc[q] = "remove"
    BY <1>1 DEF BookInv, TypeInv, TypeOK
  <2>. QED  BY <1>1, <1>2 DEF BookInv, Book, Listed
<1>7. Exclusive'
  BY <1>1, BeginExclusive
<1>8. OrphansAccounted'
  BY <1>1, <1>2, <1>3 DEF BookInv, TypeInv, TypeOK, Book, OrphansAccounted
<1>. QED  BY <1>4, <1>5, <1>6, <1>7, <1>8 DEF Book

\* Terraform stores the id of a Create that has returned.
LEMMA ReturnBook == ASSUME BookInv, TypeInv', NEW r \in Resource, Return(r) PROVE Book'
<1>1. /\ pc[r] = "return" /\ pc' = [pc EXCEPT ![r] = "known"]
      /\ id' = [id EXCEPT ![r] = attempt[r]]
      /\ UNCHANGED <<conf, address, updates, attempt, todo, db, alive, services, users, rights, kills, faults>>
  BY DEF Return, Go, World
<1>2. \A q \in Resource : AddressOf(q)' = AddressOf(q) /\ Dependent(q)' = Dependent(q)
  BY <1>1 DEF AddressOf, Dependent
<1>3. \A x \in services : x.by \in Resource
  BY DEF BookInv, TypeInv, TypeOK, Service
<1>4. Located' /\ Unique' /\ Served'
  BY <1>1, <1>2, <1>3, LocatedKept DEF BookInv, Book, Unique, Served
<1>5. Unstored'
  BY <1>1 DEF BookInv, TypeInv, TypeOK, Book, Unstored, CreateStep
<1>6. Listed'
  <2>. \A q \in Resource : pc'[q] = "remove" => pc[q] = "remove" /\ id'[q] = id[q]
    BY <1>1 DEF BookInv, TypeInv, TypeOK
  <2>. QED  BY <1>1, <1>2 DEF BookInv, Book, Listed
<1>7. Exclusive'
  BY <1>1, <1>2 DEF BookInv, TypeInv, TypeOK, Book, Exclusive, Running, Dependent
<1>8. OrphansAccounted'
  <2>. SUFFICES ASSUME NEW x \in services, x.by \in Rds PROVE Accounted(x)'
    BY <1>1 DEF OrphansAccounted, Accounted, Moved
  <2>1. Accounted(x)
    BY DEF BookInv, Book, OrphansAccounted, Accounted, Moved
  <2>2. id[r] = 0 /\ x.n # 0
    BY <1>1 DEF BookInv, TypeInv, TypeOK, Book, Unstored, CreateStep, Service, Attempt
  <2>3. AddressOf(x.by)' = AddressOf(x.by) /\ Moved(x)' = Moved(x)
    BY <1>1, <1>2, <1>3 DEF Moved
  <2>. QED  BY <1>1, <1>3, <2>1, <2>2, <2>3 DEF Accounted, BookInv, TypeInv, TypeOK
<1>. QED  BY <1>4, <1>5, <1>6, <1>7, <1>8 DEF Book

LEMMA BeginDeleteBook == ASSUME BookInv, TypeInv', NEW r \in Resource, BeginDelete(r) PROVE Book'
<1>1. /\ pc[r] = "known" /\ \A q \in Dependent(r) : ~Running(q)
      /\ \E s \in {"destroy", "list"} : pc' = [pc EXCEPT ![r] = s]
      /\ UNCHANGED <<conf, address, updates, id, attempt, todo, db, alive, services, users, rights, kills, faults>>
  BY DEF BeginDelete, Go, World
<1>2. \A q \in Resource : AddressOf(q)' = AddressOf(q) /\ Dependent(q)' = Dependent(q)
  BY <1>1 DEF AddressOf, Dependent
<1>3. \A x \in services : x.by \in Resource
  BY DEF BookInv, TypeInv, TypeOK, Service
<1>4. Located' /\ Unique' /\ Served'
  BY <1>1, <1>2, <1>3, LocatedKept DEF BookInv, Book, Unique, Served
<1>5. Unstored'
  BY <1>1 DEF BookInv, TypeInv, TypeOK, Book, Unstored, CreateStep
<1>6. Listed'
  BY <1>1, <1>2 DEF BookInv, TypeInv, TypeOK, Book, Listed
<1>7. Exclusive'
  BY <1>1, BeginExclusive
<1>8. OrphansAccounted'
  BY <1>1, <1>2, <1>3 DEF BookInv, TypeInv, TypeOK, Book, OrphansAccounted
<1>. QED  BY <1>4, <1>5, <1>6, <1>7, <1>8 DEF Book

\* The server goes with its services, while no operation depends on it.
LEMMA DestroyBook == ASSUME BookInv, TypeInv', NEW r \in Resource, Destroy(r) PROVE Book'
<1>1. /\ pc[r] = "destroy" /\ r \in Pmm
      /\ UNCHANGED <<conf, address, updates, attempt, users, rights, kills>>
  BY DEF Destroy, BookInv, TypeInv, Begun
<1>2. /\ Forget(r) \/ Keep(r)
      /\ Fault(r) \/ UNCHANGED faults
      /\ \/ alive' = alive \ {r} /\ services' = {x \in services : x.server # r}
         \/ UNCHANGED <<alive, services>>
  BY DEF Destroy, Try
<1>3. Others(r)
  BY <1>2, OthersStay DEF BookInv
<1>4. Logged
  BY <1>1, <1>2, FaultLogged DEF BookInv
<1>5. /\ pc'[r] # "remove"
      /\ id'[r] = IF pc'[r] \in {"absent"} \cup CreateStep THEN 0 ELSE attempt[r]
  <2>. id[r] = attempt[r]
    BY <1>1 DEF BookInv, Book, Unstored, CreateStep
  <2>. QED  BY <1>2 DEF Forget, Keep, Go, BookInv, TypeInv, TypeOK, CreateStep
<1>6. CASE UNCHANGED <<alive, services>>
  BY <1>1, <1>3, <1>4, <1>5, <1>6, BookStep DEF DeleteStep
<1>7. CASE alive' = alive \ {r} /\ services' = {x \in services : x.server # r}
  <2>1. \A q \in Resource : AddressOf(q)' = AddressOf(q) /\ Dependent(q)' = Dependent(q)
    BY <1>1 DEF AddressOf, Dependent
  <2>2. \A x \in services : x.by \in Resource
    BY DEF BookInv, TypeInv, TypeOK, Service
  <2>3. Located' /\ Unique' /\ Served'
    BY <1>1, <1>7, <2>1, <2>2, LocatedKept DEF BookInv, Book, Unique, Served
  <2>4. Unstored'
    BY <1>1, <1>3, <1>5 DEF Others, BookInv, Book, Unstored
  <2>5. ASSUME NEW q \in Resource, pc'[q] = "remove"
        PROVE  q # r /\ pc[q] = "remove" /\ id'[q] = id[q] /\ todo'[q] = todo[q] /\ AddressOf(q) # r
    <3>1. q # r /\ pc[q] = "remove" /\ q \in Rds
      BY <1>3, <1>5, <2>5 DEF Others, BookInv, TypeInv, Begun
    <3>2. address[q] = r => q \in Dependent(r)
      BY <3>1 DEF Dependent
    <3>3. q \notin Dependent(r)
      BY <1>1, <3>1 DEF BookInv, Book, Exclusive, Running
    <3>. QED  BY <1>3, <3>1, <3>2, <3>3, SetAssumption DEF Others, AddressOf, Server
  <2>6. Listed'
    BY <1>7, <2>1, <2>5 DEF BookInv, Book, Listed
  <2>7. Exclusive'
    BY <1>1, <1>3, <2>1 DEF Others, BookInv, Book, Exclusive, Running, Dependent
  <2>8. OrphansAccounted'
    BY <1>1, <1>3, <1>4, <1>7, OrphansKept DEF OrphansAccounted, Accounted, Moved
  <2>. QED  BY <2>3, <2>4, <2>6, <2>7, <2>8 DEF Book
<1>. QED  BY <1>2, <1>6, <1>7

LEMMA ListBook == ASSUME BookInv, TypeInv', NEW r \in Resource, List(r) PROVE Book'
<1>1. /\ pc[r] = "list" /\ UNCHANGED <<conf, address, updates, attempt, alive, services, users, rights, kills>>
  BY DEF List, World
<1>2. Fault(r) \/ UNCHANGED faults
  BY DEF List, Try
<1>3. Logged
  BY <1>1, <1>2, FaultLogged DEF BookInv
<1>4. \/ Keep(r)
      \/ /\ Go(r, "remove") /\ UNCHANGED <<id, db>>
         /\ todo' = [todo EXCEPT ![r] = {x.db : x \in OwnServices(r)}]
  BY DEF List, Try
<1>5. CASE Keep(r)
  <2>1. Others(r)
    BY <1>5, OthersStay DEF BookInv
  <2>2. pc'[r] = "known" /\ id'[r] = id[r] /\ id[r] = attempt[r]
    BY <1>1, <1>5 DEF Keep, Go, BookInv, TypeInv, TypeOK, Book, Unstored, CreateStep
  <2>. QED  BY <1>1, <1>3, <2>1, <2>2, BookStep DEF CreateStep, DeleteStep
<1>6. CASE /\ Go(r, "remove") /\ UNCHANGED <<id, db>>
           /\ todo' = [todo EXCEPT ![r] = {x.db : x \in OwnServices(r)}]
  <2>1. Others(r) /\ pc'[r] = "remove" /\ todo'[r] = {x.db : x \in OwnServices(r)}
    BY <1>6 DEF Go, Others, BookInv, TypeInv, TypeOK
  <2>2. \A q \in Resource : AddressOf(q)' = AddressOf(q) /\ Dependent(q)' = Dependent(q)
    BY <1>1 DEF AddressOf, Dependent
  <2>3. \A x \in services : x.by \in Resource
    BY DEF BookInv, TypeInv, TypeOK, Service
  <2>4. Located' /\ Unique' /\ Served'
    BY <1>1, <2>2, <2>3, LocatedKept DEF BookInv, Book, Unique, Served
  <2>5. Unstored'
    BY <1>1, <1>6, <2>1 DEF Others, BookInv, Book, Unstored, CreateStep
  <2>6. r \in Rds
    BY <1>1 DEF BookInv, TypeInv, Begun
  <2>7. Listed'
    BY <1>1, <1>6, <2>1, <2>2, <2>6 DEF Others, OwnServices, BookInv, Book, Listed, Located
  <2>8. Exclusive'
    BY <1>1, <2>1, <2>2 DEF Others, BookInv, Book, Exclusive, Running, Dependent
  <2>9. OrphansAccounted'
    BY <1>1, <1>3, <1>6, <2>1, OrphansKept DEF OrphansAccounted, Accounted, Moved
  <2>. QED  BY <2>4, <2>5, <2>7, <2>8, <2>9 DEF Book
<1>. QED  BY <1>4, <1>5, <1>6

\* One service is removed, one of those of r that are listed.
Removes(r, d) ==
  services' = {x \in services : ~(x.server = AddressOf(r) /\ x.db = d)}

LEMMA RemovedIsOwn ==
  ASSUME BookInv, NEW r \in Resource, pc[r] = "remove", NEW d \in todo[r], Removes(r, d)
  PROVE  \A x \in services \ services' : x.by = r /\ x.n = id[r] /\ x.db = d
  BY DEF Removes, BookInv, Book, Listed, Unique

LEMMA RemoveBook == ASSUME BookInv, TypeInv', NEW r \in Resource, Remove(r) PROVE Book'
<1>1. /\ pc[r] = "remove" /\ UNCHANGED <<conf, address, updates, attempt, alive, users, rights, kills>>
      /\ r \in Rds
  BY DEF Remove, BookInv, TypeInv, Begun
<1>2. Fault(r) \/ UNCHANGED faults
  BY DEF Remove, Try
<1>3. Logged
  BY <1>1, <1>2, FaultLogged DEF BookInv
<1>4. \/ todo[r] = {} /\ Forget(r) /\ UNCHANGED services
      \/ UNCHANGED services /\ Keep(r)
      \/ \E d \in todo[r] :
           /\ UNCHANGED services \/ Removes(r, d)
           /\ \/ Keep(r)
              \/ /\ Removes(r, d) \/ (UNCHANGED services /\ Keep(r))
                 /\ Go(r, "remove") /\ todo' = [todo EXCEPT ![r] = @ \ {d}]
                 /\ UNCHANGED <<id, db>>
  BY DEF Remove, Try, Removes
<1>5. CASE todo[r] = {} /\ Forget(r) /\ UNCHANGED services
  <2>1. Others(r)
    BY <1>5, OthersStay DEF BookInv
  <2>2. pc'[r] = "absent" /\ id'[r] = 0
    BY <1>5 DEF Forget, Go, BookInv, TypeInv, TypeOK
  <2>3. \A x \in services : x.by = r /\ x.server = AddressOf(r) => x.n # id[r]
    BY <1>1, <1>5 DEF BookInv, Book, Listed
  <2>. QED  BY <1>1, <1>3, <1>5, <2>1, <2>2, <2>3, BookStep DEF DeleteStep
<1>6. CASE UNCHANGED services /\ Keep(r)
  <2>1. Others(r)
    BY <1>6, OthersStay DEF BookInv
  <2>2. pc'[r] = "known" /\ id'[r] = id[r] /\ id[r] = attempt[r]
    BY <1>1, <1>6 DEF Keep, Go, BookInv, TypeInv, TypeOK, Book, Unstored, CreateStep
  <2>. QED  BY <1>1, <1>3, <1>6, <2>1, <2>2, BookStep DEF CreateStep, DeleteStep
<1>7. ASSUME NEW d \in todo[r], Removes(r, d),
             \/ Keep(r)
             \/ /\ Go(r, "remove") /\ todo' = [todo EXCEPT ![r] = @ \ {d}]
                /\ UNCHANGED <<id, db>>
      PROVE  Book'
  <2>1. Others(r) /\ id'[r] = id[r]
    BY <1>7, OthersStay DEF Keep, Go, Others, BookInv, TypeInv, TypeOK
  <2>2. \/ pc'[r] = "known"
        \/ pc'[r] = "remove" /\ todo'[r] = todo[r] \ {d}
    BY <1>7 DEF Keep, Go, BookInv, TypeInv, TypeOK
  <2>3. \A q \in Resource : AddressOf(q)' = AddressOf(q) /\ Dependent(q)' = Dependent(q)
    BY <1>1 DEF AddressOf, Dependent
  <2>4. services' \subseteq services /\ \A x \in services : x.by \in Resource
    BY <1>7 DEF Removes, BookInv, TypeInv, TypeOK, Service
  <2>5. Located' /\ Unique' /\ Served'
    BY <1>1, <2>3, <2>4, LocatedKept DEF BookInv, Book, Unique, Served
  <2>6. Unstored'
    BY <1>1, <2>1, <2>2 DEF Others, BookInv, Book, Unstored, CreateStep
  <2>7. Listed'
    <3>1. ASSUME NEW q \in Resource \ {r}, pc'[q] = "remove"
          PROVE  \A e \in todo'[q] : \E x \in services' :
                   x.server = AddressOf(q) /\ x.db = e /\ x.by = q /\ x.n = id[q]
      <4>. SUFFICES ASSUME NEW e \in todo[q]
                    PROVE  \E x \in services' :
                             x.server = AddressOf(q) /\ x.db = e /\ x.by = q /\ x.n = id[q]
        BY <2>1, <3>1 DEF Others
      <4>. PICK x \in services : x.server = AddressOf(q) /\ x.db = e /\ x.by = q /\ x.n = id[q]
        BY <2>1, <3>1 DEF Others, BookInv, Book, Listed
      <4>. x \in services'
        BY <1>1, <1>7, RemovedIsOwn
      <4>. QED  OBVIOUS
    <3>2. ASSUME pc'[r] = "remove", NEW e \in todo'[r]
          PROVE  \E x \in services' :
                   x.server = AddressOf(r) /\ x.db = e /\ x.by = r /\ x.n = id[r]
      <4>. e \in todo[r] /\ e # d
        BY <2>2, <3>2
      <4>. PICK x \in services : x.server = AddressOf(r) /\ x.db = e /\ x.by = r /\ x.n = id[r]
        BY <1>1 DEF BookInv, Book, Listed
      <4>. QED  BY <1>7 DEF Removes
    <3>3. ASSUME NEW q \in Resource, pc'[q] = "remove", NEW x \in services', x.by = q, x.n = id[q],
                 x.server = AddressOf(q)
          PROVE  x.db \in todo'[q]
      <4>1. x \in services /\ x.db \in todo[q]
        BY <1>1, <2>1, <2>4, <3>3 DEF Others, BookInv, Book, Listed
      <4>2. q = r => x.db # d
        BY <1>1, <1>7, <3>3, <4>1 DEF Removes
      <4>. QED  BY <2>1, <2>2, <3>3, <4>1, <4>2 DEF Others
    <3>4. \A q \in Resource : id'[q] = id[q]
      BY <2>1 DEF Others
    <3>. QED  BY <2>3, <3>1, <3>2, <3>3, <3>4 DEF Listed
  <2>8. Exclusive'
    BY <1>1, <2>1, <2>3 DEF Others, BookInv, Book, Exclusive, Running, Dependent
  <2>9. OrphansAccounted'
    BY <1>1, <1>3, <2>1, <2>4, OrphansKept DEF OrphansAccounted, Accounted, Moved
  <2>. QED  BY <2>5, <2>6, <2>7, <2>8, <2>9 DEF Book
<1>. QED  BY <1>4, <1>5, <1>6, <1>7

\* A kill ends every operation: what was being deleted is kept, and what was being
\* created is logged as lost.
LEMMA KillBook == ASSUME BookInv, TypeInv', Kill PROVE Book'
<1>1. /\ pc' = [r \in Resource |->
                  IF r \in Creating THEN "absent" ELSE IF Running(r) THEN "known" ELSE pc[r]]
      /\ id' = [r \in Resource |-> IF r \in Creating THEN 0 ELSE id[r]]
      /\ alive' = alive \ (Creating \cap Pmm)
      /\ services' = {x \in services : x.server \notin Creating \cap Pmm}
      /\ kills' = Append(kills, {LabelOf(r) : r \in Creating})
      /\ UNCHANGED <<conf, address, updates, attempt, users, rights, faults>>
  BY DEF Kill
<1>2. \A q \in Resource : AddressOf(q)' = AddressOf(q)
  BY <1>1 DEF AddressOf
<1>3. services' \subseteq services /\ \A x \in services : x.by \in Resource
  BY <1>1 DEF BookInv, TypeInv, TypeOK, Service
<1>4. Located' /\ Unique' /\ Served'
  BY <1>1, <1>2, <1>3, LocatedKept DEF BookInv, Book, Unique, Served
<1>5. \A r \in Resource : ~Running(r)'
  BY <1>1 DEF Running
<1>6. Unstored'
  BY <1>1, <1>5 DEF BookInv, Book, Unstored, Running, Creating, CreateStep
<1>7. Listed' /\ Exclusive'
  BY <1>5 DEF Listed, Exclusive, Running
<1>8. OrphansAccounted'
  <2>. SUFFICES ASSUME NEW x \in services, x.by \in Rds PROVE Accounted(x)'
    BY <1>3 DEF OrphansAccounted, Accounted, Moved
  <2>. DEFINE ended == {LabelOf(r) : r \in Creating}
              Kills == (SUBSET Label) \cup {ended}
  <2>1. kills \in Seq(Kills) /\ kills' = Append(kills, ended) /\ ended \in Kills
    BY <1>1 DEF BookInv, TypeInv, TypeOK
  <2>2. ended = {<<r, attempt[r]>> : r \in Creating}
    BY DEF LabelOf
  <2>. HIDE DEF ended, Kills
  <2>3. /\ \A k \in DOMAIN kills : k \in DOMAIN kills' /\ kills'[k] = kills[k]
        /\ Len(kills) + 1 \in DOMAIN kills' /\ kills'[Len(kills) + 1] = ended
    BY <2>1
  <2>4. Accounted(x)
    BY DEF BookInv, Book, OrphansAccounted, Accounted, Moved
  <2>. AddressOf(x.by)' = AddressOf(x.by) /\ Moved(x)' = Moved(x)
    BY <1>1, <1>2, <1>3 DEF Moved, Kill
  <2>5. CASE x.by \in Creating
    <3>1. id[x.by] = 0 /\ x.n # 0
      BY <2>5 DEF BookInv, TypeInv, TypeOK, Book, Unstored, Creating, Service, Attempt
    <3>2. CASE attempt[x.by] = x.n
      BY <2>2, <2>3, <2>5, <3>2 DEF Accounted
    <3>3. CASE attempt[x.by] # x.n
      BY <1>1, <2>3, <2>4, <3>1, <3>3 DEF Accounted
    <3>. QED  BY <3>2, <3>3
  <2>6. CASE x.by \notin Creating
    <3>1. id'[x.by] = id[x.by] /\ pc[x.by] # "return"
      BY <1>1, <1>3, <2>6 DEF Creating, CreateStep
    <3>. QED  BY <1>1, <2>3, <2>4, <3>1 DEF Accounted
  <2>. QED  BY <2>5, <2>6
<1>. QED  BY <1>4, <1>6, <1>7, <1>8 DEF Book

\* An Update puts the services of the resource out of its reach, and logs it.
LEMMA UpdateBook == ASSUME BookInv, TypeInv', NEW r \in Rds, Update(r) PROVE Book'
<1>. r \in Resource
  BY DEF Resource
<1>1. /\ pc[r] = "known" /\ ~Running(r)
      /\ updates' = Append(updates, <<<<r, attempt[r]>>, AddressOf(r)>>)
      /\ UNCHANGED <<conf, pc, id, attempt, todo, db, alive, services, users, rights, kills, faults>>
  BY SetAssumption DEF Update, World, Running, LabelOf, AddressOf, Server
<1>2. \A q \in Resource \ {r} : AddressOf(q)' = AddressOf(q)
  BY DEF Update, AddressOf, Resource, BookInv, TypeInv, TypeOK
<1>3. \A x \in services : x.by \in Resource
  BY DEF BookInv, TypeInv, TypeOK, Service
<1>4. /\ \A k \in DOMAIN updates : k \in DOMAIN updates' /\ updates'[k] = updates[k]
      /\ \E k \in DOMAIN updates' : updates'[k] = <<<<r, attempt[r]>>, AddressOf(r)>>
  <2>. DEFINE moved == <<<<r, attempt[r]>>, AddressOf(r)>>
              Move == (Label \X Server) \cup {moved}
  <2>1. updates \in Seq(Move) /\ moved \in Move /\ updates' = Append(updates, moved)
    BY <1>1 DEF BookInv, TypeInv, TypeOK
  <2>. HIDE DEF moved, Move
  <2>2. /\ \A k \in DOMAIN updates : k \in DOMAIN updates' /\ updates'[k] = updates[k]
        /\ Len(updates) + 1 \in DOMAIN updates' /\ updates'[Len(updates) + 1] = moved
    BY <2>1
  <2>. QED  BY <2>2 DEF moved
<1>5. ASSUME NEW x \in services
      PROVE  /\ Moved(x) => Moved(x)'
             /\ x.by = r /\ x.n = attempt[r] /\ x.server = AddressOf(r) => Moved(x)'
  BY <1>4 DEF Moved
<1>6. Located' /\ Unique' /\ Served'
  BY <1>1, <1>2, <1>3, <1>5 DEF BookInv, Book, Located, Unique, Served
<1>7. Unstored' /\ id[r] = attempt[r]
  BY <1>1 DEF BookInv, Book, Unstored, CreateStep
<1>8. Listed'
  BY <1>1, <1>2 DEF BookInv, Book, Listed
<1>9. Exclusive'
  <2>. SUFFICES ASSUME NEW q \in Resource, NEW o \in Dependent(q)', Running(q), Running(o)
                PROVE  FALSE
    BY <1>1 DEF Exclusive, Running
  <2>1. q # r /\ o # r
    BY <1>1
  <2>2. o \in Dependent(q)
    BY <2>1 DEF Dependent, Update, BookInv, TypeInv, TypeOK
  <2>. QED  BY <2>2 DEF BookInv, Book, Exclusive
<1>10. OrphansAccounted'
  <2>. SUFFICES ASSUME NEW x \in services, x.by \in Rds PROVE Accounted(x)'
    BY <1>1 DEF OrphansAccounted, Accounted, Moved
  <2>1. Accounted(x)
    BY DEF BookInv, Book, OrphansAccounted, Accounted, Moved
  <2>2. CASE x.by = r
    BY <1>1, <1>5, <1>7, <2>1, <2>2 DEF Accounted
  <2>3. CASE x.by # r
    BY <1>1, <1>2, <1>3, <1>5, <2>1, <2>3 DEF Accounted
  <2>. QED  BY <2>2, <2>3
<1>. QED  BY <1>6, <1>7, <1>8, <1>9, <1>10 DEF Book

LEMMA NextBook == ASSUME BookInv, [Next]_vars PROVE BookInv'
<1>. TypeInv'
  BY NextType DEF BookInv
<1>1. ASSUME NEW r \in Resource, CreateNext(r) PROVE Book'
  <2>. /\ {"grant", "limit", "schema"} \subseteq Right
       /\ {"limit", "schema", "add"} \subseteq CreateStep \ {"launch"}
    BY DEF Right, CreateStep
  <2>1. CASE Grant(r) \/ SetLimit(r) \/ GrantSchema(r)
    BY <2>1, GrantToBook DEF Grant, SetLimit, GrantSchema
  <2>. QED
    BY <1>1, <2>1, BeginCreateBook, LaunchBook, DiscoverBook, CreateUserBook,
       AddServiceBook, ReturnBook DEF CreateNext
<1>2. ASSUME NEW r \in Resource, DeleteNext(r) PROVE Book'
  BY <1>2, BeginDeleteBook, DestroyBook, ListBook, RemoveBook DEF DeleteNext
<1>3. CASE UNCHANGED vars
  BY <1>3 DEF vars, BookInv, Book, Located, Unique, Served, Unstored, Listed, Exclusive,
     OrphansAccounted, AddressOf, Moved, Dependent, Running
<1>. QED  BY <1>1, <1>2, <1>3, UpdateBook, KillBook DEF Next, BookInv

\* A service of a percona_pmm_rds resource whose label and server Terraform does not
\* know is left by a Create that lost the answer of RDS/Add or was killed before it
\* returned, or by an Update to another server: no Delete, failed, killed or
\* complete, leaves one at the server that it asked.  (rds.go:95-104, 114-133,
\* util.go:15-61)
THEOREM Accountable == Spec => []OrphansAccounted
<1>1. Init => BookInv
  BY InitType, InitBegun, InitBook DEF BookInv, TypeInv
<1>2. BookInv /\ [Next]_vars => BookInv'
  BY NextBook
<1>3. BookInv => OrphansAccounted
  BY DEF BookInv, Book
<1>. QED  BY <1>1, <1>2, <1>3, PTL DEF Spec

\* A service leaves its server by a Delete of the resource that registered it, in
\* the life in which it did, or with the server.  (util.go:15-61)
THEOREM OwnOnly == Spec => OnlyOwnServices
<1>. DEFINE Own(x) == \/ pc[x.by] = "remove" /\ id[x.by] = x.n
                      \/ x.server \in alive \ alive'
<1>1. Init => BookInv
  BY InitType, InitBegun, InitBook DEF BookInv, TypeInv
<1>2. BookInv /\ [Next]_vars => BookInv'
  BY NextBook
<1>3. ASSUME BookInv, [Next]_vars
      PROVE  [\A x \in services \ services' : Own(x)]_vars
  <2>1. ASSUME NEW r \in Resource, CreateNext(r) PROVE services \subseteq services'
    BY <2>1 DEF CreateNext, BeginCreate, Launch, Discover, CreateUser, Grant, SetLimit,
       GrantSchema, GrantTo, AddService, Return, Work, Try, World
  <2>2. ASSUME NEW r \in Resource, DeleteNext(r), NEW x \in services \ services'
        PROVE  Own(x)
    <3>1. CASE BeginDelete(r) \/ List(r)
      BY <2>2, <3>1 DEF BeginDelete, List, World
    <3>2. CASE Destroy(r)
      <4>1. alive' = alive \ {r} /\ services' = {y \in services : y.server # r}
        BY <2>2, <3>2 DEF Destroy, Try
      <4>2. x \in services /\ x.server \in alive
        BY <1>3, <2>2 DEF BookInv, Book, Served
      <4>. QED  BY <2>2, <4>1, <4>2
    <3>3. CASE Remove(r)
      <4>1. pc[r] = "remove" /\ \E d \in todo[r] : Removes(r, d)
        BY <2>2, <3>3 DEF Remove, Try, Removes
      <4>. QED  BY <1>3, <2>2, <4>1, RemovedIsOwn
    <3>. QED  BY <2>2, <3>1, <3>2, <3>3 DEF DeleteNext
  <2>3. ASSUME Kill, NEW x \in services \ services' PROVE Own(x)
    BY <1>3, <2>3 DEF Kill, BookInv, Book, Served
  <2>4. CASE UNCHANGED vars
    BY <2>4
  <2>5. ASSUME NEW r \in Rds, Update(r) PROVE UNCHANGED services
    BY <2>5 DEF Update, World
  <2>. QED  BY <1>3, <2>1, <2>2, <2>3, <2>4, <2>5 DEF Next
<1>. QED  BY <1>1, <1>2, <1>3, PTL DEF Spec, OnlyOwnServices

-----------------------------------------------------------------------------
(* The users for PMM.                                                      *)

\* An instance has one.
OneUser == \A u \in users : \A v \in users : u.db = v.db => u = v

\* What a Create has done for the service that it is about to register.
Ready(r) ==
  /\ pc[r] \in {"grant", "limit", "schema", "add"} =>
       \E u \in users : u.db = db[r] /\ (Engine[db[r]] = "postgresql" => u = MadeUser(r))
  /\ pc[r] \in {"limit", "schema", "add"} => <<db[r], "grant">> \in rights
  /\ pc[r] \in {"schema", "add"} => <<db[r], "limit">> \in rights
  /\ pc[r] = "schema" => Engine[db[r]] = "mysql"
  /\ pc[r] = "add" /\ Engine[db[r]] = "mysql" => <<db[r], "schema">> \in rights

Prepared == \A r \in Resource : Ready(r)

Login == OneUser /\ Prepared /\ ServicesWork
LoginInv == TypeInv /\ Login

LEMMA InitLogin == Init => Login
  BY DEF Init, Login, OneUser, Prepared, Ready, ServicesWork

\* Users and rights are never taken back, so a step that registers nothing only
\* has to care for its own place.
LEMMA LoginStep ==
  ASSUME LoginInv, NEW r \in Resource, UNCHANGED conf,
         \A q \in Resource \ {r} : pc'[q] = pc[q] /\ db'[q] = db[q] /\ attempt'[q] = attempt[q],
         services' \subseteq services, users \subseteq users', rights \subseteq rights',
         OneUser', pc'[r] \notin {"grant", "limit", "schema", "add"}
  PROVE  Login'
<1>1. Prepared'
  BY DEF LoginInv, Login, Prepared, Ready, MadeUser
<1>2. ServicesWork'
  BY DEF LoginInv, Login, ServicesWork
<1>. QED  BY <1>1, <1>2 DEF Login

\* The pieces of an operation that lead out of the work on an instance.
LEMMA LeavesWork ==
  ASSUME TypeInv, NEW r \in Resource, NEW left,
         \/ Store(r) \/ Forget(r) \/ Keep(r) \/ NextOf(r, left) \/ Failed(r) \/ Registered(r)
  PROVE  Others(r) /\ pc'[r] \notin {"grant", "limit", "schema", "add"}
<1>. DEFINE P == pc'[r] \notin {"grant", "limit", "schema", "add"}
<1>1. NextOf(r, left) => P
  BY DEF NextOf, Store, Ended, Go, TypeInv, TypeOK
<1>2. NextOf(r, todo[r]) => P
  BY DEF NextOf, Store, Ended, Go, TypeInv, TypeOK
<1>3. (Store(r) \/ Forget(r) \/ Keep(r)) => P
  BY DEF Store, Forget, Keep, Ended, Go, TypeInv, TypeOK
<1>4. P
  BY <1>1, <1>2, <1>3 DEF Failed, Registered
<1>. QED  BY <1>4, OthersStay

LEMMA CreateUserLogin ==
  ASSUME LoginInv, TypeInv', NEW r \in Resource, CreateUser(r) PROVE Login'
<1>1. pc[r] = "user" /\ UNCHANGED <<conf, address, updates, attempt, alive, services, rights, kills>>
  BY DEF CreateUser, Work
<1>2. \/ users' = users
      \/ ~HasUser(db[r]) /\ users' = users \cup {MadeUser(r)}
  BY DEF CreateUser, Work, Try
<1>3. OneUser' /\ users \subseteq users'
  BY <1>2 DEF LoginInv, Login, OneUser, HasUser, MadeUser
<1>4. \/ Failed(r)
      \/ /\ To(r, "grant")
         /\ \/ HasUser(db[r]) /\ Engine[db[r]] = "mysql"
            \/ users' = users \cup {MadeUser(r)}
  BY DEF CreateUser, Work, Try
<1>5. CASE Failed(r)
  <2>1. Others(r) /\ pc'[r] \notin {"grant", "limit", "schema", "add"}
    BY <1>5, LeavesWork DEF LoginInv
  <2>. QED  BY <1>1, <1>3, <2>1, LoginStep DEF Others
<1>6. CASE /\ To(r, "grant")
           /\ \/ HasUser(db[r]) /\ Engine[db[r]] = "mysql"
              \/ users' = users \cup {MadeUser(r)}
  <2>1. pc' = [pc EXCEPT ![r] = "grant"] /\ UNCHANGED db
    BY <1>6 DEF To, Go
  <2>2. \E u \in users' : u.db = db[r] /\ (Engine[db[r]] = "postgresql" => u = MadeUser(r))
    <3>1. CASE HasUser(db[r]) /\ Engine[db[r]] = "mysql"
      BY <1>3, <3>1 DEF HasUser
    <3>2. CASE users' = users \cup {MadeUser(r)}
      BY <3>2 DEF MadeUser
    <3>. QED  BY <1>6, <3>1, <3>2
  <2>3. \A q \in Resource : MadeUser(q)' = MadeUser(q)
    BY <1>1, <2>1 DEF MadeUser
  <2>4. Prepared'
    BY <1>1, <1>3, <2>1, <2>2, <2>3 DEF LoginInv, TypeInv, TypeOK, Login, Prepared, Ready
  <2>5. ServicesWork'
    BY <1>1, <1>3 DEF LoginInv, Login, ServicesWork
  <2>. QED  BY <1>3, <2>4, <2>5 DEF Login
<1>. QED  BY <1>4, <1>5, <1>6

\* The way from one right to the next.
LEMMA GrantToLogin ==
  ASSUME LoginInv, TypeInv', NEW r \in Resource,
         \/ GrantTo(r, "grant", "limit")
         \/ /\ GrantTo(r, "limit", "schema")
            /\ Engine[db[r]] = "mysql"
         \/ /\ GrantTo(r, "limit", "add")
            /\ Engine[db[r]] # "mysql"
         \/ GrantTo(r, "schema", "add")
  PROVE  Login'
<1>1. /\ pc[r] \in {"grant", "limit", "schema"}
      /\ UNCHANGED <<conf, address, updates, attempt, alive, services, users, kills>>
  BY DEF GrantTo, Work
<1>2. rights \subseteq rights'
  BY DEF GrantTo, Work, Try
<1>3. OneUser'
  BY <1>1 DEF LoginInv, Login, OneUser
<1>4. \/ Failed(r)
      \/ UNCHANGED db /\ <<db[r], pc[r]>> \in rights' /\
         \/ pc[r] = "grant" /\ pc' = [pc EXCEPT ![r] = "limit"]
         \/ pc[r] = "limit" /\ pc' = [pc EXCEPT ![r] = "schema"] /\ Engine[db[r]] = "mysql"
         \/ pc[r] = "limit" /\ pc' = [pc EXCEPT ![r] = "add"] /\ Engine[db[r]] # "mysql"
         \/ pc[r] = "schema" /\ pc' = [pc EXCEPT ![r] = "add"]
  BY DEF GrantTo, Work, Try, To, Go
<1>5. CASE Failed(r)
  <2>1. Others(r) /\ pc'[r] \notin {"grant", "limit", "schema", "add"}
    BY <1>5, LeavesWork DEF LoginInv
  <2>. QED  BY <1>1, <1>2, <1>3, <2>1, LoginStep DEF Others
<1>6. CASE UNCHANGED db /\ <<db[r], pc[r]>> \in rights' /\
         \/ pc[r] = "grant" /\ pc' = [pc EXCEPT ![r] = "limit"]
         \/ pc[r] = "limit" /\ pc' = [pc EXCEPT ![r] = "schema"] /\ Engine[db[r]] = "mysql"
         \/ pc[r] = "limit" /\ pc' = [pc EXCEPT ![r] = "add"] /\ Engine[db[r]] # "mysql"
         \/ pc[r] = "schema" /\ pc' = [pc EXCEPT ![r] = "add"]
  <2>1. \A q \in Resource : MadeUser(q)' = MadeUser(q)
    BY <1>1, <1>6 DEF MadeUser
  <2>2. ASSUME NEW q \in Resource \ {r} PROVE Ready(q)'
    <3>1. pc'[q] = pc[q] /\ db'[q] = db[q]
      BY <1>6 DEF LoginInv, TypeInv, TypeOK
    <3>2. Ready(q)
      BY DEF LoginInv, Login, Prepared
    <3>. QED  BY <1>1, <1>2, <2>1, <3>1, <3>2 DEF Ready
  <2>3. Ready(r)'
    <3>1. Ready(r) /\ db'[r] = db[r] /\ <<db[r], pc[r]>> \in rights'
      BY <1>6 DEF LoginInv, Login, Prepared
    <3>2. \/ pc[r] = "grant" /\ pc'[r] = "limit"
          \/ pc[r] = "limit" /\ pc'[r] = "schema" /\ Engine[db[r]] = "mysql"
          \/ pc[r] = "limit" /\ pc'[r] = "add" /\ Engine[db[r]] # "mysql"
          \/ pc[r] = "schema" /\ pc'[r] = "add"
      BY <1>6 DEF LoginInv, TypeInv, TypeOK
    <3>. QED  BY <1>1, <1>2, <2>1, <3>1, <3>2 DEF Ready
  <2>4. Prepared'
    BY <2>2, <2>3 DEF Prepared
  <2>5. ServicesWork'
    BY <1>1, <1>2 DEF LoginInv, Login, ServicesWork
  <2>. QED  BY <1>3, <2>4, <2>5 DEF Login
<1>. QED  BY <1>4, <1>5, <1>6

\* A service is registered after the user it logs in with was made ready.
LEMMA AddServiceLogin ==
  ASSUME LoginInv, TypeInv', NEW r \in Resource, AddService(r) PROVE Login'
<1>1. pc[r] = "add" /\ UNCHANGED <<conf, address, updates, attempt, kills, alive, users, rights>>
  BY DEF AddService, Work
<1>2. \/ Accepts(r) /\ services' = services \cup {MadeService(r)}
      \/ UNCHANGED services
  BY DEF AddService, Work, Try
<1>3. Registered(r) \/ Failed(r)
  BY DEF AddService, Work, Try
<1>4. Others(r) /\ pc'[r] \notin {"grant", "limit", "schema", "add"}
  BY <1>3, LeavesWork DEF LoginInv
<1>5. OneUser'
  BY <1>1 DEF LoginInv, Login, OneUser
<1>6. CASE UNCHANGED services
  BY <1>1, <1>4, <1>5, <1>6, LoginStep DEF Others
<1>7. CASE Accepts(r) /\ services' = services \cup {MadeService(r)}
  <2>. PICK m : m = MadeService(r)
    OBVIOUS
  <2>1. m.db = db[r] /\ m.by = r /\ m.n = attempt[r]
    BY DEF MadeService
  <2>2. PICK u \in users : u.db = db[r] /\ conf.password[u.by] = conf.password[r]
    BY <1>7 DEF Accepts
  <2>3. Engine[db[r]] = "postgresql" => u = MadeUser(r)
    BY <1>1, <2>2 DEF LoginInv, Login, Prepared, Ready, OneUser
  <2>0. Ready(r)
    BY DEF LoginInv, Login, Prepared
  <2>4. /\ Engine[m.db] = "postgresql" => u.by = m.by /\ u.n = m.n
        /\ {m.db} \X {"grant", "limit"} \subseteq rights
        /\ Engine[m.db] = "mysql" => <<m.db, "schema">> \in rights
    <3>1. Engine[m.db] = "postgresql" => u.by = m.by /\ u.n = m.n
      BY <2>1, <2>3 DEF MadeUser
    <3>2. /\ <<m.db, "grant">> \in rights /\ <<m.db, "limit">> \in rights
          /\ Engine[m.db] = "mysql" => <<m.db, "schema">> \in rights
      BY <1>1, <2>0, <2>1 DEF Ready
    <3>. QED  BY <3>1, <3>2
  <2>5. ServicesWork'
    BY <1>1, <1>7, <2>1, <2>2, <2>4 DEF LoginInv, Login, ServicesWork
  <2>6. Prepared'
    BY <1>1, <1>4 DEF Others, LoginInv, Login, Prepared, Ready, MadeUser
  <2>. QED  BY <1>5, <2>5, <2>6 DEF Login
<1>. QED  BY <1>2, <1>6, <1>7

LEMMA CreateLogin == ASSUME LoginInv, TypeInv', NEW r \in Resource, CreateNext(r) PROVE Login'
<1>1. CASE BeginCreate(r)
  BY <1>1, LoginStep DEF BeginCreate, Go, World, LoginInv, TypeInv, TypeOK, Login, OneUser
<1>2. CASE Launch(r)
  <2>1. /\ UNCHANGED <<conf, address, updates, attempt, services, users, rights>>
        /\ Store(r) \/ Forget(r) \/ To(r, "discover")
    BY <1>2 DEF Launch, Try
  <2>2. To(r, "discover") => Others(r) /\ pc'[r] = "discover"
    BY DEF To, Go, Others, LoginInv, TypeInv, TypeOK
  <2>3. Others(r) /\ pc'[r] \notin {"grant", "limit", "schema", "add"}
    BY <2>1, <2>2, LeavesWork DEF LoginInv
  <2>. QED  BY <2>1, <2>3, LoginStep DEF Others, LoginInv, Login, OneUser
<1>3. CASE Discover(r)
  <2>. DEFINE found == IF r \in Pmm THEN conf.discovered ELSE {conf.identifier[r]}
  <2>1. NextOf(r, found) \/ Store(r) \/ Forget(r)
    BY <1>3 DEF Discover, Try
  <2>2. UNCHANGED <<conf, address, updates, attempt, services, users, rights>>
    BY <1>3 DEF Discover, World
  <2>. HIDE DEF found
  <2>3. Others(r) /\ pc'[r] \notin {"grant", "limit", "schema", "add"}
    BY <2>1, LeavesWork DEF LoginInv
  <2>. QED  BY <2>2, <2>3, LoginStep DEF Others, LoginInv, Login, OneUser
<1>4. CASE Return(r)
  BY <1>4, LoginStep DEF Return, Go, World, LoginInv, TypeInv, TypeOK, Login, OneUser
<1>5. CASE Grant(r) \/ SetLimit(r) \/ GrantSchema(r)
  BY <1>5, GrantToLogin DEF Grant, SetLimit, GrantSchema
<1>. QED
  BY <1>1, <1>2, <1>3, <1>4, <1>5, CreateUserLogin, AddServiceLogin DEF CreateNext

LEMMA DeleteLogin == ASSUME LoginInv, TypeInv', NEW r \in Resource, DeleteNext(r) PROVE Login'
<1>1. services' \subseteq services /\ UNCHANGED <<conf, address, updates, attempt, users, rights>>
  BY DEF DeleteNext, BeginDelete, Destroy, List, Remove, Try, World
<1>2. \/ Keep(r) \/ Forget(r)
      \/ \E s \in DeleteStep : pc' = [pc EXCEPT ![r] = s] /\ UNCHANGED db
  BY DEF DeleteNext, BeginDelete, Destroy, List, Remove, Try, Go, DeleteStep
<1>3. CASE Keep(r) \/ Forget(r)
  BY <1>1, <1>3, LeavesWork, LoginStep DEF Others, LoginInv, Login, OneUser
<1>4. CASE \E s \in DeleteStep : pc' = [pc EXCEPT ![r] = s] /\ UNCHANGED db
  BY <1>1, <1>4, LoginStep DEF DeleteStep, LoginInv, TypeInv, TypeOK, Login, OneUser
<1>. QED  BY <1>2, <1>3, <1>4

LEMMA KillLogin == ASSUME LoginInv, Kill PROVE Login'
<1>1. services' \subseteq services /\ UNCHANGED <<conf, address, updates, attempt, users, rights>>
  BY DEF Kill
<1>2. \A r \in Resource : pc'[r] \notin {"grant", "limit", "schema", "add"}
  BY DEF Kill, Creating, CreateStep
<1>. QED  BY <1>1, <1>2 DEF LoginInv, Login, OneUser, Prepared, Ready, ServicesWork

\* The user of a service is there as long as the service, with the password and
\* the rights that it needs, whatever other Creates and Deletes do; and on
\* PostgreSQL it was made by the Create that registered the service.
\* (util.go:63-116, mysql.go:95-101, 155-169, psql.go:34-61)
THEOREM LoginsWork == Spec => []ServicesWork
<1>1. Init => LoginInv
  BY InitType, InitBegun, InitLogin DEF LoginInv, TypeInv
<1>2. LoginInv /\ [Next]_vars => LoginInv'
  <2>. SUFFICES ASSUME LoginInv, [Next]_vars PROVE LoginInv'
    OBVIOUS
  <2>1. TypeInv'
    BY NextType DEF LoginInv
  <2>2. CASE UNCHANGED vars
    <3>1. OneUser' /\ ServicesWork'
      BY <2>2 DEF vars, LoginInv, Login, OneUser, ServicesWork
    <3>2. Prepared'
      BY <2>2 DEF vars, LoginInv, Login, Prepared, Ready, MadeUser
    <3>. QED  BY <2>1, <3>1, <3>2 DEF LoginInv, Login
  <2>3. CASE Next
    <3>1. ASSUME NEW r \in Rds, Update(r) PROVE Login'
      <4>1. UNCHANGED <<conf, pc, attempt, db, services, users, rights>>
        BY <3>1 DEF Update, World
      <4>2. OneUser' /\ ServicesWork'
        BY <4>1 DEF LoginInv, Login, OneUser, ServicesWork
      <4>3. Prepared'
        BY <4>1 DEF LoginInv, Login, Prepared, Ready, MadeUser
      <4>. QED  BY <4>2, <4>3 DEF Login
    <3>. QED  BY <2>1, <2>3, <3>1, CreateLogin, DeleteLogin, KillLogin DEF Next, LoginInv
  <2>. QED  BY <2>1, <2>2, <2>3 DEF LoginInv
<1>3. LoginInv => ServicesWork
  BY DEF LoginInv, Login
<1>. QED  BY <1>1, <1>2, <1>3, PTL DEF Spec

-----------------------------------------------------------------------------
(* Operations end: every step of one is a step forward.                    *)

\* The parts of an operation; the third one of a Create and the second one of a
\* Delete are loops over `todo'.
Part(step) ==
  [launch |-> 1, discover |-> 2, user |-> 3, grant |-> 3, limit |-> 3, schema |-> 3,
   add |-> 3, return |-> 4, destroy |-> 1, list |-> 1, remove |-> 2][step]

\* The place of a step within a round of the loop.
StepRank(step) ==
  [launch |-> 0, discover |-> 0, user |-> 1, grant |-> 2, limit |-> 3, schema |-> 4,
   add |-> 5, return |-> 0, destroy |-> 0, list |-> 0, remove |-> 0][step]

\* An operation ends with its next step, comes to its next part, takes another of
\* the instances it has still to reach, or goes on with the one it has reached.
Advances(r) ==
  \/ ~Running(r)'
  \/ /\ \/ pc[r] \in CreateStep /\ pc'[r] \in CreateStep
        \/ pc[r] \in DeleteStep /\ pc'[r] \in DeleteStep
     /\ \/ Part(pc'[r]) > Part(pc[r])
        \/ /\ Part(pc'[r]) = Part(pc[r])
           /\ \/ todo'[r] \subseteq todo[r] /\ todo'[r] # todo[r]
              \/ todo'[r] = todo[r] /\ StepRank(pc'[r]) > StepRank(pc[r])

\* Whatever another operation does, one that runs stays where it is, ends or goes
\* on; a step of its own never leaves it where it is.  There is no loop but over
\* the instances it listed when it began, an instance that fails included.
\* (pmm.go:66-164, rds.go:61-138, util.go:15-116)
Forward ==
  [][\A r \in Resource : Running(r) =>
       \/ Advances(r)
       \/ pc'[r] = pc[r] /\ todo'[r] = todo[r] /\ ~CreateNext(r) /\ ~DeleteNext(r)]_vars

\* The steps of a round, for one instance.
Round == {"user", "grant", "limit", "schema", "add"}

LEMMA StoreAdvances ==
  ASSUME TypeInv, NEW r \in Resource, Store(r), pc[r] \in CreateStep \ {"return"}
  PROVE  Advances(r)
BY DEF TypeInv, TypeOK, Store, Go, Advances, Part, CreateStep

LEMMA EndAdvances ==
  ASSUME TypeInv, NEW r \in Resource, Forget(r) \/ Keep(r)
  PROVE  Advances(r)
BY DEF TypeInv, TypeOK, Forget, Keep, Go, Advances, Running

LEMMA NextAdvances ==
  ASSUME TypeInv, NEW r \in Resource, NEW left, NextOf(r, left),
         pc[r] = "discover" \/ (pc[r] \in Round /\ left = todo[r])
  PROVE  Advances(r)
<1>0. pc[r] \in CreateStep \ {"return"}
  BY DEF CreateStep, Round
<1>1. CASE Store(r)
  BY <1>0, <1>1, StoreAdvances
<1>2. ASSUME NEW d \in left, Go(r, "user"), todo' = [todo EXCEPT ![r] = left \ {d}]
      PROVE  Advances(r)
  <2>1. pc'[r] = "user" /\ todo'[r] = left \ {d}
    BY <1>2 DEF Go, TypeInv, TypeOK
  <2>2. CASE pc[r] = "discover"
    BY <1>0, <2>1, <2>2 DEF Advances, Part, CreateStep
  <2>3. CASE pc[r] \in Round /\ left = todo[r]
    <3>1. Part(pc[r]) = 3 /\ Part(pc'[r]) = 3
      BY <2>1, <2>3 DEF Part, Round
    <3>2. todo'[r] \subseteq todo[r] /\ d \in todo[r] /\ d \notin todo'[r]
      BY <1>2, <2>1, <2>3
    <3>3. todo'[r] \subseteq todo[r] /\ todo'[r] # todo[r]
      BY <3>2
    <3> QED BY <1>0, <2>1, <3>1, <3>3 DEF Advances, CreateStep
  <2> QED BY <2>2, <2>3
<1> QED BY <1>1, <1>2 DEF NextOf

LEMMA ToAdvances ==
  ASSUME TypeInv, NEW r \in Resource, NEW s \in CreateStep, To(r, s),
         \/ pc[r] = "launch" /\ s = "discover"
         \/ pc[r] \in Round /\ s \in Round /\ StepRank(s) > StepRank(pc[r])
  PROVE  Advances(r)
<1>1. pc'[r] = s /\ todo'[r] = todo[r]
  BY DEF To, Go, TypeInv, TypeOK
<1>2. CASE pc[r] = "launch" /\ s = "discover"
  BY <1>1, <1>2 DEF Advances, Part, CreateStep
<1>3. CASE pc[r] \in Round /\ s \in Round /\ StepRank(s) > StepRank(pc[r])
  <2>1. Part(pc[r]) = 3 /\ Part(s) = 3 /\ pc[r] \in CreateStep
    BY <1>3 DEF Part, Round, CreateStep
  <2> QED BY <1>1, <1>3, <2>1 DEF Advances
<1> QED BY <1>2, <1>3

\* An instance that failed, or was registered, is the end of a percona_pmm_rds
\* resource's Create and of a round of the other's.
LEMMA RoundAdvances ==
  ASSUME TypeInv, NEW r \in Resource, pc[r] \in Round, Failed(r) \/ Registered(r)
  PROVE  Advances(r)
<1>1. pc[r] \in CreateStep \ {"return"}
  BY DEF CreateStep, Round
<1> QED BY <1>1, StoreAdvances, EndAdvances, NextAdvances DEF Failed, Registered

LEMMA CreateForward ==
  ASSUME TypeInv, NEW r \in Resource, Running(r), CreateNext(r)
  PROVE  Advances(r)
<1>1. ~BeginCreate(r)
  BY DEF BeginCreate, Running
<1>2. CASE Launch(r)
  <2>1. pc[r] = "launch" /\ (Forget(r) \/ Store(r) \/ To(r, "discover"))
    BY <1>2 DEF Launch, Try
  <2> QED BY <2>1, EndAdvances, StoreAdvances, ToAdvances DEF CreateStep
<1>3. CASE Discover(r)
  <2>1. /\ pc[r] = "discover"
        /\ \/ Store(r) \/ Forget(r)
           \/ NextOf(r, IF r \in Pmm THEN conf.discovered ELSE {conf.identifier[r]})
    BY <1>3 DEF Discover, Try
  <2> QED BY <2>1, EndAdvances, StoreAdvances, NextAdvances DEF CreateStep
<1>4. CASE CreateUser(r) \/ Grant(r) \/ SetLimit(r) \/ GrantSchema(r)
  <2>1. \/ pc[r] \in Round /\ Failed(r)
        \/ pc[r] = "user" /\ To(r, "grant")
        \/ pc[r] = "grant" /\ To(r, "limit")
        \/ pc[r] = "limit" /\ (To(r, "schema") \/ To(r, "add"))
        \/ pc[r] = "schema" /\ To(r, "add")
    BY <1>4 DEF CreateUser, Grant, SetLimit, GrantSchema, GrantTo, Work, Try, Round
  <2> QED BY <2>1, RoundAdvances, ToAdvances DEF Round, CreateStep, StepRank
<1>5. CASE AddService(r)
  <2>1. pc[r] = "add" /\ (Failed(r) \/ Registered(r))
    BY <1>5 DEF AddService, Work, Try
  <2> QED BY <2>1, RoundAdvances DEF Round
<1>6. CASE Return(r)
  BY <1>6 DEF Return, Go, Advances, Running, TypeInv, TypeOK
<1> QED BY <1>1, <1>2, <1>3, <1>4, <1>5, <1>6 DEF CreateNext

LEMMA DeleteForward ==
  ASSUME TypeInv, NEW r \in Resource, Running(r), DeleteNext(r)
  PROVE  Advances(r)
<1>1. ~BeginDelete(r)
  BY DEF BeginDelete, Running
<1>2. CASE Destroy(r)
  BY <1>2, EndAdvances DEF Destroy, Try
<1>3. CASE List(r)
  <2>1. pc[r] = "list" /\ (Keep(r) \/ Go(r, "remove"))
    BY <1>3 DEF List, Try
  <2>2. ASSUME Go(r, "remove") PROVE Advances(r)
    BY <2>1, <2>2 DEF Go, Advances, Part, DeleteStep, TypeInv, TypeOK
  <2> QED BY <2>1, <2>2, EndAdvances
<1>4. CASE Remove(r)
  <2>1. /\ pc[r] = "remove"
        /\ \/ Keep(r) \/ Forget(r)
           \/ \E d \in todo[r] : Go(r, "remove") /\ todo' = [todo EXCEPT ![r] = @ \ {d}]
    BY <1>4 DEF Remove, Try
  <2>2. ASSUME NEW d \in todo[r], Go(r, "remove"), todo' = [todo EXCEPT ![r] = @ \ {d}]
        PROVE  Advances(r)
    <3>1. pc'[r] = "remove" /\ todo'[r] = todo[r] \ {d}
      BY <2>2 DEF Go, TypeInv, TypeOK
    <3>2. d \in todo[r] /\ d \notin todo'[r]
      BY <2>2, <3>1
    <3>3. todo'[r] \subseteq todo[r] /\ todo'[r] # todo[r]
      BY <3>1, <3>2
    <3> QED BY <2>1, <3>1, <3>3 DEF Advances, DeleteStep
  <2> QED BY <2>1, <2>2, EndAdvances
<1> QED BY <1>1, <1>2, <1>3, <1>4 DEF DeleteNext

\* A step of r leaves the places of the others alone.
LEMMA OthersStand ==
  ASSUME TypeInv, NEW r \in Resource, CreateNext(r) \/ DeleteNext(r), NEW q \in Resource \ {r}
  PROVE  pc'[q] = pc[q] /\ todo'[q] = todo[q]
<1>1. \A s : Go(r, s) => pc'[q] = pc[q]
  BY DEF Go, TypeInv, TypeOK
<1>2. Ended(r) => todo'[q] = todo[q]
  BY DEF Ended, TypeInv, TypeOK
<1> DEFINE Stands == pc'[q] = pc[q] /\ todo'[q] = todo[q]
<1>3. Store(r) \/ Forget(r) \/ Keep(r) \/ (\E s : To(r, s)) => Stands
  BY <1>1, <1>2 DEF Store, Forget, Keep, To
<1>4. \A left : NextOf(r, left) => Stands
  BY <1>1, <1>3 DEF NextOf, TypeInv, TypeOK
<1>5. Failed(r) \/ Registered(r) => Stands
  BY <1>3, <1>4 DEF Failed, Registered
<1>6. CASE BeginCreate(r) \/ Return(r) \/ BeginDelete(r)
  BY <1>1, <1>6 DEF BeginCreate, Return, BeginDelete
<1>7. CASE Launch(r) \/ Discover(r) \/ Destroy(r)
  <2>1. \/ Store(r) \/ Forget(r) \/ Keep(r) \/ To(r, "discover")
        \/ \E left : NextOf(r, left)
    BY <1>7 DEF Launch, Discover, Destroy, Try
  <2> QED BY <1>3, <1>4, <2>1
<1>8. CASE CreateUser(r) \/ Grant(r) \/ SetLimit(r) \/ GrantSchema(r) \/ AddService(r)
  <2>1. Failed(r) \/ Registered(r) \/ \E step : To(r, step)
    BY <1>8 DEF CreateUser, Grant, SetLimit, GrantSchema, GrantTo, AddService, Work, Try
  <2> QED BY <1>3, <1>5, <2>1
<1>9. CASE List(r) \/ Remove(r)
  <2>1. \/ Keep(r) \/ Forget(r)
        \/ Go(r, "remove") /\ \E left : todo' = [todo EXCEPT ![r] = left]
    BY <1>9 DEF List, Remove, Try
  <2> QED BY <1>1, <1>3, <2>1 DEF TypeInv, TypeOK
<1> QED BY <1>6, <1>7, <1>8, <1>9 DEF CreateNext, DeleteNext

\* No Create and no Delete goes round in circles or stands still at a step of its
\* own, whatever fails and whatever the others do: the part of DestroyConverges
\* that does not depend on fairness.
THEOREM OperationsGoForward == Spec => Forward
<1>1. Init => TypeInv
  BY InitType, InitBegun DEF TypeInv
<1>2. TypeInv /\ [Next]_vars => TypeInv'
  BY NextType
<1>3. TypeInv /\ [Next]_vars =>
        [\A r \in Resource : Running(r) =>
           \/ Advances(r)
           \/ pc'[r] = pc[r] /\ todo'[r] = todo[r] /\ ~CreateNext(r) /\ ~DeleteNext(r)]_vars
  <2> SUFFICES ASSUME TypeInv, Next, NEW r \in Resource, Running(r),
                      ~CreateNext(r), ~DeleteNext(r)
               PROVE  Advances(r) \/ (pc'[r] = pc[r] /\ todo'[r] = todo[r])
    BY CreateForward, DeleteForward
  <2>1. Kill => ~Running(r)'
    BY DEF Kill, Running
  <2>2. \A q \in Rds : Update(q) => UNCHANGED <<pc, todo>>
    BY DEF Update
  <2> QED BY <2>1, <2>2, OthersStand DEF Next, Advances
<1> QED BY <1>1, <1>2, <1>3, PTL DEF Spec, Forward

-----------------------------------------------------------------------------
(* What a Delete of a percona_pmm_rds resource needs, and what it leaves.  *)

\* A service with the label that the Delete of r is about.
Labelled(x, r) == x.by = r /\ x.n = id[r]

\* A Delete whose calls are served only fails where there is no server, and one
\* that has its server keeps it; when it succeeds, no service at its server has the
\* label it was about, and none elsewhere has it but those at a server that an
\* Update has moved the resource away from.  (rds.go:114-138, util.go:15-61)
DestroyComplete ==
  [][\A r \in Rds : pc[r] \in {"list", "remove"} =>
       /\ pc'[r] = "known" /\ UNCHANGED faults => Kill \/ AddressOf(r) \notin alive
       /\ AddressOf(r) \in alive => AddressOf(r) \in alive'
       /\ pc'[r] = "absent" => \A x \in services' : Labelled(x, r) => Moved(x) /\ x.server # AddressOf(r)]_vars

LEMMA OwnDelete ==
  ASSUME BookInv, NEW r \in Rds, List(r) \/ Remove(r)
  PROVE  /\ pc'[r] = "known" /\ UNCHANGED faults => AddressOf(r) \notin alive
         /\ UNCHANGED alive
         /\ pc'[r] = "absent" => \A x \in services' : Labelled(x, r) => Moved(x) /\ x.server # AddressOf(r)
<1> r \in Resource /\ TypeInv
  BY DEF Resource, BookInv
<1>1. faults' # faults \/ ~Fault(r)
  BY DEF Fault, TypeInv, TypeOK
<1>2. Go(r, "remove") \/ Forget(r) => pc'[r] # "known"
  BY DEF Go, Forget, TypeInv, TypeOK
<1>3. Go(r, "remove") \/ Keep(r) => pc'[r] # "absent"
  BY DEF Go, Keep, TypeInv, TypeOK
<1>4. CASE List(r)
  BY <1>1, <1>2, <1>3, <1>4 DEF List, Try, World
<1>5. CASE Remove(r) /\ todo[r] # {}
  BY <1>1, <1>2, <1>3, <1>5 DEF Remove, Try
<1>6. CASE Remove(r) /\ todo[r] = {}
  <2>1. pc[r] = "remove" /\ Forget(r) /\ UNCHANGED <<services, alive>>
    BY <1>6 DEF Remove
  <2>2. \A x \in services : Labelled(x, r) => x.server # AddressOf(r)
    BY <1>6, <2>1 DEF BookInv, Book, Listed, Labelled
  <2>3. \A x \in services : Labelled(x, r) => x.server = AddressOf(r) \/ Moved(x)
    BY <2>1 DEF BookInv, Book, Located, Unstored, CreateStep, Labelled
  <2> QED BY <1>2, <2>1, <2>2, <2>3
<1> QED BY <1>4, <1>5, <1>6

\* Nobody takes the server away from a Delete.
LEMMA ServerStays ==
  ASSUME BookInv, [Next]_vars, NEW r \in Rds, pc[r] \in {"list", "remove"},
         AddressOf(r) \in alive
  PROVE  AddressOf(r) \in alive'
<1> r \in Resource /\ TypeInv /\ Running(r)
  BY DEF Resource, BookInv, Running
<1>1. ASSUME NEW p \in Pmm, Running(p) PROVE AddressOf(r) # p
  <2>1. p \in Dependent(r) \/ AddressOf(r) # p
    BY SetAssumption DEF Dependent, AddressOf, Resource
  <2> QED BY <1>1, <2>1 DEF BookInv, Book, Exclusive
<1>2. ASSUME NEW q \in Resource, CreateNext(q) PROVE alive \subseteq alive'
  BY <1>2 DEF CreateNext, BeginCreate, Launch, Discover, CreateUser, Grant, SetLimit,
              GrantSchema, GrantTo, AddService, Return, Work, Try, World
<1>3. ASSUME NEW q \in Resource, DeleteNext(q)
      PROVE  alive' = alive \/ (Destroy(q) /\ alive' = alive \ {q})
  BY <1>3 DEF DeleteNext, BeginDelete, Destroy, List, Remove, Try, World
<1>4. ASSUME NEW q \in Resource, Destroy(q) PROVE AddressOf(r) # q
  <2>1. q \in Pmm /\ Running(q)
    BY <1>4 DEF Destroy, TypeInv, Begun, Running
  <2> QED BY <1>1, <2>1
<1>5. ASSUME Kill PROVE AddressOf(r) \in alive'
  <2>1. \A p \in Creating \cap Pmm : Running(p)
    BY DEF Creating, Running, CreateStep
  <2> QED BY <1>1, <1>5, <2>1 DEF Kill
<1>6. UNCHANGED vars \/ (\E q \in Rds : Update(q)) => alive' = alive
  BY DEF vars, Update, World
<1> QED BY <1>2, <1>3, <1>4, <1>5, <1>6 DEF Next

\* With any number of servers, resources and instances: the safety core of
\* DestroyConverges, and what makes a destroy worth repeating.
THEOREM DestroyedLeavesNothing == Spec => DestroyComplete
<1>1. Init => BookInv
  BY InitType, InitBegun, InitBook DEF BookInv, TypeInv
<1>2. BookInv /\ [Next]_vars => BookInv'
  BY NextBook
<1>3. BookInv /\ [Next]_vars =>
        [\A r \in Rds : pc[r] \in {"list", "remove"} =>
           /\ pc'[r] = "known" /\ UNCHANGED faults => Kill \/ AddressOf(r) \notin alive
           /\ AddressOf(r) \in alive => AddressOf(r) \in alive'
           /\ pc'[r] = "absent" => \A x \in services' : Labelled(x, r) => Moved(x) /\ x.server # AddressOf(r)]_vars
  <2> SUFFICES ASSUME BookInv, Next, NEW r \in Rds, pc[r] \in {"list", "remove"}
               PROVE  /\ pc'[r] = "known" /\ UNCHANGED faults => Kill \/ AddressOf(r) \notin alive
                      /\ pc'[r] = "absent" => \A x \in services' : Labelled(x, r) => Moved(x) /\ x.server # AddressOf(r)
    BY ServerStays
  <2> r \in Resource /\ TypeInv
    BY DEF Resource, BookInv
  <2>1. CASE Kill
    BY <2>1 DEF Kill, Creating, CreateStep, Running, TypeInv, TypeOK
  <2>2. ASSUME NEW q \in Resource \ {r}, CreateNext(q) \/ DeleteNext(q) PROVE pc'[r] = pc[r]
    BY <2>2, OthersStand
  <2>3. ~CreateNext(r)
    BY DEF CreateNext, BeginCreate, Launch, Discover, CreateUser, Grant, SetLimit,
           GrantSchema, GrantTo, AddService, Return, Work
  <2>4. DeleteNext(r) => List(r) \/ Remove(r)
    BY DEF DeleteNext, BeginDelete, Destroy
  <2>5. \A q \in Rds : Update(q) => UNCHANGED pc
    BY DEF Update
  <2> QED BY <2>1, <2>2, <2>3, <2>4, <2>5, OwnDelete DEF Next
<1> QED BY <1>1, <1>2, <1>3, PTL DEF Spec, DestroyComplete
=============================================================================
