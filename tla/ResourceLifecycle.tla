------------------------- MODULE ResourceLifecycle -------------------------
(***************************************************************************)
(* What the provider promises Terraform about one managed resource,        *)
(* whatever the cloud: the operations of resource.Resource (Create and     *)
(* Delete, internal/resource/resource.go) move a resource through a life   *)
(* cycle, and the objects a resource leaves in the cloud account (its      *)
(* footprint) grow only while a Create runs and are gone when a Delete     *)
(* succeeds.  The detailed modules implement this specification.           *)
(***************************************************************************)
EXTENDS FiniteSets

CONSTANTS
  Resource,   \* the resource ids GenerateResourceID hands out
  Lenient     \* TRUE: a Delete may succeed with objects left behind

VARIABLES
  phase,      \* the phase of the life of each resource
  footprint   \* the resources that have at least one object in the cloud

lifecycleVars == <<phase, footprint>>

Phase == {"absent", "creating", "ready", "broken", "deleting", "destroyed", "lost"}

LifecycleTypeOK ==
  /\ phase \in [Resource -> Phase]
  /\ footprint \subseteq Resource

LifecycleInit ==
  /\ phase = [r \in Resource |-> "absent"]
  /\ footprint = {}

Move(r, from, to) ==
  /\ phase[r] \in from
  /\ phase' = [phase EXCEPT ![r] = to]

\* Create has stored an id for r: from here on r is the provider's to clean up.
BeginCreate(r) == Move(r, {"absent"}, "creating") /\ UNCHANGED footprint

\* A call of Create makes an object; the same call may be the one that fails.
Grow(r) ==
  /\ phase[r] = "creating"
  /\ footprint' = footprint \cup {r}
  /\ \/ UNCHANGED phase
     \/ phase' = [phase EXCEPT ![r] = "broken"]

EndCreate(r) ==
  /\ Move(r, {"creating"}, "ready") \/ Move(r, {"creating"}, "broken")
  /\ UNCHANGED footprint

BeginDelete(r) == Move(r, {"ready", "broken"}, "deleting") /\ UNCHANGED footprint

\* The last object of r disappears: a call of Delete removed it, or something
\* Delete asked for before it gave up takes effect late.
Shrink(r) ==
  /\ phase[r] \notin {"absent", "creating", "ready", "lost"}
  /\ footprint' = footprint \ {r}
  /\ \/ UNCHANGED phase
     \/ Move(r, {"deleting"}, "broken")
     \/ Move(r, {"deleting"}, "destroyed")

EndDelete(r) ==
  /\ Lenient \/ r \notin footprint
  /\ Move(r, {"deleting"}, "destroyed")
  /\ UNCHANGED footprint

FailDelete(r) == Move(r, {"deleting"}, "broken") /\ UNCHANGED footprint

\* The provider process dies.  Terraform never learns the id of a resource it
\* was creating, and keeps in its state one it was deleting.
Crash(S) ==
  /\ phase' = [r \in Resource |->
                 IF r \in S /\ phase[r] = "creating" THEN "lost"
                 ELSE IF r \in S /\ phase[r] = "deleting" THEN "broken"
                 ELSE phase[r]]
  /\ UNCHANGED footprint

LifecycleNext ==
  \/ \E r \in Resource :
       \/ BeginCreate(r) \/ Grow(r) \/ EndCreate(r)
       \/ BeginDelete(r) \/ Shrink(r) \/ EndDelete(r) \/ FailDelete(r)
  \/ \E S \in SUBSET Resource : Crash(S)

LifecycleSpec == LifecycleInit /\ [][LifecycleNext]_lifecycleVars

-----------------------------------------------------------------------------
\* A resource Terraform has dropped from its state after a successful Delete
\* has nothing left in the cloud, unless errors of Delete are ignored.
DestroyedIsGone ==
  \A r \in Resource : phase[r] = "destroyed" /\ ~Lenient => r \notin footprint

\* An object in the cloud always belongs to a resource that Terraform knows,
\* that the provider works on, that errors were ignored for, or that a crash lost.
FootprintAccounted ==
  \A r \in footprint : phase[r] # "absent" /\ (phase[r] = "destroyed" => Lenient)
=============================================================================
