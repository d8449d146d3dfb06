-------------------------- MODULE EngineRefinement --------------------------
(***************************************************************************)
(* The engine implements the kernel: what the validator replays is the    *)
(* engine's store under this mapping (the exporter's global view).  A     *)
(* held job is queued, an intent is open exactly while the job is         *)
(* placing, and the providers' slots add up: the kernel's capacity is the *)
(* number of places they offer.  Slots cost nothing here.                  *)
(***************************************************************************)
EXTENDS Engine

ASSUME FleetAssumption == IsFiniteSet(Providers)

KernelState(j) ==
    CASE job[j].st = "held" -> "queued"
      [] job[j].st = "running" -> "placed"
      [] OTHER -> job[j].st
States == [j \in Jobs |-> KernelState(j)]
CapturedJobs == {j \in Jobs : job[j].captured}
ReapedJobs == {j \in Jobs : job[j].reaped}
PlacingJobs == {j \in Jobs : job[j].st = "placing"}
HeldJobs == {j \in Jobs : Held(j)}
Places == UNION {{p} \X (1..Slots[p]) : p \in Providers}

Global == INSTANCE Kernel WITH
    Cost <- [j \in Jobs |-> 0],
    Budget <- 0,
    Cap <- Cardinality(Places),
    st <- States,
    captured <- CapturedJobs,
    reaped <- ReapedJobs,
    intents <- PlacingJobs,
    ext <- HeldJobs,
    spent <- 0

\* The registry holds at most the resource of the job's current placement, and a
\* placing job whose resource is registered knows that it is provisioned.
Alone(j) ==
    \A p \in Providers : <<p, j>> \in unreleased =>
        /\ job[j].prov = p
        /\ job[j].st \in Occupying \union Terminal
        /\ job[j].st = "placing" => job[j].prv
AllAlone == \A j \in Jobs : Alone(j)

\* The one step that is none of the kernel's (README, divergence 5): contention
\* rolls a placement back whose resource an earlier rent of the same arc registered.
Contended == \E j \in Jobs, p \in Providers : RentContended(j, p) /\ Held(j)

\* Every step of the engine is a step of the kernel or invisible to it, from the
\* start and for as long as no such contention leaves a registered resource behind.
ImplementsKernel ==
    /\ Global!Init /\ AllAlone
    /\ [][AllAlone => \/ Contended
                       \/ /\ [Global!Next]_(Global!vars)
                          /\ AllAlone']_vars

\* Without it, the engine is the kernel.
Uncontended == [][~Contended]_vars
=============================================================================
