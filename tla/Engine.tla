------------------------------- MODULE Engine -------------------------------
(***************************************************************************)
(* The resident engine of one process over one store: the scheduling      *)
(* pass, the supervisor's work items (place, cancel, capture, reap), the   *)
(* observer, the daemon's submit, cancel and retry handlers, and a crash   *)
(* of the process between any two durable steps.                           *)
(*                                                                         *)
(* Grain.  A step of the model is what runs between two awaits of the     *)
(* event loop, cut further at every commit, since a crash can fall        *)
(* between two commits.  One decision of the pass with its enactment is   *)
(* one step: the pass awaits nothing, so no work item runs inside it.     *)
(* The daemon's handlers run on threads of their own and interleave with  *)
(* everything, one store call at a time.                                   *)
(*                                                                         *)
(* Money, time and offers are abstracted: slots are free, a backoff or a  *)
(* quarantine ends at any moment, a provider offers one slot.             *)
(*                                                                         *)
(* Operators named Bug... are wrong variants of the definition that       *)
(* follows them; no action uses them (see README, "Mutants").             *)
(***************************************************************************)
EXTENDS Naturals, FiniteSets

CONSTANTS
    Jobs,
    Providers,
    NoProvider,    \* the placement of a job that has none
    Slots,         \* capacity of each provider's slot
    MaxAttempts,   \* SchedPolicy.max_attempts
    CaptureTries,  \* Engine capture_tries
    MaxFaults,     \* bound: provider and worker failures
    MaxCrashes,    \* bound: crashes of the process
    MaxRetries,    \* bound: retries asked by the user
    MaxLate        \* bound: calls left behind at one time

ASSUME ProviderAssumption == NoProvider \notin Providers
ASSUME SlotsAssumption == Slots \in [Providers -> Nat]
ASSUME LimitsAssumption ==
    /\ MaxAttempts \in Nat \ {0}
    /\ CaptureTries \in Nat \ {0}
ASSUME BoundsAssumption ==
    /\ MaxFaults \in Nat
    /\ MaxCrashes \in Nat
    /\ MaxRetries \in Nat
    /\ MaxLate \in Nat

VARIABLES
    \* The store: what survives a crash.
    job,         \* the jobs table: one record per job
    intent,      \* the intents table: at most one work item per job
    unreleased,  \* the resources table: minted and not released
    \* The process: what a crash loses.
    task,        \* the place, capture or reap task of each job
    canc,        \* how far the cancel task of each job is
    cancels,     \* jobs with a cancel request the pass has yet to settle
    handles,     \* resource handles cached by the provider adapters
    boot,        \* jobs the first pass of this process has yet to adopt
    stream,      \* jobs whose log stream is followed
    calling,     \* where the daemon's cancel handler is for each job
    \* The providers.
    world,       \* the resource a provider holds under a job's key
    orphans,     \* calls whose task is gone, still on their way
    \* History and bounds.
    strays,      \* keys at which a call nobody heard created or started something
    faults, crashes, retries

store == <<job, intent, unreleased>>
process == <<task, canc, cancels, handles, boot, stream, calling>>
provider == <<world, orphans, strays>>
bounds == <<faults, crashes, retries>>
vars == <<store, process, provider, bounds>>

Keys == Providers \X Jobs

-----------------------------------------------------------------------------
(* Jobs.                                                                   *)

Terminal == {"succeeded", "failed", "cancelled"}
Pending == {"queued", "held"}
Occupying == {"placing", "running"}
JState == {"none"} \union Pending \union Occupying \union Terminal

\* prov: the placement's provider; prv: a provision event in this arc; hnd:
\* the placement carries a launched handle; lost: last_status is LOST.
JobRecord ==
    [st : JState, prov : Providers \union {NoProvider}, prv : BOOLEAN,
     hnd : BOOLEAN, lost : BOOLEAN, captured : BOOLEAN, reaped : BOOLEAN,
     attempts : 0..MaxAttempts]

Unplaced(attempts) ==
    [st |-> "queued", prov |-> NoProvider, prv |-> FALSE, hnd |-> FALSE,
     lost |-> FALSE, captured |-> FALSE, reaped |-> FALSE,
     attempts |-> attempts]

\* Jobs never submitted have no record.
Absent == [Unplaced(0) EXCEPT !.st = "none"]

IsTerminal(j) == job[j].st \in Terminal
IsDead(j) == job[j].st = "running" /\ job[j].lost
Known(p, j) == <<p, j>> \in handles \/ (job[j].prov = p /\ job[j].hnd)
Held(j) == \E p \in Providers : <<p, j>> \in unreleased
Active(p) == {j \in Jobs : job[j].st \in Occupying /\ job[j].prov = p}

\* May be placed once more, on a provider with room for it.
BugEligible(j) == job[j].attempts <= MaxAttempts
Eligible(j) == job[j].attempts < MaxAttempts
BugRoom(p) == Cardinality(Active(p)) <= Slots[p]
Room(p) == Cardinality(Active(p)) < Slots[p]

-----------------------------------------------------------------------------
(* Work items.  `left': capture tries left; `spawns': boot adoptions       *)
(* stamped within the crash window; `frozen': retry_at not reached.        *)

Row ==
    [kind : {"none", "place", "cancel", "capture", "reap", "release-lost"},
     stage : {"none", "assign", "rent", "boot", "launch"},
     prov : Providers \union {NoProvider}, left : 0..CaptureTries,
     spawns : 0..2, frozen : BOOLEAN, poisoned : BOOLEAN]

Item(kind, prov) ==
    [kind |-> kind, stage |-> "none", prov |-> prov, left |-> 0,
     spawns |-> 0, frozen |-> FALSE, poisoned |-> FALSE]

NoRow == Item("none", NoProvider)
PlaceItem(prov) == [Item("place", prov) EXCEPT !.stage = "assign"]
CaptureItem(prov, tries) == [Item("capture", prov) EXCEPT !.left = tries]

Open(j) == intent[j].kind # "none"

\* An upsert rewrites the row but keeps its quarantine.
Put(j, row) ==
    intent' = [intent EXCEPT ![j] = [row EXCEPT !.poisoned = intent[j].poisoned]]
Close(j) == intent' = [intent EXCEPT ![j] = NoRow]

\* I10: an unreachable provider changes nothing but the retry timer, and
\* nothing at all when the row is gone.
Freeze(j) ==
    intent' = [intent EXCEPT ![j] = IF Open(j) THEN [@ EXCEPT !.frozen = TRUE] ELSE @]

\* A task: where it awaits, and the item it was spawned with.
PC == {"idle", "assign", "renting", "minted", "readying", "launching",
       "capturing", "releasing"}
Task == [pc : PC, item : Row]
NoTask == [pc |-> "idle", item |-> NoRow]

CancelPC == {"idle", "preempt", "begin", "unwind", "stop", "apply"}

Live(j) == task[j].pc # "idle" \/ canc[j] # "idle"
Spawn(j, pc, item) == task' = [task EXCEPT ![j] = [pc |-> pc, item |-> item]]
Advance(j, pc) == task' = [task EXCEPT ![j].pc = pc]
Done(j) == task' = [task EXCEPT ![j] = NoTask]

\* Failures are counted: the bound is on the environment, not on the code.
Fault == faults < MaxFaults /\ faults' = faults + 1
NoFault == UNCHANGED faults

\* What the provider holds: nothing, an instance without a worker, one
\* whose worker runs, exited with its result, or died without one.
World == {"absent", "idle", "busy", "exited", "dead"}

\* What a rent makes of it: nothing is duplicated, and a rent that carries
\* the payload (slurm, kaggle, colab) starts the worker as well.
Rented(w) == IF w = "absent" THEN {"idle", "busy"} ELSE {w}

\* A launch is idempotent: it starts the worker of an instance without one.
Launched(w) == IF w = "idle" THEN "busy" ELSE w

At(k, w) == world' = [world EXCEPT ![k] = w]

\* A call made for a job runs on a thread of its own, or on its wire.  The
\* preemption of its task or the death of the process leaves it behind (the
\* calls above the bound fail).
Calls == {"renting", "launching", "releasing"}
InFlight(S) == {<<task[j].pc, <<task[j].item.prov, j>>>> : j \in S} \intersect (Calls \X Keys)
Abandon(S) ==
    orphans' = IF Cardinality(orphans) < MaxLate THEN orphans \union InFlight(S) ELSE orphans

Init ==
    /\ job = [j \in Jobs |-> Absent]
    /\ intent = [j \in Jobs |-> NoRow]
    /\ unreleased = {}
    /\ task = [j \in Jobs |-> NoTask]
    /\ canc = [j \in Jobs |-> "idle"]
    /\ cancels = {}
    /\ handles = {}
    /\ boot = {}
    /\ stream = {}
    /\ calling = [j \in Jobs |-> "idle"]
    /\ world = [k \in Keys |-> "absent"]
    /\ orphans = {}
    /\ strays = {}
    /\ faults = 0
    /\ crashes = 0
    /\ retries = 0

-----------------------------------------------------------------------------
(* The daemon's handlers.                                                  *)

Submit(j) ==
    /\ job[j].st = "none"
    /\ job' = [job EXCEPT ![j] = Unplaced(0)]
    /\ UNCHANGED <<intent, unreleased, process, provider, bounds>>

\* The handler reads the job and whether a work item is open...
CancelCheck(j) ==
    /\ calling[j] = "idle"
    /\ job[j].st \notin {"none"} \union Terminal
    /\ calling' = [calling EXCEPT ![j] = IF Open(j) THEN "signal" ELSE "put"]
    /\ UNCHANGED <<store, task, canc, cancels, handles, boot, stream, provider, bounds>>

\* ... writes the durable request if it saw none, over whatever is there now...
CancelPut(j) ==
    /\ calling[j] = "put"
    /\ Put(j, Item("cancel", job[j].prov))
    /\ calling' = [calling EXCEPT ![j] = "signal"]
    /\ UNCHANGED <<job, unreleased, task, canc, cancels, handles, boot, stream,
                   provider, bounds>>

\* ... and signals the engine; its answer acknowledges the cancel.
CancelSignal(j) ==
    /\ calling[j] = "signal"
    /\ cancels' = cancels \union {j}
    /\ calling' = [calling EXCEPT ![j] = "idle"]
    /\ UNCHANGED <<store, task, canc, handles, boot, stream, provider, bounds>>

\* The settle before a retry is bounded, so only the registry is a guard.
\* One user drives a job: a retry waits for the answer to a cancel.
Retry(j) ==
    /\ retries < MaxRetries
    /\ calling[j] = "idle"
    /\ IsTerminal(j)
    /\ ~Held(j)
    /\ job' = [job EXCEPT ![j] = Unplaced(0)]
    /\ retries' = retries + 1
    /\ UNCHANGED <<intent, unreleased, process, provider, faults, crashes>>

-----------------------------------------------------------------------------
(* The pass: adoption of open work items.                                  *)

BugAdoptableCancel(j) ==
    Open(j) /\ intent[j].kind # "cancel" /\ ~Live(j) /\ ~intent[j].frozen /\ ~intent[j].poisoned
Adoptable(j) == Open(j) /\ ~Live(j) /\ ~intent[j].frozen /\ ~intent[j].poisoned

Adopt(j, row) ==
    IF row.kind = "cancel"
    THEN /\ canc' = [canc EXCEPT ![j] = "begin"]
         /\ cancels' = cancels \union {j}
         /\ UNCHANGED task
    ELSE /\ Spawn(j, CASE row.kind = "place" -> "assign"
                       [] row.kind = "capture" -> "capturing"
                       [] OTHER -> "releasing", row)
         /\ UNCHANGED <<canc, cancels>>

\* The first pass of a process stamps what it adopts (stamps older than the
\* crash window are trimmed)...
BootAdopt(j) ==
    /\ j \in boot
    /\ Adoptable(j)
    /\ LET row == [intent[j] EXCEPT !.spawns = 1]
       IN  Put(j, row) /\ Adopt(j, row)
    /\ boot' = boot \ {j}
    /\ UNCHANGED <<job, unreleased, handles, stream, calling, provider, bounds>>

\* ... and parks what it adopted within the window already.
Quarantine(j) ==
    /\ j \in boot
    /\ Adoptable(j)
    /\ intent[j].spawns > 0
    /\ intent' = [intent EXCEPT ![j].spawns = 2, ![j].poisoned = TRUE]
    /\ boot' = boot \ {j}
    /\ UNCHANGED <<job, unreleased, task, canc, cancels, handles, stream, calling,
                   provider, bounds>>

BootSkip(j) ==
    /\ j \in boot
    /\ ~Adoptable(j)
    /\ boot' = boot \ {j}
    /\ UNCHANGED <<store, task, canc, cancels, handles, stream, calling,
                   provider, bounds>>

\* Later passes respawn the items whose retry timer has elapsed.
PassAdopt(j) ==
    /\ boot = {}
    /\ Adoptable(j)
    /\ Adopt(j, intent[j])
    /\ UNCHANGED <<store, handles, boot, stream, calling, provider, bounds>>

-----------------------------------------------------------------------------
(* The pass: decisions and their enactment.                                *)

\* Nothing is decided for a job with an open item or a pending cancel.
Undecided(j) == boot = {} /\ ~Open(j) /\ (j \in cancels => IsTerminal(j))

\* A cancel preempts everything but another cancel item.
PassCancel(j) ==
    /\ boot = {}
    /\ j \in cancels
    /\ ~IsTerminal(j)
    /\ intent[j].kind # "cancel"
    /\ canc[j] = "idle"
    /\ canc' = [canc EXCEPT ![j] = IF task[j].pc = "idle" THEN "begin" ELSE "preempt"]
    /\ UNCHANGED <<store, task, cancels, handles, boot, stream, calling,
                   provider, bounds>>

\* Terminal with a placement, or positively dead: capture comes first.
Unsettled(j) ==
    \/ IsTerminal(j) /\ job[j].prov # NoProvider /\ ~job[j].reaped
    \/ IsDead(j)

NeedsCapture(j) == Unsettled(j) /\ ~job[j].captured

\* Then the release: reap of a terminal job, release-lost of a dead one.
NeedsRelease(j) == Unsettled(j) /\ job[j].captured /\ (IsDead(j) => Held(j))

PassCapture(j) ==
    /\ Undecided(j) /\ NeedsCapture(j) /\ ~Live(j)
    /\ LET item == CaptureItem(job[j].prov, IF IsDead(j) THEN 1 ELSE CaptureTries)
       IN  Put(j, item) /\ Spawn(j, "capturing", item)
    /\ UNCHANGED <<job, unreleased, canc, cancels, handles, boot, stream, calling,
                   provider, bounds>>

PassRelease(j) ==
    /\ Undecided(j) /\ NeedsRelease(j) /\ ~Live(j)
    /\ LET item == Item(IF IsDead(j) THEN "release-lost" ELSE "reap", job[j].prov)
       IN  Put(j, item) /\ Spawn(j, "releasing", item)
    /\ UNCHANGED <<job, unreleased, canc, cancels, handles, boot, stream, calling,
                   provider, bounds>>

BugPassRequeue(j) ==
    /\ Undecided(j) /\ IsDead(j)
    /\ job[j].captured
    /\ job' = [job EXCEPT ![j] = Unplaced(@.attempts)]
    /\ UNCHANGED <<intent, unreleased, process, provider, bounds>>

\* And only then the queue.
PassRequeue(j) ==
    /\ Undecided(j) /\ IsDead(j)
    /\ job[j].captured
    /\ ~Held(j)
    /\ job' = [job EXCEPT ![j] = Unplaced(@.attempts)]
    /\ UNCHANGED <<intent, unreleased, process, provider, bounds>>

\* Attempts exhausted, or a dependency failed: dependencies are not modelled,
\* so that one may strike at any moment.
PassFail(j) ==
    /\ Undecided(j) /\ job[j].st \in Pending
    /\ job' = [job EXCEPT ![j].st = "failed", ![j].lost = FALSE]
    /\ UNCHANGED <<intent, unreleased, process, provider, bounds>>

\* Held while no offered slot fits or a dependency runs; unheld when one does.
PassHold(j) ==
    /\ Undecided(j) /\ job[j].st = "queued"
    /\ Eligible(j)
    /\ job' = [job EXCEPT ![j].st = "held"]
    /\ UNCHANGED <<intent, unreleased, process, provider, bounds>>

PassUnhold(j) ==
    /\ Undecided(j) /\ job[j].st = "held"
    /\ Eligible(j)
    /\ job' = [job EXCEPT ![j].st = "queued"]
    /\ UNCHANGED <<intent, unreleased, process, provider, bounds>>

\* The place item is opened in the transaction of the reserve.
PassReserve(j, p) ==
    /\ Undecided(j) /\ job[j].st \in Pending
    /\ Eligible(j)
    /\ Room(p)
    /\ job' = [job EXCEPT ![j].st = "placing", ![j].prov = p, ![j].prv = FALSE]
    /\ Put(j, PlaceItem(p))
    /\ IF Live(j) THEN UNCHANGED task ELSE Spawn(j, "assign", PlaceItem(p))
    /\ UNCHANGED <<unreleased, canc, cancels, handles, boot, stream, calling,
                   provider, bounds>>

-----------------------------------------------------------------------------
(* The place item: rent, boot, launch, activate.                           *)

AtPlace(j, pc, p) == task[j].pc = pc /\ task[j].item.prov = p
BugStaged(j, stage) == [PlaceItem(task[j].item.prov) EXCEPT !.stage = stage]
Staged(j, stage) == [task[j].item EXCEPT !.stage = stage]
ToRent(j) == task[j].item.stage \in {"assign", "rent"}

\* The failure path of every stage: nothing provisioned in this arc goes
\* back to the queue, a provisioned placement is activated, as dead unless
\* a cancel preempted it.  `Rolledback' is the half that never asks.
Rolledback(j, attempts) ==
    [job[j] EXCEPT !.st = "queued", !.prov = NoProvider, !.attempts = attempts]

BugUnwound(j, attempts, preempt) == Rolledback(j, attempts)
BugUnwoundPlaced(j, attempts, preempt) ==
    [job[j] EXCEPT !.st = "running", !.lost = @ \/ ~preempt, !.attempts = attempts]
Unwound(j, attempts, preempt) ==
    IF ~job[j].prv THEN Rolledback(j, attempts)
    ELSE [job[j] EXCEPT !.st = "running", !.lost = @ \/ ~preempt, !.attempts = attempts]

\* The transition applies only to a placing job, and closes the row with it.
Resolve(j, rec) ==
    IF job[j].st = "placing"
    THEN job' = [job EXCEPT ![j] = rec] /\ Close(j)
    ELSE UNCHANGED <<job, intent>>

Counted(j) == job[j].attempts + 1

PlaceStart(j, p) ==
    /\ AtPlace(j, "assign", p)
    /\ ToRent(j) /\ ~Known(p, j)
    /\ Put(j, Staged(j, "rent"))
    /\ Spawn(j, "renting", Staged(j, "rent"))
    /\ UNCHANGED <<job, unreleased, canc, cancels, handles, boot, stream, calling,
                   provider, bounds>>

\* A respawned item resumes at its durable stage, on the cached handle...
PlaceResume(j, p) ==
    /\ AtPlace(j, "assign", p)
    /\ ~ToRent(j) /\ Known(p, j)
    /\ Advance(j, IF task[j].item.stage = "boot" THEN "readying" ELSE "launching")
    /\ UNCHANGED <<store, canc, cancels, handles, boot, stream, calling,
                   provider, bounds>>

\* ... and fails as an infrastructure failure where none is cached.
PlaceNoHandle(j, p) ==
    /\ AtPlace(j, "assign", p)
    /\ ~ToRent(j) /\ ~Known(p, j)
    /\ Resolve(j, Unwound(j, Counted(j), FALSE))
    /\ Done(j)
    /\ UNCHANGED <<unreleased, canc, cancels, handles, boot, stream, calling,
                   provider, bounds>>

\* A provision event is recorded in a placing job only, and only once; the
\* mint goes with it.
BugProvisioned(j) == job[j].prv
Provisioned(j) == job[j].prv \/ job[j].st = "placing"

\* Create-or-adopt: a known handle is trusted, else the provider is asked
\* for the key, else it is rented.  Provision event and mint: one commit.
RentDone(j, p) ==
    /\ AtPlace(j, IF Known(p, j) THEN "assign" ELSE "renting", p)
    /\ ToRent(j)
    /\ IF Known(p, j) THEN UNCHANGED world
       ELSE \E w \in Rented(world[<<p, j>>]) : At(<<p, j>>, w)
    /\ handles' = handles \union {<<p, j>>}
    /\ job' = [job EXCEPT ![j].prv = Provisioned(j)]
    /\ unreleased' = IF Provisioned(j) THEN unreleased \union {<<p, j>>} ELSE unreleased
    /\ strays' = strays \ {<<p, j>>}
    /\ Advance(j, "minted")
    /\ UNCHANGED <<intent, canc, cancels, boot, stream, calling, orphans, bounds>>

\* Contention, once the re-shop is exhausted: the plain rollback.
RentContended(j, p) ==
    /\ AtPlace(j, "renting", p)
    /\ world[<<p, j>>] = "absent"
    /\ Fault
    /\ Resolve(j, Rolledback(j, job[j].attempts))
    /\ Done(j)
    /\ UNCHANGED <<unreleased, canc, cancels, handles, boot, stream, calling,
                   provider, crashes, retries>>

\* A rent that is not heard of may have created all the same.
RentUnheard(j, p) ==
    /\ task[j].pc = "renting" /\ world[<<p, j>>] = "absent"
    /\ \E w \in Rented("absent") : At(<<p, j>>, w)
    /\ strays' = strays \union {<<p, j>>}

\* An entitlement rejection counts no attempt, any other failure does.
RentFailed(j, p) ==
    /\ AtPlace(j, "renting", p)
    /\ Fault
    /\ \E attempts \in {job[j].attempts, Counted(j)} :
          Resolve(j, Unwound(j, attempts, FALSE))
    /\ Done(j)
    /\ RentUnheard(j, p) \/ UNCHANGED <<world, strays>>
    /\ UNCHANGED <<unreleased, canc, cancels, handles, boot, stream, calling,
                   orphans, crashes, retries>>

\* I10, at any stage.  A launch that is not heard of may have started.
PlaceUnreachable(j, p) ==
    /\ \E pc \in {"renting", "readying", "launching"} : AtPlace(j, pc, p)
    /\ Fault
    /\ Freeze(j)
    /\ Done(j)
    /\ \/ UNCHANGED <<world, strays>>
       \/ RentUnheard(j, p)
       \/ /\ task[j].pc = "launching"
          /\ At(<<p, j>>, Launched(world[<<p, j>>]))
          /\ UNCHANGED strays
    /\ UNCHANGED <<job, unreleased, canc, cancels, handles, boot, stream, calling,
                   orphans, crashes, retries>>

PutBoot(j) ==
    /\ task[j].pc = "minted"
    /\ Put(j, Staged(j, "boot"))
    /\ Spawn(j, "readying", Staged(j, "boot"))
    /\ UNCHANGED <<job, unreleased, canc, cancels, handles, boot, stream, calling,
                   provider, bounds>>

ReadyDone(j, p) ==
    /\ AtPlace(j, "readying", p)
    /\ world[<<p, j>>] # "absent"
    /\ Put(j, Staged(j, "launch"))
    /\ Spawn(j, "launching", Staged(j, "launch"))
    /\ UNCHANGED <<job, unreleased, canc, cancels, handles, boot, stream, calling,
                   provider, bounds>>

\* An instance dead on arrival is destroyed first; a launch that fails may
\* have started the worker.  A missing instance fails without any fault.
BootFailed(j, p) ==
    /\ \E pc \in {"readying", "launching"} :
          /\ AtPlace(j, pc, p)
          /\ \/ UNCHANGED world
             \/ At(<<p, j>>, IF pc = "readying" THEN "absent" ELSE Launched(world[<<p, j>>]))
    /\ IF world[<<p, j>>] = "absent" THEN NoFault ELSE Fault
    /\ Resolve(j, Unwound(j, Counted(j), FALSE))
    /\ Done(j)
    /\ UNCHANGED <<unreleased, canc, cancels, handles, boot, stream, calling,
                   orphans, strays, crashes, retries>>

\* The launch is idempotent; the launched handle is persisted with activate.
LaunchDone(j, p) ==
    /\ AtPlace(j, "launching", p)
    /\ world[<<p, j>>] # "absent"
    /\ At(<<p, j>>, Launched(world[<<p, j>>]))
    /\ IF job[j].st = "placing"
       THEN job' = [job EXCEPT ![j].st = "running", ![j].hnd = TRUE]
       ELSE UNCHANGED job
    /\ Close(j)
    /\ Done(j)
    /\ UNCHANGED <<unreleased, canc, cancels, handles, boot, stream, calling,
                   orphans, strays, bounds>>

-----------------------------------------------------------------------------
(* The cancel item.                                                        *)

\* It first preempts the live task of the job.  A started place item runs
\* its failure path; the thread it awaited is abandoned, not stopped.
BugPreempt(j) ==
    /\ canc[j] = "preempt"
    /\ canc' = [canc EXCEPT ![j] = "begin"]
    /\ UNCHANGED <<task, orphans>>
Preempt(j) ==
    /\ canc[j] = "preempt"
    /\ canc' = [canc EXCEPT ![j] = "begin"]
    /\ Abandon({j})
    /\ Done(j)

PreemptPlace(j, p) ==
    /\ Preempt(j)
    /\ \E pc \in {"renting", "readying", "launching"} : AtPlace(j, pc, p)
    /\ Resolve(j, Unwound(j, job[j].attempts, TRUE))
    /\ UNCHANGED <<unreleased, cancels, handles, boot, stream, calling, world,
                   strays, bounds>>

\* A place item not yet started, or a capture, or a release: just stopped.
PreemptOther(j) ==
    /\ Preempt(j)
    /\ task[j].pc \in {"idle", "assign", "capturing", "releasing"}
    /\ UNCHANGED <<store, cancels, handles, boot, stream, calling, world, strays,
                   bounds>>

\* Nothing to cancel any more.
CancelMoot(j) ==
    /\ canc[j] = "begin"
    /\ IsTerminal(j)
    /\ Close(j)
    /\ cancels' = cancels \ {j}
    /\ canc' = [canc EXCEPT ![j] = "idle"]
    /\ UNCHANGED <<job, unreleased, task, handles, boot, stream, calling, provider,
                   bounds>>

BugCancelStage(j) == IF job[j].st = "running" THEN "stop" ELSE "apply"
CancelStage(j) ==
    CASE job[j].st = "placing" -> "unwind"
      [] job[j].st = "running" -> "stop"
      [] OTHER -> "apply"

\* The cancel row replaces whatever item was open.
CancelBegin(j) ==
    /\ canc[j] = "begin"
    /\ ~IsTerminal(j)
    /\ Put(j, Item("cancel", job[j].prov))
    /\ canc' = [canc EXCEPT ![j] = CancelStage(j)]
    /\ UNCHANGED <<job, unreleased, task, cancels, handles, boot, stream, calling,
                   provider, bounds>>

CancelUnwind(j) ==
    /\ canc[j] = "unwind"
    /\ Resolve(j, Unwound(j, job[j].attempts, TRUE))
    /\ canc' = [canc EXCEPT ![j] = "apply"]
    /\ UNCHANGED <<unreleased, task, cancels, handles, boot, stream, calling,
                   provider, bounds>>

\* Signal, grace window, force: the worker exits on its own, or is killed.
CancelStop(j) ==
    /\ canc[j] = "stop"
    /\ world' = [k \in Keys |-> IF k = <<job[j].prov, j>> /\ world[k] = "busy"
                                THEN "dead" ELSE world[k]]
    /\ canc' = [canc EXCEPT ![j] = "apply"]
    /\ UNCHANGED <<store, task, cancels, handles, boot, stream, calling, orphans,
                   strays, bounds>>

CancelUnreachable(j) ==
    /\ canc[j] = "stop"
    /\ Fault
    /\ Freeze(j)
    /\ canc' = [canc EXCEPT ![j] = "idle"]
    /\ UNCHANGED <<job, unreleased, task, cancels, handles, boot, stream, calling,
                   provider, crashes, retries>>

\* `cancel-failed': the request is dropped with a diagnostic.
CancelRefused(j) ==
    /\ canc[j] = "stop"
    /\ Fault
    /\ Close(j)
    /\ cancels' = cancels \ {j}
    /\ canc' = [canc EXCEPT ![j] = "idle"]
    /\ UNCHANGED <<job, unreleased, task, handles, boot, stream, calling, provider,
                   crashes, retries>>

CancelApply(j) ==
    /\ canc[j] = "apply"
    /\ IF IsTerminal(j) THEN UNCHANGED job
       ELSE job' = [job EXCEPT ![j].st = "cancelled", ![j].lost = FALSE]
    /\ Close(j)
    /\ cancels' = cancels \ {j}
    /\ canc' = [canc EXCEPT ![j] = "idle"]
    /\ UNCHANGED <<unreleased, task, handles, boot, stream, calling, provider,
                   bounds>>

-----------------------------------------------------------------------------
(* The capture and release items.                                          *)

BugCapturable(j) == job[j].st = "running"
Capturable(j) == IsTerminal(j) \/ job[j].st = "running"

FinishCapture(j) ==
    /\ job' = [job EXCEPT ![j].captured = @ \/ Capturable(j)]
    /\ Close(j)

CaptureDone(j, p) ==
    /\ AtPlace(j, "capturing", p)
    /\ world[<<p, j>>] # "absent"
    /\ FinishCapture(j)
    /\ Done(j)
    /\ UNCHANGED <<unreleased, canc, cancels, handles, boot, stream, calling,
                   provider, bounds>>

\* Retried until the tries are spent, then sacrificed: recorded as captured.
CaptureFailed(j, p) ==
    /\ AtPlace(j, "capturing", p)
    /\ IF world[<<p, j>>] = "absent" THEN NoFault ELSE Fault
    /\ LET item == task[j].item
       IN  IF item.left > 1
           THEN /\ Put(j, [item EXCEPT !.left = @ - 1, !.frozen = TRUE])
                /\ UNCHANGED job
           ELSE FinishCapture(j)
    /\ Done(j)
    /\ UNCHANGED <<unreleased, canc, cancels, handles, boot, stream, calling,
                   provider, crashes, retries>>

\* Confirmed gone: the bookkeeping and the registry in one transaction.
ReleaseDone(j, p) ==
    /\ AtPlace(j, "releasing", p)
    /\ world' = [world EXCEPT ![<<p, j>>] = "absent"]
    /\ handles' = handles \ {<<p, j>>}
    /\ LET reaping == task[j].item.kind = "reap"
           applies == IF reaping THEN IsTerminal(j) ELSE job[j].st = "running"
       IN  /\ job' = [job EXCEPT ![j].reaped = @ \/ (reaping /\ applies)]
           /\ unreleased' = IF applies THEN unreleased \ {<<p, j>>} ELSE unreleased
    /\ Close(j)
    /\ Done(j)
    /\ strays' = strays \ {<<p, j>>}
    /\ UNCHANGED <<canc, cancels, boot, stream, calling, orphans, bounds>>

\* A failed release may have destroyed the instance all the same.
ReleaseFailed(j, p) ==
    /\ AtPlace(j, "releasing", p)
    /\ Fault
    /\ world' \in {world, [world EXCEPT ![<<p, j>>] = "absent"]}
    /\ Put(j, [task[j].item EXCEPT !.frozen = TRUE])
    /\ Done(j)
    /\ UNCHANGED <<job, unreleased, canc, cancels, handles, boot, stream, calling,
                   orphans, strays, crashes, retries>>

\* I10 again, for both.
SettleUnreachable(j) ==
    /\ task[j].pc \in {"capturing", "releasing"}
    /\ Fault
    /\ Freeze(j)
    /\ Done(j)
    /\ UNCHANGED <<job, unreleased, canc, cancels, handles, boot, stream, calling,
                   provider, crashes, retries>>

-----------------------------------------------------------------------------
(* The observer.                                                           *)

Observed(j) == job[j].st = "running" /\ ~Open(j) /\ ~Live(j) /\ ~job[j].lost

StreamStart(j) ==
    /\ Observed(j)
    /\ j \notin stream
    /\ stream' = stream \union {j}
    /\ UNCHANGED <<store, task, canc, cancels, handles, boot, calling, provider,
                   bounds>>

\* The exit sentinel on the stream, or the result a fallback poll finds.
Finish(j) ==
    /\ j \in stream
    /\ \E p \in Providers : job[j].prov = p /\ world[<<p, j>>] = "exited"
    /\ IF job[j].st = "running"
       THEN \E result \in {"succeeded", "failed"} :
               job' = [job EXCEPT ![j].st = result, ![j].lost = FALSE]
       ELSE UNCHANGED job
    /\ stream' = stream \ {j}
    /\ UNCHANGED <<intent, unreleased, task, canc, cancels, handles, boot, calling,
                   provider, bounds>>

\* A silent stream, then positive evidence that the worker is gone.  The
\* poll is sent with no item open, but no pass runs before its answer is
\* applied, while a handler may have put its cancel row.
MarkDead(j) ==
    /\ job[j].st = "running" /\ ~job[j].lost
    /\ intent[j].kind \in {"none", "cancel"} /\ ~Live(j)
    /\ j \in stream
    /\ \E p \in Providers : job[j].prov = p /\ world[<<p, j>>] \in {"absent", "dead"}
    /\ job' = [job EXCEPT ![j].lost = TRUE]
    /\ stream' = stream \ {j}
    /\ UNCHANGED <<intent, unreleased, task, canc, cancels, handles, boot, calling,
                   provider, bounds>>

Forget(j) ==
    /\ j \in stream
    /\ job[j].st # "running" \/ (job[j].lost /\ ~Open(j) /\ ~Live(j))
    /\ stream' = stream \ {j}
    /\ UNCHANGED <<store, task, canc, cancels, handles, boot, calling, provider,
                   bounds>>

-----------------------------------------------------------------------------
(* Providers, time, and the crash.                                         *)

WorkerExits(k) ==
    /\ world[k] = "busy"
    /\ world' = [world EXCEPT ![k] = "exited"]
    /\ UNCHANGED <<store, process, orphans, strays, bounds>>

\* The worker dies in place, or the provider takes the instance back.
WorkerDies(k) ==
    /\ Fault
    /\ \/ world[k] = "busy" /\ world' = [world EXCEPT ![k] = "dead"]
       \/ world[k] # "absent" /\ world' = [world EXCEPT ![k] = "absent"]
    /\ UNCHANGED <<store, process, orphans, strays, crashes, retries>>

\* An abandoned call is still carried out, whatever happened to its key
\* since: a rent creates, a launch starts its worker (on a host that outlives
\* its jobs even after their release), a release destroys.  Two resources
\* under one key are one here.
OrphanLands(call, k) ==
    /\ <<call, k>> \in orphans
    /\ orphans' = orphans \ {<<call, k>>}
    /\ \/ /\ call = "renting"
          /\ \E w \in Rented(world[k]) : At(k, w)
          /\ strays' = strays \union {k}
       \/ /\ call = "launching"
          /\ world[k] \in {"absent", "idle"}
          /\ At(k, "busy")
          /\ strays' = strays \union {k}
       \/ /\ call = "releasing"
          /\ At(k, "absent")
          /\ UNCHANGED strays
    /\ UNCHANGED <<store, process, bounds>>

OrphanFails(call, k) ==
    /\ <<call, k>> \in orphans
    /\ orphans' = orphans \ {<<call, k>>}
    /\ UNCHANGED <<store, process, world, strays, bounds>>

RetryDue(j) ==
    /\ intent[j].frozen
    /\ intent' = [intent EXCEPT ![j].frozen = FALSE]
    /\ UNCHANGED <<job, unreleased, process, provider, bounds>>

QuarantineEnds(j) ==
    /\ intent[j].poisoned
    /\ intent' = [intent EXCEPT ![j].poisoned = FALSE]
    /\ UNCHANGED <<job, unreleased, process, provider, bounds>>

Crash ==
    /\ crashes < MaxCrashes
    /\ crashes' = crashes + 1
    /\ Abandon(Jobs)
    /\ task' = [j \in Jobs |-> NoTask]
    /\ canc' = [j \in Jobs |-> "idle"]
    /\ cancels' = {}
    /\ handles' = {}
    /\ boot' = {j \in Jobs : Open(j)}
    /\ stream' = {}
    /\ calling' = [j \in Jobs |-> "idle"]
    /\ UNCHANGED <<store, world, strays, faults, retries>>

-----------------------------------------------------------------------------

Handler(j) == Submit(j) \/ CancelCheck(j) \/ CancelPut(j) \/ CancelSignal(j) \/ Retry(j)

Adoption(j) == BootAdopt(j) \/ Quarantine(j) \/ BootSkip(j) \/ PassAdopt(j)

Decision(j) ==
    \/ PassCancel(j) \/ PassCapture(j) \/ PassRelease(j) \/ PassRequeue(j)
    \/ PassFail(j) \/ PassHold(j) \/ PassUnhold(j)
    \/ \E p \in Providers : PassReserve(j, p)

PlaceStep(j) ==
    \/ PutBoot(j)
    \/ \E p \in Providers :
          \/ PlaceStart(j, p) \/ PlaceResume(j, p) \/ PlaceNoHandle(j, p)
          \/ RentDone(j, p) \/ RentContended(j, p) \/ RentFailed(j, p)
          \/ PlaceUnreachable(j, p) \/ ReadyDone(j, p) \/ BootFailed(j, p)
          \/ LaunchDone(j, p)

CancelStep(j) ==
    \/ PreemptOther(j) \/ CancelMoot(j) \/ CancelBegin(j) \/ CancelUnwind(j)
    \/ CancelStop(j) \/ CancelUnreachable(j) \/ CancelRefused(j) \/ CancelApply(j)
    \/ \E p \in Providers : PreemptPlace(j, p)

SettleStep(j) ==
    \/ SettleUnreachable(j)
    \/ \E p \in Providers :
          \/ CaptureDone(j, p) \/ CaptureFailed(j, p)
          \/ ReleaseDone(j, p) \/ ReleaseFailed(j, p)

Observation(j) == StreamStart(j) \/ Finish(j) \/ MarkDead(j) \/ Forget(j)

Timer(j) == RetryDue(j) \/ QuarantineEnds(j)

Provider(k) ==
    \/ WorkerExits(k) \/ WorkerDies(k)
    \/ \E call \in Calls : OrphanLands(call, k) \/ OrphanFails(call, k)

Next ==
    \/ \E j \in Jobs :
          \/ Handler(j) \/ Adoption(j) \/ Decision(j) \/ PlaceStep(j)
          \/ CancelStep(j) \/ SettleStep(j) \/ Observation(j) \/ Timer(j)
    \/ \E k \in Keys : Provider(k)
    \/ Crash

Spec == Init /\ [][Next]_vars

\* The resident loop runs a round at every wake-up and at every poll tick,
\* awaited calls end, timers elapse, and a handler thread runs to its end.
\* That a call ends is assumed of the provider: HTTP calls carry a timeout,
\* many remote commands carry none and end when ssh notices a dead peer.  Nobody owes a worker's exit, an
\* abandoned call's landing, a hold, a reserve or a user's request.
Fairness ==
    \A j \in Jobs :
        /\ WF_vars(CancelPut(j)) /\ WF_vars(CancelSignal(j))
        /\ WF_vars(BootAdopt(j) \/ Quarantine(j) \/ BootSkip(j))
        /\ WF_vars(PassAdopt(j)) /\ WF_vars(PassCancel(j)) /\ WF_vars(PassCapture(j))
        /\ WF_vars(PassRelease(j)) /\ WF_vars(PassRequeue(j))
        /\ WF_vars(PlaceStep(j)) /\ WF_vars(CancelStep(j)) /\ WF_vars(SettleStep(j))
        /\ WF_vars(RetryDue(j)) /\ WF_vars(QuarantineEnds(j))

FairSpec == Spec /\ Fairness

-----------------------------------------------------------------------------
(* Correctness.                                                            *)

\* Every variable has its type: in particular the placement attempts of a
\* job never exceed max_attempts, although each failure path adds one
\* without looking.
TypeOK ==
    /\ job \in [Jobs -> JobRecord]
    /\ intent \in [Jobs -> Row]
    /\ unreleased \subseteq Keys
    /\ task \in [Jobs -> Task]
    /\ canc \in [Jobs -> CancelPC]
    /\ cancels \subseteq Jobs
    /\ handles \subseteq Keys
    /\ boot \subseteq Jobs
    /\ stream \subseteq Jobs
    /\ calling \in [Jobs -> {"idle", "put", "signal"}]
    /\ world \in [Keys -> World]
    /\ orphans \subseteq Calls \X Keys
    /\ strays \subseteq Keys
    /\ faults \in 0..MaxFaults
    /\ crashes \in 0..MaxCrashes
    /\ retries \in 0..MaxRetries

\* A placing job always has the durable item that resolves it (I3), so a
\* restarted engine can finish or unwind the placement wherever the crash fell.
PlacingOwned == \A j \in Jobs : job[j].st = "placing" => intent[j].kind \in {"place", "cancel"}

\* A live place task works for the current placement of its job and no
\* other, whatever cancels, retries and crashes went before.
PlaceTaskOwns ==
    \A j \in Jobs : task[j].item.kind = "place" =>
        job[j].st = "placing" /\ job[j].prov = task[j].item.prov

\* I5: a running placement stays in the registry until a dead worker's
\* output was captured and its resource confirmed gone.
RunningTracked ==
    \A j \in Jobs : job[j].st = "running" =>
        \/ <<job[j].prov, j>> \in unreleased
        \/ job[j].lost /\ job[j].captured

\* I5, outside: a resource that exists is in the registry.  Excepted are
\* those at whose key a call nobody heard created or started something (its
\* task preempted, its answer lost, its process dead), until a later rent
\* finds them by their key or a release destroys them.
NoUntracked ==
    \A p \in Providers, j \in Jobs :
        world[<<p, j>>] # "absent" => <<p, j>> \in unreleased \union strays

\* SCHED-8: a worker runs only for the placement its job records, so a job
\* is never executing in two places, nor while it waits in the queue.  The
\* code does not give more than this: a preempted rent or launch runs on in
\* its thread and may start the worker when the placement is over (README,
\* divergence 1), as may a rent whose answer was lost, so their keys are
\* excepted until they are found or released.
WorkerOwned ==
    \A p \in Providers, j \in Jobs : world[<<p, j>>] = "busy" =>
        \/ <<p, j>> \in strays
        \/ /\ job[j].prov = p
           /\ job[j].st \in Occupying \union Terminal
           /\ ~job[j].reaped

\* I2: a provider never holds more placements than its slot has room for.
CapacityOK == \A p \in Providers : Cardinality(Active(p)) <= Slots[p]

\* I6: nothing leaves the registry before its artifacts were captured, or
\* the capture was explicitly sacrificed.
CaptureBeforeRelease ==
    [][\A p \in Providers, j \in Jobs :
          <<p, j>> \in unreleased /\ <<p, j>> \notin unreleased' => job[j].captured]_vars

\* The evidence is of the current attempt: a job that waits or is placed
\* again starts without it, whatever captures of the previous attempt were
\* on their way when it was requeued or retried.
CaptureFresh ==
    \A j \in Jobs : job[j].captured => job[j].st = "running" \/ IsTerminal(j)

\* I4: a job that comes back to the queue after it had run leaves no
\* resource behind.
RequeueClean ==
    [][\A p \in Providers, j \in Jobs :
          /\ job[j].st \in {"running"} \union Terminal
          /\ job'[j].st \in Pending
          => /\ <<p, j>> \notin unreleased'
             /\ world[<<p, j>>] = "absent" \/ <<p, j>> \in strays]_vars

\* ROBUST-2: nothing works on a quarantined item, however it is reached:
\* adoption, a pass, a handler's rewrite of the row.
QuarantineHonoured == \A j \in Jobs : intent[j].poisoned => task[j].pc = "idle"

\* What a job, its durable row and its task may be together, whatever handlers,
\* passes, captures of an earlier attempt and crashes did in between.
TasksInOrder == PlacingOwned /\ PlaceTaskOwns /\ CaptureFresh /\ QuarantineHonoured

\* The order of a teardown: captured, then released, then (if at all) queued again.
ReleaseOrder == CaptureBeforeRelease /\ RequeueClean

\* ROBUST-2: an item that carries a boot-adoption stamp carries it through
\* every stage, failure and freeze it goes through, so that a second crash
\* within the window is seen (a cancel item's rewrite drops its stamps).
StampsKept ==
    [][\A j \in Jobs :
          /\ intent[j].kind \in {"place", "capture", "reap", "release-lost"}
          /\ intent'[j].kind = intent[j].kind
          /\ j \notin boot
          => intent'[j].spawns >= intent[j].spawns]_vars

\* A cancel item that is open is resolved, whatever it meets on its way.
CancelEnds == \A j \in Jobs : intent[j].kind = "cancel" ~> intent[j].kind # "cancel"

\* A placement is resolved: it runs, or goes back to the queue.
PlacingEnds == \A j \in Jobs : job[j].st = "placing" ~> job[j].st # "placing"

\* A dead placement is torn down.
DeadEnds == \A j \in Jobs : IsDead(j) ~> ~IsDead(j)

\* A terminal placement is captured and released.
TerminalReaped ==
    \A j \in Jobs : IsTerminal(j) /\ job[j].prov # NoProvider
                    ~> job[j].reaped \/ job[j].st = "queued"

\* Every placement comes to an end of its own kind: none is forgotten half way.
PlacementsEnd == PlacingEnds /\ DeadEnds /\ TerminalReaped
=============================================================================
