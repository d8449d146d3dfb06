------------------------------ MODULE Backends ------------------------------
(***************************************************************************)
(* One job on one provider, behind the engine's provider seam: the adapter *)
(* (providers/asyncadapter.py) over each family of backend (backends/*.py).*)
(* The engine rents, waits, launches, observes and releases through calls  *)
(* that may be lost before or after they took effect; the platform starts  *)
(* and ends what was submitted in its own time; the engine's process may   *)
(* die and forget what it held in memory.                                  *)
(*                                                                         *)
(* ssh launches on a host that is just there, slurm and kaggle submit and  *)
(* the platform queues, colab and market rent a machine that bills.        *)
(***************************************************************************)
EXTENDS Naturals, Sequences, FiniteSets

CONSTANTS
    Kinds,         \* the families to consider
    None,
    MaxAttempts,   \* bound: placements of the job
    MaxFaults      \* bound: lost calls, blind queries and crashes

Handles == [run : Nat, box : Nat, full : BOOLEAN]

ASSUME BackendsAssumption ==
    /\ Kinds \subseteq {"ssh", "slurm", "kaggle", "colab", "market"}
    /\ None \notin Handles
    /\ MaxAttempts \in Nat \ {0} /\ MaxFaults \in Nat

VARIABLES
    kind,            \* the family
    canStop, labels, \* has kaggle's client a cancel call; does the market
                     \* take a label for its instances (thunder does not)
    stage, attempt,  \* the engine's view
    handle, saved,   \* the adapter's handle; the one persisted at activate
    cached,          \* a notebook backend's own memory of a terminal verdict
    world,           \* the provider's side
    told,            \* the verdict that ended the placement
    released,        \* ghost: the last placement was confirmed released
    blurred,         \* ghost: a call took effect unheard, was not made, or was
                     \* decided by an earlier attempt's verdict; or the handle
                     \* of an instance without a label was forgotten
    faults

vars == <<kind, canStop, labels, stage, attempt, handle, saved, cached, world, told, released,
          blurred, faults>>

----------------------------------------------------------------------------
(***************************************************************************)
(* The provider's side: what was started, in order, the machines, and the  *)
(* job's directory: on the host, or inside the machine rented last.        *)
(***************************************************************************)
NoDir == [there |-> FALSE, pid |-> 0, result |-> 0]
Nothing == [runs |-> << >>, boxes |-> << >>, dir |-> NoDir]

Unsettled == {"queued", "on"}
Alive(w, i) == i \in DOMAIN w.runs /\ w.runs[i].st \in Unsettled
Up(w, b) == b \in DOMAIN w.boxes /\ w.boxes[b] # "gone"
Last(w) == Len(w.runs)

Handle(run, box, full) == [run |-> run, box |-> box, full |-> full]

\* A run begins, in the machine b or (0) outside any.
Started(w, b) ==
    [w EXCEPT !.runs = Append(@, [of |-> attempt, box |-> b, st |-> "queued"]),
              !.dir = IF kind = "kaggle" THEN @
                      ELSE [@ EXCEPT !.there = TRUE, !.pid = Last(w) + 1]]

Boxed(w, st) == [w EXCEPT !.boxes = Append(@, st), !.dir = NoDir]

\* The directory is where the payload it names was started.
Holds(w, b) == w.dir.pid # 0 /\ w.runs[w.dir.pid].box = b

Kill(w, i) == IF Alive(w, i) THEN [w EXCEPT !.runs[i].st = "dead"] ELSE w

\* A machine goes with all there is in it.
Destroyed(w, b) ==
    IF ~Up(w, b) THEN w
    ELSE [w EXCEPT !.boxes[b] = "gone", !.dir = IF Holds(w, b) THEN NoDir ELSE @,
                   !.runs = [i \in DOMAIN @ |-> IF @[i].box = b /\ @[i].st \in Unsettled
                                                THEN [@[i] EXCEPT !.st = "dead"] ELSE @[i]]]

\* The machine with the job's name.
Named(w) == IF \E b \in DOMAIN w.boxes : Up(w, b)
            THEN CHOOSE b \in DOMAIN w.boxes : Up(w, b) ELSE 0

TypeOK ==
    /\ kind \in Kinds /\ canStop \in BOOLEAN /\ labels \in BOOLEAN
    /\ stage \in {"idle", "rented", "ready", "launched", "live", "ending", "over"}
    /\ attempt \in 1..MaxAttempts
    /\ \A h \in {handle, saved} :
           h = None \/ /\ h.run \in 0..Last(world) /\ h.box \in 0..Len(world.boxes)
                       /\ h.full \in BOOLEAN
    /\ cached \in 0..Last(world)
    /\ \A i \in DOMAIN world.runs :
           /\ world.runs[i].of \in 1..attempt /\ world.runs[i].box \in 0..Len(world.boxes)
           /\ world.runs[i].st \in Unsettled \cup {"ok", "dead"}
    /\ \A b \in DOMAIN world.boxes : world.boxes[b] \in {"warming", "up", "gone"}
    /\ world.dir.pid \in 0..Last(world) /\ world.dir.result \in 0..Last(world)
    /\ told.what \in {"none", "ended", "lost", "cancelled", "unwound"} /\ told.of \in 0..Last(world)
    /\ released \in BOOLEAN /\ blurred \in BOOLEAN /\ faults \in 0..MaxFaults

Untold == [what |-> "none", of |-> 0]

Init ==
    /\ kind \in Kinds
    /\ canStop \in IF kind = "kaggle" THEN BOOLEAN ELSE {TRUE}
    /\ labels \in IF kind = "market" THEN BOOLEAN ELSE {TRUE}
    /\ stage = "idle" /\ attempt = 1
    /\ handle = None /\ saved = None /\ cached = 0 /\ world = Nothing /\ told = Untold
    /\ released = FALSE /\ blurred = FALSE /\ faults = 0

Cost(n) == faults + n <= MaxFaults /\ faults' = faults + n
Setting == UNCHANGED <<kind, canStop, labels>>

\* A failed placement with nothing recorded as rented: another attempt, or
\* the last.
Counted == IF attempt < MaxAttempts THEN stage' = "idle" /\ attempt' = attempt + 1
           ELSE stage' = "over" /\ UNCHANGED attempt

----------------------------------------------------------------------------
(***************************************************************************)
(* ensure_resource: known, found by its deterministic key, or rented.      *)
(***************************************************************************)
\* Mutant: only what is still queued is adopted.
BugAdoptable(st) == st = "queued"

\* The states in which a platform still lists a submission.
Adoptable(st) == st \in (IF kind = "kaggle" THEN {"queued", "on", "ok"} ELSE {"queued", "on"})

\* find_resource. A host: the pid recorded in the job's directory.
HostFound == IF world.dir.pid # 0 THEN Handle(world.dir.pid, 0, TRUE) ELSE None

\* slurm: a submission with the job's name, queued or running.
QueueFound ==
    LET mine == {i \in DOMAIN world.runs : Adoptable(world.runs[i].st)}
    IN  IF mine # {} THEN Handle(CHOOSE i \in mine : TRUE, 0, TRUE) ELSE None

\* kaggle: the kernel with the job's slug, finished ones too.
KernelFound == IF Last(world) # 0 /\ Adoptable(world.runs[Last(world)].st)
               THEN Handle(Last(world), 0, TRUE) ELSE None

\* colab: the session with the job's name.
SessionFound == IF Named(world) # 0 THEN Handle(0, Named(world), TRUE) ELSE None

\* A market: the instance with the job's label, if the market has labels.
InstanceFound == IF labels /\ Named(world) # 0 THEN Handle(0, Named(world), FALSE) ELSE None

Found ==
    CASE kind = "ssh" -> HostFound
      [] kind = "slurm" -> QueueFound
      [] kind = "kaggle" -> KernelFound
      [] kind = "colab" -> SessionFound
      [] kind = "market" -> InstanceFound

\* The families that take a failed query for an empty answer.
Gullible == kind \in {"slurm", "kaggle", "colab"}

Rented(h, w) == handle' = h /\ world' = w /\ stage' = "rented" /\ UNCHANGED attempt

\* rent_resource. slurm and kaggle: the submission carries the payload.
Sbatch == Rented(Handle(Last(world) + 1, 0, TRUE), Started(world, 0))
Push == Rented(Handle(Last(world) + 1, 0, TRUE), Started(world, 0))

\* colab: a session, and the payload launched in it.
NewSession ==
    LET b == Len(world.boxes) + 1
    IN  Rented(Handle(Last(world) + 1, b, TRUE), Started(Boxed(world, "up"), b))

\* A market: a machine that bills and is not ready.
RentInstance == Rented(Handle(0, Len(world.boxes) + 1, FALSE), Boxed(world, "warming"))

RentOk ==
    \/ kind = "ssh" /\ Rented(Handle(0, 0, FALSE), world)
    \/ kind = "slurm" /\ Sbatch
    \/ kind = "kaggle" /\ Push
    \/ kind = "colab" /\ NewSession
    \/ kind = "market" /\ RentInstance

\* A submission of colab's that fails stops its session, unless that fails
\* too or `new' itself was not heard of.
SessionLeft == {Boxed(world, "up"), Started(Boxed(world, "up"), Len(world.boxes) + 1)}

\* What a call that failed may have left.
Leftovers ==
    CASE kind \in {"slurm", "kaggle"} -> {Started(world, 0)}
      [] kind = "colab" -> SessionLeft
      [] kind = "market" -> {Boxed(world, "warming")}
      [] OTHER -> {}

\* The call fails: slurm's as unreachable (nothing is counted), the others'
\* as a failed attempt; or the process dies in it (nothing is counted).
RentFails(w) ==
    /\ world' = w /\ UNCHANGED handle
    /\ IF kind = "slurm" THEN UNCHANGED <<stage, attempt>>
       ELSE Counted \/ UNCHANGED <<stage, attempt>>

Ensure ==
    /\ stage = "idle"
    /\ told' = Untold /\ released' = FALSE /\ UNCHANGED <<saved, cached>>
    /\ \E blind \in IF Gullible THEN {0, 1} ELSE {0} :
           IF handle # None \/ (Found # None /\ blind = 0)
           THEN /\ Rented(IF handle # None THEN handle ELSE Found, world)
                /\ Cost(blind) /\ UNCHANGED blurred
           ELSE \* A submission that slurm does not hear of is found by its name.
                \/ /\ RentOk /\ blurred' = (blurred \/ blind = 1)
                   /\ Cost(blind) \/ (kind = "slurm" /\ Cost(blind + 1))
                \/ /\ kind # "ssh" /\ Cost(blind + 1)
                   /\ RentFails(world) /\ UNCHANGED blurred
                \/ /\ Cost(blind + 1)
                   /\ \E w \in Leftovers : RentFails(w)
                   /\ blurred' = TRUE
    /\ Setting

----------------------------------------------------------------------------
(***************************************************************************)
(* wait_ready, launch, activate.                                           *)
(***************************************************************************)
\* A failure with the resource recorded: the placement is activated as dead
\* and torn down.
Unwind == stage' = "ending" /\ told' = [what |-> "unwound", of |-> 0]

\* The machine runs and accepts a connection.
Provisioned(b) == world.boxes[b] = "up"

\* It is gone or makes no progress: destroyed first, which may fail.
GivesUp(b) ==
    /\ ~Provisioned(b)
    /\ \/ world' = Destroyed(world, b) /\ UNCHANGED faults
       \/ UNCHANGED world /\ Cost(1)

Ready ==
    /\ stage = "rented"
    /\ \/ /\ handle # None /\ (kind = "market" => Provisioned(handle.box))
          /\ stage' = "ready" /\ UNCHANGED <<world, told, faults>>
       \* The process forgot the handle while the placement was not recorded.
       \/ handle = None /\ Unwind /\ UNCHANGED <<world, faults>>
       \/ kind = "market" /\ handle # None /\ GivesUp(handle.box) /\ Unwind
    /\ UNCHANGED <<attempt, handle, saved, cached, released, blurred>> /\ Setting

Launched(h, w) ==
    /\ stage' = "launched" /\ handle' = h /\ world' = w
    /\ UNCHANGED <<told, blurred, faults>>

\* A payload is started where none is recorded as started.
Place(b) ==
    \/ Launched(Handle(Last(world) + 1, b, TRUE), Started(world, b))
    \* The reply is lost: ssh freezes and finds the pid later, the market's
    \* adapter unwinds.
    \/ /\ Cost(1) /\ world' = Started(world, b) /\ blurred' = TRUE /\ UNCHANGED handle
       /\ IF kind = "ssh" THEN UNCHANGED <<stage, told>> ELSE Unwind
    \* Staging fails before anything is started.
    \/ /\ Cost(1) /\ Unwind /\ UNCHANGED <<handle, world, blurred>>

Launch ==
    /\ stage = "ready"
    /\ CASE handle = None -> Unwind /\ UNCHANGED <<handle, world, blurred, faults>>
         [] handle # None /\ kind \notin {"ssh", "market"} -> Launched(handle, world)
         [] handle # None /\ kind \in {"ssh", "market"} /\ world.dir.pid # 0 ->
                Launched([handle EXCEPT !.run = world.dir.pid, !.full = TRUE], world)
         [] handle # None /\ kind = "market" /\ world.dir.pid = 0 /\ ~Up(world, handle.box) ->
                Unwind /\ UNCHANGED <<handle, world, blurred, faults>>
         [] OTHER -> Place(handle.box)
    /\ UNCHANGED <<attempt, saved, cached, released>> /\ Setting

Activate ==
    /\ stage = "launched"
    /\ stage' = "live" /\ saved' = handle
    /\ UNCHANGED <<attempt, handle, cached, world, told, released, blurred, faults>> /\ Setting

----------------------------------------------------------------------------
(***************************************************************************)
(* observe_status, observe_batch.                                          *)
(***************************************************************************)
Lost == [what |-> "lost", of |-> 0]
Ended(i) == [what |-> "ended", of |-> i]

\* Memory, then the persisted placement.
Known == IF handle # None THEN handle ELSE saved

\* What the job's directory tells: a result outranks the rest, a started
\* payload that is gone is lost, no verdict while it runs.
DirVerdicts ==
    IF ~world.dir.there THEN {Lost}
    ELSE IF world.dir.result # 0 THEN {Ended(world.dir.result)}
    ELSE IF world.dir.pid # 0 /\ ~Alive(world, world.dir.pid) THEN {Lost} ELSE {}

\* A submission that ended: the job's result, else what accounting says of
\* it, or, of the batched poll, nothing.
Accounted(i) == IF world.dir.result # 0 THEN Ended(world.dir.result) ELSE Ended(i)
Unlisted == IF world.dir.result # 0 THEN Ended(world.dir.result) ELSE Lost

QueueVerdicts(i) ==
    CASE world.runs[i].st = "queued" -> {}
      [] world.runs[i].st = "on" ->
             IF world.dir.result # 0 THEN {Ended(world.dir.result)} ELSE {}
      [] OTHER -> {Accounted(i), Unlisted}

\* A kernel: as the platform says, once; then from memory.
KernelVerdicts ==
    IF cached # 0 THEN {Ended(cached)}
    ELSE IF Alive(world, Last(world)) THEN {} ELSE {Ended(Last(world))}

\* A session: its directory, read by a cell; then from memory.
SessionVerdicts(b) ==
    IF cached # 0 THEN {Ended(cached)} ELSE IF Up(world, b) THEN DirVerdicts ELSE {Lost}

\* An instance: not listed is lost, not launched is no verdict.
InstanceVerdicts(h) ==
    IF ~Up(world, h.box) THEN {Lost} ELSE IF h.full THEN DirVerdicts ELSE {}

\* The verdicts a query that was answered may give of the handle h.
Verdicts(h) ==
    CASE kind = "ssh" -> IF h.full THEN DirVerdicts ELSE {}
      [] kind = "slurm" -> QueueVerdicts(h.run)
      [] kind = "kaggle" -> KernelVerdicts
      [] kind = "colab" -> SessionVerdicts(h.box)
      [] kind = "market" -> InstanceVerdicts(h)

\* The verdicts of a query that failed: ssh, kaggle and the market freeze;
\* a failed squeue is an empty queue, a failed cell a lost session.
BlindVerdicts ==
    CASE kind = "slurm" -> {Unlisted}
      [] kind = "colab" -> {Lost}
      [] OTHER -> {}

\* A notebook backend still answers with an earlier attempt's verdict.
Stale == cached # 0 /\ world.runs[cached].of # attempt

Cache(v) == IF kind \in {"kaggle", "colab"} /\ v.what = "ended" THEN v.of ELSE cached

Observe ==
    /\ stage = "live" /\ stage' = "ending"
    /\ handle' = Known
    /\ \/ /\ told' \in Verdicts(Known) /\ cached' = Cache(told')
          /\ blurred' = (blurred \/ Stale) /\ UNCHANGED faults
       \/ /\ told' \in BlindVerdicts
          /\ Cost(1) /\ blurred' = (blurred \/ Gullible) /\ UNCHANGED cached
    /\ UNCHANGED <<attempt, saved, world, released>> /\ Setting

----------------------------------------------------------------------------
(***************************************************************************)
(* cancel_placement, release.                                              *)
(***************************************************************************)
\* Mutant: only a submission that runs is cancelled.
BugStopped(h) ==
    IF kind = "slurm" /\ ~\E i \in DOMAIN world.runs : world.runs[i].st = "on"
    THEN world ELSE IF kind \in {"colab", "market"} THEN Destroyed(world, h.box) ELSE Kill(world, h.run)

\* Backend.cancel. A payload on a host is reached once it has begun.
HostStopped(h) ==
    IF h.full /\ world.dir.pid # 0 /\ world.runs[world.dir.pid].st = "on"
    THEN Kill(world, world.dir.pid) ELSE world

QueueStopped(h) == Kill(world, h.run)

\* The kaggle client may have no call to cancel a kernel.
KernelStopped == IF canStop THEN Kill(world, Last(world)) ELSE world

\* A notebook or rented machine goes, with the payload.
SessionStopped(h) == Destroyed(world, h.box)
InstanceStopped(h) == Destroyed(world, h.box)

Stopped(h) ==
    CASE kind = "ssh" -> HostStopped(h)
      [] kind = "slurm" -> QueueStopped(h)
      [] kind = "kaggle" -> KernelStopped
      [] kind = "colab" -> SessionStopped(h)
      [] kind = "market" -> InstanceStopped(h)

\* The stop signal is sent and reaches nothing.
Missed(h) == kind = "ssh" /\ h.full /\ Alive(Stopped(h), world.dir.pid)

\* Notebook backends remember a cancel as the job's verdict.
CacheStop == IF kind \in {"kaggle", "colab"} THEN Last(world) ELSE cached

\* The user cancels; an unlaunched placement is torn down.
Cancel ==
    /\ \/ /\ stage = "idle" /\ stage' = "over"
          /\ UNCHANGED <<handle, cached, world, blurred, faults>>
       \/ /\ stage \in {"rented", "ready", "launched"} /\ stage' = "ending"
          /\ UNCHANGED <<handle, cached, world, blurred, faults>>
       \/ /\ stage = "live" /\ stage' = "ending" /\ handle' = Known
          /\ \/ /\ world' = Stopped(Known) /\ cached' = CacheStop
                /\ blurred' = (blurred \/ Missed(Known)) /\ UNCHANGED faults
             \/ /\ Cost(1) /\ UNCHANGED <<world, cached, blurred>>
    /\ told' = [what |-> "cancelled", of |-> 0]
    /\ UNCHANGED <<attempt, saved, released>> /\ Setting

\* Mutant: the job's directory stays.
BugSwept(h, w) == IF kind \in {"colab", "market"} THEN Destroyed(w, h.box) ELSE w

\* gc: the job's directory; nothing; or the machine.
DirSwept(h, w) == IF h.full THEN [w EXCEPT !.dir = NoDir] ELSE w
MachineSwept(h, w) == Destroyed(w, h.box)

Swept(h, w) ==
    CASE kind \in {"ssh", "slurm"} -> DirSwept(h, w)
      [] kind = "kaggle" -> w
      [] kind \in {"colab", "market"} -> MachineSwept(h, w)

\* Release returns: a lost placement is retried while attempts are left.
Confirmed(w) ==
    /\ world' = w /\ handle' = None /\ released' = TRUE
    /\ IF told.what \in {"lost", "unwound"} /\ attempt < MaxAttempts
       THEN stage' = "idle" /\ attempt' = attempt + 1 /\ saved' = None
       ELSE stage' = "over" /\ UNCHANGED <<attempt, saved>>

Faulty == Cost(1) /\ blurred' = TRUE

\* Mutant: what still runs is waited for.
BugReleaseOf(h) ==
    /\ (~h.full \/ Verdicts(h) # {}) /\ UNCHANGED cached
    /\ Confirmed(Swept(h, world)) /\ UNCHANGED <<blurred, faults>>

ReleaseOf(h) ==
    \* Settled already: no signal is sent.
    \/ /\ Verdicts(h) # {} /\ \E v \in Verdicts(h) : cached' = Cache(v)
       /\ Confirmed(Swept(h, world))
       /\ blurred' = (blurred \/ Stale) /\ UNCHANGED faults
    \* Not settled: stopped, then swept.
    \/ /\ Verdicts(h) = {} /\ cached' = CacheStop
       /\ Confirmed(Swept(h, Stopped(h)))
       /\ blurred' = (blurred \/ Missed(h)) /\ UNCHANGED faults
    \* The status query fails and reads as lost, or the signal does not get
    \* through: swept without a stop.
    \/ /\ UNCHANGED cached /\ Confirmed(Swept(h, world)) /\ Faulty
    \* Colab: a stop that fails is taken for a session already gone.
    \/ kind = "colab" /\ UNCHANGED cached /\ Confirmed(world) /\ Faulty

Release ==
    /\ stage = "ending" /\ UNCHANGED told
    /\ \/ Known # None /\ ReleaseOf(Known)
       \/ Known = None /\ Found # None /\ ReleaseOf(Found)
       \* No handle and nothing with the job's key, or none seen; what a
       \* finished submission left is not found.
       \/ /\ Known = None /\ Found = None /\ Confirmed(world) /\ UNCHANGED cached
          /\ blurred' = (blurred \/ world.dir.there) /\ UNCHANGED faults
       \/ Known = None /\ Gullible /\ Confirmed(world) /\ UNCHANGED cached /\ Faulty
    /\ Setting

\* The call fails and the work item tries again: notebook backends never say.
ReleaseFails ==
    /\ stage = "ending" /\ kind \in {"ssh", "slurm", "market"} /\ Cost(1)
    /\ UNCHANGED <<stage, attempt, handle, saved, cached, world, told, released, blurred>>
    /\ Setting

----------------------------------------------------------------------------
(***************************************************************************)
(* The process dies: its memory goes, the stage recorded stays.  An        *)
(* instance without a label is not found again by its key.                 *)
(***************************************************************************)
Crash ==
    /\ stage # "over" /\ (handle # None \/ cached # 0) /\ Cost(1)
    /\ handle' = None /\ cached' = 0
    /\ stage' = IF stage = "launched" THEN "ready" ELSE stage
    /\ blurred' = (blurred \/ (~labels /\ handle # None /\ saved = None))
    /\ UNCHANGED <<attempt, saved, world, told, released>> /\ Setting

\* The platform.
Move(w) == world' = w /\ UNCHANGED <<stage, attempt, handle, saved, cached, told, released,
                                     blurred, faults>> /\ Setting

PlatformStart(i) == world.runs[i].st = "queued" /\ Move([world EXCEPT !.runs[i].st = "on"])

PlatformFinish(i) ==
    /\ world.runs[i].st = "on"
    /\ Move([world EXCEPT !.runs[i].st = "ok",
                          !.dir = IF @.there /\ Holds(world, world.runs[i].box)
                                  THEN [@ EXCEPT !.result = i] ELSE @])

PlatformDie(i) == Move(Kill(world, i)) /\ Alive(world, i)

BoxUp(b) == world.boxes[b] = "warming" /\ Move([world EXCEPT !.boxes[b] = "up"])

BoxGone(b) == Up(world, b) /\ Move(Destroyed(world, b))

Platform ==
    \/ \E i \in DOMAIN world.runs : PlatformStart(i) \/ PlatformFinish(i) \/ PlatformDie(i)
    \/ \E b \in DOMAIN world.boxes : BoxUp(b) \/ BoxGone(b)

Engine == Ensure \/ Ready \/ Launch \/ Activate \/ Observe \/ Cancel \/ Release \/ ReleaseFails

Done == stage = "over" /\ UNCHANGED vars

Next == Engine \/ Crash \/ Platform \/ Done

Spec == Init /\ [][Next]_vars /\ WF_vars(Release)

----------------------------------------------------------------------------
(***************************************************************************)
(* Properties.                                                             *)
(***************************************************************************)
\* What release promises: once it returns, nothing of the placement bills or
\* runs. On a market whose instances carry the job's label this holds whatever
\* was lost; elsewhere, a market without labels too, as long as every call was
\* heard and no unlabelled instance forgotten; on kaggle only with a cancel
\* call.
ReleasedGone ==
    (released /\ ((kind = "market" /\ labels) \/ (~blurred /\ canStop))) =>
        /\ \A i \in DOMAIN world.runs : ~Alive(world, i)
        /\ \A b \in DOMAIN world.boxes : ~Up(world, b)

\* The deterministic key: however often a placement is retried, adopted or
\* replayed, the job is not running twice, as long as no call took effect
\* unheard.
OncePerAttempt ==
    (~blurred /\ canStop) =>
        Cardinality({i \in DOMAIN world.runs : Alive(world, i)}) <= 1

\* Lost is positive evidence: no placement that still runs is given up, on a
\* family that freezes when it cannot ask.
LostIsEvidence ==
    (told.what = "lost" /\ ~blurred) =>
        \A i \in DOMAIN world.runs : world.runs[i].of = attempt => ~Alive(world, i)

\* A verdict is of the attempt it is given for: never an earlier attempt's
\* result, where the placement's directory was swept in between.
VerdictIsOwn ==
    (told.what = "ended" /\ ~blurred /\ kind \in {"ssh", "slurm", "market"}) =>
        world.runs[told.of].of = attempt

\* A placement that is being torn down is let go of.
ReleaseCompletes == stage = "ending" ~> stage \in {"idle", "over"}

\* What the engine is told of a placement holds of that placement.
VerdictsHold == TypeOK /\ LostIsEvidence /\ VerdictIsOwn
=============================================================================
