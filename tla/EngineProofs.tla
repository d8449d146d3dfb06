---------------------------- MODULE EngineProofs ----------------------------
(***************************************************************************)
(* What the engine promises for every set of jobs and providers, every    *)
(* slot and every limit, in five parts: the types of its variables; who   *)
(* works on a job and for what (Discipline); what boot adoption stamped   *)
(* (Stamps); what exists at the providers and who answers for it          *)
(* (Ownership); and that all of it is what the kernel allows (Refinement).*)
(*                                                                         *)
(* Each invariant is one formula per job (or per key), and each step of    *)
(* the system is a step of one job, a step of a provider, or a crash: the  *)
(* proof of a step looks at the job it is of (Mine) and leaves the others  *)
(* (Local, Frame).                                                         *)
(***************************************************************************)
EXTENDS EngineRefinement, FiniteSetTheorems, FunctionTheorems, TLAPS

-----------------------------------------------------------------------------
(***************************************************************************)
(* Typing.  The type invariant is not inductive as it stands: an attempt   *)
(* is added where a placement fails, and only the reserve, a step long     *)
(* before, looked at the cap.                                              *)
(***************************************************************************)

\* A placement that is resolving has an attempt left to count: the cap is looked
\* at when it is reserved, and each failure path then adds one without looking.
AttemptLeft == \A j \in Jobs : job[j].st = "placing" => job[j].attempts < MaxAttempts

\* Work items and the operations on the intents table keep the type of a row.
LEMMA ItemTyped ==
  ASSUME NEW kind \in {"none", "place", "cancel", "capture", "reap", "release-lost"},
         NEW prov \in Providers \union {NoProvider}
  PROVE  Item(kind, prov) \in Row
<1>1. 0 \in 0..CaptureTries /\ 0 \in 0..2
  BY LimitsAssumption
<1>2. QED
  BY <1>1 DEF Item, Row

\* The closed row is a row.
LEMMA NoRowTyped == NoRow \in Row
BY ItemTyped DEF NoRow

\* A place item is a row.
LEMMA PlaceItemTyped == ASSUME NEW prov \in Providers PROVE PlaceItem(prov) \in Row
<1>1. Item("place", prov) \in Row
  BY ItemTyped
<1>2. QED
  BY <1>1 DEF PlaceItem, Row

\* A capture item is a row.
LEMMA CaptureItemTyped ==
  ASSUME NEW prov \in Providers \union {NoProvider}, NEW tries \in 0..CaptureTries
  PROVE  CaptureItem(prov, tries) \in Row
<1>1. Item("capture", prov) \in Row
  BY ItemTyped
<1>2. QED
  BY <1>1 DEF CaptureItem, Row

\* An upsert leaves rows.
LEMMA PutTyped ==
  ASSUME NEW j \in Jobs, NEW row \in Row, intent \in [Jobs -> Row], Put(j, row)
  PROVE  intent' \in [Jobs -> Row]
<1>1. [row EXCEPT !.poisoned = intent[j].poisoned] \in Row
  BY DEF Row
<1>2. QED
  BY <1>1 DEF Put

\* Closing leaves rows.
LEMMA CloseTyped ==
  ASSUME NEW j \in Jobs, intent \in [Jobs -> Row], Close(j)
  PROVE  intent' \in [Jobs -> Row]
BY NoRowTyped DEF Close

\* Freezing leaves rows.
LEMMA FreezeTyped ==
  ASSUME NEW j \in Jobs, intent \in [Jobs -> Row], Freeze(j)
  PROVE  intent' \in [Jobs -> Row]
<1>1. [intent[j] EXCEPT !.frozen = TRUE] \in Row
  BY DEF Row
<1>2. QED
  BY <1>1 DEF Freeze

\* Spawning a task leaves tasks...
LEMMA SpawnTyped ==
  ASSUME NEW j \in Jobs, NEW pc \in PC, NEW item \in Row,
         task \in [Jobs -> Task], Spawn(j, pc, item)
  PROVE  task' \in [Jobs -> Task]
BY DEF Spawn, Task

\* ... and so does ending one...
LEMMA DoneTyped ==
  ASSUME NEW j \in Jobs, task \in [Jobs -> Task], Done(j)
  PROVE  task' \in [Jobs -> Task]
BY NoRowTyped DEF Done, NoTask, Task, PC

\* ... and moving one on.
LEMMA AdvanceTyped ==
  ASSUME NEW j \in Jobs, NEW pc \in PC, task \in [Jobs -> Task], Advance(j, pc)
  PROVE  task' \in [Jobs -> Task]
BY DEF Advance, Task

\* The record of a job (re)entering the queue is a job record.
LEMMA UnplacedTyped ==
  ASSUME NEW attempts \in 0..MaxAttempts PROVE Unplaced(attempts) \in JobRecord
BY DEF Unplaced, JobRecord, JState, Pending, Terminal, Occupying

\* The plain rollback leaves a job record, as long as its attempts are in range.
LEMMA RolledbackTyped ==
  ASSUME NEW j \in Jobs, job \in [Jobs -> JobRecord], NEW attempts \in 0..MaxAttempts
  PROVE  Rolledback(j, attempts) \in JobRecord
BY DEF Rolledback, JobRecord, JState, Pending

\* So does the failure path of every stage.
LEMMA UnwoundTyped ==
  ASSUME NEW j \in Jobs, job \in [Jobs -> JobRecord], NEW attempts \in 0..MaxAttempts,
         NEW preempt \in BOOLEAN
  PROVE  Unwound(j, attempts, preempt) \in JobRecord
<1> DEFINE dead == job[j].lost \/ ~preempt
<1>1. dead \in BOOLEAN
  OBVIOUS
<1>2. [job[j] EXCEPT !.st = "running", !.lost = dead, !.attempts = attempts] \in JobRecord
  <2>1. job[j] \in JobRecord
    OBVIOUS
  <2> HIDE DEF dead
  <2>2. QED
    BY <1>1, <2>1 DEF JobRecord, JState, Occupying
<1>3. QED
  BY <1>2, RolledbackTyped, Zenon DEF Unwound

\* Resolving a placement leaves rows.
LEMMA ResolveTyped ==
  ASSUME NEW j \in Jobs, NEW rec, intent \in [Jobs -> Row], Resolve(j, rec)
  PROVE  intent' \in [Jobs -> Row]
BY CloseTyped DEF Resolve

\* The inductive type invariant in three parts, by what their steps need.
JobInv == job \in [Jobs -> JobRecord] /\ AttemptLeft
ItemInv == intent \in [Jobs -> Row] /\ task \in [Jobs -> Task]
RestInv ==
    /\ unreleased \subseteq Keys
    /\ canc \in [Jobs -> CancelPC]
    /\ cancels \subseteq Jobs
    /\ handles \subseteq Keys
    /\ boot \subseteq Jobs
    /\ stream \subseteq Jobs
    /\ calling \in [Jobs -> {"idle", "put", "signal"}]
    /\ world \in [Keys -> World]
    /\ orphans \subseteq Calls \X Keys
    /\ strays \subseteq Keys
    /\ faults \in 0..MaxFaults
    /\ crashes \in 0..MaxCrashes
    /\ retries \in 0..MaxRetries

\* Replacing the record of one job.
LEMMA JobSet ==
  ASSUME NEW j \in Jobs, NEW rec \in JobRecord, JobInv,
         rec.st = "placing" => rec.attempts < MaxAttempts,
         job' = [job EXCEPT ![j] = rec]
  PROVE  JobInv'
BY DEF JobInv, AttemptLeft

\* Resolving a placement: only here may the attempts grow.
LEMMA JobResolved ==
  ASSUME NEW j \in Jobs, NEW attempts, NEW preempt \in BOOLEAN, JobInv,
         job[j].st = "placing" => attempts \in 0..MaxAttempts,
         \/ Resolve(j, Unwound(j, attempts, preempt))
         \/ Resolve(j, Rolledback(j, attempts))
  PROVE  JobInv'
<1> USE DEF JobInv
<1>1. CASE job[j].st # "placing"
  BY <1>1 DEF Resolve, AttemptLeft
<1>2. CASE job[j].st = "placing"
  <2>1. PICK rec \in {Unwound(j, attempts, preempt), Rolledback(j, attempts)} :
          job' = [job EXCEPT ![j] = rec]
    BY <1>2 DEF Resolve
  <2>2. rec \in JobRecord
    BY <1>2, <2>1, UnwoundTyped, RolledbackTyped
  <2>3. job[j] \in JobRecord
    OBVIOUS
  <2>4. Rolledback(j, attempts).st = "queued"
    BY <2>3 DEF Rolledback, JobRecord
  <2>5. Unwound(j, attempts, preempt).st \in {"queued", "running"}
    <3>1. CASE job[j].prv
      BY <2>3, <3>1 DEF Unwound, JobRecord
    <3>2. CASE ~job[j].prv
      BY <2>4, <3>2 DEF Unwound
    <3>3. QED
      BY <3>1, <3>2
  <2>6. QED
    BY <2>1, <2>2, <2>4, <2>5, JobSet
<1>3. QED
  BY <1>1, <1>2

\* The jobs table keeps its type: one step per action that writes it.
LEMMA JobStep == JobInv /\ [Next]_vars => JobInv'
<1> SUFFICES ASSUME JobInv, [Next]_vars PROVE JobInv'
  OBVIOUS
<1>0. ASSUME UNCHANGED job PROVE JobInv'
  BY <1>0 DEF JobInv, AttemptLeft
<1>1. ASSUME NEW j \in Jobs, Submit(j) PROVE JobInv'
  BY <1>1, UnplacedTyped, LimitsAssumption DEF Submit, Unplaced, JobInv, AttemptLeft
<1>2. ASSUME NEW j \in Jobs, Retry(j) PROVE JobInv'
  BY <1>2, UnplacedTyped, LimitsAssumption DEF Retry, Unplaced, JobInv, AttemptLeft
<1>3. ASSUME NEW j \in Jobs, PassRequeue(j) PROVE JobInv'
  BY <1>3, UnplacedTyped DEF PassRequeue, Unplaced, JobRecord, JobInv, AttemptLeft
<1>4. ASSUME NEW j \in Jobs, PassFail(j) PROVE JobInv'
  <2> DEFINE rec == [job[j] EXCEPT !.st = "failed", !.lost = FALSE]
  <2>2. rec \in JobRecord /\ (rec.st = "placing" => rec.attempts < MaxAttempts)
    <3>1. job[j] \in JobRecord /\ (job[j].st = "placing" => job[j].attempts < MaxAttempts)
      BY DEF JobInv, AttemptLeft
    <3>2. QED
      BY <3>1 DEF JobRecord, JState, Terminal
  <2>3. job' = [job EXCEPT ![j] = rec]
    BY <1>4 DEF PassFail
  <2>4. QED
    BY <2>2, <2>3, JobSet
<1>5. ASSUME NEW j \in Jobs, PassHold(j) PROVE JobInv'
  BY <1>5
     DEF PassHold, JobInv, AttemptLeft, JobRecord, JState, Pending, Terminal, Occupying
<1>6. ASSUME NEW j \in Jobs, PassUnhold(j) PROVE JobInv'
  BY <1>6
     DEF PassUnhold, JobInv, AttemptLeft, JobRecord, JState, Pending, Terminal,
         Occupying
<1>7. ASSUME NEW j \in Jobs, NEW p \in Providers, PassReserve(j, p) PROVE JobInv'
  <2> DEFINE rec == [job[j] EXCEPT !.st = "placing", !.prov = p, !.prv = FALSE]
  <2>1. job[j] \in JobRecord /\ job[j].attempts < MaxAttempts
    BY <1>7 DEF JobInv, PassReserve, Eligible
  <2>2. rec \in JobRecord /\ rec.attempts < MaxAttempts
    BY <2>1 DEF JobRecord, JState, Occupying
  <2>3. job' = [job EXCEPT ![j] = rec]
    BY <1>7 DEF PassReserve
  <2>4. QED
    BY <2>2, <2>3, JobSet
<1>8. ASSUME NEW j \in Jobs, NEW p \in Providers, PlaceNoHandle(j, p) PROVE JobInv'
  <2>1. job[j].st = "placing" => Counted(j) \in 0..MaxAttempts
    BY LimitsAssumption DEF Counted, JobInv, AttemptLeft, JobRecord
  <2>2. Resolve(j, Unwound(j, Counted(j), FALSE))
    BY <1>8 DEF PlaceNoHandle
  <2>3. QED
    BY <2>1, <2>2, JobResolved
<1>9. ASSUME NEW j \in Jobs, NEW p \in Providers, RentContended(j, p) PROVE JobInv'
  BY <1>9, JobResolved DEF RentContended, JobInv, JobRecord
<1>10. ASSUME NEW j \in Jobs, NEW p \in Providers, RentFailed(j, p) PROVE JobInv'
  <2>1. job[j].st = "placing" => {job[j].attempts, Counted(j)} \subseteq 0..MaxAttempts
    BY LimitsAssumption DEF Counted, JobInv, AttemptLeft, JobRecord
  <2>2. PICK attempts \in {job[j].attempts, Counted(j)} :
          Resolve(j, Unwound(j, attempts, FALSE))
    BY <1>10 DEF RentFailed
  <2>3. QED
    BY <2>1, <2>2, JobResolved
<1>11. ASSUME NEW j \in Jobs, NEW p \in Providers, BootFailed(j, p) PROVE JobInv'
  <2>1. job[j].st = "placing" => Counted(j) \in 0..MaxAttempts
    BY LimitsAssumption DEF Counted, JobInv, AttemptLeft, JobRecord
  <2>2. Resolve(j, Unwound(j, Counted(j), FALSE))
    BY <1>11 DEF BootFailed
  <2>3. QED
    BY <2>1, <2>2, JobResolved
<1>12. ASSUME NEW j \in Jobs, NEW p \in Providers, PreemptPlace(j, p) PROVE JobInv'
  BY <1>12, JobResolved DEF PreemptPlace, JobInv, JobRecord
<1>13. ASSUME NEW j \in Jobs, CancelUnwind(j) PROVE JobInv'
  BY <1>13, JobResolved DEF CancelUnwind, JobInv, JobRecord
<1>14. ASSUME NEW j \in Jobs, NEW p \in Providers, LaunchDone(j, p) PROVE JobInv'
  BY <1>14
     DEF LaunchDone, JobInv, AttemptLeft, JobRecord, JState, Pending, Terminal,
         Occupying
<1>15. ASSUME NEW j \in Jobs, NEW p \in Providers, RentDone(j, p) PROVE JobInv'
  <2> DEFINE prv == Provisioned(j)
  <2> DEFINE rec == [job[j] EXCEPT !.prv = prv]
  <2>1. prv \in BOOLEAN
    BY DEF Provisioned, JobInv, JobRecord
  <2>2. rec \in JobRecord /\ (rec.st = "placing" => rec.attempts < MaxAttempts)
    <3>1. job[j] \in JobRecord /\ (job[j].st = "placing" => job[j].attempts < MaxAttempts)
      BY DEF JobInv, AttemptLeft
    <3> HIDE DEF prv
    <3>2. QED
      BY <2>1, <3>1 DEF JobRecord
  <2>3. job' = [job EXCEPT ![j] = rec]
    BY <1>15 DEF RentDone
  <2>4. QED
    BY <2>2, <2>3, JobSet
<1>16. ASSUME NEW j \in Jobs, CancelApply(j) PROVE JobInv'
  BY <1>16
     DEF CancelApply, JobInv, AttemptLeft, JobRecord, JState, Pending, Terminal,
         Occupying
<1>17. ASSUME NEW j \in Jobs, NEW p \in Providers, CaptureDone(j, p) PROVE JobInv'
  <2> DEFINE cap == job[j].captured \/ Capturable(j)
  <2> DEFINE rec == [job[j] EXCEPT !.captured = cap]
  <2>1. cap \in BOOLEAN
    BY DEF Capturable, JobInv, JobRecord
  <2>2. rec \in JobRecord /\ (rec.st = "placing" => rec.attempts < MaxAttempts)
    <3>1. job[j] \in JobRecord /\ (job[j].st = "placing" => job[j].attempts < MaxAttempts)
      BY DEF JobInv, AttemptLeft
    <3> HIDE DEF cap
    <3>2. QED
      BY <2>1, <3>1 DEF JobRecord
  <2>3. job' = [job EXCEPT ![j] = rec]
    BY <1>17 DEF CaptureDone, FinishCapture
  <2>4. QED
    BY <2>2, <2>3, JobSet
<1>18. ASSUME NEW j \in Jobs, NEW p \in Providers, CaptureFailed(j, p) PROVE JobInv'
  <2> DEFINE cap == job[j].captured \/ Capturable(j)
  <2> DEFINE rec == [job[j] EXCEPT !.captured = cap]
  <2>1. cap \in BOOLEAN
    BY DEF Capturable, JobInv, JobRecord
  <2>2. rec \in JobRecord /\ (rec.st = "placing" => rec.attempts < MaxAttempts)
    <3>1. job[j] \in JobRecord /\ (job[j].st = "placing" => job[j].attempts < MaxAttempts)
      BY DEF JobInv, AttemptLeft
    <3> HIDE DEF cap
    <3>2. QED
      BY <2>1, <3>1 DEF JobRecord
  <2>3. UNCHANGED job \/ job' = [job EXCEPT ![j] = rec]
    BY <1>18 DEF CaptureFailed, FinishCapture
  <2>4. QED
    BY <2>2, <2>3, JobSet, <1>0
<1>19. ASSUME NEW j \in Jobs, NEW p \in Providers, ReleaseDone(j, p) PROVE JobInv'
  <2> DEFINE done ==
               \/ job[j].reaped
               \/ /\ task[j].item.kind = "reap"
                  /\ IF task[j].item.kind = "reap" THEN IsTerminal(j)
                     ELSE job[j].st = "running"
  <2> DEFINE rec == [job[j] EXCEPT !.reaped = done]
  <2>1. done \in BOOLEAN
    BY DEF JobInv, JobRecord, IsTerminal
  <2>2. rec \in JobRecord /\ (rec.st = "placing" => rec.attempts < MaxAttempts)
    <3>1. job[j] \in JobRecord /\ (job[j].st = "placing" => job[j].attempts < MaxAttempts)
      BY DEF JobInv, AttemptLeft
    <3> HIDE DEF done
    <3>2. QED
      BY <2>1, <3>1 DEF JobRecord
  <2>3. job' = [job EXCEPT ![j] = rec]
    BY <1>19 DEF ReleaseDone
  <2>4. QED
    BY <2>2, <2>3, JobSet
<1>20. ASSUME NEW j \in Jobs, Finish(j) PROVE JobInv'
  BY <1>20
     DEF Finish, JobInv, AttemptLeft, JobRecord, JState, Pending, Terminal, Occupying
<1>21. ASSUME NEW j \in Jobs, MarkDead(j) PROVE JobInv'
  <2> DEFINE rec == [job[j] EXCEPT !.lost = TRUE]
  <2>2. rec \in JobRecord /\ (rec.st = "placing" => rec.attempts < MaxAttempts)
    <3>1. job[j] \in JobRecord /\ (job[j].st = "placing" => job[j].attempts < MaxAttempts)
      BY DEF JobInv, AttemptLeft
    <3>2. QED
      BY <3>1 DEF JobRecord, JState, Terminal
  <2>3. job' = [job EXCEPT ![j] = rec]
    BY <1>21 DEF MarkDead
  <2>4. QED
    BY <2>2, <2>3, JobSet
<1>22. ASSUME NEW j \in Jobs, Handler(j) PROVE JobInv'
  BY <1>22, <1>0, <1>1, <1>2
     DEF Handler, CancelCheck, CancelPut, CancelSignal, store, process
<1>23. ASSUME NEW j \in Jobs, Adoption(j) PROVE JobInv'
  BY <1>23, <1>0
     DEF Adoption, BootAdopt, Quarantine, BootSkip, PassAdopt, store, process
<1>24. ASSUME NEW j \in Jobs, Decision(j) PROVE JobInv'
  BY <1>24, <1>0, <1>3, <1>4, <1>5, <1>6, <1>7
     DEF Decision, PassCancel, PassCapture, PassRelease, store, process
<1>25. ASSUME NEW j \in Jobs, PlaceStep(j) PROVE JobInv'
  BY <1>25, <1>0, <1>8, <1>15, <1>9, <1>10, <1>11, <1>14
     DEF PlaceStep, PutBoot, PlaceStart, PlaceResume, PlaceUnreachable, ReadyDone,
         store, process
<1>26. ASSUME NEW j \in Jobs, CancelStep(j) PROVE JobInv'
  BY <1>26, <1>0, <1>13, <1>16, <1>12
     DEF CancelStep, PreemptOther, CancelMoot, CancelBegin, CancelStop,
         CancelUnreachable, CancelRefused, store, process
<1>27. ASSUME NEW j \in Jobs, SettleStep(j) PROVE JobInv'
  BY <1>27, <1>0, <1>17, <1>18, <1>19
     DEF SettleStep, SettleUnreachable, ReleaseFailed, store, process
<1>28. ASSUME NEW j \in Jobs, Observation(j) PROVE JobInv'
  BY <1>28, <1>0, <1>20, <1>21
     DEF Observation, StreamStart, Forget, store, process
<1>29. ASSUME NEW j \in Jobs, Timer(j) PROVE JobInv'
  BY <1>29, <1>0
     DEF Timer, RetryDue, QuarantineEnds, store, process
<1>30. ASSUME NEW k \in Keys, Provider(k) PROVE JobInv'
  BY <1>30, <1>0 DEF Provider, WorkerExits, WorkerDies, OrphanLands, OrphanFails, store
<1>31. CASE Crash
  BY <1>31, <1>0 DEF Crash, store
<1>32. CASE UNCHANGED vars
  BY <1>32, <1>0 DEF vars, store
<1>33. QED
  BY <1>22, <1>23, <1>24, <1>25, <1>26, <1>27, <1>28, <1>29, <1>30, <1>31, <1>32
     DEF Next

\* A place item moved to its next stage is a row.
LEMMA StagedTyped ==
  ASSUME NEW j \in Jobs, task \in [Jobs -> Task], NEW stage \in {"rent", "boot", "launch"}
  PROVE  Staged(j, stage) \in Row
<1>1. task[j].item \in Row
  BY DEF Task
<1>2. QED
  BY <1>1 DEF Staged, Row

\* Adopting a row leaves tasks.
LEMMA AdoptTyped ==
  ASSUME NEW j \in Jobs, NEW row \in Row, task \in [Jobs -> Task], Adopt(j, row)
  PROVE  task' \in [Jobs -> Task]
<1>1. \/ UNCHANGED task
      \/ \E pc \in {"assign", "capturing", "releasing"} : Spawn(j, pc, row)
  BY DEF Adopt
<1>2. QED
  BY <1>1, SpawnTyped DEF PC

\* The intents table and the tasks keep their types.
LEMMA ItemStep == JobInv /\ ItemInv /\ [Next]_vars => ItemInv'
<1> SUFFICES ASSUME JobInv, ItemInv, [Next]_vars PROVE ItemInv'
  OBVIOUS
<1> USE DEF ItemInv
<1>0. \A j \in Jobs : /\ job[j].prov \in Providers \union {NoProvider}
                      /\ intent[j] \in Row
                      /\ task[j].item \in Row
  BY DEF JobInv, JobRecord, Task
<1>1. ASSUME NEW j \in Jobs, CancelPut(j) PROVE ItemInv'
  BY <1>1, <1>0, ItemTyped, PutTyped DEF CancelPut
<1>2. ASSUME NEW j \in Jobs, BootAdopt(j) PROVE ItemInv'
  <2> DEFINE row == [intent[j] EXCEPT !.spawns = 1]
  <2>1. row \in Row
    BY <1>0 DEF Row
  <2>2. Put(j, row) /\ Adopt(j, row)
    BY <1>2 DEF BootAdopt
  <2>3. QED
    BY <2>1, <2>2, PutTyped, AdoptTyped
<1>3. ASSUME NEW j \in Jobs, Quarantine(j) PROVE ItemInv'
  <2> DEFINE stamped == [intent[j] EXCEPT !.spawns = 2]
             row == [stamped EXCEPT !.poisoned = TRUE]
  <2>1. row \in Row
    <3>1. stamped \in Row
      BY <1>0 DEF Row
    <3> HIDE DEF stamped
    <3>2. QED
      BY <3>1 DEF Row
  <2>2. intent' = [intent EXCEPT ![j] = row] /\ UNCHANGED task
    BY <1>3 DEF Quarantine
  <2>3. QED
    BY <2>1, <2>2
<1>4. ASSUME NEW j \in Jobs, PassAdopt(j) PROVE ItemInv'
  BY <1>4, <1>0, AdoptTyped DEF PassAdopt, store
<1>5. ASSUME NEW j \in Jobs, PassCapture(j) PROVE ItemInv'
  <2>1. PICK tries \in 0..CaptureTries :
          LET item == CaptureItem(job[j].prov, tries)
          IN  Put(j, item) /\ Spawn(j, "capturing", item)
    BY <1>5, LimitsAssumption DEF PassCapture
  <2>2. CaptureItem(job[j].prov, tries) \in Row
    BY <1>0, CaptureItemTyped
  <2>3. QED
    BY <2>1, <2>2, PutTyped, SpawnTyped DEF PC
<1>6. ASSUME NEW j \in Jobs, PassRelease(j) PROVE ItemInv'
  <2>1. PICK kind \in {"release-lost", "reap"} :
          LET item == Item(kind, job[j].prov)
          IN  Put(j, item) /\ Spawn(j, "releasing", item)
    BY <1>6 DEF PassRelease
  <2>2. Item(kind, job[j].prov) \in Row
    BY <1>0, ItemTyped
  <2>3. QED
    BY <2>1, <2>2, PutTyped, SpawnTyped DEF PC
<1>7. ASSUME NEW j \in Jobs, NEW p \in Providers, PassReserve(j, p) PROVE ItemInv'
  BY <1>7, PlaceItemTyped, PutTyped, SpawnTyped DEF PassReserve, PC
<1>8. ASSUME NEW j \in Jobs, NEW p \in Providers, PlaceStart(j, p) PROVE ItemInv'
  BY <1>8, StagedTyped, PutTyped, SpawnTyped DEF PlaceStart, PC
<1>9. ASSUME NEW j \in Jobs, NEW p \in Providers, PlaceResume(j, p) PROVE ItemInv'
  BY <1>9, AdvanceTyped DEF PlaceResume, PC, store
<1>10. ASSUME NEW j \in Jobs, NEW p \in Providers, PlaceNoHandle(j, p) PROVE ItemInv'
  BY <1>10, ResolveTyped, DoneTyped DEF PlaceNoHandle
<1>11. ASSUME NEW j \in Jobs, NEW p \in Providers, RentContended(j, p) PROVE ItemInv'
  BY <1>11, ResolveTyped, DoneTyped DEF RentContended
<1>12. ASSUME NEW j \in Jobs, NEW p \in Providers, RentFailed(j, p) PROVE ItemInv'
  BY <1>12, ResolveTyped, DoneTyped DEF RentFailed
<1>13. ASSUME NEW j \in Jobs, NEW p \in Providers, BootFailed(j, p) PROVE ItemInv'
  BY <1>13, ResolveTyped, DoneTyped DEF BootFailed
<1>14. ASSUME NEW j \in Jobs, NEW p \in Providers, RentDone(j, p) PROVE ItemInv'
  BY <1>14, AdvanceTyped DEF RentDone, PC
<1>15. ASSUME NEW j \in Jobs, NEW p \in Providers, PlaceUnreachable(j, p) PROVE ItemInv'
  BY <1>15, FreezeTyped, DoneTyped DEF PlaceUnreachable
<1>16. ASSUME NEW j \in Jobs, PutBoot(j) PROVE ItemInv'
  BY <1>16, StagedTyped, PutTyped, SpawnTyped DEF PutBoot, PC
<1>17. ASSUME NEW j \in Jobs, NEW p \in Providers, ReadyDone(j, p) PROVE ItemInv'
  BY <1>17, StagedTyped, PutTyped, SpawnTyped DEF ReadyDone, PC
<1>18. ASSUME NEW j \in Jobs, NEW p \in Providers, LaunchDone(j, p) PROVE ItemInv'
  BY <1>18, CloseTyped, DoneTyped DEF LaunchDone
<1>19. ASSUME NEW j \in Jobs, NEW p \in Providers, PreemptPlace(j, p) PROVE ItemInv'
  BY <1>19, ResolveTyped, DoneTyped DEF PreemptPlace, Preempt
<1>20. ASSUME NEW j \in Jobs, PreemptOther(j) PROVE ItemInv'
  BY <1>20, DoneTyped DEF PreemptOther, Preempt, store
<1>21. ASSUME NEW j \in Jobs, CancelMoot(j) PROVE ItemInv'
  BY <1>21, CloseTyped DEF CancelMoot
<1>22. ASSUME NEW j \in Jobs, CancelBegin(j) PROVE ItemInv'
  BY <1>22, <1>0, ItemTyped, PutTyped DEF CancelBegin
<1>23. ASSUME NEW j \in Jobs, CancelUnwind(j) PROVE ItemInv'
  BY <1>23, ResolveTyped DEF CancelUnwind
<1>24. ASSUME NEW j \in Jobs, CancelUnreachable(j) PROVE ItemInv'
  BY <1>24, FreezeTyped DEF CancelUnreachable
<1>25. ASSUME NEW j \in Jobs, CancelRefused(j) PROVE ItemInv'
  BY <1>25, CloseTyped DEF CancelRefused
<1>26. ASSUME NEW j \in Jobs, CancelApply(j) PROVE ItemInv'
  BY <1>26, CloseTyped DEF CancelApply
<1>27. ASSUME NEW j \in Jobs, NEW p \in Providers, CaptureDone(j, p) PROVE ItemInv'
  BY <1>27, CloseTyped, DoneTyped DEF CaptureDone, FinishCapture
<1>28. ASSUME NEW j \in Jobs, NEW p \in Providers, CaptureFailed(j, p) PROVE ItemInv'
  <2> DEFINE item == task[j].item
             row == [item EXCEPT !.left = @ - 1, !.frozen = TRUE]
  <2>1. item.left > 1 => row \in Row
    <3>1. item \in Row /\ (item.left > 1 => item.left - 1 \in 0..CaptureTries)
      BY <1>0, LimitsAssumption DEF Row
    <3>2. QED
      BY <3>1 DEF Row
  <2>2. (item.left > 1 /\ Put(j, row)) \/ Close(j)
    BY <1>28 DEF CaptureFailed, FinishCapture
  <2>3. QED
    BY <1>28, <2>1, <2>2, PutTyped, CloseTyped, DoneTyped DEF CaptureFailed
<1>29. ASSUME NEW j \in Jobs, NEW p \in Providers, ReleaseDone(j, p) PROVE ItemInv'
  BY <1>29, CloseTyped, DoneTyped DEF ReleaseDone
<1>30. ASSUME NEW j \in Jobs, NEW p \in Providers, ReleaseFailed(j, p) PROVE ItemInv'
  <2>1. [task[j].item EXCEPT !.frozen = TRUE] \in Row
    BY <1>0, ZenonT(40) DEF Row
  <2>2. QED
    BY <1>30, <2>1, PutTyped, DoneTyped DEF ReleaseFailed
<1>31. ASSUME NEW j \in Jobs, SettleUnreachable(j) PROVE ItemInv'
  BY <1>31, FreezeTyped, DoneTyped DEF SettleUnreachable
<1>32. ASSUME NEW j \in Jobs, RetryDue(j) PROVE ItemInv'
  <2>1. [intent[j] EXCEPT !.frozen = FALSE] \in Row
    BY <1>0 DEF Row
  <2>2. QED
    BY <1>32, <2>1 DEF RetryDue, process
<1>33. ASSUME NEW j \in Jobs, QuarantineEnds(j) PROVE ItemInv'
  <2>1. [intent[j] EXCEPT !.poisoned = FALSE] \in Row
    BY <1>0 DEF Row
  <2>2. QED
    BY <1>33, <2>1 DEF QuarantineEnds, process
<1>34. ASSUME NEW j \in Jobs, Handler(j) PROVE ItemInv'
  BY <1>34, <1>1
     DEF Handler, Submit, CancelCheck, CancelSignal, Retry, store, process
<1>35. ASSUME NEW j \in Jobs, Adoption(j) PROVE ItemInv'
  BY <1>35, <1>2, <1>3, <1>4
     DEF Adoption, BootSkip, store, process
<1>36. ASSUME NEW j \in Jobs, Decision(j) PROVE ItemInv'
  BY <1>36, <1>5, <1>6, <1>7
     DEF Decision, PassCancel, PassRequeue, PassFail, PassHold, PassUnhold, store,
         process
<1>37. ASSUME NEW j \in Jobs, PlaceStep(j) PROVE ItemInv'
  BY <1>37, <1>16, <1>8, <1>9, <1>10, <1>14, <1>11, <1>12, <1>15, <1>17, <1>13, <1>18
     DEF PlaceStep, store, process
<1>38. ASSUME NEW j \in Jobs, CancelStep(j) PROVE ItemInv'
  BY <1>38, <1>20, <1>21, <1>22, <1>23, <1>24, <1>25, <1>26, <1>19
     DEF CancelStep, CancelStop, store, process
<1>39. ASSUME NEW j \in Jobs, SettleStep(j) PROVE ItemInv'
  BY <1>39, <1>31, <1>27, <1>28, <1>29, <1>30
     DEF SettleStep, store, process
<1>40. ASSUME NEW j \in Jobs, Observation(j) PROVE ItemInv'
  BY <1>40
     DEF Observation, StreamStart, Finish, MarkDead, Forget, store, process
<1>41. ASSUME NEW j \in Jobs, Timer(j) PROVE ItemInv'
  BY <1>41, <1>32, <1>33
     DEF Timer, store, process
<1>42. ASSUME NEW k \in Keys, Provider(k) PROVE ItemInv'
  BY <1>42
     DEF Provider, WorkerExits, WorkerDies, OrphanLands, OrphanFails, store, process
<1>43. CASE Crash
  BY <1>43, NoRowTyped DEF Crash, store, NoTask, Task, PC
<1>44. CASE UNCHANGED vars
  BY <1>44 DEF vars, store, process
<1>45. QED
  BY <1>34, <1>35, <1>36, <1>37, <1>38, <1>39, <1>40, <1>41, <1>42, <1>43, <1>44
     DEF Next

\* So does every other variable.
LEMMA RestStep == RestInv /\ [Next]_vars => RestInv'
<1> SUFFICES ASSUME RestInv, [Next]_vars PROVE RestInv'
  OBVIOUS
<1> USE BoundsAssumption
    DEF RestInv, store, process, provider, bounds, Keys, World, CancelPC, Fault, NoFault,
        At, Rented, Launched, RentUnheard, Abandon, InFlight
<1>1. ASSUME NEW j \in Jobs, Handler(j) PROVE RestInv'
  <2>1. ASSUME Submit(j) PROVE RestInv'
    BY <2>1 DEF Submit
  <2>2. ASSUME CancelCheck(j) PROVE RestInv'
    BY <2>2 DEF CancelCheck
  <2>3. ASSUME CancelPut(j) PROVE RestInv'
    BY <2>3 DEF CancelPut
  <2>4. ASSUME CancelSignal(j) PROVE RestInv'
    BY <2>4 DEF CancelSignal
  <2>5. ASSUME Retry(j) PROVE RestInv'
    BY <2>5 DEF Retry
  <2>6. QED
    BY <1>1, <2>1, <2>2, <2>3, <2>4, <2>5 DEF Handler
<1>2. ASSUME NEW j \in Jobs, Adoption(j) PROVE RestInv'
  <2>1. ASSUME BootAdopt(j) PROVE RestInv'
    BY <2>1 DEF BootAdopt, Adopt
  <2>2. ASSUME Quarantine(j) PROVE RestInv'
    BY <2>2 DEF Quarantine
  <2>3. ASSUME BootSkip(j) PROVE RestInv'
    BY <2>3 DEF BootSkip
  <2>4. ASSUME PassAdopt(j) PROVE RestInv'
    BY <2>4 DEF PassAdopt, Adopt
  <2>5. QED
    BY <1>2, <2>1, <2>2, <2>3, <2>4 DEF Adoption
<1>3. ASSUME NEW j \in Jobs, Decision(j) PROVE RestInv'
  <2>1. ASSUME PassCancel(j) PROVE RestInv'
    BY <2>1 DEF PassCancel
  <2>2. ASSUME PassCapture(j) PROVE RestInv'
    BY <2>2 DEF PassCapture
  <2>3. ASSUME PassRelease(j) PROVE RestInv'
    BY <2>3 DEF PassRelease
  <2>4. ASSUME PassRequeue(j) PROVE RestInv'
    BY <2>4 DEF PassRequeue
  <2>5. ASSUME PassFail(j) PROVE RestInv'
    BY <2>5 DEF PassFail
  <2>6. ASSUME PassHold(j) PROVE RestInv'
    BY <2>6 DEF PassHold
  <2>7. ASSUME PassUnhold(j) PROVE RestInv'
    BY <2>7 DEF PassUnhold
  <2>8. ASSUME NEW p \in Providers, PassReserve(j, p) PROVE RestInv'
    BY <2>8 DEF PassReserve
  <2>9. QED
    BY <1>3, <2>1, <2>2, <2>3, <2>4, <2>5, <2>6, <2>7, <2>8 DEF Decision
<1>4. ASSUME NEW j \in Jobs, PlaceStep(j) PROVE RestInv'
  <2>1. ASSUME PutBoot(j) PROVE RestInv'
    BY <2>1 DEF PutBoot
  <2>2. ASSUME NEW p \in Providers, PlaceStart(j, p) PROVE RestInv'
    BY <2>2 DEF PlaceStart
  <2>3. ASSUME NEW p \in Providers, PlaceResume(j, p) PROVE RestInv'
    BY <2>3 DEF PlaceResume
  <2>4. ASSUME NEW p \in Providers, PlaceNoHandle(j, p) PROVE RestInv'
    BY <2>4 DEF PlaceNoHandle
  <2>5. ASSUME NEW p \in Providers, RentDone(j, p) PROVE RestInv'
    BY <2>5 DEF RentDone
  <2>6. ASSUME NEW p \in Providers, RentContended(j, p) PROVE RestInv'
    BY <2>6 DEF RentContended
  <2>7. ASSUME NEW p \in Providers, RentFailed(j, p) PROVE RestInv'
    BY <2>7 DEF RentFailed
  <2>8. ASSUME NEW p \in Providers, PlaceUnreachable(j, p) PROVE RestInv'
    BY <2>8 DEF PlaceUnreachable
  <2>9. ASSUME NEW p \in Providers, ReadyDone(j, p) PROVE RestInv'
    BY <2>9 DEF ReadyDone
  <2>10. ASSUME NEW p \in Providers, BootFailed(j, p) PROVE RestInv'
    BY <2>10 DEF BootFailed
  <2>11. ASSUME NEW p \in Providers, LaunchDone(j, p) PROVE RestInv'
    BY <2>11 DEF LaunchDone
  <2>12. QED
    BY <1>4, <2>1, <2>2, <2>3, <2>4, <2>5, <2>6, <2>7, <2>8, <2>9, <2>10, <2>11
       DEF PlaceStep
<1>5. ASSUME NEW j \in Jobs, CancelStep(j) PROVE RestInv'
  <2>1. ASSUME PreemptOther(j) PROVE RestInv'
    BY <2>1 DEF PreemptOther, Preempt
  <2>2. ASSUME CancelMoot(j) PROVE RestInv'
    BY <2>2 DEF CancelMoot
  <2>3. ASSUME CancelBegin(j) PROVE RestInv'
    BY <2>3 DEF CancelBegin, CancelStage
  <2>4. ASSUME CancelUnwind(j) PROVE RestInv'
    BY <2>4 DEF CancelUnwind
  <2>5. ASSUME CancelStop(j) PROVE RestInv'
    BY <2>5 DEF CancelStop
  <2>6. ASSUME CancelUnreachable(j) PROVE RestInv'
    BY <2>6 DEF CancelUnreachable
  <2>7. ASSUME CancelRefused(j) PROVE RestInv'
    BY <2>7 DEF CancelRefused
  <2>8. ASSUME CancelApply(j) PROVE RestInv'
    BY <2>8 DEF CancelApply
  <2>9. ASSUME NEW p \in Providers, PreemptPlace(j, p) PROVE RestInv'
    BY <2>9 DEF PreemptPlace, Preempt
  <2>10. QED
    BY <1>5, <2>1, <2>2, <2>3, <2>4, <2>5, <2>6, <2>7, <2>8, <2>9 DEF CancelStep
<1>6. ASSUME NEW j \in Jobs, SettleStep(j) PROVE RestInv'
  <2>1. ASSUME SettleUnreachable(j) PROVE RestInv'
    BY <2>1 DEF SettleUnreachable
  <2>2. ASSUME NEW p \in Providers, CaptureDone(j, p) PROVE RestInv'
    BY <2>2 DEF CaptureDone
  <2>3. ASSUME NEW p \in Providers, CaptureFailed(j, p) PROVE RestInv'
    BY <2>3 DEF CaptureFailed
  <2>4. ASSUME NEW p \in Providers, ReleaseDone(j, p) PROVE RestInv'
    BY <2>4 DEF ReleaseDone
  <2>5. ASSUME NEW p \in Providers, ReleaseFailed(j, p) PROVE RestInv'
    BY <2>5 DEF ReleaseFailed
  <2>6. QED
    BY <1>6, <2>1, <2>2, <2>3, <2>4, <2>5 DEF SettleStep
<1>7. ASSUME NEW j \in Jobs, Observation(j) PROVE RestInv'
  <2>1. ASSUME StreamStart(j) PROVE RestInv'
    BY <2>1 DEF StreamStart
  <2>2. ASSUME Finish(j) PROVE RestInv'
    BY <2>2 DEF Finish
  <2>3. ASSUME MarkDead(j) PROVE RestInv'
    BY <2>3 DEF MarkDead
  <2>4. ASSUME Forget(j) PROVE RestInv'
    BY <2>4 DEF Forget
  <2>5. QED
    BY <1>7, <2>1, <2>2, <2>3, <2>4 DEF Observation
<1>8. ASSUME NEW j \in Jobs, Timer(j) PROVE RestInv'
  <2>1. ASSUME RetryDue(j) PROVE RestInv'
    BY <2>1 DEF RetryDue
  <2>2. ASSUME QuarantineEnds(j) PROVE RestInv'
    BY <2>2 DEF QuarantineEnds
  <2>3. QED
    BY <1>8, <2>1, <2>2 DEF Timer
<1>9. ASSUME NEW k \in Keys, Provider(k) PROVE RestInv'
  <2>1. ASSUME NEW call \in Calls, OrphanLands(call, k) PROVE RestInv'
    BY <1>9, <2>1 DEF OrphanLands
  <2>2. ASSUME NEW call \in Calls, OrphanFails(call, k) PROVE RestInv'
    BY <2>2 DEF OrphanFails
  <2>3. QED
    BY <1>9, <2>1, <2>2 DEF Provider, WorkerExits, WorkerDies
<1>10. CASE Crash
  BY <1>10 DEF Crash
<1>11. CASE UNCHANGED vars
  BY <1>11 DEF vars
<1>12. QED
  BY <1>1, <1>2, <1>3, <1>4, <1>5, <1>6, <1>7, <1>8, <1>9, <1>10, <1>11 DEF Next

\* The three parts hold together.
LEMMA Typed == Spec => [](JobInv /\ ItemInv /\ RestInv)
<1>1. Init => JobInv /\ ItemInv /\ RestInv
  <2> SUFFICES ASSUME Init PROVE JobInv /\ ItemInv /\ RestInv
    OBVIOUS
  <2>1. Absent \in JobRecord /\ Absent.st # "placing"
    <3>1. Unplaced(0) \in JobRecord
      BY UnplacedTyped, LimitsAssumption
    <3>2. QED
      BY <3>1 DEF Absent, JobRecord, JState
  <2>2. JobInv
    BY <2>1 DEF Init, JobInv, AttemptLeft
  <2>3. ItemInv
    BY NoRowTyped DEF Init, ItemInv, NoTask, Task, PC
  <2>4. RestInv
    BY BoundsAssumption DEF Init, RestInv, CancelPC, World
  <2>5. QED
    BY <2>2, <2>3, <2>4
<1>2. (JobInv /\ ItemInv /\ RestInv) /\ [Next]_vars => (JobInv /\ ItemInv /\ RestInv)'
  BY JobStep, ItemStep, RestStep
<1>3. QED
  BY <1>1, <1>2, PTL DEF Spec

\* Every variable has its type; in particular the attempts of a job never exceed
\* max_attempts, although each failure path adds one without looking.
THEOREM TypeCorrect == Spec => []TypeOK
<1>1. JobInv /\ ItemInv /\ RestInv => TypeOK
  BY DEF JobInv, ItemInv, RestInv, TypeOK
<1>2. QED
  BY <1>1, Typed, PTL

-----------------------------------------------------------------------------
(***************************************************************************)
(* Discipline.  What ties the record of a job, its work item, its task and *)
(* its cancel item together, and what follows: a placement is always owned *)
(* (I3), evidence is of the current attempt, quarantine is honoured        *)
(* (ROBUST-2), capture comes before release (I6), a slot is never          *)
(* overbooked (I2).                                                        *)
(***************************************************************************)

PlacePC == {"assign", "renting", "minted", "readying", "launching"}
ReleaseKind == {"reap", "release-lost"}
SettleKind == {"capture"} \union ReleaseKind

\* A task works on an item of its kind, an idle one on none.
TaskMatches(j) ==
    /\ task[j].pc \in PlacePC => task[j].item.kind = "place"
    /\ task[j].pc = "capturing" => task[j].item.kind = "capture"
    /\ task[j].pc = "releasing" => task[j].item.kind \in ReleaseKind
    /\ task[j].pc = "idle" => task[j].item.kind = "none"

\* A live task has a row, its own or a cancel row put over it.
TaskRowed(j) == task[j].pc # "idle" => Open(j)

\* A started cancel item works alone, and for a pending request.
CancelAlone(j) == canc[j] \notin {"idle", "preempt"} => task[j].pc = "idle"
CancelPending(j) == canc[j] # "idle" => j \in cancels

\* Place rows and place tasks are those of the current placement.
PlaceOwns(j) ==
    /\ intent[j].kind = "place" => job[j].st = "placing" /\ job[j].prov = intent[j].prov
    /\ task[j].item.kind = "place" => job[j].st = "placing" /\ job[j].prov = task[j].item.prov
PlacingRowed(j) == job[j].st = "placing" => intent[j].kind \in {"place", "cancel"}

\* What stops, captures or releases a placement finds it placed.
StopLeft(j) == canc[j] \in {"stop", "apply"} => job[j].st # "placing"
SettleLeft(j) ==
    intent[j].kind \in SettleKind \/ task[j].item.kind \in SettleKind
    => job[j].st # "placing"

\* A release was decided on captured evidence; a job retried under it waits.
ReleaseProved(j) ==
    intent[j].kind \in ReleaseKind \/ task[j].item.kind \in ReleaseKind
    => job[j].captured \/ job[j].st \in Pending

\* Evidence is of the current attempt, and a quarantined item is left alone.
EvidenceFresh(j) == job[j].captured => job[j].st = "running" \/ IsTerminal(j)
ParkedAlone(j) == intent[j].poisoned => Open(j) /\ task[j].pc = "idle"

Disciplined(j) ==
    /\ TaskMatches(j) /\ TaskRowed(j) /\ CancelAlone(j) /\ CancelPending(j)
    /\ PlaceOwns(j) /\ PlacingRowed(j) /\ StopLeft(j) /\ SettleLeft(j)
    /\ ReleaseProved(j) /\ EvidenceFresh(j) /\ ParkedAlone(j)

Discipline == \A j \in Jobs : Disciplined(j)

\* A step that leaves all of this as it was.
Same(j) ==
    /\ job'[j] = job[j] /\ intent'[j] = intent[j] /\ task'[j] = task[j]
    /\ canc'[j] = canc[j] /\ (j \in cancels' <=> j \in cancels)
    /\ \A p \in Providers : <<p, j>> \in unreleased' <=> <<p, j>> \in unreleased

\* Such a step leaves a disciplined job disciplined.
LEMMA Frame == ASSUME NEW j \in Jobs, Disciplined(j), Same(j) PROVE Disciplined(j)'
BY DEF Disciplined, Same, TaskMatches, TaskRowed, CancelAlone, CancelPending, PlaceOwns,
       PlacingRowed, StopLeft, SettleLeft, ReleaseProved, EvidenceFresh, ParkedAlone,
       IsTerminal, Open

\* The steps of one job.
StepOf(j) ==
    Handler(j) \/ Adoption(j) \/ Decision(j) \/ PlaceStep(j)
    \/ CancelStep(j) \/ SettleStep(j) \/ Observation(j) \/ Timer(j)

\* A step of one job is none of another's.
LEMMA Local ==
  ASSUME NEW j \in Jobs, NEW i \in Jobs \ {j}, JobInv, ItemInv, RestInv, StepOf(j)
  PROVE  Same(i)
<1> USE DEF JobInv, ItemInv, RestInv, Same, store, process, Put, Close, Freeze, Spawn,
            Advance, Done, Resolve
<1>1. CASE Handler(j)
  BY <1>1 DEF Handler, Submit, CancelCheck, CancelPut, CancelSignal, Retry
<1>2. CASE Adoption(j)
  BY <1>2 DEF Adoption, BootAdopt, Quarantine, BootSkip, PassAdopt, Adopt
<1>3. CASE Decision(j)
  <2>1. CASE PassCancel(j)
    BY <2>1 DEF PassCancel
  <2>2. CASE PassCapture(j)
    BY <2>2 DEF PassCapture
  <2>3. CASE PassRelease(j)
    BY <2>3 DEF PassRelease
  <2>4. CASE PassRequeue(j)
    BY <2>4 DEF PassRequeue
  <2>5. CASE PassFail(j)
    BY <2>5 DEF PassFail
  <2>6. CASE PassHold(j)
    BY <2>6 DEF PassHold
  <2>7. CASE PassUnhold(j)
    BY <2>7 DEF PassUnhold
  <2>8. CASE \E p \in Providers : PassReserve(j, p)
    BY <2>8 DEF PassReserve
  <2>9. QED
    BY <1>3, <2>1, <2>2, <2>3, <2>4, <2>5, <2>6, <2>7, <2>8 DEF Decision
<1>4. CASE PlaceStep(j)
  <2>1. CASE PutBoot(j)
    BY <2>1 DEF PutBoot
  <2>2. CASE \E p \in Providers : PlaceStart(j, p)
    BY <2>2 DEF PlaceStart
  <2>3. CASE \E p \in Providers : PlaceResume(j, p)
    BY <2>3 DEF PlaceResume
  <2>4. CASE \E p \in Providers : PlaceNoHandle(j, p)
    BY <2>4 DEF PlaceNoHandle
  <2>5. CASE \E p \in Providers : RentDone(j, p)
    BY <2>5 DEF RentDone
  <2>6. CASE \E p \in Providers : RentContended(j, p)
    BY <2>6 DEF RentContended
  <2>7. CASE \E p \in Providers : RentFailed(j, p)
    BY <2>7 DEF RentFailed
  <2>8. CASE \E p \in Providers : PlaceUnreachable(j, p)
    BY <2>8 DEF PlaceUnreachable
  <2>9. CASE \E p \in Providers : ReadyDone(j, p)
    BY <2>9 DEF ReadyDone
  <2>10. CASE \E p \in Providers : BootFailed(j, p)
    BY <2>10, ZenonT(40) DEF BootFailed
  <2>11. CASE \E p \in Providers : LaunchDone(j, p)
    BY <2>11 DEF LaunchDone
  <2>12. QED
    BY <1>4, <2>1, <2>2, <2>3, <2>4, <2>5, <2>6, <2>7, <2>8, <2>9, <2>10, <2>11
       DEF PlaceStep
<1>5. CASE CancelStep(j)
  <2>1. CASE PreemptOther(j)
    BY <2>1 DEF PreemptOther, Preempt
  <2>2. CASE CancelMoot(j)
    BY <2>2 DEF CancelMoot
  <2>3. CASE CancelBegin(j)
    BY <2>3 DEF CancelBegin
  <2>4. CASE CancelUnwind(j)
    BY <2>4 DEF CancelUnwind
  <2>5. CASE CancelStop(j)
    BY <2>5 DEF CancelStop
  <2>6. CASE CancelUnreachable(j)
    BY <2>6 DEF CancelUnreachable
  <2>7. CASE CancelRefused(j)
    BY <2>7 DEF CancelRefused
  <2>8. CASE CancelApply(j)
    BY <2>8 DEF CancelApply
  <2>9. CASE \E p \in Providers : PreemptPlace(j, p)
    BY <2>9, ZenonT(40) DEF PreemptPlace, Preempt
  <2>10. QED
    BY <1>5, <2>1, <2>2, <2>3, <2>4, <2>5, <2>6, <2>7, <2>8, <2>9 DEF CancelStep
<1>6. CASE SettleStep(j)
  BY <1>6
     DEF SettleStep, SettleUnreachable, CaptureDone, CaptureFailed, ReleaseDone,
         ReleaseFailed, FinishCapture
<1>7. CASE Observation(j)
  BY <1>7 DEF Observation, StreamStart, Finish, MarkDead, Forget
<1>8. CASE Timer(j)
  BY <1>8 DEF Timer, RetryDue, QuarantineEnds
<1>9. QED
  BY <1>1, <1>2, <1>3, <1>4, <1>5, <1>6, <1>7, <1>8 DEF StepOf

\* What the operations on rows and tasks leave in the fields the invariants read.
\* An upsert:
LEMMA PutFacts ==
  ASSUME NEW j \in Jobs, NEW row \in Row, ItemInv, Put(j, row)
  PROVE  /\ intent'[j].kind = row.kind /\ intent'[j].prov = row.prov
         /\ intent'[j].stage = row.stage /\ intent'[j].poisoned = intent[j].poisoned
BY DEF ItemInv, Put, Row

\* The closed row.
LEMMA NoRowFacts == NoRow.kind = "none" /\ NoRow.prov = NoProvider /\ ~NoRow.poisoned
BY DEF NoRow, Item

\* Closing.
LEMMA CloseFacts ==
  ASSUME NEW j \in Jobs, ItemInv, Close(j)
  PROVE  intent'[j] = NoRow
BY DEF ItemInv, Close

\* Freezing.
LEMMA FreezeFacts ==
  ASSUME NEW j \in Jobs, ItemInv, Freeze(j)
  PROVE  /\ intent'[j].kind = intent[j].kind /\ intent'[j].prov = intent[j].prov
         /\ intent'[j].stage = intent[j].stage /\ intent'[j].poisoned = intent[j].poisoned
<1>1. intent[j] \in Row
  BY DEF ItemInv
<1>2. QED
  BY <1>1 DEF ItemInv, Freeze, Row

\* Ending, spawning and moving on a task.
LEMMA TaskFacts ==
  ASSUME NEW j \in Jobs, ItemInv
  PROVE  /\ Done(j) => task'[j] = NoTask
         /\ \A pc, item : Spawn(j, pc, item) => task'[j].pc = pc /\ task'[j].item = item
         /\ \A pc : Advance(j, pc) => task'[j].pc = pc /\ task'[j].item = task[j].item
BY DEF ItemInv, Done, Spawn, Advance, Task

\* No task.
LEMMA NoTaskFacts == NoTask.pc = "idle" /\ NoTask.item = NoRow
BY DEF NoTask

\* A place item at its next stage.
LEMMA StagedFacts ==
  ASSUME NEW j \in Jobs, ItemInv, NEW stage \in {"rent", "boot", "launch"}
  PROVE  /\ Staged(j, stage) \in Row
         /\ Staged(j, stage).kind = task[j].item.kind
         /\ Staged(j, stage).prov = task[j].item.prov
         /\ Staged(j, stage).stage = stage
<1>1. task[j].item \in Row
  BY DEF ItemInv, Task
<1>2. QED
  BY <1>1, StagedTyped, ZenonT(40) DEF Staged, Row, ItemInv

\* A fresh item...
LEMMA ItemFacts ==
  ASSUME NEW kind \in {"none", "place", "cancel", "capture", "reap", "release-lost"},
         NEW prov \in Providers \union {NoProvider}
  PROVE  /\ Item(kind, prov) \in Row
         /\ Item(kind, prov).kind = kind /\ Item(kind, prov).prov = prov
BY ItemTyped DEF Item

\* ... to place...
LEMMA PlaceItemFacts ==
  ASSUME NEW prov \in Providers
  PROVE  /\ PlaceItem(prov) \in Row
         /\ PlaceItem(prov).kind = "place" /\ PlaceItem(prov).prov = prov
         /\ PlaceItem(prov).stage = "assign"
BY PlaceItemTyped DEF PlaceItem, Item

\* ... and to capture.
LEMMA CaptureItemFacts ==
  ASSUME NEW prov \in Providers \union {NoProvider}, NEW tries \in 0..CaptureTries
  PROVE  /\ CaptureItem(prov, tries) \in Row
         /\ CaptureItem(prov, tries).kind = "capture" /\ CaptureItem(prov, tries).prov = prov
BY CaptureItemTyped DEF CaptureItem, Item

\* The two failure records.
LEMMA UnwoundFacts ==
  ASSUME NEW j \in Jobs, NEW attempts, NEW preempt \in BOOLEAN, JobInv
  PROVE  /\ Unwound(j, attempts, preempt).st \in {"queued", "running"}
         /\ Unwound(j, attempts, preempt).captured = job[j].captured
         /\ Rolledback(j, attempts).st = "queued"
         /\ Rolledback(j, attempts).captured = job[j].captured
         /\ Unwound(j, attempts, preempt).reaped = job[j].reaped
         /\ Rolledback(j, attempts).reaped = job[j].reaped
<1>1. job[j] \in JobRecord
  BY DEF JobInv
<1>2. /\ Rolledback(j, attempts).st = "queued"
      /\ Rolledback(j, attempts).captured = job[j].captured
      /\ Rolledback(j, attempts).reaped = job[j].reaped
  BY <1>1 DEF Rolledback, JobRecord
<1>3. CASE job[j].prv
  BY <1>1, <1>2, <1>3 DEF Unwound, JobRecord
<1>4. CASE ~job[j].prv
  BY <1>2, <1>4 DEF Unwound
<1>5. QED
  BY <1>2, <1>3, <1>4

\* Resolving a placement with a given record.
LEMMA ResolveFacts ==
  ASSUME NEW j \in Jobs, NEW rec, JobInv, ItemInv, Resolve(j, rec)
  PROVE  IF job[j].st = "placing" THEN job'[j] = rec /\ intent'[j] = NoRow
         ELSE job'[j] = job[j] /\ intent'[j] = intent[j]
BY CloseFacts DEF Resolve, JobInv

\* Resolving a placement with either failure record.
LEMMA ResolvedFacts ==
  ASSUME NEW j \in Jobs, NEW attempts, NEW preempt \in BOOLEAN, JobInv, ItemInv,
         \/ Resolve(j, Unwound(j, attempts, preempt))
         \/ Resolve(j, Rolledback(j, attempts))
  PROVE  /\ job'[j].captured = job[j].captured /\ job'[j].reaped = job[j].reaped
         /\ IF job[j].st = "placing"
            THEN job'[j].st \in {"queued", "running"} /\ intent'[j] = NoRow
            ELSE job'[j] = job[j] /\ intent'[j] = intent[j]
<1>1. PICK rec \in {Unwound(j, attempts, preempt), Rolledback(j, attempts)} : Resolve(j, rec)
  OBVIOUS
<1>2. /\ rec.st \in {"queued", "running"}
      /\ rec.captured = job[j].captured /\ rec.reaped = job[j].reaped
  BY <1>1, UnwoundFacts
<1>3. QED
  BY <1>1, <1>2, ResolveFacts

\* A step of a disciplined job leaves it disciplined: one step per action.
LEMMA Mine ==
  ASSUME NEW j \in Jobs, JobInv, ItemInv, RestInv, Disciplined(j), StepOf(j)
  PROVE  Disciplined(j)'
<1> USE NoRowFacts, NoTaskFacts
    DEF Disciplined, TaskMatches, TaskRowed, CancelAlone, CancelPending, PlaceOwns,
        PlacingRowed, StopLeft, SettleLeft, ReleaseProved, EvidenceFresh, ParkedAlone,
        IsTerminal, Open, Live, PlacePC, ReleaseKind, SettleKind, Terminal, Pending,
        Occupying, store, process
<1>0. /\ job[j] \in JobRecord /\ job[j].prov \in Providers \union {NoProvider}
      /\ intent[j] \in Row /\ task[j].item \in Row
      /\ canc \in [Jobs -> CancelPC]
      /\ job \in [Jobs -> JobRecord]
  BY DEF JobInv, JobRecord, ItemInv, Task, RestInv
<1>1. CASE Handler(j)
  <2>1. ASSUME Submit(j) PROVE Disciplined(j)'
    BY <1>0, <2>1
       DEF Submit, Unplaced
  <2>2. ASSUME CancelCheck(j) PROVE Disciplined(j)'
    BY <2>2 DEF CancelCheck
  <2>3. ASSUME CancelPut(j) PROVE Disciplined(j)'
    BY <1>0, <2>3, PutFacts, ItemFacts
       DEF CancelPut
  <2>4. ASSUME CancelSignal(j) PROVE Disciplined(j)'
    BY <2>4 DEF CancelSignal
  <2>5. ASSUME Retry(j) PROVE Disciplined(j)'
    BY <1>0, <2>5
       DEF Retry, Unplaced
  <2>6. QED
    BY <1>1, <2>1, <2>2, <2>3, <2>4, <2>5 DEF Handler
<1>2. CASE Adoption(j)
  <2>1. ASSUME BootAdopt(j) PROVE Disciplined(j)'
    BY <1>0, <2>1, PutFacts, TaskFacts
       DEF BootAdopt, Adoptable, Adopt, Row
  <2>2. ASSUME Quarantine(j) PROVE Disciplined(j)'
    BY <1>0, <2>2
       DEF Quarantine, Adoptable, Row, ItemInv
  <2>3. ASSUME BootSkip(j) PROVE Disciplined(j)'
    BY <2>3 DEF BootSkip
  <2>4. ASSUME PassAdopt(j) PROVE Disciplined(j)'
    BY <1>0, <2>4, TaskFacts
       DEF PassAdopt, Adoptable, Adopt, Row, PC, JState, Task, ItemInv
  <2>5. QED
    BY <1>2, <2>1, <2>2, <2>3, <2>4 DEF Adoption
<1>3. CASE Decision(j)
  <2>1. ASSUME PassCancel(j) PROVE Disciplined(j)'
    BY <1>0, <2>1
       DEF PassCancel, Undecided
  <2>2. ASSUME PassCapture(j) PROVE Disciplined(j)'
    <3>1. PICK tries \in 0..CaptureTries :
            LET item == CaptureItem(job[j].prov, tries)
            IN  Put(j, item) /\ Spawn(j, "capturing", item)
      BY <2>2, LimitsAssumption DEF PassCapture
    <3>2. LET item == CaptureItem(job[j].prov, tries) IN item \in Row /\ item.kind = "capture"
      BY <1>0, CaptureItemFacts
    <3>3. QED
      BY <1>0, <2>2, <3>1, <3>2, PutFacts, TaskFacts
         DEF PassCapture, Undecided, NeedsCapture, Unsettled, IsDead
  <2>3. ASSUME PassRelease(j) PROVE Disciplined(j)'
    BY <1>0, <2>3, PutFacts, TaskFacts, ItemFacts
       DEF PassRelease, Undecided, NeedsRelease, Unsettled, IsDead
  <2>4. ASSUME PassRequeue(j) PROVE Disciplined(j)'
    BY <1>0, <2>4
       DEF PassRequeue, Undecided, IsDead, Unplaced
  <2>5. ASSUME PassFail(j) PROVE Disciplined(j)'
    BY <1>0, <2>5
       DEF PassFail, Undecided, JobRecord
  <2>6. ASSUME PassHold(j) PROVE Disciplined(j)'
    BY <1>0, <2>6
       DEF PassHold, Undecided, JobRecord
  <2>7. ASSUME PassUnhold(j) PROVE Disciplined(j)'
    BY <1>0, <2>7
       DEF PassUnhold, Undecided, JobRecord
  <2>8. ASSUME NEW p \in Providers, PassReserve(j, p) PROVE Disciplined(j)'
    BY <1>0, <2>8, PutFacts, TaskFacts, PlaceItemFacts
       DEF PassReserve, Undecided, JobRecord
  <2>9. QED
    BY <1>3, <2>1, <2>2, <2>3, <2>4, <2>5, <2>6, <2>7, <2>8 DEF Decision
<1>4. CASE PlaceStep(j)
  <2>1. ASSUME PutBoot(j) PROVE Disciplined(j)'
    BY <1>0, <2>1, PutFacts, TaskFacts, StagedFacts
       DEF PutBoot
  <2>2. ASSUME NEW p \in Providers, PlaceStart(j, p) PROVE Disciplined(j)'
    BY <1>0, <2>2, PutFacts, TaskFacts, StagedFacts
       DEF PlaceStart, AtPlace
  <2>3. ASSUME NEW p \in Providers, PlaceResume(j, p) PROVE Disciplined(j)'
    BY <1>0, <2>3, TaskFacts
       DEF PlaceResume, AtPlace
  <2>4. ASSUME NEW p \in Providers, PlaceNoHandle(j, p) PROVE Disciplined(j)'
    BY <1>0, <2>4, TaskFacts, ResolvedFacts
       DEF PlaceNoHandle, AtPlace
  <2>5. ASSUME NEW p \in Providers, RentDone(j, p) PROVE Disciplined(j)'
    BY <1>0, <2>5, TaskFacts
       DEF RentDone, AtPlace, JobRecord
  <2>6. ASSUME NEW p \in Providers, RentContended(j, p) PROVE Disciplined(j)'
    BY <1>0, <2>6, TaskFacts, ResolvedFacts
       DEF RentContended, AtPlace
  <2>7. ASSUME NEW p \in Providers, RentFailed(j, p) PROVE Disciplined(j)'
    BY <1>0, <2>7, TaskFacts, ResolvedFacts
       DEF RentFailed, AtPlace
  <2>8. ASSUME NEW p \in Providers, PlaceUnreachable(j, p) PROVE Disciplined(j)'
    BY <1>0, <2>8, TaskFacts, FreezeFacts
       DEF PlaceUnreachable, AtPlace
  <2>9. ASSUME NEW p \in Providers, ReadyDone(j, p) PROVE Disciplined(j)'
    BY <1>0, <2>9, PutFacts, TaskFacts, StagedFacts
       DEF ReadyDone, AtPlace
  <2>10. ASSUME NEW p \in Providers, BootFailed(j, p) PROVE Disciplined(j)'
    BY <1>0, <2>10, TaskFacts, ResolvedFacts
       DEF BootFailed, AtPlace
  <2>11. ASSUME NEW p \in Providers, LaunchDone(j, p) PROVE Disciplined(j)'
    BY <1>0, <2>11, TaskFacts, CloseFacts
       DEF LaunchDone, AtPlace, JobRecord
  <2>12. QED
    BY <1>4, <2>1, <2>2, <2>3, <2>4, <2>5, <2>6, <2>7, <2>8, <2>9, <2>10, <2>11
       DEF PlaceStep
<1>5. CASE CancelStep(j)
  <2>1. ASSUME PreemptOther(j) PROVE Disciplined(j)'
    BY <1>0, <2>1, TaskFacts
       DEF PreemptOther, Preempt
  <2>2. ASSUME CancelMoot(j) PROVE Disciplined(j)'
    BY <1>0, <2>2, CloseFacts
       DEF CancelMoot, CancelPC
  <2>3. ASSUME CancelBegin(j) PROVE Disciplined(j)'
    BY <1>0, <2>3, PutFacts, ItemFacts
       DEF CancelBegin, CancelStage, CancelPC
  <2>4. ASSUME CancelUnwind(j) PROVE Disciplined(j)'
    BY <1>0, <2>4, ResolvedFacts
       DEF CancelUnwind, CancelPC
  <2>5. ASSUME CancelStop(j) PROVE Disciplined(j)'
    BY <1>0, <2>5
       DEF CancelStop, CancelPC
  <2>6. ASSUME CancelUnreachable(j) PROVE Disciplined(j)'
    BY <1>0, <2>6, FreezeFacts
       DEF CancelUnreachable, CancelPC
  <2>7. ASSUME CancelRefused(j) PROVE Disciplined(j)'
    BY <1>0, <2>7, CloseFacts
       DEF CancelRefused, CancelPC
  <2>8. ASSUME CancelApply(j) PROVE Disciplined(j)'
    BY <1>0, <2>8, CloseFacts
       DEF CancelApply, CancelPC, JobRecord
  <2>9. ASSUME NEW p \in Providers, PreemptPlace(j, p) PROVE Disciplined(j)'
    BY <1>0, <2>9, TaskFacts, ResolvedFacts
       DEF PreemptPlace, AtPlace, Preempt
  <2>10. QED
    BY <1>5, <2>1, <2>2, <2>3, <2>4, <2>5, <2>6, <2>7, <2>8, <2>9 DEF CancelStep
<1>6. CASE SettleStep(j)
  <2>1. ASSUME SettleUnreachable(j) PROVE Disciplined(j)'
    BY <1>0, <2>1, TaskFacts, FreezeFacts
       DEF SettleUnreachable
  <2>2. ASSUME NEW p \in Providers, CaptureDone(j, p) PROVE Disciplined(j)'
    BY <1>0, <2>2, TaskFacts, CloseFacts
       DEF CaptureDone, AtPlace, FinishCapture, Capturable, JobRecord
  <2>3. ASSUME NEW p \in Providers, CaptureFailed(j, p) PROVE Disciplined(j)'
    <3> DEFINE item == task[j].item
               row == [item EXCEPT !.left = @ - 1, !.frozen = TRUE]
    <3>1. item.kind = "capture"
      BY <2>3 DEF CaptureFailed, AtPlace
    <3>2. CASE item.left > 1
      <4>1. row \in Row /\ row.kind = "capture"
        <5>1. item \in Row /\ item.left - 1 \in 0..CaptureTries
          BY <1>0, <3>2, LimitsAssumption DEF Row
        <5>2. QED
          BY <3>1, <5>1 DEF Row
      <4>2. Put(j, row) /\ UNCHANGED <<job, canc, cancels>> /\ Done(j)
        BY <2>3, <3>2 DEF CaptureFailed
      <4>3. task[j].pc = "capturing"
        BY <2>3 DEF CaptureFailed, AtPlace
      <4> HIDE DEF row, item
      <4>4. QED
        BY <1>0, <3>1, <4>1, <4>2, <4>3, TaskFacts, PutFacts DEF item
    <3>3. CASE ~(item.left > 1)
      BY <1>0, <2>3, <3>3, TaskFacts, CloseFacts
         DEF CaptureFailed, AtPlace, FinishCapture, Capturable, JobRecord
    <3>4. QED
      BY <3>2, <3>3
  <2>4. ASSUME NEW p \in Providers, ReleaseDone(j, p) PROVE Disciplined(j)'
    BY <1>0, <2>4, TaskFacts, CloseFacts
       DEF ReleaseDone, AtPlace, JobRecord
  <2>5. ASSUME NEW p \in Providers, ReleaseFailed(j, p) PROVE Disciplined(j)'
    <3>1. LET row == [task[j].item EXCEPT !.frozen = TRUE]
          IN  row \in Row /\ row.kind = task[j].item.kind /\ row.prov = task[j].item.prov
      BY <1>0 DEF Row
    <3>2. QED
      BY <1>0, <2>5, <3>1, TaskFacts, PutFacts DEF ReleaseFailed, AtPlace
  <2>6. QED
    BY <1>6, <2>1, <2>2, <2>3, <2>4, <2>5 DEF SettleStep
<1>7. CASE Observation(j)
  <2>1. ASSUME StreamStart(j) PROVE Disciplined(j)'
    BY <2>1 DEF StreamStart
  <2>2. ASSUME Finish(j) PROVE Disciplined(j)'
    BY <1>0, <2>2
       DEF Finish, JobRecord
  <2>3. ASSUME MarkDead(j) PROVE Disciplined(j)'
    BY <1>0, <2>3
       DEF MarkDead, JobRecord
  <2>4. ASSUME Forget(j) PROVE Disciplined(j)'
    BY <2>4 DEF Forget
  <2>5. QED
    BY <1>7, <2>1, <2>2, <2>3, <2>4 DEF Observation
<1>8. CASE Timer(j)
  <2>1. ASSUME RetryDue(j) PROVE Disciplined(j)'
    BY <1>0, <2>1
       DEF RetryDue, Row, ItemInv
  <2>2. ASSUME QuarantineEnds(j) PROVE Disciplined(j)'
    BY <1>0, <2>2
       DEF QuarantineEnds, Row, ItemInv
  <2>3. QED
    BY <1>8, <2>1, <2>2 DEF Timer
<1>9. QED
  BY <1>1, <1>2, <1>3, <1>4, <1>5, <1>6, <1>7, <1>8 DEF StepOf

\* A step of the system leaves every job disciplined.
LEMMA DisciplineStep ==
  JobInv /\ ItemInv /\ RestInv /\ Discipline /\ [Next]_vars => Discipline'
<1> SUFFICES ASSUME JobInv, ItemInv, RestInv, Discipline, [Next]_vars,
                    NEW i \in Jobs
             PROVE  Disciplined(i)'
  BY DEF Discipline
<1>0. Disciplined(i)
  BY DEF Discipline
<1>1. ASSUME NEW j \in Jobs, StepOf(j) PROVE Disciplined(i)'
  <2>1. CASE i = j
    BY <1>0, <1>1, <2>1, Mine
  <2>2. CASE i # j
    BY <1>0, <1>1, <2>2, Local, Frame
  <2>3. QED
    BY <2>1, <2>2
<1>2. ASSUME NEW k \in Keys, Provider(k) PROVE Disciplined(i)'
  <2>1. Same(i)
    BY <1>2
       DEF Provider, WorkerExits, WorkerDies, OrphanLands, OrphanFails, Same, store,
           process
  <2>2. QED
    BY <1>0, <2>1, Frame
<1>3. CASE Crash
  <2>1. task'[i] = NoTask /\ canc'[i] = "idle" /\ job'[i] = job[i] /\ intent'[i] = intent[i]
    BY <1>3 DEF Crash, store
  <2>2. QED
    BY <1>0, <2>1, NoRowFacts, NoTaskFacts
       DEF Disciplined, TaskMatches, TaskRowed, CancelAlone, CancelPending, PlaceOwns,
           PlacingRowed, StopLeft, SettleLeft, ReleaseProved, EvidenceFresh, ParkedAlone,
           IsTerminal, Open, PlacePC, ReleaseKind, SettleKind
<1>4. CASE UNCHANGED vars
  <2>1. Same(i)
    BY <1>4 DEF vars, Same, store, process
  <2>2. QED
    BY <1>0, <2>1, Frame
<1>5. QED
  BY <1>1, <1>2, <1>3, <1>4 DEF Next, StepOf

\* Every job is disciplined.
LEMMA Disciplines == Spec => []Discipline
<1>1. Init => Discipline
  <2>1. Absent.st = "none" /\ Absent.captured = FALSE
    BY DEF Absent, Unplaced
  <2>2. QED
    BY <2>1, NoRowFacts, NoTaskFacts
       DEF Init, Discipline, Disciplined, TaskMatches, TaskRowed, CancelAlone,
           CancelPending, PlaceOwns, PlacingRowed, StopLeft, SettleLeft, ReleaseProved,
           EvidenceFresh, ParkedAlone, Open, PlacePC, ReleaseKind, SettleKind
<1>2. QED
  BY <1>1, DisciplineStep, Typed, PTL DEF Spec

\* A placing job has the durable item that resolves it, and a live place task
\* works for the current placement of its job.
THEOREM PlacementsOwned == Spec => [](PlacingOwned /\ PlaceTaskOwns)
<1>1. Discipline => PlacingOwned /\ PlaceTaskOwns
  BY DEF Discipline, Disciplined, PlacingRowed, PlaceOwns, PlacingOwned, PlaceTaskOwns
<1>2. QED
  BY <1>1, Disciplines, PTL

\* Capture evidence is of the current attempt.
THEOREM EvidenceCurrent == Spec => []CaptureFresh
<1>1. Discipline => CaptureFresh
  BY DEF Discipline, Disciplined, EvidenceFresh, CaptureFresh
<1>2. QED
  BY <1>1, Disciplines, PTL

\* Nothing works on a quarantined item.
THEOREM QuarantineCorrect == Spec => []QuarantineHonoured
<1>1. Discipline => QuarantineHonoured
  BY DEF Discipline, Disciplined, ParkedAlone, QuarantineHonoured
<1>2. QED
  BY <1>1, Disciplines, PTL

\* Only the end of a release takes a resource out of the registry.
LEMMA OnlyReleases ==
  ASSUME NEW j \in Jobs, StepOf(j), ~ \E q \in Providers : ReleaseDone(j, q)
  PROVE  unreleased \subseteq unreleased'
<1> USE DEF store
<1>1. CASE Handler(j)
  BY <1>1 DEF Handler, Submit, CancelCheck, CancelPut, CancelSignal, Retry
<1>2. CASE Adoption(j)
  BY <1>2 DEF Adoption, BootAdopt, Quarantine, BootSkip, PassAdopt
<1>3. CASE Decision(j)
  BY <1>3
     DEF Decision, PassCancel, PassCapture, PassRelease, PassRequeue, PassFail,
         PassHold, PassUnhold, PassReserve
<1>4. CASE PlaceStep(j)
  BY <1>4
     DEF PlaceStep, PutBoot, PlaceStart, PlaceResume, PlaceNoHandle, RentDone,
         RentContended, RentFailed, PlaceUnreachable, ReadyDone, BootFailed, LaunchDone
<1>5. CASE CancelStep(j)
  BY <1>5
     DEF CancelStep, PreemptOther, CancelMoot, CancelBegin, CancelUnwind, CancelStop,
         CancelUnreachable, CancelRefused, CancelApply, PreemptPlace
<1>6. CASE SettleStep(j)
  BY <1>6 DEF SettleStep, SettleUnreachable, CaptureDone, CaptureFailed, ReleaseFailed
<1>7. CASE Observation(j)
  BY <1>7 DEF Observation, StreamStart, Finish, MarkDead, Forget
<1>8. CASE Timer(j)
  BY <1>8 DEF Timer, RetryDue, QuarantineEnds
<1>9. QED
  BY <1>1, <1>2, <1>3, <1>4, <1>5, <1>6, <1>7, <1>8 DEF StepOf

\* All of it together: what a job, its row and its task may be at once.
THEOREM TasksCorrect == Spec => []TasksInOrder
BY PlacementsOwned, EvidenceCurrent, QuarantineCorrect, PTL DEF TasksInOrder

\* Nothing leaves the registry before its artifacts were captured.
THEOREM CaptureFirst == Spec => CaptureBeforeRelease
<1> DEFINE Captured ==
      \A p \in Providers, j \in Jobs :
         <<p, j>> \in unreleased /\ <<p, j>> \notin unreleased' => job[j].captured
<1>1. Discipline /\ [Next]_vars => [Captured]_vars
  <2> SUFFICES ASSUME Discipline, Next,
                      NEW p \in Providers, NEW j \in Jobs,
                      <<p, j>> \in unreleased, <<p, j>> \notin unreleased'
               PROVE  job[j].captured
    OBVIOUS
  <2>1. PICK i \in Jobs, q \in Providers : ReleaseDone(i, q)
    <3>1. ASSUME NEW i \in Jobs, StepOf(i), ~ \E q \in Providers : ReleaseDone(i, q)
          PROVE  unreleased \subseteq unreleased'
      BY <3>1, OnlyReleases
    <3>2. ASSUME NEW k \in Keys, Provider(k) PROVE UNCHANGED unreleased
      BY <3>2 DEF Provider, WorkerExits, WorkerDies, OrphanLands, OrphanFails, store
    <3>3. CASE Crash
      BY <3>3 DEF Crash, store
    <3>4. QED
      BY <3>1, <3>2, <3>3 DEF Next, StepOf
  <2>2. i = j /\ task[j].item.kind \in ReleaseKind
    BY <2>1 DEF Discipline, Disciplined, TaskMatches, ReleaseDone, AtPlace
  <2>3. IsTerminal(j) \/ job[j].st = "running"
    BY <2>1, <2>2 DEF ReleaseDone
  <2>4. QED
    BY <2>2, <2>3
       DEF Discipline, Disciplined, ReleaseProved, IsTerminal, Terminal, Pending
<1>2. QED
  BY <1>1, Disciplines, PTL DEF Spec, CaptureBeforeRelease

\* A job that occupies a provider after a step did so before it.
Stays(j) ==
    job'[j].st \in Occupying => job[j].st \in Occupying /\ job'[j].prov = job[j].prov

\* Resolving a placement never moves it.
LEMMA UnwoundStays ==
  ASSUME NEW j \in Jobs, NEW attempts, NEW preempt \in BOOLEAN, JobInv,
         \/ Resolve(j, Unwound(j, attempts, preempt))
         \/ Resolve(j, Rolledback(j, attempts))
  PROVE  Stays(j)
<1>1. job[j] \in JobRecord
  BY DEF JobInv
<1>2. CASE job[j].st # "placing"
  BY <1>2 DEF Resolve, Stays
<1>3. CASE job[j].st = "placing"
  <2>1. Rolledback(j, attempts).st \notin Occupying
    BY <1>1 DEF Rolledback, JobRecord, Occupying
  <2>2. Unwound(j, attempts, preempt).st \in Occupying
        => Unwound(j, attempts, preempt).prov = job[j].prov
    <3>1. CASE job[j].prv
      BY <1>1, <3>1 DEF Unwound, JobRecord
    <3>2. CASE ~job[j].prv
      BY <2>1, <3>2 DEF Unwound
    <3>3. QED
      BY <3>1, <3>2
  <2>3. job'[j] \in {Unwound(j, attempts, preempt), Rolledback(j, attempts)}
    BY <1>3 DEF Resolve, JobInv
  <2>4. QED
    BY <1>3, <2>1, <2>2, <2>3 DEF Stays, Occupying
<1>4. QED
  BY <1>2, <1>3

\* Only a reserve makes a job occupy a provider.
LEMMA StepStays ==
  ASSUME NEW j \in Jobs, JobInv, StepOf(j), ~ \E p \in Providers : PassReserve(j, p)
  PROVE  Stays(j)
<1> USE DEF store, process
<1>0. job \in [Jobs -> JobRecord] /\ job[j] \in JobRecord
  BY DEF JobInv
<1>1. CASE Handler(j)
  <2>1. ASSUME Submit(j) PROVE Stays(j)
    BY <1>0, <2>1 DEF Submit, Unplaced, Stays, JobRecord, Occupying, Terminal
  <2>2. ASSUME Retry(j) PROVE Stays(j)
    BY <1>0, <2>2 DEF Retry, Unplaced, Stays, JobRecord, Occupying, Terminal
  <2>3. QED
    BY <1>1, <2>1, <2>2
       DEF Handler, CancelCheck, CancelPut, CancelSignal, Stays
<1>2. CASE Adoption(j)
  <2>1. QED
    BY <1>2
       DEF Adoption, BootAdopt, Quarantine, BootSkip, PassAdopt, Stays
<1>3. CASE Decision(j)
  <2>1. ASSUME PassRequeue(j) PROVE Stays(j)
    BY <1>0, <2>1 DEF PassRequeue, Unplaced, Stays, JobRecord, Occupying, Terminal
  <2>2. ASSUME PassFail(j) PROVE Stays(j)
    BY <1>0, <2>2 DEF PassFail, Pending, Stays, JobRecord, Occupying, Terminal
  <2>3. ASSUME PassHold(j) PROVE Stays(j)
    BY <1>0, <2>3 DEF PassHold, Stays, JobRecord, Occupying, Terminal
  <2>4. ASSUME PassUnhold(j) PROVE Stays(j)
    BY <1>0, <2>4 DEF PassUnhold, Stays, JobRecord, Occupying, Terminal
  <2>5. QED
    BY <1>3, <2>1, <2>2, <2>3, <2>4
       DEF Decision, PassCancel, PassCapture, PassRelease, Stays
<1>4. CASE PlaceStep(j)
  <2>1. ASSUME NEW p \in Providers, PlaceNoHandle(j, p) PROVE Stays(j)
    BY <1>0, <2>1, UnwoundStays DEF PlaceNoHandle
  <2>2. ASSUME NEW p \in Providers, RentDone(j, p) PROVE Stays(j)
    BY <1>0, <2>2 DEF RentDone, Stays, JobRecord, Occupying, Terminal
  <2>3. ASSUME NEW p \in Providers, RentContended(j, p) PROVE Stays(j)
    BY <1>0, <2>3, UnwoundStays DEF RentContended
  <2>4. ASSUME NEW p \in Providers, RentFailed(j, p) PROVE Stays(j)
    BY <1>0, <2>4, UnwoundStays DEF RentFailed
  <2>5. ASSUME NEW p \in Providers, BootFailed(j, p) PROVE Stays(j)
    BY <1>0, <2>5, UnwoundStays DEF BootFailed
  <2>6. ASSUME NEW p \in Providers, LaunchDone(j, p) PROVE Stays(j)
    BY <1>0, <2>6 DEF LaunchDone, Stays, JobRecord, Occupying, Terminal
  <2>7. QED
    BY <1>4, <2>1, <2>2, <2>3, <2>4, <2>5, <2>6
       DEF PlaceStep, PutBoot, PlaceStart, PlaceResume, PlaceUnreachable, ReadyDone,
           Stays
<1>5. CASE CancelStep(j)
  <2>1. ASSUME CancelUnwind(j) PROVE Stays(j)
    BY <1>0, <2>1, UnwoundStays DEF CancelUnwind
  <2>2. ASSUME CancelApply(j) PROVE Stays(j)
    BY <1>0, <2>2 DEF CancelApply, Stays, JobRecord, Occupying, Terminal
  <2>3. ASSUME NEW p \in Providers, PreemptPlace(j, p) PROVE Stays(j)
    BY <1>0, <2>3, UnwoundStays DEF PreemptPlace
  <2>4. QED
    BY <1>5, <2>1, <2>2, <2>3
       DEF CancelStep, PreemptOther, CancelMoot, CancelBegin, CancelStop,
           CancelUnreachable, CancelRefused, Stays
<1>6. CASE SettleStep(j)
  <2>1. ASSUME NEW p \in Providers, CaptureDone(j, p) PROVE Stays(j)
    BY <1>0, <2>1 DEF CaptureDone, FinishCapture, Stays, JobRecord, Occupying, Terminal
  <2>2. ASSUME NEW p \in Providers, CaptureFailed(j, p) PROVE Stays(j)
    BY <1>0, <2>2
       DEF CaptureFailed, FinishCapture, Stays, JobRecord, Occupying, Terminal
  <2>3. ASSUME NEW p \in Providers, ReleaseDone(j, p) PROVE Stays(j)
    BY <1>0, <2>3 DEF ReleaseDone, Stays, JobRecord, Occupying, Terminal
  <2>4. QED
    BY <1>6, <2>1, <2>2, <2>3
       DEF SettleStep, SettleUnreachable, ReleaseFailed, Stays
<1>7. CASE Observation(j)
  <2>1. ASSUME Finish(j) PROVE Stays(j)
    BY <1>0, <2>1 DEF Finish, Stays, JobRecord, Occupying, Terminal
  <2>2. ASSUME MarkDead(j) PROVE Stays(j)
    BY <1>0, <2>2 DEF MarkDead, Stays, JobRecord, Occupying, Terminal
  <2>3. QED
    BY <1>7, <2>1, <2>2
       DEF Observation, StreamStart, Forget, Stays
<1>8. CASE Timer(j)
  <2>1. QED
    BY <1>8
       DEF Timer, RetryDue, QuarantineEnds, Stays
<1>9. QED
  BY <1>1, <1>2, <1>3, <1>4, <1>5, <1>6, <1>7, <1>8 DEF StepOf

\* Capacity, with the finiteness that makes the count mean something.
CapInv == \A p \in Providers : IsFiniteSet(Active(p)) /\ Cardinality(Active(p)) <= Slots[p]

\* Every provider's placements are finitely many, and within its slot.
LEMMA Capacities == Spec => []CapInv
<1>1. Init => CapInv
  <2>1. Init => \A p \in Providers : Active(p) = {}
    BY DEF Init, Absent, Unplaced, Active, Occupying
  <2>2. QED
    BY <2>1, FS_EmptySet, SlotsAssumption DEF CapInv
<1>2. JobInv /\ ItemInv /\ RestInv /\ CapInv /\ [Next]_vars => CapInv'
  <2> SUFFICES ASSUME JobInv, ItemInv, RestInv, CapInv, [Next]_vars, NEW p \in Providers
               PROVE  IsFiniteSet(Active(p)') /\ Cardinality(Active(p)') <= Slots[p]
    BY DEF CapInv
  <2>1. ASSUME Active(p)' \subseteq Active(p)
        PROVE  IsFiniteSet(Active(p)') /\ Cardinality(Active(p)') <= Slots[p]
    <3>1. IsFiniteSet(Active(p)) /\ Cardinality(Active(p)) <= Slots[p]
      BY DEF CapInv
    <3>2. /\ IsFiniteSet(Active(p)')
          /\ Cardinality(Active(p)') <= Cardinality(Active(p))
      BY <2>1, <3>1, FS_Subset
    <3>3. Cardinality(Active(p)') \in Nat /\ Cardinality(Active(p)) \in Nat /\ Slots[p] \in Nat
      BY <3>1, <3>2, FS_CardinalityType, SlotsAssumption
    <3>4. QED
      BY <3>1, <3>2, <3>3
  <2>2. ASSUME NEW j \in Jobs, StepOf(j), ~ \E q \in Providers : PassReserve(j, q)
        PROVE  Active(p)' \subseteq Active(p)
    BY <2>2, StepStays, Local DEF Active, Stays, Same
  <2>3. ASSUME NEW j \in Jobs, NEW q \in Providers, PassReserve(j, q)
        PROVE  IsFiniteSet(Active(p)') /\ Cardinality(Active(p)') <= Slots[p]
    <3>1. StepOf(j)
      BY <2>3 DEF StepOf, Decision
    <3>2. job'[j].prov = q /\ \A i \in Jobs \ {j} : job'[i] = job[i]
      BY <2>3 DEF PassReserve, JobInv, JobRecord
    <3>3. CASE p # q
      <4>1. Active(p)' \subseteq Active(p)
        BY <3>2, <3>3 DEF Active
      <4>2. QED
        BY <2>1, <4>1
    <3>4. CASE p = q
      <4>1. Active(p)' \subseteq Active(p) \union {j}
        BY <3>2 DEF Active
      <4>2. IsFiniteSet(Active(p)) /\ Cardinality(Active(p)) < Slots[p]
        BY <2>3, <3>4 DEF CapInv, PassReserve, Room
      <4>3. /\ IsFiniteSet(Active(p) \union {j})
            /\ Cardinality(Active(p) \union {j}) <= Cardinality(Active(p)) + 1
        <5>1. Cardinality(Active(p)) \in Nat
          BY <4>2, FS_CardinalityType
        <5>2. /\ IsFiniteSet(Active(p) \union {j})
              /\ Cardinality(Active(p) \union {j})
                   = IF j \in Active(p) THEN Cardinality(Active(p))
                     ELSE Cardinality(Active(p)) + 1
          BY <4>2, FS_AddElement
        <5>3. QED
          BY <5>1, <5>2
      <4>4. /\ IsFiniteSet(Active(p)')
            /\ Cardinality(Active(p)') <= Cardinality(Active(p) \union {j})
        BY <4>1, <4>3, FS_Subset
      <4>5. /\ Cardinality(Active(p)') \in Nat /\ Cardinality(Active(p)) \in Nat
            /\ Cardinality(Active(p) \union {j}) \in Nat /\ Slots[p] \in Nat
        BY <4>2, <4>3, <4>4, FS_CardinalityType, SlotsAssumption
      <4>6. QED
        BY <4>2, <4>3, <4>4, <4>5
    <3>5. QED
      BY <3>3, <3>4
  <2>4. ASSUME UNCHANGED job PROVE Active(p)' \subseteq Active(p)
    BY <2>4 DEF Active
  <2>5. (\E k \in Keys : Provider(k)) \/ Crash \/ UNCHANGED vars => UNCHANGED job
    BY DEF Provider, WorkerExits, WorkerDies, OrphanLands, OrphanFails, Crash, vars,
       store
  <2>6. QED
    BY <2>1, <2>2, <2>3, <2>4, <2>5 DEF Next, StepOf
<1>3. QED
  BY <1>1, <1>2, Typed, PTL DEF Spec

\* A provider never holds more placements than its slot has room for.
THEOREM CapacityCorrect == Spec => []CapacityOK
<1>1. CapInv => CapacityOK
  BY DEF CapInv, CapacityOK
<1>2. QED
  BY <1>1, Capacities, PTL

-----------------------------------------------------------------------------
(***************************************************************************)
(* Stamps.  Boot adoption stamps a row, and the tasks that write rows back *)
(* keep the stamps (ROBUST-2).                                             *)
(***************************************************************************)

\* The inductive half of ROBUST-2: a task whose row is of its own kind carries
\* at least the stamps of the row, so writing the item back loses none.
StampCopied(j) ==
    task[j].item.kind # "none" /\ task[j].item.kind = intent[j].kind
    => task[j].item.spawns >= intent[j].spawns

\* What a step may not do to the stamps of a job.
StampKept(j) ==
    /\ intent[j].kind \in {"place"} \union SettleKind
    /\ intent'[j].kind = intent[j].kind
    /\ j \notin boot
    => intent'[j].spawns >= intent[j].spawns

Stamped(j) == StampCopied(j)' /\ StampKept(j)
AllStamped == \A j \in Jobs : StampCopied(j)

\* A row that is upserted carries its own stamps.
LEMMA PutStamps ==
  ASSUME NEW j \in Jobs, NEW row \in Row, ItemInv, Put(j, row)
  PROVE  intent'[j].kind = row.kind /\ intent'[j].spawns = row.spawns
BY DEF ItemInv, Put, Row

\* A fresh item has none...
LEMMA FreshStamps ==
  ASSUME NEW kind \in {"none", "place", "cancel", "capture", "reap", "release-lost"},
         NEW prov \in Providers \union {NoProvider}
  PROVE  Item(kind, prov).spawns = 0
BY DEF Item

\* ... an item that is staged keeps them...
LEMMA StagedStamps ==
  ASSUME NEW j \in Jobs, ItemInv, NEW stage \in {"rent", "boot", "launch"}
  PROVE  Staged(j, stage).spawns = task[j].item.spawns
<1>1. task[j].item \in Row
  BY DEF ItemInv, Task
<1>2. QED
  BY <1>1 DEF Staged, Row

\* ... and so does a row that is frozen.
LEMMA FrozenStamps ==
  ASSUME NEW j \in Jobs, ItemInv, Freeze(j)
  PROVE  intent'[j].kind = intent[j].kind /\ intent'[j].spawns = intent[j].spawns
<1>1. intent[j] \in Row
  BY DEF ItemInv
<1>2. QED
  BY <1>1 DEF ItemInv, Freeze, Row

\* A step that writes no row and gives the job no other item.
LEMMA StampsLeft ==
  ASSUME NEW j \in Jobs, JobInv, ItemInv, StampCopied(j),
         intent'[j] = intent[j], task'[j].item \in {task[j].item, NoRow}
  PROVE  Stamped(j)
<1>1. intent[j].spawns \in Nat
  BY DEF ItemInv, Row
<1>2. QED
  BY <1>1, NoRowFacts DEF Stamped, StampCopied, StampKept

\* A step that closes the row.
LEMMA StampsClosed ==
  ASSUME NEW j \in Jobs, intent'[j] = NoRow
  PROVE  Stamped(j)
BY NoRowFacts DEF Stamped, StampCopied, StampKept, SettleKind, ReleaseKind

\* A step that ends the task, and writes its item back or leaves the stamps.
LEMMA StampsReturned ==
  ASSUME NEW j \in Jobs, ItemInv, StampCopied(j), task'[j] = NoTask,
         \/ intent'[j].kind = intent[j].kind /\ intent'[j].spawns = intent[j].spawns
         \/ intent'[j].kind = task[j].item.kind /\ intent'[j].spawns = task[j].item.spawns
  PROVE  Stamped(j)
<1>1. intent[j].spawns \in Nat
  BY DEF ItemInv, Row
<1>2. QED
  BY <1>1, NoRowFacts, NoTaskFacts
     DEF Stamped, StampCopied, StampKept, SettleKind, ReleaseKind

\* A step that resolves the placement of the job, or leaves it.
LEMMA StampsResolved ==
  ASSUME NEW j \in Jobs, NEW rec, JobInv, ItemInv, StampCopied(j), Resolve(j, rec),
         task'[j].item \in {task[j].item, NoRow}
  PROVE  Stamped(j)
BY ResolveFacts, StampsLeft, StampsClosed

\* The steps of a job, one by one.
LEMMA StampStep ==
  ASSUME NEW j \in Jobs, JobInv, ItemInv, RestInv, Disciplined(j), StampCopied(j), StepOf(j)
  PROVE  Stamped(j)
<1>0. /\ job[j].prov \in Providers \union {NoProvider}
      /\ intent[j] \in Row /\ task[j].item \in Row
      /\ intent[j].spawns \in Nat /\ task[j].item.spawns \in Nat
  BY DEF JobInv, JobRecord, ItemInv, Task, Row
<1>1. CASE Handler(j)
  <2>1. CASE CancelPut(j)
    <3>1. Item("cancel", job[j].prov) \in Row /\ Item("cancel", job[j].prov).spawns = 0
      BY <1>0, ItemFacts, FreshStamps
    <3>2. intent'[j].kind = "cancel" /\ intent'[j].spawns = 0 /\ task' = task
      BY <1>0, <2>1, <3>1, PutStamps, ItemFacts DEF CancelPut
    <3>3. QED
      BY <1>0, <3>2 DEF Stamped, StampCopied, StampKept, SettleKind, ReleaseKind
  <2>2. CASE ~CancelPut(j)
    <3>1. intent' = intent /\ task' = task
      BY <1>1, <2>2
         DEF Handler, Submit, CancelCheck, CancelSignal, Retry, store, process
    <3>2. QED
      BY <3>1, StampsLeft
  <2>3. QED
    BY <2>1, <2>2
<1>2. CASE Adoption(j)
  <2>1. CASE BootAdopt(j)
    <3> DEFINE row == [intent[j] EXCEPT !.spawns = 1]
    <3>1. row \in Row /\ row.spawns = 1 /\ row.kind = intent[j].kind
      BY <1>0 DEF Row
    <3>2. Put(j, row) /\ Adopt(j, row) /\ j \in boot /\ task[j].pc = "idle"
      BY <2>1 DEF BootAdopt, Adoptable, Live
    <3> HIDE DEF row
    <3>3. intent'[j].kind = row.kind /\ intent'[j].spawns = 1
      BY <3>1, <3>2, PutStamps
    <3>4. task'[j].item \in {row, task[j].item}
      BY <3>2, TaskFacts DEF Adopt
    <3>5. task[j].item.kind = "none"
      BY <3>2 DEF Disciplined, TaskMatches
    <3>6. QED
      BY <3>1, <3>2, <3>3, <3>4, <3>5 DEF Stamped, StampCopied, StampKept
  <2>2. CASE Quarantine(j)
    <3>1. task'[j].item = task[j].item /\ task[j].item.kind = "none" /\ j \in boot
      BY <2>2 DEF Quarantine, Adoptable, Live, Disciplined, TaskMatches
    <3>2. QED
      BY <3>1 DEF Stamped, StampCopied, StampKept
  <2>3. CASE BootSkip(j)
    BY <2>3, StampsLeft DEF BootSkip, store
  <2>4. CASE PassAdopt(j)
    <3>1. intent' = intent /\ task'[j].item \in {intent[j], task[j].item}
      BY <2>4, TaskFacts DEF PassAdopt, Adopt, store
    <3>2. QED
      BY <1>0, <3>1 DEF Stamped, StampCopied, StampKept
  <2>5. QED
    BY <1>2, <2>1, <2>2, <2>3, <2>4 DEF Adoption
<1>3. CASE Decision(j)
  <2>1. CASE PassCapture(j)
    <3>1. PICK tries \in 0..CaptureTries :
            LET item == CaptureItem(job[j].prov, tries)
            IN  Put(j, item) /\ Spawn(j, "capturing", item)
      BY <2>1, LimitsAssumption DEF PassCapture
    <3> DEFINE item == CaptureItem(job[j].prov, tries)
    <3>2. item \in Row
      BY <1>0, CaptureItemFacts
    <3>3. Put(j, item) /\ Spawn(j, "capturing", item) /\ ~Open(j)
      BY <2>1, <3>1 DEF PassCapture, Undecided
    <3> HIDE DEF item
    <3>4. intent'[j].spawns = item.spawns /\ task'[j].item = item /\ item.spawns \in Nat
      BY <3>2, <3>3, PutStamps, TaskFacts DEF Row
    <3>5. QED
      BY <3>3, <3>4 DEF Stamped, StampCopied, StampKept, SettleKind, ReleaseKind, Open
  <2>2. CASE PassRelease(j)
    <3>1. PICK kind \in ReleaseKind :
            Put(j, Item(kind, job[j].prov)) /\ Spawn(j, "releasing", Item(kind, job[j].prov))
      BY <2>2 DEF PassRelease, ReleaseKind
    <3> DEFINE item == Item(kind, job[j].prov)
    <3>2. item \in Row
      BY <1>0, ItemFacts DEF ReleaseKind
    <3>3. Put(j, item) /\ Spawn(j, "releasing", item) /\ ~Open(j)
      BY <2>2, <3>1 DEF PassRelease, Undecided
    <3> HIDE DEF item
    <3>4. intent'[j].spawns = item.spawns /\ task'[j].item = item /\ item.spawns \in Nat
      BY <3>2, <3>3, PutStamps, TaskFacts DEF Row
    <3>5. QED
      BY <3>3, <3>4 DEF Stamped, StampCopied, StampKept, SettleKind, ReleaseKind, Open
  <2>3. ASSUME NEW p \in Providers, PassReserve(j, p) PROVE Stamped(j)
    <3>1. PlaceItem(p) \in Row /\ PlaceItem(p).spawns = 0
      BY PlaceItemTyped DEF PlaceItem, Item
    <3>2. intent'[j].spawns = 0 /\ ~Open(j)
      BY <2>3, <3>1, PutStamps DEF PassReserve, Undecided
    <3>3. task'[j].item \in {task[j].item, PlaceItem(p)}
      BY <2>3, TaskFacts DEF PassReserve
    <3>4. QED
      BY <1>0, <3>1, <3>2, <3>3
         DEF Stamped, StampCopied, StampKept, SettleKind, ReleaseKind, Open
  <2>4. CASE PassCancel(j) \/ PassRequeue(j) \/ PassFail(j) \/ PassHold(j) \/ PassUnhold(j)
    <3>1. intent' = intent /\ task' = task
      BY <2>4
         DEF PassCancel, PassRequeue, PassFail, PassHold, PassUnhold, store, process
    <3>2. QED
      BY <3>1, StampsLeft
  <2>5. QED
    BY <1>3, <2>1, <2>2, <2>3, <2>4 DEF Decision
<1>4. CASE PlaceStep(j)
  <2>1. ASSUME NEW stage \in {"rent", "boot", "launch"}, NEW pc,
               Put(j, Staged(j, stage)), Spawn(j, pc, Staged(j, stage))
        PROVE  Stamped(j)
    <3>1. Staged(j, stage) \in Row /\ Staged(j, stage).kind = task[j].item.kind
      BY StagedFacts
    <3>2. /\ intent'[j].kind = task[j].item.kind /\ intent'[j].spawns = task[j].item.spawns
          /\ task'[j].item = Staged(j, stage)
      BY <2>1, <3>1, PutStamps, StagedStamps, TaskFacts
    <3>3. QED
      BY <1>0, <3>2, StagedStamps
         DEF Stamped, StampCopied, StampKept, SettleKind, ReleaseKind
  <2>2. CASE PutBoot(j)
    BY <2>1, <2>2 DEF PutBoot
  <2>3. ASSUME NEW p \in Providers, PlaceStart(j, p) \/ ReadyDone(j, p) PROVE Stamped(j)
    BY <2>1, <2>3 DEF PlaceStart, ReadyDone
  <2>4. ASSUME NEW p \in Providers, PlaceResume(j, p) \/ RentDone(j, p) PROVE Stamped(j)
    BY <2>4, TaskFacts, StampsLeft DEF PlaceResume, RentDone, store
  <2>5. ASSUME NEW p \in Providers,
               \/ PlaceNoHandle(j, p) \/ RentContended(j, p)
               \/ RentFailed(j, p) \/ BootFailed(j, p)
        PROVE  Stamped(j)
    <3>1. PICK rec : Resolve(j, rec)
      BY <2>5 DEF PlaceNoHandle, RentContended, RentFailed, BootFailed
    <3>2. task'[j] = NoTask
      BY <2>5, TaskFacts DEF PlaceNoHandle, RentContended, RentFailed, BootFailed
    <3>3. QED
      BY <3>1, <3>2, NoTaskFacts, StampsResolved
  <2>6. ASSUME NEW p \in Providers, PlaceUnreachable(j, p) PROVE Stamped(j)
    BY <2>6, TaskFacts, FrozenStamps, StampsReturned DEF PlaceUnreachable
  <2>7. ASSUME NEW p \in Providers, LaunchDone(j, p) PROVE Stamped(j)
    BY <2>7, CloseFacts, StampsClosed DEF LaunchDone
  <2>8. QED
    BY <1>4, <2>2, <2>3, <2>4, <2>5, <2>6, <2>7 DEF PlaceStep
<1>5. CASE CancelStep(j)
  <2>1. CASE CancelMoot(j) \/ CancelRefused(j) \/ CancelApply(j)
    BY <2>1, CloseFacts, StampsClosed DEF CancelMoot, CancelRefused, CancelApply
  <2>2. CASE CancelBegin(j)
    <3>1. Item("cancel", job[j].prov) \in Row /\ Item("cancel", job[j].prov).spawns = 0
      BY <1>0, ItemFacts, FreshStamps
    <3>2. intent'[j].kind = "cancel" /\ intent'[j].spawns = 0 /\ task' = task
      BY <1>0, <2>2, <3>1, PutStamps, ItemFacts DEF CancelBegin
    <3>3. QED
      BY <1>0, <3>2 DEF Stamped, StampCopied, StampKept, SettleKind, ReleaseKind
  <2>3. CASE CancelUnwind(j)
    <3>1. PICK rec : Resolve(j, rec)
      BY <2>3 DEF CancelUnwind
    <3>2. QED
      BY <2>3, <3>1, StampsResolved DEF CancelUnwind
  <2>4. CASE CancelUnreachable(j)
    <3>1. intent'[j].kind = intent[j].kind /\ intent'[j].spawns = intent[j].spawns
      BY <2>4, FrozenStamps DEF CancelUnreachable
    <3>2. QED
      BY <1>0, <2>4, <3>1 DEF CancelUnreachable, Stamped, StampCopied, StampKept
  <2>5. ASSUME NEW p \in Providers, PreemptPlace(j, p) PROVE Stamped(j)
    <3>1. PICK rec : Resolve(j, rec)
      BY <2>5 DEF PreemptPlace
    <3>2. task'[j] = NoTask
      BY <2>5, TaskFacts DEF PreemptPlace, Preempt
    <3>3. QED
      BY <3>1, <3>2, NoTaskFacts, StampsResolved
  <2>6. CASE PreemptOther(j)
    BY <2>6, TaskFacts, NoTaskFacts, StampsLeft DEF PreemptOther, Preempt, store
  <2>7. CASE CancelStop(j)
    BY <2>7, StampsLeft DEF CancelStop, store
  <2>8. QED
    BY <1>5, <2>1, <2>2, <2>3, <2>4, <2>5, <2>6, <2>7 DEF CancelStep
<1>6. CASE SettleStep(j)
  <2>1. CASE SettleUnreachable(j)
    BY <2>1, TaskFacts, FrozenStamps, StampsReturned DEF SettleUnreachable
  <2>2. ASSUME NEW p \in Providers, CaptureDone(j, p) \/ ReleaseDone(j, p) PROVE Stamped(j)
    BY <2>2, CloseFacts, StampsClosed DEF CaptureDone, ReleaseDone, FinishCapture
  <2>3. ASSUME NEW p \in Providers, CaptureFailed(j, p) PROVE Stamped(j)
    <3> DEFINE item == task[j].item
               row == [item EXCEPT !.left = @ - 1, !.frozen = TRUE]
    <3>1. CASE item.left > 1
      <4>1. row \in Row /\ row.kind = item.kind /\ row.spawns = item.spawns
        <5>1. item \in Row /\ item.left - 1 \in 0..CaptureTries
          BY <1>0, <3>1, LimitsAssumption DEF Row
        <5>2. QED
          BY <5>1 DEF Row
      <4>2. Put(j, row) /\ Done(j)
        BY <2>3, <3>1 DEF CaptureFailed
      <4> HIDE DEF row
      <4>3. QED
        BY <4>1, <4>2, TaskFacts, PutStamps, StampsReturned
    <3>2. CASE ~(item.left > 1)
      BY <2>3, <3>2, CloseFacts, StampsClosed DEF CaptureFailed, FinishCapture
    <3>3. QED
      BY <3>1, <3>2
  <2>4. ASSUME NEW p \in Providers, ReleaseFailed(j, p) PROVE Stamped(j)
    <3> DEFINE row == [task[j].item EXCEPT !.frozen = TRUE]
    <3>1. row \in Row /\ row.kind = task[j].item.kind /\ row.spawns = task[j].item.spawns
      BY <1>0 DEF Row
    <3>2. Put(j, row) /\ Done(j)
      BY <2>4 DEF ReleaseFailed
    <3> HIDE DEF row
    <3>3. QED
      BY <3>1, <3>2, TaskFacts, PutStamps, StampsReturned
  <2>5. QED
    BY <1>6, <2>1, <2>2, <2>3, <2>4 DEF SettleStep
<1>7. CASE Observation(j)
  BY <1>7, StampsLeft DEF Observation, StreamStart, Finish, MarkDead, Forget, store, process
<1>8. CASE Timer(j)
  <2>1. intent'[j].kind = intent[j].kind /\ intent'[j].spawns = intent[j].spawns
    BY <1>0, <1>8 DEF Timer, RetryDue, QuarantineEnds, ItemInv, Row
  <2>2. task' = task
    BY <1>8 DEF Timer, RetryDue, QuarantineEnds, process
  <2>3. QED
    BY <1>0, <2>1, <2>2 DEF Stamped, StampCopied, StampKept
<1>9. QED
  BY <1>1, <1>2, <1>3, <1>4, <1>5, <1>6, <1>7, <1>8 DEF StepOf

\* A step of the system keeps the stamps of every job.
LEMMA StampsStep ==
  JobInv /\ ItemInv /\ RestInv /\ Discipline /\ AllStamped /\ [Next]_vars
  => AllStamped' /\ (\A i \in Jobs : StampKept(i))
<1> SUFFICES ASSUME JobInv, ItemInv, RestInv, Discipline, AllStamped, [Next]_vars,
                    NEW i \in Jobs
             PROVE  Stamped(i)
  BY DEF AllStamped, Stamped
<1>0. Disciplined(i) /\ StampCopied(i)
  BY DEF Discipline, AllStamped
<1>1. ASSUME NEW j \in Jobs, StepOf(j) PROVE Stamped(i)
  <2>1. CASE i = j
    BY <1>0, <1>1, <2>1, StampStep
  <2>2. CASE i # j
    BY <1>0, <1>1, <2>2, Local, StampsLeft DEF Same
  <2>3. QED
    BY <2>1, <2>2
<1>2. ASSUME NEW k \in Keys, Provider(k) PROVE Stamped(i)
  BY <1>0, <1>2, StampsLeft
     DEF Provider, WorkerExits, WorkerDies, OrphanLands, OrphanFails, store, process
<1>3. CASE Crash
  BY <1>0, <1>3, NoTaskFacts, StampsLeft DEF Crash, store
<1>4. CASE UNCHANGED vars
  BY <1>0, <1>4, StampsLeft DEF vars, store, process
<1>5. QED
  BY <1>1, <1>2, <1>3, <1>4 DEF Next, StepOf

\* ROBUST-2: an item that was adopted by a restarted process carries the stamp
\* through every stage, failure and freeze, until another restart looks at it.
THEOREM StampsCorrect == Spec => StampsKept
<1>1. Init => AllStamped
  BY NoTaskFacts, NoRowFacts DEF Init, AllStamped, StampCopied
<1>2. Spec => []AllStamped
  BY <1>1, StampsStep, Typed, Disciplines, PTL DEF Spec
<1>3. (\A i \in Jobs : StampKept(i)) =>
        \A j \in Jobs :
          /\ intent[j].kind \in {"place", "capture", "reap", "release-lost"}
          /\ intent'[j].kind = intent[j].kind
          /\ j \notin boot
          => intent'[j].spawns >= intent[j].spawns
  BY DEF StampKept, SettleKind, ReleaseKind
<1>4. QED
  BY <1>2, <1>3, StampsStep, Typed, Disciplines, PTL DEF Spec, StampsKept

-----------------------------------------------------------------------------
(***************************************************************************)
(* Ownership.  A running placement is registered until its captured output *)
(* and its confirmed end (I5), a resource that exists is registered unless *)
(* the answer to the call that made it was lost, a worker runs only for    *)
(* the placement its job records (SCHED-8), and a job comes back to the    *)
(* queue with nothing behind (I4).  Tracked ties the stages of a placement *)
(* to the registry, Placed and KeyHeld tie the providers' resources to     *)
(* both.                                                                   *)
(***************************************************************************)

\* Stages after the provision.
Later == {"boot", "launch"}

\* A provisioned placement is in the registry, and the stages that follow the
\* provision find it provisioned.
MintTracked(j) == job[j].st = "placing" /\ job[j].prv => <<job[j].prov, j>> \in unreleased
StageKnown(j) ==
    /\ intent[j].kind = "place" => intent[j].stage # "none"
    /\ task[j].item.kind = "place" => task[j].item.stage # "none"
StagePrv(j) ==
    /\ intent[j].kind = "place" /\ intent[j].stage \in Later => job[j].prv
    /\ task[j].item.kind = "place" =>
         (task[j].item.stage \in Later \/ task[j].pc \in {"minted", "readying", "launching"}
          => job[j].prv)
RunTracked(j) ==
    job[j].st = "running" =>
        <<job[j].prov, j>> \in unreleased \/ (job[j].lost /\ job[j].captured)

\* A running job is released only as a dead and captured one.
LostProved(j) ==
    /\ job[j].st = "running"
    /\ intent[j].kind = "release-lost" \/ task[j].item.kind = "release-lost"
    => job[j].lost /\ job[j].captured

Tracked(j) ==
    MintTracked(j) /\ StageKnown(j) /\ StagePrv(j) /\ RunTracked(j) /\ LostProved(j)

\* Of every job.
AllTracked == \A j \in Jobs : Tracked(j)

\* A step of another job leaves it tracked.
LEMMA TrackFrame == ASSUME NEW j \in Jobs, RestInv, Tracked(j), Same(j)
                    PROVE Tracked(j)'
<1>1. job[j].prov \in Providers =>
        (<<job[j].prov, j>> \in unreleased' <=> <<job[j].prov, j>> \in unreleased)
  BY DEF Same
<1>2. QED
  BY <1>1
     DEF Tracked, Same, MintTracked, StageKnown, StagePrv, RunTracked, LostProved,
         RestInv, Keys

\* A placement that resolves to running was provisioned.
LEMMA ResolvedTracked ==
  ASSUME NEW j \in Jobs, NEW attempts, NEW preempt \in BOOLEAN, JobInv, ItemInv,
         \/ Resolve(j, Unwound(j, attempts, preempt))
         \/ Resolve(j, Rolledback(j, attempts))
  PROVE  job[j].st = "placing" =>
           \/ job'[j].st = "queued"
           \/ job'[j].st = "running" /\ job[j].prv /\ job'[j].prov = job[j].prov
<1>1. job[j] \in JobRecord
  BY DEF JobInv
<1>2. Rolledback(j, attempts).st = "queued"
  BY UnwoundFacts
<1>3. \/ Unwound(j, attempts, preempt).st = "queued"
      \/ /\ Unwound(j, attempts, preempt).st = "running" /\ job[j].prv
         /\ Unwound(j, attempts, preempt).prov = job[j].prov
  <2>1. CASE job[j].prv
    BY <1>1, <2>1 DEF Unwound, JobRecord
  <2>2. CASE ~job[j].prv
    BY <1>2, <2>2 DEF Unwound
  <2>3. QED
    BY <2>1, <2>2
<1>4. job[j].st = "placing" =>
        job'[j] \in {Unwound(j, attempts, preempt), Rolledback(j, attempts)}
  BY DEF Resolve, JobInv
<1>5. QED
  BY <1>2, <1>3, <1>4

\* A step of a disciplined and tracked job leaves it tracked.
LEMMA TrackMine ==
  ASSUME NEW j \in Jobs, JobInv, ItemInv, RestInv, Disciplined(j), Tracked(j), StepOf(j)
  PROVE  Tracked(j)'
<1> USE NoRowFacts, NoTaskFacts
    DEF Tracked, MintTracked, StageKnown, StagePrv, RunTracked, LostProved, Later,
        Disciplined, TaskMatches, TaskRowed, PlaceOwns, SettleLeft,
        IsTerminal, Open, Live, PlacePC, ReleaseKind, SettleKind, Terminal, Pending,
        Occupying, store, process
<1>0. /\ job[j] \in JobRecord /\ job[j].prov \in Providers \union {NoProvider}
      /\ intent[j] \in Row /\ task[j].item \in Row
      /\ job \in [Jobs -> JobRecord]
  BY DEF JobInv, JobRecord, ItemInv, Task, RestInv
<1>1. CASE Handler(j)
  <2>1. ASSUME Submit(j) PROVE Tracked(j)'
    BY <1>0, <2>1
       DEF Submit, Unplaced
  <2>2. ASSUME CancelCheck(j) PROVE Tracked(j)'
    BY <2>2 DEF CancelCheck
  <2>3. ASSUME CancelPut(j) PROVE Tracked(j)'
    BY <1>0, <2>3, PutFacts, ItemFacts
       DEF CancelPut
  <2>4. ASSUME CancelSignal(j) PROVE Tracked(j)'
    BY <2>4 DEF CancelSignal
  <2>5. ASSUME Retry(j) PROVE Tracked(j)'
    BY <1>0, <2>5
       DEF Retry, Unplaced
  <2>6. QED
    BY <1>1, <2>1, <2>2, <2>3, <2>4, <2>5 DEF Handler
<1>2. CASE Adoption(j)
  <2>1. ASSUME BootAdopt(j) PROVE Tracked(j)'
    BY <1>0, <2>1, PutFacts, TaskFacts
       DEF BootAdopt, Adoptable, Adopt, Row
  <2>2. ASSUME Quarantine(j) PROVE Tracked(j)'
    BY <1>0, <2>2
       DEF Quarantine, Adoptable, Row, ItemInv
  <2>3. ASSUME BootSkip(j) PROVE Tracked(j)'
    BY <2>3 DEF BootSkip
  <2>4. ASSUME PassAdopt(j) PROVE Tracked(j)'
    BY <1>0, <2>4, TaskFacts
       DEF PassAdopt, Adoptable, Adopt, Row, PC, JState, Task, ItemInv
  <2>5. QED
    BY <1>2, <2>1, <2>2, <2>3, <2>4 DEF Adoption
<1>3. CASE Decision(j)
  <2>1. ASSUME PassCancel(j) PROVE Tracked(j)'
    BY <1>0, <2>1
       DEF PassCancel
  <2>2. ASSUME PassCapture(j) PROVE Tracked(j)'
    <3>1. PICK tries \in 0..CaptureTries :
            LET item == CaptureItem(job[j].prov, tries)
            IN  Put(j, item) /\ Spawn(j, "capturing", item)
      BY <2>2, LimitsAssumption DEF PassCapture
    <3>2. LET item == CaptureItem(job[j].prov, tries) IN item \in Row /\ item.kind = "capture"
      BY <1>0, CaptureItemFacts
    <3>3. QED
      BY <1>0, <2>2, <3>1, <3>2, PutFacts, TaskFacts DEF PassCapture
  <2>3. ASSUME PassRelease(j) PROVE Tracked(j)'
    BY <1>0, <2>3, PutFacts, TaskFacts, ItemFacts
       DEF PassRelease, Undecided, NeedsRelease, Unsettled, IsDead
  <2>4. ASSUME PassRequeue(j) PROVE Tracked(j)'
    BY <1>0, <2>4
       DEF PassRequeue, Undecided, IsDead, Unplaced
  <2>5. ASSUME PassFail(j) PROVE Tracked(j)'
    BY <1>0, <2>5
       DEF PassFail, Undecided, JobRecord
  <2>6. ASSUME PassHold(j) PROVE Tracked(j)'
    BY <1>0, <2>6
       DEF PassHold, Undecided, JobRecord
  <2>7. ASSUME PassUnhold(j) PROVE Tracked(j)'
    BY <1>0, <2>7
       DEF PassUnhold, Undecided, JobRecord
  <2>8. ASSUME NEW p \in Providers, PassReserve(j, p) PROVE Tracked(j)'
    BY <1>0, <2>8, PutFacts, TaskFacts, PlaceItemFacts
       DEF PassReserve, Undecided, JobRecord
  <2>9. QED
    BY <1>3, <2>1, <2>2, <2>3, <2>4, <2>5, <2>6, <2>7, <2>8 DEF Decision
<1>4. CASE PlaceStep(j)
  <2>1. ASSUME PutBoot(j) PROVE Tracked(j)'
    BY <1>0, <2>1, PutFacts, TaskFacts, StagedFacts
       DEF PutBoot
  <2>2. ASSUME NEW p \in Providers, PlaceStart(j, p) PROVE Tracked(j)'
    BY <1>0, <2>2, PutFacts, TaskFacts, StagedFacts
       DEF PlaceStart, AtPlace
  <2>3. ASSUME NEW p \in Providers, PlaceResume(j, p) PROVE Tracked(j)'
    BY <1>0, <2>3, TaskFacts
       DEF PlaceResume, AtPlace, ToRent, Row
  <2>4. ASSUME NEW p \in Providers, PlaceNoHandle(j, p) PROVE Tracked(j)'
    BY <1>0, <2>4, TaskFacts, ResolvedFacts, ResolvedTracked
       DEF PlaceNoHandle, AtPlace
  <2>5. ASSUME NEW p \in Providers, RentDone(j, p) PROVE Tracked(j)'
    <3> DEFINE prv == Provisioned(j)
    <3>1. /\ task[j].pc \in PlacePC /\ task[j].item.prov = p
          /\ job[j].st = "placing" /\ job[j].prov = p
      BY <2>5 DEF RentDone, AtPlace
    <3>2. prv
      BY <3>1 DEF Provisioned
    <3>3. /\ job'[j] = [job[j] EXCEPT !.prv = prv] /\ <<p, j>> \in unreleased'
          /\ UNCHANGED intent /\ Advance(j, "minted")
      BY <1>0, <2>5, <3>2 DEF RentDone
    <3> HIDE DEF prv
    <3>4. QED
      BY <1>0, <3>1, <3>2, <3>3, TaskFacts DEF JobRecord
  <2>6. ASSUME NEW p \in Providers, RentContended(j, p) PROVE Tracked(j)'
    BY <1>0, <2>6, TaskFacts, ResolvedFacts, ResolvedTracked
       DEF RentContended, AtPlace
  <2>7. ASSUME NEW p \in Providers, RentFailed(j, p) PROVE Tracked(j)'
    BY <1>0, <2>7, TaskFacts, ResolvedFacts, ResolvedTracked
       DEF RentFailed, AtPlace
  <2>8. ASSUME NEW p \in Providers, PlaceUnreachable(j, p) PROVE Tracked(j)'
    BY <1>0, <2>8, TaskFacts, FreezeFacts
       DEF PlaceUnreachable, AtPlace
  <2>9. ASSUME NEW p \in Providers, ReadyDone(j, p) PROVE Tracked(j)'
    BY <1>0, <2>9, PutFacts, TaskFacts, StagedFacts
       DEF ReadyDone, AtPlace
  <2>10. ASSUME NEW p \in Providers, BootFailed(j, p) PROVE Tracked(j)'
    BY <1>0, <2>10, TaskFacts, ResolvedFacts, ResolvedTracked
       DEF BootFailed, AtPlace
  <2>11. ASSUME NEW p \in Providers, LaunchDone(j, p) PROVE Tracked(j)'
    BY <1>0, <2>11, TaskFacts, CloseFacts
       DEF LaunchDone, AtPlace, JobRecord
  <2>12. QED
    BY <1>4, <2>1, <2>2, <2>3, <2>4, <2>5, <2>6, <2>7, <2>8, <2>9, <2>10, <2>11
       DEF PlaceStep
<1>5. CASE CancelStep(j)
  <2>1. ASSUME PreemptOther(j) PROVE Tracked(j)'
    BY <1>0, <2>1, TaskFacts
       DEF PreemptOther, Preempt
  <2>2. ASSUME CancelMoot(j) PROVE Tracked(j)'
    BY <1>0, <2>2, CloseFacts
       DEF CancelMoot
  <2>3. ASSUME CancelBegin(j) PROVE Tracked(j)'
    BY <1>0, <2>3, PutFacts, ItemFacts
       DEF CancelBegin, CancelStage
  <2>4. ASSUME CancelUnwind(j) PROVE Tracked(j)'
    <3>1. Resolve(j, Unwound(j, job[j].attempts, TRUE)) /\ UNCHANGED <<task, unreleased>>
      BY <2>4 DEF CancelUnwind
    <3>2. task[j].pc = "idle"
      BY <2>4 DEF CancelUnwind, CancelAlone
    <3>3. QED
      BY <1>0, <3>1, <3>2, ResolvedFacts, ResolvedTracked
  <2>5. ASSUME CancelStop(j) PROVE Tracked(j)'
    BY <1>0, <2>5
       DEF CancelStop
  <2>6. ASSUME CancelUnreachable(j) PROVE Tracked(j)'
    BY <1>0, <2>6, FreezeFacts
       DEF CancelUnreachable
  <2>7. ASSUME CancelRefused(j) PROVE Tracked(j)'
    BY <1>0, <2>7, CloseFacts
       DEF CancelRefused
  <2>8. ASSUME CancelApply(j) PROVE Tracked(j)'
    BY <1>0, <2>8, CloseFacts
       DEF CancelApply, JobRecord
  <2>9. ASSUME NEW p \in Providers, PreemptPlace(j, p) PROVE Tracked(j)'
    BY <1>0, <2>9, TaskFacts, ResolvedFacts, ResolvedTracked
       DEF PreemptPlace, AtPlace, Preempt
  <2>10. QED
    BY <1>5, <2>1, <2>2, <2>3, <2>4, <2>5, <2>6, <2>7, <2>8, <2>9 DEF CancelStep
<1>6. CASE SettleStep(j)
  <2>1. ASSUME SettleUnreachable(j) PROVE Tracked(j)'
    BY <1>0, <2>1, TaskFacts, FreezeFacts
       DEF SettleUnreachable
  <2>2. ASSUME NEW p \in Providers, CaptureDone(j, p) PROVE Tracked(j)'
    BY <1>0, <2>2, TaskFacts, CloseFacts
       DEF CaptureDone, AtPlace, FinishCapture, Capturable, JobRecord
  <2>3. ASSUME NEW p \in Providers, CaptureFailed(j, p) PROVE Tracked(j)'
    <3> DEFINE item == task[j].item
               row == [item EXCEPT !.left = @ - 1, !.frozen = TRUE]
    <3>1. item.kind = "capture" /\ UNCHANGED unreleased
      BY <2>3 DEF CaptureFailed, AtPlace
    <3>2. CASE item.left > 1
      <4>1. row \in Row /\ row.kind = "capture"
        <5>1. item \in Row /\ item.left - 1 \in 0..CaptureTries
          BY <1>0, <3>2, LimitsAssumption DEF Row
        <5>2. QED
          BY <3>1, <5>1 DEF Row
      <4>2. Put(j, row) /\ UNCHANGED job /\ Done(j)
        BY <2>3, <3>2 DEF CaptureFailed
      <4> HIDE DEF row, item
      <4>3. QED
        BY <1>0, <3>1, <4>1, <4>2, TaskFacts, PutFacts DEF item
    <3>3. CASE ~(item.left > 1)
      BY <1>0, <2>3, <3>3, TaskFacts, CloseFacts
         DEF CaptureFailed, AtPlace, FinishCapture, Capturable, JobRecord
    <3>4. QED
      BY <3>2, <3>3
  <2>4. ASSUME NEW p \in Providers, ReleaseDone(j, p) PROVE Tracked(j)'
    BY <1>0, <2>4, TaskFacts, CloseFacts
       DEF ReleaseDone, AtPlace, JobRecord
  <2>5. ASSUME NEW p \in Providers, ReleaseFailed(j, p) PROVE Tracked(j)'
    <3>1. LET row == [task[j].item EXCEPT !.frozen = TRUE]
          IN  row \in Row /\ row.kind = task[j].item.kind /\ row.stage = task[j].item.stage
      BY <1>0 DEF Row
    <3>2. QED
      BY <1>0, <2>5, <3>1, TaskFacts, PutFacts DEF ReleaseFailed, AtPlace
  <2>6. QED
    BY <1>6, <2>1, <2>2, <2>3, <2>4, <2>5 DEF SettleStep
<1>7. CASE Observation(j)
  <2>1. ASSUME StreamStart(j) PROVE Tracked(j)'
    BY <2>1 DEF StreamStart
  <2>2. ASSUME Finish(j) PROVE Tracked(j)'
    BY <1>0, <2>2
       DEF Finish, JobRecord
  <2>3. ASSUME MarkDead(j) PROVE Tracked(j)'
    BY <1>0, <2>3
       DEF MarkDead, JobRecord
  <2>4. ASSUME Forget(j) PROVE Tracked(j)'
    BY <2>4 DEF Forget
  <2>5. QED
    BY <1>7, <2>1, <2>2, <2>3, <2>4 DEF Observation
<1>8. CASE Timer(j)
  <2>1. ASSUME RetryDue(j) PROVE Tracked(j)'
    BY <1>0, <2>1
       DEF RetryDue, Row, ItemInv
  <2>2. ASSUME QuarantineEnds(j) PROVE Tracked(j)'
    BY <1>0, <2>2
       DEF QuarantineEnds, Row, ItemInv
  <2>3. QED
    BY <1>8, <2>1, <2>2 DEF Timer
<1>9. QED
  BY <1>1, <1>2, <1>3, <1>4, <1>5, <1>6, <1>7, <1>8 DEF StepOf

\* A step of the system leaves every job tracked.
LEMMA TrackedStep ==
  JobInv /\ ItemInv /\ RestInv /\ Discipline /\ AllTracked /\ [Next]_vars => AllTracked'
<1> SUFFICES ASSUME JobInv, ItemInv, RestInv, Discipline, AllTracked, [Next]_vars,
                    NEW i \in Jobs
             PROVE  Tracked(i)'
  BY DEF AllTracked
<1>0. Disciplined(i) /\ Tracked(i)
  BY DEF Discipline, AllTracked
<1>1. ASSUME NEW j \in Jobs, StepOf(j) PROVE Tracked(i)'
  <2>1. CASE i = j
    BY <1>0, <1>1, <2>1, TrackMine
  <2>2. CASE i # j
    BY <1>0, <1>1, <2>2, Local, TrackFrame
  <2>3. QED
    BY <2>1, <2>2
<1>2. ASSUME NEW k \in Keys, Provider(k) PROVE Tracked(i)'
  <2>1. Same(i)
    BY <1>2
       DEF Provider, WorkerExits, WorkerDies, OrphanLands, OrphanFails, Same, store,
           process
  <2>2. QED
    BY <1>0, <2>1, TrackFrame
<1>3. CASE Crash
  <2>1. task'[i] = NoTask /\ UNCHANGED <<job, intent, unreleased>>
    BY <1>3 DEF Crash, store
  <2>2. QED
    BY <1>0, <2>1, NoRowFacts, NoTaskFacts
       DEF Tracked, MintTracked, StageKnown, StagePrv, RunTracked, LostProved
<1>4. CASE UNCHANGED vars
  <2>1. Same(i)
    BY <1>4 DEF vars, Same, store, process
  <2>2. QED
    BY <1>0, <2>1, TrackFrame
<1>5. QED
  BY <1>1, <1>2, <1>3, <1>4 DEF Next, StepOf

\* A running placement stays in the registry until a dead worker's output was
\* captured and its resource confirmed gone.
THEOREM RunningCorrect == Spec => []RunningTracked
<1>1. Init => AllTracked
  <2>1. Absent.st = "none"
    BY DEF Absent, Unplaced
  <2>2. QED
    BY <2>1, NoRowFacts, NoTaskFacts
       DEF Init, AllTracked, Tracked, MintTracked, StageKnown, StagePrv, RunTracked,
           LostProved
<1>2. AllTracked => RunningTracked
  BY DEF AllTracked, Tracked, RunTracked, RunningTracked
<1>3. QED
  BY <1>1, <1>2, TrackedStep, Typed, Disciplines, PTL DEF Spec

\* A job that waits holds no placement; what settles a placement settles the
\* one its job records.
WaitsFree(j) == job[j].st \in {"none"} \union Pending => job[j].prov = NoProvider
ReapedLast(j) == job[j].reaped => IsTerminal(j)
SettleOwns(j) ==
    job[j].st = "running" \/ IsTerminal(j) =>
      /\ intent[j].kind \in SettleKind => job[j].prov \in {NoProvider, intent[j].prov}
      /\ task[j].item.kind \in SettleKind => job[j].prov \in {NoProvider, task[j].item.prov}

\* What exists is registered or was never answered for, and so is what works,
\* which is registered for the placement its job records.
KeyKnown(p, j) == world[<<p, j>>] # "absent" => <<p, j>> \in unreleased \union strays
KeyWorks(p, j) ==
    world[<<p, j>>] = "busy" /\ <<p, j>> \notin strays =>
      /\ <<p, j>> \in unreleased
      /\ job[j].prov = p
      /\ \/ job[j].st = "placing" /\ job[j].prv
         \/ job[j].st = "running"
         \/ IsTerminal(j) /\ ~job[j].reaped

\* The job's half and the key's half, and both of all.
Placed(j) == WaitsFree(j) /\ ReapedLast(j) /\ SettleOwns(j)
KeyHeld(p, j) == KeyKnown(p, j) /\ KeyWorks(p, j)
AllPlaced == \A j \in Jobs : Placed(j)
AllHeld == \A p \in Providers, j \in Jobs : KeyHeld(p, j)

\* A step of another job leaves the job's half.
LEMMA PlacedFrame == ASSUME NEW j \in Jobs, Placed(j), Same(j) PROVE Placed(j)'
BY DEF Placed, Same, WaitsFree, ReapedLast, SettleOwns, IsTerminal

\* A placement that resolves to the queue gives its provider up.
LEMMA ResolvedPlaced ==
  ASSUME NEW j \in Jobs, NEW attempts, NEW preempt \in BOOLEAN, JobInv, ItemInv,
         \/ Resolve(j, Unwound(j, attempts, preempt))
         \/ Resolve(j, Rolledback(j, attempts))
  PROVE  job[j].st = "placing" /\ job'[j].st = "queued" => job'[j].prov = NoProvider
<1>1. job[j] \in JobRecord
  BY DEF JobInv
<1>2. Rolledback(j, attempts).prov = NoProvider
  BY <1>1 DEF Rolledback, JobRecord
<1>3. Unwound(j, attempts, preempt).st = "queued"
      => Unwound(j, attempts, preempt).prov = NoProvider
  <2>1. CASE job[j].prv
    BY <1>1, <2>1 DEF Unwound, JobRecord
  <2>2. CASE ~job[j].prv
    BY <1>2, <2>2 DEF Unwound
  <2>3. QED
    BY <2>1, <2>2
<1>4. job[j].st = "placing" =>
        job'[j] \in {Unwound(j, attempts, preempt), Rolledback(j, attempts)}
  BY DEF Resolve, JobInv
<1>5. QED
  BY <1>2, <1>3, <1>4

\* A step of the job keeps the job's half.
LEMMA PlacedMine ==
  ASSUME NEW j \in Jobs, JobInv, ItemInv, RestInv, Disciplined(j), Placed(j), StepOf(j)
  PROVE  Placed(j)'
<1> USE NoRowFacts, NoTaskFacts
    DEF Placed, WaitsFree, ReapedLast, SettleOwns,
        Disciplined, TaskMatches, TaskRowed, PlaceOwns, SettleLeft, StopLeft,
        IsTerminal, Open, Live, PlacePC, ReleaseKind, SettleKind, Terminal, Pending,
        Occupying, store, process
<1>0. /\ job[j] \in JobRecord /\ job[j].prov \in Providers \union {NoProvider}
      /\ intent[j] \in Row /\ task[j].item \in Row
      /\ job \in [Jobs -> JobRecord]
  BY DEF JobInv, JobRecord, ItemInv, Task, RestInv
<1>1. CASE Handler(j)
  <2>1. ASSUME Submit(j) PROVE Placed(j)'
    BY <1>0, <2>1
       DEF Submit, Unplaced
  <2>2. ASSUME CancelCheck(j) PROVE Placed(j)'
    BY <2>2 DEF CancelCheck
  <2>3. ASSUME CancelPut(j) PROVE Placed(j)'
    BY <1>0, <2>3, PutFacts, ItemFacts
       DEF CancelPut
  <2>4. ASSUME CancelSignal(j) PROVE Placed(j)'
    BY <2>4 DEF CancelSignal
  <2>5. ASSUME Retry(j) PROVE Placed(j)'
    BY <1>0, <2>5
       DEF Retry, Unplaced
  <2>6. QED
    BY <1>1, <2>1, <2>2, <2>3, <2>4, <2>5 DEF Handler
<1>2. CASE Adoption(j)
  <2>1. ASSUME BootAdopt(j) PROVE Placed(j)'
    BY <1>0, <2>1, PutFacts, TaskFacts
       DEF BootAdopt, Adoptable, Adopt, Row
  <2>2. ASSUME Quarantine(j) PROVE Placed(j)'
    BY <1>0, <2>2
       DEF Quarantine, Adoptable, Row, ItemInv
  <2>3. ASSUME BootSkip(j) PROVE Placed(j)'
    BY <2>3 DEF BootSkip
  <2>4. ASSUME PassAdopt(j) PROVE Placed(j)'
    BY <1>0, <2>4, TaskFacts
       DEF PassAdopt, Adoptable, Adopt, Row, PC, JState, Task, ItemInv
  <2>5. QED
    BY <1>2, <2>1, <2>2, <2>3, <2>4 DEF Adoption
<1>3. CASE Decision(j)
  <2>1. ASSUME PassCancel(j) PROVE Placed(j)'
    BY <1>0, <2>1
       DEF PassCancel
  <2>2. ASSUME PassCapture(j) PROVE Placed(j)'
    <3>1. PICK tries \in 0..CaptureTries :
            LET item == CaptureItem(job[j].prov, tries)
            IN  Put(j, item) /\ Spawn(j, "capturing", item)
      BY <2>2, LimitsAssumption DEF PassCapture
    <3>2. CaptureItem(job[j].prov, tries) \in Row
      BY <1>0, CaptureItemTyped
    <3>3. /\ CaptureItem(job[j].prov, tries).kind = "capture"
          /\ CaptureItem(job[j].prov, tries).prov = job[j].prov
      BY DEF CaptureItem, Item
    <3>4. QED
      BY <1>0, <2>2, <3>1, <3>2, <3>3, PutFacts, TaskFacts DEF PassCapture
  <2>3. ASSUME PassRelease(j) PROVE Placed(j)'
    BY <1>0, <2>3, PutFacts, TaskFacts, ItemFacts
       DEF PassRelease, Undecided, NeedsRelease, Unsettled, IsDead
  <2>4. ASSUME PassRequeue(j) PROVE Placed(j)'
    BY <1>0, <2>4
       DEF PassRequeue, Undecided, IsDead, Unplaced, JobRecord
  <2>5. ASSUME PassFail(j) PROVE Placed(j)'
    BY <1>0, <2>5
       DEF PassFail, Undecided, JobRecord
  <2>6. ASSUME PassHold(j) PROVE Placed(j)'
    BY <1>0, <2>6
       DEF PassHold, Undecided, JobRecord
  <2>7. ASSUME PassUnhold(j) PROVE Placed(j)'
    BY <1>0, <2>7
       DEF PassUnhold, Undecided, JobRecord
  <2>8. ASSUME NEW p \in Providers, PassReserve(j, p) PROVE Placed(j)'
    BY <1>0, <2>8, PutFacts, TaskFacts, PlaceItemFacts
       DEF PassReserve, Undecided, JobRecord
  <2>9. QED
    BY <1>3, <2>1, <2>2, <2>3, <2>4, <2>5, <2>6, <2>7, <2>8 DEF Decision
<1>4. CASE PlaceStep(j)
  <2>1. ASSUME PutBoot(j) PROVE Placed(j)'
    BY <1>0, <2>1, PutFacts, TaskFacts, StagedFacts
       DEF PutBoot
  <2>2. ASSUME NEW p \in Providers, PlaceStart(j, p) PROVE Placed(j)'
    BY <1>0, <2>2, PutFacts, TaskFacts, StagedFacts
       DEF PlaceStart, AtPlace
  <2>3. ASSUME NEW p \in Providers, PlaceResume(j, p) PROVE Placed(j)'
    BY <1>0, <2>3, TaskFacts
       DEF PlaceResume, AtPlace
  <2>4. ASSUME NEW p \in Providers, PlaceNoHandle(j, p) PROVE Placed(j)'
    BY <1>0, <2>4, TaskFacts, ResolvedFacts, ResolvedTracked, ResolvedPlaced
       DEF PlaceNoHandle, AtPlace
  <2>5. ASSUME NEW p \in Providers, RentDone(j, p) PROVE Placed(j)'
    BY <1>0, <2>5, TaskFacts
       DEF RentDone, AtPlace, JobRecord
  <2>6. ASSUME NEW p \in Providers, RentContended(j, p) PROVE Placed(j)'
    BY <1>0, <2>6, TaskFacts, ResolvedFacts, ResolvedTracked, ResolvedPlaced
       DEF RentContended, AtPlace
  <2>7. ASSUME NEW p \in Providers, RentFailed(j, p) PROVE Placed(j)'
    BY <1>0, <2>7, TaskFacts, ResolvedFacts, ResolvedTracked, ResolvedPlaced
       DEF RentFailed, AtPlace
  <2>8. ASSUME NEW p \in Providers, PlaceUnreachable(j, p) PROVE Placed(j)'
    BY <1>0, <2>8, TaskFacts, FreezeFacts
       DEF PlaceUnreachable, AtPlace
  <2>9. ASSUME NEW p \in Providers, ReadyDone(j, p) PROVE Placed(j)'
    BY <1>0, <2>9, PutFacts, TaskFacts, StagedFacts
       DEF ReadyDone, AtPlace
  <2>10. ASSUME NEW p \in Providers, BootFailed(j, p) PROVE Placed(j)'
    BY <1>0, <2>10, TaskFacts, ResolvedFacts, ResolvedTracked, ResolvedPlaced
       DEF BootFailed, AtPlace
  <2>11. ASSUME NEW p \in Providers, LaunchDone(j, p) PROVE Placed(j)'
    BY <1>0, <2>11, TaskFacts, CloseFacts
       DEF LaunchDone, AtPlace, JobRecord
  <2>12. QED
    BY <1>4, <2>1, <2>2, <2>3, <2>4, <2>5, <2>6, <2>7, <2>8, <2>9, <2>10, <2>11
       DEF PlaceStep
<1>5. CASE CancelStep(j)
  <2>1. ASSUME PreemptOther(j) PROVE Placed(j)'
    BY <1>0, <2>1, TaskFacts
       DEF PreemptOther, Preempt
  <2>2. ASSUME CancelMoot(j) PROVE Placed(j)'
    BY <1>0, <2>2, CloseFacts
       DEF CancelMoot
  <2>3. ASSUME CancelBegin(j) PROVE Placed(j)'
    BY <1>0, <2>3, PutFacts, ItemFacts
       DEF CancelBegin, CancelStage
  <2>4. ASSUME CancelUnwind(j) PROVE Placed(j)'
    BY <1>0, <2>4, ResolvedFacts, ResolvedTracked, ResolvedPlaced, ZenonT(40)
       DEF CancelUnwind
  <2>5. ASSUME CancelStop(j) PROVE Placed(j)'
    BY <1>0, <2>5
       DEF CancelStop
  <2>6. ASSUME CancelUnreachable(j) PROVE Placed(j)'
    BY <1>0, <2>6, FreezeFacts
       DEF CancelUnreachable
  <2>7. ASSUME CancelRefused(j) PROVE Placed(j)'
    BY <1>0, <2>7, CloseFacts
       DEF CancelRefused
  <2>8. ASSUME CancelApply(j) PROVE Placed(j)'
    BY <1>0, <2>8, CloseFacts
       DEF CancelApply, JobRecord, JState
  <2>9. ASSUME NEW p \in Providers, PreemptPlace(j, p) PROVE Placed(j)'
    BY <1>0, <2>9, TaskFacts, ResolvedFacts, ResolvedTracked, ResolvedPlaced, ZenonT(40)
       DEF PreemptPlace, AtPlace, Preempt
  <2>10. QED
    BY <1>5, <2>1, <2>2, <2>3, <2>4, <2>5, <2>6, <2>7, <2>8, <2>9 DEF CancelStep
<1>6. CASE SettleStep(j)
  <2>1. ASSUME SettleUnreachable(j) PROVE Placed(j)'
    BY <1>0, <2>1, TaskFacts, FreezeFacts
       DEF SettleUnreachable
  <2>2. ASSUME NEW p \in Providers, CaptureDone(j, p) PROVE Placed(j)'
    BY <1>0, <2>2, TaskFacts, CloseFacts
       DEF CaptureDone, AtPlace, FinishCapture, Capturable, JobRecord
  <2>3. ASSUME NEW p \in Providers, CaptureFailed(j, p) PROVE Placed(j)'
    <3> DEFINE item == task[j].item
               row == [item EXCEPT !.left = @ - 1, !.frozen = TRUE]
    <3>1. item.kind = "capture"
      BY <2>3 DEF CaptureFailed, AtPlace
    <3>2. CASE item.left > 1
      <4>1. row \in Row /\ row.kind = "capture" /\ row.prov = item.prov
        <5>1. item \in Row /\ item.left - 1 \in 0..CaptureTries
          BY <1>0, <3>2, LimitsAssumption DEF Row
        <5>2. QED
          BY <3>1, <5>1 DEF Row
      <4>2. Put(j, row) /\ UNCHANGED job /\ Done(j)
        BY <2>3, <3>2 DEF CaptureFailed
      <4> HIDE DEF row, item
      <4>3. QED
        BY <1>0, <3>1, <4>1, <4>2, TaskFacts, PutFacts DEF item
    <3>3. CASE ~(item.left > 1)
      BY <1>0, <2>3, <3>3, TaskFacts, CloseFacts
         DEF CaptureFailed, AtPlace, FinishCapture, Capturable, JobRecord
    <3>4. QED
      BY <3>2, <3>3
  <2>4. ASSUME NEW p \in Providers, ReleaseDone(j, p) PROVE Placed(j)'
    BY <1>0, <2>4, TaskFacts, CloseFacts
       DEF ReleaseDone, AtPlace, JobRecord
  <2>5. ASSUME NEW p \in Providers, ReleaseFailed(j, p) PROVE Placed(j)'
    <3>1. LET row == [task[j].item EXCEPT !.frozen = TRUE]
          IN  row \in Row /\ row.kind = task[j].item.kind /\ row.prov = task[j].item.prov
      BY <1>0 DEF Row
    <3>2. QED
      BY <1>0, <2>5, <3>1, TaskFacts, PutFacts DEF ReleaseFailed, AtPlace
  <2>6. QED
    BY <1>6, <2>1, <2>2, <2>3, <2>4, <2>5 DEF SettleStep
<1>7. CASE Observation(j)
  <2>1. ASSUME StreamStart(j) PROVE Placed(j)'
    BY <2>1 DEF StreamStart
  <2>2. ASSUME Finish(j) PROVE Placed(j)'
    BY <1>0, <2>2
       DEF Finish, JobRecord
  <2>3. ASSUME MarkDead(j) PROVE Placed(j)'
    BY <1>0, <2>3
       DEF MarkDead, JobRecord
  <2>4. ASSUME Forget(j) PROVE Placed(j)'
    BY <2>4 DEF Forget
  <2>5. QED
    BY <1>7, <2>1, <2>2, <2>3, <2>4 DEF Observation
<1>8. CASE Timer(j)
  <2>1. ASSUME RetryDue(j) PROVE Placed(j)'
    BY <1>0, <2>1
       DEF RetryDue, Row, ItemInv
  <2>2. ASSUME QuarantineEnds(j) PROVE Placed(j)'
    BY <1>0, <2>2
       DEF QuarantineEnds, Row, ItemInv
  <2>3. QED
    BY <1>8, <2>1, <2>2 DEF Timer
<1>9. QED
  BY <1>1, <1>2, <1>3, <1>4, <1>5, <1>6, <1>7, <1>8 DEF StepOf

\* A step that leaves a key as it was.
SameKey(p, j) ==
    /\ world'[<<p, j>>] = world[<<p, j>>]
    /\ <<p, j>> \in strays' <=> <<p, j>> \in strays

\* Such a step keeps the key's half.
LEMMA KeyFrame ==
  ASSUME NEW p \in Providers, NEW j \in Jobs, KeyHeld(p, j), Same(j), SameKey(p, j)
  PROVE  KeyHeld(p, j)'
BY DEF KeyHeld, KeyKnown, KeyWorks, Same, SameKey, IsTerminal

\* A step of one job touches no key of another.
LEMMA LocalKey ==
  ASSUME NEW j \in Jobs, NEW i \in Jobs \ {j}, NEW q \in Providers, RestInv, StepOf(j)
  PROVE  SameKey(q, i)
<1> USE DEF RestInv, SameKey, process, provider, Keys, At, RentUnheard
<1>1. CASE Handler(j)
  <2>1. CASE Submit(j)
    BY <2>1 DEF Submit
  <2>2. CASE CancelCheck(j)
    BY <2>2 DEF CancelCheck
  <2>3. CASE CancelPut(j)
    BY <2>3 DEF CancelPut
  <2>4. CASE CancelSignal(j)
    BY <2>4 DEF CancelSignal
  <2>5. CASE Retry(j)
    BY <2>5 DEF Retry
  <2>6. QED
    BY <1>1, <2>1, <2>2, <2>3, <2>4, <2>5 DEF Handler
<1>2. CASE Adoption(j)
  <2>1. CASE BootAdopt(j)
    BY <2>1 DEF BootAdopt
  <2>2. CASE Quarantine(j)
    BY <2>2 DEF Quarantine
  <2>3. CASE BootSkip(j)
    BY <2>3 DEF BootSkip
  <2>4. CASE PassAdopt(j)
    BY <2>4 DEF PassAdopt
  <2>5. QED
    BY <1>2, <2>1, <2>2, <2>3, <2>4 DEF Adoption
<1>3. CASE Decision(j)
  <2>1. CASE PassCancel(j)
    BY <2>1 DEF PassCancel
  <2>2. CASE PassCapture(j)
    BY <2>2 DEF PassCapture
  <2>3. CASE PassRelease(j)
    BY <2>3 DEF PassRelease
  <2>4. CASE PassRequeue(j)
    BY <2>4 DEF PassRequeue
  <2>5. CASE PassFail(j)
    BY <2>5 DEF PassFail
  <2>6. CASE PassHold(j)
    BY <2>6 DEF PassHold
  <2>7. CASE PassUnhold(j)
    BY <2>7 DEF PassUnhold
  <2>8. CASE \E p \in Providers : PassReserve(j, p)
    BY <2>8 DEF PassReserve
  <2>9. QED
    BY <1>3, <2>1, <2>2, <2>3, <2>4, <2>5, <2>6, <2>7, <2>8 DEF Decision
<1>4. CASE PlaceStep(j)
  <2>1. CASE PutBoot(j)
    BY <2>1 DEF PutBoot
  <2>2. CASE \E p \in Providers : PlaceStart(j, p)
    BY <2>2 DEF PlaceStart
  <2>3. CASE \E p \in Providers : PlaceResume(j, p)
    BY <2>3 DEF PlaceResume
  <2>4. CASE \E p \in Providers : PlaceNoHandle(j, p)
    BY <2>4 DEF PlaceNoHandle
  <2>5. CASE \E p \in Providers : RentDone(j, p)
    BY <2>5 DEF RentDone
  <2>6. CASE \E p \in Providers : RentContended(j, p)
    BY <2>6 DEF RentContended
  <2>7. CASE \E p \in Providers : RentFailed(j, p)
    BY <2>7 DEF RentFailed
  <2>8. CASE \E p \in Providers : PlaceUnreachable(j, p)
    BY <2>8 DEF PlaceUnreachable
  <2>9. CASE \E p \in Providers : ReadyDone(j, p)
    BY <2>9 DEF ReadyDone
  <2>10. CASE \E p \in Providers : BootFailed(j, p)
    BY <2>10 DEF BootFailed
  <2>11. CASE \E p \in Providers : LaunchDone(j, p)
    BY <2>11 DEF LaunchDone
  <2>12. QED
    BY <1>4, <2>1, <2>2, <2>3, <2>4, <2>5, <2>6, <2>7, <2>8, <2>9, <2>10, <2>11
       DEF PlaceStep
<1>5. CASE CancelStep(j)
  <2>1. CASE PreemptOther(j)
    BY <2>1 DEF PreemptOther
  <2>2. CASE CancelMoot(j)
    BY <2>2 DEF CancelMoot
  <2>3. CASE CancelBegin(j)
    BY <2>3 DEF CancelBegin
  <2>4. CASE CancelUnwind(j)
    BY <2>4 DEF CancelUnwind
  <2>5. CASE CancelStop(j)
    BY <2>5 DEF CancelStop
  <2>6. CASE CancelUnreachable(j)
    BY <2>6 DEF CancelUnreachable
  <2>7. CASE CancelRefused(j)
    BY <2>7 DEF CancelRefused
  <2>8. CASE CancelApply(j)
    BY <2>8 DEF CancelApply
  <2>9. CASE \E p \in Providers : PreemptPlace(j, p)
    BY <2>9 DEF PreemptPlace
  <2>10. QED
    BY <1>5, <2>1, <2>2, <2>3, <2>4, <2>5, <2>6, <2>7, <2>8, <2>9 DEF CancelStep
<1>6. CASE SettleStep(j)
  <2>1. CASE SettleUnreachable(j)
    BY <2>1 DEF SettleUnreachable
  <2>2. CASE \E p \in Providers : CaptureDone(j, p)
    BY <2>2 DEF CaptureDone
  <2>3. CASE \E p \in Providers : CaptureFailed(j, p)
    BY <2>3 DEF CaptureFailed
  <2>4. CASE \E p \in Providers : ReleaseDone(j, p)
    BY <2>4 DEF ReleaseDone
  <2>5. CASE \E p \in Providers : ReleaseFailed(j, p)
    BY <2>5 DEF ReleaseFailed
  <2>6. QED
    BY <1>6, <2>1, <2>2, <2>3, <2>4, <2>5 DEF SettleStep
<1>7. CASE Observation(j)
  <2>1. CASE StreamStart(j)
    BY <2>1 DEF StreamStart
  <2>2. CASE Finish(j)
    BY <2>2 DEF Finish
  <2>3. CASE MarkDead(j)
    BY <2>3 DEF MarkDead
  <2>4. CASE Forget(j)
    BY <2>4 DEF Forget
  <2>5. QED
    BY <1>7, <2>1, <2>2, <2>3, <2>4 DEF Observation
<1>8. CASE Timer(j)
  <2>1. CASE RetryDue(j)
    BY <2>1 DEF RetryDue
  <2>2. CASE QuarantineEnds(j)
    BY <2>2 DEF QuarantineEnds
  <2>3. QED
    BY <1>8, <2>1, <2>2 DEF Timer
<1>9. QED
  BY <1>1, <1>2, <1>3, <1>4, <1>5, <1>6, <1>7, <1>8 DEF StepOf

\* A provisioned placement that fails is activated, not rolled back.
LEMMA UnwoundRuns ==
  ASSUME NEW j \in Jobs, NEW attempts, NEW preempt \in BOOLEAN, JobInv, ItemInv,
         Resolve(j, Unwound(j, attempts, preempt))
  PROVE  job[j].st = "placing" /\ job[j].prv => job'[j].st = "running"
<1>1. job[j] \in JobRecord
  BY DEF JobInv
<1>2. job[j].prv => Unwound(j, attempts, preempt).st = "running"
  BY <1>1 DEF Unwound, JobRecord
<1>3. QED
  BY <1>2, ResolveFacts

\* A step of the job keeps the key's half.
LEMMA KeyMine ==
  ASSUME NEW j \in Jobs, NEW q \in Providers, JobInv, ItemInv, RestInv,
         Disciplined(j), Tracked(j), Placed(j), KeyHeld(q, j), StepOf(j)
  PROVE  KeyHeld(q, j)'
<1> USE ProviderAssumption
    DEF KeyHeld, KeyKnown, KeyWorks, Tracked, MintTracked, StageKnown, StagePrv, Later,
        Placed, WaitsFree, ReapedLast, SettleOwns,
        Disciplined, TaskMatches, PlaceOwns, SettleLeft, StopLeft,
        IsTerminal, PlacePC, ReleaseKind, SettleKind, Terminal, Pending,
        Occupying, store, process, provider, Keys, At, RentUnheard, Rented, Launched
<1>0. /\ job[j] \in JobRecord
      /\ job \in [Jobs -> JobRecord]
      /\ world \in [Keys -> World]
      /\ <<q, j>> \in Keys
  BY DEF JobInv, RestInv
<1>1. CASE Handler(j)
  <2>1. ASSUME Submit(j) PROVE KeyHeld(q, j)'
    BY <1>0, <2>1
       DEF Submit, Unplaced, JobRecord
  <2>2. ASSUME CancelCheck(j) PROVE KeyHeld(q, j)'
    BY <2>2 DEF CancelCheck
  <2>3. ASSUME CancelPut(j) PROVE KeyHeld(q, j)'
    BY <1>0, <2>3
       DEF CancelPut, JobRecord
  <2>4. ASSUME CancelSignal(j) PROVE KeyHeld(q, j)'
    BY <2>4 DEF CancelSignal
  <2>5. ASSUME Retry(j) PROVE KeyHeld(q, j)'
    BY <1>0, <2>5
       DEF Retry, Held, Unplaced, JobRecord
  <2>6. QED
    BY <1>1, <2>1, <2>2, <2>3, <2>4, <2>5 DEF Handler
<1>2. CASE Adoption(j)
  <2>1. ASSUME BootAdopt(j) PROVE KeyHeld(q, j)'
    BY <1>0, <2>1
       DEF BootAdopt, JobRecord
  <2>2. ASSUME Quarantine(j) PROVE KeyHeld(q, j)'
    BY <1>0, <2>2
       DEF Quarantine, JobRecord
  <2>3. ASSUME BootSkip(j) PROVE KeyHeld(q, j)'
    BY <2>3 DEF BootSkip
  <2>4. ASSUME PassAdopt(j) PROVE KeyHeld(q, j)'
    BY <1>0, <2>4
       DEF PassAdopt, JobRecord
  <2>5. QED
    BY <1>2, <2>1, <2>2, <2>3, <2>4 DEF Adoption
<1>3. CASE Decision(j)
  <2>1. ASSUME PassCancel(j) PROVE KeyHeld(q, j)'
    BY <1>0, <2>1
       DEF PassCancel, Undecided, JobRecord
  <2>2. ASSUME PassCapture(j) PROVE KeyHeld(q, j)'
    BY <1>0, <2>2
       DEF PassCapture, Undecided, JobRecord
  <2>3. ASSUME PassRelease(j) PROVE KeyHeld(q, j)'
    BY <1>0, <2>3
       DEF PassRelease, Undecided, JobRecord
  <2>4. ASSUME PassRequeue(j) PROVE KeyHeld(q, j)'
    BY <1>0, <2>4
       DEF PassRequeue, Undecided, Held, IsDead, Unplaced, JobRecord
  <2>5. ASSUME PassFail(j) PROVE KeyHeld(q, j)'
    BY <1>0, <2>5
       DEF PassFail, Undecided, JobRecord
  <2>6. ASSUME PassHold(j) PROVE KeyHeld(q, j)'
    BY <1>0, <2>6
       DEF PassHold, Undecided, JobRecord
  <2>7. ASSUME PassUnhold(j) PROVE KeyHeld(q, j)'
    BY <1>0, <2>7
       DEF PassUnhold, Undecided, JobRecord
  <2>8. ASSUME NEW p \in Providers, PassReserve(j, p) PROVE KeyHeld(q, j)'
    BY <1>0, <2>8
       DEF PassReserve, Undecided, JobRecord
  <2>9. QED
    BY <1>3, <2>1, <2>2, <2>3, <2>4, <2>5, <2>6, <2>7, <2>8 DEF Decision
<1>4. CASE PlaceStep(j)
  <2>1. ASSUME PutBoot(j) PROVE KeyHeld(q, j)'
    BY <1>0, <2>1
       DEF PutBoot, JobRecord
  <2>2. ASSUME NEW p \in Providers, PlaceStart(j, p) PROVE KeyHeld(q, j)'
    BY <1>0, <2>2
       DEF PlaceStart, AtPlace, JobRecord
  <2>3. ASSUME NEW p \in Providers, PlaceResume(j, p) PROVE KeyHeld(q, j)'
    BY <1>0, <2>3
       DEF PlaceResume, AtPlace, JobRecord
  <2>4. ASSUME NEW p \in Providers, PlaceNoHandle(j, p) PROVE KeyHeld(q, j)'
    BY <1>0, <2>4, ResolvedFacts, ResolvedTracked, UnwoundRuns
       DEF PlaceNoHandle, AtPlace
  <2>5. ASSUME NEW p \in Providers, RentDone(j, p) PROVE KeyHeld(q, j)'
    BY <1>0, <2>5
       DEF RentDone, AtPlace, Provisioned, JobRecord
  <2>6. ASSUME NEW p \in Providers, RentContended(j, p) PROVE KeyHeld(q, j)'
    BY <1>0, <2>6, ResolvedFacts, ResolvedTracked
       DEF RentContended, AtPlace
  <2>7. ASSUME NEW p \in Providers, RentFailed(j, p) PROVE KeyHeld(q, j)'
    BY <1>0, <2>7, ResolvedFacts, ResolvedTracked, UnwoundRuns, ZenonT(90)
       DEF RentFailed, AtPlace
  <2>8. ASSUME NEW p \in Providers, PlaceUnreachable(j, p) PROVE KeyHeld(q, j)'
    BY <1>0, <2>8
       DEF PlaceUnreachable, AtPlace, JobRecord
  <2>9. ASSUME NEW p \in Providers, ReadyDone(j, p) PROVE KeyHeld(q, j)'
    BY <1>0, <2>9
       DEF ReadyDone, AtPlace, JobRecord
  <2>10. ASSUME NEW p \in Providers, BootFailed(j, p) PROVE KeyHeld(q, j)'
    <3>1. /\ task[j].pc \in {"readying", "launching"} /\ task[j].item.prov = p
          /\ Resolve(j, Unwound(j, Counted(j), FALSE))
          /\ UNCHANGED <<unreleased, strays>>
      BY <2>10 DEF BootFailed, AtPlace
    <3>2. task[j].item.kind = "place"
      BY <3>1
    <3>3. job[j].st = "placing" /\ job[j].prov = p /\ job[j].prv /\ <<p, j>> \in unreleased
      BY <3>1, <3>2
    <3>4. job'[j].st = "running"
      BY <3>1, <3>3, UnwoundRuns
    <3>5. job'[j].prov = p
      BY <3>1, <3>3, <3>4, ResolvedTracked
    <3>6. q # p => world'[<<q, j>>] = world[<<q, j>>]
      BY <1>0, <2>10 DEF BootFailed
    <3>7. QED
      BY <3>1, <3>3, <3>4, <3>5, <3>6
  <2>11. ASSUME NEW p \in Providers, LaunchDone(j, p) PROVE KeyHeld(q, j)'
    <3>1. /\ task[j].item.kind = "place" /\ task[j].item.prov = p /\ task[j].pc = "launching"
          /\ UNCHANGED <<unreleased, strays>>
      BY <2>11 DEF LaunchDone, AtPlace
    <3>2. job[j].st = "placing" /\ job[j].prov = p /\ <<p, j>> \in unreleased
      BY <3>1
    <3>3. job'[j] = [job[j] EXCEPT !.st = "running", !.hnd = TRUE]
      BY <1>0, <2>11, <3>2 DEF LaunchDone
    <3>4. job'[j].st = "running" /\ job'[j].prov = p
      BY <1>0, <3>2, <3>3 DEF JobRecord
    <3>5. q # p => world'[<<q, j>>] = world[<<q, j>>]
      BY <1>0, <2>11 DEF LaunchDone
    <3>6. QED
      BY <3>1, <3>2, <3>4, <3>5
  <2>12. QED
    BY <1>4, <2>1, <2>2, <2>3, <2>4, <2>5, <2>6, <2>7, <2>8, <2>9, <2>10, <2>11
       DEF PlaceStep
<1>5. CASE CancelStep(j)
  <2>1. ASSUME PreemptOther(j) PROVE KeyHeld(q, j)'
    BY <1>0, <2>1
       DEF PreemptOther, Preempt, JobRecord
  <2>2. ASSUME CancelMoot(j) PROVE KeyHeld(q, j)'
    BY <1>0, <2>2
       DEF CancelMoot, JobRecord
  <2>3. ASSUME CancelBegin(j) PROVE KeyHeld(q, j)'
    BY <1>0, <2>3
       DEF CancelBegin, JobRecord
  <2>4. ASSUME CancelUnwind(j) PROVE KeyHeld(q, j)'
    BY <1>0, <2>4, ResolvedFacts, ResolvedTracked, UnwoundRuns
       DEF CancelUnwind
  <2>5. ASSUME CancelStop(j) PROVE KeyHeld(q, j)'
    BY <1>0, <2>5
       DEF CancelStop, JobRecord
  <2>6. ASSUME CancelUnreachable(j) PROVE KeyHeld(q, j)'
    BY <1>0, <2>6
       DEF CancelUnreachable, JobRecord
  <2>7. ASSUME CancelRefused(j) PROVE KeyHeld(q, j)'
    BY <1>0, <2>7
       DEF CancelRefused, JobRecord
  <2>8. ASSUME CancelApply(j) PROVE KeyHeld(q, j)'
    BY <1>0, <2>8
       DEF CancelApply, JobRecord, JState
  <2>9. ASSUME NEW p \in Providers, PreemptPlace(j, p) PROVE KeyHeld(q, j)'
    <3>1. /\ task[j].pc \in PlacePC /\ task[j].item.prov = p
          /\ Resolve(j, Unwound(j, job[j].attempts, TRUE))
          /\ UNCHANGED <<unreleased, strays>>
      BY <2>9 DEF PreemptPlace, AtPlace
    <3>2. job[j].st = "placing" /\ job[j].prov = p
      BY <3>1
    <3>3. /\ job'[j].st \in {"queued", "running"}
          /\ job'[j].st = "running" => job[j].prv /\ job'[j].prov = p
          /\ job[j].prv => job'[j].st = "running"
      BY <3>1, <3>2, ResolvedTracked, UnwoundRuns
    <3>4. UNCHANGED world
      BY <2>9 DEF PreemptPlace
    <3>5. KeyKnown(q, j)'
      BY <3>1, <3>4
    <3>6. KeyWorks(q, j)'
      BY <3>1, <3>2, <3>3, <3>4
    <3>7. QED
      BY <3>5, <3>6
  <2>10. QED
    BY <1>5, <2>1, <2>2, <2>3, <2>4, <2>5, <2>6, <2>7, <2>8, <2>9 DEF CancelStep
<1>6. CASE SettleStep(j)
  <2>1. ASSUME SettleUnreachable(j) PROVE KeyHeld(q, j)'
    BY <1>0, <2>1
       DEF SettleUnreachable, JobRecord
  <2>2. ASSUME NEW p \in Providers, CaptureDone(j, p) PROVE KeyHeld(q, j)'
    BY <1>0, <2>2
       DEF CaptureDone, AtPlace, FinishCapture, Capturable, JobRecord
  <2>3. ASSUME NEW p \in Providers, CaptureFailed(j, p) PROVE KeyHeld(q, j)'
    BY <1>0, <2>3
       DEF CaptureFailed, AtPlace, FinishCapture, Capturable, JobRecord
  <2>4. ASSUME NEW p \in Providers, ReleaseDone(j, p) PROVE KeyHeld(q, j)'
    <3>1. /\ task[j].item.kind \in ReleaseKind /\ task[j].item.prov = p
      BY <2>4 DEF ReleaseDone, AtPlace
    <3>2. /\ q = p => world'[<<q, j>>] = "absent"
          /\ q # p => /\ world'[<<q, j>>] = world[<<q, j>>]
                      /\ <<q, j>> \in strays' <=> <<q, j>> \in strays
                      /\ <<q, j>> \in unreleased' <=> <<q, j>> \in unreleased
      BY <1>0, <2>4 DEF ReleaseDone
    <3>3. q # p => world[<<q, j>>] # "busy" \/ <<q, j>> \in strays
      BY <3>1
    <3>4. QED
      BY <3>2, <3>3
  <2>5. ASSUME NEW p \in Providers, ReleaseFailed(j, p) PROVE KeyHeld(q, j)'
    BY <1>0, <2>5
       DEF ReleaseFailed, AtPlace, JobRecord
  <2>6. QED
    BY <1>6, <2>1, <2>2, <2>3, <2>4, <2>5 DEF SettleStep
<1>7. CASE Observation(j)
  <2>1. ASSUME StreamStart(j) PROVE KeyHeld(q, j)'
    BY <2>1 DEF StreamStart
  <2>2. ASSUME Finish(j) PROVE KeyHeld(q, j)'
    BY <1>0, <2>2
       DEF Finish, JobRecord
  <2>3. ASSUME MarkDead(j) PROVE KeyHeld(q, j)'
    BY <1>0, <2>3
       DEF MarkDead, JobRecord
  <2>4. ASSUME Forget(j) PROVE KeyHeld(q, j)'
    BY <2>4 DEF Forget
  <2>5. QED
    BY <1>7, <2>1, <2>2, <2>3, <2>4 DEF Observation
<1>8. CASE Timer(j)
  <2>1. ASSUME RetryDue(j) PROVE KeyHeld(q, j)'
    BY <1>0, <2>1
       DEF RetryDue, JobRecord
  <2>2. ASSUME QuarantineEnds(j) PROVE KeyHeld(q, j)'
    BY <1>0, <2>2
       DEF QuarantineEnds, JobRecord
  <2>3. QED
    BY <1>8, <2>1, <2>2 DEF Timer
<1>9. QED
  BY <1>1, <1>2, <1>3, <1>4, <1>5, <1>6, <1>7, <1>8 DEF StepOf

\* A step of the system keeps the jobs' half.
LEMMA PlacedStep ==
  JobInv /\ ItemInv /\ RestInv /\ Discipline /\ AllPlaced /\ [Next]_vars => AllPlaced'
<1> SUFFICES ASSUME JobInv, ItemInv, RestInv, Discipline, AllPlaced, [Next]_vars,
                    NEW i \in Jobs
             PROVE  Placed(i)'
  BY DEF AllPlaced
<1>0. Disciplined(i) /\ Placed(i)
  BY DEF Discipline, AllPlaced
<1>1. ASSUME NEW j \in Jobs, StepOf(j) PROVE Placed(i)'
  <2>1. CASE i = j
    BY <1>0, <1>1, <2>1, PlacedMine
  <2>2. CASE i # j
    BY <1>0, <1>1, <2>2, Local, PlacedFrame
  <2>3. QED
    BY <2>1, <2>2
<1>2. ASSUME NEW k \in Keys, Provider(k) PROVE Placed(i)'
  <2>1. Same(i)
    BY <1>2
       DEF Provider, WorkerExits, WorkerDies, OrphanLands, OrphanFails, Same, store,
           process
  <2>2. QED
    BY <1>0, <2>1, PlacedFrame
<1>3. CASE Crash
  <2>1. task'[i] = NoTask /\ UNCHANGED <<job, intent>>
    BY <1>3 DEF Crash, store
  <2>2. QED
    BY <1>0, <2>1, NoRowFacts, NoTaskFacts
       DEF Placed, WaitsFree, ReapedLast, SettleOwns, SettleKind, ReleaseKind,
           IsTerminal
<1>4. CASE UNCHANGED vars
  <2>1. Same(i)
    BY <1>4 DEF vars, Same, store, process
  <2>2. QED
    BY <1>0, <2>1, PlacedFrame
<1>5. QED
  BY <1>1, <1>2, <1>3, <1>4 DEF Next, StepOf

\* A step of the system keeps the keys' half.
LEMMA HeldStep ==
  JobInv /\ ItemInv /\ RestInv /\ Discipline /\ AllTracked /\ AllPlaced /\ AllHeld
  /\ [Next]_vars => AllHeld'
<1> SUFFICES ASSUME JobInv, ItemInv, RestInv, Discipline, AllTracked, AllPlaced,
                    AllHeld, [Next]_vars, NEW q \in Providers, NEW i \in Jobs
             PROVE  KeyHeld(q, i)'
  BY DEF AllHeld
<1>0. Disciplined(i) /\ Tracked(i) /\ Placed(i) /\ KeyHeld(q, i)
  BY DEF Discipline, AllTracked, AllPlaced, AllHeld
<1>1. ASSUME NEW j \in Jobs, StepOf(j) PROVE KeyHeld(q, i)'
  <2>1. CASE i = j
    BY <1>0, <1>1, <2>1, KeyMine
  <2>2. CASE i # j
    BY <1>0, <1>1, <2>2, Local, LocalKey, KeyFrame
  <2>3. QED
    BY <2>1, <2>2
<1>2. ASSUME NEW k \in Keys, Provider(k) PROVE KeyHeld(q, i)'
  <2>1. UNCHANGED <<job, unreleased>> /\ strays \subseteq strays'
    BY <1>2 DEF Provider, WorkerExits, WorkerDies, OrphanLands, OrphanFails, store
  <2>2. world'[<<q, i>>] \in {world[<<q, i>>], "absent", "exited", "dead"}
        \/ <<q, i>> \in strays'
    BY <1>2
       DEF Provider, WorkerExits, WorkerDies, OrphanLands, OrphanFails, RestInv, Keys, At
  <2>3. world'[<<q, i>>] # "absent" =>
             world[<<q, i>>] # "absent" \/ <<q, i>> \in strays'
    BY <1>2
       DEF Provider, WorkerExits, WorkerDies, OrphanLands, OrphanFails, RestInv, Keys, At
  <2>4. QED
    BY <1>0, <2>1, <2>2, <2>3 DEF KeyHeld, KeyKnown, KeyWorks, IsTerminal
<1>3. CASE Crash
  BY <1>0, <1>3 DEF Crash, store, KeyHeld, KeyKnown, KeyWorks, IsTerminal
<1>4. CASE UNCHANGED vars
  BY <1>0, <1>4 DEF vars, store, provider, KeyHeld, KeyKnown, KeyWorks, IsTerminal
<1>5. QED
  BY <1>1, <1>2, <1>3, <1>4 DEF Next, StepOf

\* Both halves hold, and every job is tracked.
LEMMA Keeping == Spec => [](AllTracked /\ AllPlaced /\ AllHeld)
<1>1. Init => AllTracked /\ AllPlaced /\ AllHeld
  <2>1. Absent.st = "none" /\ Absent.prov = NoProvider /\ Absent.reaped = FALSE
    BY DEF Absent, Unplaced
  <2>2. QED
    BY <2>1, NoRowFacts, NoTaskFacts
       DEF Init, AllTracked, Tracked, MintTracked, StageKnown, StagePrv, RunTracked,
           LostProved, AllPlaced, Placed, WaitsFree, ReapedLast, SettleOwns, SettleKind,
           ReleaseKind, IsTerminal, Terminal, AllHeld, KeyHeld, KeyKnown, KeyWorks, Keys
<1>2. QED
  BY <1>1, TrackedStep, PlacedStep, HeldStep, Typed, Disciplines, PTL DEF Spec

\* A resource that exists is in the registry, or was created by a call whose
\* answer was lost.
THEOREM ResourcesKnown == Spec => []NoUntracked
<1>1. AllHeld => NoUntracked
  BY DEF AllHeld, KeyHeld, KeyKnown, NoUntracked
<1>2. QED
  BY <1>1, Keeping, PTL

\* A worker runs only for the placement its job records.
THEOREM WorkersOwned == Spec => []WorkerOwned
<1>1. AllPlaced /\ AllHeld => WorkerOwned
  BY DEF AllPlaced, Placed, ReapedLast, AllHeld, KeyHeld, KeyWorks, WorkerOwned,
         Occupying, IsTerminal, Terminal
<1>2. QED
  BY <1>1, Keeping, PTL

\* A job comes back to the queue, once it had run, by a requeue or a retry.
LEMMA OnlyRequeues ==
  ASSUME NEW j \in Jobs, JobInv, StepOf(j), job[j].st \in {"running"} \union Terminal,
         job'[j].st \in Pending
  PROVE  PassRequeue(j) \/ Retry(j)
<1> USE DEF Pending, Terminal, store, process
<1>0. job \in [Jobs -> JobRecord] /\ job[j] \in JobRecord
  BY DEF JobInv
<1>1. CASE Handler(j)
  <2>1. ASSUME Submit(j) PROVE FALSE
    BY <1>0, <2>1 DEF Submit, Unplaced, JobRecord
  <2>2. QED
    BY <1>1, <2>1 DEF Handler, CancelCheck, CancelPut, CancelSignal
<1>2. CASE Adoption(j)
  <2>1. QED
    BY <1>2 DEF Adoption, BootAdopt, Quarantine, BootSkip, PassAdopt
<1>3. CASE Decision(j)
  <2>1. ASSUME PassFail(j) PROVE FALSE
    BY <1>0, <2>1 DEF PassFail, JobRecord
  <2>2. ASSUME PassHold(j) PROVE FALSE
    BY <1>0, <2>2 DEF PassHold, JobRecord
  <2>3. ASSUME PassUnhold(j) PROVE FALSE
    BY <1>0, <2>3 DEF PassUnhold, JobRecord
  <2>4. ASSUME NEW p \in Providers, PassReserve(j, p) PROVE FALSE
    BY <1>0, <2>4 DEF PassReserve, JobRecord
  <2>5. QED
    BY <1>3, <2>1, <2>2, <2>3, <2>4 DEF Decision, PassCancel, PassCapture, PassRelease
<1>4. CASE PlaceStep(j)
  <2>1. ASSUME NEW p \in Providers, PlaceNoHandle(j, p) PROVE FALSE
    BY <1>0, <2>1 DEF PlaceNoHandle, Resolve, JobRecord
  <2>2. ASSUME NEW p \in Providers, RentDone(j, p) PROVE FALSE
    BY <1>0, <2>2 DEF RentDone, JobRecord
  <2>3. ASSUME NEW p \in Providers, RentContended(j, p) PROVE FALSE
    BY <1>0, <2>3 DEF RentContended, Resolve, JobRecord
  <2>4. ASSUME NEW p \in Providers, RentFailed(j, p) PROVE FALSE
    BY <1>0, <2>4 DEF RentFailed, Resolve, JobRecord
  <2>5. ASSUME NEW p \in Providers, BootFailed(j, p) PROVE FALSE
    BY <1>0, <2>5 DEF BootFailed, Resolve, JobRecord
  <2>6. ASSUME NEW p \in Providers, LaunchDone(j, p) PROVE FALSE
    BY <1>0, <2>6 DEF LaunchDone, JobRecord
  <2>7. QED
    BY <1>4, <2>1, <2>2, <2>3, <2>4, <2>5, <2>6
       DEF PlaceStep, PutBoot, PlaceStart, PlaceResume, PlaceUnreachable, ReadyDone
<1>5. CASE CancelStep(j)
  <2>1. ASSUME CancelUnwind(j) PROVE FALSE
    BY <1>0, <2>1 DEF CancelUnwind, Resolve, JobRecord
  <2>2. ASSUME CancelApply(j) PROVE FALSE
    BY <1>0, <2>2 DEF CancelApply, JobRecord
  <2>3. ASSUME NEW p \in Providers, PreemptPlace(j, p) PROVE FALSE
    BY <1>0, <2>3 DEF PreemptPlace, Resolve, JobRecord
  <2>4. QED
    BY <1>5, <2>1, <2>2, <2>3
       DEF CancelStep, PreemptOther, CancelMoot, CancelBegin, CancelStop,
           CancelUnreachable, CancelRefused
<1>6. CASE SettleStep(j)
  <2>1. ASSUME NEW p \in Providers, CaptureDone(j, p) PROVE FALSE
    BY <1>0, <2>1 DEF CaptureDone, FinishCapture, JobRecord
  <2>2. ASSUME NEW p \in Providers, CaptureFailed(j, p) PROVE FALSE
    BY <1>0, <2>2 DEF CaptureFailed, FinishCapture, JobRecord
  <2>3. ASSUME NEW p \in Providers, ReleaseDone(j, p) PROVE FALSE
    BY <1>0, <2>3 DEF ReleaseDone, JobRecord
  <2>4. QED
    BY <1>6, <2>1, <2>2, <2>3 DEF SettleStep, SettleUnreachable, ReleaseFailed
<1>7. CASE Observation(j)
  <2>1. ASSUME Finish(j) PROVE FALSE
    BY <1>0, <2>1 DEF Finish, JobRecord
  <2>2. ASSUME MarkDead(j) PROVE FALSE
    BY <1>0, <2>2 DEF MarkDead, JobRecord
  <2>3. QED
    BY <1>7, <2>1, <2>2 DEF Observation, StreamStart, Forget
<1>8. CASE Timer(j)
  <2>1. QED
    BY <1>8 DEF Timer, RetryDue, QuarantineEnds
<1>9. QED
  BY <1>1, <1>2, <1>3, <1>4, <1>5, <1>6, <1>7, <1>8 DEF StepOf

\* And leaves no resource behind when it does.
THEOREM RequeueCorrect == Spec => RequeueClean
<1> DEFINE Clean ==
      \A p \in Providers, j \in Jobs :
         /\ job[j].st \in {"running"} \union Terminal
         /\ job'[j].st \in Pending
         => /\ <<p, j>> \notin unreleased'
            /\ world[<<p, j>>] = "absent" \/ <<p, j>> \in strays
<1>1. JobInv /\ ItemInv /\ RestInv /\ AllHeld /\ [Next]_vars => [Clean]_vars
  <2> SUFFICES ASSUME JobInv, ItemInv, RestInv, AllHeld, Next,
                      NEW p \in Providers, NEW j \in Jobs,
                      job[j].st \in {"running"} \union Terminal,
                      job'[j].st \in Pending
               PROVE  /\ <<p, j>> \notin unreleased'
                      /\ world[<<p, j>>] = "absent" \/ <<p, j>> \in strays
    OBVIOUS
  <2>1. job'[j] # job[j]
    BY DEF Terminal, Pending
  <2>2. StepOf(j)
    <3>1. ASSUME NEW k \in Keys, Provider(k) PROVE FALSE
      BY <2>1, <3>1
         DEF Provider, WorkerExits, WorkerDies, OrphanLands, OrphanFails, store
    <3>2. ~Crash
      BY <2>1 DEF Crash, store
    <3>3. ASSUME NEW i \in Jobs, StepOf(i) PROVE i = j
      BY <2>1, <3>3, Local DEF Same
    <3>4. QED
      BY <3>1, <3>2, <3>3 DEF Next, StepOf
  <2>3. PassRequeue(j) \/ Retry(j)
    BY <2>2, OnlyRequeues
  <2>4. ~Held(j) /\ UNCHANGED unreleased
    BY <2>3 DEF PassRequeue, Retry
  <2>5. QED
    BY <2>4 DEF Held, AllHeld, KeyHeld, KeyKnown
<1>2. QED
  BY <1>1, Typed, Keeping, PTL DEF Spec, RequeueClean

\* A teardown goes in order: nothing is released before it was captured, and nothing is
\* queued again before it was released.
THEOREM OrderCorrect == Spec => ReleaseOrder
BY CaptureFirst, RequeueCorrect, PTL DEF ReleaseOrder

-----------------------------------------------------------------------------
(***************************************************************************)
(* Refinement.  Every step of the engine is one of the kernel's or leaves  *)
(* what the kernel sees, unless contention rolls back a registered         *)
(* placement: then (README, divergence 5) the code leaves the kernel.      *)
(* Under its absence the registry of a job is that of its placement        *)
(* (Alone), a job moves by one kernel action or none (Moves), the others   *)
(* stay (Leaves), and the engine's room, provider by provider, is room in  *)
(* the kernel, which counts them together (KernelRoom).                    *)
(***************************************************************************)

\* Nothing is asked or done for a job before it is submitted.
Asked(j) ==
    job[j].st = "none" =>
        calling[j] = "idle" /\ j \notin cancels /\ canc[j] = "idle" /\ ~Open(j)

AllAsked == \A j \in Jobs : Asked(j)

\* What a step leaves of a job, as the kernel sees it.
Moved(j, state, captured, reaped, held) ==
    /\ KernelState(j)' = state
    /\ job'[j].captured = captured
    /\ job'[j].reaped = reaped
    /\ Held(j)' <=> held

\* Nothing the kernel sees...
Leaves(j) == Moved(j, KernelState(j), job[j].captured, job[j].reaped, Held(j))

\* ... or what one of its actions does.
MovesTo(j, state) == Moved(j, state, job[j].captured, job[j].reaped, Held(j))
Starts(j) ==
    \/ job[j].st = "none" /\ MovesTo(j, "queued")
    \/ KernelState(j) = "queued" /\ (\E p \in Providers : Room(p)) /\ MovesTo(j, "placing")
    \/ /\ job[j].st = "placing" /\ ~Held(j)
       /\ Moved(j, "placing", job[j].captured, job[j].reaped, TRUE)
    \/ job[j].st = "placing" /\ Held(j) /\ MovesTo(j, "placed")
    \/ job[j].st = "placing" /\ ~Held(j) /\ MovesTo(j, "queued")
Ends(j) ==
    \/ job[j].st = "running" /\ \E result \in {"succeeded", "failed"} : MovesTo(j, result)
    \/ KernelState(j) \in {"queued", "placed"} /\ MovesTo(j, "cancelled")
    \/ KernelState(j) = "queued" /\ MovesTo(j, "failed")
    \/ /\ job[j].st \in {"running"} \union Terminal
       /\ Moved(j, KernelState(j), TRUE, job[j].reaped, Held(j))
    \/ IsTerminal(j) /\ job[j].captured /\ Moved(j, KernelState(j), TRUE, TRUE, FALSE)
    \/ /\ job[j].st = "running" /\ job[j].captured /\ Held(j)
       /\ Moved(j, "placed", TRUE, job[j].reaped, FALSE)
    \/ /\ job[j].st \in {"running"} \union Terminal /\ ~Held(j)
       /\ Moved(j, "queued", FALSE, FALSE, FALSE)
Moves(j) == Leaves(j) \/ Starts(j) \/ Ends(j)

\* A step that writes neither the record nor the registry.
LEMMA KernelLeft ==
  ASSUME NEW j \in Jobs, Alone(j), job'[j] = job[j],
         \A p \in Providers : <<p, j>> \in unreleased' <=> <<p, j>> \in unreleased
  PROVE  Moves(j) /\ Alone(j)'
BY DEF Moves, Leaves, Moved, KernelState, Held, Alone

\* Nothing is registered for a job that has no placement.
LEMMA NotHeld ==
  ASSUME NEW j \in Jobs, Alone(j), job[j].st \in {"none"} \union Pending
  PROVE  ~Held(j)
BY DEF Alone, Held, Occupying, Terminal, Pending

\* A step that registers nothing, for a job with nothing registered.
LEMMA FreeLeft ==
  ASSUME NEW j \in Jobs, ~Held(j), unreleased' = unreleased
  PROVE  ~Held(j)' /\ Alone(j)'
BY DEF Held, Alone

\* A placement that is resolved by a failure path.
LEMMA ResolvedMoves ==
  ASSUME NEW j \in Jobs, NEW attempts, NEW preempt \in BOOLEAN,
         JobInv, ItemInv, RestInv, Tracked(j), Alone(j), UNCHANGED unreleased,
         \/ Resolve(j, Unwound(j, attempts, preempt))
         \/ Resolve(j, Rolledback(j, attempts)) /\ ~Held(j)
  PROVE  Moves(j) /\ Alone(j)'
<1>0. job[j] \in JobRecord /\ job \in [Jobs -> JobRecord]
  BY DEF JobInv
<1>1. CASE job[j].st # "placing"
  <2>1. job'[j] = job[j]
    BY <1>1 DEF Resolve
  <2>2. QED
    BY <2>1, KernelLeft
<1>2. CASE job[j].st = "placing" /\ ~Held(j)
  <2>1. ~job[j].prv \/ job'[j] = Rolledback(j, attempts)
    BY <1>0, <1>2 DEF Tracked, MintTracked, Held, RestInv, Keys
  <2>2. job'[j] = Rolledback(j, attempts)
    BY <1>0, <1>2, <2>1 DEF Resolve, Unwound
  <2>3. /\ job'[j].st = "queued"
        /\ job'[j].captured = job[j].captured /\ job'[j].reaped = job[j].reaped
    BY <1>0, <2>2 DEF Rolledback, JobRecord
  <2>4. QED
    BY <1>2, <2>3, FreeLeft DEF Moves, Starts, MovesTo, Moved, KernelState
<1>3. CASE job[j].st = "placing" /\ Held(j)
  <2>1. PICK p \in Providers : <<p, j>> \in unreleased
    BY <1>3 DEF Held
  <2>2. job[j].prv /\ job[j].prov = p
    BY <1>3, <2>1 DEF Alone
  <2>3. job'[j] = [job[j] EXCEPT !.st = "running", !.lost = @ \/ ~preempt, !.attempts = attempts]
    BY <1>0, <1>3, <2>2 DEF Resolve, Unwound
  <2>4. /\ job'[j].st = "running" /\ job'[j].prov = job[j].prov
        /\ job'[j].captured = job[j].captured /\ job'[j].reaped = job[j].reaped
    BY <1>0, <2>3 DEF JobRecord
  <2>5. Held(j)' /\ Alone(j)'
    BY <1>3, <2>4 DEF Held, Alone, Occupying
  <2>6. QED
    BY <1>3, <2>4, <2>5 DEF Moves, Starts, MovesTo, Moved, KernelState
<1>4. QED
  BY <1>1, <1>2, <1>3

\* A placement that moves on, with its registry.
LEMMA PlacedMoves ==
  ASSUME NEW j \in Jobs, Alone(j), UNCHANGED unreleased, job'[j].prov = job[j].prov,
         job'[j].st \in {"running"} \union Terminal
  PROVE  (Held(j)' <=> Held(j)) /\ Alone(j)'
BY DEF Held, Alone, Occupying, Terminal

\* The steps of a job, as the kernel sees them.
LEMMA MoveStep ==
  ASSUME NEW j \in Jobs, JobInv, ItemInv, RestInv, Disciplined(j), Tracked(j), Placed(j),
         Alone(j), Asked(j), StepOf(j), \A p \in Providers : RentContended(j, p) => ~Held(j)
  PROVE  Moves(j) /\ Alone(j)'
<1> USE DEF store
<1>0. job[j] \in JobRecord /\ job \in [Jobs -> JobRecord]
  BY DEF JobInv
<1>1. CASE Handler(j)
  <2>1. CASE Submit(j)
    <3>1. ~Held(j) /\ ~job[j].captured /\ ~job[j].reaped /\ job[j].st = "none"
      BY <1>0, <2>1, NotHeld
         DEF Submit, Disciplined, EvidenceFresh, Placed, ReapedLast, IsTerminal, Terminal,
             JobRecord
    <3>2. job'[j].st = "queued" /\ ~job'[j].captured /\ ~job'[j].reaped /\ unreleased' = unreleased
      BY <1>0, <2>1 DEF Submit, Unplaced
    <3>3. job'[j].captured \in BOOLEAN /\ job'[j].reaped \in BOOLEAN
      BY <1>0, <2>1 DEF Submit, Unplaced
    <3>4. QED
      BY <1>0, <3>1, <3>2, <3>3, FreeLeft
         DEF Moves, Starts, MovesTo, Moved, KernelState, JobRecord
  <2>2. CASE Retry(j)
    <3>1. job'[j].st = "queued" /\ job'[j].captured = FALSE /\ job'[j].reaped = FALSE
      BY <1>0, <2>2 DEF Retry, Unplaced
    <3>2. QED
      BY <2>2, <3>1, FreeLeft DEF Retry, IsTerminal, Moves, Ends, Moved, KernelState
  <2>3. CASE CancelCheck(j) \/ CancelPut(j) \/ CancelSignal(j)
    BY <2>3, KernelLeft DEF CancelCheck, CancelPut, CancelSignal
  <2>4. QED
    BY <1>1, <2>1, <2>2, <2>3 DEF Handler
<1>2. CASE Adoption(j)
  BY <1>2, KernelLeft DEF Adoption, BootAdopt, Quarantine, BootSkip, PassAdopt
<1>3. CASE Decision(j)
  <2>1. CASE PassCancel(j) \/ PassCapture(j) \/ PassRelease(j)
    BY <2>1, KernelLeft DEF PassCancel, PassCapture, PassRelease
  <2>2. CASE PassRequeue(j)
    <3>1. job'[j].st = "queued" /\ job'[j].captured = FALSE /\ job'[j].reaped = FALSE
      BY <1>0, <2>2 DEF PassRequeue, Unplaced
    <3>2. QED
      BY <2>2, <3>1, FreeLeft DEF PassRequeue, IsDead, Moves, Ends, Moved, KernelState
  <2>3. CASE PassFail(j) \/ PassHold(j) \/ PassUnhold(j)
    <3>1. /\ job[j].st \in Pending /\ job'[j].st \in {"failed", "held", "queued"}
          /\ job'[j].captured = job[j].captured /\ job'[j].reaped = job[j].reaped
      BY <1>0, <2>3 DEF PassFail, PassHold, PassUnhold, JobRecord, Pending
    <3>2. ~Held(j) /\ ~Held(j)' /\ Alone(j)'
      BY <2>3, <3>1, NotHeld, FreeLeft DEF PassFail, PassHold, PassUnhold
    <3>3. QED
      BY <3>1, <3>2 DEF Moves, Leaves, Ends, MovesTo, Moved, KernelState, Pending
  <2>4. ASSUME NEW p \in Providers, PassReserve(j, p) PROVE Moves(j) /\ Alone(j)'
    <3>1. /\ job[j].st \in Pending /\ Room(p) /\ job'[j].st = "placing"
          /\ job'[j].captured = job[j].captured /\ job'[j].reaped = job[j].reaped
      BY <1>0, <2>4 DEF PassReserve, JobRecord
    <3>2. ~Held(j) /\ ~Held(j)' /\ Alone(j)'
      BY <2>4, <3>1, NotHeld, FreeLeft DEF PassReserve
    <3>3. QED
      BY <3>1, <3>2 DEF Moves, Starts, MovesTo, Moved, KernelState, Pending
  <2>5. QED
    BY <1>3, <2>1, <2>2, <2>3, <2>4 DEF Decision
<1>4. CASE PlaceStep(j)
  <2>1. CASE PutBoot(j)
    BY <2>1, KernelLeft DEF PutBoot
  <2>2. ASSUME NEW p \in Providers,
               \/ PlaceStart(j, p) \/ PlaceResume(j, p) \/ PlaceUnreachable(j, p)
               \/ ReadyDone(j, p)
        PROVE  Moves(j) /\ Alone(j)'
    BY <2>2, KernelLeft DEF PlaceStart, PlaceResume, PlaceUnreachable, ReadyDone
  <2>3. ASSUME NEW p \in Providers, PlaceNoHandle(j, p) \/ RentFailed(j, p) \/ BootFailed(j, p)
        PROVE  Moves(j) /\ Alone(j)'
    <3>1. PICK attempts : Resolve(j, Unwound(j, attempts, FALSE))
      BY <2>3 DEF PlaceNoHandle, RentFailed, BootFailed
    <3>2. UNCHANGED unreleased
      BY <2>3 DEF PlaceNoHandle, RentFailed, BootFailed
    <3>3. QED
      BY <3>1, <3>2, ResolvedMoves
  <2>4. ASSUME NEW p \in Providers, RentContended(j, p) PROVE Moves(j) /\ Alone(j)'
    BY <2>4, ResolvedMoves DEF RentContended
  <2>5. ASSUME NEW p \in Providers, RentDone(j, p) PROVE Moves(j) /\ Alone(j)'
    <3>1. job[j].st = "placing" /\ job[j].prov = p
      BY <2>5
         DEF RentDone, AtPlace, Disciplined, TaskMatches, PlacePC, PlaceOwns
    <3>2. /\ job'[j].st = "placing" /\ job'[j].prov = p /\ job'[j].prv = TRUE
          /\ job'[j].captured = job[j].captured /\ job'[j].reaped = job[j].reaped
      BY <1>0, <2>5, <3>1 DEF RentDone, Provisioned, JobRecord
    <3>3. unreleased' = unreleased \union {<<p, j>>}
      BY <2>5, <3>1 DEF RentDone, Provisioned
    <3>4. Held(j)' /\ Alone(j)'
      BY <3>1, <3>2, <3>3 DEF Held, Alone, Occupying
    <3>5. QED
      BY <3>1, <3>2, <3>4 DEF Moves, Leaves, Starts, MovesTo, Moved, KernelState
  <2>6. ASSUME NEW p \in Providers, LaunchDone(j, p) PROVE Moves(j) /\ Alone(j)'
    <3>1. job[j].st = "placing" /\ job[j].prv
      BY <2>6
         DEF LaunchDone, AtPlace, Disciplined, TaskMatches, PlacePC, PlaceOwns, Tracked,
             StagePrv
    <3>2. Held(j)
      BY <3>1 DEF Tracked, MintTracked, RestInv, Keys, Held
    <3>3. /\ job'[j].st = "running" /\ job'[j].prov = job[j].prov
          /\ job'[j].captured = job[j].captured /\ job'[j].reaped = job[j].reaped
      BY <1>0, <2>6, <3>1 DEF LaunchDone, JobRecord
    <3>4. (Held(j)' <=> Held(j)) /\ Alone(j)'
      BY <2>6, <3>3, PlacedMoves DEF LaunchDone
    <3>5. QED
      BY <3>1, <3>2, <3>3, <3>4 DEF Moves, Starts, MovesTo, Moved, KernelState
  <2>7. QED
    BY <1>4, <2>1, <2>2, <2>3, <2>4, <2>5, <2>6 DEF PlaceStep
<1>5. CASE CancelStep(j)
  <2>1. CASE \/ PreemptOther(j) \/ CancelMoot(j) \/ CancelBegin(j) \/ CancelStop(j)
             \/ CancelUnreachable(j) \/ CancelRefused(j)
    BY <2>1, KernelLeft
       DEF PreemptOther, CancelMoot, CancelBegin, CancelStop, CancelUnreachable,
           CancelRefused
  <2>2. CASE CancelUnwind(j)
    BY <2>2, ResolvedMoves DEF CancelUnwind
  <2>3. ASSUME NEW p \in Providers, PreemptPlace(j, p) PROVE Moves(j) /\ Alone(j)'
    BY <2>3, ResolvedMoves DEF PreemptPlace
  <2>4. CASE CancelApply(j)
    <3>1. CASE IsTerminal(j)
      BY <2>4, <3>1, KernelLeft DEF CancelApply
    <3>2. CASE ~IsTerminal(j)
      <4>1. job[j].st \in Pending \union {"running"}
        BY <1>0, <2>4, <3>2
           DEF CancelApply, Asked, Disciplined, StopLeft, JobRecord, JState, IsTerminal,
               Pending, Occupying
      <4>2. /\ job'[j].st = "cancelled" /\ job'[j].prov = job[j].prov
            /\ job'[j].captured = job[j].captured /\ job'[j].reaped = job[j].reaped
        BY <1>0, <2>4, <3>2 DEF CancelApply, JobRecord
      <4>3. (Held(j)' <=> Held(j)) /\ Alone(j)'
        BY <2>4, <4>2, PlacedMoves DEF CancelApply, Terminal
      <4>4. QED
        BY <4>1, <4>2, <4>3 DEF Moves, Ends, MovesTo, Moved, KernelState, Pending
    <3>3. QED
      BY <3>1, <3>2
  <2>5. QED
    BY <1>5, <2>1, <2>2, <2>3, <2>4 DEF CancelStep
<1>6. CASE SettleStep(j)
  <2>1. CASE SettleUnreachable(j)
    BY <2>1, KernelLeft DEF SettleUnreachable
  <2>2. ASSUME FinishCapture(j), UNCHANGED unreleased PROVE Moves(j) /\ Alone(j)'
    <3>1. /\ job'[j].st = job[j].st /\ job'[j].prov = job[j].prov
          /\ job'[j].prv = job[j].prv /\ job'[j].reaped = job[j].reaped
          /\ job'[j].captured = (job[j].captured \/ Capturable(j))
      BY <1>0, <2>2 DEF FinishCapture, JobRecord
    <3>2. (Held(j)' <=> Held(j)) /\ Alone(j)'
      BY <2>2, <3>1 DEF Held, Alone
    <3>3. KernelState(j)' = KernelState(j)
      BY <3>1 DEF KernelState
    <3>4. CASE Capturable(j)
      <4>1. job'[j].captured = TRUE
        BY <3>1, <3>4
      <4>2. QED
        BY <3>1, <3>2, <3>3, <3>4, <4>1 DEF Moves, Ends, Moved, Capturable, IsTerminal
    <3>5. CASE ~Capturable(j)
      <4>1. job'[j].captured = job[j].captured
        BY <1>0, <3>1, <3>5 DEF JobRecord
      <4>2. QED
        BY <3>1, <3>2, <3>3, <4>1 DEF Moves, Leaves, Moved
    <3>6. QED
      BY <3>4, <3>5
  <2>3. ASSUME NEW p \in Providers, CaptureDone(j, p) PROVE Moves(j) /\ Alone(j)'
    BY <2>2, <2>3 DEF CaptureDone
  <2>4. ASSUME NEW p \in Providers, CaptureFailed(j, p) PROVE Moves(j) /\ Alone(j)'
    <3>1. FinishCapture(j) \/ UNCHANGED job
      BY <2>4 DEF CaptureFailed
    <3>2. UNCHANGED unreleased
      BY <2>4 DEF CaptureFailed
    <3>3. QED
      BY <2>2, <3>1, <3>2, KernelLeft
  <2>5. ASSUME NEW p \in Providers, ReleaseFailed(j, p) PROVE Moves(j) /\ Alone(j)'
    BY <2>5, KernelLeft DEF ReleaseFailed
  <2>6. ASSUME NEW p \in Providers, ReleaseDone(j, p) PROVE Moves(j) /\ Alone(j)'
    <3>1. task[j].item.kind \in ReleaseKind /\ task[j].item.prov = p
      BY <2>6 DEF ReleaseDone, AtPlace, Disciplined, TaskMatches
    <3>2. /\ job'[j].st = job[j].st /\ job'[j].prov = job[j].prov
          /\ job'[j].prv = job[j].prv /\ job'[j].captured = job[j].captured
          /\ job'[j].reaped = (job[j].reaped \/ (task[j].item.kind = "reap" /\ IsTerminal(j)))
      BY <1>0, <2>6 DEF ReleaseDone, JobRecord
    <3>3. KernelState(j)' = KernelState(j)
      BY <3>2 DEF KernelState
    <3>4. Alone(j)'
      BY <2>6, <3>2 DEF ReleaseDone, Alone
    <3>5. CASE IF task[j].item.kind = "reap" THEN IsTerminal(j) ELSE job[j].st = "running"
      <4>1. job[j].captured = TRUE
        BY <1>0, <3>1, <3>5
           DEF Disciplined, ReleaseProved, IsTerminal, Terminal, Pending, JobRecord
      <4>2. unreleased' = unreleased \ {<<p, j>>}
        BY <2>6, <3>5 DEF ReleaseDone
      <4>3. \A q \in Providers : <<q, j>> \in unreleased => q = p
        BY <3>1, <3>5, ProviderAssumption
           DEF Alone, Placed, SettleOwns, SettleKind, IsTerminal
      <4>4. ~Held(j)'
        BY <4>2, <4>3 DEF Held
      <4>5. CASE task[j].item.kind = "reap"
        <5>1. IsTerminal(j) /\ job'[j].reaped = TRUE
          BY <3>2, <3>5, <4>5
        <5>2. QED
          BY <3>2, <3>3, <3>4, <4>1, <4>4, <5>1 DEF Moves, Ends, Moved
      <4>6. CASE task[j].item.kind # "reap"
        <5>1. job[j].st = "running" /\ job'[j].reaped = job[j].reaped
          BY <1>0, <3>2, <3>5, <4>6 DEF JobRecord
        <5>2. KernelState(j) = "placed"
          BY <5>1 DEF KernelState
        <5>3. CASE Held(j)
          BY <3>2, <3>3, <3>4, <4>1, <4>4, <5>1, <5>2, <5>3 DEF Moves, Ends, Moved
        <5>4. CASE ~Held(j)
          BY <3>2, <3>3, <3>4, <4>4, <5>1, <5>4 DEF Moves, Leaves, Moved
        <5>5. QED
          BY <5>3, <5>4
      <4>7. QED
        BY <4>5, <4>6
    <3>6. CASE ~(IF task[j].item.kind = "reap" THEN IsTerminal(j) ELSE job[j].st = "running")
      <4>1. unreleased' = unreleased
        BY <2>6, <3>6 DEF ReleaseDone
      <4>2. job'[j].reaped = job[j].reaped
        BY <1>0, <3>2, <3>6 DEF JobRecord
      <4>3. QED
        BY <3>2, <3>3, <3>4, <4>1, <4>2 DEF Moves, Leaves, Moved, Held
    <3>7. QED
      BY <3>5, <3>6
  <2>7. QED
    BY <1>6, <2>1, <2>3, <2>4, <2>5, <2>6 DEF SettleStep
<1>7. CASE Observation(j)
  <2>1. CASE StreamStart(j) \/ Forget(j)
    BY <2>1, KernelLeft DEF StreamStart, Forget
  <2>2. CASE Finish(j)
    <3>1. CASE job[j].st # "running"
      BY <2>2, <3>1, KernelLeft DEF Finish
    <3>2. CASE job[j].st = "running"
      <4>1. PICK result \in {"succeeded", "failed"} :
              job' = [job EXCEPT ![j].st = result, ![j].lost = FALSE]
        BY <2>2, <3>2 DEF Finish
      <4>2. /\ job'[j].st = result /\ job'[j].prov = job[j].prov
            /\ job'[j].captured = job[j].captured /\ job'[j].reaped = job[j].reaped
        BY <1>0, <4>1 DEF JobRecord
      <4>3. (Held(j)' <=> Held(j)) /\ Alone(j)'
        BY <2>2, <4>2, PlacedMoves DEF Finish, Terminal
      <4>4. KernelState(j)' = result
        BY <4>2 DEF KernelState
      <4>5. QED
        BY <3>2, <4>2, <4>3, <4>4 DEF Moves, Ends, MovesTo, Moved
    <3>3. QED
      BY <3>1, <3>2
  <2>3. CASE MarkDead(j)
    <3>1. /\ job'[j].st = job[j].st /\ job'[j].prov = job[j].prov /\ job[j].st = "running"
          /\ job'[j].captured = job[j].captured /\ job'[j].reaped = job[j].reaped
      BY <1>0, <2>3 DEF MarkDead, JobRecord
    <3>2. (Held(j)' <=> Held(j)) /\ Alone(j)'
      BY <2>3, <3>1, PlacedMoves DEF MarkDead
    <3>3. QED
      BY <3>1, <3>2 DEF Moves, Leaves, Moved, KernelState
  <2>4. QED
    BY <1>7, <2>1, <2>2, <2>3 DEF Observation
<1>8. CASE Timer(j)
  BY <1>8, KernelLeft DEF Timer, RetryDue, QuarantineEnds
<1>9. QED
  BY <1>1, <1>2, <1>3, <1>4, <1>5, <1>6, <1>7, <1>8 DEF StepOf

\* A job that was submitted stays known.
LEMMA StaysKnown ==
  ASSUME NEW j \in Jobs, JobInv, StepOf(j), job[j].st # "none"
  PROVE  job'[j].st # "none"
<1> SUFFICES ASSUME job'[j].st = "none" PROVE FALSE
  OBVIOUS
<1> USE DEF Terminal, store, process
<1>0. job \in [Jobs -> JobRecord] /\ job[j] \in JobRecord
  BY DEF JobInv
<1>1. \A attempts : Unplaced(attempts).st = "queued"
  BY DEF Unplaced
<1>2. ASSUME NEW attempts, NEW preempt \in BOOLEAN,
             Resolve(j, Unwound(j, attempts, preempt)) \/ Resolve(j, Rolledback(j, attempts))
      PROVE  FALSE
  <2>1. Rolledback(j, attempts).st = "queued" /\ Unwound(j, attempts, preempt).st \in {"queued", "running"}
    BY <1>0 DEF Unwound, Rolledback, JobRecord
  <2>2. \A rec : Resolve(j, rec) => job'[j].st \in {rec.st, job[j].st}
    BY <1>0 DEF Resolve
  <2>3. QED
    BY <1>2, <2>1, <2>2
<1>3. CASE Handler(j)
  BY <1>0, <1>1, <1>3 DEF Handler, Submit, CancelCheck, CancelPut, CancelSignal, Retry
<1>4. CASE Adoption(j)
  BY <1>4 DEF Adoption, BootAdopt, Quarantine, BootSkip, PassAdopt
<1>5. CASE Decision(j)
  <2>1. ~PassRequeue(j)
    BY <1>0, <1>1 DEF PassRequeue
  <2>2. ~(PassFail(j) \/ PassHold(j) \/ PassUnhold(j))
    BY <1>0 DEF PassFail, PassHold, PassUnhold, JobRecord
  <2>3. ASSUME NEW p \in Providers, PassReserve(j, p) PROVE FALSE
    BY <1>0, <2>3 DEF PassReserve, JobRecord
  <2>4. QED
    BY <1>5, <2>1, <2>2, <2>3 DEF Decision, PassCancel, PassCapture, PassRelease
<1>6. CASE PlaceStep(j)
  <2>1. ASSUME NEW p \in Providers,
               PlaceNoHandle(j, p) \/ RentContended(j, p) \/ RentFailed(j, p) \/ BootFailed(j, p)
        PROVE  FALSE
    BY <1>2, <2>1 DEF PlaceNoHandle, RentContended, RentFailed, BootFailed
  <2>2. ASSUME NEW p \in Providers, RentDone(j, p) PROVE FALSE
    BY <1>0, <2>2 DEF RentDone, JobRecord
  <2>3. ASSUME NEW p \in Providers, LaunchDone(j, p) PROVE FALSE
    BY <1>0, <2>3 DEF LaunchDone, JobRecord
  <2>4. QED
    BY <1>6, <2>1, <2>2, <2>3
       DEF PlaceStep, PutBoot, PlaceStart, PlaceResume, PlaceUnreachable, ReadyDone
<1>7. CASE CancelStep(j)
  <2>1. ~CancelUnwind(j)
    BY <1>2 DEF CancelUnwind
  <2>2. ~CancelApply(j)
    BY <1>0 DEF CancelApply, JobRecord
  <2>3. ASSUME NEW p \in Providers, PreemptPlace(j, p) PROVE FALSE
    BY <1>2, <2>3 DEF PreemptPlace
  <2>4. QED
    BY <1>7, <2>1, <2>2, <2>3
       DEF CancelStep, PreemptOther, CancelMoot, CancelBegin, CancelStop,
           CancelUnreachable, CancelRefused
<1>8. CASE SettleStep(j)
  <2>1. ASSUME NEW p \in Providers, CaptureDone(j, p) \/ CaptureFailed(j, p) PROVE FALSE
    BY <1>0, <2>1 DEF CaptureDone, CaptureFailed, FinishCapture, JobRecord
  <2>2. ASSUME NEW p \in Providers, ReleaseDone(j, p) PROVE FALSE
    BY <1>0, <2>2 DEF ReleaseDone, JobRecord
  <2>3. QED
    BY <1>8, <2>1, <2>2 DEF SettleStep, SettleUnreachable, ReleaseFailed
<1>9. CASE Observation(j) \/ Timer(j)
  <2>1. ~Finish(j) /\ ~MarkDead(j)
    BY <1>0 DEF Finish, MarkDead, JobRecord
  <2>2. QED
    BY <1>9, <2>1 DEF Observation, StreamStart, Forget, Timer, RetryDue, QuarantineEnds
<1>10. QED
  BY <1>3, <1>4, <1>5, <1>6, <1>7, <1>8, <1>9 DEF StepOf

\* Nothing is asked or done for a job before it is submitted, one step later.
LEMMA AskedStep ==
  ASSUME NEW j \in Jobs, JobInv, ItemInv, RestInv, Disciplined(j), Tracked(j), Asked(j),
         StepOf(j)
  PROVE  Asked(j)'
<1>1. CASE job[j].st # "none"
  BY <1>1, StaysKnown DEF Asked
<1>2. CASE job[j].st = "none"
  <2>1. /\ calling[j] = "idle" /\ j \notin cancels /\ canc[j] = "idle" /\ ~Open(j)
        /\ task[j].pc = "idle"
    BY <1>2 DEF Asked, Disciplined, TaskRowed
  <2>2. CASE Handler(j)
    <3>1. CASE Submit(j)
      BY <3>1 DEF Submit, Unplaced, JobInv, Asked
    <3>2. ~(CancelCheck(j) \/ CancelPut(j) \/ CancelSignal(j) \/ Retry(j))
      BY <1>2, <2>1 DEF CancelCheck, CancelPut, CancelSignal, Retry, IsTerminal, Terminal
    <3>3. QED
      BY <2>2, <3>1, <3>2 DEF Handler
  <2>3. CASE Adoption(j)
    <3>1. BootSkip(j)
      BY <2>1, <2>3 DEF Adoption, BootAdopt, Quarantine, PassAdopt, Adoptable
    <3>2. QED
      BY <2>1, <3>1 DEF BootSkip, store, Asked, Open
  <2>4. ~Decision(j)
    BY <1>2, <2>1
       DEF Decision, PassCancel, PassCapture, PassRelease, PassRequeue, PassFail, PassHold,
           PassUnhold, PassReserve, NeedsCapture, NeedsRelease, Unsettled, IsDead,
           IsTerminal, Terminal, Pending
  <2>5. ~PlaceStep(j)
    BY <1>2, <2>1
       DEF PlaceStep, PutBoot, PlaceStart, PlaceResume, PlaceNoHandle, RentDone,
           RentContended, RentFailed, PlaceUnreachable, ReadyDone, BootFailed, LaunchDone,
           AtPlace
  <2>6. ~CancelStep(j)
    BY <2>1
       DEF CancelStep, PreemptOther, PreemptPlace, Preempt, CancelMoot, CancelBegin,
           CancelUnwind, CancelStop, CancelUnreachable, CancelRefused, CancelApply
  <2>7. ~SettleStep(j)
    BY <2>1
       DEF SettleStep, SettleUnreachable, CaptureDone, CaptureFailed, ReleaseDone,
           ReleaseFailed, AtPlace
  <2>8. CASE Observation(j)
    <3>1. job' = job /\ intent' = intent /\ calling' = calling /\ cancels' = cancels /\ canc' = canc
      BY <1>2, <2>8
         DEF Observation, StreamStart, Finish, MarkDead, Forget, Observed, store
    <3>2. QED
      BY <2>1, <3>1 DEF Asked, Open
  <2>9. CASE Timer(j)
    <3>1. /\ job' = job /\ calling' = calling /\ cancels' = cancels /\ canc' = canc
          /\ intent'[j].kind = intent[j].kind
      BY <2>9 DEF Timer, RetryDue, QuarantineEnds, process, ItemInv, Row
    <3>2. QED
      BY <2>1, <3>1 DEF Asked, Open
  <2>10. QED
    BY <2>2, <2>3, <2>4, <2>5, <2>6, <2>7, <2>8, <2>9 DEF StepOf
<1>3. QED
  BY <1>1, <1>2

\* A step of one job leaves the handler of another where it is.
LEMMA CallingLocal ==
  ASSUME NEW j \in Jobs, NEW i \in Jobs \ {j}, RestInv, StepOf(j)
  PROVE  calling'[i] = calling[i]
<1>1. CASE Handler(j)
  BY <1>1
     DEF Handler, Submit, CancelCheck, CancelPut, CancelSignal, Retry, process, RestInv
<1>2. CASE Adoption(j) \/ SettleStep(j) \/ Observation(j) \/ Timer(j)
  BY <1>2
     DEF Adoption, BootAdopt, Quarantine, BootSkip, PassAdopt, SettleStep,
         SettleUnreachable, CaptureDone, CaptureFailed, ReleaseDone, ReleaseFailed,
         Observation, StreamStart, Finish, MarkDead, Forget, Timer, RetryDue,
         QuarantineEnds, process
<1>3. CASE Decision(j)
  BY <1>3
     DEF Decision, PassCancel, PassCapture, PassRelease, PassRequeue, PassFail, PassHold,
         PassUnhold, PassReserve, process
<1>4. CASE PlaceStep(j)
  BY <1>4
     DEF PlaceStep, PutBoot, PlaceStart, PlaceResume, PlaceNoHandle, RentDone,
         RentContended, RentFailed, PlaceUnreachable, ReadyDone, BootFailed, LaunchDone
<1>5. CASE CancelStep(j)
  BY <1>5
     DEF CancelStep, PreemptOther, PreemptPlace, CancelMoot, CancelBegin, CancelUnwind,
         CancelStop, CancelUnreachable, CancelRefused, CancelApply
<1>6. QED
  BY <1>1, <1>2, <1>3, <1>4, <1>5 DEF StepOf

\* A step of the system moves at most one job, as the kernel sees it.
OneMoves ==
    \/ \A i \in Jobs : Leaves(i)
    \/ \E j \in Jobs : Moves(j) /\ \A i \in Jobs \ {j} : Leaves(i)

\* A step that leaves a job alone.
LEMMA OthersLeft ==
  ASSUME NEW i \in Jobs, Alone(i), Same(i)
  PROVE  Leaves(i) /\ Alone(i)'
BY DEF Same, Leaves, Moved, KernelState, Held, Alone

\* A step of the system that keeps what is asked of each job.
LEMMA AskedKept ==
  ASSUME JobInv, ItemInv, RestInv, Discipline, AllTracked, AllAsked, [Next]_vars
  PROVE  AllAsked'
<1> SUFFICES ASSUME NEW i \in Jobs PROVE Asked(i)'
  BY DEF AllAsked
<1>0. Disciplined(i) /\ Tracked(i) /\ Asked(i)
  BY DEF Discipline, AllTracked, AllAsked
<1>1. ASSUME Same(i) /\ calling'[i] = calling[i] PROVE Asked(i)'
  BY <1>0, <1>1 DEF Same, Asked, Open
<1>2. ASSUME NEW j \in Jobs, StepOf(j) PROVE Asked(i)'
  <2>1. CASE i = j
    BY <1>0, <1>2, <2>1, AskedStep
  <2>2. CASE i # j
    BY <1>1, <1>2, <2>2, Local, CallingLocal
  <2>3. QED
    BY <2>1, <2>2
<1>3. ASSUME NEW k \in Keys, Provider(k) PROVE Asked(i)'
  <2>1. Same(i) /\ calling'[i] = calling[i]
    BY <1>3
       DEF Provider, WorkerExits, WorkerDies, OrphanLands, OrphanFails, Same, store,
           process
  <2>2. QED
    BY <1>1, <2>1
<1>4. CASE Crash
  BY <1>0, <1>4 DEF Crash, store, Asked, Open
<1>5. CASE UNCHANGED vars
  <2>1. Same(i) /\ calling'[i] = calling[i]
    BY <1>5 DEF vars, Same, store, process
  <2>2. QED
    BY <1>1, <2>1
<1>6. QED
  BY <1>2, <1>3, <1>4, <1>5 DEF Next, StepOf

\* A step of the system, but for the contended one.
LEMMA CleanStep ==
  ASSUME JobInv, ItemInv, RestInv, Discipline, AllTracked, AllPlaced, AllAlone, AllAsked,
         [Next]_vars, ~Contended
  PROVE  AllAlone' /\ OneMoves
<1>1. ASSUME \A i \in Jobs : Same(i)
      PROVE  AllAlone' /\ OneMoves
  BY <1>1, OthersLeft DEF AllAlone, OneMoves
<1>2. ASSUME NEW j \in Jobs, StepOf(j) PROVE AllAlone' /\ OneMoves
  <2>1. Disciplined(j) /\ Tracked(j) /\ Placed(j) /\ Alone(j) /\ Asked(j)
    BY DEF Discipline, AllTracked, AllPlaced, AllAlone, AllAsked
  <2>2. Moves(j) /\ Alone(j)'
    BY <1>2, <2>1, MoveStep DEF Contended
  <2>3. ASSUME NEW i \in Jobs \ {j} PROVE Leaves(i) /\ Alone(i)'
    <3>1. Same(i)
      BY <1>2, Local
    <3>2. Alone(i)
      BY DEF AllAlone
    <3>3. QED
      BY <3>1, <3>2, OthersLeft
  <2>4. QED
    BY <2>2, <2>3 DEF AllAlone, OneMoves
<1>3. ASSUME NEW k \in Keys, Provider(k) PROVE AllAlone' /\ OneMoves
  <2>1. \A i \in Jobs : Same(i)
    BY <1>3
       DEF Provider, WorkerExits, WorkerDies, OrphanLands, OrphanFails, Same, store,
           process
  <2>2. QED
    BY <1>1, <2>1
<1>4. CASE Crash
  <2>1. ASSUME NEW i \in Jobs PROVE Leaves(i) /\ Alone(i)'
    <3>1. job' = job /\ unreleased' = unreleased
      BY <1>4 DEF Crash, store
    <3>2. Alone(i)
      BY DEF AllAlone
    <3>3. QED
      BY <3>1, <3>2 DEF Leaves, Moved, KernelState, Held, Alone
  <2>2. QED
    BY <2>1 DEF AllAlone, OneMoves
<1>5. CASE UNCHANGED vars
  <2>1. \A i \in Jobs : Same(i)
    BY <1>5 DEF vars, Same, store, process
  <2>2. QED
    BY <1>1, <2>1
<1>6. QED
  BY <1>2, <1>3, <1>4, <1>5 DEF Next, StepOf

\* The kernel counts with its own operators.
LEMMA KernelCounts == ASSUME NEW S PROVE Global!Cardinality(S) = Cardinality(S)
BY DEF Cardinality, Global!Cardinality

\* A provider's placements, put on places of their own.
LEMMA Seats ==
  ASSUME NEW p \in Providers, CapInv
  PROVE  \E f \in Injection(Active(p), 1..Slots[p]) :
            Room(p) => \E n \in 1..Slots[p] : \A j \in Active(p) : f[j] # n
<1> DEFINE n == Cardinality(Active(p))
<1>1. IsFiniteSet(Active(p)) /\ n <= Slots[p] /\ n \in Nat /\ Slots[p] \in Nat
  BY FS_CardinalityType, SlotsAssumption DEF CapInv
<1>2. PICK g \in Bijection(1..n, Active(p)) : TRUE
  BY <1>1, FS_CardinalityType DEF ExistsBijection
<1>3. PICK f \in Bijection(Active(p), 1..n) : TRUE
  <2>1. ExistsBijection(1..n, Active(p))
    BY <1>2 DEF ExistsBijection
  <2>2. ExistsBijection(Active(p), 1..n)
    BY <2>1, Fun_ExistsBijSymmetric
  <2>3. QED
    BY <2>2 DEF ExistsBijection
<1>4. f \in Injection(Active(p), 1..Slots[p])
  BY <1>1, <1>3 DEF Bijection, Injection, Surjection, IsInjective
<1>5. Room(p) => Slots[p] \in 1..Slots[p] /\ \A j \in Active(p) : f[j] # Slots[p]
  BY <1>1, <1>3 DEF Room, Bijection, Injection
<1>6. QED
  BY <1>4, <1>5

\* The providers' places are finitely many.
LEMMA PlacesFinite == IsFiniteSet(Places)
<1> DEFINE Of(p) == {p} \X (1..Slots[p])
<1>1. ASSUME NEW p \in Providers PROVE IsFiniteSet(Of(p))
  <2>1. Slots[p] \in Nat
    BY SlotsAssumption
  <2>2. IsFiniteSet({p}) /\ IsFiniteSet(1..Slots[p])
    <3>1. IsFiniteSet({p})
      BY FS_Singleton
    <3>2. 1 \in Int /\ Slots[p] \in Int
      BY <2>1
    <3>3. IsFiniteSet(1..Slots[p])
      BY <3>2, FS_Interval
    <3>4. QED
      BY <3>1, <3>3
  <2>3. QED
    BY <2>2, FS_Product
<1>2. IsFiniteSet({Of(p) : p \in Providers})
  <2> DEFINE f == [p \in Providers |-> Of(p)]
  <2>1. f \in Surjection(Providers, {Of(p) : p \in Providers})
    BY DEF Surjection
  <2> HIDE DEF f, Of
  <2>2. QED
    BY <2>1, FleetAssumption, FS_Surjection
<1>3. QED
  BY <1>1, <1>2, FS_UNION DEF Places

\* A job that occupies a provider names it.
Seated(j) == job[j].st \in Occupying => job[j].prov \in Providers
AllSeated == \A j \in Jobs : Seated(j)

\* Only a reserve makes a job occupy a provider.
LEMMA SeatedStep == JobInv /\ ItemInv /\ RestInv /\ AllSeated /\ [Next]_vars => AllSeated'
<1> SUFFICES ASSUME JobInv, ItemInv, RestInv, AllSeated, [Next]_vars, NEW i \in Jobs
             PROVE  Seated(i)'
  BY DEF AllSeated
<1>0. Seated(i)
  BY DEF AllSeated
<1>1. ASSUME job'[i] = job[i] PROVE Seated(i)'
  BY <1>0, <1>1 DEF Seated
<1>2. ASSUME NEW j \in Jobs, StepOf(j) PROVE Seated(i)'
  <2>1. CASE i # j
    BY <1>1, <1>2, <2>1, Local DEF Same
  <2>2. ASSUME NEW p \in Providers, PassReserve(j, p), i = j PROVE Seated(i)'
    BY <2>2 DEF PassReserve, JobInv, JobRecord, Seated
  <2>3. CASE i = j /\ ~ \E p \in Providers : PassReserve(j, p)
    BY <1>0, <1>2, <2>3, StepStays DEF Stays, Seated
  <2>4. QED
    BY <2>1, <2>2, <2>3
<1>3. (\E k \in Keys : Provider(k)) \/ Crash \/ UNCHANGED vars => job' = job
  BY DEF Provider, WorkerExits, WorkerDies, OrphanLands, OrphanFails, Crash, vars, store
<1>4. QED
  BY <1>1, <1>2, <1>3 DEF Next, StepOf

\* Every job that occupies a provider has a place of its own, and a provider with
\* room leaves one empty: the kernel has room where the engine has.
LEMMA KernelRoom ==
  ASSUME JobInv, CapInv, AllSeated, NEW p \in Providers, Room(p)
  PROVE  Global!Room
<1> DEFINE Occupied == {j \in Jobs : job[j].st \in Occupying}
           Good(q, f) == /\ f \in Injection(Active(q), 1..Slots[q])
                         /\ Room(q) => \E n \in 1..Slots[q] : \A j \in Active(q) : f[j] # n
           seat == [q \in Providers |-> CHOOSE f : Good(q, f)]
           place == [j \in Occupied |-> <<job[j].prov, seat[job[j].prov][j]>>]
<1>1. \A q \in Providers : Good(q, seat[q])
  <2> SUFFICES ASSUME NEW q \in Providers PROVE Good(q, CHOOSE f : Good(q, f))
    OBVIOUS
  <2>1. PICK f : Good(q, f)
    BY Seats
  <2> HIDE DEF Good
  <2>2. QED
    BY <2>1
<1> HIDE DEF seat
<1>2. ASSUME NEW j \in Occupied
      PROVE  job[j].prov \in Providers /\ j \in Active(job[j].prov)
  BY DEF AllSeated, Seated, Active
<1>3. ASSUME NEW j \in Occupied
      PROVE  seat[job[j].prov][j] \in 1..Slots[job[j].prov]
  BY <1>1, <1>2 DEF Injection
<1>4. place \in [Occupied -> Places]
  BY <1>2, <1>3 DEF Places
<1>5. ASSUME NEW i \in Occupied, NEW j \in Occupied, place[i] = place[j] PROVE i = j
  <2>1. job[i].prov = job[j].prov /\ seat[job[i].prov][i] = seat[job[j].prov][j]
    BY <1>5
  <2>2. QED
    BY <1>1, <1>2, <2>1 DEF Injection, IsInjective
<1>6. place \in Injection(Occupied, Places)
  BY <1>4, <1>5 DEF Injection, IsInjective
<1>7. PICK n \in 1..Slots[p] : \A j \in Active(p) : seat[p][j] # n
  BY <1>1
<1>8. <<p, n>> \in Places /\ \A j \in Occupied : place[j] # <<p, n>>
  BY <1>2, <1>7 DEF Places
<1> HIDE DEF place
<1>9. place \notin Surjection(Occupied, Places)
  BY <1>8 DEF Surjection
<1>10. /\ IsFiniteSet(Occupied)
       /\ Cardinality(Occupied) <= Cardinality(Places)
       /\ Cardinality(Occupied) # Cardinality(Places)
  BY <1>6, <1>9, PlacesFinite, FS_Injection
<1>11. Cardinality(Occupied) \in Nat /\ Cardinality(Places) \in Nat
  BY <1>10, PlacesFinite, FS_CardinalityType
<1>12. Global!Active = Occupied
  <2>1. \A j \in Jobs : KernelState(j) \in {"placing", "placed"} <=> job[j].st \in Occupying
    BY DEF JobInv, JobRecord, JState, KernelState, Occupying, Pending, Terminal
  <2>2. QED
    BY <2>1 DEF Global!Active, Global!Occupying, States
<1> HIDE DEF Occupied
<1>13. QED
  BY <1>10, <1>11, <1>12, KernelCounts DEF Global!Room

\* What the kernel sees of a step that leaves all jobs but one: its variables
\* change at that job, and there only.
LEMMA Shifted ==
  ASSUME NEW j \in Jobs, \A i \in Jobs \ {j} : Leaves(i)
  PROVE  /\ States' = [States EXCEPT ![j] = KernelState(j)']
         /\ CapturedJobs' = IF job'[j].captured THEN CapturedJobs \union {j}
                            ELSE CapturedJobs \ {j}
         /\ ReapedJobs' = IF job'[j].reaped THEN ReapedJobs \union {j}
                          ELSE ReapedJobs \ {j}
         /\ HeldJobs' = IF Held(j)' THEN HeldJobs \union {j} ELSE HeldJobs \ {j}
<1>1. ASSUME NEW i \in Jobs \ {j}
      PROVE  /\ KernelState(i)' = KernelState(i)
             /\ job'[i].captured = job[i].captured /\ job'[i].reaped = job[i].reaped
             /\ Held(i)' <=> Held(i)
  BY <1>1 DEF Leaves, Moved
<1>2. States' = [States EXCEPT ![j] = KernelState(j)']
  BY <1>1 DEF States
<1>3. CapturedJobs' = IF job'[j].captured THEN CapturedJobs \union {j}
                      ELSE CapturedJobs \ {j}
  BY <1>1 DEF CapturedJobs
<1>4. ReapedJobs' = IF job'[j].reaped THEN ReapedJobs \union {j} ELSE ReapedJobs \ {j}
  BY <1>1 DEF ReapedJobs
<1>5. HeldJobs' = IF Held(j)' THEN HeldJobs \union {j} ELSE HeldJobs \ {j}
  BY <1>1 DEF HeldJobs
<1>6. QED
  BY <1>2, <1>3, <1>4, <1>5

\* A job is placing for the kernel exactly while it is for the engine.
LEMMA PlacingSeen == PlacingJobs = {j \in Jobs : States[j] = "placing"}
<1>1. ASSUME NEW j \in Jobs PROVE KernelState(j) = "placing" <=> job[j].st = "placing"
  BY DEF KernelState
<1>2. QED
  BY <1>1 DEF PlacingJobs, States

\* A job that moves for the kernel takes one of the kernel's actions.
LEMMA KernelStep ==
  ASSUME JobInv, CapInv, AllSeated, NEW j \in Jobs, \A i \in Jobs \ {j} : Leaves(i), Moves(j)
  PROVE  Global!Next \/ UNCHANGED Global!vars
<1>0. /\ States[j] = KernelState(j)
      /\ (j \in CapturedJobs <=> job[j].captured) /\ (j \in ReapedJobs <=> job[j].reaped)
      /\ (j \in HeldJobs <=> Held(j)) /\ (j \in PlacingJobs <=> job[j].st = "placing")
      /\ CapturedJobs \subseteq Jobs /\ ReapedJobs \subseteq Jobs /\ HeldJobs \subseteq Jobs
      /\ PlacingJobs \subseteq Jobs
      /\ DOMAIN States = Jobs
      /\ job[j].captured \in BOOLEAN /\ job[j].reaped \in BOOLEAN /\ Held(j) \in BOOLEAN
  BY DEF States, CapturedJobs, ReapedJobs, HeldJobs, PlacingJobs, JobInv, JobRecord, Held
<1>same. [States EXCEPT ![j] = KernelState(j)] = States
  BY DEF States
<1>sets. /\ (IF job[j].captured THEN CapturedJobs \union {j} ELSE CapturedJobs \ {j}) = CapturedJobs
       /\ (IF job[j].reaped THEN ReapedJobs \union {j} ELSE ReapedJobs \ {j}) = ReapedJobs
  BY DEF CapturedJobs, ReapedJobs
<1>held. (IF Held(j) THEN HeldJobs \union {j} ELSE HeldJobs \ {j}) = HeldJobs
  BY DEF HeldJobs
<1>1. /\ job[j].st = "none" => States[j] = "none"
      /\ job[j].st = "placing" => States[j] = "placing"
      /\ job[j].st = "running" => States[j] = "placed"
      /\ IsTerminal(j) => States[j] = job[j].st /\ States[j] \in Terminal
  BY <1>0 DEF KernelState, IsTerminal, Terminal
<1>2. ASSUME NEW state, MovesTo(j, state)
      PROVE  /\ States' = [States EXCEPT ![j] = state]
             /\ UNCHANGED <<CapturedJobs, ReapedJobs, HeldJobs>>
  <2>1. /\ KernelState(j)' = state
        /\ job'[j].captured = job[j].captured /\ job'[j].reaped = job[j].reaped
        /\ Held(j)' <=> Held(j)
    BY <1>2 DEF MovesTo, Moved
  <2>2. QED
    BY <1>sets, <1>held, <2>1, Shifted
<1>3. PlacingJobs' = {i \in Jobs : States'[i] = "placing"}
  <2>1. ASSUME NEW i \in Jobs PROVE KernelState(i)' = "placing" <=> job'[i].st = "placing"
    BY DEF KernelState
  <2>2. QED
    BY <2>1 DEF PlacingJobs, States
<1>4. PlacingJobs = {i \in Jobs : States[i] = "placing"}
  BY PlacingSeen
<1>5. ASSUME NEW state, States' = [States EXCEPT ![j] = state]
      PROVE  /\ state = "placing" => PlacingJobs' = PlacingJobs \union {j}
             /\ state # "placing" => PlacingJobs' = PlacingJobs \ {j}
  BY <1>0, <1>3, <1>4, <1>5
<1>6. CASE Leaves(j)
  <2>1. MovesTo(j, KernelState(j))
    BY <1>6 DEF Leaves, MovesTo
  <2>2. States' = States /\ UNCHANGED <<CapturedJobs, ReapedJobs, HeldJobs>>
    BY <1>2, <1>same, <2>1
  <2>3. PlacingJobs' = PlacingJobs
    BY <1>3, <1>4, <2>2
  <2>4. QED
    BY <2>2, <2>3 DEF Global!vars
<1>7. CASE Starts(j)
  <2>1. CASE job[j].st = "none" /\ MovesTo(j, "queued")
    <3>1. PlacingJobs' = PlacingJobs
      BY <1>0, <1>2, <1>5, <2>1
    <3>2. Global!Submit(j)
      BY <1>1, <1>2, <2>1, <3>1 DEF Global!Submit
    <3>3. QED
      BY <3>2 DEF Global!Next
  <2>2. CASE /\ KernelState(j) = "queued" /\ (\E p \in Providers : Room(p))
             /\ MovesTo(j, "placing")
    <3>1. PlacingJobs' = PlacingJobs \union {j} /\ j \notin PlacingJobs
      BY <1>0, <1>1, <1>2, <1>5, <2>2
    <3>2. Global!Room
      BY <2>2, KernelRoom
    <3>3. Global!Affordable(j)
      BY DEF Global!Affordable
    <3>4. Global!Reserve(j)
      BY <1>0, <1>2, <2>2, <3>1, <3>2, <3>3 DEF Global!Reserve
    <3>5. QED
      BY <3>4 DEF Global!Next
  <2>3. CASE /\ job[j].st = "placing" /\ ~Held(j)
             /\ Moved(j, "placing", job[j].captured, job[j].reaped, TRUE)
    <3>1. /\ KernelState(j)' = KernelState(j)
          /\ job'[j].captured = job[j].captured /\ job'[j].reaped = job[j].reaped
          /\ Held(j)'
      BY <1>0, <1>1, <2>3 DEF Moved
    <3>2. /\ States' = States /\ CapturedJobs' = CapturedJobs /\ ReapedJobs' = ReapedJobs
          /\ HeldJobs' = HeldJobs \union {j}
      BY <1>0, <1>1, <1>same, <1>sets, <1>held, <2>3, <3>1, Shifted
    <3>3. PlacingJobs' = PlacingJobs
      BY <1>3, <1>4, <3>2
    <3>4. Global!Provision(j)
      BY <1>0, <1>1, <2>3, <3>2, <3>3 DEF Global!Provision
    <3>5. QED
      BY <3>4 DEF Global!Next
  <2>4. CASE job[j].st = "placing" /\ Held(j) /\ MovesTo(j, "placed")
    <3>1. PlacingJobs' = PlacingJobs \ {j}
      BY <1>2, <1>5, <2>4
    <3>2. Global!Activate(j)
      BY <1>0, <1>1, <1>2, <2>4, <3>1 DEF Global!Activate
    <3>3. QED
      BY <3>2 DEF Global!Next
  <2>5. CASE job[j].st = "placing" /\ ~Held(j) /\ MovesTo(j, "queued")
    <3>1. PlacingJobs' = PlacingJobs \ {j}
      BY <1>2, <1>5, <2>5
    <3>2. Global!Void(j) = 0
      BY DEF Global!Void
    <3>3. Global!Rollback(j)
      BY <1>0, <1>1, <1>2, <2>5, <3>1, <3>2 DEF Global!Rollback
    <3>4. QED
      BY <3>3 DEF Global!Next
  <2>6. QED
    BY <1>7, <2>1, <2>2, <2>3, <2>4, <2>5 DEF Starts
<1>8. CASE Ends(j)
  <2>1. ASSUME NEW state, state # "placing", job[j].st # "placing",
               States' = [States EXCEPT ![j] = state]
        PROVE  PlacingJobs' = PlacingJobs
    BY <1>0, <1>5, <2>1
  <2>2. ASSUME NEW result \in {"succeeded", "failed"}, job[j].st = "running", MovesTo(j, result)
        PROVE  Global!Next
    <3>1. PlacingJobs' = PlacingJobs
      BY <1>2, <2>1, <2>2
    <3>2. Global!Finish(j)
      BY <1>1, <1>2, <2>2, <3>1 DEF Global!Finish
    <3>3. QED
      BY <3>2 DEF Global!Next
  <2>3. CASE KernelState(j) \in {"queued", "placed"} /\ MovesTo(j, "cancelled")
    <3>1. PlacingJobs' = PlacingJobs
      BY <1>0, <1>1, <1>2, <2>1, <2>3
    <3>2. Global!Cancel(j)
      BY <1>0, <1>2, <2>3, <3>1 DEF Global!Cancel
    <3>3. QED
      BY <3>2 DEF Global!Next
  <2>4. CASE KernelState(j) = "queued" /\ MovesTo(j, "failed")
    <3>1. PlacingJobs' = PlacingJobs
      BY <1>0, <1>1, <1>2, <2>1, <2>4
    <3>2. Global!FailQueued(j)
      BY <1>0, <1>2, <2>4, <3>1 DEF Global!FailQueued
    <3>3. QED
      BY <3>2 DEF Global!Next
  <2>5. CASE /\ job[j].st \in {"running"} \union Terminal
             /\ Moved(j, KernelState(j), TRUE, job[j].reaped, Held(j))
    <3>1. /\ KernelState(j)' = KernelState(j)
          /\ job'[j].captured = TRUE /\ job'[j].reaped = job[j].reaped
          /\ Held(j)' <=> Held(j)
      BY <2>5 DEF Moved
    <3>2. /\ States' = States /\ CapturedJobs' = CapturedJobs \union {j}
          /\ ReapedJobs' = ReapedJobs /\ HeldJobs' = HeldJobs
      BY <1>0, <1>1, <1>same, <1>sets, <1>held, <2>5, <3>1, Shifted
    <3>3. PlacingJobs' = PlacingJobs
      BY <1>3, <1>4, <3>2
    <3>4. Global!Capture(j)
      BY <1>1, <2>5, <3>2, <3>3 DEF Global!Capture, Global!Terminal, Terminal, IsTerminal
    <3>5. QED
      BY <3>4 DEF Global!Next
  <2>6. CASE IsTerminal(j) /\ job[j].captured /\ Moved(j, KernelState(j), TRUE, TRUE, FALSE)
    <3>1. /\ KernelState(j)' = KernelState(j)
          /\ job'[j].captured = TRUE /\ job'[j].reaped = TRUE
          /\ ~Held(j)'
      BY <2>6 DEF Moved
    <3>2. /\ States' = States /\ CapturedJobs' = CapturedJobs
          /\ ReapedJobs' = ReapedJobs \union {j} /\ HeldJobs' = HeldJobs \ {j}
      BY <1>0, <1>1, <1>same, <1>sets, <1>held, <2>6, <3>1, Shifted
    <3>3. PlacingJobs' = PlacingJobs
      BY <1>3, <1>4, <3>2
    <3>4. Global!Reap(j)
      BY <1>0, <1>1, <2>6, <3>2, <3>3 DEF Global!Reap, Global!Terminal, Terminal
    <3>5. QED
      BY <3>4 DEF Global!Next
  <2>7. CASE /\ job[j].st = "running" /\ job[j].captured /\ Held(j)
             /\ Moved(j, "placed", TRUE, job[j].reaped, FALSE)
    <3>1. /\ KernelState(j)' = KernelState(j)
          /\ job'[j].captured = TRUE /\ job'[j].reaped = job[j].reaped
          /\ ~Held(j)'
      BY <1>0, <1>1, <2>7 DEF Moved
    <3>2. /\ States' = States /\ CapturedJobs' = CapturedJobs
          /\ ReapedJobs' = ReapedJobs /\ HeldJobs' = HeldJobs \ {j}
      BY <1>0, <1>1, <1>same, <1>sets, <1>held, <2>7, <3>1, Shifted
    <3>3. PlacingJobs' = PlacingJobs
      BY <1>3, <1>4, <3>2
    <3>4. Global!ReleaseLost(j)
      BY <1>0, <1>1, <2>7, <3>2, <3>3 DEF Global!ReleaseLost
    <3>5. QED
      BY <3>4 DEF Global!Next
  <2>8. CASE /\ job[j].st \in {"running"} \union Terminal /\ ~Held(j)
             /\ Moved(j, "queued", FALSE, FALSE, FALSE)
    <3>1. /\ KernelState(j)' = "queued"
          /\ job'[j].captured = FALSE /\ job'[j].reaped = FALSE
          /\ ~Held(j)'
      BY <2>8 DEF Moved
    <3>2. /\ States' = [States EXCEPT ![j] = "queued"]
          /\ CapturedJobs' = CapturedJobs \ {j} /\ ReapedJobs' = ReapedJobs \ {j}
          /\ HeldJobs' = HeldJobs
      BY <1>0, <1>1, <1>same, <1>sets, <1>held, <2>8, <3>1, Shifted
    <3>3. PlacingJobs' = PlacingJobs
      BY <2>1, <2>8, <3>2 DEF Terminal
    <3>4. Global!Void(j) = 0
      BY DEF Global!Void
    <3>5. CASE job[j].st = "running"
      <4>1. Global!Requeue(j)
        BY <1>0, <1>1, <2>8, <3>1, <3>2, <3>3, <3>4, <3>5 DEF Global!Requeue
      <4>2. QED
        BY <4>1 DEF Global!Next
    <3>6. CASE IsTerminal(j)
      <4>1. Global!Retry(j)
        BY <1>0, <1>1, <2>8, <3>1, <3>2, <3>3, <3>6
           DEF Global!Retry, Global!Terminal, Terminal
      <4>2. QED
        BY <4>1 DEF Global!Next
    <3>7. QED
      BY <2>8, <3>5, <3>6 DEF IsTerminal
  <2>9. QED
    BY <1>8, <2>2, <2>3, <2>4, <2>5, <2>6, <2>7, <2>8 DEF Ends
<1>9. QED
  BY <1>6, <1>7, <1>8 DEF Moves

\* Every step of the engine is a step of the kernel or invisible to it, from the start
\* and for as long as no contention leaves a registered resource behind.
THEOREM StepsCorrect == Spec => ImplementsKernel
<1>1. Init => AllAlone /\ AllAsked /\ AllSeated /\ Global!Init
  <2> USE DEF Init
  <2>1. ASSUME Init PROVE AllAlone /\ AllAsked /\ AllSeated
    BY <2>1, NoRowFacts
       DEF AllAlone, Alone, AllAsked, Asked, AllSeated, Seated, Absent, Unplaced, Open,
           Occupying
  <2>2. ASSUME Init PROVE Global!Init
    <3>1. ASSUME NEW j \in Jobs
          PROVE  /\ KernelState(j) = "none" /\ job[j].st # "placing"
                 /\ job[j].captured = FALSE /\ job[j].reaped = FALSE /\ ~Held(j)
      BY <2>2 DEF KernelState, Absent, Unplaced, Held
    <3>2. QED
      BY <3>1 DEF Global!Init, States, CapturedJobs, ReapedJobs, PlacingJobs, HeldJobs
  <2>3. QED
    BY <2>1, <2>2
<1>2. Spec => []AllSeated
  <2>1. Init => AllSeated
    BY <1>1
  <2>2. QED
    BY <2>1, SeatedStep, Typed, PTL DEF Spec
<1>3. Spec => []AllAsked
  <2>1. Init => AllAsked
    BY <1>1
  <2>2. JobInv /\ ItemInv /\ RestInv /\ Discipline /\ AllTracked /\ AllAsked /\ [Next]_vars
        => AllAsked'
    BY AskedKept
  <2>3. QED
    BY <2>1, <2>2, Typed, Disciplines, Keeping, PTL DEF Spec
<1>4. JobInv /\ CapInv /\ AllSeated /\ OneMoves => [Global!Next]_(Global!vars)
  <2> SUFFICES ASSUME JobInv, CapInv, AllSeated, OneMoves
               PROVE  Global!Next \/ UNCHANGED Global!vars
    OBVIOUS
  <2>1. CASE \E j \in Jobs : Moves(j) /\ \A i \in Jobs \ {j} : Leaves(i)
    BY <2>1, KernelStep
  <2>2. CASE \A i \in Jobs : Leaves(i)
    <3>1. CASE Jobs = {}
      BY <3>1
         DEF Global!vars, States, CapturedJobs, ReapedJobs, PlacingJobs, HeldJobs
    <3>2. CASE Jobs # {}
      BY <2>2, <3>2, KernelStep DEF Moves
    <3>3. QED
      BY <3>1, <3>2
  <2>3. QED
    BY <2>1, <2>2 DEF OneMoves
<1> DEFINE Stepped == AllAlone => \/ Contended
                                  \/ /\ [Global!Next]_(Global!vars)
                                     /\ AllAlone'
<1>5. JobInv /\ ItemInv /\ RestInv /\ Discipline /\ AllTracked /\ AllPlaced /\ AllAsked
      /\ CapInv /\ AllSeated /\ [Next]_vars
      => [Stepped]_vars
  BY <1>4, CleanStep
<1>6. QED
  BY <1>1, <1>2, <1>3, <1>5, Typed, Disciplines, Keeping, Capacities, PTL
     DEF Spec, ImplementsKernel

\* Where contention never does that, the engine is the kernel.
THEOREM RefinementCorrect == Spec /\ Uncontended => Global!Spec
<1> DEFINE Stepped == AllAlone => \/ Contended
                                  \/ /\ [Global!Next]_(Global!vars)
                                     /\ AllAlone'
<1>1. AllAlone /\ [Stepped]_vars /\ [~Contended]_vars
      => AllAlone' /\ [Global!Next]_(Global!vars)
  <2>1. ASSUME UNCHANGED vars, AllAlone
        PROVE  AllAlone' /\ UNCHANGED Global!vars
    BY <2>1
       DEF vars, store, AllAlone, Alone, Global!vars, States, KernelState, CapturedJobs,
           ReapedJobs, PlacingJobs, HeldJobs, Held
  <2>2. QED
    BY <2>1
<1>2. QED
  BY <1>1, StepsCorrect, PTL DEF ImplementsKernel, Uncontended, Global!Spec
=============================================================================
