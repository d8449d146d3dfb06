------------------------------- MODULE Kernel -------------------------------
(***************************************************************************)
(* The lifecycle kernel: what the engine promises about every job,        *)
(* seen through the store alone.  It is the transition system that        *)
(* formal/OmnirunFormal states in Lean (Model.lean `Step', Exec.lean      *)
(* `apply') and that the replay validator holds the daemon's event log    *)
(* against, plus `retry', which the trace exporter presents as a fresh    *)
(* job.  The log length and the event count of the Lean state are left    *)
(* out: no guard reads them.                                              *)
(*                                                                         *)
(* Operators named Bug... are wrong variants of the definition that       *)
(* follows them; no action uses them (see README, "Mutants").             *)
(***************************************************************************)
EXTENDS Naturals, FiniteSets, Functions

CONSTANTS
    Jobs,    \* job ids
    Cost,    \* what a placement of each job commits
    Budget,  \* the spend allowed in the budget window
    Cap      \* placements the provider can hold

ASSUME JobsAssumption == IsFiniteSet(Jobs)
ASSUME CostAssumption == Cost \in [Jobs -> Nat]
ASSUME BudgetAssumption == Budget \in Nat
ASSUME CapAssumption == Cap \in Nat

VARIABLES
    st,        \* scheduler-level state of each job, "none" before submit
    captured,  \* jobs whose artifacts are durable for the current attempt
    reaped,    \* jobs whose placement is confirmed released
    intents,   \* jobs with an open write-ahead place intent
    ext,       \* jobs whose keyed provider resource is minted, unreleased
    spent      \* committed spend

vars == <<st, captured, reaped, intents, ext, spent>>

Terminal == {"succeeded", "failed", "cancelled"}
Occupying == {"placing", "placed"}
JState == {"none", "queued"} \union Occupying \union Terminal

Active == {j \in Jobs : st[j] \in Occupying}

\* Room for one more placement, and money for this one.
Room == Cardinality(Active) < Cap
Affordable(j) == spent + Cost[j] <= Budget

\* Spend given back is never below zero: natural-number subtraction.
BugVoid(j) == IF Cost[j] <= spent THEN 0 ELSE spent - Cost[j]
Void(j) == IF Cost[j] <= spent THEN spent - Cost[j] ELSE 0

Init ==
    /\ st = [j \in Jobs |-> "none"]
    /\ captured = {}
    /\ reaped = {}
    /\ intents = {}
    /\ ext = {}
    /\ spent = 0

Submit(j) ==
    /\ st[j] = "none"
    /\ st' = [st EXCEPT ![j] = "queued"]
    /\ UNCHANGED <<captured, reaped, intents, ext, spent>>

Reserve(j) ==
    /\ st[j] = "queued"
    /\ j \notin intents
    /\ Room
    /\ Affordable(j)
    /\ st' = [st EXCEPT ![j] = "placing"]
    /\ intents' = intents \union {j}
    /\ spent' = spent + Cost[j]
    /\ UNCHANGED <<captured, reaped, ext>>

Provision(j) ==
    /\ st[j] = "placing"
    /\ j \in intents
    /\ j \notin ext
    /\ ext' = ext \union {j}
    /\ UNCHANGED <<st, captured, reaped, intents, spent>>

Activate(j) ==
    /\ st[j] = "placing"
    /\ j \in intents
    /\ j \in ext
    /\ st' = [st EXCEPT ![j] = "placed"]
    /\ intents' = intents \ {j}
    /\ UNCHANGED <<captured, reaped, ext, spent>>

BugRollback(j) ==
    /\ st[j] = "placing"
    /\ j \in intents
    /\ st' = [st EXCEPT ![j] = "queued"]
    /\ intents' = intents \ {j}
    /\ spent' = Void(j)
    /\ UNCHANGED <<captured, reaped, ext>>

Rollback(j) ==
    /\ st[j] = "placing"
    /\ j \in intents
    /\ j \notin ext
    /\ st' = [st EXCEPT ![j] = "queued"]
    /\ intents' = intents \ {j}
    /\ spent' = Void(j)
    /\ UNCHANGED <<captured, reaped, ext>>

Finish(j) ==
    /\ st[j] = "placed"
    /\ \E result \in {"succeeded", "failed"} : st' = [st EXCEPT ![j] = result]
    /\ UNCHANGED <<captured, reaped, intents, ext, spent>>

\* A placing job is never cancelled in place: its intent is resolved first.
Cancel(j) ==
    /\ st[j] \in {"queued", "placed"}
    /\ st' = [st EXCEPT ![j] = "cancelled"]
    /\ UNCHANGED <<captured, reaped, intents, ext, spent>>

FailQueued(j) ==
    /\ st[j] = "queued"
    /\ st' = [st EXCEPT ![j] = "failed"]
    /\ UNCHANGED <<captured, reaped, intents, ext, spent>>

Capture(j) ==
    /\ st[j] = "placed" \/ st[j] \in Terminal
    /\ captured' = captured \union {j}
    /\ UNCHANGED <<st, reaped, intents, ext, spent>>

Reap(j) ==
    /\ st[j] \in Terminal
    /\ j \in captured
    /\ reaped' = reaped \union {j}
    /\ ext' = ext \ {j}
    /\ UNCHANGED <<st, captured, intents, spent>>

ReleaseLost(j) ==
    /\ st[j] = "placed"
    /\ j \in captured
    /\ j \in ext
    /\ ext' = ext \ {j}
    /\ UNCHANGED <<st, captured, reaped, intents, spent>>

Requeue(j) ==
    /\ st[j] = "placed"
    /\ j \notin ext
    /\ st' = [st EXCEPT ![j] = "queued"]
    /\ captured' = captured \ {j}
    /\ reaped' = reaped \ {j}
    /\ spent' = Void(j)
    /\ UNCHANGED <<intents, ext>>

\* The exporter gives the job a fresh alias on `retry', legal only once the
\* old alias holds nothing; over job ids that is a reset to queued.
Retry(j) ==
    /\ st[j] \in Terminal
    /\ j \notin ext
    /\ st' = [st EXCEPT ![j] = "queued"]
    /\ captured' = captured \ {j}
    /\ reaped' = reaped \ {j}
    /\ UNCHANGED <<intents, ext, spent>>

Next ==
    \E j \in Jobs :
        \/ Submit(j)
        \/ Reserve(j)
        \/ Provision(j)
        \/ Activate(j)
        \/ Rollback(j)
        \/ Finish(j)
        \/ Cancel(j)
        \/ FailQueued(j)
        \/ Capture(j)
        \/ Reap(j)
        \/ ReleaseLost(j)
        \/ Requeue(j)
        \/ Retry(j)

Spec == Init /\ [][Next]_vars

-----------------------------------------------------------------------------
(* Correctness.                                                            *)

\* Every variable has its type; the committed spend is a natural number.
TypeOK ==
    /\ st \in [Jobs -> JState]
    /\ captured \subseteq Jobs
    /\ reaped \subseteq Jobs
    /\ intents \subseteq Jobs
    /\ ext \subseteq Jobs
    /\ spent \in Nat

\* I1: commits never exceed the budget window, whatever is rolled back,
\* requeued or voided in between.
BudgetOK == spent <= Budget

\* I1, the other way: what is given back was committed, so the spend always
\* covers the placements that are still there and the budget is not
\* overdrawn later by one that was voided twice.
ActiveCovered == SumFunctionOnSet(Cost, Active) <= spent

\* I2: placements never exceed the provider's capacity.
CapOK == Cardinality(Active) <= Cap

\* I5: a minted resource always has an owner that will release it: an open
\* intent, or a job that is placed or terminal.
ExtTracked == \A j \in ext : j \in intents \/ st[j] = "placed" \/ st[j] \in Terminal

\* I6: a confirmed release implies that the artifacts were captured first.
ReapCaptured == reaped \subseteq captured

\* The evidence is of the current attempt: a job that is queued or placed
\* again starts without it.
CaptureFresh == \A j \in captured : st[j] = "placed" \/ st[j] \in Terminal

\* A job is placing exactly while its write-ahead intent is open, so that a
\* restarted engine can always resolve it.
PlacingIntent == \A j \in Jobs : st[j] = "placing" <=> j \in intents

\* The money and the room, together.
Accounts == BudgetOK /\ ActiveCovered /\ CapOK

\* The ownership of what was minted, together: no state of a job, and no intent, lets a
\* resource or the evidence of an attempt fall between two owners.
Ownership == PlacingIntent /\ ExtTracked /\ ReapCaptured /\ CaptureFresh

\* I6 over the whole placement, however long it lives: no resource leaves
\* the registry before the artifacts of its job were captured.
CaptureBeforeRelease ==
    [][\A j \in Jobs : j \in ext /\ j \notin ext' => j \in captured]_vars

\* I4: a job comes back to the queue only when its resource is confirmed
\* gone, by whichever of rollback, requeue and retry it comes back.
NeverTwice ==
    [][\A j \in Jobs : st[j] # "queued" /\ st'[j] = "queued" => j \notin ext']_vars
=============================================================================
