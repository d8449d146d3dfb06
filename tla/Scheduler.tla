----------------------------- MODULE Scheduler -----------------------------
(***************************************************************************)
(* The scheduling pass and the money behind it: the pure function          *)
(* `schedule' (scheduler.py), the ledger it decides over (budget.py,       *)
(* engine/billing.py), the enactment of its decisions one at a time        *)
(* (engine.py) and what moves under it meanwhile: the handlers' threads,   *)
(* the outcomes of placements, the clock, a crash between two commits.     *)
(*                                                                         *)
(* The pass computes on one thread over a snapshot: while it matches       *)
(* nothing else steps, and the loop over the ranked jobs is one Match step *)
(* per job.  Its decisions are then enacted one transaction at a time,     *)
(* with the handlers' transactions in between.  The lifecycle of items,    *)
(* captures and releases is module Engine: a placement here fails,         *)
(* starts, dies with its resource released, finishes or is cancelled.      *)
(***************************************************************************)
EXTENDS Integers, Sequences, FiniteSetsExt

CONSTANTS
    JobSeq,        \* the jobs, in the order list_jobs returns them
    Providers,
    None,          \* a Python None
    Offers,        \* the slot lists a round of offers may gather
    Time,          \* Time[j]: the estimated runtime of j, or None
    Policies,      \* Policies[j]: the policies and dependencies j may be submitted with
    Cap,           \* Cap[w]: the ceiling of window w, or None
    Span,          \* Span[w]: the length of window w
    AllowPaid, MaxAttempts, Backoff, Avoidance,
    MaxNow, MaxUpsets      \* bounds of the model

Windows == {"day", "week"}
Jobs == {JobSeq[i] : i \in DOMAIN JobSeq}

Slots == [prov : Providers, key : STRING, setup : Nat, price : Nat \cup {None}, wait : Nat,
          cap : Nat, fits : SUBSET Jobs]
Policy == [priority : Int, finish : Int \cup {None}, maxCost : Nat \cup {None},
           pin : Providers \cup {None}, ignore : BOOLEAN, deps : SUBSET Jobs]

\* A job is listed once: its id is the table's key.
ASSUME SchedulerAssumption ==
    /\ MaxAttempts \in Nat \ {0} /\ Backoff \in Nat /\ Avoidance \in Nat
    /\ MaxNow \in Nat /\ MaxUpsets \in Nat
    /\ None \notin Int /\ None \notin Providers /\ AllowPaid \in BOOLEAN
    /\ JobSeq \in Seq(Jobs) /\ \A i, k \in DOMAIN JobSeq : JobSeq[i] = JobSeq[k] => i = k
    /\ \A w \in Windows : Span[w] \in Nat \ {0} /\ Cap[w] \in Nat \cup {None}
    /\ \A j \in Jobs : Time[j] \in Nat \cup {None} /\ Policies[j] \subseteq Policy
    /\ IsFiniteSet(Offers) /\ \A o \in Offers : o \in Seq(Slots)

VARIABLES
    job,       \* the record of each job
    pass,      \* the local variables of the running pass, and its decisions
    ledger,    \* the rows of each window
    now,
    upsets,    \* failures, requests and crashes so far
    crashes,
    torn,      \* ghost: jobs whose billing a crash cut short
    charged,   \* ghost: what the runs of each job really cost
    retried    \* ghost: jobs that were retried

vars == <<job, pass, ledger, now, upsets, crashes, torn, charged, retried>>
ghosts == <<torn, charged, retried>>

Terminal == {"SUCCEEDED", "FAILED", "CANCELLED"}
Pending == {"QUEUED", "HELD"}
Occupying == {"PLACING", "RUNNING"}

Absent == [state |-> "ABSENT", prov |-> None, cost |-> None, dead |-> FALSE, attempts |-> 0,
           error |-> FALSE, notBefore |-> 0, avoid |-> [p \in Providers |-> 0], submitted |-> 0,
           priority |-> 0, finish |-> None, maxCost |-> None, pin |-> None, ignore |-> FALSE,
           deps |-> {}]

Idle == [phase |-> "idle", at |-> 0, slots |-> <<>>, todo |-> {}, room |-> <<>>,
         used |-> {}, plan |-> <<>>]

----------------------------------------------------------------------------
(***************************************************************************)
(* The ledger.                                                             *)
(***************************************************************************)
SameWindow(w, s, t) == s \div Span[w] = t \div Span[w]

\* Sums over some of the rows of a window, some of the decisions of a plan.
AmountOf(rows, S) == MapThenSumSet(LAMBDA i : rows[i].amount, S)
CostOf(plan, S) == MapThenSumSet(LAMBDA i : plan[i].cost, S)

Total(w, t) == AmountOf(ledger[w], {i \in DOMAIN ledger[w] : SameWindow(w, ledger[w][i].at, t)})

CommittedOf(rows, j) == {i \in DOMAIN rows : rows[i].job = j /\ rows[i].kind = "committed"}

\* Mutant: what the pass committed so far is not counted.
BugReserved == 0

\* What the decisions of the running pass have set aside: `working'.
Reserved == CostOf(pass.plan, {i \in DOMAIN pass.plan : pass.plan[i].kind = "reserve"})

CanAfford(amount, t) ==
    \A w \in Windows : Cap[w] # None => Total(w, t) + Reserved + amount <= Cap[w]

Row(j, amount, kind, t) == [job |-> j, amount |-> amount, kind |-> kind, at |-> t]

\* The earliest committed row becomes the spend and keeps its date; with no
\* such row the spend is a row of its own, dated now.
Realized(rows, j, amount, t) ==
    LET mine == CommittedOf(rows, j)
        first == CHOOSE i \in mine : \A k \in mine :
                     rows[i].at < rows[k].at \/ (rows[i].at = rows[k].at /\ i <= k)
    IN  IF mine = {} THEN Append(rows, Row(j, amount, "spent", t))
        ELSE [rows EXCEPT ![first].kind = "spent", ![first].amount = amount]

\* One transaction per window, the day first: a crash may leave a prefix.
Written == {{}, {"day"}, Windows}

Commit(j, amount, ws) ==
    ledger' = [w \in Windows |->
                 IF w \in ws THEN Append(ledger[w], Row(j, amount, "committed", now))
                             ELSE ledger[w]]

\* Mutant: only the day's row is settled.
BugSettle(j, amount, ws) ==
    ledger' = [ledger EXCEPT !["day"] = IF ws = {} THEN @ ELSE Realized(@, j, amount, now)]

Settle(j, amount, ws) ==
    ledger' = [w \in Windows |->
                 IF w \in ws THEN Realized(ledger[w], j, amount, now) ELSE ledger[w]]

\* What goes wrong or is asked for, bounded.
Calm == upsets + crashes < MaxUpsets
Upset == Calm /\ upsets' = upsets + 1

\* Billing follows its job's commit in transactions of its own: whole, or
\* cut short by a crash that also ends whatever pass was being enacted.
Billed(j, ws, after) ==
    IF ws = Windows THEN pass' = after /\ UNCHANGED <<crashes, torn>>
    ELSE Calm /\ crashes' = crashes + 1 /\ torn' = torn \cup {j} /\ pass' = Idle

----------------------------------------------------------------------------
(***************************************************************************)
(* Predicates of the pass over one job and one slot.                       *)
(***************************************************************************)
IsFree(s) == s.price = None

Price(s, j) == IF IsFree(s) THEN 0
               ELSE IF Time[j] = None THEN None ELSE s.setup + s.price * Time[j]

MeetsDeadline(s, j, t) ==
    \/ job[j].finish = None
    \/ Time[j] = None
    \/ t + s.wait + Time[j] <= job[j].finish

Urgency(j, t) ==
    IF job[j].finish = None THEN 0
    ELSE t - (job[j].finish - (IF Time[j] = None THEN 0 ELSE Time[j]))

Position(j) == CHOOSE i \in DOMAIN JobSeq : JobSeq[i] = j

\* The ranking: priority, then urgency, then age; the sort is stable.
Before(j, k, t) ==
    LET p == job[j].priority    q == job[k].priority
        u == Urgency(j, t)      v == Urgency(k, t)
        a == job[j].submitted   b == job[k].submitted
    IN  \/ p > q
        \/ p = q /\ u > v
        \/ p = q /\ u = v /\ a < b
        \/ p = q /\ u = v /\ a = b /\ Position(j) < Position(k)

Active(p) == Cardinality({j \in Jobs : job[j].state \in Occupying /\ job[j].prov = p})

Allowed(j, s) == job[j].pin \in {None, s.prov}
Avoided(j, p, t) == t < job[j].avoid[p]
Fits(j, s) == j \in s.fits
Exhausted(j) == job[j].attempts >= MaxAttempts /\ job[j].error
BackingOff(j, t) == job[j].notBefore > t

DepFailed(j) == ~job[j].ignore
                /\ \E d \in job[j].deps : job[d].state \in {"FAILED", "CANCELLED", "ABSENT"}
DepWaiting(j) == \E d \in job[j].deps : job[d].state \in Pending \cup Occupying

----------------------------------------------------------------------------
(***************************************************************************)
(* What the pass decides of a job before it matches any.                   *)
(***************************************************************************)
Suited(j, offered) == {i \in DOMAIN offered : Allowed(j, offered[i])}
Satisfiable(j, offered) == \E i \in Suited(j, offered) : Fits(j, offered[i])

Gated(j) == Exhausted(j) \/ DepFailed(j) \/ DepWaiting(j)

Admittable(j, offered, t) ==
    /\ job[j].state \in Pending
    /\ ~Gated(j) /\ ~BackingOff(j, t)
    /\ Suited(j, offered) = {} \/ Satisfiable(j, offered)

Unfit(j, offered, t) ==
    /\ ~Gated(j) /\ ~BackingOff(j, t)
    /\ Suited(j, offered) # {} /\ ~Satisfiable(j, offered)

Verdict(j, offered, t) ==
    IF job[j].state \notin Pending
    THEN IF job[j].state = "RUNNING" /\ job[j].dead THEN "requeue" ELSE "none"
    ELSE IF Exhausted(j) \/ DepFailed(j) THEN "fail"
    ELSE IF job[j].state = "QUEUED"
    THEN IF DepWaiting(j) \/ Unfit(j, offered, t) THEN "hold" ELSE "none"
    ELSE IF Admittable(j, offered, t) /\ Satisfiable(j, offered) THEN "unhold" ELSE "none"

Decision(kind, j) == [kind |-> kind, job |-> j, prov |-> None, key |-> None, cost |-> 0]

\* One loop over the jobs as they are listed.
Admissions(offered, t) ==
    LET upto[n \in 0..Len(JobSeq)] ==
            IF n = 0 THEN <<>>
            ELSE LET v == Verdict(JobSeq[n], offered, t)
                 IN  IF v = "none" THEN upto[n - 1]
                     ELSE Append(upto[n - 1], Decision(v, JobSeq[n]))
    IN  upto[Len(JobSeq)]

----------------------------------------------------------------------------
(***************************************************************************)
(* The match of one job against what the pass has left.                    *)
(***************************************************************************)
Fitting(j) == {i \in DOMAIN pass.slots :
                 /\ pass.room[i] > 0 /\ pass.slots[i].key \notin pass.used
                 /\ Fits(j, pass.slots[i]) /\ Allowed(j, pass.slots[i])}

\* Providers that failed the job lately are passed over while there are others.
Candidates(j) ==
    LET liked == {i \in Fitting(j) : ~Avoided(j, pass.slots[i].prov, pass.at)}
    IN  IF liked # {} THEN liked ELSE Fitting(j)

Least(S, key(_)) == CHOOSE i \in S : \A k \in S : key(i) < key(k) \/ (key(i) = key(k) /\ i <= k)

Soonest(S) == Least(S, LAMBDA i : pass.slots[i].wait)

FreeSlots(j) == {i \in Candidates(j) : IsFree(pass.slots[i])}
FreeInTime(j) == {i \in FreeSlots(j) : MeetsDeadline(pass.slots[i], j, pass.at)}
PaidInTime(j) == {i \in Candidates(j) \ FreeSlots(j) :
                    AllowPaid /\ MeetsDeadline(pass.slots[i], j, pass.at)}

\* Known prices under every ceiling; an unknown one only where there is none
\* (the code asks the day's ledger for it, not the week's).
Affordable(j) == {i \in PaidInTime(j) :
                    LET c == Price(pass.slots[i], j)
                    IN  /\ c # None
                        /\ job[j].maxCost # None => c <= job[j].maxCost
                        /\ CanAfford(c, pass.at)}
Unpriced(j) == {i \in PaidInTime(j) : /\ Price(pass.slots[i], j) = None
                                      /\ job[j].maxCost = None /\ Cap["day"] = None}

Choice(j) ==
    IF FreeInTime(j) # {} THEN Soonest(FreeInTime(j))
    ELSE IF Affordable(j) # {} THEN Least(Affordable(j), LAMBDA i : Price(pass.slots[i], j))
    ELSE IF Unpriced(j) # {} THEN Least(Unpriced(j), LAMBDA i : i)
    ELSE IF FreeSlots(j) # {} THEN Soonest(FreeSlots(j))
    ELSE 0

Reserving(j, i) ==
    LET s == pass.slots[i]   c == Price(s, j)
    IN  [kind |-> "reserve", job |-> j, prov |-> s.prov, key |-> s.key,
         cost |-> IF c = None THEN 0 ELSE c]

\* Mutant: only the chosen slot loses a unit.
BugTaken(i) == [pass.room EXCEPT ![i] = @ - 1]

\* A Reserve takes one unit of every slot of its provider.
Taken(i) == [k \in DOMAIN pass.room |->
               IF pass.slots[k].prov = pass.slots[i].prov /\ pass.room[k] > 0
               THEN pass.room[k] - 1 ELSE pass.room[k]]

----------------------------------------------------------------------------
Init ==
    /\ job = [j \in Jobs |-> Absent]
    /\ pass = Idle
    /\ ledger = [w \in Windows |-> <<>>]
    /\ now = 0
    /\ upsets = 0 /\ crashes = 0
    /\ torn = {} /\ charged = [j \in Jobs |-> 0] /\ retried = {}

(***************************************************************************)
(* The pass.                                                               *)
(***************************************************************************)
\* Once every ranked job was looked at, the decisions are enacted, if any.
Onward(p) == IF p.todo # {} THEN p ELSE IF p.plan = <<>> THEN Idle ELSE [p EXCEPT !.phase = "enact"]

\* A pass that has nothing to decide and no job to match is a stutter.
PassBegin ==
    /\ pass.phase = "idle"
    /\ \E offered \in Offers :
         pass' = Onward(
                  [phase |-> "match", at |-> now, slots |-> offered,
                   todo |-> {j \in Jobs : Admittable(j, offered, now)},
                   room |-> [i \in DOMAIN offered |->
                               Max({0, offered[i].cap - Active(offered[i].prov)})],
                   used |-> {}, plan |-> Admissions(offered, now)])
    /\ UNCHANGED <<job, ledger, now, upsets, crashes, ghosts>>

Match ==
    /\ pass.phase = "match"
    /\ LET j == CHOOSE k \in pass.todo : \A o \in pass.todo \ {k} : Before(k, o, pass.at)
           i == Choice(j)
       IN  pass' = Onward(IF i = 0 THEN [pass EXCEPT !.todo = @ \ {j}]
                          ELSE [pass EXCEPT !.todo = @ \ {j}, !.room = Taken(i),
                                            !.used = @ \cup {pass.slots[i].key},
                                            !.plan = Append(@, Reserving(j, i))])
    /\ UNCHANGED <<job, ledger, now, upsets, crashes, ghosts>>

\* The decisions left after the head; a crash forgets them all.
Enacting(kind) == pass.phase = "enact" /\ Head(pass.plan).kind = kind
Rest == IF Len(pass.plan) = 1 THEN Idle ELSE [pass EXCEPT !.plan = Tail(@)]

\* Every enactment re-checks its job's state in a compare-and-set; by
\* PlanCurrent the check never fails, so the skip has no action of its own.
EnactReserve(ws) ==
    /\ Enacting("reserve")
    /\ LET d == Head(pass.plan)
       IN  /\ job[d.job].state \in Pending
           /\ job' = [job EXCEPT ![d.job].state = "PLACING", ![d.job].prov = d.prov,
                                 ![d.job].cost = IF d.cost > 0 THEN d.cost ELSE None]
           /\ \/ d.cost = 0 /\ ws = Windows /\ UNCHANGED <<ledger, crashes, torn>> /\ pass' = Rest
              \/ d.cost > 0 /\ Commit(d.job, d.cost, ws)
                 /\ Billed(d.job, ws, Rest)
    /\ UNCHANGED <<now, upsets, charged, retried>>

EnactHold ==
    /\ Enacting("hold") /\ job[Head(pass.plan).job].state = "QUEUED"
    /\ job' = [job EXCEPT ![Head(pass.plan).job].state = "HELD"] /\ pass' = Rest
    /\ UNCHANGED <<ledger, now, upsets, crashes, ghosts>>

EnactUnhold ==
    /\ Enacting("unhold") /\ job[Head(pass.plan).job].state = "HELD"
    /\ job' = [job EXCEPT ![Head(pass.plan).job].state = "QUEUED"] /\ pass' = Rest
    /\ UNCHANGED <<ledger, now, upsets, crashes, ghosts>>

EnactFail ==
    /\ Enacting("fail") /\ job[Head(pass.plan).job].state \in Pending
    /\ job' = [job EXCEPT ![Head(pass.plan).job].state = "FAILED"] /\ pass' = Rest
    /\ UNCHANGED <<ledger, now, upsets, crashes, ghosts>>

\* The settle or void that follows a job's commit, when it was a paid one.
Resolve(j, amount, ws, after) ==
    \/ job[j].cost = None /\ ws = Windows /\ pass' = after /\ UNCHANGED <<ledger, crashes, torn>>
    \/ job[j].cost # None /\ Settle(j, amount, ws)
       /\ Billed(j, ws, after)

Later(t) == IF t > MaxNow THEN MaxNow ELSE t

Queued(r) == [r EXCEPT !.state = "QUEUED", !.prov = None, !.cost = None, !.dead = FALSE]

EnactRequeue(ws) ==
    /\ Enacting("requeue")
    /\ LET j == Head(pass.plan).job
       IN  /\ job[j].state = "RUNNING"
           /\ job' = [job EXCEPT ![j] = [Queued(@) EXCEPT !.notBefore = Later(now + Backoff)]]
           /\ Resolve(j, 0, ws, Rest)
    /\ UNCHANGED <<now, upsets, charged, retried>>

----------------------------------------------------------------------------
(***************************************************************************)
(* The outcomes of placements: tasks of the same loop as the pass.         *)
(***************************************************************************)
\* A failure counts, is remembered, paces the job and avoids the provider.
Blamed(r) == [r EXCEPT !.attempts = r.attempts + 1, !.error = TRUE,
                       !.notBefore = Later(now + Backoff),
                       !.avoid = [r.avoid EXCEPT ![r.prov] = Later(now + Avoidance)]]

\* Nothing was minted: contention paces the job, anything else is a failure.
Rollback(j, ws) ==
    /\ pass.phase = "idle" /\ job[j].state = "PLACING" /\ Upset
    /\ \/ job' = [job EXCEPT ![j] = [Queued(@) EXCEPT !.notBefore = Later(now + Backoff)]]
       \/ job' = [job EXCEPT ![j] = Queued(Blamed(@))]
    /\ Resolve(j, 0, ws, pass)
    /\ UNCHANGED <<now, charged, retried>>

\* A failure after the mint leaves a dead placement.
PlaceDies(j) ==
    /\ pass.phase = "idle" /\ job[j].state = "PLACING" /\ Upset
    /\ job' = [job EXCEPT ![j] = [Blamed(@) EXCEPT !.state = "RUNNING", !.dead = TRUE]]
    /\ UNCHANGED <<pass, ledger, now, crashes, ghosts>>

Activate(j) ==
    /\ pass.phase = "idle" /\ job[j].state = "PLACING"
    /\ job' = [job EXCEPT ![j].state = "RUNNING"]
    /\ UNCHANGED <<pass, ledger, now, upsets, crashes, ghosts>>

WorkerDies(j) ==
    /\ pass.phase = "idle" /\ job[j].state = "RUNNING" /\ ~job[j].dead /\ Upset
    /\ job' = [job EXCEPT ![j].dead = TRUE]
    /\ UNCHANGED <<pass, ledger, now, crashes, ghosts>>

Charge(j) == charged' = [charged EXCEPT ![j] = @ + (IF job[j].cost = None THEN 0 ELSE job[j].cost)]

Finish(j, ok, ws) ==
    /\ pass.phase = "idle" /\ job[j].state = "RUNNING" /\ ~job[j].dead
    /\ job' = [job EXCEPT ![j].state = IF ok THEN "SUCCEEDED" ELSE "FAILED"]
    /\ Resolve(j, job[j].cost, ws, pass) /\ Charge(j)
    /\ UNCHANGED <<now, upsets, retried>>

ApplyCancel(j, ws) ==
    /\ pass.phase = "idle" /\ job[j].state \in Pending \cup Occupying
    /\ Upset
    /\ job' = [job EXCEPT ![j].state = "CANCELLED"]
    /\ Resolve(j, job[j].cost, ws, pass) /\ Charge(j)
    /\ UNCHANGED <<now, retried>>

----------------------------------------------------------------------------
(***************************************************************************)
(* The handlers: threads of their own, so also between two enactments.     *)
(***************************************************************************)
Handled(j) == pass.phase # "match" /\ UNCHANGED <<pass, ledger, now, crashes, torn, charged>>

Submit(j) ==
    /\ Handled(j) /\ job[j].state = "ABSENT"
    /\ \E p \in Policies[j] :
         /\ \A d \in p.deps : job[d].state # "ABSENT"
         /\ job' = [job EXCEPT ![j] =
                     [@ EXCEPT !.state = "QUEUED", !.submitted = now, !.priority = p.priority,
                             !.finish = p.finish, !.maxCost = p.maxCost, !.pin = p.pin,
                             !.ignore = p.ignore, !.deps = p.deps]]
    /\ UNCHANGED <<upsets, retried>>

\* The policy is rebuilt from three of its fields: what a failed dependency
\* means falls back to the default.
Reprioritize(j) ==
    /\ Handled(j) /\ Upset /\ job[j].state \in Pending \cup Occupying
    /\ \/ job' = [job EXCEPT ![j].priority = 1, ![j].ignore = FALSE]
       \/ \E m \in {None, 0} : job' = [job EXCEPT ![j].maxCost = m, ![j].ignore = FALSE]
    /\ UNCHANGED retried

\* Edit of a job that is not placed: the pin is one of the fields it may change.
Repin(j) ==
    /\ Handled(j) /\ Upset /\ job[j].state \in Pending
    /\ \E p \in Providers \cup {None} : job' = [job EXCEPT ![j].pin = p]
    /\ UNCHANGED retried

\* Mutant: retry takes any job that is not waiting.
BugRetry(j) ==
    /\ Handled(j) /\ Upset /\ job[j].state \notin Pending \cup {"ABSENT"}
    /\ job' = [job EXCEPT ![j] = [Queued(@) EXCEPT !.attempts = 0, !.error = FALSE]]
    /\ retried' = retried \cup {j}

\* The old placement's resource is released: module Engine has the guard.
Retry(j) ==
    /\ Handled(j) /\ Upset /\ job[j].state \in Terminal
    /\ job' = [job EXCEPT ![j] =
                 [Queued(@) EXCEPT !.attempts = 0, !.error = FALSE, !.notBefore = 0,
                                   !.avoid = Absent.avoid]]
    /\ retried' = retried \cup {j}

Tick ==
    /\ pass.phase # "match" /\ now < MaxNow /\ now' = now + 1
    /\ UNCHANGED <<job, pass, ledger, upsets, crashes, ghosts>>

----------------------------------------------------------------------------
Pass == PassBegin \/ Match

Enact == \/ EnactHold \/ EnactUnhold \/ EnactFail
         \/ \E ws \in Written : EnactReserve(ws) \/ EnactRequeue(ws)

Outcome(j) == \/ PlaceDies(j) \/ Activate(j) \/ WorkerDies(j)
              \/ \E ws \in Written : \/ Rollback(j, ws) \/ ApplyCancel(j, ws)
                                     \/ \E ok \in BOOLEAN : Finish(j, ok, ws)

Handler(j) == Submit(j) \/ Reprioritize(j) \/ Repin(j) \/ Retry(j)

Next == Pass \/ Enact \/ Tick \/ \E j \in Jobs : Outcome(j) \/ Handler(j)

Spec == Init /\ [][Next]_vars

----------------------------------------------------------------------------
(***************************************************************************)
(* Properties.                                                             *)
(***************************************************************************)
Decisions == [kind : {"reserve", "hold", "unhold", "fail", "requeue"}, job : Jobs,
              prov : Providers \cup {None}, key : STRING \cup {None}, cost : Nat]

\* Jobs, decisions and rows are what their tables hold; no failure path takes
\* the attempts past the cap that only the pass enforces.
TypeOK ==
    /\ \A j \in Jobs : /\ job[j].state \in Terminal \cup Pending \cup Occupying \cup {"ABSENT"}
                       /\ job[j].attempts \in 0..MaxAttempts
                       /\ job[j].cost \in Nat \cup {None}
    /\ pass.phase \in {"idle", "match", "enact"} /\ (pass.phase = "enact" => pass.plan # <<>>)
    /\ pass.todo \subseteq Jobs
    /\ \A i \in DOMAIN pass.plan : pass.plan[i] \in Decisions
    /\ \A w \in Windows : \A i \in DOMAIN ledger[w] :
         ledger[w][i] \in [job : Jobs, amount : Nat, kind : {"committed", "spent"}, at : 0..MaxNow]
    /\ torn \subseteq Jobs /\ retried \subseteq Jobs

\* In both windows a job's reservation is exactly the price of the paid
\* placement it holds, and its spend exactly what its runs cost: no path
\* (rollback, requeue, cancel, finish, retry) bills twice or forgets to bill,
\* unless a crash fell between the job's commit and its rows.
LedgerExact ==
    \A j \in Jobs \ torn, w \in Windows :
      LET rows == ledger[w]
          live == job[j].state \in Occupying /\ job[j].cost # None
      IN  /\ {rows[i].amount : i \in CommittedOf(rows, j)} = (IF live THEN {job[j].cost} ELSE {})
          /\ Cardinality(CommittedOf(rows, j)) <= 1
          /\ charged[j] = AmountOf(rows, {i \in DOMAIN rows : rows[i].job = j /\ rows[i].kind = "spent"})

\* The dearest placement any job can be billed for.
Dearest == Max({0} \cup {Price(s, j) : s \in UNION {{o[i] : i \in DOMAIN o} : o \in Offers},
                                      j \in {k \in Jobs : Time[k] # None}})

\* No window's total goes over its ceiling, through passes that span a window's
\* end and decisions enacted after the clock moved; each crash between a
\* commit and its rows can cost at most one placement beyond it.
BudgetKept == \A w \in Windows : Cap[w] # None => Total(w, now) <= Cap[w] + crashes * Dearest

\* What handlers do between two enactments never makes a decision out of date:
\* its job is still in the state it was decided from (an unhold may precede).
PlanCurrent ==
    \A i \in DOMAIN pass.plan :
      LET d == pass.plan[i]
      IN  /\ d.kind \in {"reserve", "fail"} => job[d.job].state \in Pending
          /\ d.kind = "hold" => job[d.job].state = "QUEUED"
          /\ d.kind = "unhold" => job[d.job].state = "HELD"
          /\ d.kind = "requeue" => job[d.job].state = "RUNNING" /\ job[d.job].dead

\* One offer never backs two Reserves of a pass, and no job is placed twice
\* by one (SCHED-11).
DistinctOffers ==
    \A i, k \in DOMAIN pass.plan :
      i # k /\ pass.plan[i].kind = "reserve" /\ pass.plan[k].kind = "reserve"
        => pass.plan[i].key # pass.plan[k].key /\ pass.plan[i].job # pass.plan[k].job

\* No job is about to pay while a free slot that serves it in time is left
\* over by the same pass (I8).
FreeLeft ==
    \E i \in DOMAIN pass.plan :
      pass.plan[i].kind = "reserve" /\ pass.plan[i].cost > 0 /\
        \E k \in FreeInTime(pass.plan[i].job) : ~Avoided(pass.plan[i].job, pass.slots[k].prov, pass.at)
FreeFirst == [][pass.phase = "match" => ~FreeLeft']_vars

\* Whatever handlers and placements did since the decision, a Reserve leaves
\* its provider within the capacity of the slot it takes.
WithinRoom ==
    [][\A p \in Providers : Active(p)' > Active(p) =>
         \E i \in DOMAIN pass.slots :
           /\ pass.slots[i].prov = p /\ pass.slots[i].key = Head(pass.plan).key
           /\ Active(p)' <= pass.slots[i].cap]_vars

\* A job is placed only after the jobs it depends on succeeded (or ended, if it
\* ignores their outcome), but one retried since the pass looked.
DepsMet ==
    [][\A j \in Jobs : job[j].state \in Pending /\ job'[j].state = "PLACING" =>
         \A d \in job[j].deps :
                            \/ job[d].state = "SUCCEEDED"
                            \/ d \in retried
                            \/ job[d].state \in Terminal /\ \E p \in Policies[j] : p.ignore]_vars

\* What a pass may put into its plan, and find there when it enacts it.
PlanSound == TypeOK /\ PlanCurrent /\ DistinctOffers

\* Where and when a job is placed: within the room there is at that moment, on a free
\* slot before a paid one, after what it depends on.
PlacedRightly == FreeFirst /\ WithinRoom /\ DepsMet
=============================================================================
