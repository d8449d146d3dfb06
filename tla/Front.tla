------------------------------- MODULE Front --------------------------------
(***************************************************************************)
(* How a client reaches the engine: the resident daemon with its slot      *)
(* refresher and its HTTP handlers (daemon.py), or the session a client    *)
(* builds for one verb when no daemon runs (client.py); the verbs they     *)
(* share (engine/verbs.py) and the loop that drives the engine             *)
(* (engine/engine.py).                                                     *)
(*                                                                         *)
(* Module Engine holds the work items; here a job is placed, fails, runs   *)
(* and ends in single steps, and what is followed is who wakes whom, over  *)
(* which gather a pass decides and what an answer says.  One verb runs at  *)
(* a time, beside one waiting client.                                      *)
(***************************************************************************)
EXTENDS Naturals, FiniteSets

CONSTANTS
    Jobs,
    None,
    MaxAsks,    \* bound: verbs issued and waits begun
    MaxFaults   \* bound: failed placements, releases and rounds, daemon restarts

ASSUME FrontAssumption == None \notin Jobs /\ {MaxAsks, MaxFaults} \subseteq Nat

VARIABLES
    resident,   \* a daemon runs; else every verb drives a session of its own
    job,
    resource,   \* "held": not yet captured and released
    cancels,    \* Engine._cancels
    parked,     \* work items that ended with their intent open: frozen unreachable, due
                \* another try, cut off as a session raised, or quarantined at a boot
    loop,       \* the engine's loop
    wake,       \* Engine._wake
    refresher,  \* the daemon's slot refresher
    slotsWake,  \* Daemon._slots_wake
    posted,     \* callbacks handed to the engine's thread, not yet run
    gathering,  \* the gather that holds _gather_guard, and the one waiting for it
    supply,     \* the cached slots
    verb,       \* the handler's (or the session's) progress
    watch,      \* RemoteClient.wait and its /events feed
    due,        \* ghost: jobs a verb queued or changed that no pass has looked at
                \* over slots gathered since
    asks, faults

engine == <<loop, wake, cancels, parked>>
slots == <<refresher, slotsWake, gathering>>
bounds == <<asks, faults>>
vars == <<resident, job, resource, engine, slots, posted, supply, verb, watch, due, bounds>>

Terminal == {"succeeded", "cancelled"}
Pending == {"queued", "held"}
State == Terminal \cup Pending \cup {"none", "placing", "running"}
Waiting == {j \in Jobs : job[j] \in Pending}

IdleVerb == [kind |-> "none", job |-> None, pc |-> "idle", read |-> "none", passed |-> "no"]
NoSupply == [any |-> FALSE, saw |-> {}, key |-> {}]
NoGather == [by |-> "none", saw |-> {}, some |-> FALSE, wanted |-> FALSE]
NoWatch == [pc |-> "off", job |-> None, until |-> "terminal", seen |-> "none",
            unread |-> FALSE, sent |-> FALSE]

GatherType == [by : {"none", "refresher", "verb"}, saw : SUBSET Jobs, some : BOOLEAN, wanted : BOOLEAN]
SupplyType == [any : BOOLEAN, saw : SUBSET Jobs, key : SUBSET Jobs]
VerbType ==
    [kind : {"none", "submit", "enqueue", "tick", "cancel", "edit", "retry", "gc"},
     job : Jobs \cup {None},
     pc : {"idle", "wake", "waiting", "gathering", "load", "intent", "count",
           "reload", "drive", "until", "after", "answered"},
     read : State, passed : {"no", "yes", "never"}]
WatchType ==
    [pc : {"off", "first", "connect", "snap", "listen", "rest", "done"},
     job : Jobs \cup {None}, until : {"terminal", "running"}, seen : State,
     unread : BOOLEAN, sent : BOOLEAN]

TypeOK ==
    /\ resident \in BOOLEAN
    /\ job \in [Jobs -> State] /\ resource \in [Jobs -> {"none", "held"}]
    /\ cancels \subseteq Jobs /\ parked \subseteq Jobs
    /\ loop \in {"off", "gather", "round", "work", "quiet", "between", "asleep", "tripped"}
    /\ wake \in BOOLEAN /\ slotsWake \in BOOLEAN
    /\ refresher \in {"off", "gather", "asleep", "tripped"}
    /\ posted \in 0..2
    /\ gathering \in GatherType /\ supply \in SupplyType
    /\ verb \in VerbType /\ watch \in WatchType
    /\ due \subseteq Jobs /\ asks \in 0..MaxAsks /\ faults \in 0..MaxFaults

Init ==
    /\ resident \in BOOLEAN
    /\ job = [j \in Jobs |-> "none"] /\ resource = [j \in Jobs |-> "none"]
    /\ cancels = {} /\ parked = {}
    /\ loop = IF resident THEN "tripped" ELSE "off"
    /\ refresher = IF resident THEN "tripped" ELSE "off"
    /\ wake = FALSE /\ slotsWake = FALSE /\ posted = 0 /\ gathering = NoGather
    /\ supply = NoSupply /\ verb = IdleVerb /\ watch = NoWatch /\ due = {}
    /\ asks = 0 /\ faults = 0

Fault == faults < MaxFaults /\ faults' = faults + 1 /\ UNCHANGED asks

\* While the feed is open an event of the watched job is waiting on it.
\* The cursor is fixed before the client takes its snapshot.
FeedOpen == watch.pc \in {"snap", "listen"}

\* Jobs move: each transition appends its event.
Move(states) ==
    /\ job' = states
    /\ watch' = IF FeedOpen /\ states[watch.job] # job[watch.job]
                THEN [watch EXCEPT !.unread = TRUE] ELSE watch
Set(j, state) == Move([job EXCEPT ![j] = state])

\* A gather made before this no longer speaks for the job.
Outdated(j) ==
    /\ supply' = [supply EXCEPT !.saw = @ \ {j}]
    /\ gathering' = [gathering EXCEPT !.saw = @ \ {j}]

----------------------------------------------------------------------------
(***************************************************************************)
(* Gathering slots (SlotGather.refresh).                                   *)
(***************************************************************************)
\* The jobs pending when the gather began, and whether it brought slots at all.
Gathered(any) == [any |-> any /\ gathering.some, saw |-> gathering.saw, key |-> {}]

GatherStarts(by) ==
    gathering' = [by |-> by, saw |-> due, some |-> Waiting # {},
                  wanted |-> IF by = "verb" THEN FALSE ELSE gathering.wanted]

\* Booting, nudged, or after the poll interval, once it has the guard.
RefresherGathers ==
    /\ refresher \in {"asleep", "tripped"} /\ gathering.by = "none"
    /\ GatherStarts("refresher") /\ refresher' = "gather" /\ slotsWake' = FALSE
    /\ UNCHANGED <<resident, job, resource, engine, posted, supply, verb, watch, due, bounds>>

\* A handler's _refresh_slots_now gets the guard.
VerbGathers ==
    /\ gathering.wanted /\ gathering.by = "none"
    /\ GatherStarts("verb")
    /\ verb' = IF verb.pc = "waiting" THEN [verb EXCEPT !.pc = "gathering"] ELSE verb
    /\ UNCHANGED <<resident, job, resource, engine, refresher, slotsWake, posted, supply, watch, due,
                   bounds>>

Published(any) ==
    /\ supply' = Gathered(any) /\ wake' = TRUE
    /\ gathering' = [NoGather EXCEPT !.wanted = gathering.wanted]

BugRefresherPublishes ==
    /\ refresher = "gather"
    /\ \E any \in BOOLEAN : Published(any)
    /\ refresher' = "asleep" /\ slotsWake' = FALSE
    /\ UNCHANGED <<resident, job, resource, loop, cancels, parked, posted, verb, watch, due, bounds>>

RefresherPublishes ==
    /\ refresher = "gather"
    /\ \E any \in BOOLEAN : Published(any)
    /\ refresher' = "asleep"
    /\ UNCHANGED <<resident, job, resource, loop, cancels, parked, slotsWake, posted, verb, watch, due, bounds>>

\* The count of passes is read as the slots become visible.
VerbPublishes ==
    /\ gathering.by = "verb"
    /\ \E any \in BOOLEAN : Published(any)
    /\ verb' = IF verb.pc = "gathering" THEN [verb EXCEPT !.pc = "load", !.passed = "no"] ELSE verb
    /\ UNCHANGED <<resident, job, resource, loop, cancels, parked, refresher, slotsWake, posted, watch, due, bounds>>

\* The gather outlasts _GATHER_WAIT_S: wake, and poll without a count to compare with.
GatherSlow ==
    /\ verb.pc = "gathering" /\ posted = 0
    /\ verb' = [verb EXCEPT !.pc = "load", !.passed = "never"] /\ posted' = 2
    /\ UNCHANGED <<resident, job, resource, engine, slots, supply, watch, due, bounds>>

\* "slot refresh raised; continuing".
RefreshRaises ==
    /\ refresher = "gather" /\ Fault
    /\ refresher' = "tripped" /\ gathering' = [NoGather EXCEPT !.wanted = gathering.wanted]
    /\ UNCHANGED <<resident, job, resource, engine, slotsWake, posted, supply, verb, watch, due>>

\* Daemon.wake's two callbacks, in their order: the engine's wake, then the refresher's.
Callback ==
    /\ posted > 0 /\ posted' = posted - 1
    /\ wake' = (wake \/ posted = 2) /\ slotsWake' = (slotsWake \/ posted = 1)
    /\ UNCHANGED <<resident, job, resource, loop, cancels, parked, refresher, gathering, supply, verb, watch,
                   due, bounds>>

----------------------------------------------------------------------------
(***************************************************************************)
(* The engine: a round, the pass in it, the work it spawns.                *)
(***************************************************************************)
\* Once a job's work item or stream has changed the store it wakes the loop.
Working == IF resident THEN loop # "off" ELSE loop = "work"
Live(j) ==
    /\ j \notin parked
    /\ \/ job[j] = "placing"
       \/ j \in cancels /\ job[j] \notin Terminal \cup {"none"}
       \/ job[j] \in Terminal /\ resource[j] = "held"
Open(j) == j \in parked \/ Live(j)

\* A wake, the poll interval, or a session going on: the wake is cleared, the streams
\* and the silent jobs are observed, and the pass follows.
NextRound == loop' = "round" /\ wake' = FALSE

RoundStarts ==
    /\ loop \in {"asleep", "tripped"} /\ NextRound
    /\ UNCHANGED <<resident, job, resource, cancels, parked, slots, posted, supply, verb, watch, due, bounds>>

\* A session gathers again before a pass when the pending jobs have changed.
Regathers == ~resident /\ Waiting # {} /\ Waiting # supply.key

\* The verbs that compare the count of passes with an earlier one.
Counting == {"waiting", "gathering", "load", "intent", "count", "reload"}

BugBusy(states, back) == states # job

\* The pass has adopted or decided something, or a work item is live.
Busy(states, back) == states # job \/ back # {} \/ \E j \in Jobs : Live(j)

\* The items a pass takes up again: some whose timer is due, and every placement that
\* is to be cancelled, which the cancel ladder takes over.
TakenUp(back) == parked \cap {j \in cancels : job[j] = "placing"} \subseteq back

\* The scheduler's choice (module Scheduler): some pending jobs are reserved on
\* the slots supplied, the others stay queued or are held, those with an open intent
\* are left alone.  A cancel that came to nothing may stay asked for.
Pass(source) ==
    \E reserved \in SUBSET IF source.any THEN Waiting \ (cancels \cup parked) ELSE {} :
    \E held \in SUBSET (Waiting \ (reserved \cup parked)), back \in SUBSET parked,
       forgotten \in SUBSET {j \in cancels : job[j] \in Terminal} :
        LET states == [j \in Jobs |-> IF j \notin Waiting THEN job[j]
                                      ELSE IF j \in reserved THEN "placing"
                                      ELSE IF j \in cancels THEN "cancelled"
                                      ELSE IF j \in held THEN "held" ELSE "queued"]
        IN  /\ Move(states)
            /\ TakenUp(back) /\ parked' = parked \ (back \cup (Waiting \cap cancels))
            /\ due' = {j \in due \ source.saw : states[j] \in Pending}
            /\ cancels' = cancels \ (Waiting \cup forgotten)
            /\ supply' = IF resident THEN [source EXCEPT !.saw = {}] ELSE source
            /\ loop' = IF resident THEN "asleep"
                       ELSE IF Busy(states, back) THEN "work" ELSE "quiet"
            /\ verb' = IF verb.pc \in Counting /\ verb.passed = "no"
                       THEN [verb EXCEPT !.passed = "yes"] ELSE verb

RunPass ==
    /\ loop = "round"
    /\ IF Regathers
       THEN \E any \in BOOLEAN : Pass([any |-> any, saw |-> Waiting, key |-> Waiting])
       ELSE Pass(supply)
    /\ UNCHANGED <<resident, resource, wake, slots, posted, bounds>>

BugRoundRaises ==
    /\ resident /\ loop = "round" /\ Fault
    /\ loop' = "off"
    /\ UNCHANGED <<resident, job, resource, cancels, parked, wake, slots, posted, supply, verb, watch, due>>

\* "engine round raised; continuing": the loop sleeps as after any other round.
RoundRaises ==
    /\ resident /\ loop = "round" /\ Fault
    /\ loop' = "tripped"
    /\ UNCHANGED <<resident, job, resource, cancels, parked, wake, slots, posted, supply, verb, watch, due>>

Placed(j) ==
    /\ Working /\ job[j] = "placing" /\ j \notin parked
    /\ Set(j, "running") /\ resource' = [resource EXCEPT ![j] = "held"] /\ wake' = TRUE
    /\ UNCHANGED <<resident, loop, cancels, parked, slots, posted, supply, verb, due, bounds>>

\* A placement failed and was unwound, or its worker was lost, captured and released.
Requeued(j) ==
    /\ Working /\ job[j] \in {"placing", "running"} /\ j \notin parked /\ Fault
    /\ Set(j, "queued") /\ resource' = [resource EXCEPT ![j] = "none"] /\ wake' = TRUE
    /\ Outdated(j)
    /\ UNCHANGED <<resident, loop, cancels, parked, refresher, slotsWake, posted, verb, due>>

CancelDone(j) ==
    /\ Working /\ j \in cancels \ parked /\ job[j] \in {"placing", "running"}
    /\ Set(j, "cancelled") /\ cancels' = cancels \ {j} /\ wake' = TRUE
    /\ UNCHANGED <<resident, resource, loop, parked, slots, posted, supply, verb, due, bounds>>

\* The platform cannot honour it: the job runs on.
CancelFails(j) ==
    /\ Working /\ j \in cancels \ parked /\ job[j] = "running" /\ Fault
    /\ cancels' = cancels \ {j} /\ wake' = TRUE
    /\ UNCHANGED <<resident, job, resource, loop, parked, slots, posted, supply, verb, watch, due>>

\* Observed: an exit sentinel or a poll.
Finished(j) ==
    /\ Working \/ loop \in {"round", "quiet"}
    /\ job[j] = "running"
    /\ Set(j, "succeeded") /\ wake' = TRUE
    /\ UNCHANGED <<resident, resource, loop, cancels, parked, slots, posted, supply, verb, due, bounds>>

\* The capture and the release that follow a terminal placement.
Reaped(j) ==
    /\ Working /\ job[j] \in Terminal /\ resource[j] = "held" /\ j \notin parked
    /\ resource' = [resource EXCEPT ![j] = "none"] /\ wake' = TRUE
    /\ UNCHANGED <<resident, job, loop, cancels, parked, slots, posted, supply, verb, watch, due, bounds>>

\* Unreachable, or to be tried again later: a placement, a cancel, a capture or a release
\* ends with nothing changed but its intent's timer.
Freezes(j) ==
    /\ Working /\ Live(j) /\ job[j] \notin Pending /\ Fault
    /\ parked' = parked \cup {j} /\ wake' = TRUE
    /\ UNCHANGED <<resident, job, resource, loop, cancels, slots, posted, supply, verb, watch, due>>

----------------------------------------------------------------------------
(***************************************************************************)
(* A session: drives of the engine until nothing changes.                  *)
(***************************************************************************)
Drives(pc) == verb' = [verb EXCEPT !.pc = "drive"] /\ loop' = pc

DriveGathers ==
    /\ loop = "gather" /\ NextRound
    /\ \E any \in BOOLEAN :
          supply' = [any |-> any /\ Waiting # {}, saw |-> Waiting, key |-> Waiting]
    /\ UNCHANGED <<resident, job, resource, cancels, parked, slots, posted, verb, watch, due, bounds>>

\* asyncio.wait over the live items: the next round starts when all are done.
WorkDone ==
    /\ loop = "work" /\ (\A j \in Jobs : ~Live(j)) /\ NextRound
    /\ UNCHANGED <<resident, job, resource, cancels, parked, slots, posted, supply, verb, watch, due, bounds>>

\* Nothing observed, nothing decided, nothing live: unless a stream wakes it, quiescent.
Quiescent ==
    /\ loop = "quiet" /\ IF wake THEN NextRound ELSE loop' = "between" /\ UNCHANGED wake
    /\ UNCHANGED <<resident, job, resource, cancels, parked, slots, posted, supply, verb, watch, due, bounds>>

\* The verb has what it came for, or drives on (submit --wait).  Of the cancels asked
\* for, the ones whose intents are open outlive the session's engine.
DriveEnds ==
    /\ loop = "between"
    /\ \/ verb.kind \in {"submit", "tick"} /\ loop' = "gather" /\ UNCHANGED <<verb, supply, cancels>>
       \/ /\ loop' = "off" /\ supply' = NoSupply
          /\ cancels' = {j \in cancels \cap parked : job[j] \notin Terminal}
          /\ verb' = [verb EXCEPT !.pc = IF @ = "drive" /\ verb.kind \in {"edit", "retry", "gc"}
                                         THEN "after" ELSE "answered",
                                  !.read = IF verb.job = None THEN "none" ELSE job[verb.job]]
    /\ UNCHANGED <<resident, job, resource, wake, parked, slots, posted, watch, due, bounds>>

\* An item outlasts _ITEM_TIMEOUT_S: the verb raises, and the shutdown ends the items
\* with their intents open.
DriveRaises ==
    /\ loop = "work" /\ (\E j \in Jobs : Live(j)) /\ Fault
    /\ parked' = parked \cup {j \in Jobs : Live(j) /\ job[j] \notin Pending}
    /\ cancels' = {j \in cancels \cap parked' : job[j] \notin Terminal}
    /\ loop' = "off" /\ supply' = NoSupply /\ verb' = IdleVerb
    /\ UNCHANGED <<resident, job, resource, wake, slots, posted, watch, due>>

----------------------------------------------------------------------------
(***************************************************************************)
(* The verbs.                                                              *)
(***************************************************************************)
Asks(kind, j, pc) ==
    /\ verb.pc = "idle" /\ asks < MaxAsks /\ asks' = asks + 1
    /\ verb' = [IdleVerb EXCEPT !.kind = kind, !.job = j, !.pc = pc]
    /\ UNCHANGED faults
Goes(pc) == verb' = [verb EXCEPT !.pc = pc]
Returns == verb' = IdleVerb

\* submit_record; a daemon is then woken, a session driven.
Submit(j, kind) ==
    /\ job[j] = "none" /\ kind \in {"submit", "enqueue"}
    /\ Asks(kind, j, IF resident THEN "wake" ELSE IF kind = "submit" THEN "drive" ELSE "answered")
    /\ Set(j, "queued") /\ due' = due \cup {j}
    /\ loop' = IF ~resident /\ kind = "submit" THEN "gather" ELSE loop
    /\ UNCHANGED <<resident, resource, wake, cancels, parked, slots, posted, supply>>

\* POST /tick, or a client's catch-up.
TickVerb ==
    /\ Asks("tick", None, IF resident THEN "waiting" ELSE "drive")
    /\ gathering' = IF resident THEN [gathering EXCEPT !.wanted = TRUE] ELSE gathering
    /\ loop' = IF resident THEN loop ELSE "gather"
    /\ UNCHANGED <<resident, job, resource, wake, cancels, parked, refresher, slotsWake, posted, supply, watch, due>>

\* Daemon.wake; a submit's outcome is then collected by _await_settle.
Wake ==
    /\ verb.pc = "wake" /\ posted' = 2
    /\ IF verb.kind = "submit"
       THEN Goes("waiting") /\ gathering' = [gathering EXCEPT !.wanted = TRUE]
       ELSE Goes("answered") /\ UNCHANGED gathering
    /\ UNCHANGED <<resident, job, resource, engine, refresher, slotsWake, supply, watch, due, bounds>>

\* _await_settle's predicate: three reads and, once it holds, a fourth.
Load ==
    /\ verb.pc = "load" /\ verb.job # None
    /\ verb' = [verb EXCEPT !.read = job[verb.job],
                            !.pc = CASE job[verb.job] = "queued" -> "intent"
                                     [] job[verb.job] = "placing" -> "load"
                                     [] OTHER -> "reload"]
    /\ UNCHANGED <<resident, job, resource, engine, slots, posted, supply, watch, due, bounds>>

Intent ==
    /\ verb.pc = "intent"
    /\ Goes(IF Open(verb.job) THEN "load" ELSE "count")
    /\ UNCHANGED <<resident, job, resource, engine, slots, posted, supply, watch, due, bounds>>

Count ==
    /\ verb.pc = "count"
    /\ Goes(IF verb.passed = "yes" THEN "reload" ELSE "load")
    /\ UNCHANGED <<resident, job, resource, engine, slots, posted, supply, watch, due, bounds>>

Reload ==
    /\ verb.pc = "reload"
    /\ verb' = [verb EXCEPT !.pc = "answered", !.read = job[verb.job]]
    /\ UNCHANGED <<resident, job, resource, engine, slots, posted, supply, watch, due, bounds>>

\* POST /tick waits for a pass over its gather.
TickSeen ==
    /\ verb.pc = "load" /\ verb.kind = "tick" /\ verb.passed = "yes"
    /\ Goes("answered")
    /\ UNCHANGED <<resident, job, resource, engine, slots, posted, supply, watch, due, bounds>>

\* Timed out: the client is told "not yet", and asks again if it likes.
NotYet ==
    /\ verb.pc = "load"
    /\ Returns
    /\ UNCHANGED <<resident, job, resource, engine, slots, posted, supply, watch, due, bounds>>

\* The engine is asked and the handler waits; a session is driven.
Requests(js) ==
    /\ cancels' = cancels \cup {j \in js : job[j] \notin Terminal \cup {"none"}}
    /\ wake' = TRUE /\ UNCHANGED parked
    /\ loop' = IF resident THEN loop ELSE "gather"
WaitPc == IF resident THEN "until" ELSE "drive"

Cancel(j) ==
    /\ job[j] \notin Terminal \cup {"none"}
    /\ Asks("cancel", j, WaitPc) /\ Requests({j})
    /\ UNCHANGED <<resident, job, resource, slots, posted, supply, watch, due>>

\* gc --all; without it only the settled jobs are waited for.
Gc(all) ==
    /\ Asks("gc", None, WaitPc) /\ Requests(IF all THEN Jobs ELSE {})
    /\ UNCHANGED <<resident, job, resource, slots, posted, supply, watch, due>>

\* edit_job on a job not placed: the spec changes under it.
EditPending(j) ==
    /\ job[j] \in Pending
    /\ Asks("edit", j, IF resident THEN "wake" ELSE "answered")
    /\ Outdated(j) /\ due' = due \cup {j}
    /\ UNCHANGED <<resident, job, resource, engine, refresher, slotsWake, posted, watch>>

\* ... and on one placed but not started: it is cancelled first.
EditPlaced(j) ==
    /\ job[j] \in {"placing", "running"}
    /\ Asks("edit", j, WaitPc) /\ Requests({j})
    /\ UNCHANGED <<resident, job, resource, slots, posted, supply, watch, due>>

\* retry_job settles a placement that is not reaped before it looks at its resource.
Retry(j) ==
    /\ job[j] \in Terminal
    /\ Asks("retry", j, IF resource[j] = "none" THEN "after" ELSE WaitPc)
    /\ IF resource[j] = "none" THEN UNCHANGED <<cancels, parked, wake, loop>> ELSE Requests({})
    /\ UNCHANGED <<resident, job, resource, slots, posted, supply, watch, due>>

\* _wait_for, until it holds or times out.
Waited ==
    /\ verb.pc = "until"
    /\ Goes(IF verb.kind = "cancel" THEN "answered" ELSE "after")
    /\ UNCHANGED <<resident, job, resource, engine, slots, posted, supply, watch, due, bounds>>

\* requeue_transition.
Requeues(j) ==
    /\ Set(j, "queued") /\ Outdated(j) /\ due' = due \cup {j}
    /\ Goes(IF resident THEN "wake" ELSE "answered")

\* edit asks for the cancelled state, retry for a released resource.
MayRequeue ==
    IF verb.kind = "edit" THEN job[verb.job] = "cancelled"
    ELSE job[verb.job] \in Terminal /\ resource[verb.job] = "none"

Requeue ==
    /\ verb.pc = "after" /\ verb.kind \in {"edit", "retry"} /\ MayRequeue
    /\ Requeues(verb.job)
    /\ UNCHANGED <<resident, resource, engine, refresher, slotsWake, posted, bounds>>

\* The verb raises, or gc has swept.
Gives ==
    /\ verb.pc = "after" /\ ~(verb.kind \in {"edit", "retry"} /\ MayRequeue)
    /\ Goes("answered")
    /\ UNCHANGED <<resident, job, resource, engine, slots, posted, supply, watch, due, bounds>>

Answered ==
    /\ verb.pc = "answered" /\ Returns
    /\ UNCHANGED <<resident, job, resource, engine, slots, posted, supply, watch, due, bounds>>

----------------------------------------------------------------------------
(***************************************************************************)
(* RemoteClient.wait over the /events feed.                                *)
(***************************************************************************)
Settled(state) == state \in Terminal \/ (watch.until = "running" /\ state = "running")
Watches(w) ==
    /\ watch' = w
    /\ UNCHANGED <<resident, job, resource, engine, slots, posted, supply, verb, due, bounds>>
Refreshed(pc) ==
    IF Settled(job[watch.job]) THEN [NoWatch EXCEPT !.pc = "done"]
    ELSE [watch EXCEPT !.seen = job[watch.job], !.sent = FALSE, !.pc = pc]

WatchStarts(j, until) ==
    /\ resident /\ watch.pc = "off" /\ job[j] # "none" /\ verb.pc = "idle" /\ asks < MaxAsks /\ asks' = asks + 1
    /\ watch' = [NoWatch EXCEPT !.pc = "first", !.job = j, !.until = until]
    /\ UNCHANGED <<resident, job, resource, engine, slots, posted, supply, verb, due, faults>>

\* The first look, and the one after a feed has ended.
Look ==
    /\ watch.pc \in {"first", "rest"}
    /\ Watches(Refreshed("connect"))

BugConnect ==
    /\ watch.pc = "connect"
    /\ Watches([watch EXCEPT !.pc = "listen"])

\* The daemon fixes the cursor and says hello; then the client takes its snapshot.
Connect ==
    /\ watch.pc = "connect"
    /\ Watches([watch EXCEPT !.pc = "snap", !.seen = "none", !.unread = FALSE, !.sent = FALSE])

Snapshot ==
    /\ watch.pc = "snap"
    /\ Watches(Refreshed("listen"))

\* _serve_events sends what the store has past the cursor.
Serve ==
    /\ watch.pc = "listen" /\ watch.unread
    /\ Watches([watch EXCEPT !.unread = FALSE, !.sent = TRUE])

\* A frame of a watched job: its status is read again.
Frame ==
    /\ watch.pc = "listen" /\ watch.sent
    /\ Watches(Refreshed("listen"))

\* A keepalive: every status is read again.
Keepalive ==
    /\ watch.pc = "listen" /\ ~watch.unread /\ ~watch.sent
    /\ Watches(Refreshed("listen"))

----------------------------------------------------------------------------
(***************************************************************************)
(* The daemon stops and starts again: a cancel asked for in memory alone   *)
(* is lost, and items that crashed it again are quarantined.               *)
(***************************************************************************)
Restart ==
    /\ resident /\ Fault
    /\ loop' = "tripped" /\ wake' = FALSE /\ refresher' = "tripped" /\ slotsWake' = FALSE
    /\ posted' = 0 /\ gathering' = NoGather /\ supply' = NoSupply /\ verb' = IdleVerb
    /\ watch' = IF watch.pc \in {"connect", "snap", "listen"}
                THEN [watch EXCEPT !.pc = "rest", !.seen = "none", !.unread = FALSE,
                                   !.sent = FALSE]
                ELSE watch
    /\ cancels' \in SUBSET cancels
    /\ \E poisoned \in SUBSET {j \in Jobs : Open(j)} : parked' = parked \cup poisoned
    /\ UNCHANGED <<resident, job, resource, due>>

Gathers == RefresherGathers \/ VerbGathers
Publishes == RefresherPublishes \/ VerbPublishes
Handlers ==
    \/ GatherSlow \/ Wake \/ Load \/ Intent \/ Count \/ Reload \/ TickSeen \/ NotYet
    \/ Waited \/ Requeue \/ Gives \/ Answered
Loop == RoundStarts \/ RunPass \/ RoundRaises
Session == DriveGathers \/ WorkDone \/ Quiescent \/ DriveEnds \/ DriveRaises
Client ==
    \/ TickVerb \/ \E all \in BOOLEAN : Gc(all)
    \/ \E j \in Jobs : Cancel(j) \/ EditPending(j) \/ EditPlaced(j) \/ Retry(j)
    \/ \E j \in Jobs, kind \in {"submit", "enqueue"} : Submit(j, kind)
Work(j) ==
    \/ Placed(j) \/ Requeued(j) \/ CancelDone(j) \/ CancelFails(j) \/ Finished(j) \/ Reaped(j)
    \/ Freezes(j)
Watcher == Look \/ Connect \/ Snapshot \/ Serve \/ Frame
Watching == Watcher \/ Keepalive \/ \E j \in Jobs, u \in {"terminal", "running"} : WatchStarts(j, u)

Next ==
    \/ Gathers \/ Publishes \/ RefreshRaises \/ Handlers \/ Loop \/ Session \/ Client \/ Watching \/ Restart
    \/ Callback
    \/ \E j \in Jobs : Work(j)

Spec == Init /\ [][Next]_vars

\* The threads run, the event loop runs its callbacks and timers, a probe ends, and
\* the feed is served.  Nothing makes a client ask, a placement end or a keepalive
\* arrive.
Fairness ==
    /\ WF_vars(Gathers) /\ WF_vars(Publishes) /\ WF_vars(Callback)
    /\ WF_vars(Handlers) /\ WF_vars(Loop) /\ WF_vars(Watcher)

FairSpec == Spec /\ Fairness

----------------------------------------------------------------------------
(***************************************************************************)
(* Properties.                                                             *)
(***************************************************************************)
\* No wake is lost: with both loops asleep and nothing on its way to them, every job
\* a verb queued or changed has been looked at by a pass over slots gathered after
\* it, without any help from the poll timers (Daemon.wake, _slot_refresher).
CaughtUp ==
    resident /\ loop = "asleep" /\ ~wake /\ refresher = "asleep" /\ ~slotsWake /\ posted = 0
             /\ gathering = NoGather /\ verb.pc # "wake"
        => due = {}

\* A submit taken as settled for being visibly left in the queue was looked at by a
\* pass over slots gathered after it was accepted: by a daemon (_await_settle's last
\* branch) as by a session's drive.
QueuedWasSeen ==
    verb.kind = "submit" /\ verb.read = "queued"
            /\ verb.pc = (IF resident THEN "reload" ELSE "answered")
        => verb.job \notin due

\* A session ends with nothing in flight: every placement, cancel and follow-up it
\* leaves undone has its intent open for the next engine.  One that returns has cut
\* off none: each has frozen or waits for its next try (run_until_quiescent, _freeze).
DriveSettles ==
    ~resident /\ loop \in {"off", "between"} => \A j \in Jobs : ~Live(j)

\* A client on the feed is never blind: while what it knows of the job is out of
\* date, an event that will tell it is on its way (subscribe, then snapshot).
NeverBlind ==
    watch.pc = "listen" /\ watch.seen # job[watch.job] => watch.unread \/ watch.sent

\* A daemon catches up again and again, though rounds and gathers raise and though it
\* restarts: it has looked at every job handed to it, and no client still waits for a
\* job that has settled, the events of the feed alone having told it (run_forever,
\* _slot_refresher, RemoteClient.wait).
WaitOver == watch.pc \in {"off", "done"} \/ ~Settled(job[watch.job])
CatchesUp == resident => []<>(due = {} /\ WaitOver)

\* Nothing a verb did is missed: neither by the loops nor by the answer.
NothingMissed == TypeOK /\ CaughtUp /\ QueuedWasSeen
=============================================================================
