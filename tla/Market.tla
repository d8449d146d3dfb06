------------------------------- MODULE Market -------------------------------
(***************************************************************************)
(* Backend sections renting from one GPU market                            *)
(* (backends/marketplace.py over vast.py, runpod.py and thunder.py): the   *)
(* provider's shared throttle, the 429 retries of a request, the submit    *)
(* loop that rents, waits, stages and re-shops, and the cool-off that      *)
(* keeps every section away from an offer whose rental proved dead         *)
(* (endpoints/manager.py).                                                 *)
(*                                                                         *)
(* Every API answer may be late, an error, a rate limit, or lost after it  *)
(* took effect; the process may be killed at any step.                     *)
(***************************************************************************)
EXTENDS Naturals, FiniteSets

CONSTANTS
    Sections,           \* backend sections, one submit each
    Offers,
    Cheapest,           \* the offer every section was given by its first probe
    NoSection,
    Providers,          \* the providers to consider
    ProvisionAttempts,  \* provision_attempts
    Retries429,         \* api_429_retries
    MinInterval,        \* api_min_interval_s, in ticks
    Cooloff,            \* unreachable_cooloff_s, in ticks
    Polls,              \* polls before provision_timeout_s
    MaxFaults           \* bound: lost answers, errors, 429s and kills

ASSUME MarketAssumption ==
    /\ NoSection \notin Sections \cup Offers /\ Cheapest \in Offers
    /\ Providers \subseteq {"vast", "runpod", "thunder"}
    /\ {ProvisionAttempts, Polls} \subseteq Nat \ {0}
    /\ {Retries429, MinInterval, Cooloff, MaxFaults} \subseteq Nat

VARIABLES
    provider,
    sub,      \* each section's submit
    throttle, \* the shared Throttle: its lock's holder, ticks since the last call
    cool,     \* each offer's cool-off: its remaining ticks
    live,     \* the rented instances that bill
    known,    \* those a stub or a handle was given to the client for
    unheard,  \* ghost: rented without the section learning of it
    undead,   \* ghost: their termination failed and was swallowed
    faults

marketVars == <<provider, sub, throttle, cool, live, known, unheard, undead, faults>>

Instances == Sections \X (1..ProvisionAttempts)
Request == {"probe", "create", "poll", "terminate"}

Submit == [req : Request \cup {"none"},   \* the request under way
           pc : {"decide", "throttle", "sleep", "http", "stub", "ssh", "done", "failed", "killed"},
           left : 0..MinInterval,         \* the throttle's delay still to sleep
           tries : 0..Retries429,         \* 429s of this request
           attempt : 1..ProvisionAttempts, offer : Offers, tried : SUBSET Offers,
           polls : 0..Polls,
           dead : BOOLEAN,                \* the last rental proved unreachable
           since : 0..Cooloff]            \* ghost: ticks since it was given up

MarketTypeOK ==
    /\ provider \in Providers
    /\ sub \in [Sections -> Submit]
    /\ throttle \in [holder : Sections \cup {NoSection}, wait : 0..MinInterval]
    /\ cool \in [Offers -> 0..Cooloff]
    /\ live \subseteq Instances /\ known \subseteq Instances
    /\ unheard \subseteq Instances /\ undead \subseteq Instances
    /\ faults \in 0..MaxFaults

MarketInit ==
    /\ provider \in Providers
    /\ sub = [b \in Sections |->
                 [req |-> "create", pc |-> "throttle", left |-> 0, tries |-> 0, attempt |-> 1,
                  offer |-> Cheapest, tried |-> {}, polls |-> 0, dead |-> FALSE,
                  since |-> 0]]
    /\ throttle = [holder |-> NoSection, wait |-> 0]
    /\ cool = [o \in Offers |-> 0]
    /\ live = {} /\ known = {} /\ unheard = {} /\ undead = {} /\ faults = 0

SubmitAt(b, pc) == sub[b].pc = pc
Doing(b, req) == SubmitAt(b, "http") /\ sub[b].req = req
Rental(b) == <<b, sub[b].attempt>>
Fault == faults < MaxFaults /\ faults' = faults + 1

----------------------------------------------------------------------------
(***************************************************************************)
(* A request: _throttle, the call, and again after a 429.                  *)
(***************************************************************************)
Asks(s, req) == [s EXCEPT !.req = req, !.pc = "throttle", !.tries = 0]
Ends(s, pc) == [s EXCEPT !.req = "none", !.pc = pc]
Becomes(b, s) == sub' = [sub EXCEPT ![b] = s]

BugTakeThrottle(b) ==
    /\ SubmitAt(b, "throttle")
    /\ throttle' = [throttle EXCEPT !.holder = b]
    /\ Becomes(b, [sub[b] EXCEPT !.pc = "sleep", !.left = throttle.wait])
    /\ UNCHANGED <<provider, cool, live, known, unheard, undead, faults>>

\* Throttle.wait computes its delay and sleeps it with the lock held.
TakeThrottle(b) ==
    /\ SubmitAt(b, "throttle") /\ throttle.holder = NoSection
    /\ throttle' = [throttle EXCEPT !.holder = b]
    /\ Becomes(b, [sub[b] EXCEPT !.pc = "sleep", !.left = throttle.wait])
    /\ UNCHANGED <<provider, cool, live, known, unheard, undead, faults>>

LeaveThrottle(b) ==
    /\ SubmitAt(b, "sleep") /\ sub[b].left = 0
    /\ throttle' = [holder |-> NoSection, wait |-> MinInterval]
    /\ Becomes(b, [sub[b] EXCEPT !.pc = "http"])
    /\ UNCHANGED <<provider, cool, live, known, unheard, undead, faults>>

RateLimited(b) ==
    /\ SubmitAt(b, "http") /\ sub[b].tries < Retries429 /\ Fault
    /\ Becomes(b, [sub[b] EXCEPT !.pc = "throttle", !.tries = @ + 1])
    /\ UNCHANGED <<provider, throttle, cool, live, known, unheard, undead>>

----------------------------------------------------------------------------
(***************************************************************************)
(* After a failure with an instance rented: destroy it, then mark a dead   *)
(* offer, then re-shop or raise.                                           *)
(***************************************************************************)
BugTearDown(s, dead) == Ends(s, "failed")

TearDown(s, dead) == [Asks(s, "terminate") EXCEPT !.dead = dead]

\* The submit loop after a dead rental or a churned offer.
Reshop(s) ==
    IF s.attempt < ProvisionAttempts
    THEN [Asks(s, "probe") EXCEPT !.tried = @ \cup {s.offer}]
    ELSE Ends(s, "failed")

\* _create_instance: the offer was rented, and the sink is told of it next.
Rented(b) ==
    /\ Doing(b, "create")
    /\ live' = live \cup {Rental(b)}
    /\ Becomes(b, Ends(sub[b], "stub"))
    /\ UNCHANGED <<provider, throttle, cool, known, unheard, undead, faults>>

Stub(b) ==
    /\ SubmitAt(b, "stub")
    /\ known' = known \cup {Rental(b)}
    /\ Becomes(b, [Asks(sub[b], "poll") EXCEPT !.polls = 0])
    /\ UNCHANGED <<provider, throttle, cool, live, unheard, undead, faults>>

\* vast's churned ask (a 4xx, or no success in the answer) is re-shopped.
OfferGone(b) ==
    /\ Doing(b, "create") /\ provider = "vast"
    /\ Becomes(b, Reshop([sub[b] EXCEPT !.dead = FALSE]))
    /\ UNCHANGED <<provider, throttle, cool, live, known, unheard, undead, faults>>

\* Any other failure of the create raises; the rental may have happened all the
\* same (a lost answer, an answer without its id).
CreateFails(b) ==
    /\ Doing(b, "create") /\ Fault
    /\ \/ UNCHANGED <<live, unheard>>
       \/ live' = live \cup {Rental(b)} /\ unheard' = unheard \cup {Rental(b)}
    /\ Becomes(b, Ends(sub[b], "failed"))
    /\ UNCHANGED <<provider, throttle, cool, known, undead>>

\* _wait_provisioned: running with its ssh endpoint, not yet, or out of time.
PollRunning(b) ==
    /\ Doing(b, "poll")
    /\ Becomes(b, Ends(sub[b], "ssh"))
    /\ UNCHANGED <<provider, throttle, cool, live, known, unheard, undead, faults>>

PollNotYet(b) ==
    /\ Doing(b, "poll")
    /\ Becomes(b, IF sub[b].polls < Polls THEN [Asks(sub[b], "poll") EXCEPT !.polls = @ + 1]
                  ELSE TearDown(sub[b], TRUE))
    /\ UNCHANGED <<provider, throttle, cool, live, known, unheard, undead, faults>>

PollFails(b) ==
    /\ Doing(b, "poll") /\ Fault
    /\ Becomes(b, TearDown(sub[b], FALSE))
    /\ UNCHANGED <<provider, throttle, cool, live, known, unheard, undead>>

\* _wait_ssh gives up: sshd never answered within ssh_wait_timeout_s.
SshDead(b) ==
    /\ SubmitAt(b, "ssh")
    /\ Becomes(b, TearDown(sub[b], TRUE))
    /\ UNCHANGED <<provider, throttle, cool, live, known, unheard, undead, faults>>

\* Staged and launched detached: the handle is returned.
Launched(b) ==
    /\ SubmitAt(b, "ssh")
    /\ Becomes(b, Ends(sub[b], "done"))
    /\ UNCHANGED <<provider, throttle, cool, live, known, unheard, undead, faults>>

\* Staging or launching failed: the job's or the config's fault, not retried.
LaunchFails(b) ==
    /\ SubmitAt(b, "ssh") /\ Fault
    /\ Becomes(b, TearDown(sub[b], FALSE))
    /\ UNCHANGED <<provider, throttle, cool, live, known, unheard, undead>>

BugMarked(b) == cool

Marked(b) ==
    IF sub[b].dead THEN [cool EXCEPT ![sub[b].offer] = Cooloff] ELSE cool

AfterTeardown(b) == IF sub[b].dead THEN [Reshop(sub[b]) EXCEPT !.since = 0] ELSE Ends(sub[b], "failed")

\* Destroyed, or gone already (a 404).
Terminated(b) ==
    /\ Doing(b, "terminate")
    /\ live' = live \ {Rental(b)} /\ cool' = Marked(b)
    /\ Becomes(b, AfterTeardown(b))
    /\ UNCHANGED <<provider, throttle, known, unheard, undead, faults>>

\* The failure is swallowed; the stub the client keeps is what reclaims it later.
TerminateFails(b) ==
    /\ Doing(b, "terminate") /\ Fault
    /\ undead' = undead \cup {Rental(b)} /\ cool' = Marked(b)
    /\ Becomes(b, AfterTeardown(b))
    /\ UNCHANGED <<provider, throttle, live, known, unheard>>

----------------------------------------------------------------------------
(***************************************************************************)
(* probe and _reprobe_offer.                                               *)
(***************************************************************************)
Cooling(o) == cool[o] > 0

Fitting(market) == {o \in market : ~Cooling(o)}

\* An untried fitting offer, else a tried one; whatever the market shows now.
Reprobed(b) ==
    /\ Doing(b, "probe")
    /\ \E market \in SUBSET Offers :
          LET fit == Fitting(market)
              fresh == fit \ sub[b].tried
          IN  IF fit = {} THEN Becomes(b, Ends(sub[b], "failed"))
              ELSE \E o \in IF fresh = {} THEN fit ELSE fresh :
                     Becomes(b, [Asks(sub[b], "create") EXCEPT !.offer = o, !.attempt = @ + 1])
    /\ UNCHANGED <<provider, throttle, cool, live, known, unheard, undead, faults>>

\* A failed probe shows nothing that fits, which ends the loop.
ProbeFails(b) ==
    /\ Doing(b, "probe") /\ Fault
    /\ Becomes(b, Ends(sub[b], "failed"))
    /\ UNCHANGED <<provider, throttle, cool, live, known, unheard, undead>>

----------------------------------------------------------------------------
(***************************************************************************)
(* The process is killed; time passes.                                     *)
(***************************************************************************)
Over(b) == sub[b].pc \in {"done", "failed", "killed"}

\* Every section dies with the process; the locks and the cool-offs die with it.
Kill ==
    /\ Fault /\ \E b \in Sections : ~Over(b)
    /\ sub' = [b \in Sections |-> IF Over(b) THEN sub[b] ELSE Ends(sub[b], "killed")]
    /\ unheard' = unheard \cup {Rental(b) : b \in {s \in Sections : SubmitAt(s, "stub")}}
    /\ throttle' = [holder |-> NoSection, wait |-> 0]
    /\ cool' = [o \in Offers |-> 0]
    /\ UNCHANGED <<provider, live, known, undead>>

Less(n) == IF n = 0 THEN 0 ELSE n - 1

MarketTick ==
    /\ throttle' = [throttle EXCEPT !.wait = Less(@)]
    /\ sub' = [b \in Sections |-> [sub[b] EXCEPT !.left = Less(@),
                                                  !.since = IF @ < Cooloff THEN @ + 1 ELSE @]]
    /\ cool' = [o \in Offers |-> Less(cool[o])]
    /\ UNCHANGED <<provider, live, known, unheard, undead, faults>>

Answers(b) ==
    \/ Rented(b) \/ OfferGone(b) \/ CreateFails(b) \/ PollRunning(b) \/ PollNotYet(b)
    \/ PollFails(b) \/ Terminated(b) \/ TerminateFails(b) \/ Reprobed(b) \/ ProbeFails(b)
    \/ RateLimited(b)
SubmitSteps(b) ==
    \/ TakeThrottle(b) \/ LeaveThrottle(b) \/ Answers(b)
    \/ Stub(b) \/ SshDead(b) \/ Launched(b) \/ LaunchFails(b)

MarketNext == (\E b \in Sections : SubmitSteps(b)) \/ Kill \/ MarketTick

MarketSpec == MarketInit /\ [][MarketNext]_marketVars

----------------------------------------------------------------------------
(***************************************************************************)
(* Properties.                                                             *)
(***************************************************************************)
\* An instance bills only while its submit runs or with the client holding its
\* stub: a submit that failed left nothing but what it could not destroy, and a
\* kill leaves nothing but what a stub tells of (_submit_once).
NoLeak ==
    \A i \in live \ unheard :
        LET s == sub[i[1]]
            current == s.attempt = i[2] /\ ~(s.pc = "failed")
        IN  (current \/ i \in undead) /\ (i \in known \/ (current /\ s.pc = "stub"))

\* While an offer that proved dead for this submit is cooling, it does not rent
\* it again, even with nothing else on the market (_mark_unreachable_offer
\* before _reprobe_offer).
RentsElsewhere ==
    [][\A b \in Sections :
          sub[b].req = "probe" /\ sub'[b].req = "create" /\ sub'[b].offer = sub[b].offer
              => ~sub[b].dead \/ sub[b].since = Cooloff]_marketVars

\* Two calls to the provider are let through at least MinInterval apart, whichever
\* sections make them (Throttle.wait).
Spaced ==
    [][\A b \in Sections : SubmitAt(b, "sleep") /\ sub'[b].pc = "http" => throttle.wait = 0]_marketVars
=============================================================================
