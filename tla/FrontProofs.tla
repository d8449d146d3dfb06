----------------------------- MODULE FrontProofs -----------------------------
(***************************************************************************)
(* No wake is lost, no answer is premature, no session leaves work behind  *)
(* and no client on the feed is blind: for every set of jobs and any       *)
(* number of verbs and faults.                                             *)
(*                                                                         *)
(* The invariant says for each job in due which step will look at it: one  *)
(* nudge or gather still to come, a gather under way that saw it, or the   *)
(* published slots that did with a wake for the pass over them.            *)
(***************************************************************************)
EXTENDS Front, TLAPS

----------------------------------------------------------------------------
(***************************************************************************)
(* The invariant.                                                          *)
(***************************************************************************)
\* What the daemon and a session never do of each other's.
ByMode ==
    IF resident
    THEN /\ loop \in {"asleep", "round", "tripped"}
         /\ refresher # "off" /\ verb.pc # "drive"
         /\ refresher = "gather" <=> gathering.by = "refresher"
    ELSE /\ loop \notin {"asleep", "tripped"}
         /\ refresher = "off" /\ posted = 0 /\ ~slotsWake
         /\ gathering.by = "none" /\ ~gathering.wanted
         /\ verb.pc \in {"idle", "drive", "after", "answered"}
         /\ loop # "off" <=> verb.pc = "drive"

\* Whom a verb and a watch are about, and whose gather a handler waits for.
Attending == watch.pc \in {"first", "connect", "snap", "listen", "rest"}
Subjects ==
    /\ Attending => watch.job \in Jobs
    /\ verb.job = None => verb.kind \in {"none", "tick", "gc"}
    /\ verb.kind = "none" => verb.pc = "idle"
    /\ verb.pc \in {"intent", "count", "reload"} => verb.job # None
    /\ verb.pc \in {"until", "after"} => verb.kind \in {"cancel", "edit", "retry", "gc"}
    /\ verb.pc = "gathering" => gathering.by = "verb"

Shape == ByMode /\ Subjects

\* A job still due is pending, and of one never submitted nothing is kept.
Known ==
    /\ \A j \in due : job[j] \in Pending
    /\ \A j \in Jobs : job[j] = "none" => j \notin supply.saw \cup gathering.saw \cup cancels

\* Somebody will look: a nudge or a first gather is to come, a gather under way
\* saw the job, or the slots published did and a pass over them is to come.
NudgeComes == verb.pc = "wake" \/ posted > 0 \/ slotsWake \/ refresher = "tripped"
GatherSaw(j) == gathering.by # "none" /\ j \in gathering.saw
PassComes == wake \/ loop \in {"round", "tripped"}
Expected ==
    resident => \A j \in due :
        NudgeComes \/ GatherSaw(j) \/ (PassComes /\ j \in supply.saw)

\* A gather under way takes over what the slots it replaces had seen.
Overtakes == gathering.by # "none" => due \cap supply.saw \subseteq gathering.saw

\* A submit's answer: from its gather to the pass that is counted for it.
Polling == verb.pc \in {"load", "intent", "count"}
AskedSeen ==
    resident /\ verb.kind = "submit" =>
        /\ verb.pc = "gathering" /\ verb.job \in due => verb.job \in gathering.saw
        /\ Polling /\ verb.passed = "no" /\ verb.job \in due => verb.job \in supply.saw
        /\ Polling /\ verb.passed = "yes" => verb.job \notin due
        /\ verb.pc = "reload" /\ verb.read = "queued" => verb.job \notin due

Daemonic == Expected /\ Overtakes /\ AskedSeen

\* A drive gathers first, so its first pass looks at all there is.
SessionSeen ==
    ~resident =>
        /\ loop = "round" => due \subseteq supply.saw
        /\ loop \in {"work", "quiet", "between"} => due = {}
        /\ verb.kind = "submit" /\ verb.pc = "answered" => due = {}

\* A drive that found nothing to do has nothing in flight, unless a stream woke it since;
\* of the cancels only those with an open intent outlive it.
SessionSettled ==
    ~resident =>
        /\ loop = "quiet" => \A j \in Jobs : Live(j) => job[j] \in Terminal
        /\ loop = "off" => \A j \in cancels : j \in parked /\ job[j] \notin Terminal
        /\ loop \in {"between", "off"} \/ (loop = "quiet" /\ ~wake) => \A j \in Jobs : ~Live(j)

Inv == TypeOK /\ Shape /\ Known /\ Daemonic /\ SessionSeen /\ SessionSettled /\ NeverBlind


----------------------------------------------------------------------------
(***************************************************************************)
(* What the steps share.                                                   *)
(***************************************************************************)
\* A handler that only moves on keeps what is not about its verb.
LEMMA VerbOnly ==
  ASSUME Inv, verb.pc # "wake",
         UNCHANGED <<resident, job, resource, engine, slots, posted, supply, watch, due, bounds>>,
         verb' \in VerbType, Shape', AskedSeen', SessionSeen'
  PROVE  Inv'
<1>1. TypeOK'
  BY DEF Inv, TypeOK, engine, slots, bounds
<1>2. Known' /\ Overtakes' /\ SessionSettled' /\ NeverBlind'
  BY DEF Inv, Daemonic, Known, Overtakes, SessionSettled, NeverBlind, Live, engine, slots
<1>3. Expected'
  BY DEF Inv, Daemonic, Expected, NudgeComes, GatherSaw, PassComes, engine, slots
<1>4. QED
  BY <1>1, <1>2, <1>3 DEF Inv, Daemonic

\* Nor does a watch disturb anything but itself.
LEMMA WatchOnly ==
  ASSUME Inv,
         UNCHANGED <<resident, job, resource, engine, slots, posted, supply, verb, due, faults>>,
         asks' \in 0..MaxAsks, watch' \in WatchType, Attending' => (watch.job)' \in Jobs, NeverBlind'
  PROVE  Inv'
<1>1. TypeOK'
  BY DEF Inv, TypeOK, engine, slots
<1>2. Shape'
  BY DEF Inv, Shape, ByMode, Subjects, engine, slots
<1>3. Known' /\ Overtakes' /\ SessionSettled' /\ SessionSeen' /\ AskedSeen'
  BY DEF Inv, Daemonic, Known, Overtakes, SessionSettled, SessionSeen, AskedSeen, Polling, Live,
         engine, slots
<1>4. Expected'
  BY DEF Inv, Daemonic, Expected, NudgeComes, GatherSaw, PassComes, engine, slots
<1>5. QED
  BY <1>1, <1>2, <1>3, <1>4 DEF Inv, Daemonic

\* A status read again is the job's own.
LEMMA RefreshedLooks ==
  ASSUME Inv, Attending, NEW pc \in {"connect", "listen"}
  PROVE  /\ Refreshed(pc) \in WatchType
         /\ Refreshed(pc).pc = "done" \/ Refreshed(pc).job \in Jobs
         /\ Refreshed(pc).pc = "listen" => Refreshed(pc).seen = job[Refreshed(pc).job]
<1>1. watch \in WatchType /\ watch.job \in Jobs /\ job[watch.job] \in State
  BY DEF Inv, TypeOK, Shape, Subjects
<1>2. [NoWatch EXCEPT !.pc = "done"] \in WatchType
  BY DEF NoWatch, WatchType, State
<1>3. [watch EXCEPT !.seen = job[watch.job], !.sent = FALSE, !.pc = pc] \in WatchType
  BY <1>1 DEF WatchType
<1>4. QED
  BY <1>1, <1>2, <1>3 DEF Refreshed, NoWatch, WatchType

\* An event of the job on the feed is left unread there.
LEMMA MoveTells ==
  ASSUME Inv, NEW states \in [Jobs -> State], Move(states)
  PROVE  /\ watch' \in WatchType /\ NeverBlind'
         /\ watch'.pc = watch.pc /\ watch'.job = watch.job
<1>1. watch \in WatchType /\ (FeedOpen => watch.job \in Jobs)
  BY DEF Inv, TypeOK, Shape, Subjects, Attending, FeedOpen
<1>2. watch' \in WatchType /\ watch'.pc = watch.pc /\ watch'.job = watch.job
         /\ watch'.seen = watch.seen /\ watch'.sent = watch.sent
  BY <1>1 DEF Move, WatchType
<1>3. NeverBlind'
  BY <1>1, <1>2 DEF Inv, NeverBlind, Move, FeedOpen, WatchType
<1>4. QED
  BY <1>2, <1>3

----------------------------------------------------------------------------
(***************************************************************************)
(* The pass.                                                               *)
(***************************************************************************)
\* Over the slots a daemon's refresher or handler published, or over a session's own.
LEMMA PassStep ==
  ASSUME Inv, loop = "round", NEW source \in SupplyType, Pass(source),
         UNCHANGED <<resident, resource, wake, slots, posted, bounds>>,
         resident => source = supply,
         ~resident => due \subseteq source.saw,
         \A j \in Jobs : job[j] = "none" => j \notin source.saw
  PROVE  Inv'
<1> USE DEF Inv
<1>1. PICK reserved \in SUBSET (IF source.any THEN Waiting \ (cancels \cup parked) ELSE {}) :
      \E held \in SUBSET (Waiting \ (reserved \cup parked)), back \in SUBSET parked,
         forgotten \in SUBSET {j \in cancels : job[j] \in Terminal} :
        LET states == [j \in Jobs |-> IF j \notin Waiting THEN job[j]
                                      ELSE IF j \in reserved THEN "placing"
                                      ELSE IF j \in cancels THEN "cancelled"
                                      ELSE IF j \in held THEN "held" ELSE "queued"]
        IN  /\ Move(states)
            /\ TakenUp(back) /\ parked' = parked \ (back \cup (Waiting \cap cancels))
            /\ due' = {j \in due \ source.saw : states[j] \in Pending}
            /\ cancels' = cancels \ (Waiting \cup forgotten)
            /\ supply' = IF resident THEN [source EXCEPT !.saw = {}] ELSE source
            /\ loop' = IF resident THEN "asleep"
                       ELSE IF Busy(states, back) THEN "work" ELSE "quiet"
            /\ verb' = IF verb.pc \in Counting /\ verb.passed = "no"
                       THEN [verb EXCEPT !.passed = "yes"] ELSE verb
  BY DEF Pass
<1>2. PICK held \in SUBSET (Waiting \ (reserved \cup parked)), back \in SUBSET parked,
           forgotten \in SUBSET {j \in cancels : job[j] \in Terminal} :
        LET states == [j \in Jobs |-> IF j \notin Waiting THEN job[j]
                                      ELSE IF j \in reserved THEN "placing"
                                      ELSE IF j \in cancels THEN "cancelled"
                                      ELSE IF j \in held THEN "held" ELSE "queued"]
        IN  /\ Move(states)
            /\ TakenUp(back) /\ parked' = parked \ (back \cup (Waiting \cap cancels))
            /\ due' = {j \in due \ source.saw : states[j] \in Pending}
            /\ cancels' = cancels \ (Waiting \cup forgotten)
            /\ supply' = IF resident THEN [source EXCEPT !.saw = {}] ELSE source
            /\ loop' = IF resident THEN "asleep"
                       ELSE IF Busy(states, back) THEN "work" ELSE "quiet"
            /\ verb' = IF verb.pc \in Counting /\ verb.passed = "no"
                       THEN [verb EXCEPT !.passed = "yes"] ELSE verb
  BY <1>1
<1> DEFINE states == [j \in Jobs |-> IF j \notin Waiting THEN job[j]
                                     ELSE IF j \in reserved THEN "placing"
                                     ELSE IF j \in cancels THEN "cancelled"
                                     ELSE IF j \in held THEN "held" ELSE "queued"]
<1>3. /\ Move(states)
      /\ parked' = parked \ (back \cup (Waiting \cap cancels))
      /\ due' = {j \in due \ source.saw : states[j] \in Pending}
      /\ cancels' = cancels \ (Waiting \cup forgotten)
      /\ supply' = IF resident THEN [source EXCEPT !.saw = {}] ELSE source
      /\ loop' = IF resident THEN "asleep" ELSE IF Busy(states, back) THEN "work" ELSE "quiet"
      /\ verb' = IF verb.pc \in Counting /\ verb.passed = "no"
                 THEN [verb EXCEPT !.passed = "yes"] ELSE verb
  BY <1>2
<1>cancelled. \A j \in Waiting \cap cancels : j \in Jobs /\ states[j] # job[j]
  BY DEF Waiting, Pending
<1>4. states \in [Jobs -> State]
  <2>1. \A j \in Jobs : job[j] \in State
    BY DEF TypeOK
  <2>2. QED
    BY <2>1 DEF State, Terminal, Pending
<1>5. \A j \in Jobs : states[j] = "none" => job[j] = "none"
  OBVIOUS
<1> HIDE DEF states
<1>6. job' = states
  BY <1>3 DEF Move
<1>7. watch' \in WatchType /\ NeverBlind' /\ watch'.pc = watch.pc /\ watch'.job = watch.job
  BY <1>3, <1>4, MoveTells
<1>8. supply' \in SupplyType /\ supply'.saw \subseteq source.saw
  BY <1>3 DEF SupplyType
<1>9. /\ verb' \in VerbType
      /\ verb'.kind = verb.kind /\ verb'.job = verb.job /\ verb'.pc = verb.pc
      /\ verb'.read = verb.read /\ verb'.passed \in {verb.passed, "yes"}
      /\ verb.passed = "never" => verb'.passed = "never"
      /\ verb.pc \in Counting => verb'.passed # "no"
  <2>1. verb \in VerbType
    BY DEF TypeOK
  <2>2. QED
    BY <1>3, <2>1 DEF VerbType
<1>10. TypeOK'
  BY <1>3, <1>4, <1>6, <1>7, <1>8, <1>9 DEF TypeOK, slots, bounds
<1>11. Shape'
  BY <1>3, <1>7, <1>9 DEF Shape, ByMode, Subjects, Attending, TypeOK, VerbType, slots
<1>12. Known'
  <2>1. \A j \in due' : job'[j] \in Pending
    BY <1>3, <1>6
  <2>2. \A j \in Jobs : job'[j] = "none" => j \notin supply'.saw \cup gathering'.saw \cup cancels'
    BY <1>3, <1>5, <1>6, <1>8 DEF Known, slots
  <2>3. QED
    BY <2>1, <2>2 DEF Known
<1>13. Expected'
  BY <1>3, <1>9 DEF Expected, NudgeComes, GatherSaw, PassComes, slots, Daemonic
<1>14. Overtakes'
  <2>1. CASE resident
    BY <1>3, <2>1 DEF SupplyType, Overtakes
  <2>2. CASE ~resident
    BY <2>2 DEF Shape, ByMode, Overtakes, slots
  <2>3. QED
    BY <2>1, <2>2
<1>15. AskedSeen'
  <2>1. SUFFICES ASSUME resident, verb.kind = "submit"
                 PROVE  AskedSeen'
    BY <1>9 DEF AskedSeen
  <2>2. due' \subseteq due \ supply.saw
    BY <1>3, <2>1
  <2>3. Polling => verb.pc \in Counting
    BY DEF Polling, Counting
  <2>4. QED
    BY <1>9, <2>1, <2>2, <2>3 DEF AskedSeen, Polling, Daemonic, slots, TypeOK, VerbType
<1>16. SessionSeen'
  <2>1. ~resident => due' = {}
    BY <1>3
  <2>2. QED
    BY <1>3, <2>1 DEF SessionSeen
<1>17. SessionSettled'
  <2>1. SUFFICES ASSUME ~resident, ~Busy(states, back)
                 PROVE  \A j \in Jobs : ~Live(j)'
    BY <1>3 DEF SessionSettled
  <2>2. job' = job /\ back = {} /\ \A j \in Jobs : ~Live(j)
    BY <1>6, <2>1 DEF Busy
  <2>3. Waiting \cap cancels = {}
    BY <1>6, <1>cancelled, <2>2
  <2>4. parked' = parked /\ cancels' \subseteq cancels
    BY <1>3, <2>2, <2>3
  <2>5. QED
    BY <2>2, <2>4 DEF Live
<1>18. QED
  BY <1>7, <1>10, <1>11, <1>12, <1>13, <1>14, <1>15, <1>16, <1>17 DEF Daemonic

LEMMA RunPassStep ==
  ASSUME Inv, RunPass
  PROVE  Inv'
<1>1. loop = "round" /\ UNCHANGED <<resident, resource, wake, slots, posted, bounds>>
  BY DEF RunPass
<1>2. CASE Regathers
  <2>1. PICK any \in BOOLEAN : Pass([any |-> any, saw |-> Waiting, key |-> Waiting])
    BY <1>2 DEF RunPass
  <2> DEFINE source == [any |-> any, saw |-> Waiting, key |-> Waiting]
  <2>2. source \in SupplyType /\ source.saw = Waiting
    BY DEF SupplyType, Waiting
  <2>3. due \subseteq Waiting /\ \A j \in Jobs : job[j] = "none" => j \notin Waiting
    BY DEF Inv, TypeOK, Known, Waiting, Pending
  <2>4. ~resident
    BY <1>2 DEF Regathers
  <2> HIDE DEF source
  <2>5. Pass(source)
    BY <2>1 DEF source
  <2>6. QED
    BY <1>1, <2>2, <2>3, <2>4, <2>5, PassStep
<1>3. CASE ~Regathers
  <2>1. Pass(supply)
    BY <1>3 DEF RunPass
  <2>2. supply \in SupplyType /\ \A j \in Jobs : job[j] = "none" => j \notin supply.saw
    BY DEF Inv, TypeOK, Known
  <2>3. ~resident => due \subseteq supply.saw
    BY <1>1 DEF Inv, SessionSeen
  <2>4. QED
    BY <1>1, <2>1, <2>2, <2>3, PassStep
<1>4. QED
  BY <1>2, <1>3

----------------------------------------------------------------------------
(***************************************************************************)
(* The waiting client.                                                     *)
(***************************************************************************)
LEMMA WatchStartsStep ==
  ASSUME Inv, NEW j \in Jobs, NEW until \in {"terminal", "running"}, WatchStarts(j, until)
  PROVE  Inv'
<1>1. watch' \in WatchType /\ watch'.pc = "first" /\ watch'.job = j
  BY DEF WatchStarts, NoWatch, WatchType, State
<1>2. asks' \in 0..MaxAsks
  BY FrontAssumption DEF WatchStarts, Inv, TypeOK
<1>3. QED
  BY <1>1, <1>2, WatchOnly DEF WatchStarts, NeverBlind

\* Those that read the status again.
LEMMA LookStep ==
  ASSUME Inv, Look \/ Snapshot \/ Frame \/ Keepalive
  PROVE  Inv'
<1>1. Attending /\ \E pc \in {"connect", "listen"} : Watches(Refreshed(pc))
  BY DEF Look, Snapshot, Frame, Keepalive, Attending
<1>2. PICK pc \in {"connect", "listen"} : Watches(Refreshed(pc))
  BY <1>1
<1>3. watch' = Refreshed(pc)
  BY <1>2 DEF Watches
<1>4. /\ watch' \in WatchType
      /\ watch'.pc = "done" \/ watch'.job \in Jobs
      /\ watch'.pc = "listen" => watch'.seen = job[watch'.job]
  BY <1>1, <1>3, RefreshedLooks
<1>5. UNCHANGED <<resident, job, resource, engine, slots, posted, supply, verb, due, bounds>>
  BY <1>2 DEF Watches
<1>6. NeverBlind'
  BY <1>4, <1>5 DEF NeverBlind
<1>7. QED
  BY <1>4, <1>5, <1>6, WatchOnly DEF Inv, TypeOK, bounds, Attending

LEMMA ServeStep ==
  ASSUME Inv, Connect \/ Serve
  PROVE  Inv'
<1>1. watch \in WatchType /\ watch.job \in Jobs
  BY DEF Inv, TypeOK, Shape, Subjects, Attending, Connect, Serve
<1>2. watch' \in WatchType /\ watch'.job = watch.job
  BY <1>1 DEF Connect, Serve, Watches, WatchType, State
<1>3. NeverBlind'
  BY <1>1 DEF Connect, Serve, Watches, WatchType, NeverBlind
<1>4. UNCHANGED <<resident, job, resource, engine, slots, posted, supply, verb, due, bounds>>
  BY DEF Connect, Serve, Watches
<1>5. QED
  BY <1>1, <1>2, <1>3, <1>4, WatchOnly DEF Inv, TypeOK, bounds


----------------------------------------------------------------------------
(***************************************************************************)
(* The handlers that only move on.                                         *)
(***************************************************************************)
LEMMA LoadStep ==
  ASSUME Inv, Load
  PROVE  Inv'
<1>1. verb' \in VerbType
  BY DEF Load, Inv, TypeOK, VerbType
<1>2. Shape'
  BY DEF Load, Inv, Shape, ByMode, Subjects, Attending, engine, slots
<1>3. AskedSeen' /\ SessionSeen'
  BY DEF Load, Inv, Daemonic, AskedSeen, Polling, SessionSeen, engine, slots
<1>4. QED
  BY <1>1, <1>2, <1>3, VerbOnly DEF Load

LEMMA IntentStep ==
  ASSUME Inv, Intent
  PROVE  Inv'
<1>1. verb' \in VerbType
  BY DEF Intent, Goes, Terminal, Inv, TypeOK, VerbType
<1>2. Shape'
  BY DEF Intent, Goes, Inv, Shape, ByMode, Subjects, Attending, engine, slots
<1>3. AskedSeen' /\ SessionSeen'
  BY DEF Intent, Goes, Inv, Daemonic, AskedSeen, Polling, SessionSeen, engine, slots
<1>4. QED
  BY <1>1, <1>2, <1>3, VerbOnly DEF Intent

LEMMA CountStep ==
  ASSUME Inv, Count
  PROVE  Inv'
<1>1. verb' \in VerbType
  BY DEF Count, Goes, Inv, TypeOK, VerbType
<1>2. Shape'
  BY DEF Count, Goes, Inv, Shape, ByMode, Subjects, Attending, engine, slots
<1>3. AskedSeen' /\ SessionSeen'
  BY DEF Count, Goes, Inv, Daemonic, AskedSeen, Polling, SessionSeen, engine, slots
<1>4. QED
  BY <1>1, <1>2, <1>3, VerbOnly DEF Count

LEMMA ReloadStep ==
  ASSUME Inv, Reload
  PROVE  Inv'
<1>1. verb' \in VerbType
  BY DEF Reload, Inv, TypeOK, VerbType, State, Shape, Subjects
<1>2. Shape'
  BY DEF Reload, Inv, Shape, ByMode, Subjects, Attending, engine, slots
<1>3. AskedSeen' /\ SessionSeen'
  BY DEF Reload, Inv, Shape, ByMode, Subjects, Daemonic, AskedSeen, Polling,
         SessionSeen, engine, slots
<1>4. QED
  BY <1>1, <1>2, <1>3, VerbOnly DEF Reload

LEMMA TickSeenStep ==
  ASSUME Inv, TickSeen
  PROVE  Inv'
<1>1. verb' \in VerbType
  BY DEF TickSeen, Goes, Inv, TypeOK, VerbType
<1>2. Shape'
  BY DEF TickSeen, Goes, Inv, Shape, ByMode, Subjects, Attending, engine, slots
<1>3. AskedSeen' /\ SessionSeen'
  BY DEF TickSeen, Goes, Inv, Daemonic, AskedSeen, Polling, SessionSeen, engine, slots
<1>4. QED
  BY <1>1, <1>2, <1>3, VerbOnly DEF TickSeen

LEMMA NotYetStep ==
  ASSUME Inv, NotYet
  PROVE  Inv'
<1>1. verb' \in VerbType
  BY FrontAssumption DEF NotYet, Returns, IdleVerb, Inv, TypeOK, VerbType, State
<1>2. Shape'
  BY DEF NotYet, Returns, IdleVerb, Inv, Shape, ByMode, Subjects, Attending, engine,
         slots
<1>3. AskedSeen' /\ SessionSeen'
  BY DEF NotYet, Returns, IdleVerb, Inv, Daemonic, AskedSeen, Polling, SessionSeen,
         engine, slots
<1>4. QED
  BY <1>1, <1>2, <1>3, VerbOnly DEF NotYet

LEMMA WaitedStep ==
  ASSUME Inv, Waited
  PROVE  Inv'
<1>1. verb' \in VerbType
  BY DEF Waited, Goes, Inv, TypeOK, VerbType
<1>2. Shape'
  BY DEF Waited, Goes, Inv, Shape, ByMode, Subjects, Attending, engine, slots
<1>3. AskedSeen' /\ SessionSeen'
  BY DEF Waited, Goes, Inv, Daemonic, AskedSeen, Polling, SessionSeen, engine, slots
<1>4. QED
  BY <1>1, <1>2, <1>3, VerbOnly DEF Waited

LEMMA GivesStep ==
  ASSUME Inv, Gives
  PROVE  Inv'
<1>1. verb' \in VerbType
  BY DEF Gives, MayRequeue, Terminal, Goes, Inv, TypeOK, VerbType
<1>2. Shape'
  BY DEF Gives, Goes, Inv, Shape, ByMode, Subjects, Attending, engine, slots
<1>3. AskedSeen' /\ SessionSeen'
  BY DEF Gives, Goes, Inv, Shape, ByMode, Subjects, Daemonic, AskedSeen, Polling,
         SessionSeen, engine, slots
<1>4. QED
  BY <1>1, <1>2, <1>3, VerbOnly DEF Gives

LEMMA AnsweredStep ==
  ASSUME Inv, Answered
  PROVE  Inv'
<1>1. verb' \in VerbType
  BY FrontAssumption DEF Answered, Returns, IdleVerb, Inv, TypeOK, VerbType, State
<1>2. Shape'
  BY DEF Answered, Returns, IdleVerb, Inv, Shape, ByMode, Subjects, Attending, engine,
         slots
<1>3. AskedSeen' /\ SessionSeen'
  BY DEF Answered, Returns, IdleVerb, Inv, Daemonic, AskedSeen, Polling, SessionSeen,
         engine, slots
<1>4. QED
  BY <1>1, <1>2, <1>3, VerbOnly DEF Answered

----------------------------------------------------------------------------
(***************************************************************************)
(* Gathers and nudges.                                                     *)
(***************************************************************************)
LEMMA RefresherGathersStep ==
  ASSUME Inv, RefresherGathers
  PROVE  Inv'
<1>1. TypeOK'
  <2>1. gathering' \in GatherType
    BY DEF Inv, RefresherGathers, GatherStarts, engine, bounds, Waiting, Pending,
           TypeOK, GatherType
  <2>2. QED
    BY <2>1 DEF Inv, RefresherGathers, GatherStarts, engine, bounds, TypeOK
<1>2. SessionSeen' /\ SessionSettled' /\ NeverBlind'
  BY DEF Inv, RefresherGathers, GatherStarts, engine, bounds, SessionSeen,
         SessionSettled, Live, NeverBlind
<1>3. Shape'
  BY DEF Inv, RefresherGathers, GatherStarts, engine, bounds, Shape, ByMode, Subjects,
         Attending
<1>4. Known'
  BY DEF Inv, RefresherGathers, GatherStarts, engine, bounds, Waiting, Pending, Known
<1>5. Expected'
  BY DEF Inv, RefresherGathers, GatherStarts, engine, bounds, Daemonic, Expected,
         NudgeComes, GatherSaw, PassComes
<1>6. Overtakes'
  BY DEF Inv, RefresherGathers, GatherStarts, engine, bounds, Daemonic, Overtakes
<1>7. AskedSeen'
  BY DEF Inv, RefresherGathers, GatherStarts, engine, bounds, Daemonic, AskedSeen,
         Polling
<1>8. QED
  BY <1>1, <1>2, <1>3, <1>4, <1>5, <1>6, <1>7 DEF Inv, Daemonic

LEMMA VerbGathersStep ==
  ASSUME Inv, VerbGathers
  PROVE  Inv'
<1>1. TypeOK'
  <2>1. gathering' \in GatherType
    BY DEF Inv, VerbGathers, GatherStarts, engine, bounds, Waiting, Pending, TypeOK,
           GatherType
  <2>2. verb' \in VerbType
    BY DEF Inv, VerbGathers, GatherStarts, engine, bounds, Waiting, Pending, TypeOK,
           VerbType
  <2>3. QED
    BY <2>1, <2>2 DEF Inv, VerbGathers, GatherStarts, engine, bounds, TypeOK
<1>2. SessionSettled' /\ NeverBlind'
  BY DEF Inv, VerbGathers, GatherStarts, engine, bounds, SessionSettled, Live,
         NeverBlind
<1>3. Shape'
  BY DEF Inv, VerbGathers, GatherStarts, engine, bounds, Shape, ByMode, Subjects,
         Attending
<1>4. Known'
  BY DEF Inv, VerbGathers, GatherStarts, engine, bounds, Waiting, Pending, Known
<1>5. Expected'
  BY DEF Inv, VerbGathers, GatherStarts, engine, bounds, Daemonic, Expected, NudgeComes,
         GatherSaw, PassComes
<1>6. Overtakes'
  BY DEF Inv, VerbGathers, GatherStarts, engine, bounds, Daemonic, Overtakes
<1>7. AskedSeen'
  BY DEF Inv, VerbGathers, GatherStarts, engine, bounds, Daemonic, AskedSeen, Polling
<1>8. SessionSeen'
  BY DEF Inv, VerbGathers, GatherStarts, engine, bounds, SessionSeen
<1>9. QED
  BY <1>1, <1>2, <1>3, <1>4, <1>5, <1>6, <1>7, <1>8 DEF Inv, Daemonic

LEMMA RefresherPublishesStep ==
  ASSUME Inv, RefresherPublishes
  PROVE  Inv'
<1>1. TypeOK'
  <2>1. gathering' \in GatherType
    BY DEF Inv, RefresherPublishes, Published, Gathered, bounds, NoGather, TypeOK,
           GatherType
  <2>2. supply' \in SupplyType
    BY DEF Inv, RefresherPublishes, Published, Gathered, bounds, NoGather, TypeOK,
           GatherType, SupplyType, VerbType, WatchType, State, Terminal, Pending,
           Shape, Subjects
  <2>3. QED
    BY <2>1, <2>2 DEF Inv, RefresherPublishes, Published, Gathered, bounds, TypeOK
<1>2. Shape'
  BY DEF Inv, RefresherPublishes, Published, Gathered, bounds, NoGather, Shape, ByMode,
         Subjects, Attending
<1>3. Known'
  BY DEF Inv, RefresherPublishes, Published, Gathered, bounds, NoGather, Known
<1>4. Expected'
  BY DEF Inv, RefresherPublishes, Published, Gathered, bounds, NoGather, Daemonic,
         Expected, NudgeComes, GatherSaw, PassComes, Known, Overtakes, Shape, ByMode
<1>5. Overtakes'
  BY DEF Inv, RefresherPublishes, Published, Gathered, bounds, NoGather, Daemonic,
         Overtakes
<1>6. AskedSeen'
  BY DEF Inv, RefresherPublishes, Published, Gathered, bounds, NoGather, Daemonic,
         AskedSeen, Polling, TypeOK, Known, Overtakes, Shape, Subjects, ByMode
<1>7. SessionSeen'
  BY DEF Inv, RefresherPublishes, Published, Gathered, bounds, NoGather, SessionSeen,
         Shape, ByMode, Subjects, Known
<1>8. SessionSettled'
  BY DEF Inv, RefresherPublishes, Published, Gathered, bounds, SessionSettled, Live
<1>9. NeverBlind'
  BY DEF Inv, RefresherPublishes, Published, Gathered, bounds, NeverBlind
<1>10. QED
  BY <1>1, <1>2, <1>3, <1>4, <1>5, <1>6, <1>7, <1>8, <1>9 DEF Inv, Daemonic

LEMMA VerbPublishesStep ==
  ASSUME Inv, VerbPublishes
  PROVE  Inv'
<1>1. TypeOK'
  <2>1. gathering' \in GatherType
    BY DEF Inv, VerbPublishes, Published, Gathered, bounds, NoGather, TypeOK,
           GatherType
  <2>2. supply' \in SupplyType
    BY DEF Inv, VerbPublishes, Published, Gathered, bounds, NoGather, TypeOK,
           GatherType, SupplyType, VerbType, WatchType, State, Terminal, Pending,
           Shape, Subjects
  <2>3. verb' \in VerbType
    BY DEF Inv, VerbPublishes, Published, Gathered, bounds, NoGather, TypeOK, VerbType
  <2>4. QED
    BY <2>1, <2>2, <2>3 DEF Inv, VerbPublishes, Published, Gathered, bounds, TypeOK
<1>2. Shape'
  BY DEF Inv, VerbPublishes, Published, Gathered, bounds, NoGather, Shape, ByMode,
         Subjects, Attending
<1>3. Known'
  BY DEF Inv, VerbPublishes, Published, Gathered, bounds, NoGather, Known
<1>4. Expected'
  BY DEF Inv, VerbPublishes, Published, Gathered, bounds, NoGather, Daemonic, Expected,
         NudgeComes, GatherSaw, PassComes, Known, Overtakes, Shape, ByMode
<1>5. Overtakes'
  BY DEF Inv, VerbPublishes, Published, Gathered, bounds, NoGather, Daemonic, Overtakes
<1>6. AskedSeen'
  BY DEF Inv, VerbPublishes, Published, Gathered, bounds, NoGather, Daemonic, AskedSeen,
         Polling, Known, Overtakes, Shape, Subjects
<1>7. SessionSeen'
  BY DEF Inv, VerbPublishes, Published, Gathered, bounds, NoGather, SessionSeen, Shape,
         ByMode, Subjects, Known
<1>8. SessionSettled'
  BY DEF Inv, VerbPublishes, Published, Gathered, bounds, SessionSettled, Live
<1>9. NeverBlind'
  BY DEF Inv, VerbPublishes, Published, Gathered, bounds, NeverBlind
<1>10. QED
  BY <1>1, <1>2, <1>3, <1>4, <1>5, <1>6, <1>7, <1>8, <1>9 DEF Inv, Daemonic

LEMMA GatherSlowStep ==
  ASSUME Inv, GatherSlow
  PROVE  Inv'
<1>1. TypeOK'
  <2>1. verb' \in VerbType
    BY DEF Inv, GatherSlow, engine, slots, bounds, TypeOK, VerbType
  <2>2. QED
    BY <2>1 DEF Inv, GatherSlow, engine, slots, bounds, TypeOK
<1>2. Known' /\ Overtakes' /\ SessionSettled' /\ NeverBlind'
  BY DEF Inv, GatherSlow, engine, slots, bounds, Known, Daemonic, Overtakes,
         SessionSettled, Live, NeverBlind
<1>3. Shape'
  BY DEF Inv, GatherSlow, engine, slots, bounds, Shape, ByMode, Subjects, Attending
<1>4. Expected'
  BY DEF Inv, GatherSlow, engine, slots, bounds, Daemonic, Expected, NudgeComes,
         GatherSaw, PassComes
<1>5. AskedSeen'
  BY DEF Inv, GatherSlow, engine, slots, bounds, Daemonic, AskedSeen, Polling
<1>6. SessionSeen'
  BY DEF Inv, GatherSlow, engine, slots, bounds, SessionSeen
<1>7. QED
  BY <1>1, <1>2, <1>3, <1>4, <1>5, <1>6 DEF Inv, Daemonic

LEMMA RefreshRaisesStep ==
  ASSUME Inv, RefreshRaises
  PROVE  Inv'
<1>1. TypeOK'
  <2>1. gathering' \in GatherType
    BY DEF Inv, RefreshRaises, Fault, engine, NoGather, TypeOK, GatherType
  <2>2. QED
    BY FrontAssumption, <2>1 DEF Inv, RefreshRaises, Fault, engine, TypeOK
<1>2. SessionSeen' /\ SessionSettled' /\ NeverBlind'
  BY DEF Inv, RefreshRaises, Fault, engine, SessionSeen, SessionSettled, Live,
         NeverBlind
<1>3. Shape'
  BY DEF Inv, RefreshRaises, Fault, engine, NoGather, Shape, ByMode, Subjects, Attending
<1>4. Known'
  BY DEF Inv, RefreshRaises, Fault, engine, NoGather, Known
<1>5. Expected'
  BY DEF Inv, RefreshRaises, Fault, engine, Daemonic, Expected, NudgeComes, GatherSaw,
         PassComes
<1>6. Overtakes'
  BY DEF Inv, RefreshRaises, Fault, engine, NoGather, Daemonic, Overtakes
<1>7. AskedSeen'
  BY DEF Inv, RefreshRaises, Fault, engine, NoGather, Daemonic, AskedSeen, Polling,
         TypeOK, Known, Overtakes, Shape, Subjects, ByMode
<1>8. QED
  BY <1>1, <1>2, <1>3, <1>4, <1>5, <1>6, <1>7 DEF Inv, Daemonic

LEMMA CallbackStep ==
  ASSUME Inv, Callback
  PROVE  Inv'
<1>1. TypeOK'
  BY DEF Inv, Callback, bounds, TypeOK
<1>2. Known' /\ Overtakes' /\ AskedSeen' /\ SessionSeen' /\ NeverBlind'
  BY DEF Inv, Callback, bounds, Known, Daemonic, Overtakes, AskedSeen, Polling,
         SessionSeen, NeverBlind
<1>3. Shape'
  BY DEF Inv, Callback, bounds, Shape, ByMode, Subjects, Attending
<1>4. Expected'
  <2>1. posted - 1 > 0 \/ posted = 1
    BY DEF Inv, TypeOK, Callback
  <2>2. NudgeComes => NudgeComes'
    BY <2>1 DEF Callback, NudgeComes
  <2>3. PassComes => PassComes'
    BY DEF Callback, PassComes
  <2>4. QED
    BY <2>2, <2>3 DEF Inv, Callback, bounds, Daemonic, Expected, GatherSaw
<1>5. SessionSettled'
  BY DEF Inv, Callback, bounds, SessionSettled, Live
<1>6. QED
  BY <1>1, <1>2, <1>3, <1>4, <1>5 DEF Inv, Daemonic

----------------------------------------------------------------------------
(***************************************************************************)
(* Rounds, and the work on the jobs.                                       *)
(***************************************************************************)
LEMMA RoundStartsStep ==
  ASSUME Inv, RoundStarts
  PROVE  Inv'
<1>1. TypeOK'
  BY DEF Inv, RoundStarts, NextRound, slots, bounds, TypeOK
<1>2. Known' /\ Overtakes' /\ AskedSeen' /\ NeverBlind'
  BY DEF Inv, RoundStarts, NextRound, slots, bounds, Known, Daemonic, Overtakes,
         AskedSeen, Polling, NeverBlind
<1>3. Shape'
  BY DEF Inv, RoundStarts, NextRound, slots, bounds, Shape, ByMode, Subjects, Attending
<1>4. Expected'
  BY DEF Inv, RoundStarts, NextRound, slots, bounds, Daemonic, Expected, NudgeComes,
         GatherSaw, PassComes
<1>5. SessionSeen'
  BY DEF Inv, RoundStarts, NextRound, slots, bounds, SessionSeen, Shape, ByMode,
         Subjects, Known
<1>6. SessionSettled'
  BY DEF Inv, RoundStarts, NextRound, slots, bounds, SessionSettled, Live
<1>7. QED
  BY <1>1, <1>2, <1>3, <1>4, <1>5, <1>6 DEF Inv, Daemonic

LEMMA RoundRaisesStep ==
  ASSUME Inv, RoundRaises
  PROVE  Inv'
<1>1. TypeOK'
  BY FrontAssumption DEF Inv, RoundRaises, Fault, slots, TypeOK
<1>2. Known' /\ Overtakes' /\ AskedSeen' /\ NeverBlind'
  BY DEF Inv, RoundRaises, Fault, slots, Known, Daemonic, Overtakes, AskedSeen, Polling,
         NeverBlind
<1>3. Shape'
  BY DEF Inv, RoundRaises, Fault, slots, Shape, ByMode, Subjects, Attending
<1>4. Expected'
  BY DEF Inv, RoundRaises, Fault, slots, Daemonic, Expected, NudgeComes, GatherSaw,
         PassComes
<1>5. SessionSeen'
  BY DEF Inv, RoundRaises, Fault, slots, SessionSeen
<1>6. SessionSettled'
  BY DEF Inv, RoundRaises, Fault, slots, SessionSettled, Live
<1>7. QED
  BY <1>1, <1>2, <1>3, <1>4, <1>5, <1>6 DEF Inv, Daemonic

LEMMA PlacedStep ==
  ASSUME Inv, NEW j \in Jobs, Placed(j)
  PROVE  Inv'
<1>1. TypeOK'
  <2>1. watch' \in WatchType
    BY DEF Inv, Placed, Working, Set, Move, FeedOpen, slots, bounds, TypeOK, WatchType
  <2>2. QED
    BY <2>1 DEF Inv, Placed, Working, Set, Move, FeedOpen, slots, bounds, TypeOK,
           State, Terminal, Pending
<1>2. Overtakes' /\ AskedSeen' /\ SessionSeen'
  BY DEF Inv, Placed, Working, Set, Move, FeedOpen, slots, bounds, Daemonic, Overtakes,
         AskedSeen, Polling, SessionSeen
<1>3. Shape'
  BY DEF Inv, Placed, Working, Set, Move, FeedOpen, slots, bounds, Shape, ByMode,
         Subjects, Attending
<1>4. Known'
  BY DEF Inv, Placed, Working, Set, Move, FeedOpen, slots, bounds, Known, TypeOK, Shape,
         ByMode, Terminal, Pending
<1>5. Expected'
  BY DEF Inv, Placed, Working, Set, Move, FeedOpen, slots, bounds, Daemonic, Expected,
         NudgeComes, GatherSaw, PassComes
<1>6. SessionSettled'
  BY DEF Inv, Placed, Working, Set, Move, FeedOpen, slots, bounds, SessionSettled, Live
<1>7. NeverBlind'
  BY DEF Inv, Placed, Working, Set, Move, FeedOpen, slots, bounds, NeverBlind
<1>8. QED
  BY <1>1, <1>2, <1>3, <1>4, <1>5, <1>6, <1>7 DEF Inv, Daemonic

LEMMA RequeuedStep ==
  ASSUME Inv, NEW j \in Jobs, Requeued(j)
  PROVE  Inv'
<1>1. TypeOK'
  <2>1. gathering' \in GatherType
    BY DEF Inv, Requeued, Working, Fault, Set, Move, FeedOpen, Outdated, TypeOK,
           GatherType
  <2>2. supply' \in SupplyType
    BY DEF Inv, Requeued, Working, Fault, Set, Move, FeedOpen, Outdated, TypeOK,
           SupplyType
  <2>3. watch' \in WatchType
    BY DEF Inv, Requeued, Working, Fault, Set, Move, FeedOpen, Outdated, TypeOK,
           WatchType
  <2>4. QED
    BY FrontAssumption, <2>1, <2>2, <2>3 DEF Inv, Requeued, Working, Fault, Set, Move,
           FeedOpen, Outdated, TypeOK, State, Terminal, Pending
<1>2. Shape'
  BY DEF Inv, Requeued, Working, Fault, Set, Move, FeedOpen, Outdated, Shape, ByMode,
         Subjects, Attending
<1>3. Known'
  BY DEF Inv, Requeued, Working, Fault, Set, Move, FeedOpen, Outdated, Known, TypeOK,
         Shape, ByMode, Terminal, Pending
<1>4. Expected'
  BY DEF Inv, Requeued, Working, Fault, Set, Move, FeedOpen, Outdated, Daemonic,
         Expected, NudgeComes, GatherSaw, PassComes, TypeOK, Known, Overtakes, Shape,
         ByMode, Terminal, Pending
<1>5. Overtakes'
  BY DEF Inv, Requeued, Working, Fault, Set, Move, FeedOpen, Outdated, Daemonic,
         Overtakes
<1>6. AskedSeen'
  BY DEF Inv, Requeued, Working, Fault, Set, Move, FeedOpen, Outdated, Daemonic,
         AskedSeen, Polling, TypeOK, Known, Overtakes, Shape, Subjects, Terminal,
         Pending
<1>7. SessionSeen'
  BY DEF Inv, Requeued, Working, Fault, Set, Move, FeedOpen, Outdated, SessionSeen
<1>8. SessionSettled'
  BY DEF Inv, Requeued, Working, Fault, Set, Move, FeedOpen, Outdated, SessionSettled,
         Live
<1>9. NeverBlind'
  BY DEF Inv, Requeued, Working, Fault, Set, Move, FeedOpen, Outdated, NeverBlind
<1>10. QED
  BY <1>1, <1>2, <1>3, <1>4, <1>5, <1>6, <1>7, <1>8, <1>9 DEF Inv, Daemonic

LEMMA CancelDoneStep ==
  ASSUME Inv, NEW j \in Jobs, CancelDone(j)
  PROVE  Inv'
<1>1. TypeOK'
  <2>1. watch' \in WatchType
    BY DEF Inv, CancelDone, Working, Set, Move, FeedOpen, slots, bounds, TypeOK,
           WatchType
  <2>2. QED
    BY <2>1 DEF Inv, CancelDone, Working, Set, Move, FeedOpen, slots, bounds, TypeOK,
           State, Terminal, Pending
<1>2. Overtakes' /\ AskedSeen' /\ SessionSeen'
  BY DEF Inv, CancelDone, Working, Set, Move, FeedOpen, slots, bounds, Daemonic,
         Overtakes, AskedSeen, Polling, SessionSeen
<1>3. Shape'
  BY DEF Inv, CancelDone, Working, Set, Move, FeedOpen, slots, bounds, Shape, ByMode,
         Subjects, Attending
<1>4. Known'
  BY DEF Inv, CancelDone, Working, Set, Move, FeedOpen, slots, bounds, Known, TypeOK,
         Shape, ByMode, Terminal, Pending
<1>5. Expected'
  BY DEF Inv, CancelDone, Working, Set, Move, FeedOpen, slots, bounds, Daemonic,
         Expected, NudgeComes, GatherSaw, PassComes
<1>6. SessionSettled'
  BY DEF Inv, CancelDone, Working, Set, Move, FeedOpen, slots, bounds, SessionSettled,
         Live
<1>7. NeverBlind'
  BY DEF Inv, CancelDone, Working, Set, Move, FeedOpen, slots, bounds, NeverBlind
<1>8. QED
  BY <1>1, <1>2, <1>3, <1>4, <1>5, <1>6, <1>7 DEF Inv, Daemonic

LEMMA FinishedStep ==
  ASSUME Inv, NEW j \in Jobs, Finished(j)
  PROVE  Inv'
<1>1. TypeOK'
  <2>1. watch' \in WatchType
    BY DEF Inv, Finished, Working, Set, Move, FeedOpen, slots, bounds, TypeOK,
           WatchType
  <2>2. QED
    BY <2>1 DEF Inv, Finished, Working, Set, Move, FeedOpen, slots, bounds, TypeOK,
           State, Terminal, Pending
<1>2. Overtakes' /\ AskedSeen' /\ SessionSeen'
  BY DEF Inv, Finished, Working, Set, Move, FeedOpen, slots, bounds, Daemonic,
         Overtakes, AskedSeen, Polling, SessionSeen
<1>3. Shape'
  BY DEF Inv, Finished, Working, Set, Move, FeedOpen, slots, bounds, Shape, ByMode,
         Subjects, Attending
<1>4. Known'
  BY DEF Inv, Finished, Working, Set, Move, FeedOpen, slots, bounds, Known, TypeOK,
         Shape, ByMode, Terminal, Pending
<1>5. Expected'
  BY DEF Inv, Finished, Working, Set, Move, FeedOpen, slots, bounds, Daemonic, Expected,
         NudgeComes, GatherSaw, PassComes
<1>6. SessionSettled'
  <2>1. /\ UNCHANGED <<resident, resource, loop, cancels, parked>> /\ wake'
        /\ ~resident => loop \notin {"off", "between"}
    BY DEF Finished, Working
  <2>2. job' = [job EXCEPT ![j] = "succeeded"]
    BY DEF Finished, Set, Move
  <2>3. (job[j] \in Terminal)' /\ \A k \in Jobs \ {j} : job'[k] = job[k]
    BY <2>2 DEF Inv, TypeOK, Terminal
  <2>4. \A k \in Jobs : Live(k)' /\ (~resident /\ loop = "quiet") => job'[k] \in Terminal
    BY <2>1, <2>3 DEF Inv, SessionSettled, Live
  <2>5. QED
    BY <2>1, <2>4 DEF SessionSettled
<1>7. NeverBlind'
  BY DEF Inv, Finished, Working, Set, Move, FeedOpen, slots, bounds, NeverBlind
<1>8. QED
  BY <1>1, <1>2, <1>3, <1>4, <1>5, <1>6, <1>7 DEF Inv, Daemonic

LEMMA ReapedStep ==
  ASSUME Inv, NEW j \in Jobs, Reaped(j)
  PROVE  Inv'
<1>1. TypeOK'
  BY DEF Inv, Reaped, Working, slots, bounds, TypeOK
<1>2. Shape' /\ Known' /\ Overtakes' /\ AskedSeen' /\ SessionSeen' /\ NeverBlind'
  BY DEF Inv, Reaped, Working, slots, bounds, Shape, ByMode, Subjects, Attending, Known,
         Daemonic, Overtakes, AskedSeen, Polling, SessionSeen, NeverBlind
<1>3. Expected'
  BY DEF Inv, Reaped, Working, slots, bounds, Daemonic, Expected, NudgeComes, GatherSaw,
         PassComes
<1>4. SessionSettled'
  BY DEF Inv, Reaped, Working, slots, bounds, SessionSettled, Live
<1>5. QED
  BY <1>1, <1>2, <1>3, <1>4 DEF Inv, Daemonic

LEMMA FreezesStep ==
  ASSUME Inv, NEW j \in Jobs, Freezes(j)
  PROVE  Inv'
<1>1. TypeOK'
  BY FrontAssumption DEF Inv, Freezes, Working, Fault, slots, Live, TypeOK
<1>2. Shape' /\ Known' /\ Overtakes' /\ AskedSeen' /\ SessionSeen' /\ NeverBlind'
  BY DEF Inv, Freezes, Working, Fault, slots, Shape, ByMode, Subjects, Attending,
         Known, Daemonic, Overtakes, AskedSeen, Polling, SessionSeen, NeverBlind
<1>3. Expected'
  BY DEF Inv, Freezes, Working, Fault, slots, Daemonic, Expected, NudgeComes,
         GatherSaw, PassComes
<1>4. SessionSettled'
  BY DEF Inv, Freezes, Working, Fault, slots, SessionSettled, Live
<1>5. QED
  BY <1>1, <1>2, <1>3, <1>4 DEF Inv, Daemonic

LEMMA CancelFailsStep ==
  ASSUME Inv, NEW j \in Jobs, CancelFails(j)
  PROVE  Inv'
<1>1. TypeOK'
  BY FrontAssumption DEF Inv, CancelFails, Working, Fault, slots, TypeOK
<1>2. Shape' /\ Known' /\ Overtakes' /\ AskedSeen' /\ SessionSeen' /\ NeverBlind'
  BY DEF Inv, CancelFails, Working, Fault, slots, Shape, ByMode, Subjects, Attending,
         Known, Daemonic, Overtakes, AskedSeen, Polling, SessionSeen, NeverBlind
<1>3. Expected'
  BY DEF Inv, CancelFails, Working, Fault, slots, Daemonic, Expected, NudgeComes,
         GatherSaw, PassComes
<1>4. SessionSettled'
  BY DEF Inv, CancelFails, Working, Fault, slots, SessionSettled, Live
<1>5. QED
  BY <1>1, <1>2, <1>3, <1>4 DEF Inv, Daemonic

----------------------------------------------------------------------------
(***************************************************************************)
(* A session's drive.                                                      *)
(***************************************************************************)
LEMMA DriveGathersStep ==
  ASSUME Inv, DriveGathers
  PROVE  Inv'
<1>1. TypeOK'
  <2>1. supply' \in SupplyType
    BY DEF Inv, DriveGathers, NextRound, slots, bounds, Waiting, Pending, TypeOK,
           SupplyType
  <2>2. QED
    BY <2>1 DEF Inv, DriveGathers, NextRound, slots, bounds, TypeOK
<1>2. Shape'
  BY DEF Inv, DriveGathers, NextRound, slots, bounds, Shape, ByMode, Subjects, Attending
<1>3. Known'
  BY DEF Inv, DriveGathers, NextRound, slots, bounds, Waiting, Pending, Known
<1>4. Expected'
  BY DEF Inv, DriveGathers, NextRound, slots, bounds, Waiting, Pending, Daemonic,
         Expected, NudgeComes, GatherSaw, PassComes, Known, Overtakes, Shape, ByMode
<1>5. Overtakes'
  BY DEF Inv, DriveGathers, NextRound, slots, bounds, Waiting, Pending, Daemonic,
         Overtakes, TypeOK, Known, Shape, ByMode, Subjects
<1>6. AskedSeen'
  BY DEF Inv, DriveGathers, NextRound, slots, bounds, Waiting, Pending, Daemonic,
         AskedSeen, Polling, TypeOK, Known, Overtakes, Shape, Subjects
<1>7. SessionSeen'
  BY DEF Inv, DriveGathers, NextRound, slots, bounds, Waiting, Pending, SessionSeen,
         TypeOK, Shape, ByMode, Subjects, Known
<1>8. SessionSettled'
  BY DEF Inv, DriveGathers, NextRound, slots, bounds, SessionSettled, Live
<1>9. NeverBlind'
  BY DEF Inv, DriveGathers, NextRound, slots, bounds, NeverBlind
<1>10. QED
  BY <1>1, <1>2, <1>3, <1>4, <1>5, <1>6, <1>7, <1>8, <1>9 DEF Inv, Daemonic

LEMMA WorkDoneStep ==
  ASSUME Inv, WorkDone
  PROVE  Inv'
<1>1. TypeOK'
  BY DEF Inv, WorkDone, Live, NextRound, slots, bounds, TypeOK
<1>2. Known' /\ Overtakes' /\ AskedSeen' /\ NeverBlind'
  BY DEF Inv, WorkDone, Live, NextRound, slots, bounds, Known, Daemonic, Overtakes,
         AskedSeen, Polling, NeverBlind
<1>3. Shape'
  BY DEF Inv, WorkDone, Live, NextRound, slots, bounds, Shape, ByMode, Subjects,
         Attending
<1>4. Expected'
  BY DEF Inv, WorkDone, Live, NextRound, slots, bounds, Daemonic, Expected, NudgeComes,
         GatherSaw, PassComes
<1>5. SessionSeen'
  BY DEF Inv, WorkDone, Live, NextRound, slots, bounds, SessionSeen
<1>6. SessionSettled'
  BY DEF Inv, WorkDone, Live, NextRound, slots, bounds, SessionSettled
<1>7. QED
  BY <1>1, <1>2, <1>3, <1>4, <1>5, <1>6 DEF Inv, Daemonic

LEMMA QuiescentStep ==
  ASSUME Inv, Quiescent
  PROVE  Inv'
<1>1. TypeOK'
  BY DEF Inv, Quiescent, NextRound, slots, bounds, TypeOK
<1>2. Known' /\ Overtakes' /\ AskedSeen' /\ NeverBlind'
  BY DEF Inv, Quiescent, NextRound, slots, bounds, Known, Daemonic, Overtakes,
         AskedSeen, Polling, NeverBlind
<1>3. Shape'
  BY DEF Inv, Quiescent, NextRound, slots, bounds, Shape, ByMode, Subjects, Attending
<1>4. Expected'
  BY DEF Inv, Quiescent, NextRound, slots, bounds, Daemonic, Expected, NudgeComes,
         GatherSaw, PassComes
<1>5. SessionSeen'
  BY DEF Inv, Quiescent, NextRound, slots, bounds, SessionSeen
<1>6. SessionSettled'
  BY DEF Inv, Quiescent, NextRound, slots, bounds, SessionSettled, Live
<1>7. QED
  BY <1>1, <1>2, <1>3, <1>4, <1>5, <1>6 DEF Inv, Daemonic

LEMMA DriveEndsStep ==
  ASSUME Inv, DriveEnds
  PROVE  Inv'
<1>1. TypeOK'
  <2>1. supply' \in SupplyType
    <3>1. NoSupply \in SupplyType
      BY DEF NoSupply, SupplyType
    <3>2. supply' \in {supply, NoSupply}
      BY DEF DriveEnds
    <3>3. QED
      BY <3>1, <3>2 DEF Inv, TypeOK
  <2>2. verb' \in VerbType
    <3>1. verb \in VerbType /\ (verb.job # None => job[verb.job] \in State) /\ "none" \in State
      BY DEF Inv, TypeOK, VerbType, State
    <3>2. CASE UNCHANGED verb
      BY <3>1, <3>2
    <3>3. CASE ~UNCHANGED verb
      <4>1. PICK pc \in {"after", "answered"}, read \in State :
               verb' = [verb EXCEPT !.pc = pc, !.read = read]
        BY <3>1, <3>3 DEF DriveEnds
      <4>2. QED
        BY <3>1, <4>1 DEF VerbType
    <3>4. QED
      BY <3>2, <3>3
  <2>3. QED
    BY <2>1, <2>2 DEF Inv, DriveEnds, slots, bounds, TypeOK
<1>2. Shape'
  <2>1. ~resident /\ verb \in VerbType /\ verb.pc = "drive"
    BY DEF Inv, TypeOK, Shape, ByMode, DriveEnds
  <2>2. \/ UNCHANGED verb /\ loop' = "gather"
        \/ /\ verb' \in VerbType /\ loop' = "off"
           /\ verb'.kind = verb.kind /\ verb'.job = verb.job
           /\ verb'.pc = IF verb.kind \in {"edit", "retry", "gc"} THEN "after" ELSE "answered"
    BY <1>1, <2>1 DEF DriveEnds, TypeOK, VerbType
  <2>3. ByMode'
    BY <2>1, <2>2 DEF Inv, DriveEnds, slots, Shape, ByMode
  <2>4. Subjects'
    BY <2>1, <2>2 DEF Inv, DriveEnds, slots, Shape, Subjects, Attending
  <2>5. QED
    BY <2>3, <2>4 DEF Shape
<1>3. Known'
  BY DEF Inv, DriveEnds, slots, bounds, NoSupply, Known
<1>4. Expected'
  BY DEF Inv, DriveEnds, slots, bounds, NoSupply, Daemonic, Expected, NudgeComes,
         GatherSaw, PassComes, Known, Overtakes, Shape, ByMode
<1>5. Overtakes'
  BY DEF Inv, DriveEnds, slots, bounds, NoSupply, Daemonic, Overtakes
<1>6. AskedSeen'
  BY DEF Inv, DriveEnds, slots, bounds, NoSupply, Daemonic, AskedSeen, Polling, TypeOK,
         Known, Overtakes, Shape, Subjects, ByMode
<1>7. SessionSeen'
  BY DEF Inv, DriveEnds, slots, bounds, SessionSeen
<1>8. SessionSettled'
  BY DEF Inv, DriveEnds, slots, bounds, SessionSettled, Live
<1>9. NeverBlind'
  BY DEF Inv, DriveEnds, slots, bounds, NeverBlind
<1>10. QED
  BY <1>1, <1>2, <1>3, <1>4, <1>5, <1>6, <1>7, <1>8, <1>9 DEF Inv, Daemonic

LEMMA DriveRaisesStep ==
  ASSUME Inv, DriveRaises
  PROVE  Inv'
<1>1. ~resident
  BY DEF Inv, DriveRaises, Shape, ByMode
<1>2. TypeOK'
  <2>1. verb' \in VerbType
    BY DEF DriveRaises, IdleVerb, VerbType, State
  <2>2. supply' \in SupplyType
    BY DEF DriveRaises, NoSupply, SupplyType
  <2>3. faults' \in 0..MaxFaults /\ asks' \in 0..MaxAsks
    BY FrontAssumption DEF Inv, TypeOK, DriveRaises, Fault
  <2>4. parked' \subseteq Jobs /\ cancels' \subseteq Jobs
    BY DEF Inv, TypeOK, DriveRaises
  <2>5. QED
    BY <2>1, <2>2, <2>3, <2>4 DEF Inv, DriveRaises, slots, TypeOK
<1>3. Shape'
  BY <1>1 DEF Inv, DriveRaises, slots, IdleVerb, Shape, ByMode, Subjects, Attending
<1>4. Known'
  BY DEF Inv, DriveRaises, slots, NoSupply, Known
<1>5. Expected' /\ Overtakes' /\ AskedSeen' /\ SessionSeen'
  BY <1>1 DEF Inv, DriveRaises, slots, NoSupply, IdleVerb, Expected, Overtakes, AskedSeen,
     SessionSeen
<1>6. SessionSettled'
  <2>1. \A j \in Jobs : ~Live(j)'
    BY DEF DriveRaises, Live, Pending, Terminal
  <2>2. \A j \in cancels' : j \in parked' /\ job'[j] \notin Terminal
    BY DEF DriveRaises
  <2>3. QED
    BY <2>1, <2>2 DEF DriveRaises, SessionSettled
<1>7. NeverBlind'
  BY DEF Inv, DriveRaises, NeverBlind
<1>8. QED
  BY <1>2, <1>3, <1>4, <1>5, <1>6, <1>7 DEF Inv, Daemonic

----------------------------------------------------------------------------
(***************************************************************************)
(* The verbs.                                                              *)
(***************************************************************************)
LEMMA SubmitStep ==
  ASSUME Inv, NEW j \in Jobs, NEW kind \in {"submit", "enqueue"}, Submit(j, kind)
  PROVE  Inv'
<1>1. TypeOK'
  <2>1. verb' \in VerbType
    BY FrontAssumption DEF Inv, Submit, Asks, Set, Move, FeedOpen, slots, IdleVerb,
           TypeOK, VerbType
  <2>2. watch' \in WatchType
    BY FrontAssumption DEF Inv, Submit, Asks, Set, Move, FeedOpen, slots, IdleVerb,
           TypeOK, WatchType
  <2>3. QED
    BY FrontAssumption, <2>1, <2>2 DEF Inv, Submit, Asks, Set, Move, FeedOpen, slots,
           IdleVerb, TypeOK, State, Terminal, Pending
<1>2. Shape'
  BY FrontAssumption DEF Inv, Submit, Asks, Set, Move, FeedOpen, slots, IdleVerb, Shape,
         ByMode, Subjects, Attending, TypeOK, State, Terminal, Pending, GatherType,
         SupplyType, VerbType, WatchType
<1>3. Known'
  BY DEF Inv, Submit, Asks, Set, Move, FeedOpen, slots, IdleVerb, Known, TypeOK, Shape,
         ByMode, Terminal, Pending
<1>4. Expected'
  BY DEF Inv, Submit, Asks, Set, Move, FeedOpen, slots, Daemonic, Expected, NudgeComes,
         GatherSaw, PassComes
<1>5. Overtakes'
  BY DEF Inv, Submit, Asks, Set, Move, FeedOpen, slots, IdleVerb, Daemonic, Overtakes,
         Known
<1>6. AskedSeen'
  BY DEF Inv, Submit, Asks, Set, Move, FeedOpen, slots, Daemonic, AskedSeen, Polling
<1>7. SessionSeen'
  BY DEF Inv, Submit, Asks, Set, Move, FeedOpen, slots, IdleVerb, SessionSeen, Shape,
         ByMode, Subjects, Known
<1>8. SessionSettled'
  BY DEF Inv, Submit, Asks, Set, Move, FeedOpen, slots, IdleVerb, SessionSettled, Live,
         TypeOK, Shape, ByMode, Known, Terminal, Pending
<1>9. NeverBlind'
  BY DEF Inv, Submit, Asks, Set, Move, FeedOpen, slots, NeverBlind
<1>10. QED
  BY <1>1, <1>2, <1>3, <1>4, <1>5, <1>6, <1>7, <1>8, <1>9 DEF Inv, Daemonic

LEMMA TickVerbStep ==
  ASSUME Inv, TickVerb
  PROVE  Inv'
<1>1. TypeOK'
  <2>1. gathering' \in GatherType
    BY DEF Inv, TickVerb, Asks, IdleVerb, TypeOK, GatherType
  <2>2. verb' \in VerbType
    BY FrontAssumption DEF Inv, TickVerb, Asks, IdleVerb, TypeOK, VerbType, State,
           Terminal, Pending
  <2>3. QED
    BY FrontAssumption, <2>1, <2>2 DEF Inv, TickVerb, Asks, TypeOK
<1>2. Shape'
  BY FrontAssumption DEF Inv, TickVerb, Asks, Shape, ByMode, Subjects, Attending
<1>3. Known'
  BY DEF Inv, TickVerb, Asks, Known
<1>4. Expected'
  BY DEF Inv, TickVerb, Asks, Daemonic, Expected, NudgeComes, GatherSaw, PassComes
<1>5. Overtakes'
  BY DEF Inv, TickVerb, Asks, Daemonic, Overtakes
<1>6. AskedSeen'
  BY DEF Inv, TickVerb, Asks, Daemonic, AskedSeen, Polling
<1>7. SessionSeen'
  BY DEF Inv, TickVerb, Asks, SessionSeen
<1>8. SessionSettled'
  BY DEF Inv, TickVerb, Asks, SessionSettled, Live
<1>9. NeverBlind'
  BY DEF Inv, TickVerb, Asks, NeverBlind
<1>10. QED
  BY <1>1, <1>2, <1>3, <1>4, <1>5, <1>6, <1>7, <1>8, <1>9 DEF Inv, Daemonic

LEMMA WakeStep ==
  ASSUME Inv, Wake
  PROVE  Inv'
<1>1. TypeOK'
  <2>1. gathering' \in GatherType
    BY DEF Inv, Wake, Goes, engine, bounds, TypeOK, GatherType
  <2>2. verb' \in VerbType
    BY DEF Inv, Wake, Goes, engine, bounds, TypeOK, VerbType
  <2>3. QED
    BY <2>1, <2>2 DEF Inv, Wake, Goes, engine, bounds, TypeOK
<1>2. SessionSettled' /\ NeverBlind'
  BY DEF Inv, Wake, Goes, engine, bounds, SessionSettled, Live, NeverBlind
<1>3. Shape'
  BY DEF Inv, Wake, Goes, engine, bounds, Shape, ByMode, Subjects, Attending, TypeOK,
         State, Terminal, Pending, GatherType, SupplyType, VerbType, WatchType
<1>4. Known'
  BY DEF Inv, Wake, Goes, engine, bounds, Known, TypeOK, Shape, ByMode, Terminal,
         Pending, GatherType
<1>5. Expected'
  BY DEF Inv, Wake, Goes, engine, bounds, Daemonic, Expected, NudgeComes, GatherSaw,
         PassComes
<1>6. Overtakes'
  BY DEF Inv, Wake, Goes, engine, bounds, Daemonic, Overtakes, TypeOK, Known, Terminal,
         Pending, GatherType
<1>7. AskedSeen'
  BY DEF Inv, Wake, Goes, engine, bounds, Daemonic, AskedSeen, Polling, TypeOK, Known,
         Overtakes, Shape, Subjects, Terminal, Pending, VerbType
<1>8. SessionSeen'
  BY DEF Inv, Wake, Goes, engine, bounds, SessionSeen, Shape, ByMode, Subjects, Known
<1>9. QED
  BY <1>1, <1>2, <1>3, <1>4, <1>5, <1>6, <1>7, <1>8 DEF Inv, Daemonic

LEMMA CancelStep ==
  ASSUME Inv, NEW j \in Jobs, Cancel(j)
  PROVE  Inv'
<1>1. TypeOK'
  <2>1. verb' \in VerbType
    BY FrontAssumption DEF Inv, Cancel, Asks, WaitPc, Requests, slots, Terminal,
           IdleVerb, TypeOK, VerbType, State, Pending
  <2>2. QED
    BY FrontAssumption, <2>1 DEF Inv, Cancel, Asks, WaitPc, Requests, slots, TypeOK
<1>2. Overtakes' /\ NeverBlind'
  BY DEF Inv, Cancel, Asks, WaitPc, Requests, slots, Daemonic, Overtakes, NeverBlind
<1>3. Shape'
  BY FrontAssumption DEF Inv, Cancel, Asks, WaitPc, Requests, slots, Terminal, IdleVerb,
         Shape, ByMode, Subjects, Attending, TypeOK, State, Pending, GatherType,
         SupplyType, VerbType, WatchType
<1>4. Known'
  BY DEF Inv, Cancel, Asks, WaitPc, Requests, slots, Known
<1>5. Expected'
  BY DEF Inv, Cancel, Asks, WaitPc, Requests, slots, Daemonic, Expected, NudgeComes,
         GatherSaw, PassComes
<1>6. AskedSeen'
  BY DEF Inv, Cancel, Asks, WaitPc, Requests, slots, Daemonic, AskedSeen, Polling
<1>7. SessionSeen'
  BY DEF Inv, Cancel, Asks, WaitPc, Requests, slots, SessionSeen
<1>8. SessionSettled'
  BY DEF Inv, Cancel, Asks, WaitPc, Requests, slots, SessionSettled, Live
<1>9. QED
  BY <1>1, <1>2, <1>3, <1>4, <1>5, <1>6, <1>7, <1>8 DEF Inv, Daemonic

LEMMA GcStep ==
  ASSUME Inv, NEW all \in BOOLEAN, Gc(all)
  PROVE  Inv'
<1>1. TypeOK'
  <2>1. verb' \in VerbType
    <3>1. verb' = [kind |-> "gc", job |-> None, pc |-> WaitPc, read |-> "none", passed |-> "no"]
      BY DEF Gc, Asks, IdleVerb
    <3>2. QED
      BY <3>1 DEF WaitPc, VerbType, State
  <2>2. QED
    BY FrontAssumption, <2>1 DEF Inv, Gc, Asks, WaitPc, Requests, slots, TypeOK
<1>2. Overtakes' /\ NeverBlind'
  BY DEF Inv, Gc, Asks, WaitPc, Requests, slots, Daemonic, Overtakes, NeverBlind
<1>3. Shape'
  BY FrontAssumption DEF Inv, Gc, Asks, WaitPc, Requests, slots, Shape, ByMode,
         Subjects, Attending
<1>4. Known'
  BY DEF Inv, Gc, Asks, WaitPc, Requests, slots, Known
<1>5. Expected'
  BY DEF Inv, Gc, Asks, WaitPc, Requests, slots, Daemonic, Expected, NudgeComes,
         GatherSaw, PassComes
<1>6. AskedSeen'
  BY DEF Inv, Gc, Asks, WaitPc, Requests, slots, Daemonic, AskedSeen, Polling
<1>7. SessionSeen'
  BY DEF Inv, Gc, Asks, WaitPc, Requests, slots, SessionSeen
<1>8. SessionSettled'
  BY DEF Inv, Gc, Asks, WaitPc, Requests, slots, SessionSettled, Live
<1>9. QED
  BY <1>1, <1>2, <1>3, <1>4, <1>5, <1>6, <1>7, <1>8 DEF Inv, Daemonic

LEMMA EditPendingStep ==
  ASSUME Inv, NEW j \in Jobs, EditPending(j)
  PROVE  Inv'
<1>1. TypeOK'
  <2>1. gathering' \in GatherType
    BY DEF Inv, EditPending, Asks, Outdated, engine, Pending, IdleVerb, TypeOK,
           GatherType
  <2>2. supply' \in SupplyType
    BY DEF Inv, EditPending, Asks, Outdated, engine, Pending, IdleVerb, TypeOK,
           SupplyType
  <2>3. verb' \in VerbType
    BY FrontAssumption DEF Inv, EditPending, Asks, Outdated, engine, Pending,
           IdleVerb, TypeOK, VerbType, State, Terminal
  <2>4. QED
    BY FrontAssumption, <2>1, <2>2, <2>3 DEF Inv, EditPending, Asks, Outdated, engine,
           TypeOK
<1>2. SessionSettled' /\ NeverBlind'
  BY DEF Inv, EditPending, Asks, Outdated, engine, SessionSettled, Live, NeverBlind
<1>3. Shape'
  BY FrontAssumption DEF Inv, EditPending, Asks, Outdated, engine, Pending, IdleVerb,
         Shape, ByMode, Subjects, Attending, TypeOK, State, Terminal, GatherType,
         SupplyType, VerbType, WatchType
<1>4. Known'
  BY DEF Inv, EditPending, Asks, Outdated, engine, Known
<1>5. Expected'
  BY DEF Inv, EditPending, Asks, Outdated, engine, Daemonic, Expected, NudgeComes,
         GatherSaw, PassComes
<1>6. Overtakes'
  BY DEF Inv, EditPending, Asks, Outdated, engine, Daemonic, Overtakes
<1>7. AskedSeen'
  BY DEF Inv, EditPending, Asks, Outdated, engine, Daemonic, AskedSeen, Polling
<1>8. SessionSeen'
  BY DEF Inv, EditPending, Asks, Outdated, engine, Pending, IdleVerb, SessionSeen,
         Shape, ByMode, Subjects, Known
<1>9. QED
  BY <1>1, <1>2, <1>3, <1>4, <1>5, <1>6, <1>7, <1>8 DEF Inv, Daemonic

LEMMA EditPlacedStep ==
  ASSUME Inv, NEW j \in Jobs, EditPlaced(j)
  PROVE  Inv'
<1>1. TypeOK'
  <2>1. verb' \in VerbType
    BY FrontAssumption DEF Inv, EditPlaced, Asks, WaitPc, Requests, slots, IdleVerb,
           Terminal, TypeOK, VerbType, State, Pending
  <2>2. QED
    BY FrontAssumption, <2>1 DEF Inv, EditPlaced, Asks, WaitPc, Requests, slots,
           TypeOK
<1>2. Overtakes' /\ NeverBlind'
  BY DEF Inv, EditPlaced, Asks, WaitPc, Requests, slots, Daemonic, Overtakes, NeverBlind
<1>3. Shape'
  BY FrontAssumption DEF Inv, EditPlaced, Asks, WaitPc, Requests, slots, IdleVerb,
         Terminal, Shape, ByMode, Subjects, Attending, TypeOK, State, Pending,
         GatherType, SupplyType, VerbType, WatchType
<1>4. Known'
  BY DEF Inv, EditPlaced, Asks, WaitPc, Requests, slots, Known
<1>5. Expected'
  BY DEF Inv, EditPlaced, Asks, WaitPc, Requests, slots, Daemonic, Expected, NudgeComes,
         GatherSaw, PassComes
<1>6. AskedSeen'
  BY DEF Inv, EditPlaced, Asks, WaitPc, Requests, slots, Daemonic, AskedSeen, Polling
<1>7. SessionSeen'
  BY DEF Inv, EditPlaced, Asks, WaitPc, Requests, slots, SessionSeen
<1>8. SessionSettled'
  BY DEF Inv, EditPlaced, Asks, WaitPc, Requests, slots, SessionSettled, Live
<1>9. QED
  BY <1>1, <1>2, <1>3, <1>4, <1>5, <1>6, <1>7, <1>8 DEF Inv, Daemonic

LEMMA RetryStep ==
  ASSUME Inv, NEW j \in Jobs, Retry(j)
  PROVE  Inv'
<1>1. TypeOK'
  <2>1. verb' \in VerbType
    BY FrontAssumption DEF Inv, Retry, Asks, WaitPc, IdleVerb, TypeOK, VerbType, State, Terminal,
           Pending
  <2>2. asks' \in 0..MaxAsks
    BY FrontAssumption DEF Inv, TypeOK, Retry, Asks
  <2>3. cancels' \subseteq Jobs /\ wake' \in BOOLEAN
    BY DEF Inv, TypeOK, Retry, Requests
  <2>4. loop' \in {loop, "gather"}
    BY DEF Retry, Requests
  <2>5. UNCHANGED parked
    BY DEF Retry, Requests
  <2>6. QED
    BY <2>1, <2>2, <2>3, <2>4, <2>5 DEF Inv, Retry, Asks, slots, TypeOK
<1>2. Overtakes' /\ NeverBlind'
  BY DEF Inv, Retry, Asks, WaitPc, Requests, slots, Daemonic, Overtakes, NeverBlind
<1>3. Shape'
  BY FrontAssumption DEF Inv, Retry, Asks, WaitPc, Requests, slots, Terminal, IdleVerb,
         Shape, ByMode, Subjects, Attending, TypeOK, State, Pending, GatherType,
         SupplyType, VerbType, WatchType
<1>4. Known'
  BY DEF Inv, Retry, Asks, WaitPc, Requests, slots, Known
<1>5. Expected'
  BY DEF Inv, Retry, Asks, WaitPc, Requests, slots, Daemonic, Expected, NudgeComes,
         GatherSaw, PassComes
<1>6. AskedSeen'
  BY DEF Inv, Retry, Asks, WaitPc, Requests, slots, Daemonic, AskedSeen, Polling
<1>7. SessionSeen'
  BY DEF Inv, Retry, Asks, WaitPc, Requests, slots, SessionSeen
<1>8. SessionSettled'
  BY DEF Inv, Retry, Asks, WaitPc, Requests, slots, SessionSettled, Live
<1>9. QED
  BY <1>1, <1>2, <1>3, <1>4, <1>5, <1>6, <1>7, <1>8 DEF Inv, Daemonic

LEMMA RequeueStep ==
  ASSUME Inv, Requeue
  PROVE  Inv'
<1>1. TypeOK'
  <2>1. gathering' \in GatherType
    BY DEF Inv, Requeue, MayRequeue, Requeues, Set, Move, FeedOpen, Outdated, Goes,
           engine, bounds, Terminal, TypeOK, GatherType
  <2>2. supply' \in SupplyType
    BY DEF Inv, Requeue, MayRequeue, Requeues, Set, Move, FeedOpen, Outdated, Goes,
           engine, bounds, Terminal, TypeOK, SupplyType
  <2>3. verb' \in VerbType
    BY DEF Inv, Requeue, MayRequeue, Requeues, Set, Move, FeedOpen, Outdated, Goes,
           engine, bounds, Terminal, TypeOK, VerbType
  <2>4. watch' \in WatchType
    BY DEF Inv, Requeue, MayRequeue, Requeues, Set, Move, FeedOpen, Outdated, Goes,
           engine, bounds, Terminal, TypeOK, WatchType
  <2>5. verb.job \in Jobs /\ due' \subseteq Jobs
    BY DEF Inv, Requeue, Requeues, Shape, Subjects, TypeOK, VerbType
  <2>6. job' \in [Jobs -> State]
    BY <2>5 DEF Inv, Requeue, Requeues, Set, Move, TypeOK, State, Pending
  <2>7. QED
    BY <2>1, <2>2, <2>3, <2>4, <2>5, <2>6 DEF Inv, Requeue, engine, bounds, TypeOK
<1>2. Shape'
  BY DEF Inv, Requeue, MayRequeue, Requeues, Set, Move, FeedOpen, Outdated, Goes,
         engine, bounds, Shape, ByMode, Subjects, Attending
<1>3. Known'
  BY DEF Inv, Requeue, MayRequeue, Requeues, Set, Move, FeedOpen, Outdated, Goes,
         engine, bounds, Terminal, Known, TypeOK, Shape, ByMode, Subjects, GatherType,
         SupplyType, VerbType, WatchType, State, Pending
<1>4. Expected'
  BY DEF Inv, Requeue, MayRequeue, Requeues, Set, Move, FeedOpen, Outdated, Goes,
         engine, bounds, Daemonic, Expected, NudgeComes, GatherSaw, PassComes
<1>5. Overtakes'
  BY DEF Inv, Requeue, MayRequeue, Requeues, Set, Move, FeedOpen, Outdated, Goes,
         engine, bounds, Daemonic, Overtakes
<1>6. AskedSeen'
  BY DEF Inv, Requeue, MayRequeue, Requeues, Set, Move, FeedOpen, Outdated, Goes,
         engine, bounds, Daemonic, AskedSeen, Polling
<1>7. SessionSeen'
  BY DEF Inv, Requeue, MayRequeue, Requeues, Set, Move, FeedOpen, Outdated, Goes,
         engine, bounds, Terminal, SessionSeen, Shape, ByMode, Subjects, Known
<1>8. SessionSettled'
  <2>1. /\ UNCHANGED <<resident, resource, loop, cancels, parked, wake>>
        /\ verb.job \in Jobs /\ job[verb.job] \in Terminal
    BY DEF Inv, Requeue, MayRequeue, engine, Shape, Subjects, TypeOK, VerbType, Terminal
  <2>2. ~resident => loop = "off"
    BY DEF Inv, Requeue, Shape, ByMode
  <2>3. job' = [job EXCEPT ![verb.job] = "queued"]
    BY DEF Requeue, Requeues, Set, Move
  <2>4. job'[verb.job] = "queued" /\ \A k \in Jobs \ {verb.job} : job'[k] = job[k]
    BY <2>1, <2>3 DEF Inv, TypeOK
  <2>5. ~resident => verb.job \notin cancels
    BY <2>1, <2>2 DEF Inv, SessionSettled
  <2>6. ~resident => \A k \in Jobs : ~Live(k)'
    BY <2>1, <2>2, <2>4, <2>5 DEF Inv, SessionSettled, Live, Terminal
  <2>7. ~resident => \A k \in cancels : k \in parked /\ job'[k] \notin Terminal
    BY <2>1, <2>2, <2>4, <2>5 DEF Inv, SessionSettled, TypeOK
  <2>8. QED
    BY <2>1, <2>2, <2>6, <2>7 DEF SessionSettled
<1>9. NeverBlind'
  BY DEF Inv, Requeue, MayRequeue, Requeues, Set, Move, FeedOpen, Outdated, Goes,
         engine, bounds, NeverBlind
<1>10. QED
  BY <1>1, <1>2, <1>3, <1>4, <1>5, <1>6, <1>7, <1>8, <1>9 DEF Inv, Daemonic

----------------------------------------------------------------------------
(***************************************************************************)
(* The restart.                                                            *)
(***************************************************************************)
LEMMA RestartStep ==
  ASSUME Inv, Restart
  PROVE  Inv'
<1>1. TypeOK'
  <2>1. gathering' \in GatherType
    BY DEF Inv, Restart, Fault, NoGather, NoSupply, IdleVerb, TypeOK, GatherType
  <2>2. supply' \in SupplyType
    BY DEF Inv, Restart, Fault, NoGather, NoSupply, IdleVerb, TypeOK, SupplyType
  <2>3. verb' \in VerbType
    BY FrontAssumption DEF Inv, Restart, Fault, NoGather, NoSupply, IdleVerb, TypeOK,
           VerbType, State, Terminal, Pending
  <2>4. watch' \in WatchType
    BY FrontAssumption DEF Inv, Restart, Fault, NoGather, NoSupply, IdleVerb, TypeOK,
           WatchType, State, Terminal, Pending
  <2>5. faults' \in 0..MaxFaults
    BY FrontAssumption DEF Inv, Restart, Fault, TypeOK
  <2>6. /\ loop' = "tripped" /\ refresher' = "tripped" /\ posted' = 0
        /\ UNCHANGED <<resident, job, resource, due, asks>>
    BY DEF Restart, Fault
  <2>7. wake' \in BOOLEAN /\ slotsWake' \in BOOLEAN
    BY Zenon DEF Restart
  <2>8. /\ resident' \in BOOLEAN
        /\ job' \in [Jobs -> State] /\ resource' \in [Jobs -> {"none", "held"}]
        /\ due' \subseteq Jobs /\ asks' \in 0..MaxAsks
    BY <2>6 DEF Inv, TypeOK
  <2>9. cancels' \subseteq Jobs
    BY DEF Inv, TypeOK, Restart
  <2>10. PICK poisoned \in SUBSET {j \in Jobs : Open(j)} : parked' = parked \cup poisoned
    BY DEF Restart
  <2>11. parked' \subseteq Jobs
    BY <2>10 DEF Inv, TypeOK
  <2>12. QED
    BY <2>1, <2>2, <2>3, <2>4, <2>5, <2>6, <2>7, <2>8, <2>9, <2>11 DEF TypeOK
<1>2. Shape'
  BY DEF Inv, Restart, Fault, NoGather, NoSupply, IdleVerb, Shape, ByMode, Subjects,
         Attending
<1>3. Known'
  BY DEF Inv, Restart, Fault, NoGather, NoSupply, IdleVerb, Known
<1>4. Expected'
  BY DEF Inv, Restart, Fault, Daemonic, Expected, NudgeComes, GatherSaw, PassComes
<1>5. Overtakes'
  BY DEF Inv, Restart, Fault, NoGather, NoSupply, IdleVerb, Daemonic, Overtakes
<1>6. AskedSeen'
  BY DEF Inv, Restart, Fault, NoGather, NoSupply, IdleVerb, Daemonic, AskedSeen, Polling
<1>7. SessionSeen'
  BY DEF Inv, Restart, Fault, SessionSeen
<1>8. SessionSettled'
  BY DEF Inv, Restart, Fault, SessionSettled, Live
<1>9. NeverBlind'
  BY DEF Inv, Restart, Fault, NeverBlind
<1>10. QED
  BY <1>1, <1>2, <1>3, <1>4, <1>5, <1>6, <1>7, <1>8, <1>9 DEF Inv, Daemonic

----------------------------------------------------------------------------
(***************************************************************************)
(* The theorems.                                                           *)
(***************************************************************************)
LEMMA InitInv == Init => Inv
<1> SUFFICES ASSUME Init PROVE Inv
  OBVIOUS
<1>1. 0 \in 0..MaxAsks /\ 0 \in 0..MaxFaults
  BY FrontAssumption
<1>2. gathering \in GatherType /\ supply \in SupplyType
  BY DEF Init, NoGather, NoSupply, GatherType, SupplyType
<1>3. verb \in VerbType /\ watch \in WatchType
  BY DEF Init, IdleVerb, NoWatch, VerbType, WatchType, State
<1>4. TypeOK
  <2>1. job \in [Jobs -> State] /\ resource \in [Jobs -> {"none", "held"}]
    BY DEF Init, State
  <2>2. posted \in 0..2 /\ asks \in 0..MaxAsks /\ faults \in 0..MaxFaults
    BY <1>1 DEF Init
  <2>3. QED
    BY <1>2, <1>3, <2>1, <2>2 DEF Init, TypeOK
<1>5. Shape
  BY DEF Init, Shape, ByMode, Subjects, Attending, NoGather, IdleVerb, NoWatch
<1>6. Known /\ Daemonic
  BY DEF Init, Known, Daemonic, Expected, Overtakes, AskedSeen, NoGather, NoSupply, IdleVerb
<1>7. SessionSeen
  BY DEF Init, SessionSeen, IdleVerb
<1>8. SessionSettled
  BY DEF Init, SessionSettled, Live, Terminal
<1>9. NeverBlind
  BY DEF Init, NeverBlind, NoWatch
<1>10. QED
  BY <1>4, <1>5, <1>6, <1>7, <1>8, <1>9 DEF Inv

LEMMA StutterInv ==
  ASSUME Inv, UNCHANGED vars
  PROVE  Inv'
<1>1. TypeOK' /\ Shape' /\ Known'
  BY DEF Inv, vars, engine, slots, bounds, TypeOK, Shape, ByMode, Subjects, Attending, Known
<1>2. Daemonic'
  BY DEF Inv, vars, engine, slots, bounds, Daemonic, Expected, NudgeComes, GatherSaw, PassComes,
         Overtakes, AskedSeen, Polling
<1>3. SessionSeen' /\ SessionSettled' /\ NeverBlind'
  BY DEF Inv, vars, engine, slots, bounds, SessionSeen, SessionSettled, Live, NeverBlind
<1>4. QED
  BY <1>1, <1>2, <1>3 DEF Inv

LEMMA NextInv ==
  ASSUME Inv, [Next]_vars
  PROVE  Inv'
<1>1. CASE Gathers \/ Publishes \/ RefreshRaises \/ Callback
  BY <1>1, RefresherGathersStep, VerbGathersStep, RefresherPublishesStep, VerbPublishesStep,
     RefreshRaisesStep, CallbackStep DEF Gathers, Publishes
<1>2. CASE Handlers
  BY <1>2, GatherSlowStep, WakeStep, LoadStep, IntentStep, CountStep, ReloadStep, TickSeenStep,
     NotYetStep, WaitedStep, RequeueStep, GivesStep, AnsweredStep DEF Handlers
<1>3. CASE Loop \/ Session
  BY <1>3, RoundStartsStep, RunPassStep, RoundRaisesStep, DriveGathersStep, WorkDoneStep,
     QuiescentStep, DriveEndsStep, DriveRaisesStep DEF Loop, Session
<1>4. CASE Client
  BY <1>4, SubmitStep, TickVerbStep, CancelStep, GcStep, EditPendingStep, EditPlacedStep,
     RetryStep DEF Client
<1>5. CASE Watching
  BY <1>5, LookStep, ServeStep, WatchStartsStep DEF Watching, Watcher
<1>6. CASE Restart
  BY <1>6, RestartStep
<1>7. ASSUME NEW j \in Jobs, Work(j)
      PROVE  Inv'
  BY <1>7, PlacedStep, RequeuedStep, CancelDoneStep, FinishedStep, ReapedStep, FreezesStep,
     CancelFailsStep DEF Work
<1>8. CASE UNCHANGED vars
  BY <1>8, StutterInv
<1>9. QED
  BY <1>1, <1>2, <1>3, <1>4, <1>5, <1>6, <1>7, <1>8 DEF Next

LEMMA InvMisses == Inv => NothingMissed
<1> SUFFICES ASSUME Inv PROVE NothingMissed
  OBVIOUS
<1>1. CaughtUp
  BY DEF Inv, Daemonic, CaughtUp, Expected, NudgeComes, GatherSaw, PassComes, NoGather
<1>2. QueuedWasSeen
  BY DEF Inv, Daemonic, QueuedWasSeen, AskedSeen, SessionSeen
<1>3. QED
  BY <1>1, <1>2 DEF Inv, NothingMissed

LEMMA InvSettles == Inv => DriveSettles
BY DEF Inv, SessionSettled, DriveSettles

LEMMA InvAlways == Spec => []Inv
<1>1. Init => Inv
  BY InitInv
<1>2. Inv /\ [Next]_vars => Inv'
  BY NextInv
<1>3. QED
  BY <1>1, <1>2, PTL DEF Spec

\* With both of the daemon's loops asleep and nothing on its way to them, every job
\* a verb queued or changed has been looked at over slots gathered after it; and a
\* submit answered as left in the queue was (Daemon.wake, _slot_refresher,
\* _await_settle, _drive_async).
THEOREM NothingMissedCorrect == Spec => []NothingMissed
BY InvAlways, InvMisses, PTL

\* A session returns with no placement, cancel or follow-up in flight
\* (run_until_quiescent).
THEOREM DriveSettlesCorrect == Spec => []DriveSettles
BY InvAlways, InvSettles, PTL

\* What a client on the feed does not know yet, an event on its way will tell it
\* (_events, RemoteClient.wait).
THEOREM NeverBlindCorrect == Spec => []NeverBlind
<1>1. Inv => NeverBlind
  BY DEF Inv
<1>2. QED
  BY <1>1, InvAlways, PTL
==============================================================================
