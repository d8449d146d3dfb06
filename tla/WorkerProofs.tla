---------------------------- MODULE WorkerProofs ----------------------------
(***************************************************************************)
(* What a worker leaves: the directories its scripts share, and the log of *)
(* a job as it is followed from outside.  The two components share nothing;*)
(* their proofs share this module and no lemma.  The names of the first    *)
(* carry the prefix Boot where the second has the name already.            *)
(***************************************************************************)
EXTENDS Bootstrap, JobStream, FiniteSetTheorems, SequenceTheorems, TLAPS

----------------------------------------------------------------------------
(***************************************************************************)
(* The scripts of a project, for every set of jobs and of revisions, any   *)
(* mix of them, and any number of deaths.                                  *)
(***************************************************************************)

\* The parameters of an instance, and its settings.
LEMMA BootParameters ==
  /\ MaxDeaths \in Nat /\ None \notin Jobs \cup Revs /\ Watched \in Jobs
  /\ Built \subseteq Revs \cup {None}
  /\ \A s \in Settings : s[1] \in [Jobs -> Revs] /\ s[2] \in {"uv", "plain"} /\ s[3] \in {"local", "ssh"}
BY BootstrapAssumption

LEMMA Set ==
  ASSUME <<rev, mode, via>> \in Settings
  PROVE  rev \in [Jobs -> Revs] /\ mode \in {"uv", "plain"} /\ via \in {"local", "ssh"}
BY BootParameters

\* Something written into a job's directory.
Dir == [dir : BOOLEAN, pgid : BOOLEAN, beat : {"none", "fresh", "old"},
        result : {"none", "ok", "failed"}]

LEMMA DirTyped ==
  ASSUME BootTypeOK, NEW j \in Jobs
  PROVE  /\ [jobdir EXCEPT ![j].dir = TRUE] \in [Jobs -> Dir]
         /\ [jobdir EXCEPT ![j].dir = TRUE, ![j].pgid = TRUE] \in [Jobs -> Dir]
         /\ \A b \in {"fresh", "old"} : [jobdir EXCEPT ![j].beat = b] \in [Jobs -> Dir]
         /\ \A v \in {"ok", "failed"} : [jobdir EXCEPT ![j].result = v] \in [Jobs -> Dir]
<1>1. jobdir \in [Jobs -> Dir] /\ jobdir[j] \in Dir
  BY DEF BootTypeOK, Dir
<1>2. /\ [jobdir[j] EXCEPT !.dir = TRUE] \in Dir
      /\ [[jobdir[j] EXCEPT !.dir = TRUE] EXCEPT !.pgid = TRUE] \in Dir
  BY <1>1 DEF Dir
<1>3. \A b \in {"fresh", "old"} : [jobdir[j] EXCEPT !.beat = b] \in Dir
  BY <1>1 DEF Dir
<1>4. \A v \in {"ok", "failed"} : [jobdir[j] EXCEPT !.result = v] \in Dir
  BY <1>1 DEF Dir
<1>5. \A d \in Dir : [jobdir EXCEPT ![j] = d] \in [Jobs -> Dir]
  BY <1>1
<1>6. [jobdir EXCEPT ![j].dir = TRUE, ![j].pgid = TRUE]
          = [jobdir EXCEPT ![j] = [[jobdir[j] EXCEPT !.dir = TRUE] EXCEPT !.pgid = TRUE]]
  BY <1>1
<1>7. QED
  BY <1>1, <1>2, <1>3, <1>4, <1>5, <1>6

\* A heartbeat written into a lock.
LEMMA BeatTyped ==
  ASSUME BootTypeOK, NEW d \in Locks, NEW beat \in {"fresh", "old"}
  PROVE  [lock EXCEPT ![d].beat = beat]
             \in [Locks -> [there : BOOLEAN, beat : {"none", "fresh", "old"},
                            nurse : Jobs \cup {None}]]
<1>1. lock[d] \in [there : BOOLEAN, beat : {"none", "fresh", "old"}, nurse : Jobs \cup {None}]
  BY DEF BootTypeOK
<1>2. [lock[d] EXCEPT !.beat = beat]
          \in [there : BOOLEAN, beat : {"none", "fresh", "old"}, nurse : Jobs \cup {None}]
  BY <1>1
<1>3. QED
  BY <1>2 DEF BootTypeOK

LEMMA LockTyped ==
  ASSUME BootTypeOK, NEW j \in Jobs
  PROVE  LockOf(j) \in Locks /\ rev[j] \in Revs
<1>1. rev[j] \in Revs
  BY Set DEF BootTypeOK
<1>2. QED
  BY <1>1 DEF LockOf, Locks

----------------------------------------------------------------------------
(***************************************************************************)
(* Types.                                                                  *)
(***************************************************************************)
\* Where a script is.
LEMMA GoTyped ==
  ASSUME BootTypeOK, NEW j \in Jobs, NEW s \in {"code", "tree", "env", "run", "failing", "exit"},
         NEW h \in Inside \cup {"none", "check", "wait", "rob"}, Go(j, s, h)
  PROVE  /\ stage' \in [Jobs -> {"new", "launched", "code", "tree", "env", "run",
                                 "failing", "exit", "over"}]
         /\ hold' \in [Jobs -> Inside \cup {"none", "check", "wait", "rob"}]
         /\ up' \in [Jobs -> BOOLEAN]
BY DEF BootTypeOK, Go

\* Up to the locks.
LEMMA BeforeTyped ==
  ASSUME BootTypeOK, NEW j \in Jobs, Submit(j) \/ Begin(j) \/ Code(j) \/ Glance(j)
  PROVE  BootTypeOK'
<1>1. CASE Submit(j)
  <2>1. stage' \in [Jobs -> {"new", "launched", "code", "tree", "env", "run",
                             "failing", "exit", "over"}]
    BY <1>1 DEF BootTypeOK, Submit
  <2>2. objects' \subseteq Revs
    BY <1>1, LockTyped DEF BootTypeOK, Submit
  <2>3. jobdir' \in [Jobs -> [dir : BOOLEAN, pgid : BOOLEAN, beat : {"none", "fresh", "old"},
                            result : {"none", "ok", "failed"}]]
    BY <1>1, DirTyped DEF Submit, Dir
  <2>4. QED
    BY <1>1, <2>1, <2>2, <2>3 DEF BootTypeOK, Submit, settings, client
<1>2. CASE Begin(j)
  <2>1. Go(j, "code", "none")
    BY <1>2 DEF Begin
  <2>2. jobdir' \in [Jobs -> [dir : BOOLEAN, pgid : BOOLEAN, beat : {"none", "fresh", "old"},
                            result : {"none", "ok", "failed"}]]
    BY <1>2, DirTyped DEF Begin, Dir
  <2>3. QED
    BY <1>2, <2>1, <2>2, GoTyped DEF BootTypeOK, Begin, settings, client, shared
<1>3. CASE Code(j)
  <2>1. Go(j, "tree", "wait") \/ Go(j, "failing", "none")
    BY <1>3 DEF Code
  <2>2. objects' \subseteq Revs
    BY <1>3, LockTyped DEF BootTypeOK, Code
  <2>3. QED
    BY <1>3, <2>1, <2>2, GoTyped DEF BootTypeOK, Code, settings, client
<1>4. CASE Glance(j)
  <2>1. Go(j, "run", "none") \/ Go(j, "env", "wait")
    BY <1>4 DEF Glance
  <2>2. QED
    BY <1>4, <2>1, GoTyped DEF BootTypeOK, Glance, settings, client, shared
<1>5. QED
  BY <1>1, <1>2, <1>3, <1>4

\* The locks.
LEMMA LocksTyped ==
  ASSUME BootTypeOK, NEW j \in Jobs,
         TakeLock(j) \/ Condemn(j) \/ Rob(j) \/ Overwait(j) \/ Settle(j) \/ Unlock(j)
  PROVE  BootTypeOK'
<1> USE LockTyped
<1>1. CASE TakeLock(j)
  <2>1. [Gone EXCEPT !.there = TRUE] \in [there : BOOLEAN, beat : {"none", "fresh", "old"},
                                          nurse : Jobs \cup {None}]
    BY DEF Gone
  <2>2. lock' \in [Locks -> [there : BOOLEAN, beat : {"none", "fresh", "old"},
                             nurse : Jobs \cup {None}]]
    BY <1>1, <2>1 DEF BootTypeOK, TakeLock
  <2>3. hold' \in [Jobs -> Inside \cup {"none", "check", "wait", "rob"}]
    BY <1>1 DEF BootTypeOK, TakeLock, Inside
  <2>4. patience' \in [Jobs -> BOOLEAN]
    BY <1>1 DEF BootTypeOK, TakeLock
  <2>5. QED
    BY <1>1, <2>2, <2>3, <2>4 DEF BootTypeOK, TakeLock, settings, client
<1>2. CASE Condemn(j)
  <2>1. hold' \in [Jobs -> Inside \cup {"none", "check", "wait", "rob"}] /\ hurt' \subseteq Locks
    BY <1>2 DEF BootTypeOK, Condemn
  <2>2. QED
    BY <1>2, <2>1 DEF BootTypeOK, Condemn, settings, client, shared
<1>3. CASE Rob(j)
  <2>1. Gone \in [there : BOOLEAN, beat : {"none", "fresh", "old"}, nurse : Jobs \cup {None}]
    BY DEF Gone
  <2>2. lock' \in [Locks -> [there : BOOLEAN, beat : {"none", "fresh", "old"},
                             nurse : Jobs \cup {None}]]
    BY <1>3, <2>1 DEF BootTypeOK, Rob
  <2>3. hold' \in [Jobs -> Inside \cup {"none", "check", "wait", "rob"}]
    BY <1>3 DEF BootTypeOK, Rob
  <2>4. QED
    BY <1>3, <2>2, <2>3 DEF BootTypeOK, Rob, settings, client
<1>4. CASE Overwait(j)
  BY <1>4 DEF BootTypeOK, Overwait, Tires, settings, client, shared
<1>5. CASE Settle(j)
  <2>1. nurses' \in [Jobs -> SUBSET Locks]
    BY <1>5 DEF BootTypeOK, Settle
  <2>2. lock' \in [Locks -> [there : BOOLEAN, beat : {"none", "fresh", "old"},
                             nurse : Jobs \cup {None}]]
    <3> DEFINE d == LockOf(j)
    <3>1. lock[d] \in [there : BOOLEAN, beat : {"none", "fresh", "old"}, nurse : Jobs \cup {None}]
      BY DEF BootTypeOK
    <3>2. [lock[d] EXCEPT !.beat = "fresh", !.nurse = j]
              \in [there : BOOLEAN, beat : {"none", "fresh", "old"}, nurse : Jobs \cup {None}]
      BY <3>1
    <3>3. lock' = lock \/ lock' = [lock EXCEPT ![d] = [@ EXCEPT !.beat = "fresh", !.nurse = j]]
      BY <1>5 DEF Settle
    <3>4. QED
      BY <3>2, <3>3 DEF BootTypeOK
  <2>3. CASE Go(j, "failing", "none")
    BY <1>5, <2>1, <2>2, <2>3, GoTyped DEF BootTypeOK, Settle, settings, client
  <2>4. CASE Go(j, stage[j], "in")
    <3>1. /\ stage' \in [Jobs -> {"new", "launched", "code", "tree", "env", "run",
                                  "failing", "exit", "over"}]
          /\ hold' \in [Jobs -> Inside \cup {"none", "check", "wait", "rob"}]
          /\ up' \in [Jobs -> BOOLEAN]
      BY <2>4 DEF BootTypeOK, Go, Inside
    <3>2. QED
      BY <1>5, <2>1, <2>2, <3>1 DEF BootTypeOK, Settle, settings, client
  <2>5. QED
    BY <1>5, <2>3, <2>4 DEF Settle
<1>6. CASE Unlock(j)
  <2>1. Gone \in [there : BOOLEAN, beat : {"none", "fresh", "old"}, nurse : Jobs \cup {None}]
    BY DEF Gone
  <2>2. lock' \in [Locks -> [there : BOOLEAN, beat : {"none", "fresh", "old"},
                             nurse : Jobs \cup {None}]]
    BY <1>6, <2>1 DEF BootTypeOK, Unlock, Unlocked
  <2>3. nurses' \in [Jobs -> SUBSET Locks]
    BY <1>6 DEF BootTypeOK, Unlock, Unlocked
  <2>4. Go(j, "failing", "none") \/ Go(j, "env", "check") \/ Go(j, "run", "none")
    BY <1>6 DEF Unlock
  <2>5. QED
    BY <1>6, <2>2, <2>3, <2>4, GoTyped DEF BootTypeOK, Unlock, settings, client
<1>7. QED
  BY <1>1, <1>2, <1>3, <1>4, <1>5, <1>6

\* The critical sections, and the run.
LEMMA InsideTyped ==
  ASSUME BootTypeOK, NEW j \in Jobs,
         EnterTree(j) \/ FillTree(j) \/ EnterEnv(j) \/ FillEnv(j) \/ Stamp(j)
  PROVE  BootTypeOK'
<1> USE LockTyped
<1>1. \E s \in {"tree", "env"}, h \in {"out", "work", "bad", "stamp"} : Go(j, s, h)
  BY Zenon DEF EnterTree, FillTree, Filled, EnterEnv, FillEnv, EnvSynced, Stamp
<1>2. /\ stage' \in [Jobs -> {"new", "launched", "code", "tree", "env", "run",
                              "failing", "exit", "over"}]
      /\ hold' \in [Jobs -> Inside \cup {"none", "check", "wait", "rob"}]
      /\ up' \in [Jobs -> BOOLEAN]
  BY <1>1, GoTyped DEF Inside
<1>3. tree' \in [Revs -> {"none", "half", "whole"}]
  BY DEF BootTypeOK, EnterTree, FillTree, Filled, EnterEnv, FillEnv, Stamp
<1>4. venv' \in Revs \cup {None, "half"} /\ stamp' \in Revs \cup {None}
  BY DEF BootTypeOK, EnterTree, FillTree, EnterEnv, FillEnv, EnvSynced, Stamp, Stamped
<1>5. CASE EnterTree(j) \/ FillTree(j)
  BY <1>2, <1>3, <1>4, <1>5, ZenonT(40) DEF BootTypeOK, EnterTree, FillTree, settings, client
<1>6. CASE EnterEnv(j) \/ FillEnv(j)
  BY <1>2, <1>3, <1>4, <1>6, ZenonT(40) DEF BootTypeOK, EnterEnv, FillEnv, settings, client
<1>7. CASE Stamp(j)
  BY <1>2, <1>3, <1>4, <1>7 DEF BootTypeOK, Stamp, settings, client
<1>8. QED
  BY <1>5, <1>6, <1>7

LEMMA RunTyped ==
  ASSUME BootTypeOK, NEW j \in Jobs, StartRun(j) \/ WriteResult(j) \/ Exit(j)
  PROVE  BootTypeOK'
<1>1. CASE StartRun(j)
  <2>1. jobdir' \in [Jobs -> [dir : BOOLEAN, pgid : BOOLEAN, beat : {"none", "fresh", "old"},
                            result : {"none", "ok", "failed"}]]
    BY <1>1, DirTyped DEF StartRun, Dir
  <2>2. QED
    BY <1>1, <2>1 DEF BootTypeOK, StartRun, settings, script, shared, client
<1>2. CASE WriteResult(j)
  <2>1. jobdir' \in [Jobs -> [dir : BOOLEAN, pgid : BOOLEAN, beat : {"none", "fresh", "old"},
                            result : {"none", "ok", "failed"}]]
    <3>1. PICK v \in {"ok", "failed"} : jobdir' = [jobdir EXCEPT ![j].result = v]
      BY <1>2 DEF WriteResult
    <3>2. QED
      BY <3>1, DirTyped DEF Dir
  <2>2. Go(j, "exit", "none")
    BY <1>2 DEF WriteResult
  <2>3. QED
    BY <1>2, <2>1, <2>2, GoTyped DEF BootTypeOK, WriteResult, settings, shared, client
<1>3. CASE Exit(j)
  BY <1>3 DEF BootTypeOK, Exit, Trap, settings, shared, client
<1>4. QED
  BY <1>1, <1>2, <1>3

\* The world: refreshers, age, deaths, and the client's reads.
LEMMA WorldTyped ==
  ASSUME BootTypeOK,
         \/ \E j \in Jobs : Fade(j) \/ \E d \in Locks : Refresh(j, d)
         \/ \E d \in Locks : Age(d)
         \/ Death \/ ObserveStatus \/ AllEnded \/ UNCHANGED bootVars
  PROVE  BootTypeOK'
<1>1. ASSUME NEW j \in Jobs, Fade(j) PROVE BootTypeOK'
  <2>1. jobdir' \in [Jobs -> [dir : BOOLEAN, pgid : BOOLEAN, beat : {"none", "fresh", "old"},
                            result : {"none", "ok", "failed"}]]
    BY <1>1, DirTyped DEF Fade, Dir
  <2>2. QED
    BY <1>1, <2>1 DEF BootTypeOK, Fade, settings, script, shared, client
<1>2. ASSUME NEW j \in Jobs, NEW d \in Locks, Refresh(j, d) PROVE BootTypeOK'
  <2>1. lock' \in [Locks -> [there : BOOLEAN, beat : {"none", "fresh", "old"},
                             nurse : Jobs \cup {None}]]
    <3>1. lock' \in {lock, [lock EXCEPT ![d].beat = "fresh"]}
      BY <1>2 DEF Refresh
    <3>2. [lock EXCEPT ![d].beat = "fresh"]
              \in [Locks -> [there : BOOLEAN, beat : {"none", "fresh", "old"},
                             nurse : Jobs \cup {None}]]
      BY BeatTyped
    <3>3. lock \in [Locks -> [there : BOOLEAN, beat : {"none", "fresh", "old"},
                              nurse : Jobs \cup {None}]]
      BY DEF BootTypeOK
    <3>4. QED
      BY <3>1, <3>2, <3>3
  <2>2. nurses' \in [Jobs -> SUBSET Locks]
    BY <1>2 DEF BootTypeOK, Refresh
  <2>3. QED
    BY <1>2, <2>1, <2>2 DEF BootTypeOK, Refresh, settings, script, client
<1>3. ASSUME NEW d \in Locks, Age(d) PROVE BootTypeOK'
  <2>1. lock' \in [Locks -> [there : BOOLEAN, beat : {"none", "fresh", "old"},
                             nurse : Jobs \cup {None}]]
    BY <1>3, BeatTyped DEF Age
  <2>2. QED
    BY <1>3, <2>1 DEF BootTypeOK, Age, settings, script, client
<1>4. CASE Death
  <2>1. deaths' \in 0..MaxDeaths
    BY <1>4, BootParameters DEF BootTypeOK, Death
  <2>2. /\ up' \in [Jobs -> BOOLEAN] /\ nurses' \in [Jobs -> SUBSET Locks]
        /\ beating' \in [Jobs -> BOOLEAN] /\ hurt' \subseteq Locks
        /\ stage' = stage /\ lock' = lock
    <3>1. \A js \in SUBSET Jobs : Hurt(js) \subseteq Locks
      BY DEF BootTypeOK, Hurt
    <3>2. CASE Reboot
      BY <3>1, <3>2 DEF BootTypeOK, Reboot
    <3>3. ASSUME NEW j \in Jobs, Signal(j)
          PROVE  /\ up' \in [Jobs -> BOOLEAN] /\ nurses' \in [Jobs -> SUBSET Locks]
                 /\ beating' \in [Jobs -> BOOLEAN] /\ hurt' \subseteq Locks
                 /\ stage' = stage /\ lock' = lock
      BY <3>1, <3>3 DEF BootTypeOK, Signal
    <3>4. ASSUME NEW j \in Jobs, Killed(j)
          PROVE  /\ up' \in [Jobs -> BOOLEAN] /\ nurses' \in [Jobs -> SUBSET Locks]
                 /\ beating' \in [Jobs -> BOOLEAN] /\ hurt' \subseteq Locks
                 /\ stage' = stage /\ lock' = lock
      BY <3>1, <3>4 DEF BootTypeOK, Killed
    <3>5. QED
      BY <1>4, <3>2, <3>3, <3>4 DEF Death
  <2>3. QED
    BY <1>4, <2>1, <2>2 DEF BootTypeOK, Death, settings, client
<1>5. CASE ObserveStatus
  <2>1. Frame /\ look' \in {"none", "pid", "result"} /\ told' \in {"alive", "ended", "lost"}
    BY <1>5 DEF BootTypeOK, ObserveStatus, ReadStatus, LookPid, LookResult, Reported, Report
  <2>2. QED
    BY <2>1 DEF BootTypeOK, Frame, settings, script, shared
<1>6. CASE AllEnded \/ UNCHANGED bootVars
  BY <1>6 DEF BootTypeOK, AllEnded, bootVars, settings, script, shared, client
<1>7. QED
  BY <1>1, <1>2, <1>3, <1>4, <1>5, <1>6

\* The first state.
LEMMA InitTyped == ASSUME BootInit PROVE BootTypeOK
<1>1. PICK s \in Settings : rev = s[1] /\ mode = s[2] /\ via = s[3]
  BY DEF BootInit
<1>2. <<rev, mode, via>> = s
  BY <1>1, BootstrapAssumption
<1>3. Gone \in [there : BOOLEAN, beat : {"none", "fresh", "old"}, nurse : Jobs \cup {None}]
  BY DEF Gone
<1>4. NoDir \in [dir : BOOLEAN, pgid : BOOLEAN, beat : {"none", "fresh", "old"},
                 result : {"none", "ok", "failed"}]
  BY DEF NoDir
<1>5. venv \in Revs \cup {None} /\ stamp \in Revs \cup {None} /\ objects \subseteq Revs
  BY BootParameters DEF BootInit
<1>6. QED
  BY <1>1, <1>2, <1>3, <1>4, <1>5, BootParameters DEF BootInit, BootTypeOK

LEMMA StepTyped == ASSUME BootTypeOK, [BootNext]_bootVars PROVE BootTypeOK'
BY BeforeTyped, LocksTyped, InsideTyped, RunTyped, WorldTyped DEF BootNext, Script

\* What the scripts share, and what a client is told, keep their types.
THEOREM BootTypeCorrect == BootSpec => []BootTypeOK
BY InitTyped, StepTyped, PTL DEF BootSpec

----------------------------------------------------------------------------
(***************************************************************************)
(* The locks.  One that no holder died in and no waiter overran belongs to *)
(* the script inside it: it is there, no waiter condemned it, and its      *)
(* refresher is that script's.                                             *)
(***************************************************************************)
Inner(j, d) == up[j] /\ HoldsLock(j, d)
Robs(j, d) == up[j] /\ hold[j] = "rob" /\ LockOf(j) = d

\* A script deals with a lock only on its way to the checkout or the environment.
Within(j) == hold[j] # "none" => stage[j] \in {"tree", "env"}

Sane(d) ==
    /\ \A j \in Jobs : Inner(j, d) => lock[d].there /\ (hold[j] # "got" => lock[d].nurse = j)
    /\ \A j, k \in Jobs : Inner(j, d) /\ Inner(k, d) => j = k
    /\ \A j \in Jobs : ~Robs(j, d)
    /\ \A j \in Jobs : d \in nurses[j] => Inner(j, d) /\ hold[j] # "got"
    /\ lock[d].beat # "old"
    /\ lock[d].beat = "fresh" => \E j \in Jobs : d \in nurses[j]

LockInv == BootTypeOK /\ (\A j \in Jobs : Within(j)) /\ \A d \in Locks : d \notin hurt => Sane(d)

\* The other scripts stay where they are.
Alone(j) ==
    /\ rev' = rev /\ Within(j)'
    /\ \A k \in Jobs \ {j} : stage'[k] = stage[k] /\ hold'[k] = hold[k] /\ up'[k] = up[k]

LEMMA AloneFacts ==
  ASSUME NEW j \in Jobs, Alone(j), NEW k \in Jobs, k # j
  PROVE  /\ \A d \in Locks : Inner(k, d)' <=> Inner(k, d)
         /\ \A d \in Locks : Robs(k, d)' <=> Robs(k, d)
         /\ Within(k) => Within(k)'
BY DEF Alone, Inner, HoldsLock, Robs, Within, LockOf

\* A step that neither enters nor leaves a lock, and condemns none but a hurt one.
LEMMA Elsewhere ==
  ASSUME LockInv, BootTypeOK', NEW j \in Jobs, Alone(j),
         lock' = lock, nurses' = nurses, hurt \subseteq hurt',
         \A d \in Locks : Inner(j, d)' <=> Inner(j, d),
         \A d \in Locks : Inner(j, d) => (hold'[j] = "got" <=> hold[j] = "got"),
         \A d \in Locks : Robs(j, d)' => Robs(j, d) \/ d \in hurt'
  PROVE  LockInv'
<1>1. \A k \in Jobs : Within(k)'
  BY AloneFacts DEF LockInv, Alone
<1>2. ASSUME NEW d \in Locks, d \notin hurt' PROVE Sane(d)'
  <2>1. Sane(d)
    BY <1>2 DEF LockInv
  <2>2. \A k \in Jobs : Inner(k, d)' <=> Inner(k, d)
    BY AloneFacts
  <2>3. \A k \in Jobs : Inner(k, d) => (hold'[k] = "got" <=> hold[k] = "got")
    BY DEF Alone
  <2>4. \A k \in Jobs : ~Robs(k, d)'
    BY <1>2, <2>1, AloneFacts DEF Sane
  <2>5. QED
    BY <2>1, <2>2, <2>3, <2>4 DEF Sane
<1>3. QED
  BY <1>1, <1>2 DEF LockInv

\* Where a step leaves the script that makes it.
LEMMA GoAlone ==
  ASSUME BootTypeOK, NEW j \in Jobs, NEW s, NEW h, Go(j, s, h), rev' = rev,
         h = "none" \/ s \in {"tree", "env"}
  PROVE  /\ Alone(j) /\ stage'[j] = s /\ hold'[j] = h /\ up'[j] = up[j]
BY DEF BootTypeOK, Go, Alone, Within

\* The lock a script is inside of is the one of its stage.
LEMMA OwnLock ==
  ASSUME BootTypeOK, NEW j \in Jobs, NEW d \in Locks
  PROVE  /\ Inner(j, d) => d = LockOf(j)
         /\ up[j] /\ stage[j] \in {"tree", "env"} /\ hold[j] \in Inside => Inner(j, LockOf(j))
BY DEF Inner, HoldsLock

\* The steps outside the locks.
LEMMA OutsideStep ==
  ASSUME LockInv, BootTypeOK', NEW j \in Jobs,
         \/ Submit(j) \/ Begin(j) \/ Code(j) \/ Glance(j) \/ Overwait(j)
         \/ StartRun(j) \/ WriteResult(j) \/ Exit(j) \/ Fade(j)
  PROVE  LockInv'
<1>1. BootTypeOK /\ Within(j)
  BY DEF LockInv
<1>2. lock' = lock /\ nurses' = nurses /\ hurt' = hurt /\ rev' = rev
  BY DEF Submit, Begin, Code, Glance, Overwait, StartRun, WriteResult, Exit, Fade, settings,
     shared
<1>3. CASE Submit(j)
  <2>1. /\ Alone(j) /\ \A d \in Locks : ~Inner(j, d) /\ ~Inner(j, d)' /\ ~Robs(j, d)'
    BY <1>1, <1>2, <1>3 DEF Submit, Alone, Within, Inner, HoldsLock, Robs, BootTypeOK
  <2>2. QED
    BY <1>2, <2>1, Elsewhere
<1>4. CASE Begin(j) \/ Code(j) \/ WriteResult(j) \/ Glance(j)
  <2>1. PICK s \in {"code", "tree", "failing", "exit", "run", "env"}, h \in {"none", "wait"} :
            Go(j, s, h) /\ (h = "none" \/ s \in {"tree", "env"})
    BY <1>4, Zenon DEF Begin, Code, WriteResult, Glance
  <2>2. Alone(j) /\ hold'[j] \in {"none", "wait"}
    BY <1>1, <1>2, <2>1, GoAlone
  <2>3. hold[j] \notin Inside
    BY <1>4 DEF Begin, Code, WriteResult, Glance, At, Inside
  <2>4. \A d \in Locks : ~Inner(j, d) /\ ~Inner(j, d)' /\ ~Robs(j, d)'
    BY <2>2, <2>3 DEF Inner, HoldsLock, Robs, Inside
  <2>5. QED
    BY <1>2, <2>2, <2>4, Elsewhere
<1>5. CASE Overwait(j) \/ StartRun(j) \/ Fade(j)
  <2>1. stage' = stage /\ hold' = hold /\ up' = up
    BY <1>5 DEF Overwait, Tires, StartRun, Fade, script
  <2>2. Alone(j) /\ \A d \in Locks : (Inner(j, d)' <=> Inner(j, d)) /\ (Robs(j, d)' <=> Robs(j, d))
    BY <1>1, <1>2, <2>1 DEF Alone, Within, Inner, HoldsLock, Robs, LockOf
  <2>3. QED
    BY <1>2, <2>1, <2>2, Elsewhere
<1>6. CASE Exit(j)
  <2>1. /\ stage' = [stage EXCEPT ![j] = "over"] /\ up' = [up EXCEPT ![j] = FALSE]
        /\ hold' = hold /\ hold[j] = "none"
    BY <1>6 DEF Exit, At
  <2>2. Alone(j) /\ \A d \in Locks : ~Inner(j, d) /\ ~Inner(j, d)' /\ ~Robs(j, d)'
    BY <1>1, <1>2, <2>1 DEF BootTypeOK, Alone, Within, Inner, HoldsLock, Robs, Inside
  <2>3. QED
    BY <1>2, <2>2, Elsewhere
<1>7. QED
  BY <1>3, <1>4, <1>5, <1>6

\* The steps inside a lock.
LEMMA InsideStep ==
  ASSUME LockInv, BootTypeOK', NEW j \in Jobs,
         EnterTree(j) \/ FillTree(j) \/ EnterEnv(j) \/ FillEnv(j) \/ Stamp(j)
  PROVE  LockInv'
<1>1. BootTypeOK /\ Within(j)
  BY DEF LockInv
<1>2. lock' = lock /\ nurses' = nurses /\ hurt' = hurt /\ rev' = rev
  BY DEF EnterTree, FillTree, EnterEnv, FillEnv, Stamp, settings
<1>3. /\ hold[j] \in {"in", "work", "stamp"} /\ stage[j] \in {"tree", "env"}
      /\ \E h \in {"out", "work", "bad", "stamp"} : Go(j, stage[j], h)
  BY Zenon DEF EnterTree, FillTree, Filled, EnterEnv, FillEnv, EnvSynced, Stamp, At
<1>4. PICK h \in {"out", "work", "bad", "stamp"} : Go(j, stage[j], h)
  BY <1>3
<1>5. Alone(j) /\ stage'[j] = stage[j] /\ hold'[j] = h /\ up'[j] = up[j]
  BY <1>1, <1>2, <1>3, <1>4, GoAlone
<1>6. \A d \in Locks : (Inner(j, d)' <=> Inner(j, d)) /\ ~Robs(j, d)'
  BY <1>2, <1>3, <1>5 DEF Inner, HoldsLock, Robs, LockOf, Inside
<1>7. QED
  BY <1>2, <1>3, <1>5, <1>6, Elsewhere

\* A waiter condemns a lock only when it is hurt by that, or was before.
LEMMA CondemnStep == ASSUME LockInv, BootTypeOK', NEW j \in Jobs, Condemn(j) PROVE LockInv'
<1>1. BootTypeOK /\ Within(j) /\ LockOf(j) \in Locks
  BY LockTyped DEF LockInv
<1>2. /\ lock' = lock /\ nurses' = nurses /\ rev' = rev /\ hurt \subseteq hurt'
      /\ stage' = stage /\ up' = up /\ hold' = [hold EXCEPT ![j] = "rob"] /\ hold[j] = "wait"
  BY DEF Condemn, shared, settings
<1>3. LockOf(j) \in hurt'
  BY <1>1 DEF Condemn, Expired, LockInv, Sane
<1>4. Alone(j)
  BY <1>1, <1>2 DEF Alone, Within, BootTypeOK
<1>5. \A d \in Locks : /\ ~Inner(j, d) /\ ~Inner(j, d)'
                       /\ Robs(j, d)' => d = LockOf(j)
  BY <1>1, <1>2 DEF BootTypeOK, Inner, HoldsLock, Robs, Inside, LockOf
<1>6. QED
  BY <1>2, <1>3, <1>4, <1>5, Elsewhere

\* What is removed by force is a hurt lock.
LEMMA RobStep == ASSUME LockInv, BootTypeOK', NEW j \in Jobs, Rob(j) PROVE LockInv'
<1>1. BootTypeOK /\ Within(j) /\ LockOf(j) \in Locks /\ Robs(j, LockOf(j))
  BY LockTyped DEF LockInv, Rob, Robs
<1>2. LockOf(j) \in hurt
  BY <1>1 DEF LockInv, Sane
<1>3. /\ nurses' = nurses /\ rev' = rev /\ hurt' = hurt /\ stage' = stage /\ up' = up
      /\ hold' = [hold EXCEPT ![j] = "wait"] /\ hold[j] = "rob"
      /\ lock' = [lock EXCEPT ![LockOf(j)] = Gone]
  BY DEF Rob, settings
<1>4. Alone(j)
  BY <1>1, <1>3 DEF Alone, Within, BootTypeOK
<1>5. ASSUME NEW d \in Locks, d \notin hurt' PROVE Sane(d)'
  <2>1. Sane(d) /\ lock'[d] = lock[d]
    BY <1>1, <1>2, <1>3, <1>5 DEF LockInv, BootTypeOK
  <2>2. \A k \in Jobs : /\ Inner(k, d)' <=> Inner(k, d)
                        /\ Inner(k, d) => (hold'[k] = "got" <=> hold[k] = "got")
                        /\ ~Robs(k, d)'
    BY <1>1, <1>3, <2>1 DEF BootTypeOK, Inner, HoldsLock, Robs, Inside, LockOf, Sane
  <2>3. QED
    BY <1>3, <2>1, <2>2 DEF Sane
<1>6. \A k \in Jobs : Within(k)'
  BY <1>4, AloneFacts DEF LockInv, Alone
<1>7. QED
  BY <1>5, <1>6 DEF LockInv

\* Whoever makes the directory is alone in it.
LEMMA TakeStep == ASSUME LockInv, BootTypeOK', NEW j \in Jobs, TakeLock(j) PROVE LockInv'
<1> DEFINE e == LockOf(j)
<1>1. BootTypeOK /\ Within(j) /\ e \in Locks
  BY LockTyped DEF LockInv
<1>2. /\ nurses' = nurses /\ rev' = rev /\ hurt' = hurt /\ stage' = stage /\ up' = up
      /\ hold' = [hold EXCEPT ![j] = "got"] /\ hold[j] = "wait" /\ up[j]
      /\ ~lock[e].there /\ lock' = [lock EXCEPT ![e] = [Gone EXCEPT !.there = TRUE]]
  BY DEF TakeLock, settings
<1>3. stage[j] \in {"tree", "env"}
  BY <1>1, <1>2 DEF Within
<1>4. Alone(j)
  BY <1>1, <1>2 DEF Alone, Within, BootTypeOK
<1>5. lock'[e].there /\ lock'[e].beat = "none" /\ hold'[j] = "got"
  BY <1>1, <1>2 DEF BootTypeOK, Gone
<1>6. ASSUME NEW d \in Locks, d \notin hurt' PROVE Sane(d)'
  <2>1. Sane(d)
    BY <1>2, <1>6 DEF LockInv
  <2>2. \A k \in Jobs \ {j} : (Inner(k, d)' <=> Inner(k, d)) /\ hold'[k] = hold[k] /\ ~Robs(k, d)'
    BY <1>4, <2>1, AloneFacts DEF Sane, Alone
  <2>3. ~Robs(j, d)' /\ ~Inner(j, d)
    BY <1>2, <1>5 DEF Robs, Inner, HoldsLock, Inside
  <2>4. CASE d = e
    <3>1. \A k \in Jobs : ~Inner(k, d)
      BY <1>2, <2>1, <2>4 DEF Sane
    <3>2. \A k \in Jobs : d \notin nurses[k]
      BY <2>1, <3>1 DEF Sane
    <3>3. QED
      BY <1>2, <1>5, <2>2, <2>3, <2>4, <3>1, <3>2 DEF Sane
  <2>5. CASE d # e
    <3>1. lock'[d] = lock[d] /\ ~Inner(j, d)'
      BY <1>1, <1>2, <2>5 DEF BootTypeOK, Inner, HoldsLock, LockOf
    <3>2. QED
      BY <1>2, <2>1, <2>2, <2>3, <3>1, ZenonT(40) DEF Sane
  <2>6. QED
    BY <2>4, <2>5
<1>7. \A k \in Jobs : Within(k)'
  BY <1>4, AloneFacts DEF LockInv, Alone
<1>8. QED
  BY <1>6, <1>7 DEF LockInv

\* Whoever settles in a lock that is not hurt finds it there, and refreshes it.
LEMMA SettleStep == ASSUME LockInv, BootTypeOK', NEW j \in Jobs, Settle(j) PROVE LockInv'
<1> DEFINE e == LockOf(j)
<1>1. BootTypeOK /\ Within(j) /\ e \in Locks
  BY LockTyped DEF LockInv
<1>2. /\ rev' = rev /\ hurt' = hurt /\ up[j] /\ hold[j] = "got"
      /\ nurses' = [nurses EXCEPT ![j] = @ \cup {e}]
      /\ lock' = IF lock[e].there THEN [lock EXCEPT ![e].beat = "fresh", ![e].nurse = j] ELSE lock
      /\ IF lock[e].there \/ stage[j] = "tree" THEN Go(j, stage[j], "in") ELSE Go(j, "failing", "none")
  BY DEF Settle, settings
<1>3. stage[j] \in {"tree", "env"} /\ Inner(j, e)
  BY <1>1, <1>2, OwnLock DEF Within, Inside
<1>4. Alone(j) /\ up'[j] /\ hold'[j] \in {"in", "none"}
  BY <1>1, <1>2, <1>3, GoAlone
<1>5. ASSUME NEW d \in Locks, d \notin hurt' PROVE Sane(d)'
  <2>1. Sane(d)
    BY <1>2, <1>5 DEF LockInv
  <2>2. \A k \in Jobs \ {j} : (Inner(k, d)' <=> Inner(k, d)) /\ hold'[k] = hold[k] /\ ~Robs(k, d)'
    BY <1>4, <2>1, AloneFacts DEF Sane, Alone
  <2>3. ~Robs(j, d)'
    BY <1>4 DEF Robs
  <2>4. \A k \in Jobs \ {j} : nurses'[k] = nurses[k]
    BY <1>1, <1>2 DEF BootTypeOK
  <2>5. CASE d = e
    <3>1. lock[e].there
      BY <1>3, <2>1, <2>5 DEF Sane
    <3>2. stage'[j] = stage[j] /\ hold'[j] = "in"
      BY <1>1, <1>2, <1>3, <3>1, GoAlone
    <3>3. Inner(j, d)'
      BY <1>2, <1>3, <1>4, <2>5, <3>2 DEF Inner, HoldsLock, LockOf, Inside
    <3>4. /\ lock'[e].there /\ lock'[e].nurse = j /\ lock'[e].beat = "fresh"
      BY <1>1, <1>2, <3>1 DEF BootTypeOK
    <3>5. \A k \in Jobs : (Inner(k, d)' <=> Inner(k, d))
      BY <1>3, <2>2, <2>5, <3>3
    <3>6. \A k \in Jobs : Inner(k, d) => k = j
      BY <1>3, <2>1, <2>5 DEF Sane
    <3>7. e \in nurses'[j] /\ \A k \in Jobs \ {j} : e \notin nurses'[k]
      BY <1>1, <1>2, <2>1, <2>4, <2>5, <3>6 DEF BootTypeOK, Sane
    <3>8. QED
      BY <2>2, <2>3, <2>5, <3>2, <3>3, <3>4, <3>5, <3>6, <3>7 DEF Sane
  <2>6. CASE d # e
    <3>1. lock'[d] = lock[d] /\ ~Inner(j, d)
      BY <1>1, <1>2, <1>3, <2>6, OwnLock DEF BootTypeOK
    <3>2. ~Inner(j, d)'
      <4>1. CASE Go(j, stage[j], "in")
        BY <1>1, <1>2, <1>3, <2>6, <4>1, GoAlone DEF Inner, HoldsLock, LockOf
      <4>2. CASE Go(j, "failing", "none")
        BY <1>1, <1>2, <4>2, GoAlone DEF Inner, HoldsLock
      <4>3. QED
        BY <1>2, <4>1, <4>2
    <3>3. d \in nurses'[j] <=> d \in nurses[j]
      BY <1>1, <1>2, <2>6 DEF BootTypeOK
    <3>4. QED
      BY <2>1, <2>2, <2>3, <2>4, <3>1, <3>2, <3>3 DEF Sane
  <2>7. QED
    BY <2>5, <2>6
<1>6. \A k \in Jobs : Within(k)'
  BY <1>4, AloneFacts DEF LockInv, Alone
<1>7. QED
  BY <1>5, <1>6 DEF LockInv

\* Whoever leaves a lock that is not hurt takes its own refresher with it.
LEMMA UnlockStep == ASSUME LockInv, BootTypeOK', NEW j \in Jobs, Unlock(j) PROVE LockInv'
<1> DEFINE e == LockOf(j)
<1>1. BootTypeOK /\ Within(j) /\ e \in Locks
  BY LockTyped DEF LockInv
<1>2. /\ rev' = rev /\ hurt' = hurt /\ up[j] /\ hold[j] \in {"out", "bad"}
      /\ nurses' = [k \in Jobs |-> IF k = lock[e].nurse THEN nurses[k] \ {e} ELSE nurses[k]]
      /\ lock' = [lock EXCEPT ![e] = Gone]
      /\ Go(j, "failing", "none") \/ Go(j, "env", "check") \/ Go(j, "run", "none")
  BY DEF Unlock, Unlocked, settings
<1>3. Inner(j, e)
  BY <1>1, <1>2, OwnLock DEF Within, Inside
<1>4. Alone(j) /\ hold'[j] \in {"check", "none"}
  BY <1>1, <1>2, GoAlone
<1>5. ASSUME NEW d \in Locks, d \notin hurt' PROVE Sane(d)'
  <2>1. Sane(d)
    BY <1>2, <1>5 DEF LockInv
  <2>2. \A k \in Jobs \ {j} : (Inner(k, d)' <=> Inner(k, d)) /\ hold'[k] = hold[k] /\ ~Robs(k, d)'
    BY <1>4, <2>1, AloneFacts DEF Sane, Alone
  <2>3. ~Robs(j, d)' /\ ~Inner(j, d)'
    BY <1>4 DEF Robs, Inner, HoldsLock, Inside
  <2>4. CASE d = e
    <3>1. \A k \in Jobs : Inner(k, d) => k = j
      BY <1>3, <2>1, <2>4 DEF Sane
    <3>2. lock[e].nurse = j
      BY <1>2, <1>3, <2>1, <2>4 DEF Sane
    <3>3. \A k \in Jobs : d \notin nurses'[k]
      BY <1>2, <2>1, <2>4, <3>1, <3>2 DEF Sane
    <3>4. lock'[d].beat = "none"
      BY <1>1, <1>2, <2>4 DEF BootTypeOK, Gone
    <3>5. \A k \in Jobs : ~Inner(k, d)' /\ ~Robs(k, d)'
      BY <2>2, <2>3, <3>1
    <3>6. QED
      BY <3>3, <3>4, <3>5 DEF Sane
  <2>5. CASE d # e
    <3>1. lock'[d] = lock[d] /\ ~Inner(j, d)
      BY <1>1, <1>2, <2>5, OwnLock DEF BootTypeOK
    <3>2. \A k \in Jobs : d \in nurses'[k] <=> d \in nurses[k]
      BY <1>2, <2>5
    <3>3. QED
      BY <2>1, <2>2, <2>3, <3>1, <3>2 DEF Sane
  <2>6. QED
    BY <2>4, <2>5
<1>6. \A k \in Jobs : Within(k)'
  BY <1>4, AloneFacts DEF LockInv, Alone
<1>7. QED
  BY <1>5, <1>6 DEF LockInv

\* A refresher's tick, and time passing over a lock without one.
LEMMA BeatStep ==
  ASSUME LockInv, BootTypeOK', NEW e \in Locks, (\E j \in Jobs : Refresh(j, e)) \/ Age(e)
  PROVE  LockInv'
<1>1. BootTypeOK /\ rev' = rev /\ hurt' = hurt /\ stage' = stage /\ up' = up /\ hold' = hold
  BY DEF LockInv, Refresh, Age, script, settings
<1>2. /\ \A k \in Jobs, d \in Locks : (Inner(k, d)' <=> Inner(k, d)) /\ (Robs(k, d)' <=> Robs(k, d))
      /\ \A k \in Jobs : Within(k)' <=> Within(k)
  BY <1>1 DEF Inner, HoldsLock, Robs, LockOf, Within
<1>3. ASSUME NEW d \in Locks, d \notin hurt' PROVE Sane(d)'
  <2>1. Sane(d)
    BY <1>1, <1>3 DEF LockInv
  <2>2. ASSUME NEW j \in Jobs, Refresh(j, e) PROVE Sane(d)'
    <3>1. CASE lock[e].there
      <4>1. e \in nurses[j] /\ nurses' = nurses /\ lock' = [lock EXCEPT ![e].beat = "fresh"]
        BY <2>2, <3>1 DEF Refresh
      <4>2. /\ lock'[d].there = lock[d].there /\ lock'[d].nurse = lock[d].nurse
            /\ lock'[d].beat = IF d = e THEN "fresh" ELSE lock[d].beat
        BY <1>1, <4>1 DEF BootTypeOK
      <4>3. QED
        BY <1>1, <1>2, <2>1, <4>1, <4>2 DEF Sane
    <3>2. CASE ~lock[e].there
      <4>1. e \in nurses[j] /\ nurses' = [nurses EXCEPT ![j] = @ \ {e}] /\ lock' = lock
        BY <2>2, <3>2 DEF Refresh
      <4>2. d # e
        BY <2>1, <3>2, <4>1 DEF Sane
      <4>3. \A k \in Jobs : d \in nurses'[k] <=> d \in nurses[k]
        BY <1>1, <4>1, <4>2 DEF BootTypeOK
      <4>4. QED
        BY <1>1, <1>2, <2>1, <4>1, <4>3 DEF Sane
    <3>3. QED
      BY <3>1, <3>2
  <2>3. CASE Age(e)
    <3>1. lock[e].beat = "fresh" /\ (\A j \in Jobs : e \notin nurses[j]) /\ nurses' = nurses
          /\ lock' = [lock EXCEPT ![e].beat = "old"]
      BY <2>3 DEF Age
    <3>2. d # e
      BY <2>1, <3>1 DEF Sane
    <3>3. lock'[d] = lock[d]
      BY <1>1, <3>1, <3>2 DEF BootTypeOK
    <3>4. QED
      BY <1>1, <1>2, <2>1, <3>1, <3>3 DEF Sane
  <2>4. QED
    BY <2>2, <2>3
<1>4. QED
  BY <1>2, <1>3 DEF LockInv

\* Some scripts die, with or without what they left in the background.
Dies(js) ==
    /\ rev' = rev /\ mode' = mode /\ stage' = stage /\ hold' = hold /\ lock' = lock
    /\ hurt' = Hurt(js)
    /\ \A k \in Jobs : up'[k] = (up[k] /\ k \notin js)
    /\ \A k \in Jobs : nurses'[k] = nurses[k] \/ (k \in js /\ nurses'[k] = {})

LEMMA DeathDies == ASSUME BootTypeOK, Death PROVE \E js \in SUBSET Jobs : Dies(js)
<1>1. rev' = rev /\ mode' = mode /\ hold' = hold
  BY DEF Death, settings
<1>2. CASE Reboot
  <2>1. Dies(Jobs)
    BY <1>1, <1>2 DEF BootTypeOK, Reboot, Dies
  <2>2. QED
    BY <2>1
<1>3. ASSUME NEW j \in Jobs, Signal(j) PROVE Dies({j})
  <2>1. \A k \in Jobs : up'[k] = (up[k] /\ k \notin {j})
    BY <1>3, ZenonT(40) DEF BootTypeOK, Signal
  <2>2. \A k \in Jobs : nurses'[k] = nurses[k] \/ (k \in {j} /\ nurses'[k] = {})
    BY <1>3 DEF BootTypeOK, Signal
  <2>3. QED
    BY <1>1, <1>3, <2>1, <2>2 DEF Signal, Dies
<1>4. ASSUME NEW j \in Jobs, Killed(j) PROVE Dies({j})
  <2>1. \A k \in Jobs : up'[k] = (up[k] /\ k \notin {j})
    BY <1>4, ZenonT(40) DEF BootTypeOK, Killed
  <2>2. QED
    BY <1>1, <1>4, <2>1 DEF Killed, Dies
<1>5. QED
  BY <1>2, <1>3, <1>4 DEF Death

\* A death hurts the lock it leaves, and no other.
LEMMA DeathStep == ASSUME LockInv, BootTypeOK', Death PROVE LockInv'
<1>1. PICK js \in SUBSET Jobs : Dies(js)
  BY DeathDies DEF LockInv
<1>2. ASSUME NEW d \in Locks, d \notin hurt' PROVE Sane(d)'
  <2>1. d \notin hurt /\ \A k \in js : ~Inner(k, d)
    BY <1>1, <1>2 DEF Dies, Hurt, Inner
  <2>2. Sane(d)
    BY <2>1 DEF LockInv
  <2>3. \A k \in Jobs : (Inner(k, d)' <=> Inner(k, d)) /\ ~Robs(k, d)'
    BY <1>1, <2>1, <2>2 DEF Dies, Inner, HoldsLock, LockOf, Robs, Sane
  <2>4. \A k \in Jobs : d \in nurses'[k] <=> d \in nurses[k]
    BY <1>1, <2>1, <2>2 DEF Dies, Sane
  <2>5. QED
    BY <1>1, <2>2, <2>3, <2>4 DEF Dies, Sane
<1>3. \A k \in Jobs : Within(k)'
  BY <1>1 DEF Dies, Within, LockInv
<1>4. QED
  BY <1>2, <1>3 DEF LockInv

\* Reading changes nothing of it.
LEMMA ReadStep == ASSUME LockInv, BootTypeOK', ObserveStatus \/ AllEnded \/ UNCHANGED bootVars PROVE LockInv'
<1>1. UNCHANGED <<rev, stage, hold, up, nurses, lock, hurt>>
  BY DEF ObserveStatus, ReadStatus, LookPid, LookResult, Frame, AllEnded, bootVars, settings, script, shared
<1>2. QED
  BY <1>1 DEF LockInv, Within, Sane, Inner, HoldsLock, Robs, LockOf

LEMMA LockInvStep == ASSUME LockInv, [BootNext]_bootVars PROVE LockInv'
<1>1. BootTypeOK'
  BY StepTyped DEF LockInv
<1>2. ASSUME NEW j \in Jobs, Submit(j) \/ Script(j) \/ Overwait(j) \/ Fade(j) PROVE LockInv'
  BY <1>1, <1>2, OutsideStep, InsideStep, CondemnStep, RobStep, TakeStep, SettleStep, UnlockStep
     DEF Script
<1>3. QED
  BY <1>1, <1>2, BeatStep, DeathStep, ReadStep DEF BootNext

LEMMA LockInvAlways == BootSpec => []LockInv
<1>1. BootInit => LockInv
  <2> SUFFICES ASSUME BootInit PROVE LockInv
    OBVIOUS
  <2>1. \A j \in Jobs : ~up[j] /\ hold[j] = "none" /\ nurses[j] = {}
    BY DEF BootInit
  <2>2. \A d \in Locks : lock[d].beat = "none"
    BY DEF BootInit, Gone
  <2>3. QED
    BY <2>1, <2>2, InitTyped DEF LockInv, Within, Sane, Inner, Robs
<1>2. QED
  BY <1>1, LockInvStep, PTL DEF BootSpec

\* Two scripts are never inside the same lock, however many jobs wait for it, unless
\* a holder died in it or a waiter overran the timeout.
THEOREM ExclusionCorrect == BootSpec => []LockExclusive
<1>1. LockInv => LockExclusive
  <2> SUFFICES ASSUME LockInv, NEW d \in Locks, d \notin hurt
               PROVE  Cardinality({j \in Jobs : up[j] /\ HoldsLock(j, d)}) <= 1
    BY DEF LockExclusive
  <2> DEFINE S == {j \in Jobs : up[j] /\ HoldsLock(j, d)}
  <2>1. \A j, k \in S : j = k
    BY DEF LockInv, Sane, Inner
  <2>2. CASE S = {}
    BY <2>2, FS_EmptySet
  <2>3. CASE S # {}
    <3>1. PICK x : S = {x}
      BY <2>1, <2>3
    <3>2. Cardinality({x}) = 1
      BY FS_Singleton
    <3>3. Cardinality(S) = 1
      BY <3>1, <3>2
    <3>4. QED
      BY <3>3
  <2>4. QED
    BY <2>2, <2>3
<1>2. QED
  BY <1>1, LockInvAlways, PTL

----------------------------------------------------------------------------
(***************************************************************************)
(* The checkouts.  A half made one has its maker inside the lock; one that *)
(* a script goes on with is whole.                                         *)
(***************************************************************************)
Making(j) == At(j, "tree", "work")
Using(j) == up[j] /\ (stage[j] \in {"env", "run"} \/ At(j, "tree", "out"))

TreeSane(d) ==
    /\ \A j \in Jobs : Making(j) /\ rev[j] = d => tree[d] = "half"
    /\ tree[d] = "half" => \E j \in Jobs : Making(j) /\ rev[j] = d
    /\ \A j \in Jobs : Using(j) /\ rev[j] = d => tree[d] = "whole"

TreeInv == \A d \in Revs : d \notin hurt => TreeSane(d)

\* A step that makes no checkout, and goes on with none that it did not have.
LEMMA TreeFrame ==
  ASSUME BootTypeOK, TreeInv, NEW j \in Jobs, Alone(j), tree' = tree, hurt \subseteq hurt',
         Making(j)' <=> Making(j), Using(j)' => Using(j)
  PROVE  TreeInv'
<1>1. \A k \in Jobs : (Making(k)' <=> Making(k)) /\ (Using(k)' => Using(k)) /\ rev'[k] = rev[k]
  BY DEF Alone, Making, Using, At
<1>2. QED
  BY <1>1 DEF TreeInv, TreeSane

\* Inside the tree's lock is inside the revision's.
LEMMA TreeLock ==
  ASSUME BootTypeOK, NEW j \in Jobs, up[j], stage[j] = "tree", hold[j] \in Inside
  PROVE  Inner(j, rev[j]) /\ rev[j] \in Locks
BY LockTyped DEF Inner, HoldsLock, LockOf, Locks

LEMMA EnterTreeStep == ASSUME LockInv, TreeInv, NEW j \in Jobs, EnterTree(j) PROVE TreeInv'
<1>1. BootTypeOK /\ rev' = rev /\ hurt' = hurt /\ rev[j] \in Revs
  BY LockTyped DEF LockInv, EnterTree, settings
<1>2. up[j] /\ stage[j] = "tree" /\ hold[j] = "in" /\ ~Making(j)
  BY DEF EnterTree, At, Making
<1>3. PICK h \in {"out", "work"} : Go(j, "tree", h)
  BY DEF EnterTree
<1>4. Alone(j) /\ stage'[j] = "tree" /\ hold'[j] = h /\ up'[j]
  BY <1>1, <1>2, <1>3, GoAlone
<1>5. \A k \in Jobs \ {j} : (Making(k)' <=> Making(k)) /\ (Using(k)' <=> Using(k)) /\ rev'[k] = rev[k]
  BY <1>4 DEF Alone, Making, Using, At
<1>6. ASSUME NEW d \in Revs, d \notin hurt' PROVE TreeSane(d)'
  <2>1. TreeSane(d)
    BY <1>1, <1>6 DEF TreeInv
  <2>2. CASE d # rev[j]
    <3>1. tree'[d] = tree[d]
      BY <1>1, <2>2 DEF BootTypeOK, EnterTree
    <3>2. QED
      BY <1>1, <1>2, <1>5, <2>1, <2>2, <3>1 DEF TreeSane
  <2>3. CASE d = rev[j]
    <3>1. \A k \in Jobs \ {j} : ~(Making(k) /\ rev[k] = d)
      <4>1. Inner(j, d) /\ d \in Locks
        BY <1>1, <1>2, <2>3, TreeLock DEF Inside
      <4>2. Sane(d)
        BY <1>1, <1>6, <4>1 DEF LockInv
      <4>3. ASSUME NEW k \in Jobs \ {j}, Making(k), rev[k] = d PROVE Inner(k, d)
        BY <1>1, <4>3, TreeLock DEF Making, At, Inside
      <4>4. QED
        BY <4>1, <4>2, <4>3 DEF Sane
    <3>2. tree[d] # "half"
      BY <1>2, <2>1, <3>1 DEF TreeSane
    <3>3. CASE tree[d] = "none"
      <4>1. tree'[d] = "half" /\ Go(j, "tree", "work")
        BY <1>1, <2>3, <3>3 DEF BootTypeOK, EnterTree
      <4>2. Making(j)' /\ ~Using(j)'
        BY <1>1, <1>2, <1>4, <4>1, GoAlone DEF Making, Using, At
      <4>3. \A k \in Jobs : ~(Using(k) /\ rev[k] = d)
        BY <2>1, <3>3 DEF TreeSane
      <4>4. QED
        BY <1>1, <1>5, <2>3, <4>1, <4>2, <4>3 DEF TreeSane
    <3>4. CASE tree[d] = "whole"
      <4>1. tree' = tree /\ Go(j, "tree", "out")
        BY <2>3, <3>4 DEF EnterTree
      <4>2. ~Making(j)'
        BY <1>1, <4>1, GoAlone DEF Making, At
      <4>3. QED
        BY <1>1, <1>2, <1>5, <2>1, <2>3, <3>4, <4>1, <4>2 DEF TreeSane
    <3>5. QED
      BY <1>1, <2>3, <3>2, <3>3, <3>4 DEF BootTypeOK
  <2>4. QED
    BY <2>2, <2>3
<1>7. QED
  BY <1>6 DEF TreeInv

LEMMA FillTreeStep == ASSUME LockInv, TreeInv, NEW j \in Jobs, FillTree(j) PROVE TreeInv'
<1>1. BootTypeOK /\ rev' = rev /\ hurt' = hurt /\ rev[j] \in Revs
  BY LockTyped DEF LockInv, FillTree, settings
<1>2. Making(j) /\ up[j] /\ stage[j] = "tree" /\ hold[j] = "work" /\ ~Using(j)
  BY DEF FillTree, At, Making, Using
<1>3. PICK h \in {"out", "bad"} :
          /\ Go(j, "tree", h)
          /\ tree' = [tree EXCEPT ![rev[j]] = IF h = "out" THEN "whole" ELSE "none"]
  BY DEF FillTree, Filled
<1>4. Alone(j) /\ stage'[j] = "tree" /\ hold'[j] = h /\ up'[j]
  BY <1>1, <1>2, <1>3, GoAlone
<1>5. \A k \in Jobs \ {j} : (Making(k)' <=> Making(k)) /\ (Using(k)' <=> Using(k)) /\ rev'[k] = rev[k]
  BY <1>4 DEF Alone, Making, Using, At
<1>6. ~Making(j)' /\ (Using(j)' => h = "out")
  BY <1>4 DEF Making, Using, At
<1>7. ASSUME NEW d \in Revs, d \notin hurt' PROVE TreeSane(d)'
  <2>1. TreeSane(d)
    BY <1>1, <1>7 DEF TreeInv
  <2>2. CASE d # rev[j]
    <3>1. tree'[d] = tree[d]
      BY <1>1, <1>3, <2>2 DEF BootTypeOK
    <3>2. QED
      BY <1>1, <1>5, <1>6, <2>1, <2>2, <3>1 DEF TreeSane
  <2>3. CASE d = rev[j]
    <3>1. \A k \in Jobs \ {j} : ~(Making(k) /\ rev[k] = d)
      <4>1. Inner(j, d) /\ d \in Locks
        BY <1>1, <1>2, <2>3, TreeLock DEF Inside
      <4>2. Sane(d)
        BY <1>1, <1>7, <4>1 DEF LockInv
      <4>3. ASSUME NEW k \in Jobs \ {j}, Making(k), rev[k] = d PROVE Inner(k, d)
        BY <1>1, <4>3, TreeLock DEF Making, At, Inside
      <4>4. QED
        BY <4>1, <4>2, <4>3 DEF Sane
    <3>2. \A k \in Jobs : ~(Using(k) /\ rev[k] = d)
      BY <1>2, <2>1, <2>3 DEF TreeSane
    <3>3. tree'[d] = IF h = "out" THEN "whole" ELSE "none"
      BY <1>1, <1>3, <2>3 DEF BootTypeOK
    <3>4. QED
      BY <1>1, <1>5, <1>6, <2>3, <3>1, <3>2, <3>3 DEF TreeSane
  <2>4. QED
    BY <2>2, <2>3
<1>8. QED
  BY <1>7 DEF TreeInv

\* Every other step of a script.
LEMMA OtherTreeStep ==
  ASSUME LockInv, TreeInv, NEW j \in Jobs,
         \/ Submit(j) \/ Begin(j) \/ Code(j) \/ Glance(j) \/ Overwait(j) \/ StartRun(j)
         \/ WriteResult(j) \/ Exit(j) \/ Fade(j) \/ TakeLock(j) \/ Condemn(j) \/ Rob(j)
         \/ Settle(j) \/ Unlock(j) \/ EnterEnv(j) \/ FillEnv(j) \/ Stamp(j)
  PROVE  TreeInv'
<1>1. BootTypeOK /\ Within(j)
  BY DEF LockInv
<1>2. tree' = tree /\ rev' = rev /\ hurt \subseteq hurt'
  BY DEF Submit, Begin, Code, Glance, Overwait, StartRun, WriteResult, Exit, Fade, TakeLock, Condemn,
     Rob, Settle, Unlock, Unlocked, EnterEnv, FillEnv, Stamp, settings, shared
<1>3. CASE Submit(j)
  <2>1. Alone(j) /\ ~Making(j) /\ ~Making(j)' /\ ~Using(j)'
    BY <1>1, <1>2, <1>3 DEF Submit, Alone, Within, BootTypeOK, Making, Using, At
  <2>2. QED
    BY <1>1, <1>2, <2>1, TreeFrame
<1>4. CASE Begin(j) \/ Code(j) \/ WriteResult(j)
  <2>1. PICK s \in {"code", "tree", "failing", "exit"}, h \in {"none", "wait"} :
            Go(j, s, h) /\ (h = "none" \/ s = "tree")
    BY <1>4, Zenon DEF Begin, Code, WriteResult
  <2>2. Alone(j) /\ stage'[j] = s /\ hold'[j] = h
    BY <1>1, <1>2, <2>1, GoAlone
  <2>3. ~Making(j)
    BY <1>4 DEF Begin, Code, WriteResult, At, Making
  <2>4. ~Making(j)' /\ ~Using(j)'
    BY <2>2 DEF Making, Using, At
  <2>5. QED
    BY <1>1, <1>2, <2>2, <2>3, <2>4, TreeFrame
<1>5. CASE Overwait(j) \/ StartRun(j) \/ Fade(j)
  <2>1. stage' = stage /\ hold' = hold /\ up' = up
    BY <1>5 DEF Overwait, Tires, StartRun, Fade, script
  <2>2. Alone(j) /\ (Making(j)' <=> Making(j)) /\ (Using(j)' <=> Using(j))
    BY <1>1, <1>2, <2>1 DEF Alone, Within, Making, Using, At
  <2>3. QED
    BY <1>1, <1>2, <2>2, TreeFrame
<1>6. CASE Exit(j)
  <2>1. /\ stage' = [stage EXCEPT ![j] = "over"] /\ up' = [up EXCEPT ![j] = FALSE]
        /\ hold' = hold /\ hold[j] = "none"
    BY <1>6 DEF Exit, At
  <2>2. Alone(j) /\ ~Making(j) /\ ~Making(j)' /\ ~Using(j)'
    BY <1>1, <1>2, <2>1 DEF BootTypeOK, Alone, Within, Making, Using, At
  <2>3. QED
    BY <1>1, <1>2, <2>2, TreeFrame
<1>7. CASE TakeLock(j) \/ Condemn(j) \/ Rob(j)
  <2>1. PICK h \in {"got", "rob", "wait"} :
            stage' = stage /\ up' = up /\ hold' = [hold EXCEPT ![j] = h] /\ hold[j] \in {"wait", "rob"}
    BY <1>7 DEF TakeLock, Condemn, Rob
  <2>2. Alone(j) /\ ~Making(j) /\ ~Making(j)' /\ (Using(j)' => Using(j))
    BY <1>1, <1>2, <2>1 DEF BootTypeOK, Alone, Within, Making, Using, At
  <2>3. QED
    BY <1>1, <1>2, <2>2, TreeFrame
<1>8. CASE Glance(j) \/ EnterEnv(j) \/ FillEnv(j) \/ Stamp(j)
  <2>1. up[j] /\ stage[j] = "env"
    BY <1>8 DEF Glance, EnterEnv, FillEnv, Stamp, At
  <2>2. PICK s \in {"env", "run"}, h \in {"none", "wait", "out", "work", "bad", "stamp"} :
            Go(j, s, h) /\ (h = "none" \/ s = "env")
    BY <1>8, Zenon DEF Glance, EnterEnv, FillEnv, EnvSynced, Stamp
  <2>3. Alone(j) /\ stage'[j] = s
    BY <1>1, <1>2, <2>2, GoAlone
  <2>4. ~Making(j) /\ ~Making(j)' /\ Using(j)
    BY <2>1, <2>3 DEF Making, Using, At
  <2>5. QED
    BY <1>1, <1>2, <2>3, <2>4, TreeFrame
<1>9. CASE Settle(j)
  <2>1. up[j] /\ hold[j] = "got" /\ stage[j] \in {"tree", "env"}
    BY <1>1, <1>9 DEF Settle, Within
  <2>2. Go(j, stage[j], "in") \/ Go(j, "failing", "none")
    BY <1>9 DEF Settle
  <2>3. /\ Alone(j) /\ hold'[j] \in {"in", "none"}
        /\ stage'[j] \in {stage[j], "failing"} /\ up'[j] = up[j]
    BY <1>1, <1>2, <2>1, <2>2, GoAlone
  <2>4. ~Making(j) /\ ~Making(j)' /\ (Using(j)' => Using(j))
    BY <2>1, <2>3 DEF Making, Using, At
  <2>5. QED
    BY <1>1, <1>2, <2>3, <2>4, TreeFrame
<1>10. CASE Unlock(j)
  <2>1. up[j] /\ hold[j] \in {"out", "bad"} /\ stage[j] \in {"tree", "env"}
    BY <1>1, <1>10 DEF Unlock, Within
  <2>2. \/ Go(j, "failing", "none")
        \/ hold[j] = "out" /\ (Go(j, "env", "check") \/ Go(j, "run", "none"))
    <3>1. CASE hold[j] = "bad"
      BY <1>10, <3>1 DEF Unlock
    <3>2. CASE hold[j] = "out"
      BY <1>10, <3>2 DEF Unlock
    <3>3. QED
      BY <2>1, <3>1, <3>2
  <2>3. /\ Alone(j) /\ hold'[j] \in {"none", "check"} /\ stage'[j] \in {"failing", "env", "run"}
        /\ stage'[j] = "failing" \/ hold[j] = "out"
    BY <1>1, <1>2, <2>2, GoAlone
  <2>4. ~Making(j) /\ ~Making(j)' /\ (Using(j)' => Using(j))
    BY <2>1, <2>3 DEF Making, Using, At
  <2>5. QED
    BY <1>1, <1>2, <2>3, <2>4, TreeFrame
<1>11. QED
  BY <1>3, <1>4, <1>5, <1>6, <1>7, <1>8, <1>9, <1>10

LEMMA WorldTreeStep ==
  ASSUME LockInv, TreeInv,
         \/ \E d \in Locks : (\E j \in Jobs : Refresh(j, d)) \/ Age(d)
         \/ Death \/ ObserveStatus \/ AllEnded \/ UNCHANGED bootVars
  PROVE  TreeInv'
<1>1. CASE Death
  <2>1. PICK js \in SUBSET Jobs : Dies(js)
    BY <1>1, DeathDies DEF LockInv
  <2>2. ASSUME NEW d \in Revs, d \notin hurt' PROVE TreeSane(d)'
    <3>1. d \in Locks /\ d \notin hurt /\ \A k \in js : ~Inner(k, d)
      BY <2>1, <2>2 DEF Dies, Hurt, Inner, Locks
    <3>2. \A k \in Jobs : Making(k) /\ rev[k] = d => Inner(k, d)
      BY TreeLock DEF LockInv, Making, At, Inside
    <3>3. \A k \in Jobs : rev[k] = d => (Making(k)' <=> Making(k)) /\ (Using(k)' => Using(k))
      BY <2>1, <3>1, <3>2 DEF Dies, Making, Using, At
    <3>4. TreeSane(d) /\ tree' = tree /\ rev' = rev
      BY <1>1, <2>1, <3>1 DEF TreeInv, Death, Dies
    <3>5. QED
      BY <3>3, <3>4 DEF TreeSane
  <2>3. QED
    BY <2>2 DEF TreeInv
<1>2. CASE ~Death
  <2>1. UNCHANGED <<rev, stage, hold, up, tree, hurt>>
    BY <1>2 DEF Refresh, Age, ObserveStatus, ReadStatus, LookPid, LookResult, Frame, AllEnded, bootVars,
       settings, script, shared
  <2>2. QED
    BY <2>1 DEF TreeInv, TreeSane, Making, Using, At
<1>3. QED
  BY <1>1, <1>2

\* A script past its checkout works in a whole tree, unless somebody died in the
\* tree's lock or overran its timeout.
THEOREM TreeCorrect == BootSpec => []TreeWhole
<1>1. BootInit => TreeInv
  <2> SUFFICES ASSUME BootInit PROVE TreeInv
    OBVIOUS
  <2>1. \A j \in Jobs : ~up[j]
    BY DEF BootInit
  <2>2. \A d \in Revs : tree[d] # "half"
    BY DEF BootInit
  <2>3. QED
    BY <2>1, <2>2 DEF TreeInv, TreeSane, Making, Using, At
<1>2. LockInv /\ TreeInv /\ [BootNext]_bootVars => TreeInv'
  BY EnterTreeStep, FillTreeStep, OtherTreeStep, WorldTreeStep DEF BootNext, Script
<1>3. LockInv /\ TreeInv => TreeWhole
  BY LockTyped DEF LockInv, TreeInv, TreeSane, Using, TreeWhole
<1>4. QED
  BY <1>1, <1>2, <1>3, LockInvAlways, PTL DEF BootSpec

----------------------------------------------------------------------------
(***************************************************************************)
(* The environment of a project whose jobs are all of one revision.  Its   *)
(* stamp is believed without the lock, because no sync begins to change    *)
(* an environment whose stamp is that revision's.                          *)
(***************************************************************************)
Stamping(j) == At(j, "env", "stamp")
Trusting(j) == At(j, "env", "out") \/ (up[j] /\ stage[j] = "run")

EnvSane(r) ==
    /\ stamp = r => venv = r
    /\ \A j \in Jobs : Stamping(j) => venv = r
    /\ \A j \in Jobs : Trusting(j) => stamp = r

EnvInv ==
    "venv" \notin hurt /\ mode = "uv"
        => \A r \in Revs : (\A j \in Jobs : rev[j] = r) => EnvSane(r)

\* A step that leaves the environment, and trusts it only if it did.
LEMMA EnvFrame ==
  ASSUME BootTypeOK, EnvInv, NEW j \in Jobs, Alone(j), mode' = mode, venv' = venv, stamp' = stamp,
         hurt \subseteq hurt', Stamping(j)' => Stamping(j),
         Trusting(j)' /\ mode = "uv" => Trusting(j) \/ stamp = rev[j]
  PROVE  EnvInv'
<1>1. \A k \in Jobs \ {j} : (Stamping(k)' => Stamping(k)) /\ (Trusting(k)' => Trusting(k))
  BY DEF Alone, Stamping, Trusting, At
<1>2. \A k \in Jobs : rev'[k] = rev[k]
  BY DEF Alone
<1>3. QED
  BY <1>1, <1>2 DEF EnvInv, EnvSane

\* Two scripts are not inside the environment's lock.
LEMMA EnvAlone ==
  ASSUME LockInv, "venv" \notin hurt, NEW j \in Jobs, up[j], stage[j] = "env", hold[j] \in Inside,
         NEW k \in Jobs \ {j}
  PROVE  ~Stamping(k) /\ ~At(k, "env", "out")
<1>1. "venv" \in Locks /\ Inner(j, "venv")
  BY DEF Locks, Inner, HoldsLock, LockOf
<1>2. ~Inner(k, "venv")
  BY <1>1 DEF LockInv, Sane
<1>3. QED
  BY <1>2 DEF Stamping, At, Inner, HoldsLock, LockOf, Inside

\* The steps inside the environment's lock.
LEMMA EnterEnvStep == ASSUME LockInv, EnvInv, NEW j \in Jobs, EnterEnv(j) PROVE EnvInv'
<1>1. BootTypeOK /\ rev' = rev /\ mode' = mode /\ hurt' = hurt /\ stamp' = stamp
  BY DEF LockInv, EnterEnv, settings
<1>2. up[j] /\ stage[j] = "env" /\ hold[j] = "in" /\ ~Stamping(j)
  BY DEF EnterEnv, At, Stamping
<1>3. PICK h \in {"out", "work"} : Go(j, "env", h)
  BY DEF EnterEnv
<1>4. Alone(j) /\ stage'[j] = "env" /\ hold'[j] = h
  BY <1>1, <1>3, GoAlone
<1>5. ~Stamping(j)'
  BY <1>4 DEF Stamping, At
<1>6. CASE mode = "uv" /\ stamp = rev[j]
  <2>1. venv' = venv
    BY <1>6 DEF EnterEnv
  <2>2. QED
    BY <1>1, <1>4, <1>5, <1>6, <2>1, EnvFrame
<1>7. CASE ~(mode = "uv" /\ stamp = rev[j])
  <2>1. Go(j, "env", "work")
    BY <1>7 DEF EnterEnv
  <2>2. ~Trusting(j)'
    BY <1>1, <2>1, GoAlone DEF Trusting, At
  <2>3. SUFFICES ASSUME "venv" \notin hurt, mode = "uv", NEW r \in Revs, \A k \in Jobs : rev[k] = r
                 PROVE  EnvSane(r)'
    BY <1>1 DEF EnvInv
  <2>4. EnvSane(r) /\ stamp # r
    BY <1>7, <2>3 DEF EnvInv
  <2>5. \A k \in Jobs : ~Stamping(k)' /\ ~Trusting(k)'
    <3>1. ASSUME NEW k \in Jobs \ {j} PROVE ~Stamping(k)' /\ ~Trusting(k)'
      <4>1. ~Stamping(k) /\ ~Trusting(k)
        BY <1>2, <2>3, <2>4, EnvAlone DEF Inside, EnvSane
      <4>2. QED
        BY <1>4, <4>1 DEF Alone, Stamping, Trusting, At
    <3>2. QED
      BY <1>5, <2>2, <3>1
  <2>6. QED
    BY <1>1, <2>4, <2>5 DEF EnvSane
<1>8. QED
  BY <1>6, <1>7

LEMMA FillEnvStep == ASSUME LockInv, EnvInv, NEW j \in Jobs, FillEnv(j) PROVE EnvInv'
<1>1. BootTypeOK /\ rev' = rev /\ mode' = mode /\ hurt' = hurt /\ stamp' = stamp
  BY DEF LockInv, FillEnv, settings
<1>2. up[j] /\ stage[j] = "env" /\ hold[j] = "work" /\ ~Stamping(j) /\ ~Trusting(j)
  BY DEF FillEnv, At, Stamping, Trusting
<1>3. \/ Go(j, "env", IF mode = "uv" THEN "stamp" ELSE "out") /\ venv' = rev[j]
      \/ Go(j, "env", "bad") /\ venv' = venv
  BY DEF FillEnv, EnvSynced
<1>4. Alone(j) /\ (mode = "uv" => ~Trusting(j)')
  BY <1>1, <1>3, GoAlone DEF Trusting, At
<1>5. CASE Go(j, "env", "bad") /\ venv' = venv
  <2>1. ~Stamping(j)'
    BY <1>1, <1>5, GoAlone DEF Stamping, At
  <2>2. QED
    BY <1>1, <1>4, <1>5, <2>1, EnvFrame
<1>6. CASE venv' = rev[j]
  <2>1. SUFFICES ASSUME "venv" \notin hurt, mode = "uv", NEW r \in Revs, \A k \in Jobs : rev[k] = r
                 PROVE  EnvSane(r)'
    BY <1>1 DEF EnvInv
  <2>2. EnvSane(r) /\ venv' = r
    BY <1>6, <2>1 DEF EnvInv
  <2>3. \A k \in Jobs \ {j} : Trusting(k)' => Trusting(k)
    BY <1>4 DEF Alone, Trusting, At
  <2>4. QED
    BY <1>1, <1>4, <2>1, <2>2, <2>3 DEF EnvSane
<1>7. QED
  BY <1>3, <1>5, <1>6

LEMMA StampStep == ASSUME LockInv, EnvInv, NEW j \in Jobs, Stamp(j) PROVE EnvInv'
<1>1. BootTypeOK /\ rev' = rev /\ mode' = mode /\ hurt' = hurt /\ venv' = venv /\ stamp' = rev[j]
  BY DEF LockInv, Stamp, Stamped, settings
<1>2. Stamping(j)
  BY DEF Stamp, Stamping
<1>3. SUFFICES ASSUME "venv" \notin hurt, mode = "uv", NEW r \in Revs, \A k \in Jobs : rev[k] = r
               PROVE  EnvSane(r)'
  BY <1>1 DEF EnvInv
<1>4. venv = r
  BY <1>2, <1>3 DEF EnvInv, EnvSane
<1>5. QED
  BY <1>1, <1>3, <1>4 DEF EnvSane

\* Every other step of a script.
LEMMA OtherEnvStep ==
  ASSUME LockInv, EnvInv, NEW j \in Jobs,
         \/ Submit(j) \/ Begin(j) \/ Code(j) \/ Glance(j) \/ Overwait(j) \/ StartRun(j)
         \/ WriteResult(j) \/ Exit(j) \/ Fade(j) \/ TakeLock(j) \/ Condemn(j) \/ Rob(j)
         \/ Settle(j) \/ Unlock(j) \/ EnterTree(j) \/ FillTree(j)
  PROVE  EnvInv'
<1>1. BootTypeOK /\ Within(j)
  BY DEF LockInv
<1>2. venv' = venv /\ stamp' = stamp /\ mode' = mode /\ rev' = rev /\ hurt \subseteq hurt'
  BY DEF Submit, Begin, Code, Glance, Overwait, StartRun, WriteResult, Exit, Fade, TakeLock, Condemn,
     Rob, Settle, Unlock, Unlocked, EnterTree, FillTree, settings, shared
<1>3. CASE Submit(j)
  <2>1. Alone(j) /\ ~Stamping(j)' /\ ~Trusting(j)'
    BY <1>1, <1>2, <1>3 DEF Submit, Alone, Within, BootTypeOK, Stamping, Trusting, At
  <2>2. QED
    BY <1>1, <1>2, <2>1, EnvFrame
<1>4. CASE Begin(j) \/ Code(j) \/ WriteResult(j) \/ EnterTree(j) \/ FillTree(j)
  <2>1. PICK s \in {"code", "tree", "failing", "exit"}, h \in {"none", "wait", "out", "work", "bad"} :
            Go(j, s, h) /\ (h = "none" \/ s = "tree")
    BY <1>4, Zenon DEF Begin, Code, WriteResult, EnterTree, FillTree, Filled
  <2>2. Alone(j) /\ stage'[j] = s
    BY <1>1, <1>2, <2>1, GoAlone
  <2>3. ~Stamping(j)' /\ ~Trusting(j)'
    BY <2>2 DEF Stamping, Trusting, At
  <2>4. QED
    BY <1>1, <1>2, <2>2, <2>3, EnvFrame
<1>5. CASE Glance(j)
  <2>1. (Go(j, "run", "none") /\ stamp = rev[j]) \/ Go(j, "env", "wait")
    BY <1>5 DEF Glance
  <2>2. CASE Go(j, "run", "none") /\ stamp = rev[j]
    <3>1. Alone(j) /\ stage'[j] = "run"
      BY <1>1, <1>2, <2>2, GoAlone
    <3>2. ~Stamping(j)'
      BY <3>1 DEF Stamping, At
    <3>3. QED
      BY <1>1, <1>2, <2>2, <3>1, <3>2, EnvFrame
  <2>3. CASE Go(j, "env", "wait")
    <3>1. Alone(j) /\ stage'[j] = "env" /\ hold'[j] = "wait"
      BY <1>1, <1>2, <2>3, GoAlone
    <3>2. ~Stamping(j)' /\ ~Trusting(j)'
      BY <3>1 DEF Stamping, Trusting, At
    <3>3. QED
      BY <1>1, <1>2, <3>1, <3>2, EnvFrame
  <2>4. QED
    BY <2>1, <2>2, <2>3
<1>6. CASE Overwait(j) \/ StartRun(j) \/ Fade(j)
  <2>1. stage' = stage /\ hold' = hold /\ up' = up
    BY <1>6 DEF Overwait, Tires, StartRun, Fade, script
  <2>2. Alone(j) /\ (Stamping(j)' <=> Stamping(j)) /\ (Trusting(j)' <=> Trusting(j))
    BY <1>1, <1>2, <2>1 DEF Alone, Within, Stamping, Trusting, At
  <2>3. QED
    BY <1>1, <1>2, <2>2, EnvFrame
<1>7. CASE Exit(j)
  <2>1. /\ stage' = [stage EXCEPT ![j] = "over"] /\ up' = [up EXCEPT ![j] = FALSE]
        /\ hold' = hold /\ hold[j] = "none"
    BY <1>7 DEF Exit, At
  <2>2. Alone(j) /\ ~Stamping(j)' /\ ~Trusting(j)'
    BY <1>1, <1>2, <2>1 DEF BootTypeOK, Alone, Within, Stamping, Trusting, At
  <2>3. QED
    BY <1>1, <1>2, <2>2, EnvFrame
<1>8. CASE TakeLock(j) \/ Condemn(j) \/ Rob(j)
  <2>1. PICK h \in {"got", "rob", "wait"} :
            stage' = stage /\ up' = up /\ hold' = [hold EXCEPT ![j] = h] /\ hold[j] \in {"wait", "rob"}
    BY <1>8 DEF TakeLock, Condemn, Rob
  <2>2. Alone(j) /\ ~Stamping(j)' /\ ~Trusting(j)'
    BY <1>1, <1>2, <2>1 DEF BootTypeOK, Alone, Within, Stamping, Trusting, At
  <2>3. QED
    BY <1>1, <1>2, <2>2, EnvFrame
<1>9. CASE Settle(j)
  <2>1. up[j] /\ hold[j] = "got" /\ stage[j] \in {"tree", "env"}
    BY <1>1, <1>9 DEF Settle, Within
  <2>2. Go(j, stage[j], "in") \/ Go(j, "failing", "none")
    BY <1>9 DEF Settle
  <2>3. /\ Alone(j) /\ hold'[j] \in {"in", "none"}
        /\ stage'[j] \in {stage[j], "failing"}
    BY <1>1, <1>2, <2>1, <2>2, GoAlone
  <2>4. ~Stamping(j)' /\ ~Trusting(j)'
    BY <2>1, <2>3 DEF Stamping, Trusting, At
  <2>5. QED
    BY <1>1, <1>2, <2>3, <2>4, EnvFrame
<1>10. CASE Unlock(j)
  <2>1. up[j] /\ hold[j] \in {"out", "bad"} /\ stage[j] \in {"tree", "env"}
    BY <1>1, <1>10 DEF Unlock, Within
  <2>2. \/ Go(j, "failing", "none") \/ Go(j, "env", "check")
        \/ hold[j] = "out" /\ stage[j] = "env" /\ Go(j, "run", "none")
    BY <1>10, <2>1 DEF Unlock
  <2>3. /\ Alone(j)
        /\ \/ stage'[j] = "failing" \/ hold'[j] = "check"
           \/ hold[j] = "out" /\ stage[j] = "env" /\ hold'[j] = "none"
    BY <1>1, <1>2, <2>2, GoAlone
  <2>4. stage'[j] \in {"failing", "env", "run"} /\ (hold'[j] = "check" => stage'[j] = "env")
    BY <1>1, <1>2, <2>2, GoAlone
  <2>5. ~Stamping(j)' /\ (Trusting(j)' => Trusting(j))
    BY <2>1, <2>3, <2>4 DEF Stamping, Trusting, At
  <2>6. QED
    BY <1>1, <1>2, <2>3, <2>5, EnvFrame
<1>11. QED
  BY <1>3, <1>4, <1>5, <1>6, <1>7, <1>8, <1>9, <1>10

LEMMA WorldEnvStep ==
  ASSUME LockInv, EnvInv,
         \/ \E d \in Locks : (\E j \in Jobs : Refresh(j, d)) \/ Age(d)
         \/ Death \/ ObserveStatus \/ AllEnded \/ UNCHANGED bootVars
  PROVE  EnvInv'
<1>1. CASE Death
  <2>1. PICK js \in SUBSET Jobs : Dies(js)
    BY <1>1, DeathDies DEF LockInv
  <2>2. venv' = venv /\ stamp' = stamp /\ rev' = rev /\ mode' = mode /\ hurt \subseteq hurt'
    BY <1>1, <2>1 DEF Death, Dies, Hurt
  <2>3. \A j \in Jobs : (Stamping(j)' => Stamping(j)) /\ (Trusting(j)' => Trusting(j))
    BY <2>1 DEF Dies, Stamping, Trusting, At
  <2>4. QED
    BY <2>2, <2>3 DEF EnvInv, EnvSane
<1>2. CASE ~Death
  <2>1. UNCHANGED <<rev, mode, stage, hold, up, venv, stamp, hurt>>
    BY <1>2 DEF Refresh, Age, ObserveStatus, ReadStatus, LookPid, LookResult, Frame, AllEnded, bootVars,
       settings, script, shared
  <2>2. QED
    BY <2>1 DEF EnvInv, EnvSane, Stamping, Trusting, At
<1>3. QED
  BY <1>1, <1>2

\* When the jobs are of one revision, no command starts in an environment a sync
\* has begun to change and not ended, though the stamp is read without the lock.
THEOREM EnvCorrect == BootSpec => []EnvReady
<1>1. BootInit => EnvInv
  <2> SUFFICES ASSUME BootInit, mode = "uv" PROVE EnvInv
    BY DEF EnvInv
  <2>1. \A j \in Jobs : ~up[j]
    BY DEF BootInit
  <2>2. stamp = venv
    BY DEF BootInit
  <2>3. QED
    BY <2>1, <2>2 DEF EnvInv, EnvSane, Stamping, Trusting, At
<1>2. LockInv /\ EnvInv /\ [BootNext]_bootVars => EnvInv'
  BY EnterEnvStep, FillEnvStep, StampStep, OtherEnvStep, WorldEnvStep DEF BootNext, Script
<1>3. LockInv /\ EnvInv => EnvReady
  <2> SUFFICES ASSUME LockInv, EnvInv, NEW j \in Jobs, up[j], stage[j] = "run", "venv" \notin hurt,
                      mode = "uv", \A k \in Jobs : rev[k] = rev[j]
               PROVE  venv = rev[j]
    BY DEF EnvReady
  <2>1. rev[j] \in Revs
    BY LockTyped DEF LockInv
  <2>2. EnvSane(rev[j]) /\ Trusting(j)
    BY <2>1 DEF EnvInv, Trusting
  <2>3. QED
    BY <2>2 DEF EnvSane
<1>4. QED
  BY <1>1, <1>2, <1>3, LockInvAlways, PTL DEF BootSpec

\* What the scripts of a project share is used by one at a time and whole when
\* used: the locks of omnirun_lock, the checkout and the environment together.
THEOREM SharedCorrect == BootSpec => []SharedWhole
BY BootTypeCorrect, ExclusionCorrect, TreeCorrect, EnvCorrect, PTL DEF SharedWhole

----------------------------------------------------------------------------
(***************************************************************************)
(* The client's verdict.  A heartbeat grows old only when its script is    *)
(* gone, and a script once gone writes nothing more.                       *)
(***************************************************************************)
Heart(j) ==
    /\ stage[j] = "new" => ~up[j] /\ jobdir[j].beat = "none"
    /\ stage[j] # "new" => jobdir[j].dir
    /\ up[j] /\ jobdir[j].beat # "none" => beating[j]
    /\ jobdir[j].beat = "old" => ~up[j]

Down == stage[Watched] # "new" /\ ~up[Watched]

Seen ==
    /\ look = "pid" => stage[Watched] # "new"
    /\ look = "result" => Down
    /\ told = "lost" => Down /\ (via # "ssh" => jobdir[Watched].result = "none")

LostInv == BootTypeOK /\ (\A j \in Jobs : Heart(j)) /\ Seen

\* A step of a living script that leaves its heartbeat.
LEMMA LivingStep ==
  ASSUME LostInv, BootTypeOK', NEW j \in Jobs, up[j], client' = client, settings' = settings,
         \A k \in Jobs \ {j} : /\ stage'[k] = stage[k] /\ up'[k] = up[k]
                               /\ jobdir'[k] = jobdir[k] /\ beating'[k] = beating[k],
         stage'[j] # "new", up'[j] = up[j], jobdir'[j].dir, jobdir'[j].beat = jobdir[j].beat,
         beating'[j] = beating[j]
  PROVE  LostInv'
<1>1. \A k \in Jobs : Heart(k)'
  BY DEF LostInv, Heart
<1>2. Watched \in Jobs
  BY BootParameters
<1>3. Seen'
  BY <1>2 DEF LostInv, Seen, Down, client, settings
<1>4. QED
  BY <1>1, <1>3 DEF LostInv

LEMMA WalkStep ==
  ASSUME LostInv, BootTypeOK', NEW j \in Jobs,
         \/ Begin(j) \/ Code(j) \/ Glance(j) \/ Settle(j) \/ EnterTree(j) \/ FillTree(j)
         \/ EnterEnv(j) \/ FillEnv(j) \/ Stamp(j) \/ Unlock(j) \/ WriteResult(j)
  PROVE  LostInv'
<1>1. BootTypeOK /\ Heart(j)
  BY DEF LostInv
<1>2. up[j] /\ client' = client /\ settings' = settings /\ beating' = beating
  BY DEF Begin, Code, Glance, Settle, EnterTree, FillTree, EnterEnv, FillEnv, Stamp, Unlock,
     WriteResult, At, client, settings
<1>3. stage[j] # "new"
  BY <1>1, <1>2 DEF Heart
<1>4. PICK s \in {"code", "tree", "env", "run", "failing", "exit", stage[j]},
           h \in Inside \cup {"none", "check", "wait", "rob"} : Go(j, s, h)
  <2>1. CASE Begin(j) \/ Code(j) \/ Glance(j) \/ WriteResult(j)
    BY <2>1, Zenon DEF Begin, Code, Glance, WriteResult
  <2>2. CASE Settle(j) \/ Unlock(j)
    BY <2>2, Zenon DEF Settle, Unlock, Inside
  <2>3. CASE EnterTree(j) \/ FillTree(j) \/ EnterEnv(j) \/ FillEnv(j) \/ Stamp(j)
    BY <2>3, Zenon DEF EnterTree, FillTree, Filled, EnterEnv, FillEnv, EnvSynced, Stamp, Inside
  <2>4. QED
    BY <2>1, <2>2, <2>3
<1>5. /\ \A k \in Jobs \ {j} : stage'[k] = stage[k] /\ up'[k] = up[k]
      /\ stage'[j] # "new" /\ up'[j] = up[j]
  BY <1>1, <1>3, <1>4 DEF BootTypeOK, Go
<1>6. /\ \A k \in Jobs \ {j} : jobdir'[k] = jobdir[k]
      /\ jobdir'[j].dir /\ jobdir'[j].beat = jobdir[j].beat
  <2>1. CASE Begin(j)
    BY <1>1, <2>1 DEF BootTypeOK, Begin
  <2>2. CASE WriteResult(j)
    <3>1. PICK verdict \in {"ok", "failed"} : jobdir' = [jobdir EXCEPT ![j].result = verdict]
      BY <2>2 DEF WriteResult
    <3>2. QED
      BY <1>1, <1>3, <3>1 DEF BootTypeOK, Heart
  <2>3. CASE ~(Begin(j) \/ WriteResult(j))
    <3>1. jobdir' = jobdir
      BY <2>3 DEF Code, Glance, Settle, EnterTree, FillTree, EnterEnv, FillEnv, Stamp, Unlock
    <3>2. QED
      BY <1>1, <1>3, <3>1 DEF Heart
  <2>4. QED
    BY <2>1, <2>2, <2>3
<1>7. QED
  BY <1>2, <1>5, <1>6, LivingStep

\* The launch, the first heartbeat, the exit.
LEMMA EdgeStep ==
  ASSUME LostInv, BootTypeOK', NEW j \in Jobs, Submit(j) \/ StartRun(j) \/ Exit(j) \/ Fade(j)
  PROVE  LostInv'
<1>1. BootTypeOK /\ Heart(j) /\ Watched \in Jobs /\ Seen
  BY BootParameters DEF LostInv
<1>2. client' = client /\ settings' = settings
  BY DEF Submit, StartRun, Exit, Fade
<1>3. CASE Submit(j)
  <2>1. /\ stage[j] = "new" /\ stage' = [stage EXCEPT ![j] = "launched"]
        /\ up' = [up EXCEPT ![j] = TRUE] /\ jobdir' = [jobdir EXCEPT ![j].dir = TRUE]
        /\ beating' = beating
    BY <1>3 DEF Submit
  <2>2. \A k \in Jobs : Heart(k)'
    BY <1>1, <2>1 DEF LostInv, BootTypeOK, Heart
  <2>3. Seen'
    BY <1>1, <1>2, <2>1 DEF BootTypeOK, Seen, Down, client, settings
  <2>4. QED
    BY <2>2, <2>3 DEF LostInv
<1>4. CASE StartRun(j)
  <2>1. /\ up[j] /\ stage' = stage /\ up' = up /\ jobdir' = [jobdir EXCEPT ![j].beat = "fresh"]
        /\ beating' = [beating EXCEPT ![j] = TRUE]
    BY <1>4 DEF StartRun, At, script
  <2>2. \A k \in Jobs : Heart(k)'
    BY <1>1, <2>1 DEF LostInv, BootTypeOK, Heart
  <2>3. Seen'
    BY <1>1, <1>2, <2>1 DEF BootTypeOK, Seen, Down, client, settings
  <2>4. QED
    BY <2>2, <2>3 DEF LostInv
<1>5. CASE Exit(j)
  <2>1. /\ up[j] /\ stage' = [stage EXCEPT ![j] = "over"] /\ up' = [up EXCEPT ![j] = FALSE]
        /\ jobdir' = jobdir /\ beating' = [beating EXCEPT ![j] = FALSE]
    BY <1>5 DEF Exit, At, Trap
  <2>2. \A k \in Jobs : Heart(k)'
    BY <1>1, <2>1 DEF LostInv, BootTypeOK, Heart
  <2>3. Seen'
    BY <1>1, <1>2, <2>1 DEF BootTypeOK, Seen, Down, client, settings
  <2>4. QED
    BY <2>2, <2>3 DEF LostInv
<1>6. CASE Fade(j)
  <2>1. /\ jobdir[j].beat = "fresh" /\ ~beating[j] /\ stage' = stage /\ up' = up
        /\ jobdir' = [jobdir EXCEPT ![j].beat = "old"] /\ beating' = beating
    BY <1>6 DEF Fade, script
  <2>2. ~up[j]
    BY <1>1, <2>1 DEF Heart
  <2>3. \A k \in Jobs : Heart(k)'
    BY <1>1, <2>1, <2>2 DEF LostInv, BootTypeOK, Heart
  <2>4. Seen'
    BY <1>1, <1>2, <2>1 DEF BootTypeOK, Seen, Down, client, settings
  <2>5. QED
    BY <2>3, <2>4 DEF LostInv
<1>7. QED
  BY <1>3, <1>4, <1>5, <1>6

LEMMA LastStep == ASSUME LostInv, BootTypeOK', Death PROVE LostInv'
<1>1. BootTypeOK /\ Watched \in Jobs /\ Seen
  BY BootParameters DEF LostInv
<1>2. stage' = stage /\ jobdir' = jobdir /\ client' = client /\ settings' = settings
  BY DEF Death, Reboot, Signal, Killed
<1>3. \A k \in Jobs : up'[k] => up[k] /\ beating'[k] = beating[k]
  <2>1. CASE Reboot
    BY <2>1 DEF Reboot
  <2>2. ASSUME NEW j \in Jobs, Signal(j) \/ Killed(j)
        PROVE  \A k \in Jobs : up'[k] => up[k] /\ beating'[k] = beating[k]
    BY <1>1, <2>2 DEF BootTypeOK, Signal, Killed
  <2>3. QED
    BY <2>1, <2>2 DEF Death
<1>4. \A k \in Jobs : Heart(k)'
  BY <1>2, <1>3 DEF LostInv, Heart
<1>5. Seen'
  BY <1>1, <1>2, <1>3 DEF Seen, Down, client, settings
<1>6. QED
  BY <1>4, <1>5 DEF LostInv

LEMMA LookStep == ASSUME LostInv, BootTypeOK', ObserveStatus PROVE LostInv'
<1>1. Watched \in Jobs /\ Seen /\ Heart(Watched) /\ via \in {"local", "ssh"}
  BY BootParameters, Set DEF LostInv, BootTypeOK
<1>2. UNCHANGED <<settings, stage, up, jobdir, beating>>
  BY DEF ObserveStatus, ReadStatus, LookPid, LookResult, Frame, script
<1>3. \A k \in Jobs : Heart(k)'
  BY <1>2 DEF LostInv, Heart
<1>4. Seen'
  <2>1. CASE ReadStatus
    <3>1. CASE Report(jobdir[Watched]) \in {"starting", "running"}
      <4>1. look' = "pid" /\ told' = told /\ stage[Watched] # "new" /\ told = "alive"
        BY <2>1, <3>1 DEF ReadStatus
      <4>2. QED
        BY <1>2, <4>1 DEF Seen
    <3>2. CASE Report(jobdir[Watched]) \notin {"starting", "running"}
      <4>1. told' = Report(jobdir[Watched]) /\ look' = "none" /\ stage[Watched] # "new"
        BY <2>1, <3>2 DEF ReadStatus, Reported
      <4>2. Report(jobdir[Watched]) = "lost" => Down /\ jobdir[Watched].result = "none"
        BY <1>1, <4>1 DEF Report, Heart, Down
      <4>3. QED
        BY <1>2, <4>1, <4>2 DEF Seen, Down
    <3>3. QED
      BY <3>1, <3>2
  <2>2. CASE LookPid
    <3>1. CASE up[Watched]
      <4>1. told' = "alive" /\ look' = "none"
        BY <2>2, <3>1 DEF LookPid, Reported
      <4>2. QED
        BY <4>1 DEF Seen
    <3>2. CASE ~up[Watched] /\ via \in SecondLook
      <4>1. look' = "result" /\ told' = told /\ look = "pid"
        BY <2>2, <3>2 DEF LookPid
      <4>2. QED
        BY <1>1, <1>2, <3>2, <4>1 DEF Seen, Down, settings
    <3>3. CASE ~up[Watched] /\ via \notin SecondLook
      <4>1. told' = "lost" /\ look' = "none" /\ look = "pid"
        BY <2>2, <3>3 DEF LookPid, Reported
      <4>2. via = "ssh"
        BY <1>1, <3>3 DEF SecondLook
      <4>3. QED
        BY <1>1, <1>2, <3>3, <4>1, <4>2 DEF Seen, Down, settings
    <3>4. QED
      BY <3>1, <3>2, <3>3
  <2>3. CASE LookResult
    <3>1. /\ look = "result" /\ look' = "none"
          /\ told' = "lost" => jobdir[Watched].result = "none"
      BY <2>3 DEF LookResult, Reported
    <3>2. QED
      BY <1>1, <1>2, <3>1 DEF Seen, Down
  <2>4. QED
    BY <2>1, <2>2, <2>3 DEF ObserveStatus
<1>5. QED
  BY <1>3, <1>4 DEF LostInv

\* A job called LOST is dead for good, and left no result unless it was read over
\* ssh: derive_status and the adapters' look at the process.
THEOREM LostCorrect == BootSpec => []LostIsDeath
<1>1. BootInit => LostInv
  <2> SUFFICES ASSUME BootInit PROVE LostInv
    OBVIOUS
  <2>1. \A j \in Jobs : Heart(j)
    BY DEF BootInit, Heart, NoDir
  <2>2. Seen
    BY DEF BootInit, Seen
  <2>3. QED
    BY <2>1, <2>2, InitTyped DEF LostInv
<1>2. LostInv /\ [BootNext]_bootVars => LostInv'
  <2> SUFFICES ASSUME LostInv, [BootNext]_bootVars PROVE LostInv'
    OBVIOUS
  <2>1. BootTypeOK'
    BY StepTyped DEF LostInv
  <2>2. CASE \/ \E j \in Jobs : TakeLock(j) \/ Condemn(j) \/ Rob(j) \/ Overwait(j)
             \/ \E j \in Jobs, d \in Locks : Refresh(j, d)
             \/ \E d \in Locks : Age(d)
             \/ AllEnded \/ UNCHANGED bootVars
    <3>1. UNCHANGED <<settings, stage, up, jobdir, beating, client>>
      BY <2>2 DEF TakeLock, Condemn, Rob, Overwait, Tires, Refresh, Age, AllEnded, bootVars, script, shared
    <3>2. \A k \in Jobs : Heart(k)'
      BY <3>1 DEF LostInv, Heart
    <3>3. Seen'
      BY <3>1 DEF LostInv, Seen, Down, client, settings
    <3>4. QED
      BY <2>1, <3>2, <3>3 DEF LostInv
  <2>3. QED
    BY <2>1, <2>2, WalkStep, EdgeStep, LastStep, LookStep DEF BootNext, Script
<1>3. LostInv => LostIsDeath
  BY DEF LostInv, Seen, Down, LostIsDeath
<1>4. QED
  BY <1>1, <1>2, <1>3, PTL DEF BootSpec

----------------------------------------------------------------------------
(***************************************************************************)
(* The durable log of a job, for any number of attempts, lines, readers,   *)
(* broken connections and crashes.                                         *)
(***************************************************************************)

----------------------------------------------------------------------------
(***************************************************************************)
(* The invariant.                                                          *)
(***************************************************************************)
Tasks == {"none", "spawned", "reading", "backoff", "done"}
Item == [kind : {"data", "dropped", "end"}, bytes : Seq(Units)]
Follower ==
    [at : {"idle", "replay", "lastreplay", "file", "live", "ending", "dropped", "over"},
     from : Nat, pos : Nat, base : Nat, got : Seq(Units), queue : Seq(Item), squeezed : BOOLEAN]

Typed ==
    /\ attempt \in 1..Attempts /\ phase \in {"running", "waiting", "finished"}
    /\ written \in 0..Lines /\ worker \in {"alive", "dead"}
    /\ file \in Seq(Units)
    /\ side \in [att : 0..Attempts, offset : 0..(Lines * Width), pos : Nat]
    /\ stream \in [task : Tasks, att : Nat, exited : BOOLEAN, pos : Nat]
    /\ cuts \in Nat

FolTyped ==
    /\ fol \in [Followers -> Follower]
    /\ \A f \in Followers : Len(fol[f].queue) <= QueueSize

\* Another attempt comes after a death only, and not beyond the bound.
Mortal == (worker = "dead" => attempt < Attempts) /\ (phase = "waiting" => worker = "dead")

\* What a connection knows of the disk.
Connected ==
    /\ side.att <= attempt /\ side.pos <= Len(file)
    /\ stream.task \in {"reading", "backoff", "done"} => side.att = attempt
    /\ stream.task \in {"reading", "done"} => stream.pos = Len(file) /\ side.pos = Len(file)

\* The whole file is in order, what lies beyond the resume point included.
Ordered ==
    \A i, j \in DOMAIN file :
        i < j /\ file[i][2] > 0 /\ file[j][2] > 0 => Before(file[i], file[j])
Gapless ==
    cuts = 0 => \A i \in DOMAIN file :
        file[i][2] > 1 => i > 1 /\ file[i - 1] = <<file[i][1], file[i][2] - 1>>

\* Below the resume point nothing is later than it says.
Bounded ==
    \A i \in 1..side.pos :
        file[i][1] <= side.att /\ (file[i][1] = side.att => file[i][2] <= side.offset)
LastRead == cuts = 0 /\ side.offset > 0 => side.pos > 0 /\ file[side.pos] = <<side.att, side.offset>>

\* Of an attempt whose log was not begun there are headers at most.
Recent ==
    \A i \in DOMAIN file :
        file[i][1] <= attempt /\ (side.att < attempt /\ file[i][2] # 0 => file[i][1] < attempt)

FileInv == Ordered /\ Gapless /\ Bounded /\ LastRead /\ Recent /\ ResumeHonest

StreamInv == Typed /\ FolTyped /\ Mortal /\ Connected /\ FileInv

LEMMA Parameters ==
  /\ Attempts \in Nat \ {0} /\ Lines \in Nat \ {0} /\ Width \in Nat \ {0} /\ ReadChunk \in Nat \ {0}
  /\ QueueSize \in Nat /\ QueueSize >= 2
  /\ Lines * Width \in Nat
BY SizeAssumption

----------------------------------------------------------------------------
(***************************************************************************)
(* Lines and chunks.                                                       *)
(***************************************************************************)
\* The rest of a line that was begun ends with a line that was written.
LEMMA LineEndFacts ==
  ASSUME NEW o \in Nat, NEW w \in Nat, w <= Lines, o < w * Width
  PROVE  LineEnd(o) \in Nat /\ o < LineEnd(o) /\ LineEnd(o) <= Lines * Width
<1> DEFINE q == o \div Width
           r == o % Width
<1>1. Width \in Nat /\ Width > 0 /\ Lines \in Nat
  BY Parameters
<1>2. q \in Nat /\ r \in 0..(Width - 1) /\ o = q * Width + r
  BY <1>1
<1>3. q < w
  <2>1. SUFFICES ASSUME q >= w PROVE FALSE
    BY <1>2
  <2>2. q * Width >= w * Width
    BY <1>1, <1>2, <2>1
  <2>3. QED
    BY <1>1, <1>2, <2>2
<1>4. (q + 1) * Width <= Lines * Width
  <2>1. q + 1 <= Lines
    BY <1>1, <1>2, <1>3
  <2>2. QED
    BY <1>1, <1>2, <2>1
<1>5. (q + 1) * Width = q * Width + Width
  BY <1>1, <1>2
<1>6. LineEnd(o) = (q + 1) * Width
  BY DEF LineEnd
<1>7. QED
  BY <1>1, <1>2, <1>4, <1>5, <1>6

\* What a connection adds to the file: the bytes at the offset, of which a cut
\* may have put a newline in the last one's place.
Piece(chunk) ==
    /\ chunk \in Seq(Units) /\ side.offset + Len(chunk) <= Lines * Width
    /\ \A k \in 1..Len(chunk) :
           \/ chunk[k] = <<attempt, side.offset + k>>
           \/ chunk[k] = <<attempt, -1>> /\ k = Len(chunk) /\ cuts' # 0

LEMMA RestPiece ==
  ASSUME Typed, side.att = attempt, Available,
         NEW n \in 1..(LineEnd(side.offset) - side.offset)
  PROVE  Piece(Rest(side.offset, side.offset + n))
<1> DEFINE o == side.offset
           rest == Rest(o, o + n)
<1>1. o \in Nat /\ attempt \in 1..Attempts /\ written \in Nat /\ written <= Lines
  BY Parameters DEF Typed
<1>2. LineEnd(o) \in Nat /\ o < LineEnd(o) /\ LineEnd(o) <= Lines * Width
  BY <1>1, LineEndFacts DEF Available
<1>3. rest = [k \in 1..n |-> <<attempt, o + k>>]
  BY <1>1, <1>2 DEF Rest
<1>4. n \in Nat /\ o + n <= Lines * Width
  BY <1>1, <1>2, Parameters
<1>5. \A k \in 1..n : <<attempt, o + k>> \in Units
  BY <1>1, <1>4, Parameters DEF Units
<1>6. rest \in Seq(Units) /\ Len(rest) = n
  BY <1>3, <1>4, <1>5
<1>7. QED
  BY <1>3, <1>4, <1>6 DEF Piece

LEMMA ChunkPiece ==
  ASSUME Typed, side.att = attempt, Available
  PROVE  Piece(Chunk)
<1> DEFINE n == LineEnd(side.offset) - side.offset
<1>1. side.offset \in Nat /\ written \in Nat /\ written <= Lines
  BY Parameters DEF Typed
<1>2. LineEnd(side.offset) \in Nat /\ side.offset < LineEnd(side.offset)
  BY <1>1, LineEndFacts DEF Available
<1>3. n \in 1..n /\ side.offset + n = LineEnd(side.offset)
  BY <1>1, <1>2
<1>4. QED
  BY <1>3, RestPiece DEF Chunk

LEMMA CutPiece ==
  ASSUME Typed, side.att = attempt, Available, cuts' = cuts + 1,
         NEW n \in 1..(LineEnd(side.offset) - side.offset - 1)
  PROVE  Piece(CutChunk(n))
<1> DEFINE o == side.offset
           rest == Rest(o, o + n)
<1>1. o \in Nat /\ attempt \in 1..Attempts /\ written \in Nat /\ written <= Lines
  BY Parameters DEF Typed
<1>2. LineEnd(o) \in Nat /\ o < LineEnd(o) /\ LineEnd(o) <= Lines * Width
  BY <1>1, LineEndFacts DEF Available
<1>3. n \in 1..(LineEnd(o) - o) /\ n \in Nat
  BY <1>1, <1>2
<1>4. Piece(rest)
  BY <1>3, RestPiece
<1>5. <<attempt, -1>> \in Units
  BY <1>1, Parameters DEF Units
<1>6. Len(rest) = n
  BY <1>1, <1>3, <1>4 DEF Rest, Piece
<1>7. CutChunk(n) \in Seq(Units) /\ Len(CutChunk(n)) = n + 1 /\ CutChunk(n)[n + 1] = <<attempt, -1>>
      /\ \A k \in 1..n : CutChunk(n)[k] = rest[k]
  BY <1>3, <1>4, <1>5, <1>6, AppendProperties DEF CutChunk, Piece
<1>8. \A k \in 1..n : rest[k] = <<attempt, o + k>>
  BY <1>1, <1>3 DEF Rest
<1>9. o + (n + 1) <= Lines * Width /\ cuts' # 0
  BY <1>1, <1>2, <1>3, Parameters DEF Typed
<1>10. QED
  BY <1>3, <1>7, <1>8, <1>9 DEF Piece

----------------------------------------------------------------------------
(***************************************************************************)
(* What the writes of the stream task do to the file and its resume point. *)
(***************************************************************************)
\* A header goes to the end of the file; the resume point follows it, or a crash
\* prevents that.
LEMMA HeadWrite ==
  ASSUME Typed, Connected, FileInv, side.att # attempt, file' = Headed, attempt' = attempt,
         cuts' = cuts,
         side' = side \/ side' = [att |-> attempt, offset |-> 0, pos |-> Len(Headed)]
  PROVE  FileInv' /\ file' \in Seq(Units) /\ side'.pos <= Len(file') /\ Len(file') = Len(file) + 1
<1> DEFINE n == Len(file)
<1>1. /\ attempt \in 1..Attempts /\ side.att \in Nat /\ side.att < attempt /\ side.pos \in Nat
      /\ side.pos <= n /\ side.offset \in Nat
  BY Parameters DEF Typed, Connected
<1>2. <<attempt, 0>> \in Units /\ file \in Seq(Units)
  BY <1>1, Parameters DEF Units, Typed
<1>3. /\ file' \in Seq(Units) /\ Len(file') = n + 1 /\ n \in Nat
      /\ \A i \in 1..n : file'[i] = file[i]
      /\ file'[n + 1] = <<attempt, 0>>
  BY <1>2, AppendProperties, LenProperties DEF Headed, Header
<1>4. DOMAIN file = 1..n /\ DOMAIN file' = 1..(n + 1)
  BY <1>2, <1>3, LenProperties
<1>5. \A i \in 1..n : file[i] \in Units /\ file[i][1] \in Nat /\ file[i][2] \in Int
  BY <1>2, ElementOfSeq DEF Units
<1>6. Ordered' /\ Gapless'
  <2>1. Ordered'
    <3> SUFFICES ASSUME NEW i \in 1..(n + 1), NEW j \in 1..(n + 1), i < j,
                        file'[i][2] > 0, file'[j][2] > 0
                 PROVE  Before(file'[i], file'[j])
      BY <1>4 DEF Ordered, Before
    <3>1. file'[n + 1][2] = 0
      BY <1>3
    <3>2. i \in 1..n /\ j \in 1..n
      BY <1>3, <3>1
    <3>3. QED
      BY <1>3, <1>4, <3>2 DEF FileInv, Ordered
  <2>2. Gapless'
    <3> SUFFICES ASSUME cuts = 0, NEW i \in 1..(n + 1), file'[i][2] > 1
                 PROVE  i > 1 /\ file'[i - 1] = <<file'[i][1], file'[i][2] - 1>>
      BY <1>4 DEF Gapless
    <3>1. i \in 1..n /\ file'[i] = file[i]
      BY <1>3
    <3>2. i > 1 /\ file[i - 1] = <<file[i][1], file[i][2] - 1>>
      BY <1>4, <3>1 DEF FileInv, Gapless
    <3>3. QED
      BY <1>3, <3>1, <3>2
  <2>3. QED
    BY <2>1, <2>2
<1>7. \A i \in 1..n : file[i][1] <= attempt /\ (file[i][2] # 0 => file[i][1] < attempt)
  BY <1>1, <1>4 DEF FileInv, Recent
<1>8. CASE side' = side
  <2>1. Bounded' /\ LastRead'
    BY <1>1, <1>3, <1>8, SMTT(40) DEF FileInv, Bounded, LastRead
  <2>2. Recent'
    BY <1>1, <1>3, <1>4, <1>7, <1>8 DEF Recent
  <2>3. ResumeHonest'
    <3> DEFINE first == side.pos - side.offset
    <3> SUFFICES ASSUME side.att # 0
                 PROVE  /\ first > 0 /\ file'[first] = <<side.att, 0>>
                        /\ \A i \in first + 1 .. side.pos :
                               file'[i][1] = side.att /\ file'[i][2] # 0
                        /\ \A i \in 1 .. first - 1 : file'[i][1] < side.att \/ file'[i][2] = 0
      BY <1>8 DEF ResumeHonest
    <3>1. /\ first > 0 /\ file[first] = <<side.att, 0>>
          /\ \A i \in first + 1 .. side.pos : file[i][1] = side.att /\ file[i][2] # 0
          /\ \A i \in 1 .. first - 1 : file[i][1] < side.att \/ file[i][2] = 0
      BY DEF FileInv, ResumeHonest
    <3>2. first \in 1..n
      BY <1>1, <3>1
    <3>3. file'[first] = <<side.att, 0>>
      BY <1>3, <3>1, <3>2
    <3>4. ASSUME NEW i \in first + 1 .. side.pos PROVE file'[i][1] = side.att /\ file'[i][2] # 0
      <4>1. i \in 1..n
        BY <1>1, <1>3, <3>2
      <4>2. QED
        BY <1>3, <3>1, <4>1
    <3>5. ASSUME NEW i \in 1 .. first - 1 PROVE file'[i][1] < side.att \/ file'[i][2] = 0
      <4>1. i \in 1..n
        BY <1>1, <1>3, <3>2
      <4>2. QED
        BY <1>3, <3>1, <4>1
    <3>6. QED
      BY <3>1, <3>3, <3>4, <3>5
  <2>4. QED
    BY <1>1, <1>3, <1>6, <1>8, <2>1, <2>2, <2>3 DEF FileInv
<1>9. CASE side' = [att |-> attempt, offset |-> 0, pos |-> Len(Headed)]
  <2>1. side'.att = attempt /\ side'.offset = 0 /\ side'.pos = n + 1
    BY <1>3, <1>9
  <2>2. Bounded'
    <3> SUFFICES ASSUME NEW i \in 1..(n + 1)
                 PROVE  file'[i][1] <= attempt /\ (file'[i][1] = attempt => file'[i][2] <= 0)
      BY <2>1 DEF Bounded
    <3>1. CASE i = n + 1
      BY <1>1, <1>3, <3>1
    <3>2. CASE i \in 1..n
      BY <1>1, <1>3, <1>5, <1>7, <3>2, SMTT(40)
    <3>3. QED
      BY <3>1, <3>2
  <2>3. LastRead' /\ Recent'
    BY <1>1, <1>3, <1>4, <1>7, <2>1 DEF LastRead, Recent
  <2>4. ResumeHonest'
    BY <1>1, <1>3, <1>7, <2>1 DEF ResumeHonest
  <2>5. QED
    BY <1>3, <1>6, <2>1, <2>2, <2>3, <2>4 DEF FileInv
<1>10. QED
  BY <1>8, <1>9

\* The file is cut back to the resume point.
LEMMA TruncateWrite ==
  ASSUME Typed, Connected, FileInv, file' = Truncated, UNCHANGED <<attempt, side, cuts>>
  PROVE  FileInv' /\ file' \in Seq(Units) /\ Len(file') = side.pos
<1> DEFINE p == side.pos
<1>1. /\ file \in Seq(Units) /\ p \in Nat /\ p <= Len(file) /\ Len(file) \in Nat
      /\ side.offset \in Nat /\ side.att \in Nat
  BY LenProperties, Parameters DEF Typed, Connected
<1>2. \A i \in 1..p : file[i] \in Units
  BY <1>1, ElementOfSeq
<1>3. file' \in Seq(Units) /\ Len(file') = p /\ \A i \in 1..p : file'[i] = file[i]
  BY <1>1, <1>2, SubSeqProperties DEF Truncated
<1>4. DOMAIN file = 1..Len(file) /\ DOMAIN file' = 1..p
  BY <1>1, <1>3, LenProperties
<1>5. Ordered' /\ Recent'
  BY <1>1, <1>3, <1>4 DEF FileInv, Ordered, Recent, Before
<1>6. Gapless'
  <2> SUFFICES ASSUME cuts = 0, NEW i \in 1..p, file'[i][2] > 1
               PROVE  i > 1 /\ file'[i - 1] = <<file'[i][1], file'[i][2] - 1>>
    BY <1>4 DEF Gapless
  <2>1. i \in 1..Len(file) /\ file'[i] = file[i]
    BY <1>1, <1>3
  <2>2. i > 1 /\ file[i - 1] = <<file[i][1], file[i][2] - 1>>
    BY <1>4, <2>1 DEF FileInv, Gapless
  <2>3. file'[i - 1] = file[i - 1]
    BY <1>1, <1>3, <2>2
  <2>4. QED
    BY <2>1, <2>2, <2>3
<1>7. Bounded' /\ LastRead'
  BY <1>1, <1>3 DEF FileInv, Bounded, LastRead
<1>8. ResumeHonest'
  <2> DEFINE first == p - side.offset
  <2> SUFFICES ASSUME side.att # 0
               PROVE  /\ first > 0 /\ file'[first] = <<side.att, 0>>
                      /\ \A i \in first + 1 .. p : file'[i][1] = side.att /\ file'[i][2] # 0
                      /\ \A i \in 1 .. first - 1 : file'[i][1] < side.att \/ file'[i][2] = 0
    BY DEF ResumeHonest
  <2>1. /\ first > 0 /\ file[first] = <<side.att, 0>>
        /\ \A i \in first + 1 .. p : file[i][1] = side.att /\ file[i][2] # 0
        /\ \A i \in 1 .. first - 1 : file[i][1] < side.att \/ file[i][2] = 0
    BY DEF FileInv, ResumeHonest
  <2>2. /\ first \in 1..p
        /\ \A i \in first + 1 .. p : i \in 1..p
        /\ \A i \in 1 .. first - 1 : i \in 1..p
    BY <1>1, <2>1, SMTT(40)
  <2>3. QED
    BY <1>3, <2>1, <2>2
<1>9. QED
  BY <1>3, <1>5, <1>6, <1>7, <1>8 DEF FileInv

\* A piece goes to the end of the file of a connection; the resume point follows
\* it, or a crash prevents that.
LEMMA PieceWrite ==
  ASSUME Typed, Connected, FileInv, side.att = attempt, side.pos = Len(file),
         NEW chunk, Piece(chunk), file' = Appended(chunk), attempt' = attempt,
         cuts' = 0 => cuts = 0, side' = side \/ side' = Saved(chunk)
  PROVE  /\ FileInv' /\ file' \in Seq(Units) /\ Len(file') = Len(file) + Len(chunk)
         /\ side' \in [att : 0..Attempts, offset : 0..(Lines * Width), pos : Nat]
         /\ side'.att = attempt /\ side'.pos <= Len(file')
         /\ (side' = Saved(chunk) => side'.pos = Len(file'))
<1> DEFINE n == Len(file)
           m == Len(chunk)
           o == side.offset
<1>1. /\ file \in Seq(Units) /\ chunk \in Seq(Units) /\ n \in Nat /\ m \in Nat /\ o \in Nat
      /\ attempt \in Nat /\ attempt > 0
  BY LenProperties, Parameters DEF Typed, Piece
<1>2. /\ file' \in Seq(Units) /\ Len(file') = n + m
      /\ \A i \in 1..n : file'[i] = file[i]
      /\ \A k \in 1..m : file'[n + k] = chunk[k]
  BY <1>1, ConcatProperties DEF Appended
<1>3. DOMAIN file = 1..n /\ DOMAIN file' = 1..(n + m)
  BY <1>1, <1>2, LenProperties
<1>4. \A k \in 1..m :
          /\ file'[n + k][1] = attempt /\ file'[n + k][2] # 0 /\ file'[n + k][2] \in Int
          /\ \/ file'[n + k] = <<attempt, o + k>>
             \/ file'[n + k][2] = -1 /\ k = m /\ cuts' # 0
  <2> SUFFICES ASSUME NEW k \in 1..m
               PROVE  /\ file'[n + k][1] = attempt /\ file'[n + k][2] # 0
                      /\ file'[n + k][2] \in Int
                      /\ \/ file'[n + k] = <<attempt, o + k>>
                         \/ file'[n + k][2] = -1 /\ k = m /\ cuts' # 0
    OBVIOUS
  <2>1. CASE chunk[k] = <<attempt, o + k>>
    BY <1>1, <1>2, <2>1, SMTT(40)
  <2>2. CASE chunk[k] = <<attempt, -1>> /\ k = m /\ cuts' # 0
    BY <1>1, <1>2, <2>2
  <2>3. QED
    BY <2>1, <2>2 DEF Piece
<1>5. \A i \in 1..(n + m) : i \in 1..n \/ \E k \in 1..m : i = n + k
  <2> SUFFICES ASSUME NEW i \in 1..(n + m), i \notin 1..n PROVE \E k \in 1..m : i = n + k
    OBVIOUS
  <2>1. i - n \in 1..m /\ i = n + (i - n)
    BY <1>1
  <2>2. QED
    BY <2>1
<1>6. \A i \in 1..n : /\ file[i][1] \in Nat /\ file[i][2] \in Int /\ file[i][1] <= attempt
                      /\ (file[i][1] = attempt => file[i][2] <= o)
  <2>1. \A i \in 1..n : file[i] \in Units
    BY <1>1, ElementOfSeq
  <2>2. QED
    BY <2>1 DEF Units, FileInv, Bounded
<1>past. \A i \in 1..(n + m) : file'[i][1] <= attempt
  <2>1. \A i \in 1..n : file'[i][1] <= attempt
    BY <1>2, <1>6
  <2>2. \A k \in 1..m : file'[n + k][1] <= attempt
    BY <1>1, <1>4
  <2>3. QED
    BY <1>5, <2>1, <2>2
<1>7. Ordered'
  <2> SUFFICES ASSUME NEW i \in 1..(n + m), NEW j \in 1..(n + m), i < j,
                      file'[i][2] > 0, file'[j][2] > 0
               PROVE  Before(file'[i], file'[j])
    BY <1>3 DEF Ordered, Before
  <2>1. CASE j \in 1..n
    <3>1. i \in 1..n
      BY <1>1, <2>1
    <3>2. QED
      BY <1>2, <1>3, <2>1, <3>1 DEF FileInv, Ordered
  <2>2. ASSUME NEW k \in 1..m, j = n + k PROVE Before(file'[i], file'[j])
    <3>1. file'[j] = <<attempt, o + k>>
      BY <1>4, <2>2
    <3>2. CASE i \in 1..n
      <4>1. file'[i] = file[i] /\ file[i][2] \in Int /\ file[i][1] \in Nat
        BY <1>2, <1>6, <3>2
      <4>2. file[i][1] < attempt \/ (file[i][1] = attempt /\ file[i][2] < o + k)
        <5>1. file[i][1] <= attempt /\ (file[i][1] = attempt => file[i][2] <= o)
          BY <1>6, <3>2
        <5>2. o < o + k /\ o + k \in Int
          BY <1>1, <2>2
        <5>3. QED
          BY <1>1, <1>6, <3>2, <5>1, <5>2, SMTT(40)
      <4>3. QED
        BY <3>1, <4>1, <4>2 DEF Before
    <3>3. ASSUME NEW l \in 1..m, i = n + l PROVE Before(file'[i], file'[j])
      <4>1. file'[i] = <<attempt, o + l>>
        BY <1>4, <3>3, SMTT(40)
      <4>2. l < k
        BY <1>1, <2>2, <3>3
      <4>3. QED
        BY <1>1, <3>1, <4>1, <4>2 DEF Before
    <3>4. QED
      BY <1>5, <3>2, <3>3
  <2>3. QED
    BY <1>5, <2>1, <2>2
<1>8. Gapless'
  <2> SUFFICES ASSUME cuts' = 0, NEW i \in 1..(n + m), file'[i][2] > 1
               PROVE  i > 1 /\ file'[i - 1] = <<file'[i][1], file'[i][2] - 1>>
    BY <1>3 DEF Gapless
  <2>1. CASE i \in 1..n
    <3>1. i > 1 /\ file[i - 1] = <<file[i][1], file[i][2] - 1>>
      BY <1>2, <1>3, <2>1 DEF FileInv, Gapless
    <3>2. i - 1 \in 1..n
      BY <1>1, <2>1, <3>1
    <3>3. QED
      BY <1>2, <2>1, <3>1, <3>2
  <2>2. ASSUME NEW k \in 1..m, i = n + k
        PROVE  i > 1 /\ file'[i - 1] = <<file'[i][1], file'[i][2] - 1>>
    <3>1. file'[i] = <<attempt, o + k>>
      BY <1>4, <2>2
    <3>2. CASE k = 1
      <4>1. o > 0
        BY <1>1, <3>1, <3>2
      <4>2. n > 0 /\ file[n] = <<attempt, o>>
        BY <4>1 DEF FileInv, LastRead
      <4>3. i - 1 = n /\ n \in 1..n
        BY <1>1, <2>2, <3>2, <4>2
      <4>4. file'[i - 1] = <<attempt, o>>
        BY <1>2, <4>2, <4>3
      <4>5. file'[i][1] = attempt /\ file'[i][2] - 1 = o
        BY <1>1, <3>1, <3>2
      <4>6. i > 1
        BY <1>1, <2>2, <3>2, <4>2
      <4>7. QED
        BY <4>4, <4>5, <4>6
    <3>3. CASE k > 1
      <4>1. k - 1 \in 1..m /\ i - 1 = n + (k - 1) /\ k - 1 # m /\ i > 1
        BY <1>1, <2>2, <3>3
      <4>2. file'[i - 1] = <<attempt, o + (k - 1)>>
        BY <1>4, <4>1
      <4>3. file'[i][1] = attempt /\ file'[i][2] - 1 = o + (k - 1)
        BY <1>1, <3>1
      <4>4. QED
        BY <4>1, <4>2, <4>3
    <3>4. QED
      BY <3>2, <3>3
  <2>3. QED
    BY <1>5, <2>1, <2>2
<1>9. CASE side' = side
  <2>1. Bounded' /\ LastRead'
    <3>1. Bounded'
      BY <1>2, <1>9 DEF FileInv, Bounded
    <3>2. LastRead'
      <4> SUFFICES ASSUME cuts' = 0, o > 0 PROVE n > 0 /\ file'[n] = <<side.att, o>>
        BY <1>9 DEF LastRead
      <4>1. n > 0 /\ file[n] = <<side.att, o>>
        BY DEF FileInv, LastRead
      <4>2. n \in 1..n
        BY <1>1, <4>1
      <4>3. QED
        BY <1>2, <4>1, <4>2
    <3>3. QED
      BY <3>1, <3>2
  <2>2. Recent'
    <3> SUFFICES ASSUME NEW i \in 1..(n + m) PROVE file'[i][1] <= attempt
      BY <1>1, <1>3, <1>9 DEF Recent
    <3>1. QED
      BY <1>past
  <2>3. ResumeHonest'
    <3> DEFINE first == n - o
    <3>1. /\ first > 0 /\ file[first] = <<side.att, 0>>
          /\ \A i \in first + 1 .. n : file[i][1] = side.att /\ file[i][2] # 0
          /\ \A i \in 1 .. first - 1 : file[i][1] < side.att \/ file[i][2] = 0
      BY <1>1 DEF FileInv, ResumeHonest
    <3>2. /\ first \in 1..n
          /\ \A i \in first + 1 .. n : i \in 1..n
          /\ \A i \in 1 .. first - 1 : i \in 1..n
      BY <1>1, <3>1, SMTT(40)
    <3>3. /\ file'[first] = <<side.att, 0>>
          /\ \A i \in first + 1 .. n : file'[i][1] = side.att /\ file'[i][2] # 0
          /\ \A i \in 1 .. first - 1 : file'[i][1] < side.att \/ file'[i][2] = 0
      BY <1>2, <3>1, <3>2
    <3>4. QED
      BY <1>9, <3>1, <3>3 DEF ResumeHonest
  <2>4. QED
    <3>1. FileInv'
      BY <1>7, <1>8, <2>1, <2>2, <2>3 DEF FileInv
    <3>2. side'.pos = n /\ n <= n + m /\ side'.att = attempt
      BY <1>1, <1>9
    <3>3. side' = Saved(chunk) => side'.pos = Len(file')
      BY <1>9 DEF Saved, Typed
    <3>4. QED
      BY <1>1, <1>2, <1>9, <3>1, <3>2, <3>3 DEF Typed
<1>10. CASE side' = Saved(chunk)
  <2>1. /\ side'.att = attempt /\ side'.offset = o + m /\ side'.pos = n + m
        /\ side' \in [att : 0..Attempts, offset : 0..(Lines * Width), pos : Nat]
    <3>1. side \in [att : 0..Attempts, offset : 0..(Lines * Width), pos : Nat]
      BY DEF Typed
    <3>2. o + m \in 0..(Lines * Width)
      BY <1>1, Parameters DEF Piece
    <3>3. side' = [side EXCEPT !.offset = o + m, !.pos = n + m]
      BY <1>2, <1>10, <3>1 DEF Saved
    <3>4. n + m \in Nat
      BY <1>1
    <3>5. QED
      BY <3>1, <3>2, <3>3, <3>4
  <2>2. Bounded'
    <3> SUFFICES ASSUME NEW i \in 1..(n + m)
                 PROVE  file'[i][1] <= attempt /\ (file'[i][1] = attempt => file'[i][2] <= o + m)
      BY <2>1 DEF Bounded
    <3>1. CASE i \in 1..n
      <4>1. file'[i] = file[i] /\ file[i][2] \in Int
        BY <1>2, <1>6, <3>1
      <4>2. file[i][1] <= attempt /\ (file[i][1] = attempt => file[i][2] <= o)
        BY <1>6, <3>1
      <4>3. file[i][2] <= o => file[i][2] <= o + m
        BY <1>1, <4>1
      <4>4. QED
        BY <4>1, <4>2, <4>3
    <3>2. ASSUME NEW k \in 1..m, i = n + k PROVE file'[i][1] <= attempt /\ file'[i][2] <= o + m
      <4>1. /\ file'[i][1] = attempt
            /\ file'[i] = <<attempt, o + k>> \/ file'[i][2] = -1
        BY <1>4, <3>2
      <4>2. o + k <= o + m /\ -1 <= o + m /\ attempt <= attempt
        BY <1>1, <3>2
      <4>3. QED
        BY <4>1, <4>2
    <3>3. QED
      BY <1>5, <3>1, <3>2
  <2>3. Recent'
    <3> SUFFICES ASSUME NEW i \in 1..(n + m) PROVE file'[i][1] <= attempt
      BY <1>1, <1>3, <2>1 DEF Recent
    <3>1. QED
      BY <1>past
  <2>4. LastRead'
    <3> SUFFICES ASSUME cuts' = 0, o + m > 0
                 PROVE  n + m > 0 /\ file'[n + m] = <<attempt, o + m>>
      BY <2>1 DEF LastRead
    <3>1. CASE m = 0
      <4>1. n > 0 /\ file[n] = <<attempt, o>>
        BY <1>1, <3>1 DEF FileInv, LastRead
      <4>2. QED
        BY <1>1, <1>2, <3>1, <4>1
    <3>2. CASE m > 0
      BY <1>1, <1>4, <3>2
    <3>3. QED
      BY <1>1, <3>1, <3>2
  <2>5. ResumeHonest'
    <3> DEFINE first == n - o
    <3>1. /\ first > 0 /\ file[first] = <<attempt, 0>>
          /\ \A i \in first + 1 .. n : file[i][1] = attempt /\ file[i][2] # 0
          /\ \A i \in 1 .. first - 1 : file[i][1] < attempt \/ file[i][2] = 0
      BY <1>1 DEF FileInv, ResumeHonest
    <3>2. first \in 1..n /\ (n + m) - (o + m) = first /\ \A i \in 1 .. first - 1 : i \in 1..n
      BY <1>1, <3>1, SMTT(40)
    <3>3. /\ file'[first] = <<attempt, 0>>
          /\ \A i \in 1 .. first - 1 : file'[i][1] < attempt \/ file'[i][2] = 0
      BY <1>2, <3>1, <3>2
    <3>4. ASSUME NEW i \in first + 1 .. n + m PROVE file'[i][1] = attempt /\ file'[i][2] # 0
      <4>1. CASE i <= n
        <5>1. i \in first + 1 .. n /\ i \in 1..n
          BY <1>1, <3>2, <4>1
        <5>2. QED
          BY <1>2, <3>1, <5>1
      <4>2. CASE i > n
        <5>1. i \in 1..(n + m) /\ i \notin 1..n
          BY <1>1, <3>2, <4>2
        <5>2. QED
          BY <1>4, <1>5, <5>1
      <4>3. QED
        BY <1>1, <4>1, <4>2
    <3>5. QED
      BY <2>1, <3>1, <3>2, <3>3, <3>4 DEF ResumeHonest
  <2>6. QED
    BY <1>1, <1>2, <1>7, <1>8, <2>1, <2>2, <2>3, <2>4, <2>5 DEF FileInv
<1>11. QED
  BY <1>9, <1>10

----------------------------------------------------------------------------
(***************************************************************************)
(* The followers' queues.                                                  *)
(***************************************************************************)
LEMMA Items ==
  /\ \A chunk \in Seq(Units) : Data(chunk) \in Item
  /\ Dropped \in Item /\ End \in Item
  /\ <<Dropped, End>> \in Seq(Item) /\ Len(<<Dropped, End>>) = 2
<1>1. <<>> \in Seq(Units)
  BY EmptySeq
<1>2. Dropped \in Item /\ End \in Item /\ \A chunk \in Seq(Units) : Data(chunk) \in Item
  BY <1>1 DEF Item, Dropped, End, Data
<1>3. QED
  BY <1>2

\* What a follower that goes, or is cut off by a crash, leaves.
LEMMA IdleTyped ==
  ASSUME NEW got \in Seq(Units)
  PROVE  Idle(got) \in Follower /\ Idle(got).queue = <<>> /\ Len(<<>>) <= QueueSize
<1>1. <<>> \in Seq(Item) /\ Len(<<>>) = 0
  BY EmptySeq
<1>2. Idle(got) \in Follower /\ Idle(got).queue = <<>>
  BY <1>1 DEF Idle, Follower
<1>3. QED
  BY <1>1, <1>2, Parameters

LEMMA PublishedTyped ==
  ASSUME FolTyped, NEW chunk \in Seq(Units), fol' = Published(chunk)
  PROVE  FolTyped'
<1>1. ASSUME NEW f \in Followers
      PROVE  Offered(f, chunk) \in Follower /\ Len(Offered(f, chunk).queue) <= QueueSize
  <2>1. /\ fol[f] \in Follower /\ fol[f].queue \in Seq(Item) /\ Len(fol[f].queue) \in Nat
        /\ Len(fol[f].queue) <= QueueSize
    BY LenProperties DEF FolTyped, Follower
  <2>2. CASE Len(fol[f].queue) < QueueSize
    <3>1. /\ Append(fol[f].queue, Data(chunk)) \in Seq(Item)
          /\ Len(Append(fol[f].queue, Data(chunk))) = Len(fol[f].queue) + 1
      BY <2>1, Items, AppendProperties
    <3>2. Offered(f, chunk) = [fol[f] EXCEPT !.queue = Append(@, Data(chunk))]
      BY <2>2 DEF Offered
    <3>3. Offered(f, chunk) \in Follower /\ Offered(f, chunk).queue = Append(fol[f].queue, Data(chunk))
      BY <2>1, <3>1, <3>2 DEF Follower
    <3>4. QED
      BY <2>1, <2>2, <3>1, <3>3, Parameters
  <2>3. CASE ~(Len(fol[f].queue) < QueueSize)
    <3>1. Offered(f, chunk) = [fol[f] EXCEPT !.queue = <<Dropped, End>>, !.at = "dropped"]
      BY <2>3 DEF Offered
    <3>2. Offered(f, chunk) \in Follower /\ Offered(f, chunk).queue = <<Dropped, End>>
      BY <2>1, <3>1, Items DEF Follower
    <3>3. QED
      BY <3>2, Items, Parameters
  <2>4. QED
    BY <2>2, <2>3
<1>2. QED
  BY <1>1 DEF FolTyped, Published

LEMMA EndTyped ==
  ASSUME FolTyped, EndFollowers
  PROVE  FolTyped'
<1>1. ASSUME NEW f \in Followers
      PROVE  Ended(f) \in Follower /\ Len(Ended(f).queue) <= QueueSize
  <2>1. /\ fol[f] \in Follower /\ fol[f].queue \in Seq(Item) /\ Len(fol[f].queue) \in Nat
        /\ Len(fol[f].queue) <= QueueSize
    BY LenProperties DEF FolTyped, Follower
  <2>2. CASE Len(fol[f].queue) < QueueSize
    <3>1. /\ Append(fol[f].queue, End) \in Seq(Item)
          /\ Len(Append(fol[f].queue, End)) = Len(fol[f].queue) + 1
      BY <2>1, Items, AppendProperties
    <3>2. Ended(f) = [fol[f] EXCEPT !.queue = Append(@, End), !.at = "ending"]
      BY <2>2 DEF Ended
    <3>3. Ended(f) \in Follower /\ Ended(f).queue = Append(fol[f].queue, End)
      BY <2>1, <3>1, <3>2 DEF Follower
    <3>4. QED
      BY <2>1, <2>2, <3>1, <3>3, Parameters
  <2>3. CASE ~(Len(fol[f].queue) < QueueSize)
    <3>1. fol[f].queue # <<>>
      BY <2>1, <2>3, Parameters, EmptySeq
    <3>2. Tail(fol[f].queue) \in Seq(Item) /\ Len(Tail(fol[f].queue)) = Len(fol[f].queue) - 1
      BY <2>1, <3>1, HeadTailProperties
    <3>3. /\ Append(Tail(fol[f].queue), End) \in Seq(Item)
          /\ Len(Append(Tail(fol[f].queue), End)) = Len(Tail(fol[f].queue)) + 1
      BY <3>2, Items, AppendProperties
    <3>4. Ended(f) = [fol[f] EXCEPT !.queue = Append(Tail(@), End), !.at = "ending",
                                    !.squeezed = TRUE]
      BY <2>3 DEF Ended
    <3>5. Ended(f) \in Follower /\ Ended(f).queue = Append(Tail(fol[f].queue), End)
      BY <2>1, <3>3, <3>4 DEF Follower
    <3>6. QED
      BY <2>1, <3>2, <3>3, <3>5
  <2>4. QED
    BY <2>2, <2>3
<1>2. ASSUME NEW f \in Followers
      PROVE  /\ [Ended(f) EXCEPT !.at = "lastreplay"] \in Follower
             /\ [Ended(f) EXCEPT !.at = "lastreplay"].queue = Ended(f).queue
  BY <1>1 DEF Follower
<1>3. ASSUME NEW f \in Followers PROVE fol'[f] \in Follower /\ Len(fol'[f].queue) <= QueueSize
  <2>1. CASE fol[f].at = "live"
    <3>1. fol'[f] = Ended(f)
      BY <2>1 DEF EndFollowers
    <3>2. QED
      BY <1>1, <3>1
  <2>2. CASE fol[f].at = "replay"
    <3>1. fol'[f] = [Ended(f) EXCEPT !.at = "lastreplay"]
      BY <2>2 DEF EndFollowers
    <3>2. QED
      BY <1>1, <1>2, <3>1
  <2>3. CASE fol[f].at \notin {"live", "replay"}
    <3>1. fol'[f] = fol[f]
      BY <2>3 DEF EndFollowers
    <3>2. QED
      BY <3>1 DEF FolTyped
  <2>4. QED
    BY <2>1, <2>2, <2>3
<1>4. DOMAIN fol' = Followers /\ fol' = [f \in Followers |-> fol'[f]]
  BY DEF EndFollowers
<1>5. QED
  BY <1>3, <1>4 DEF FolTyped

\* A reader's own steps.
LEMMA ReaderTyped ==
  ASSUME Typed, FolTyped, NEW f \in Followers,
         Follow(f) \/ ReplayChunk(f) \/ ReplayDone(f) \/ Take(f) \/ Leave(f)
  PROVE  FolTyped'
<1>1. /\ fol[f] \in Follower /\ fol[f].got \in Seq(Units) /\ fol[f].queue \in Seq(Item)
      /\ Len(fol[f].queue) \in Nat /\ Len(fol[f].queue) <= QueueSize /\ Len(fol[f].got) \in Nat
      /\ fol[f].pos \in Nat
  BY LenProperties DEF FolTyped, Follower
<1>2. SUFFICES \E r \in Follower : fol' = [fol EXCEPT ![f] = r] /\ Len(r.queue) <= QueueSize
  BY DEF FolTyped
<1>3. CASE Follow(f)
  <2> DEFINE r == [Idle(fol[f].got) EXCEPT !.from = Len(fol[f].got), !.pos = Len(fol[f].got),
                                           !.at = IF Active THEN "replay" ELSE "file",
                                           !.base = stream.pos]
  <2>1. stream.pos \in Nat
    BY DEF Typed
  <2>2. Idle(fol[f].got) \in Follower /\ Idle(fol[f].got).queue = <<>> /\ Len(<<>>) <= QueueSize
    BY <1>1, IdleTyped
  <2>3. r \in Follower /\ r.queue = <<>>
    BY <1>1, <2>1, <2>2 DEF Follower
  <2>4. fol' = [fol EXCEPT ![f] = r]
    BY <1>3 DEF Follow
  <2>5. QED
    BY <2>2, <2>3, <2>4
<1>4. CASE ReplayChunk(f)
  <2> DEFINE c == ReadAt(fol[f].pos, Least(ReadChunk, Limit(f) - fol[f].pos))
             r == [fol[f] EXCEPT !.pos = @ + Len(c), !.got = @ \o c]
  <2>1. c \in Seq(Units)
    <3> DEFINE p == fol[f].pos
               limit == Least(ReadChunk, Limit(f) - p)
               q == Least(p + limit, Len(file))
    <3>1. file \in Seq(Units) /\ Len(file) \in Nat
      BY LenProperties DEF Typed
    <3>2. Limit(f) \in Int
      BY <1>1, <3>1 DEF Limit, Least, Follower
    <3>3. q \in Int /\ q <= Len(file)
      BY <1>1, <3>1, <3>2, Parameters DEF Least
    <3>4. \A i \in (p + 1)..q : file[i] \in Units
      <4>1. \A i \in (p + 1)..q : i \in 1..Len(file)
        BY <1>1, <3>1, <3>3
      <4>2. QED
        BY <3>1, <4>1, ElementOfSeq
    <3>5. SubSeq(file, p + 1, q) \in Seq(Units)
      BY <1>1, <3>3, <3>4, SubSeqProperties
    <3>6. QED
      BY <3>5 DEF ReadAt
  <2>2. fol[f].got \o c \in Seq(Units) /\ Len(c) \in Nat
    BY <1>1, <2>1, ConcatProperties, LenProperties
  <2>3. r \in Follower /\ r.queue = fol[f].queue
    <3>1. fol[f].pos + Len(c) \in Nat
      BY <1>1, <2>2
    <3>2. r = [fol[f] EXCEPT !.pos = fol[f].pos + Len(c), !.got = fol[f].got \o c]
      OBVIOUS
    <3> HIDE DEF r, c
    <3>3. QED
      BY <1>1, <2>2, <3>1, <3>2 DEF Follower
  <2>4. fol' = [fol EXCEPT ![f] = r]
    BY <1>4 DEF ReplayChunk, Replay, FolTyped
  <2>5. QED
    BY <1>1, <2>3, <2>4
<1>5. CASE ReplayDone(f)
  <2>1. PICK at \in {"live", "ending", "over"} : fol' = [fol EXCEPT ![f].at = at]
    <3>1. fol[f].at = "replay" \/ fol[f].at = "lastreplay" \/ fol[f].at = "file"
      BY <1>5 DEF ReplayDone
    <3>2. QED
      BY <1>5, <3>1 DEF ReplayDone
  <2> DEFINE r == [fol[f] EXCEPT !.at = at]
  <2>2. r \in Follower /\ r.queue = fol[f].queue /\ fol' = [fol EXCEPT ![f] = r]
    BY <1>1, <2>1 DEF Follower, FolTyped
  <2>3. QED
    BY <1>1, <2>2
<1>6. CASE Take(f)
  <2> DEFINE item == Head(fol[f].queue)
             r == [fol[f] EXCEPT !.queue = Tail(@), !.got = @ \o item.bytes,
                                 !.at = IF item.kind = "end" THEN "over" ELSE @]
  <2>1. /\ item \in Item /\ Tail(fol[f].queue) \in Seq(Item)
        /\ Len(Tail(fol[f].queue)) = Len(fol[f].queue) - 1
    BY <1>1, <1>6, HeadTailProperties DEF Take
  <2>2. fol[f].got \o item.bytes \in Seq(Units)
    BY <1>1, <2>1, ConcatProperties DEF Item
  <2>3. r \in Follower /\ r.queue = Tail(fol[f].queue)
    BY <1>1, <2>1, <2>2 DEF Follower
  <2>4. fol' = [fol EXCEPT ![f] = r]
    BY <1>6 DEF Take, FolTyped
  <2>5. Len(r.queue) <= QueueSize
    BY <1>1, <2>1, <2>3, Parameters
  <2>6. QED
    BY <2>3, <2>4, <2>5
<1>7. CASE Leave(f)
  BY <1>1, <1>7, IdleTyped DEF Leave
<1>8. QED
  BY <1>3, <1>4, <1>5, <1>6, <1>7

LEMMA DieTyped == ASSUME FolTyped, Die PROVE FolTyped'
<1>1. ASSUME NEW f \in Followers PROVE fol'[f] \in Follower /\ Len(fol'[f].queue) <= QueueSize
  <2>1. fol[f] \in Follower /\ fol[f].got \in Seq(Units) /\ Len(fol[f].queue) <= QueueSize
    BY DEF FolTyped, Follower
  <2>2. fol'[f] = fol[f] \/ fol'[f] = Idle(fol[f].got)
    BY DEF Die
  <2>3. QED
    BY <2>1, <2>2, IdleTyped
<1>2. fol' = [f \in Followers |-> fol'[f]]
  BY DEF Die
<1>3. QED
  BY <1>1, <1>2 DEF FolTyped

----------------------------------------------------------------------------
(***************************************************************************)
(* The steps.                                                              *)
(***************************************************************************)
LEMMA StillFile == ASSUME FileInv, UNCHANGED <<attempt, file, side, cuts>> PROVE FileInv'
BY DEF FileInv, Ordered, Gapless, Bounded, LastRead, Recent, ResumeHonest, Before

\* The job's placements, and the readers.
LEMMA JobStep ==
  ASSUME StreamInv,
         \/ WriteLine \/ WorkerDies \/ Activate
         \/ \E f \in Followers : Follow(f) \/ FollowStep(f) \/ Leave(f)
         \/ UNCHANGED vars
  PROVE  StreamInv'
<1>1. Typed /\ FolTyped /\ Mortal /\ Connected /\ FileInv
  BY DEF StreamInv
<1>2. CASE WriteLine \/ WorkerDies
  <2>1. /\ UNCHANGED <<attempt, phase, file, side, stream, fol, cuts>>
        /\ written' \in 0..Lines /\ worker' \in {"alive", "dead"}
        /\ worker' = worker \/ attempt < Attempts
        /\ phase = "waiting" => worker' = "dead"
    BY <1>1, <1>2, Parameters, SMTT(40) DEF WriteLine, WorkerDies, disk, Typed, Mortal
  <2>2. FileInv'
    BY <1>1, <2>1, StillFile
  <2>3. Typed' /\ FolTyped' /\ Mortal' /\ Connected'
    BY <1>1, <2>1 DEF Typed, FolTyped, Mortal, Connected
  <2>4. QED
    BY <2>2, <2>3 DEF StreamInv
<1>3. CASE Activate
  <2>1. /\ attempt' = attempt + 1 /\ phase' = "running" /\ worker' = "alive" /\ written' = 0
        /\ UNCHANGED <<file, side, stream, fol, cuts>>
        /\ stream = NoStream /\ attempt < Attempts
    BY <1>1, <1>3 DEF Activate, disk, Mortal
  <2>2. attempt' \in 1..Attempts /\ attempt \in Nat /\ side.att \in Nat /\ 0 \in 0..Lines
    BY <1>1, <2>1, Parameters DEF Typed
  <2>3. Typed' /\ FolTyped' /\ Mortal'
    BY <1>1, <2>1, <2>2 DEF Typed, FolTyped, Mortal
  <2>4. Connected'
    BY <1>1, <2>1, <2>2 DEF Connected, NoStream
  <2>5. Recent'
    <3>1. \A i \in DOMAIN file : file[i] \in Units
      BY <1>1, ElementOfSeq, LenProperties DEF Typed
    <3>2. \A i \in DOMAIN file : file[i][1] \in Nat
      BY <3>1 DEF Units
    <3>3. \A i \in DOMAIN file : file[i][1] <= attempt
      BY <1>1 DEF FileInv, Recent
    <3>4. QED
      BY <2>1, <2>2, <3>2, <3>3 DEF Recent
  <2>6. Ordered' /\ Gapless' /\ Bounded' /\ LastRead' /\ ResumeHonest'
    BY <1>1, <2>1 DEF FileInv, Ordered, Before, Gapless, Bounded, LastRead, ResumeHonest
  <2>7. QED
    BY <2>3, <2>4, <2>5, <2>6 DEF StreamInv, FileInv
<1>4. ASSUME NEW f \in Followers, Follow(f) \/ FollowStep(f) \/ Leave(f) PROVE StreamInv'
  <2>1. UNCHANGED <<placement, disk, stream, cuts>>
    BY <1>4 DEF Follow, FollowStep, ReplayChunk, ReplayDone, Take, Leave
  <2>2. FolTyped'
    BY <1>1, <1>4, ReaderTyped DEF FollowStep
  <2>3. FileInv'
    BY <1>1, <2>1, StillFile DEF placement, disk
  <2>4. Typed' /\ Mortal' /\ Connected'
    BY <1>1, <2>1 DEF Typed, Mortal, Connected, placement, disk
  <2>5. QED
    BY <2>2, <2>3, <2>4 DEF StreamInv
<1>5. CASE UNCHANGED vars
  <2>1. UNCHANGED <<attempt, phase, written, worker, file, side, stream, fol, cuts>>
    BY <1>5 DEF vars, placement, disk
  <2>2. FileInv'
    BY <1>1, <2>1, StillFile
  <2>3. Typed' /\ FolTyped' /\ Mortal' /\ Connected'
    BY <1>1, <2>1 DEF Typed, FolTyped, Mortal, Connected
  <2>4. QED
    BY <2>2, <2>3 DEF StreamInv
<1>6. QED
  BY <1>2, <1>3, <1>4, <1>5

LEMMA ConnectStep == ASSUME StreamInv, Connect PROVE StreamInv'
<1>1. Typed /\ FolTyped /\ Mortal /\ Connected /\ FileInv /\ UNCHANGED <<placement, cuts>>
  BY DEF StreamInv, Connect
<1>2. UNCHANGED <<attempt, phase, written, worker, cuts>>
  BY <1>1 DEF placement
<1>3. CASE Resumes
  <2>1. /\ file' = Truncated /\ side' = side /\ fol' = fol
        /\ stream' = [stream EXCEPT !.task = "reading", !.pos = side.pos]
    BY <1>3 DEF Connect
  <2>2. FileInv' /\ file' \in Seq(Units) /\ Len(file') = side.pos
    BY <1>1, <1>2, <2>1, TruncateWrite
  <2>3. /\ stream' \in [task : Tasks, att : Nat, exited : BOOLEAN, pos : Nat]
        /\ stream'.pos = side.pos /\ side.pos \in Nat
    BY <1>1, <2>1 DEF Typed, Tasks
  <2>4. Typed' /\ FolTyped' /\ Mortal'
    BY <1>1, <1>2, <2>1, <2>2, <2>3 DEF Typed, FolTyped, Mortal
  <2>5. Connected'
    BY <1>1, <1>2, <1>3, <2>1, <2>2, <2>3 DEF Connected, Resumes
  <2>6. QED
    BY <2>2, <2>4, <2>5 DEF StreamInv
<1>4. CASE ~Resumes
  <2>1. /\ file' = Headed /\ side' = [att |-> attempt, offset |-> 0, pos |-> Len(Headed)]
        /\ fol' = Published(<<Header>>)
        /\ stream' = [stream EXCEPT !.task = "reading", !.pos = Len(Headed)]
    BY <1>4 DEF Connect
  <2>2. /\ FileInv' /\ file' \in Seq(Units) /\ Len(file') = Len(file) + 1
    BY <1>1, <1>2, <1>4, <2>1, HeadWrite DEF Resumes
  <2>3. Len(Headed) \in Nat
    BY <2>1, <2>2, LenProperties
  <2>4. /\ side' \in [att : 0..Attempts, offset : 0..(Lines * Width), pos : Nat]
        /\ stream' \in [task : Tasks, att : Nat, exited : BOOLEAN, pos : Nat]
        /\ stream'.pos = Len(Headed) /\ side'.pos = Len(Headed) /\ side'.att = attempt
    <3>1. attempt \in 0..Attempts /\ 0 \in 0..(Lines * Width)
      BY <1>1, Parameters DEF Typed
    <3>2. QED
      BY <1>1, <2>1, <2>3, <3>1 DEF Typed, Tasks
  <2>5. <<Header>> \in Seq(Units)
    <3>1. Header \in Units
      BY <1>1, Parameters DEF Typed, Header, Units
    <3>2. QED
      BY <3>1
  <2>6. FolTyped'
    BY <1>1, <2>1, <2>5, PublishedTyped
  <2>7. Typed' /\ Mortal'
    BY <1>1, <1>2, <2>2, <2>4 DEF Typed, Mortal
  <2>8. Connected'
    BY <1>1, <1>2, <2>1, <2>3, <2>4 DEF Connected, Typed
  <2>9. QED
    BY <2>2, <2>6, <2>7, <2>8 DEF StreamInv
<1>5. QED
  BY <1>3, <1>4

LEMMA IngestStep ==
  ASSUME StreamInv, stream.task = "reading", NEW chunk, Piece(chunk), Ingest(chunk),
         UNCHANGED <<attempt, written, worker>>, cuts' \in Nat, cuts' = 0 => cuts = 0
  PROVE  StreamInv'
<1>1. Typed /\ FolTyped /\ Mortal /\ Connected /\ FileInv
  BY DEF StreamInv
<1>2. side.att = attempt /\ side.pos = Len(file)
  BY <1>1 DEF Connected
<1>3. /\ file' = Appended(chunk) /\ side' = Saved(chunk) /\ fol' = Published(chunk)
      /\ stream' = [stream EXCEPT !.pos = side'.pos, !.exited = @ \/ IsExit(chunk)]
      /\ phase' \in {phase, "finished"}
  BY DEF Ingest
<1>4. /\ FileInv' /\ file' \in Seq(Units)
      /\ side' \in [att : 0..Attempts, offset : 0..(Lines * Width), pos : Nat]
      /\ side'.att = attempt /\ side'.pos = Len(file')
  BY <1>1, <1>2, <1>3, PieceWrite, LenProperties
<1>5. /\ stream' \in [task : Tasks, att : Nat, exited : BOOLEAN, pos : Nat]
      /\ stream'.pos = Len(file')
  <2>1. side'.pos \in Nat /\ (stream.exited \/ IsExit(chunk)) \in BOOLEAN
    BY <1>4 DEF IsExit
  <2>2. QED
    BY <1>1, <1>3, <1>4, <2>1 DEF Typed
<1>6. FolTyped'
  BY <1>1, <1>3, PublishedTyped DEF Piece
<1>7. Typed' /\ Mortal'
  BY <1>1, <1>3, <1>4, <1>5 DEF Typed, Mortal
<1>8. Connected'
  BY <1>1, <1>4, <1>5, LenProperties DEF Connected, Typed
<1>9. QED
  BY <1>4, <1>6, <1>7, <1>8 DEF StreamInv

LEMMA TaskStep == ASSUME StreamInv, StreamStep PROVE StreamInv'
<1>1. Typed /\ FolTyped /\ Mortal /\ Connected /\ FileInv
  BY DEF StreamInv
<1>2. CASE Receive
  <2>1. side.att = attempt /\ Available /\ cuts' = cuts /\ cuts \in Nat
    BY <1>1, <1>2 DEF Receive, Connected, Typed
  <2>2. Piece(Chunk)
    BY <1>1, <2>1, ChunkPiece
  <2>3. QED
    BY <1>2, <2>1, <2>2, IngestStep DEF Receive
<1>3. CASE ReceiveCut
  <2>1. side.att = attempt /\ Available /\ cuts' = cuts + 1 /\ cuts \in Nat
    BY <1>1, <1>3 DEF ReceiveCut, Connected, Typed
  <2>2. PICK n \in 1..(LineEnd(side.offset) - side.offset - 1) : Ingest(CutChunk(n))
    BY <1>3 DEF ReceiveCut
  <2>3. Piece(CutChunk(n)) /\ cuts' # 0 /\ cuts' \in Nat
    BY <1>1, <2>1, CutPiece
  <2>4. QED
    BY <1>3, <2>2, <2>3, IngestStep DEF ReceiveCut
<1>4. CASE Disconnect \/ Reconnect
  <2>1. UNCHANGED <<attempt, phase, written, worker, file, side, fol, cuts>>
    BY <1>4 DEF Disconnect, Reconnect, placement, disk
  <2>2. /\ stream' \in [task : Tasks, att : Nat, exited : BOOLEAN, pos : Nat]
        /\ stream'.pos = stream.pos
        /\ stream'.task \in {"backoff", "spawned"} \/ (stream.task = "reading" /\ stream'.task = "done")
        /\ stream'.task = "backoff" => stream.task = "reading"
    BY <1>1, <1>4 DEF Disconnect, Reconnect, Typed, Tasks
  <2>3. FileInv'
    BY <1>1, <2>1, StillFile
  <2>4. Typed' /\ FolTyped' /\ Mortal' /\ Connected'
    BY <1>1, <2>1, <2>2 DEF Typed, FolTyped, Mortal, Connected
  <2>5. QED
    BY <2>3, <2>4 DEF StreamInv
<1>5. QED
  BY <1>2, <1>3, <1>4, ConnectStep DEF StreamStep

LEMMA ObserveStep == ASSUME StreamInv, Observe PROVE StreamInv'
<1>1. Typed /\ FolTyped /\ Mortal /\ Connected /\ FileInv
  BY DEF StreamInv
<1>2. UNCHANGED <<attempt, written, worker, file, side, cuts>>
  BY DEF Observe, Start, Restart, Forget, PollResult, PollGone, placement, disk
<1>3. phase' = phase \/ phase' = "finished" \/ (phase' = "waiting" /\ worker = "dead")
  BY DEF Observe, Start, Restart, Forget, PollResult, PollGone, placement
<1>4. /\ stream' \in [task : Tasks, att : Nat, exited : BOOLEAN, pos : Nat]
      /\ stream'.task \in {"none", "spawned"}
  <2>0. NoStream \in [task : Tasks, att : Nat, exited : BOOLEAN, pos : Nat] /\ NoStream.task = "none"
    BY DEF NoStream, Tasks
  <2>1. CASE Start
    <3>1. stream' = [NoStream EXCEPT !.task = "spawned", !.att = attempt] /\ attempt \in Nat
      BY <1>1, <2>1, Parameters, SMTT(40) DEF Start, Typed
    <3>2. QED
      BY <2>0, <3>1 DEF Tasks
  <2>2. CASE Restart
    BY <1>1, <2>2 DEF Restart, Typed, Tasks
  <2>3. CASE Forget \/ PollResult \/ PollGone
    BY <2>0, <2>3 DEF Forget, PollResult, PollGone, Stopped
  <2>4. QED
    BY <2>1, <2>2, <2>3 DEF Observe
<1>5. FolTyped'
  <2>1. CASE Start \/ Restart
    BY <1>1, <2>1 DEF Start, Restart, FolTyped
  <2>2. CASE Forget \/ PollResult \/ PollGone
    BY <1>1, <2>2, EndTyped DEF Forget, PollResult, PollGone, Stopped
  <2>3. QED
    BY <2>1, <2>2 DEF Observe
<1>6. FileInv'
  BY <1>1, <1>2, StillFile
<1>7. Typed' /\ Mortal' /\ Connected'
  BY <1>1, <1>2, <1>3, <1>4 DEF Typed, Mortal, Connected
<1>8. QED
  BY <1>5, <1>6, <1>7 DEF StreamInv

LEMMA CrashStep ==
  ASSUME StreamInv, Crash \/ CrashHeader \/ CrashUnsaved \/ CrashUnparsed
  PROVE  StreamInv'
<1>1. Typed /\ FolTyped /\ Mortal /\ Connected /\ FileInv /\ Die
  BY DEF StreamInv, Crash, CrashHeader, CrashUnsaved, CrashUnparsed
<1>2. UNCHANGED <<attempt, phase, written, worker, cuts>> /\ stream' = NoStream /\ FolTyped'
  BY <1>1, DieTyped DEF Die, Crash, CrashHeader, CrashUnsaved, CrashUnparsed
<1>3. stream' \in [task : Tasks, att : Nat, exited : BOOLEAN, pos : Nat] /\ stream'.task = "none"
  BY <1>2 DEF NoStream, Tasks
<1>4. SUFFICES /\ FileInv' /\ file' \in Seq(Units) /\ side'.pos <= Len(file')
               /\ side' \in [att : 0..Attempts, offset : 0..(Lines * Width), pos : Nat]
               /\ side'.att <= attempt
  BY <1>1, <1>2, <1>3 DEF StreamInv, Typed, Mortal, Connected
<1>5. CASE Crash
  <2>1. file' = file /\ side' = side
    BY <1>5 DEF Crash, disk
  <2>2. QED
    BY <1>1, <1>2, <2>1, StillFile DEF Typed, Connected
<1>6. CASE CrashHeader
  <2>1. file' = Headed /\ side' = side /\ side.att # attempt
    BY <1>6 DEF CrashHeader, Resumes
  <2>2. FileInv' /\ file' \in Seq(Units) /\ side'.pos <= Len(file')
    BY <1>1, <1>2, <2>1, HeadWrite
  <2>3. QED
    BY <1>1, <2>1, <2>2 DEF Typed, Connected
<1>7. CASE CrashUnsaved \/ CrashUnparsed
  <2>1. /\ side.att = attempt /\ side.pos = Len(file) /\ Available
    BY <1>1, <1>7 DEF CrashUnsaved, CrashUnparsed, Connected
  <2>2. file' = Appended(Chunk) /\ (side' = side \/ side' = Saved(Chunk))
    BY <1>7 DEF CrashUnsaved, CrashUnparsed
  <2>3. Piece(Chunk)
    BY <1>1, <2>1, ChunkPiece
  <2>4. /\ FileInv' /\ file' \in Seq(Units) /\ side'.pos <= Len(file')
        /\ side' \in [att : 0..Attempts, offset : 0..(Lines * Width), pos : Nat]
        /\ side'.att = attempt
    BY <1>1, <1>2, <2>1, <2>2, <2>3, PieceWrite
  <2>5. QED
    BY <1>1, <2>4 DEF Typed
<1>8. QED
  BY <1>5, <1>6, <1>7

----------------------------------------------------------------------------
(***************************************************************************)
(* The theorems.                                                           *)
(***************************************************************************)
LEMMA StreamInvAlways == Spec => []StreamInv
<1>1. Init => StreamInv
  <2> SUFFICES ASSUME Init PROVE StreamInv
    OBVIOUS
  <2>1. <<>> \in Seq(Units) /\ Len(<<>>) = 0 /\ file = <<>>
    BY EmptySeq DEF Init
  <2>2. Typed /\ Mortal /\ Connected
    BY <2>1, Parameters DEF Init, Typed, Mortal, Connected, NoSide, NoStream, Tasks
  <2>3. DOMAIN file = {} /\ side.pos = 0 /\ side.offset = 0 /\ side.att = 0
    BY <2>1 DEF Init, NoSide
  <2>4. FileInv
    BY <2>3 DEF FileInv, Ordered, Gapless, Bounded, LastRead, Recent, ResumeHonest
  <2>5. FolTyped
    BY <2>1, IdleTyped DEF Init, FolTyped
  <2>6. QED
    BY <2>2, <2>4, <2>5 DEF StreamInv
<1>2. StreamInv /\ [Next]_vars => StreamInv'
  BY JobStep, TaskStep, ObserveStep, CrashStep DEF Next
<1>3. QED
  BY <1>1, <1>2, PTL DEF Spec

\* The durable log is what the workers wrote, in order and once, through cut lines,
\* broken connections, new attempts and crashes between its two writes; the resume
\* point and the stream's own position say where it ends (jobstream.py _connect_once).
THEOREM LogCorrect == Spec => []LogExact
<1>1. StreamInv => LogExact
  <2> SUFFICES ASSUME StreamInv PROVE LogExact
    OBVIOUS
  <2>1. Typed /\ FolTyped /\ Mortal /\ Connected /\ FileInv
    BY DEF StreamInv
  <2>2. /\ file \in Seq(Units) /\ side.pos \in Nat /\ side.pos <= Len(file) /\ Len(file) \in Nat
        /\ DOMAIN file = 1..Len(file)
    BY <2>1, LenProperties DEF Typed, Connected
  <2>3. \A i \in 1..side.pos : file[i] \in Units
    BY <2>2, ElementOfSeq
  <2>4. Settled \in Seq(Units) /\ Len(Settled) = side.pos /\ \A i \in 1..side.pos : Settled[i] = file[i]
    BY <2>2, <2>3, SubSeqProperties DEF Settled
  <2>5. DOMAIN Settled = 1..side.pos
    BY <2>4, LenProperties
  <2>6. TypeOK
    <3>1. \A i \in DOMAIN file : file[i] \in Units
      BY <2>2, ElementOfSeq
    <3>2. side.att \in 0..attempt /\ side.pos \in 0..Len(file)
      BY <2>1, <2>2 DEF Typed, Connected
    <3>3. QED
      BY <2>1, <3>1, <3>2 DEF Typed, FolTyped, TypeOK, Tasks
  <2>7. NeverDuplicates
    BY <2>1, <2>2, <2>4, <2>5 DEF FileInv, Ordered, NeverDuplicates
  <2>8. NoGap
    <3> SUFFICES ASSUME cuts = 0, NEW i \in 1..side.pos, Settled[i][2] > 1
                 PROVE  i > 1 /\ Settled[i - 1] = <<Settled[i][1], Settled[i][2] - 1>>
      BY <2>5 DEF NoGap
    <3>1. i \in DOMAIN file /\ Settled[i] = file[i]
      BY <2>2, <2>4
    <3>2. i > 1 /\ file[i - 1] = <<file[i][1], file[i][2] - 1>>
      BY <2>1, <3>1 DEF FileInv, Gapless
    <3>3. i - 1 \in 1..side.pos
      BY <2>2, <3>2
    <3>4. QED
      BY <2>4, <3>1, <3>2, <3>3
  <2>9. ResumeHonest /\ WritePosition
    BY <2>1 DEF FileInv, Connected, WritePosition
  <2>10. QED
    BY <2>6, <2>7, <2>8, <2>9 DEF LogExact
<1>2. QED
  BY <1>1, StreamInvAlways, PTL

----------------------------------------------------------------------------
(***************************************************************************)
(* Followers.                                                              *)
(***************************************************************************)
\* A reader that subscribed to a connected stream, within the file.
Following(r) ==
    /\ r.at \in {"replay", "live", "lastreplay", "ending"}
    /\ ~r.squeezed /\ r.base > 0 /\ r.from <= r.base

\* The bytes are those of the log from a position on; what was got beyond a
\* position is what the log holds there.
Fits(log, bytes, from) ==
    /\ from + Len(bytes) <= Len(log)
    /\ \A i \in 1..Len(bytes) : log[from + i] = bytes[i]
Matches(log, got, from) ==
    /\ from <= Len(got) /\ Len(got) <= Len(log)
    /\ \A i \in (from + 1)..Len(got) : got[i] = log[i]

\* A queue cuts a stretch of the log into pieces: c says where each one ends.
Cut(log, queue, c) ==
    \A i \in 1..Len(queue) : /\ c[i] = c[i - 1] + Len(queue[i].bytes)
                             /\ Fits(log, queue[i].bytes, c[i - 1])
LaidOut(log, queue, start, end) ==
    \E c \in [0..Len(queue) -> 0..Len(log)] :
        c[0] = start /\ c[Len(queue)] = end /\ Cut(log, queue, c)

\* A follower's replay reaches up to its boundary, its queue goes on from there,
\* and as long as chunks are published to it the queue reaches the file's end.
QueueStart(r) == IF r.at \in {"replay", "lastreplay"} THEN r.base ELSE Len(r.got)
Queued(log, r) ==
    \E end \in 0..Len(log) : /\ LaidOut(log, r.queue, QueueStart(r), end)
                             /\ r.at \in {"replay", "live"} => end = Len(log)
Exact(log, r) ==
    /\ r.base <= Len(log) /\ Matches(log, r.got, r.from)
    /\ r.at \in {"replay", "lastreplay"} => r.pos = Len(r.got) /\ r.pos <= r.base
    /\ Queued(log, r)

\* A position that is known is where file and resume point end, and a file
\* somebody follows has nothing beyond its resume point to be truncated.
Synced == stream.pos > 0 => stream.pos = Len(file) /\ side.pos = Len(file)
FollowInv ==
    /\ Synced
    /\ \A f \in Followers : Following(fol[f]) => Len(file) = side.pos /\ Exact(file, fol[f])

\* Sequences of units: what SubSeq, \o and their elements are.
LEMMA Concat ==
  ASSUME NEW s \in Seq(Units), NEW t \in Seq(Units)
  PROVE  /\ s \o t \in Seq(Units) /\ Len(s \o t) = Len(s) + Len(t) /\ Len(s) \in Nat /\ Len(t) \in Nat
         /\ \A i \in 1..Len(s) : (s \o t)[i] = s[i]
         /\ \A i \in 1..Len(t) : (s \o t)[Len(s) + i] = t[i]
<1>1. Len(s) \in Nat /\ Len(t) \in Nat
  BY LenProperties
<1>2. \A i \in 1..Len(t) : Len(s) + i > Len(s) /\ Len(s) + i \in 1..(Len(s) + Len(t)) /\ (Len(s) + i) - Len(s) = i
  BY <1>1
<1>3. /\ s \o t \in Seq(Units) /\ Len(s \o t) = Len(s) + Len(t)
      /\ \A i \in 1..(Len(s) + Len(t)) : (s \o t)[i] = IF i <= Len(s) THEN s[i] ELSE t[i - Len(s)]
  BY ConcatProperties
<1>4. \A i \in 1..Len(s) : (s \o t)[i] = s[i]
  BY <1>1, <1>3
<1>5. \A i \in 1..Len(t) : (s \o t)[Len(s) + i] = t[i]
  <2> TAKE i \in 1..Len(t)
  <2>1. (s \o t)[Len(s) + i] = IF Len(s) + i <= Len(s) THEN s[Len(s) + i] ELSE t[(Len(s) + i) - Len(s)]
    BY <1>2, <1>3
  <2>2. QED
    BY <1>1, <1>2, <2>1
<1>6. QED
  BY <1>1, <1>3, <1>4, <1>5

\* A longer log still holds what it held.
LEMMA LogGrows ==
  ASSUME NEW log \in Seq(Units), NEW more \in Seq(Units)
  PROVE  /\ \A bytes \in Seq(Units), from \in Nat :
              Fits(log, bytes, from) => Fits(log \o more, bytes, from)
         /\ \A got \in Seq(Units), from \in Nat :
              Matches(log, got, from) => Matches(log \o more, got, from)
         /\ \A queue \in Seq(Item) : \A start, end :
              LaidOut(log, queue, start, end) => LaidOut(log \o more, queue, start, end)
<1> DEFINE long == log \o more
<1>1. /\ Len(long) = Len(log) + Len(more) /\ Len(log) \in Nat /\ Len(more) \in Nat
      /\ \A i \in 1..Len(log) : long[i] = log[i]
  BY Concat
<1> HIDE DEF long
<1>2. ASSUME NEW bytes \in Seq(Units), NEW from \in Nat, Fits(log, bytes, from)
      PROVE  Fits(long, bytes, from)
  <2>1. Len(bytes) \in Nat /\ \A i \in 1..Len(bytes) : from + i \in 1..Len(log)
    BY <1>1, <1>2, LenProperties DEF Fits
  <2>2. QED
    BY <1>1, <1>2, <2>1, SMTT(40) DEF Fits
<1>3. ASSUME NEW got \in Seq(Units), NEW from \in Nat, Matches(log, got, from)
      PROVE  Matches(long, got, from)
  <2>1. Len(got) \in Nat /\ \A i \in (from + 1)..Len(got) : i \in 1..Len(log)
    BY <1>1, <1>3, LenProperties DEF Matches
  <2>2. QED
    BY <1>1, <1>3, <2>1 DEF Matches
<1>4. ASSUME NEW queue \in Seq(Item), NEW start, NEW end, LaidOut(log, queue, start, end)
      PROVE  LaidOut(long, queue, start, end)
  <2>1. PICK c \in [0..Len(queue) -> 0..Len(log)] :
            c[0] = start /\ c[Len(queue)] = end /\ Cut(log, queue, c)
    BY <1>4 DEF LaidOut
  <2>2. Len(queue) \in Nat /\ \A i \in 1..Len(queue) : queue[i].bytes \in Seq(Units)
    <3>1. \A i \in 1..Len(queue) : queue[i] \in Item
      BY ElementOfSeq
    <3>2. QED
      BY <3>1, LenProperties DEF Item
  <2>3. ASSUME NEW i \in 1..Len(queue) PROVE c[i - 1] \in Nat
    <3>1. i - 1 \in 0..Len(queue)
      BY <2>2
    <3>2. c[i - 1] \in 0..Len(log)
      BY <2>1, <3>1
    <3>3. QED
      BY <3>2
  <2>4. Cut(long, queue, c)
    BY <1>2, <2>1, <2>2, <2>3 DEF Cut
  <2>5. c \in [0..Len(queue) -> 0..Len(long)]
    BY <1>1, <2>1
  <2>6. QED
    BY <2>1, <2>4, <2>5 DEF LaidOut
<1>5. QED
  BY <1>2, <1>3, <1>4 DEF long

\* An empty queue is laid out anywhere.
LEMMA NothingQueued ==
  ASSUME NEW log \in Seq(Units), NEW start \in 0..Len(log)
  PROVE  LaidOut(log, <<>>, start, start)
<1> DEFINE c == [i \in 0..0 |-> start]
<1>1. Len(<<>>) = 0 /\ c \in [0..0 -> 0..Len(log)] /\ c[0] = start
  OBVIOUS
<1>2. Cut(log, <<>>, c)
  BY <1>1 DEF Cut
<1>3. QED
  BY <1>1, <1>2 DEF LaidOut

\* An item is put at the end of a queue.
LEMMA ItemPut ==
  ASSUME NEW log \in Seq(Units), NEW queue \in Seq(Item), NEW item \in Item, NEW start,
         NEW end \in Nat, LaidOut(log, queue, start, end), Fits(log, item.bytes, end)
  PROVE  LaidOut(log, Append(queue, item), start, end + Len(item.bytes))
<1> DEFINE n == Len(queue)
           longer == Append(queue, item)
<1>1. PICK c \in [0..n -> 0..Len(log)] : c[0] = start /\ c[n] = end /\ Cut(log, queue, c)
  BY DEF LaidOut
<1>2. n \in Nat /\ item.bytes \in Seq(Units) /\ Len(item.bytes) \in Nat /\ Len(log) \in Nat
  BY LenProperties DEF Item
<1>3. /\ Len(longer) = n + 1 /\ longer[n + 1] = item
      /\ \A i \in 1..n : longer[i] = queue[i]
  BY AppendProperties
<1> DEFINE d == [i \in 0..(n + 1) |-> IF i = n + 1 THEN end + Len(item.bytes) ELSE c[i]]
<1>4. end + Len(item.bytes) \in 0..Len(log)
  BY <1>2 DEF Fits
<1>5. /\ d \in [0..(n + 1) -> 0..Len(log)] /\ d[0] = start /\ d[n] = end
      /\ d[n + 1] = end + Len(item.bytes) /\ \A i \in 0..n : d[i] = c[i]
  BY <1>1, <1>2, <1>4
<1> HIDE DEF d, longer
<1>6. ASSUME NEW i \in 1..(n + 1)
      PROVE  d[i] = d[i - 1] + Len(longer[i].bytes) /\ Fits(log, longer[i].bytes, d[i - 1])
  <2>1. CASE i = n + 1
    <3>1. i - 1 = n /\ longer[i] = item /\ d[i] = end + Len(item.bytes)
      BY <1>2, <1>3, <1>5, <2>1
    <3>2. QED
      BY <1>5, <3>1
  <2>2. CASE i # n + 1
    <3>1. i \in 1..n /\ i \in 0..n /\ i - 1 \in 0..n
      BY <1>2, <2>2
    <3>2. longer[i] = queue[i] /\ d[i] = c[i] /\ d[i - 1] = c[i - 1]
      BY <1>3, <1>5, <3>1
    <3>3. QED
      BY <1>1, <3>1, <3>2 DEF Cut
  <2>3. QED
    BY <2>1, <2>2
<1>7. Cut(log, longer, d)
  BY <1>3, <1>6 DEF Cut
<1>8. LaidOut(log, longer, start, end + Len(item.bytes))
  BY <1>3, <1>5, <1>7 DEF LaidOut
<1>9. QED
  BY <1>8 DEF longer

\* The item at the head is taken.
LEMMA ItemTaken ==
  ASSUME NEW log \in Seq(Units), NEW queue \in Seq(Item), queue # <<>>, NEW start, NEW end,
         LaidOut(log, queue, start, end)
  PROVE  /\ Fits(log, Head(queue).bytes, start)
         /\ LaidOut(log, Tail(queue), start + Len(Head(queue).bytes), end)
<1> DEFINE n == Len(queue)
           rest == Tail(queue)
<1>1. PICK c \in [0..n -> 0..Len(log)] : c[0] = start /\ c[n] = end /\ Cut(log, queue, c)
  BY DEF LaidOut
<1>2. /\ n \in Nat /\ n > 0 /\ Head(queue) = queue[1] /\ Len(rest) = n - 1
      /\ \A i \in 1..(n - 1) : rest[i] = queue[i + 1]
  BY LenProperties, EmptySeq, HeadTailProperties
<1>3. 1 \in 1..n /\ 1 - 1 = 0
  BY <1>2
<1>4. c[1] = start + Len(queue[1].bytes) /\ Fits(log, queue[1].bytes, start)
  BY <1>1, <1>3 DEF Cut
<1> DEFINE d == [i \in 0..(n - 1) |-> c[i + 1]]
<1>5. /\ d \in [0..(n - 1) -> 0..Len(log)] /\ d[0] = c[1] /\ d[n - 1] = end
      /\ \A i \in 0..(n - 1) : d[i] = c[i + 1]
  BY <1>1, <1>2
<1> HIDE DEF d, rest
<1>6. ASSUME NEW i \in 1..(n - 1)
      PROVE  d[i] = d[i - 1] + Len(rest[i].bytes) /\ Fits(log, rest[i].bytes, d[i - 1])
  <2>1. i + 1 \in 1..n /\ (i + 1) - 1 = i /\ i \in 0..(n - 1) /\ i - 1 \in 0..(n - 1) /\ (i - 1) + 1 = i
    BY <1>2
  <2>2. c[i + 1] = c[i] + Len(queue[i + 1].bytes) /\ Fits(log, queue[i + 1].bytes, c[i])
    BY <1>1, <2>1 DEF Cut
  <2>3. rest[i] = queue[i + 1] /\ d[i] = c[i + 1] /\ d[i - 1] = c[i]
    BY <1>2, <1>5, <2>1
  <2>4. QED
    BY <2>2, <2>3
<1>7. Cut(log, rest, d)
  BY <1>2, <1>6 DEF Cut
<1>8. LaidOut(log, rest, start + Len(queue[1].bytes), end)
  BY <1>2, <1>4, <1>5, <1>7 DEF LaidOut
<1>9. QED
  BY <1>2, <1>4, <1>8 DEF rest

\* What fits the log at the end of what was got may be added to it.
LEMMA GotMore ==
  ASSUME NEW log \in Seq(Units), NEW got \in Seq(Units), NEW from \in Nat, NEW bytes \in Seq(Units),
         Matches(log, got, from), Fits(log, bytes, Len(got))
  PROVE  Matches(log, got \o bytes, from)
<1> DEFINE more == got \o bytes
<1>1. /\ Len(more) = Len(got) + Len(bytes) /\ Len(got) \in Nat /\ Len(bytes) \in Nat
      /\ \A i \in 1..Len(got) : more[i] = got[i]
      /\ \A i \in 1..Len(bytes) : more[Len(got) + i] = bytes[i]
  BY Concat
<1> HIDE DEF more
<1>2. ASSUME NEW i \in (from + 1)..Len(more) PROVE more[i] = log[i]
  <2>1. CASE i <= Len(got)
    <3>1. i \in 1..Len(got) /\ i \in (from + 1)..Len(got)
      BY <1>1, <2>1
    <3>2. QED
      BY <1>1, <3>1 DEF Matches
  <2>2. CASE i > Len(got)
    <3>1. i - Len(got) \in 1..Len(bytes) /\ Len(got) + (i - Len(got)) = i
      BY <1>1, <2>2
    <3>2. more[Len(got) + (i - Len(got))] = bytes[i - Len(got)]
      BY <1>1, <3>1
    <3>3. log[Len(got) + (i - Len(got))] = bytes[i - Len(got)]
      BY <3>1 DEF Fits
    <3>4. QED
      BY <3>1, <3>2, <3>3
  <2>3. QED
    BY <1>1, <2>1, <2>2
<1>3. QED
  BY <1>1, <1>2 DEF Matches, Fits, more

\* The parts of a follower.
LEMMA ExactParts ==
  ASSUME NEW r \in Follower
  PROVE  /\ r.got \in Seq(Units) /\ r.queue \in Seq(Item) /\ r.from \in Nat /\ r.pos \in Nat
         /\ r.base \in Nat /\ Len(r.got) \in Nat /\ Len(r.queue) \in Nat
         /\ QueueStart(r) \in Nat
BY LenProperties DEF Follower, QueueStart

\* A follower that gets nothing more of the log keeps what it has.
LEMMA ExactGrows ==
  ASSUME NEW log \in Seq(Units), NEW more \in Seq(Units), NEW r \in Follower, Exact(log, r),
         r.at \notin {"replay", "live"}
  PROVE  Exact(log \o more, r)
<1>1. Len(log \o more) = Len(log) + Len(more) /\ Len(log) \in Nat /\ Len(more) \in Nat
  BY Concat
<1>2. PICK end \in 0..Len(log) : LaidOut(log, r.queue, QueueStart(r), end)
  BY DEF Exact, Queued
<1>3. LaidOut(log \o more, r.queue, QueueStart(r), end) /\ end \in 0..Len(log \o more)
  BY <1>1, <1>2, LogGrows, ExactParts
<1>4. Matches(log \o more, r.got, r.from)
  BY LogGrows, ExactParts DEF Exact
<1>5. QED
  BY <1>1, <1>3, <1>4, ExactParts DEF Exact, Queued

\* What is published goes to the end of the log and of the queue.
LEMMA ExactPublished ==
  ASSUME NEW log \in Seq(Units), NEW chunk \in Seq(Units), NEW r \in Follower, Exact(log, r),
         r.at \in {"replay", "live"}
  PROVE  Exact(log \o chunk, [r EXCEPT !.queue = Append(@, Data(chunk))])
<1> DEFINE long == log \o chunk
           s == [r EXCEPT !.queue = Append(@, Data(chunk))]
<1>1. /\ long \in Seq(Units) /\ Len(long) = Len(log) + Len(chunk)
      /\ Len(log) \in Nat /\ Len(chunk) \in Nat
      /\ \A i \in 1..Len(chunk) : long[Len(log) + i] = chunk[i]
  BY Concat
<1>2. /\ s.at = r.at /\ s.got = r.got /\ s.from = r.from /\ s.base = r.base /\ s.pos = r.pos
      /\ s.queue = Append(r.queue, Data(chunk)) /\ QueueStart(s) = QueueStart(r)
  BY DEF Follower, QueueStart
<1>3. LaidOut(log, r.queue, QueueStart(r), Len(log))
  BY DEF Exact, Queued
<1>4. LaidOut(long, r.queue, QueueStart(r), Len(log))
  BY <1>3, LogGrows, ExactParts
<1>5. Matches(long, r.got, r.from)
  BY LogGrows, ExactParts DEF Exact
<1> HIDE DEF long, s
<1>6. Data(chunk) \in Item /\ Data(chunk).bytes = chunk
  BY Items DEF Data
<1>7. Fits(long, chunk, Len(log))
  BY <1>1 DEF Fits
<1>8. LaidOut(long, s.queue, QueueStart(s), Len(log) + Len(chunk))
  BY <1>1, <1>2, <1>4, <1>6, <1>7, ItemPut, ExactParts
<1>9. Queued(long, s)
  <2>1. Len(log) + Len(chunk) \in 0..Len(long) /\ Len(log) + Len(chunk) = Len(long)
    BY <1>1
  <2>2. QED
    BY <1>8, <2>1 DEF Queued
<1>10. Exact(long, s)
  BY <1>1, <1>2, <1>5, <1>9, ExactParts DEF Exact
<1>11. QED
  BY <1>10 DEF long, s

\* The end marker adds nothing.
LEMMA ExactEnded ==
  ASSUME NEW log \in Seq(Units), NEW r \in Follower, Exact(log, r), NEW to,
         (r.at = "replay" /\ to = "lastreplay") \/ (r.at = "live" /\ to = "ending")
  PROVE  Exact(log, [r EXCEPT !.queue = Append(@, End), !.at = to])
<1> DEFINE s == [r EXCEPT !.queue = Append(@, End), !.at = to]
<1>1. /\ s.at = to /\ s.got = r.got /\ s.from = r.from /\ s.base = r.base /\ s.pos = r.pos
      /\ s.queue = Append(r.queue, End) /\ QueueStart(s) = QueueStart(r)
  BY DEF Follower, QueueStart
<1>2. LaidOut(log, r.queue, QueueStart(r), Len(log))
  BY DEF Exact, Queued
<1>3. Len(log) \in Nat /\ End \in Item /\ End.bytes = <<>> /\ Len(<<>>) = 0
  BY Items, EmptySeq, LenProperties DEF End
<1>4. Fits(log, End.bytes, Len(log))
  BY <1>3 DEF Fits
<1>5. Len(log) + Len(End.bytes) = Len(log)
  BY <1>3
<1> HIDE DEF s
<1>6. LaidOut(log, s.queue, QueueStart(s), Len(log))
  BY <1>1, <1>2, <1>3, <1>4, <1>5, ItemPut, ExactParts
<1>7. Queued(log, s)
  BY <1>3, <1>6 DEF Queued
<1>8. Exact(log, s)
  BY <1>1, <1>7 DEF Exact
<1>9. QED
  BY <1>8 DEF s

\* A new subscription: the boundary is where the file ends.
LEMMA ExactFollow ==
  ASSUME StreamInv, Synced, NEW f \in Followers, Follow(f), Following(fol[f]')
  PROVE  Len(file) = side.pos /\ Exact(file, fol[f]')
<1> DEFINE got == fol[f].got
           r == [Idle(got) EXCEPT !.from = Len(got), !.pos = Len(got),
                                  !.at = IF Active THEN "replay" ELSE "file", !.base = stream.pos]
<1>1. /\ fol[f] \in Follower /\ file \in Seq(Units) /\ Len(file) \in Nat /\ stream.pos \in Nat
      /\ side.pos \in Nat /\ fol \in [Followers -> Follower]
  BY LenProperties DEF StreamInv, Typed, FolTyped
<1>2. fol[f]' = r
  BY <1>1 DEF Follow
<1>3. /\ r.from = Len(got) /\ r.pos = Len(got) /\ r.got = got /\ r.base = stream.pos
      /\ r.queue = <<>> /\ r.at \in {"replay", "file"}
  BY DEF Idle
<1>4. got \in Seq(Units) /\ Len(got) \in Nat
  BY <1>1, ExactParts
<1> HIDE DEF r, got
<1>5. r.at = "replay" /\ stream.pos > 0 /\ Len(got) <= stream.pos
  BY <1>2, <1>3 DEF Following
<1>6. stream.pos = Len(file) /\ side.pos = Len(file)
  BY <1>5 DEF Synced
<1>7. Matches(file, r.got, r.from)
  BY <1>1, <1>3, <1>4, <1>5, <1>6 DEF Matches
<1>8. LaidOut(file, r.queue, QueueStart(r), Len(file)) /\ Len(file) \in 0..Len(file)
  <2>1. QueueStart(r) = Len(file) /\ Len(file) \in 0..Len(file)
    BY <1>1, <1>3, <1>5, <1>6 DEF QueueStart
  <2>2. QED
    BY <1>1, <1>3, <2>1, NothingQueued
<1>9. Exact(file, r)
  BY <1>1, <1>3, <1>5, <1>6, <1>7, <1>8 DEF Exact, Queued
<1>10. QED
  BY <1>2, <1>6, <1>9

\* A chunk of the replay: what is read lies below the boundary.
LEMMA ExactReplay ==
  ASSUME StreamInv, NEW f \in Followers, ReplayChunk(f), Following(fol[f]), Exact(file, fol[f])
  PROVE  Exact(file, fol[f]')
<1> DEFINE r == fol[f]
           limit == Least(ReadChunk, Limit(f) - r.pos)
           last == Least(r.pos + limit, Len(file))
           c == SubSeq(file, r.pos + 1, last)
           s == [r EXCEPT !.pos = @ + Len(c), !.got = @ \o c]
<1>1. /\ r \in Follower /\ file \in Seq(Units) /\ Len(file) \in Nat /\ fol \in [Followers -> Follower]
      /\ r.base \in Nat /\ r.pos \in Nat /\ r.got \in Seq(Units) /\ r.from \in Nat /\ Len(r.got) \in Nat
  BY LenProperties, ExactParts DEF StreamInv, Typed, FolTyped
<1>2. fol[f]' = s
  BY <1>1 DEF ReplayChunk, Replay, ReadAt
<1>3. /\ r.at \in {"replay", "lastreplay"} /\ r.pos = Len(r.got) /\ r.pos < r.base
      /\ Limit(f) = r.base /\ r.base <= Len(file)
  BY <1>1 DEF ReplayChunk, Following, Exact, Limit, Least
<1>4. last \in Nat /\ r.pos < last /\ last <= r.base
  BY <1>1, <1>3, Parameters DEF Least
<1> HIDE DEF last
<1>5. /\ c \in Seq(Units) /\ Len(c) = last - r.pos
      /\ \A i \in 1..(last - r.pos) : c[i] = file[r.pos + i]
  <2> DEFINE m == r.pos + 1
  <2>1. m \in Int /\ last \in Int /\ m <= last /\ last - m + 1 = last - r.pos
    BY <1>1, <1>4
  <2>2. \A i \in m..last : file[i] \in Units
    BY <1>1, <1>3, <1>4, ElementOfSeq
  <2>3. \A i \in 1..(last - r.pos) : m + i - 1 = r.pos + i
    BY <1>1, <1>4
  <2> HIDE DEF m
  <2>4. /\ SubSeq(file, m, last) \in Seq(Units)
        /\ Len(SubSeq(file, m, last)) = last - m + 1
        /\ \A i \in 1..(last - m + 1) : SubSeq(file, m, last)[i] = file[m + i - 1]
    BY <2>1, <2>2, SubSeqProperties
  <2>5. QED
    BY <2>1, <2>3, <2>4 DEF m
<1> HIDE DEF c
<1>6. /\ s.at = r.at /\ s.from = r.from /\ s.base = r.base /\ s.queue = r.queue
      /\ s.pos = r.pos + Len(c) /\ s.got = r.got \o c
  BY <1>1 DEF Follower
<1> HIDE DEF s
<1>7. Fits(file, c, Len(r.got))
  BY <1>1, <1>3, <1>4, <1>5 DEF Fits
<1>8. Matches(file, s.got, s.from)
  BY <1>1, <1>5, <1>6, <1>7, GotMore DEF Exact
<1>9. Len(s.got) = Len(r.got) + Len(c)
  <2>1. r.got \in Seq(Units) /\ c \in Seq(Units)
    BY <1>1, <1>5
  <2>2. Len(r.got \o c) = Len(r.got) + Len(c)
    BY <2>1, Concat
  <2>3. QED
    BY <1>6, <2>2
<1>10. QueueStart(s) = QueueStart(r)
  BY <1>3, <1>6 DEF QueueStart
<1>11. Queued(file, s)
  BY <1>6, <1>10 DEF Exact, Queued
<1>12. Exact(file, s)
  BY <1>1, <1>3, <1>4, <1>5, <1>6, <1>8, <1>9, <1>11 DEF Exact
<1>13. QED
  BY <1>2, <1>12

\* The replay is over at the boundary, where the queue begins.
LEMMA ExactReplayed ==
  ASSUME StreamInv, NEW f \in Followers, ReplayDone(f), Following(fol[f]), Exact(file, fol[f])
  PROVE  Exact(file, fol[f]')
<1> DEFINE r == fol[f]
           to == IF r.at = "replay" THEN "live" ELSE "ending"
           s == [r EXCEPT !.at = to]
<1>1. /\ r \in Follower /\ file \in Seq(Units) /\ Len(file) \in Nat /\ fol \in [Followers -> Follower]
      /\ r.base \in Nat /\ r.pos \in Nat
  BY LenProperties, ExactParts DEF StreamInv, Typed, FolTyped
<1>2. r.at \in {"replay", "lastreplay"}
  BY DEF ReplayDone, Following
<1>3. fol[f]' = s
  BY <1>1, <1>2 DEF ReplayDone
<1>4. r.pos = r.base /\ r.pos = Len(r.got)
  BY <1>1, <1>2 DEF ReplayDone, Exact, Limit, Least
<1>5. /\ s.at = to /\ s.from = r.from /\ s.base = r.base /\ s.queue = r.queue
      /\ s.pos = r.pos /\ s.got = r.got
  BY <1>1 DEF Follower
<1>6. QueueStart(s) = QueueStart(r)
  BY <1>2, <1>4, <1>5 DEF QueueStart
<1> HIDE DEF s
<1>7. Queued(file, s)
  BY <1>2, <1>5, <1>6 DEF Exact, Queued
<1>8. QED
  BY <1>3, <1>5, <1>7 DEF Exact

\* An item is taken from the queue: it goes on where the reader is.
LEMMA ExactTake ==
  ASSUME StreamInv, NEW f \in Followers, Take(f), Following(fol[f]), Exact(file, fol[f]),
         Following(fol[f]')
  PROVE  Exact(file, fol[f]')
<1> DEFINE r == fol[f]
           item == Head(r.queue)
           s == [r EXCEPT !.queue = Tail(@), !.got = @ \o item.bytes,
                          !.at = IF item.kind = "end" THEN "over" ELSE @]
<1>1. /\ r \in Follower /\ file \in Seq(Units) /\ Len(file) \in Nat /\ fol \in [Followers -> Follower]
      /\ r.queue \in Seq(Item) /\ r.got \in Seq(Units) /\ r.from \in Nat
  BY LenProperties, ExactParts DEF StreamInv, Typed, FolTyped
<1>2. fol[f]' = s
  BY <1>1 DEF Take
<1>3. r.at \in {"live", "ending"} /\ r.queue # <<>>
  BY DEF Take, Following
<1>4. /\ s.from = r.from /\ s.base = r.base /\ s.pos = r.pos
      /\ s.at = (IF item.kind = "end" THEN "over" ELSE r.at)
      /\ s.queue = Tail(r.queue) /\ s.got = r.got \o item.bytes
  BY <1>1 DEF Follower
<1>5. item \in Item /\ item.bytes \in Seq(Units)
  <2>1. item \in Item
    BY <1>1, <1>3, HeadTailProperties
  <2>2. QED
    BY <2>1 DEF Item
<1>6. PICK end \in 0..Len(file) :
         /\ LaidOut(file, r.queue, Len(r.got), end)
         /\ r.at = "live" => end = Len(file)
  BY <1>3 DEF Exact, Queued, QueueStart
<1>7. /\ Fits(file, item.bytes, Len(r.got))
      /\ LaidOut(file, Tail(r.queue), Len(r.got) + Len(item.bytes), end)
  BY <1>1, <1>3, <1>6, ItemTaken
<1> HIDE DEF s
<1>8. Matches(file, s.got, s.from)
  BY <1>1, <1>4, <1>5, <1>7, GotMore DEF Exact
<1>9. Len(s.got) = Len(r.got) + Len(item.bytes)
  BY <1>1, <1>4, <1>5, Concat
<1>10. s.at = r.at
  BY <1>2, <1>4 DEF Following
<1>11. Queued(file, s)
  BY <1>3, <1>4, <1>6, <1>7, <1>9, <1>10 DEF Queued, QueueStart
<1>12. QED
  BY <1>2, <1>3, <1>4, <1>8, <1>10, <1>11 DEF Exact

----------------------------------------------------------------------------
\* A reader's step: the others are as they were.
LEMMA ReaderKeeps ==
  ASSUME StreamInv, FollowInv, NEW f \in Followers, Follow(f) \/ FollowStep(f) \/ Leave(f)
  PROVE  FollowInv'
<1>1. UNCHANGED <<file, side, stream>>
  BY DEF Follow, FollowStep, ReplayChunk, ReplayDone, Take, Leave, disk
<1>2. fol \in [Followers -> Follower] /\ Synced
  BY DEF StreamInv, FolTyped, FollowInv
<1>3. \A g \in Followers \ {f} : fol'[g] = fol[g]
  BY <1>2 DEF Follow, FollowStep, ReplayChunk, Replay, ReplayDone, Take, Leave
<1>4. SUFFICES ASSUME Following(fol[f]') PROVE Len(file) = side.pos /\ Exact(file, fol[f]')
  <2>1. Synced'
    BY <1>1, <1>2 DEF Synced
  <2>2. ASSUME NEW g \in Followers, Following(fol'[g])
        PROVE  Len(file) = side.pos /\ Exact(file, fol'[g])
    BY <1>3, <1>4, <2>2 DEF FollowInv
  <2>3. QED
    BY <1>1, <2>1, <2>2 DEF FollowInv
<1>5. CASE Follow(f)
  BY <1>2, <1>4, <1>5, ExactFollow
<1>6. CASE ReplayChunk(f)
  <2>1. Following(fol[f])
    BY <1>2, <1>4, <1>6 DEF ReplayChunk, Replay, Following, Follower
  <2>2. QED
    BY <1>6, <2>1, ExactReplay DEF FollowInv
<1>7. CASE ReplayDone(f)
  <2>1. Following(fol[f])
    BY <1>2, <1>4, <1>7 DEF ReplayDone, Following, Follower
  <2>2. QED
    BY <1>7, <2>1, ExactReplayed DEF FollowInv
<1>8. CASE Take(f)
  <2>1. Following(fol[f])
    BY <1>2, <1>4, <1>8 DEF Take, Following, Follower
  <2>2. QED
    BY <1>4, <1>8, <2>1, ExactTake DEF FollowInv
<1>9. CASE Leave(f)
  BY <1>2, <1>4, <1>9 DEF Leave, Following, Idle
<1>10. QED
  BY <1>5, <1>6, <1>7, <1>8, <1>9 DEF FollowStep

\* A chunk or a header reaches file, resume point and followers in one step.
LEMMA PublishKeeps ==
  ASSUME StreamInv, FollowInv, NEW chunk \in Seq(Units), file' = file \o chunk,
         side'.pos = Len(file'), stream'.pos = Len(file'), fol' = Published(chunk)
  PROVE  FollowInv'
<1>1. fol \in [Followers -> Follower] /\ file \in Seq(Units)
  BY DEF StreamInv, Typed, FolTyped
<1>2. Synced'
  BY DEF Synced
<1>3. SUFFICES ASSUME NEW f \in Followers, Following(fol'[f]) PROVE Exact(file', fol'[f])
  BY <1>2 DEF FollowInv
<1>4. CASE f \in Subscribed
  <2>1. fol'[f] = Offered(f, chunk) /\ fol[f].at \in {"replay", "live"}
    BY <1>4 DEF Published, Subscribed
  <2>2. CASE Len(fol[f].queue) < QueueSize
    <3>1. fol'[f] = [fol[f] EXCEPT !.queue = Append(@, Data(chunk))]
      BY <2>1, <2>2 DEF Offered
    <3>2. Following(fol[f])
      BY <1>1, <1>3, <3>1 DEF Following, Follower
    <3>3. Exact(file, fol[f]) /\ fol[f] \in Follower
      BY <1>1, <3>2 DEF FollowInv
    <3>4. Exact(file \o chunk, [fol[f] EXCEPT !.queue = Append(@, Data(chunk))])
      BY <1>1, <2>1, <3>3, ExactPublished, Zenon
    <3>5. QED
      BY <3>1, <3>4
  <2>3. CASE ~(Len(fol[f].queue) < QueueSize)
    <3>1. fol'[f].at = "dropped"
      BY <1>1, <2>1, <2>3 DEF Offered, Follower
    <3>2. QED
      BY <1>3, <3>1 DEF Following
  <2>4. QED
    BY <2>2, <2>3
<1>5. CASE f \notin Subscribed
  <2>1. fol'[f] = fol[f] /\ fol[f].at \notin {"replay", "live"}
    BY <1>5 DEF Published, Subscribed
  <2>2. QED
    BY <1>1, <1>3, <2>1, ExactGrows DEF FollowInv
<1>6. QED
  BY <1>4, <1>5

\* A stream that is stopped ends its followers.
LEMMA StopKeeps ==
  ASSUME StreamInv, FollowInv, Stopped, UNCHANGED <<file, side>>
  PROVE  FollowInv'
<1>1. fol \in [Followers -> Follower] /\ file \in Seq(Units)
  BY DEF StreamInv, Typed, FolTyped
<1>2. Synced'
  BY DEF Synced, Stopped, NoStream
<1>3. SUFFICES ASSUME NEW f \in Followers, Following(fol'[f])
               PROVE  Len(file) = side.pos /\ Exact(file, fol'[f])
  BY <1>2 DEF FollowInv
<1>4. CASE fol[f].at \in {"live", "replay"}
  <2> DEFINE to == IF fol[f].at = "replay" THEN "lastreplay" ELSE "ending"
  <2>1. fol'[f] = IF fol[f].at = "live" THEN Ended(f) ELSE [Ended(f) EXCEPT !.at = "lastreplay"]
    BY <1>4 DEF Stopped, EndFollowers
  <2>2. CASE Len(fol[f].queue) < QueueSize
    <3>1. fol'[f] = [fol[f] EXCEPT !.queue = Append(@, End), !.at = to]
      BY <1>1, <1>4, <2>1, <2>2 DEF Ended, Follower
    <3>2. Following(fol[f])
      BY <1>1, <1>3, <1>4, <3>1 DEF Following, Follower
    <3>3. Len(file) = side.pos /\ Exact(file, fol[f])
      BY <3>2 DEF FollowInv
    <3>4. \/ fol[f].at = "replay" /\ to = "lastreplay"
          \/ fol[f].at = "live" /\ to = "ending"
      BY <1>4
    <3>5. fol[f] \in Follower
      BY <1>1
    <3> HIDE DEF to
    <3>6. Exact(file, [fol[f] EXCEPT !.queue = Append(@, End), !.at = to])
      BY <1>1, <3>3, <3>4, <3>5, ExactEnded
    <3>7. QED
      BY <3>1, <3>3, <3>6
  <2>3. CASE ~(Len(fol[f].queue) < QueueSize)
    <3>1. fol'[f].squeezed
      BY <1>1, <1>4, <2>1, <2>3 DEF Ended, Follower
    <3>2. QED
      BY <1>3, <3>1 DEF Following
  <2>4. QED
    BY <2>2, <2>3
<1>5. CASE fol[f].at \notin {"live", "replay"}
  <2>1. fol'[f] = fol[f]
    BY <1>5 DEF Stopped, EndFollowers
  <2>2. QED
    BY <1>3, <2>1 DEF FollowInv
<1>6. QED
  BY <1>4, <1>5

\* The stream task publishes all it writes, and truncates nothing anybody holds.
LEMMA StreamKeeps == ASSUME StreamInv, FollowInv, StreamStep PROVE FollowInv'
<1>1. Typed /\ Connected /\ file \in Seq(Units) /\ side.pos \in Nat /\ Len(file) \in Nat
  BY LenProperties DEF StreamInv, Typed
<1>2. CASE Connect
  <2>1. CASE Resumes
    <3>1. /\ file' = Truncated /\ side' = side /\ fol' = fol /\ stream'.pos = side.pos
      BY <1>1, <1>2, <2>1 DEF Connect, Typed
    <3>2. /\ file' \in Seq(Units) /\ Len(file') = side.pos
      BY <1>1, <1>2, <3>1, TruncateWrite DEF StreamInv, Connect, placement
    <3>3. Synced'
      BY <3>1, <3>2 DEF Synced
    <3>4. ASSUME Len(file) = side.pos PROVE file' = file
      BY <1>1, <3>1, <3>4 DEF Truncated
    <3>5. QED
      BY <3>1, <3>3, <3>4 DEF FollowInv
  <2>2. CASE ~Resumes
    <3>1. /\ file' = Append(file, Header) /\ side'.pos = Len(file') /\ stream'.pos = Len(file')
          /\ fol' = Published(<<Header>>)
      <4>1. /\ file' = Headed /\ side' = [att |-> attempt, offset |-> 0, pos |-> Len(Headed)]
            /\ stream' = [stream EXCEPT !.task = "reading", !.pos = Len(Headed)]
            /\ fol' = Published(<<Header>>)
        BY <1>2, <2>2 DEF Connect
      <4>2. stream'.pos = Len(Headed)
        BY <1>1, <4>1 DEF Typed
      <4>3. QED
        BY <4>1, <4>2 DEF Headed
    <3>2. Header \in Units
      BY <1>1, Parameters DEF Typed, Header, Units
    <3>3. <<Header>> \in Seq(Units) /\ file' = file \o <<Header>>
      BY <1>1, <3>1, <3>2
    <3>4. QED
      BY <3>1, <3>3, PublishKeeps
  <2>3. QED
    BY <2>1, <2>2
<1>3. ASSUME NEW chunk \in Seq(Units), Ingest(chunk) PROVE FollowInv'
  <2>1. /\ file' = file \o chunk /\ side'.pos = Len(file') /\ stream'.pos = Len(file')
        /\ fol' = Published(chunk)
    BY <1>1, <1>3 DEF Ingest, Appended, Saved, Typed
  <2>2. QED
    BY <2>1, PublishKeeps
<1>4. CASE Receive
  <2>1. side.att = attempt /\ Available
    BY <1>1, <1>4 DEF Receive, Connected
  <2>2. Chunk \in Seq(Units) /\ Ingest(Chunk)
    BY <1>1, <1>4, <2>1, ChunkPiece DEF Piece, Receive
  <2>3. QED
    BY <1>3, <2>2
<1>5. CASE ReceiveCut
  <2>1. side.att = attempt /\ Available
    BY <1>1, <1>5 DEF ReceiveCut, Connected
  <2>2. PICK n \in 1..(LineEnd(side.offset) - side.offset - 1) : Ingest(CutChunk(n))
    BY <1>5 DEF ReceiveCut
  <2>3. CutChunk(n) \in Seq(Units)
    BY <1>1, <1>5, <2>1, CutPiece DEF Piece, ReceiveCut
  <2>4. QED
    BY <1>3, <2>2, <2>3
<1>6. CASE Disconnect \/ Reconnect
  <2>1. UNCHANGED <<file, side, fol>> /\ stream'.pos = stream.pos
    BY <1>1, <1>6 DEF Disconnect, Reconnect, disk, Typed
  <2>2. QED
    BY <2>1 DEF FollowInv, Synced
<1>7. QED
  BY <1>2, <1>4, <1>5, <1>6 DEF StreamStep

\* Every other step leaves the file alone; a crash leaves nobody following.
LEMMA FollowKeeps == ASSUME StreamInv, FollowInv, [Next]_vars PROVE FollowInv'
<1>1. CASE WriteLine \/ WorkerDies \/ Activate \/ UNCHANGED vars
  <2>1. UNCHANGED <<file, side, stream, fol>>
    BY <1>1 DEF WriteLine, WorkerDies, Activate, vars, disk
  <2>2. QED
    BY <2>1 DEF FollowInv, Synced
<1>2. CASE Start \/ Restart
  <2>1. UNCHANGED <<file, side, fol>> /\ (stream'.pos = 0 \/ stream'.pos = stream.pos)
    BY <1>2 DEF Start, Restart, disk, NoStream, StreamInv, Typed
  <2>2. QED
    BY <2>1 DEF FollowInv, Synced
<1>3. CASE Forget \/ PollResult \/ PollGone
  BY <1>3, StopKeeps DEF Forget, PollResult, PollGone, disk
<1>4. CASE Crash \/ CrashHeader \/ CrashUnsaved \/ CrashUnparsed
  <2>1. Die
    BY <1>4 DEF Crash, CrashHeader, CrashUnsaved, CrashUnparsed
  <2>2. stream'.pos = 0
    BY <2>1 DEF Die, NoStream
  <2>3. \A f \in Followers : ~Following(fol'[f])
    BY <2>1 DEF Die, Following, Idle
  <2>4. QED
    BY <2>2, <2>3 DEF FollowInv, Synced
<1>5. QED
  BY <1>1, <1>2, <1>3, <1>4, ReaderKeeps, StreamKeeps DEF Next, Observe

\* Whoever subscribed to a connected stream holds the file from where it
\* began: the replayed part up to the boundary, then the queue, with neither a
\* gap nor an overlap between them, though chunks are published while it
\* replays, connections break and are resumed, and the stream ends under it
\* (jobstream.py follow, _publish, _end_followers).
THEOREM FollowCorrect == Spec => []FollowExact
<1>1. Init => FollowInv
  BY DEF Init, FollowInv, Synced, Following, Idle, NoStream
<1>2. StreamInv /\ FollowInv /\ [Next]_vars => FollowInv'
  BY FollowKeeps
<1>3. StreamInv /\ FollowInv => FollowExact
  <2> SUFFICES ASSUME StreamInv, FollowInv, NEW f \in Followers, Following(fol[f])
               PROVE  Holds(SubSeq(fol[f].got, fol[f].from + 1, Len(fol[f].got)), fol[f].from)
    BY DEF FollowExact, Following
  <2> DEFINE r == fol[f]
             held == SubSeq(r.got, r.from + 1, Len(r.got))
  <2>1. /\ r \in Follower /\ r.got \in Seq(Units) /\ r.from \in Nat /\ Len(r.got) \in Nat
        /\ file \in Seq(Units) /\ DOMAIN file = 1..Len(file) /\ Len(file) \in Nat
    BY LenProperties, ExactParts DEF StreamInv, Typed, FolTyped
  <2>2. Matches(file, r.got, r.from)
    BY DEF FollowInv, Exact
  <2> HIDE DEF r
  <2>3. /\ held \in Seq(Units) /\ Len(held) = Len(r.got) - r.from
        /\ \A i \in 1..(Len(r.got) - r.from) : held[i] = r.got[r.from + i]
    <3> DEFINE m == r.from + 1
               n == Len(r.got)
    <3>1. /\ m \in Int /\ n \in Int /\ n - m + 1 = n - r.from
          /\ (IF m <= n THEN n - m + 1 ELSE 0) = n - r.from
          /\ \A i \in 1..(n - r.from) : m + i - 1 = r.from + i
      BY <2>1, <2>2 DEF Matches
    <3>2. \A i \in m..n : r.got[i] \in Units
      BY <2>1, ElementOfSeq
    <3> HIDE DEF m, n
    <3>3. /\ SubSeq(r.got, m, n) \in Seq(Units)
          /\ Len(SubSeq(r.got, m, n)) = IF m <= n THEN n - m + 1 ELSE 0
          /\ \A i \in 1..(n - m + 1) : SubSeq(r.got, m, n)[i] = r.got[m + i - 1]
      BY <3>1, <3>2, SubSeqProperties
    <3>4. QED
      BY <3>1, <3>3 DEF m, n
  <2> HIDE DEF held
  <2>4. DOMAIN held = 1..(Len(r.got) - r.from)
    BY <2>3, LenProperties
  <2>5. ASSUME NEW i \in DOMAIN held
        PROVE  r.from + i \in DOMAIN file /\ file[r.from + i] = held[i]
    <3>1. r.from + i \in (r.from + 1)..Len(r.got) /\ r.from + i \in 1..Len(file)
      BY <2>1, <2>2, <2>4 DEF Matches
    <3>2. QED
      BY <2>1, <2>2, <2>3, <2>4, <3>1 DEF Matches
  <2>6. QED
    BY <2>5 DEF Holds, held, r
<1>4. QED
  BY <1>1, <1>2, <1>3, StreamInvAlways, PTL DEF Spec
=============================================================================
