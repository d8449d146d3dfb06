----------------------------- MODULE Bootstrap -----------------------------
(***************************************************************************)
(* What runs on a worker (bootstrap.py, backends/jobdir.py): the script of *)
(* each job of one project, which share the checkouts, one environment and *)
(* the mkdir locks that serialize them, and the client's side of the job   *)
(* directory: staging, launching, signalling, reading the status in one or *)
(* several rounds, following the log.                                      *)
(*                                                                         *)
(* Time is abstract: a heartbeat is fresh as long as something refreshes   *)
(* it and grows old when nothing does, and a waiter may have waited longer *)
(* than the timeout at any moment.                                         *)
(***************************************************************************)
EXTENDS Naturals, FiniteSets

CONSTANTS
    Jobs, Revs,
    Settings,     \* the cases to consider: the first three variables
    Built,        \* what an earlier job of the project built the environment for
    Watched,      \* the job whose status and log a client reads
    None,
    MaxDeaths     \* bound: kills, signals and reboots

ASSUME BootstrapAssumption ==
    /\ Settings \subseteq [Jobs -> Revs] \X {"uv", "plain"} \X {"local", "ssh"}
    /\ Built \subseteq Revs \cup {None} /\ Watched \in Jobs
    /\ MaxDeaths \in Nat /\ None \notin Jobs \cup Revs

VARIABLES
    rev, mode, via,   \* each job's revision, the project's env mode, the adapter
    stage, hold,  \* where each script is, and where in the stage's lock
    up,           \* is the script's process alive
    patience,     \* has it waited longer than the timeout in this lock call
    nurses,       \* the lock refreshers each script left in the background
    lock,         \* the lock directories
    objects, tree, venv, stamp,  \* what the jobs of the project share
    jobdir,       \* each job's directory
    beating,      \* is the job's heartbeat loop alive
    look, told,   \* the observer: the read under way, the last verdict
    hurt,         \* ghost: locks whose holder died or whose waiter lost patience
    deaths

settings == <<rev, mode, via>>
script == <<stage, hold, up, patience>>
shared == <<nurses, lock, objects, tree, venv, stamp>>
client == <<look, told>>
bootVars == <<settings, script, shared, jobdir, beating, client, hurt, deaths>>

----------------------------------------------------------------------------
Locks == {"venv"} \cup Revs
\* The lock of a stage: one for the environment, one for each revision's tree.
LockOf(j) == IF stage[j] = "env" THEN "venv" ELSE rev[j]

Gone == [there |-> FALSE, beat |-> "none", nurse |-> None]
NoDir == [dir |-> FALSE, pgid |-> FALSE, beat |-> "none", result |-> "none"]

Inside == {"got", "in", "work", "stamp", "out", "bad"}
HoldsLock(j, d) == stage[j] \in {"tree", "env"} /\ LockOf(j) = d /\ hold[j] \in Inside

BootTypeOK ==
    /\ <<rev, mode, via>> \in Settings
    /\ stage \in [Jobs -> {"new", "launched", "code", "tree", "env", "run",
                           "failing", "exit", "over"}]
    /\ hold \in [Jobs -> Inside \cup {"none", "check", "wait", "rob"}]
    /\ up \in [Jobs -> BOOLEAN] /\ patience \in [Jobs -> BOOLEAN]
    /\ nurses \in [Jobs -> SUBSET Locks]
    /\ lock \in [Locks -> [there : BOOLEAN, beat : {"none", "fresh", "old"},
                           nurse : Jobs \cup {None}]]
    /\ objects \subseteq Revs /\ tree \in [Revs -> {"none", "half", "whole"}]
    /\ venv \in Revs \cup {None, "half"} /\ stamp \in Revs \cup {None}
    /\ jobdir \in [Jobs -> [dir : BOOLEAN, pgid : BOOLEAN, beat : {"none", "fresh", "old"},
                          result : {"none", "ok", "failed"}]]
    /\ beating \in [Jobs -> BOOLEAN]
    /\ look \in {"none", "pid", "result"} /\ told \in {"alive", "ended", "lost"}
    /\ hurt \subseteq Locks /\ deaths \in 0..MaxDeaths

\* The environment is absent, or an earlier job of the project built it.
BootInit ==
    /\ \E s \in Settings : rev = s[1] /\ mode = s[2] /\ via = s[3]
    /\ stage = [j \in Jobs |-> "new"] /\ hold = [j \in Jobs |-> "none"]
    /\ up = [j \in Jobs |-> FALSE] /\ patience = [j \in Jobs |-> FALSE]
    /\ nurses = [j \in Jobs |-> {}] /\ lock = [d \in Locks |-> Gone]
    /\ venv \in Built /\ stamp = IF mode = "uv" THEN venv ELSE None
    /\ objects = {venv} \ {None}
    /\ tree = [r \in Revs |-> IF r = venv THEN "whole" ELSE "none"]
    /\ jobdir = [j \in Jobs |-> NoDir] /\ beating = [j \in Jobs |-> FALSE]
    /\ look = "none" /\ told = "alive"
    /\ hurt = {} /\ deaths = 0

At(j, s, h) == up[j] /\ stage[j] = s /\ hold[j] = h

Go(j, s, h) ==
    /\ stage' = [stage EXCEPT ![j] = s] /\ hold' = [hold EXCEPT ![j] = h]
    /\ UNCHANGED up

----------------------------------------------------------------------------
(***************************************************************************)
(* The client prepares and launches a job.                                 *)
(***************************************************************************)
\* stage_job pushes the sha (the loser of a race of two pushes finds it
\* there) and writes the script into the job's directory; it is started in a
\* session of its own.
Submit(j) ==
    /\ stage[j] = "new"
    /\ stage' = [stage EXCEPT ![j] = "launched"]
    /\ up' = [up EXCEPT ![j] = TRUE]
    /\ objects' = objects \cup {rev[j]}
    /\ jobdir' = [jobdir EXCEPT ![j].dir = TRUE]
    /\ UNCHANGED <<settings, hold, patience, nurses, lock, tree, venv, stamp, beating, client,
                   hurt, deaths>>

----------------------------------------------------------------------------
(***************************************************************************)
(* The script up to the locks.                                             *)
(***************************************************************************)
\* mkdir -p, and the process group is recorded for cancel.
Begin(j) ==
    /\ At(j, "launched", "none")
    /\ jobdir' = [jobdir EXCEPT ![j].dir = TRUE, ![j].pgid = TRUE]
    /\ Go(j, "code", "none")
    /\ UNCHANGED <<settings, patience, shared, beating, client, hurt, deaths>>

\* The code is in the object store, or a fetch brings it or fails.
Code(j) ==
    /\ At(j, "code", "none")
    /\ \/ Go(j, "tree", "wait") /\ objects' = objects \cup {rev[j]}
       \/ Go(j, "failing", "none") /\ UNCHANGED objects
    /\ UNCHANGED <<settings, patience, nurses, lock, tree, venv, stamp, jobdir, beating, client, hurt,
                   deaths>>

\* The unlocked look at the stamp: a match skips the environment's lock.
Glance(j) ==
    /\ At(j, "env", "check")
    /\ IF mode = "uv" /\ stamp = rev[j] THEN Go(j, "run", "none") ELSE Go(j, "env", "wait")
    /\ UNCHANGED <<settings, patience, shared, jobdir, beating, client, hurt, deaths>>

----------------------------------------------------------------------------
(***************************************************************************)
(* omnirun_lock and omnirun_unlock.                                        *)
(***************************************************************************)
\* Mutant: a waiter takes any lock it finds for a stale one.
BugExpired(d) == lock[d].there

\* A heartbeat older than the timeout.
Expired(d) == lock[d].beat = "old"

\* mkdir succeeds.
TakeLock(j) ==
    LET d == LockOf(j)
    IN  /\ up[j] /\ hold[j] = "wait" /\ ~lock[d].there
        /\ lock' = [lock EXCEPT ![d] = [Gone EXCEPT !.there = TRUE]]
        /\ hold' = [hold EXCEPT ![j] = "got"]
        /\ patience' = [patience EXCEPT ![j] = FALSE]
        /\ UNCHANGED <<settings, stage, up, nurses, objects, tree, venv, stamp, jobdir,
                       beating, client, hurt, deaths>>

\* mkdir fails and the lock is judged abandoned: its heartbeat is old, or
\* this waiter has waited too long, whatever the heartbeat says.
Condemn(j) ==
    LET d == LockOf(j)
    IN  /\ up[j] /\ hold[j] = "wait" /\ lock[d].there
        /\ Expired(d) \/ patience[j]
        /\ hold' = [hold EXCEPT ![j] = "rob"]
        /\ hurt' = IF Expired(d) THEN hurt ELSE hurt \cup {d}
        /\ UNCHANGED <<settings, stage, up, patience, shared, jobdir, beating, client, deaths>>

\* rm -rf: of whatever lock is there by now.
Rob(j) ==
    /\ up[j] /\ hold[j] = "rob"
    /\ lock' = [lock EXCEPT ![LockOf(j)] = Gone]
    /\ hold' = [hold EXCEPT ![j] = "wait"]
    /\ UNCHANGED <<settings, stage, up, patience, nurses, objects, tree, venv, stamp, jobdir,
                   beating, client, hurt, deaths>>

\* Mutant: a waiter trusts the heartbeat alone.
BugTires(j) == FALSE /\ UNCHANGED patience

Tires(j) ==
    /\ up[j] /\ hold[j] = "wait" /\ lock[LockOf(j)].there /\ ~patience[j]
    /\ patience' = [patience EXCEPT ![j] = TRUE]

\* The waiter's own clock passes the timeout; it is not reset by a theft.
Overwait(j) ==
    /\ Tires(j)
    /\ UNCHANGED <<settings, stage, hold, up, shared, jobdir, beating, client, hurt, deaths>>

\* The holder writes the heartbeat and starts the refresher.  In a directory
\* removed meanwhile the writes fail, which the environment's caller notices
\* (and leaves without unlocking) and the tree's does not.
Settle(j) ==
    LET d == LockOf(j)
    IN  /\ up[j] /\ hold[j] = "got"
        /\ nurses' = [nurses EXCEPT ![j] = @ \cup {d}]
        /\ IF lock[d].there
           THEN lock' = [lock EXCEPT ![d].beat = "fresh", ![d].nurse = j]
           ELSE UNCHANGED lock
        /\ IF lock[d].there \/ stage[j] = "tree"
           THEN Go(j, stage[j], "in") ELSE Go(j, "failing", "none")
        /\ UNCHANGED <<settings, patience, objects, tree, venv, stamp, jobdir, beating, client,
                       hurt, deaths>>

\* A refresher's tick: it keeps the lock fresh, or finds no lock and exits.
Refresh(j, d) ==
    /\ d \in nurses[j]
    /\ IF lock[d].there
       THEN lock[d].beat # "fresh" /\ lock' = [lock EXCEPT ![d].beat = "fresh"] /\ UNCHANGED nurses
       ELSE nurses' = [nurses EXCEPT ![j] = @ \ {d}] /\ UNCHANGED lock
    /\ UNCHANGED <<settings, script, objects, tree, venv, stamp, jobdir, beating, client, hurt, deaths>>

\* Time passes over a lock nobody refreshes.
Age(d) ==
    /\ lock[d].beat = "fresh" /\ \A j \in Jobs : d \notin nurses[j]
    /\ lock' = [lock EXCEPT ![d].beat = "old"]
    /\ UNCHANGED <<settings, script, nurses, objects, tree, venv, stamp, jobdir, beating, client,
                   hurt, deaths>>

\* The refresher whose pid the lock records is killed, whoever started it.
Unlocked(d) ==
    /\ nurses' = [k \in Jobs |-> IF k = lock[d].nurse THEN nurses[k] \ {d} ELSE nurses[k]]
    /\ lock' = [lock EXCEPT ![d] = Gone]

Unlock(j) ==
    /\ up[j] /\ hold[j] \in {"out", "bad"}
    /\ Unlocked(LockOf(j))
    /\ IF hold[j] = "bad" THEN Go(j, "failing", "none")
       ELSE IF stage[j] = "tree" THEN Go(j, "env", "check")
       ELSE Go(j, "run", "none")
    /\ UNCHANGED <<settings, patience, objects, tree, venv, stamp, jobdir, beating, client, hurt,
                   deaths>>

----------------------------------------------------------------------------
(***************************************************************************)
(* The critical sections.                                                  *)
(***************************************************************************)
\* git worktree add starts, unless the directory is there (whole or not).
EnterTree(j) ==
    /\ At(j, "tree", "in")
    /\ IF tree[rev[j]] # "none"
       THEN Go(j, "tree", "out") /\ UNCHANGED tree
       ELSE Go(j, "tree", "work") /\ tree' = [tree EXCEPT ![rev[j]] = "half"]
    /\ UNCHANGED <<settings, patience, nurses, lock, objects, venv, stamp, jobdir, beating, client,
                   hurt, deaths>>

\* It ends: the checkout is whole, or git fails and takes it back.
Filled(j) ==
    \/ Go(j, "tree", "out") /\ tree' = [tree EXCEPT ![rev[j]] = "whole"]
    \/ Go(j, "tree", "bad") /\ tree' = [tree EXCEPT ![rev[j]] = "none"]

FillTree(j) ==
    /\ At(j, "tree", "work")
    /\ Filled(j)
    /\ UNCHANGED <<settings, patience, nurses, lock, objects, venv, stamp, jobdir, beating, client,
                   hurt, deaths>>

\* The stamp is read again under the lock; a sync begins to change the
\* environment, whose old stamp stays.
EnterEnv(j) ==
    /\ At(j, "env", "in")
    /\ IF mode = "uv" /\ stamp = rev[j]
       THEN Go(j, "env", "out") /\ UNCHANGED venv
       ELSE Go(j, "env", "work") /\ venv' = "half"
    /\ UNCHANGED <<settings, patience, nurses, lock, objects, tree, stamp, jobdir, beating, client,
                   hurt, deaths>>

EnvSynced(j) ==
    \/ Go(j, "env", IF mode = "uv" THEN "stamp" ELSE "out") /\ venv' = rev[j]
    \/ Go(j, "env", "bad") /\ UNCHANGED venv

FillEnv(j) ==
    /\ At(j, "env", "work")
    /\ EnvSynced(j)
    /\ UNCHANGED <<settings, patience, nurses, lock, objects, tree, stamp, jobdir, beating, client,
                   hurt, deaths>>

Stamped(j) == stamp' = rev[j]

Stamp(j) ==
    /\ At(j, "env", "stamp")
    /\ Stamped(j)
    /\ Go(j, "env", "out")
    /\ UNCHANGED <<settings, patience, nurses, lock, objects, tree, venv, jobdir, beating, client,
                   hurt, deaths>>

----------------------------------------------------------------------------
(***************************************************************************)
(* The run and its result.                                                 *)
(***************************************************************************)
\* The heartbeat loop starts, then the command.
StartRun(j) ==
    /\ At(j, "run", "none") /\ ~beating[j]
    /\ beating' = [beating EXCEPT ![j] = TRUE]
    /\ jobdir' = [jobdir EXCEPT ![j].beat = "fresh"]
    /\ UNCHANGED <<settings, script, shared, client, hurt, deaths>>

\* The command ends, with an exit code that is not the script's, and its
\* outputs are collected; or the script gives up.
WriteResult(j) ==
    /\ At(j, "failing", "none") \/ (At(j, "run", "none") /\ beating[j])
    /\ \E verdict \in IF stage[j] = "failing" THEN {"failed"} ELSE {"ok", "failed"} :
           jobdir' = [jobdir EXCEPT ![j].result = verdict]
    /\ Go(j, "exit", "none")
    /\ UNCHANGED <<settings, patience, shared, beating, client, hurt, deaths>>

\* The exit trap, set when the heartbeat loop was started.
Trap(j) == beating' = [beating EXCEPT ![j] = FALSE]

Exit(j) ==
    /\ At(j, "exit", "none")
    /\ stage' = [stage EXCEPT ![j] = "over"] /\ up' = [up EXCEPT ![j] = FALSE]
    /\ Trap(j)
    /\ UNCHANGED <<settings, hold, patience, shared, jobdir, client, hurt, deaths>>

----------------------------------------------------------------------------
(***************************************************************************)
(* Deaths: the machine reboots, cancel signals the recorded group, or the  *)
(* script alone is killed and what it left in the background lives on.     *)
(***************************************************************************)
Hurt(js) == hurt \cup {d \in Locks : \E j \in js : up[j] /\ HoldsLock(j, d)}

Reboot ==
    /\ \E j \in Jobs : up[j]
    /\ up' = [j \in Jobs |-> FALSE] /\ nurses' = [j \in Jobs |-> {}]
    /\ beating' = [j \in Jobs |-> FALSE]
    /\ hurt' = Hurt(Jobs)
    /\ UNCHANGED <<stage, lock>>

\* signal_job: the group of the pgid file; nothing when it is not written.
Signal(j) ==
    /\ jobdir[j].pgid /\ (up[j] \/ beating[j] \/ nurses[j] # {})
    /\ up' = [up EXCEPT ![j] = FALSE] /\ nurses' = [nurses EXCEPT ![j] = {}]
    /\ beating' = [beating EXCEPT ![j] = FALSE]
    /\ hurt' = Hurt({j})
    /\ UNCHANGED <<stage, lock>>

Killed(j) ==
    /\ up[j]
    /\ up' = [up EXCEPT ![j] = FALSE]
    /\ hurt' = Hurt({j})
    /\ UNCHANGED <<stage, lock, nurses, beating>>

Death ==
    /\ deaths < MaxDeaths /\ deaths' = deaths + 1
    /\ Reboot \/ \E j \in Jobs : Signal(j) \/ Killed(j)
    /\ UNCHANGED <<settings, hold, patience, objects, tree, venv, stamp, jobdir, client>>

\* The heartbeat of a job grows old once its loop is gone.
Fade(j) ==
    /\ jobdir[j].beat = "fresh" /\ ~beating[j]
    /\ jobdir' = [jobdir EXCEPT ![j].beat = "old"]
    /\ UNCHANGED <<settings, script, shared, beating, client, hurt, deaths>>

----------------------------------------------------------------------------
(***************************************************************************)
(* The client's reads.                                                     *)
(***************************************************************************)
\* status_command and parse_status_result.
Report(f) ==
    IF f.result # "none" THEN "ended"
    ELSE IF ~f.dir \/ f.beat = "old" THEN "lost"
    ELSE IF f.beat = "fresh" THEN "running" ELSE "starting"

Reported(what) == told' = what /\ look' = "none"

Frame == UNCHANGED <<settings, script, shared, jobdir, beating, hurt, deaths>>

\* The first round; the process is looked at next when the job seems to
\* live.  A verdict that ends the job is not asked for again.
ReadStatus ==
    /\ look = "none" /\ stage[Watched] # "new" /\ told = "alive"
    /\ IF Report(jobdir[Watched]) \in {"starting", "running"}
       THEN look' = "pid" /\ UNCHANGED told
       ELSE Reported(Report(jobdir[Watched]))
    /\ Frame

\* Mutant: the local adapter, too, takes a dead process for a lost job.
BugSecondLook == {}

\* The adapters that look for a result again before they call a job lost.
SecondLook == {"local"}

\* kill -0.
LookPid ==
    /\ look = "pid"
    /\ CASE up[Watched] -> Reported("alive")
         [] ~up[Watched] /\ via \in SecondLook -> look' = "result" /\ UNCHANGED told
         [] OTHER -> Reported("lost")
    /\ Frame

\* A result is there by now: the first round's verdict stands.
LookResult ==
    /\ look = "result"
    /\ Reported(IF jobdir[Watched].result = "none" THEN "lost" ELSE "alive")
    /\ Frame

----------------------------------------------------------------------------
\* What the script does by itself.
Script(j) ==
    \/ Begin(j) \/ Code(j) \/ Glance(j) \/ TakeLock(j) \/ Condemn(j) \/ Rob(j) \/ Settle(j)
    \/ EnterTree(j) \/ FillTree(j) \/ EnterEnv(j) \/ FillEnv(j) \/ Stamp(j) \/ Unlock(j)
    \/ StartRun(j) \/ WriteResult(j) \/ Exit(j)

ObserveStatus == ReadStatus \/ LookPid \/ LookResult

\* Every script has ended or died, or sleeps before its next mkdir.
AllEnded ==
    /\ \A j \in Jobs : stage[j] # "new" /\ (up[j] => hold[j] = "wait")
    /\ UNCHANGED bootVars

BootNext ==
    \/ \E j \in Jobs :
           \/ Submit(j) \/ Script(j) \/ Overwait(j) \/ Fade(j)
           \/ \E d \in Locks : Refresh(j, d)
    \/ \E d \in Locks : Age(d)
    \/ Death \/ ObserveStatus \/ AllEnded

\* The scripts run and the waiters' clocks advance; no job has to be launched
\* and no process has to die.
ScriptFairness == \A j \in Jobs : WF_bootVars(Script(j)) /\ WF_bootVars(Overwait(j))

BootSpec == BootInit /\ [][BootNext]_bootVars /\ ScriptFairness

----------------------------------------------------------------------------
(***************************************************************************)
(* Properties.                                                             *)
(***************************************************************************)
\* Two scripts are never inside the same lock, unless a holder died in it or
\* a waiter overran the timeout: check-then-remove on heartbeats alone is
\* safe only among the living (omnirun_lock).
LockExclusive ==
    \A d \in Locks : d \notin hurt =>
        Cardinality({j \in Jobs : up[j] /\ HoldsLock(j, d)}) <= 1

\* A script past its checkout works in a whole tree: the directory test
\* outside git (`[ -d "$TREE_DIR" ] || git worktree add') mistakes a half
\* made one for it only after a death or a theft.
TreeWhole ==
    \A j \in Jobs :
        up[j] /\ stage[j] \in {"env", "run"} /\ rev[j] \notin hurt
            => tree[rev[j]] = "whole"

\* When the jobs are of one revision, a command starts in the environment of
\* that revision even if the sync was skipped on the unlocked look.
EnvReady ==
    \A j \in Jobs :
        up[j] /\ stage[j] = "run" /\ "venv" \notin hurt /\ mode = "uv"
          /\ (\A k \in Jobs : rev[k] = rev[j])
            => venv = rev[j]

\* LOST is a death: the script is gone for good, and except over ssh, whose
\* two rounds are not followed by a third, it left no result.
LostIsDeath ==
    told = "lost" => ~up[Watched] /\ (via # "ssh" => jobdir[Watched].result = "none")

\* Every script ends, by its result or its death: neither a holder that died
\* before its first heartbeat nor a refresher that outlived its script nor a
\* robbed holder's late unlock blocks a waiter for ever.
EveryScriptEnds == \A j \in Jobs : up[j] ~> ~up[j]

\* What the scripts of a project share is used by one at a time and whole when used.
SharedWhole == BootTypeOK /\ LockExclusive /\ TreeWhole /\ EnvReady
=============================================================================
