------------------------------- MODULE Store -------------------------------
(***************************************************************************)
(* The store seen from its callers' threads (state/store.py): a transition *)
(* is a compare-and-set on jobs.seq that writes the row, its event and the *)
(* resource bookkeeping together, built by `cas_step' from two reads made  *)
(* earlier; a plain save writes a whole record read earlier and compares   *)
(* nothing; a database of an older version is migrated when it is opened.  *)
(*                                                                         *)
(* A loop thread makes the engine's calls, a handler thread the client's,  *)
(* a worker thread only saves.  Module Engine has the choreography of the  *)
(* calls; here a call is made whenever the caller's own check allows it.   *)
(***************************************************************************)
EXTENDS Naturals, Sequences, SequencesExt, FiniteSets

CONSTANTS
    JobIds, Providers,
    Loops, Handlers, Workers,   \* the threads
    None,                       \* a Python None
    Versions,                   \* the schema versions a database is found at
    MaxCalls, MaxSaves          \* bounds of the model

ASSUME StoreAssumption ==
    /\ MaxCalls \in Nat /\ MaxSaves \in Nat
    /\ None \notin Providers \cup JobIds
    /\ Versions \subseteq 0..8   \* version 9 is the current one

VARIABLES
    version,   \* meta.schema_version, 0 when unset
    row,       \* the jobs table: the token, the record, whether it parses
    log,       \* the events of each job, in the order of their ids
    rented,    \* the resources table: a provider's key for each job
    thread,    \* where each thread is in its call
    clobbered, \* ghost: jobs where a plain save undid a transition
    adopted,   \* ghost: jobs an upgrade found placed
    outdated,  \* ghost: the calls that went through though their caller's check had gone
    calls, saves   \* counted for the bounds

storeVars == <<version, row, log, rented, thread, clobbered, adopted, outdated, calls, saves>>

Threads == Loops \cup Handlers \cup Workers
Current == 9
Finished == {"succeeded", "failed", "cancelled"}
Pending == {"queued", "held"}

\* What of a record the transitions read and write.
Life == [st : {"none", "placing", "running"} \cup Pending \cup Finished,
         prov : Providers \cup {None}, cached : BOOLEAN, reaped : BOOLEAN,
         edited : BOOLEAN]

Blank == [st |-> "none", prov |-> None, cached |-> FALSE, reaped |-> FALSE, edited |-> FALSE]
Asleep == [pc |-> "idle", job |-> None, op |-> None, prov |-> None, seq |-> 0,
           life |-> Blank, left |-> 0]

----------------------------------------------------------------------------
(***************************************************************************)
(* The transitions: the states a call may start from, the state it leads   *)
(* to, and what else it writes.  The states of a record are those of the   *)
(* scheduler.  `finish' and `flunk' are the finish event with ok 1 and 0,   *)
(* `release' is release-lost, and `dead' moves nothing: worker-dead.       *)
(***************************************************************************)
From == [submit |-> {"none"}, reserve |-> Pending, hold |-> {"queued"}, unhold |-> {"held"},
         fail |-> Pending, provision |-> {"placing"}, activate |-> {"placing"},
         rollback |-> {"placing"}, finish |-> {"running"}, flunk |-> {"running"},
         dead |-> {"running"},
         cancel |-> Pending \cup {"placing", "running"}, capture |-> Finished \cup {"running"},
         reap |-> Finished, release |-> {"running"}, requeue |-> {"running"},
         retry |-> Finished, reprioritize |-> Pending \cup {"placing", "running"}]

Into(op, st) ==
    CASE op \in {"submit", "unhold", "rollback", "requeue", "retry"} -> "queued"
      [] op = "reserve" -> "placing"
      [] op = "hold" -> "held"
      [] op = "fail" -> "failed"
      [] op = "flunk" -> "failed"
      [] op = "activate" -> "running"
      [] op = "finish" -> "succeeded"
      [] op = "cancel" -> "cancelled"
      [] OTHER -> st

Ops == DOMAIN From
ClientOps == {"submit", "retry", "reprioritize"}
\* The calls of the pass give up at the first lost race.
Retries(op) == IF op \in {"reserve", "hold", "unhold", "fail", "requeue"} THEN 1 ELSE 3

Edit(op, p, l) ==
    [st |-> Into(op, l.st),
     prov |-> CASE op = "reserve" -> p
                [] op \in {"rollback", "requeue", "retry"} -> None
                [] OTHER -> l.prov,
     cached |-> op = "capture" \/ (l.cached /\ op \notin {"requeue", "retry"}),
     reaped |-> op = "reap" \/ (l.reaped /\ op \notin {"requeue", "retry"}),
     edited |-> op = "reprioritize" \/ l.edited]

Live(rents, j) == \E p \in Providers : rents[j][p] = "live"

\* _mint: a new row, or the released one revived.
Minted(was) == "live"

Rents(op, j, rents) ==
    LET p == row[j].life.prov
    IN  CASE op = "provision" /\ p # None /\ ~Live(rents, j) ->
                 [rents EXCEPT ![j][p] = IF @ = "released" THEN Minted(@) ELSE "live"]
          [] op \in {"reap", "release"} /\ p # None /\ rents[j][p] = "live" ->
                 [rents EXCEPT ![j][p] = "released"]
          [] OTHER -> rents

----------------------------------------------------------------------------
(***************************************************************************)
(* The log, and what replaying it through the checker's model gives.       *)
(***************************************************************************)
Event(seq, op, p) == [seq |-> seq, op |-> op, prov |-> p]

Actions(events) == [i \in DOMAIN events |-> events[i].op]

\* The events of the current placement: those since the last reserve.
Provisioned(j) ==
    \E i \in DOMAIN log[j] :
        /\ log[j][i].op = "provision"
        /\ \A k \in i..Len(log[j]) : log[j][k].op # "reserve"

\* _fold_ext_state: is a resource open, were the artifacts captured.
Closed == [open |-> FALSE, captured |-> FALSE]

ExtStep(s, a) ==
    CASE a = "retry" -> Closed
      [] a = "provision" -> [s EXCEPT !.open = TRUE]
      [] a \in {"reap", "release"} -> [s EXCEPT !.open = FALSE]
      [] a = "capture" -> [s EXCEPT !.captured = TRUE]
      [] a = "requeue" -> [s EXCEPT !.captured = FALSE]
      [] OTHER -> s

FoldExt(actions) == FoldLeft(ExtStep, Closed, actions)

\* The model's states, with the scheduler's refinements of queued dropped.
ModelState(st) == CASE st = "held" -> "queued" [] st = "running" -> "placed" [] OTHER -> st

Fresh(ok) == [st |-> "queued", captured |-> FALSE, ext |-> FALSE, ok |-> ok]

\* The guards of the checker's model (Exec.lean, apply), retry as the
\* exporter writes it: a submit of a fresh job.
Permits(s, a) ==
    /\ a = "reserve" => s.st = "queued"
    /\ a = "provision" => s.st = "placing" /\ ~s.ext
    /\ a = "activate" => s.st = "placing" /\ s.ext
    /\ a = "rollback" => s.st = "placing" /\ ~s.ext
    /\ a \in {"finish", "flunk"} => s.st = "placed"
    /\ a = "cancel" => s.st \in {"queued", "placed"}
    /\ a = "fail" => s.st = "queued"
    /\ a = "capture" => s.st \in Finished \cup {"placed"}
    /\ a = "reap" => s.st \in Finished /\ s.captured
    /\ a = "release" => s.st = "placed" /\ s.captured /\ s.ext
    /\ a = "requeue" => s.st = "placed" /\ ~s.ext

ReplayStep(s, a) ==
    CASE a = "submit" -> Fresh(s.ok /\ s.st = "none")
      [] a = "retry" -> Fresh(s.ok)
      [] OTHER ->
            [st |-> ModelState(Into(a, s.st)),
             captured |-> a = "capture" \/ (s.captured /\ a # "requeue"),
             ext |-> a = "provision" \/ (s.ext /\ a \notin {"reap", "release"}),
             ok |-> s.ok /\ Permits(s, a)]

Unsubmitted == [st |-> "none", captured |-> FALSE, ext |-> FALSE, ok |-> TRUE]

Replay(actions) == FoldLeft(ReplayStep, Unsubmitted, actions)

\* No provider has heard of the job.
Unknown == [bound |-> None, known |-> FALSE, line |-> <<>>]

\* Mutant: a retried job keeps its alias.
BugRenewed(t) == t

\* A retried job is a fresh one, unknown to every provider.
Renewed(t) == Unknown

\* export_provider_trace: a job is on a provider's trace from a reserve
\* there until it goes back to the pool; its first contact is a submit.
TraceStep(t, e, p) ==
    LET bound == IF e.op = "reserve" THEN e.prov ELSE t.bound
    IN  IF e.op = "retry" THEN Renewed(t)
        ELSE IF e.op = "submit" THEN t
        ELSE [bound |-> IF e.op \in {"rollback", "requeue"} THEN None ELSE bound,
              known |-> t.known \/ bound = p,
              line |-> t.line \o (IF bound # p THEN <<>>
                                  ELSE IF t.known THEN <<e.op>> ELSE <<"submit", e.op>>)]

Trace(events, p) == FoldLeft(LAMBDA t, e : TraceStep(t, e, p), Unknown, events)

ProviderTrace(j, p) == Trace(log[j], p).line

----------------------------------------------------------------------------
(***************************************************************************)
(* The migrations.                                                         *)
(***************************************************************************)
Placed == <<"submit", "reserve", "provision", "activate">>
Ended(l) == CASE l.st = "cancelled" -> "cancel" [] l.st = "failed" -> "flunk" [] OTHER -> "finish"

\* The actions that lead to the record, before the artifacts.
Reached(l) ==
    CASE l.st \in Pending -> <<"submit">>
      [] l.st = "placing" -> <<"submit", "reserve">>
      [] l.st = "running" -> Placed
      [] l.st = "cancelled" /\ l.prov = None -> <<"submit", "cancel">>
      [] OTHER -> Append(Placed, Ended(l))

Flags(l) ==
    (IF l.cached \/ l.reaped THEN <<"capture">> ELSE <<>>) \o
    (IF l.reaped /\ l.st \in Finished THEN <<"reap">> ELSE <<>>)

\* _reconstruction_actions: a terminal job that was placed is always closed.
Reconstruction(l) ==
    Reached(l) \o
    IF l.st \in Finished /\ Contains(Reached(l), "provision") THEN <<"capture", "reap">>
    ELSE IF l.st \in Finished \cup {"running"} THEN Flags(l) ELSE <<>>

\* What the release that introduced the log wrote instead: closed only as
\* far as the record's flags said.
FirstReconstruction(l) ==
    Reached(l) \o (IF l.st \in Finished \cup {"running"} THEN Flags(l) ELSE <<>>)

\* The events of a migration, numbered on from seq.
Written(actions, seq, l) ==
    [i \in DOMAIN actions |->
        Event(seq + i, actions[i], IF actions[i] = "reserve" THEN l.prov ELSE None)]

Database == [row |-> row, log |-> log]

\* A job the step to version 8 has to write a history for.
Bare(db, j) == db.row[j].parses /\ db.row[j].life.st # "none" /\ db.log[j] = <<>>

To8(db) ==
    LET story(j) == Reconstruction(db.row[j].life)
    IN  [row |-> [j \in JobIds |-> IF Bare(db, j)
                                 THEN [db.row[j] EXCEPT !.seq = Len(story(j))] ELSE db.row[j]],
         log |-> [j \in JobIds |-> IF Bare(db, j)
                                 THEN db.log[j] \o Written(story(j), 0, db.row[j].life) ELSE db.log[j]]]

\* Where the row's token stands after the repair.
Resumed(seq, top, n) == top + n

\* A terminal job whose history leaves a resource open that no row holds.
Unclosed(db, j) ==
    /\ db.row[j].life.st \in Finished
    /\ ~Live(rented, j)
    /\ FoldExt(Actions(db.log[j])).open

To9(db) ==
    LET repair(j) == IF FoldExt(Actions(db.log[j])).captured THEN <<"reap">> ELSE <<"capture", "reap">>
        top(j) == Max({db.row[j].seq} \cup {db.log[j][i].seq : i \in DOMAIN db.log[j]})
    IN  [row |-> [j \in JobIds |->
                     IF Unclosed(db, j)
                     THEN [db.row[j] EXCEPT !.seq = Resumed(@, top(j), Len(repair(j)))]
                     ELSE db.row[j]],
         log |-> [j \in JobIds |->
                     IF Unclosed(db, j)
                     THEN db.log[j] \o Written(repair(j), top(j), db.row[j].life) ELSE db.log[j]]]

\* Version 6 fills the project column and 7 adds a table: nothing here.
Migrations(db, from) ==
    LET eight == IF from < 8 THEN To8(db) ELSE db
    IN  IF from < 9 THEN To9(eight) ELSE eight

----------------------------------------------------------------------------
(***************************************************************************)
(* What a database is found holding.                                       *)
(***************************************************************************)
\* The records the releases before the log left behind.
Legacy == {l \in Life :
             /\ ~l.edited
             /\ l.st \in {"queued", "placing", "running"} => ~l.reaped
             /\ l.st \in {"queued", "placing"} => ~l.cached
             /\ l.st = "queued" => l.prov = None
             /\ l.st \in {"placing", "running"} => l.prov # None
             /\ l.st \notin {"none", "held"}}

\* A job this engine ran under version 8 itself: its resource has a row.
Tracked(l) ==
    /\ l.prov # None /\ l.st \in {"running", "succeeded"}
    /\ l.reaped => l.cached

\* How one job is found: its record, whether it parses, whether the engine
\* ran it under version 8.
Finds(ver) ==
    IF ver = 0 THEN {[life |-> Blank, parses |-> TRUE, tracked |-> FALSE]}
    ELSE {f \in [life : Legacy, parses : BOOLEAN, tracked : BOOLEAN] :
             /\ f.tracked => ver = 8 /\ Tracked(f.life)
             /\ f.parses \/ ver < 8}

StoreInit ==
    \E ver \in Versions : \E found \in [JobIds -> Finds(ver)] :
        LET history(j) == IF ver = 8 THEN FirstReconstruction(found[j].life) ELSE <<>>
        IN  /\ version = ver
            /\ row = [j \in JobIds |-> [seq |-> Len(history(j)), life |-> found[j].life,
                                      parses |-> found[j].parses]]
            /\ log = [j \in JobIds |-> Written(history(j), 0, found[j].life)]
            /\ rented = [j \in JobIds |-> [p \in Providers |->
                            IF found[j].tracked /\ found[j].life.prov = p
                            THEN (IF found[j].life.reaped THEN "released" ELSE "live") ELSE "none"]]
            /\ adopted = {j \in JobIds : found[j].life.st \in {"placing", "running"} /\ ~found[j].tracked}
            /\ thread = [w \in Threads |-> Asleep]
            /\ clobbered = {} /\ outdated = {} /\ calls = 0 /\ saves = 0

----------------------------------------------------------------------------
(***************************************************************************)
(* Opening, and the calls.                                                 *)
(***************************************************************************)
\* _migrate: the version is read, the migrations run and the version is
\* stamped in one transaction, whoever opens the database first.
Migrate ==
    /\ version < Current
    /\ LET db == Migrations(Database, version) IN row' = db.row /\ log' = db.log
    /\ version' = Current
    /\ UNCHANGED <<rented, thread, clobbered, adopted, outdated, calls, saves>>

\* What the caller has checked before it makes the call.
Due(op, j) ==
    LET l == row[j].life
    IN  CASE op = "submit" -> TRUE
          [] op = "provision" -> l.st = "placing" /\ ~Provisioned(j)
          [] op = "activate" -> l.st = "placing" /\ Provisioned(j)
          [] op = "rollback" -> l.st = "placing" /\ ~Provisioned(j)
          [] op = "cancel" -> l.st \in Pending \cup {"running"}
          [] op = "capture" -> l.st \in From[op] /\ l.prov # None /\ ~l.cached
          [] op = "reap" -> l.st \in Finished /\ l.prov # None /\ l.cached /\ ~l.reaped
          [] op = "release" -> l.st = "running" /\ l.cached /\ Live(rented, j)
          [] op = "requeue" -> l.st = "running" /\ l.cached /\ ~Live(rented, j)
          [] op = "retry" -> l.st \in Finished /\ ~Live(rented, j)
          [] OTHER -> l.st \in From[op]

Call(w, op, j, p) ==
    /\ version = Current /\ thread[w].pc = "idle" /\ calls < MaxCalls
    /\ w \in Handlers <=> op \in ClientOps
    /\ w \notin Workers
    /\ op = "submit" \/ row[j].parses
    /\ Due(op, j) /\ (op = "reserve" <=> p # None)
    /\ calls' = calls + 1
    /\ thread' = [thread EXCEPT ![w] =
          [pc |-> IF op = "submit" THEN "commit" ELSE "seq", job |-> j, op |-> op, prov |-> p,
           seq |-> 0, life |-> IF op = "submit" THEN Edit(op, p, Blank) ELSE Blank,
           left |-> IF op = "submit" THEN 1 ELSE Retries(op)]]
    /\ UNCHANGED <<version, row, log, rented, clobbered, adopted, outdated, saves>>

\* cas_step reads the token, then the record.
ReadSeq(w) ==
    /\ thread[w].pc = "seq"
    /\ thread' = [thread EXCEPT ![w].seq = row[thread[w].job].seq, ![w].pc = "record"]
    /\ UNCHANGED <<version, row, log, rented, clobbered, adopted, outdated, calls, saves>>

ReadRecord(w) ==
    LET t == thread[w] l == row[t.job].life
    IN  /\ t.pc = "record"
        /\ thread' = [thread EXCEPT ![w] =
              IF row[t.job].parses /\ l.st \in From[t.op]
              THEN [t EXCEPT !.life = Edit(t.op, t.prov, l), !.pc = "commit"] ELSE Asleep]
        /\ UNCHANGED <<version, row, log, rented, clobbered, adopted, outdated, calls, saves>>

\* Mutant: the token is not compared.
BugUpToDate(t) == TRUE

UpToDate(t) == row[t.job].seq = t.seq

\* The transaction: the row, its token, the event and the resource.
Commit(w) ==
    LET t == thread[w] j == t.job
    IN  /\ t.pc = "commit" /\ UpToDate(t)
        /\ row' = [row EXCEPT ![j] = [seq |-> t.seq + 1, life |-> t.life, parses |-> TRUE]]
        /\ log' = [log EXCEPT ![j] = Append(@, Event(t.seq + 1, t.op, t.prov))]
        /\ rented' = Rents(t.op, j, rented)
        /\ thread' = [thread EXCEPT ![w] = Asleep]
        /\ outdated' = IF Due(t.op, j) THEN outdated ELSE outdated \cup {<<j, t.op>>}
        /\ UNCHANGED <<version, clobbered, adopted, calls, saves>>

\* StaleTransition: the reads are made again, or the call is given up.
Stale(w) ==
    LET t == thread[w]
    IN  /\ t.pc = "commit" /\ ~UpToDate(t)
        /\ thread' = [thread EXCEPT ![w] =
              IF t.left > 1 THEN [t EXCEPT !.pc = "seq", !.life = Blank, !.left = @ - 1] ELSE Asleep]
        /\ UNCHANGED <<version, row, log, rented, clobbered, adopted, outdated, calls, saves>>

\* update_job_status and the sink of a partial handle load a record, change
\* what is only displayed or the handle, and save all of it; the thread that
\* places may still do so when its task was cancelled and the job moved on.
Fetch(w, j) ==
    /\ version = Current /\ thread[w].pc = "idle" /\ saves < MaxSaves
    /\ w \in Loops \cup Workers
    /\ row[j].parses
    /\ row[j].life.st \in (IF w \in Loops THEN {"placing", "running"} ELSE {"placing"})
    /\ saves' = saves + 1
    /\ thread' = [thread EXCEPT ![w] = [Asleep EXCEPT !.pc = "save", !.job = j, !.life = row[j].life]]
    /\ UNCHANGED <<version, row, log, rented, clobbered, adopted, outdated, calls>>

Save(w) ==
    LET t == thread[w]
    IN  /\ t.pc = "save"
        /\ row' = [row EXCEPT ![t.job].life = t.life, ![t.job].parses = TRUE]
        /\ clobbered' = IF row[t.job].life = t.life THEN clobbered ELSE clobbered \cup {t.job}
        /\ thread' = [thread EXCEPT ![w] = Asleep]
        /\ UNCHANGED <<version, log, rented, adopted, outdated, calls, saves>>

StoreNext ==
    \/ Migrate
    \/ \E w \in Threads :
          \/ \E op \in Ops, j \in JobIds, p \in Providers \cup {None} : Call(w, op, j, p)
          \/ \E j \in JobIds : Fetch(w, j)
          \/ ReadSeq(w) \/ ReadRecord(w) \/ Commit(w) \/ Stale(w) \/ Save(w)

StoreSpec == StoreInit /\ [][StoreNext]_storeVars

----------------------------------------------------------------------------
(***************************************************************************)
(* Correctness.                                                            *)
(***************************************************************************)
\* The tables hold what the schema says.
StoreTypeOK ==
    /\ version \in Nat
    /\ row \in [JobIds -> [seq : Nat, life : Life, parses : BOOLEAN]]
    /\ rented \in [JobIds -> [Providers -> {"none", "live", "released"}]]
    /\ thread \in [Threads -> [pc : {"idle", "seq", "record", "commit", "save"},
                               job : JobIds \cup {None}, op : Ops \cup {None},
                               prov : Providers \cup {None}, seq : Nat, life : Life, left : 0..3]]
    /\ clobbered \subseteq JobIds /\ adopted \subseteq JobIds /\ outdated \subseteq JobIds \X Ops
    /\ calls \in 0..MaxCalls /\ saves \in 0..MaxSaves

\* The events of a job are numbered without a gap up to the row's token,
\* so that the unique index never refuses the event of a transition
\* (schema.py, jobs.seq; _migrate_to_9).
TokenIsLogEnd ==
    version = Current =>
        \A j \in JobIds :
            /\ row[j].seq = Len(log[j])
            /\ \A i \in DOMAIN log[j] : log[j][i].seq = i

\* A transition is applied to the record the one before it left: nothing
\* committed between its reads and its commit is lost (cas_step).
AppliedInTurn ==
    [][\A j \in JobIds \ clobbered :
          version = Current /\ Len(log'[j]) > Len(log[j]) =>
              LET e == Last(log'[j])
              IN  row'[j].life = Edit(e.op, e.prov, IF e.op = "submit" THEN Blank ELSE row[j].life)]_storeVars

\* A call acts on a check its caller made before it, without a lock.
Outdated(j) == \E op \in Ops : <<j, op>> \in outdated
Alone(ws) == \A v, w \in ws : v = w

\* With one engine the only call that goes through though its check no longer holds
\* is a retry, and only beside another handler: every other one is then refused by the
\* states it may start from (cas_step and its preconditions).
ChecksOutlast ==
    Alone(Loops) =>
        \A j \in JobIds \ (clobbered \cup adopted) :
            /\ Outdated(j) => <<j, "retry">> \in outdated
            /\ Alone(Handlers) => ~Outdated(j)

\* The jobs whose log and tables nothing out of line was written to.
Regular == {j \in JobIds : j \notin clobbered \cup adopted /\ ~Outdated(j)}

\* A resource is held in the table exactly while the job's events say so:
\* a mint and a release are one with their events (I5; _mint, _release).
\* A job placed before the upgrade never had a row.
MoneyFollowsLog ==
    \A j \in Regular :
        version = Current => (Live(rented, j) <=> FoldExt(Actions(log[j])).open)

\* The log of every job replays through the checker's model and ends in
\* the state of its row, but for a job an upgrade found placed.
Replays(j) ==
    LET s == Replay(Actions(log[j])) IN s.ok /\ s.st = ModelState(row[j].life.st)

LogReplays ==
    version = Current =>
        \A j \in Regular : row[j].parses => Replays(j)

\* So does the part of it that each provider is shown, and the provider's
\* view of the tables agrees with what the replay gives: the state of a job
\* bound there, and whether it holds a resource (traceexport.py,
\* abstract_state).
TracesReplay ==
    version = Current =>
        \A j \in Regular, p \in Providers :
            LET s == Replay(ProviderTrace(j, p))
            IN  /\ s.ok
                /\ s.ext <=> rented[j][p] = "live"
                /\ ProviderTrace(j, p) # <<>> /\ row[j].life.prov = p =>
                       s.st = ModelState(row[j].life.st)

\* The migrations leave nothing they would do again: every job has its
\* history, and no terminal job that holds no resource has one that leaves
\* a resource open (_run_migrations, "each idempotent").
UpgradeSettles ==
    version = Current =>
        /\ \A j \in JobIds : ~Bare(Database, j)
        /\ \A j \in Regular : ~Unclosed(Database, j)

\* Row, log and money tell one story, before, during and after an upgrade, and it is
\* one the checker accepts.
LogIsTruth ==
    /\ StoreTypeOK /\ TokenIsLogEnd /\ ChecksOutlast
    /\ MoneyFollowsLog /\ LogReplays /\ TracesReplay /\ UpgradeSettles
=============================================================================
