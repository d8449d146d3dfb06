# A TLA+ model of omnirun

omnirun places batch jobs on compute providers: local machines, ssh hosts,
slurm, notebooks, rented GPUs. Its v2 core is a small engine that must not lose
a job, run one twice, leave a rented machine burning money, or throw results
away, although everything it talks to fails and it may itself be killed between
any two steps. These modules model that core and what stands around it (the
scheduling pass and the ledger, the store, job streams, the worker's script,
the backend families, connections, the GPU markets, the daemon and the
daemonless client), check it with TLC on small instances and prove parts of it
with TLAPS.

Paths below are relative to `src/omnirun/` unless they say otherwise.

## 1. Inventory

| component | state | operations | hard because | module |
|---|---|---|---|---|
| Lifecycle kernel (`formal/OmnirunFormal`, `state/traceexport.py`) | per job: state, captured, reaped, cost; open intents; minted resources; spend | submit, reserve, provision, activate, rollback, finish, cancel, fail, capture, reap, release-lost, requeue, retry | it is the contract every event log is replayed against | `Kernel` |
| Supervisor (`engine/supervisor.py`, `engine/workitems.py`) | one asyncio task per job, in-memory cancel set, one `intents` row per job | place (rent, boot, launch, activate), cancel (preempt, unwind, signal, apply), capture, reap, release-lost, adopt, freeze, quarantine | tasks interleave at every await; a crash cuts between two commits; a preempted call still takes effect | `Engine` |
| Engine loop (`engine/engine.py`) | first-pass flag, wake event | adopt open rows, snapshot, enact decisions, boot, shutdown | works on what handlers, tasks and the previous process left | `Engine`, `Scheduler`, `Front` |
| Observer (`engine/observer.py`) | followed streams, poll ladders | start stream, finish, mark dead, forget | silence is not evidence; results race with cancels | `Engine`, `JobStream` |
| Scheduler pass (`scheduler.py`) | none (pure) | settle, ladder for dead placements, attempts cap, dependency gate, hold/unhold, match under capacity and budget | order of the rules; decisions are enacted later than they were made | `Scheduler` |
| Ledger and billing (`budget.py`, `engine/billing.py`) | committed and spent entries per window | commit, realize, void | a second transaction after the lifecycle one | `Scheduler` |
| Store (`state/store.py`, `state/schema.py`) | jobs, job_events, intents, resources, ledger, facts, ... | transition (CAS, event, intent, mint or release in one transaction), reserve, plain saves, migration | several processes and threads write it | `Store` |
| Verbs and daemon (`engine/verbs.py`, `daemon.py`) | in-flight requests, published slots | submit, cancel, retry, edit, repin, reprioritize, gc, pull | run on threads against the loop | `Front`, `Engine`, `Scheduler` |
| Client session and waiting (`client.py`) | a session per verb, a feed | drive to quiescence, wait, reconnect | an event between two looks is lost | `Front` |
| Provider seam (`providers/asyncadapter.py`) | handle cache | ensure, wait ready, launch, cancel, capture, release, observe | answers get lost; the cache dies with the process | `Backends`, `Engine` |
| Backend families (`backends/ssh.py`, `slurm.py`, `kaggle.py`, `colab.py`, `marketplace.py`, `local.py`) | what the platform holds | submit, adopt, status, verdict, cancel, release | the platform starts and ends things in its own time | `Backends` |
| Marketplace clients (`vast`, `runpod`, `thunder`) | instances by key | find, rent, ready, launch, destroy | instances die on arrival; 429 | `Market` |
| Job streams (`engine/jobstream.py`) | log file, durable resume offset, followers | connect, ingest, publish, follow, restart, stop | file and offset are two writes; replay meets live data | `JobStream` |
| Exec layer (`execlayer/`) | ControlMaster session, channel slots | run, copy, batch, follow, heal | a dropped session takes every channel; a retry may repeat a command | `Connection` |
| Endpoint manager (`endpoints/manager.py`) | throttles, cool-offs, single-flight cache | cached, wait, mark_cooloff | shared by threads | `Connection`, `Market` |
| Bootstrap and job directory (`bootstrap.py`, `backends/jobdir.py`) | locks, checkouts, environment, marker files on the worker | claim, run, report; launch, read, signal | lock holders die; status is read in rounds | `Bootstrap` |
| Validator (`validator.py`) | watermark, known fingerprints | export, replay, compare, report | samples a moving store | replay in `Store` |
| Chooser, groups, CLI, repo, artifacts, keys, config | - | pure functions, rendering, I/O | - | - |

How they interact: the daemon's handler threads write the store (`submit`,
durable cancel, `retry`) and wake the loop; each round of the loop runs the
observer and then a pass; the pass adopts open rows, reads a snapshot and
enacts decisions as store transitions and spawned tasks; the tasks call the
backends through the seam and commit each result as one transition; streams and
polls turn the worker's exit into `finish`; slots are gathered by the daemon's
refresher through the backends, the connections and the endpoint manager's
caches. Only the store, the log files and what lies on the workers survive a
crash.

## 2. Modules

The engine and the promise it makes:

* `Kernel` - the abstract specification: the transition relation of
  `formal/OmnirunFormal/Model.lean` and `Exec.lean` plus `retry` as the trace
  exporter presents it. Log length and event count are dropped (no guard reads
  them), as are the two Lean actions that change nothing else.
  `ContractProofs` has its theorems.
* `Engine` - the engine of one process over one store.
* `EngineRefinement` - `Engine` implements `Kernel`, under the mapping that
  `Store.abstract_state` uses; the kernel's capacity is the number of places the
  providers offer. `EngineProofs` has the theorems of both, in five parts, each
  on top of the one before: types, discipline, stamps, ownership, refinement.

What surrounds it, each a module of its own with the rest of the system reduced
to what it sees of it:

* `Scheduler` - the pass as a step per ranked job over a frozen snapshot, its
  plan enacted one transaction at a time, the ledger's two windows beside the
  job's commit, the handlers' edits in between. A placement fails, starts,
  dies, finishes or is cancelled in single steps here. `SchedulerProofs` has its
  theorems.
* `Store` - the transactions as the callers' threads make them: two reads, a
  compare-and-set, the row with its event and its resource bookkeeping; the
  plain save that compares nothing; a database of an older version opened and
  migrated. `Engine` has the choreography of the calls; here a call is made
  whenever its caller's check allows it. It also replays the exported traces
  through the kernel's guards, as the validator does. `ContractProofs` has its
  theorems, beside those of the kernel whose transitions it records.
* `JobStream` - one job's log from the worker to a follower, byte by byte over
  a connection that breaks, with the file and the resume point as two writes.
  `WorkerProofs` has its theorems.
* `Bootstrap` - the scripts of one project on a worker: mkdir locks with
  heartbeats, the worktree, the environment and its stamp, the result file, and
  a client that reads the directory in rounds. `WorkerProofs` has its
  theorems.
* `Backends` - the adapter over each family of backend: calls that are lost
  before or after they took effect, the platform that starts and ends runs and
  machines, the handle cache that dies with the process. `BackendsProofs` has its
  theorems.
* `Connection` - several threads on one login host: session, authentication,
  channel slots, the single heal of each call, the single-flight cache.
  `EndpointProofs` has its theorems.
* `Market` - backend sections renting from one GPU market: throttle, 429
  retries, the submit loop with re-shopping and tear-down, cool-offs.
  `EndpointProofs` has its theorems.
* `Front` - who wakes whom: verbs, the daemon's loop and slot refresher, the
  session's drive, the waiting client on the event feed. `FrontProofs` has its
  theorems.

`FiniteSums` has the lemmas about the library's sums over finite sets and folds
over sequences that the proofs about money and logs need; it knows nothing of
omnirun. Two components that share a module of proofs (`ContractProofs`,
`EndpointProofs`, `WorkerProofs`) share nothing else there: such a module extends
both, so the definitions of one of them carry a prefix (`StoreNext`, `MarketNext`,
`BootNext`). `MC...` modules hold the constants for TLC.

### How `Engine` corresponds to the code

| variable | code |
|---|---|
| `job` | the `jobs` row: `state`, `placement.provider_name` (`prov`), a `provision` event since the last `reserve` (`prv`), `placement.handle` (`hnd`), `last_status` LOST (`lost`), `outputs_cached_to`/`logs_cached_to` (`captured`), `reaped`, `attempts` |
| `intent` | the `intents` row: kind, stage, provider, tries left, `crash_spawns` (`spawns`), `retry_at` (`frozen`), `poisoned_until` (`poisoned`) |
| `unreleased` | `resources` rows without `released_at` |
| `task`, `canc` | the supervisor's task of a job, by where it awaits, and its cancel task |
| `cancels`, `handles`, `stream`, `boot` | `Engine._cancels`, the adapters' `_handles`, the followed streams, what `adopt(boot=True)` has yet to see |
| `calling` | where the cancel handler of the daemon is |
| `world`, `orphans`, `strays` | what a provider holds under `omnirun-<job_id>`; rents, launches and releases whose task was cancelled or whose process died, each still running on its thread (`asyncio.to_thread`, which nothing can stop) or on its wire; keys at which such a call, or one whose answer was lost, created or started something |
| `asked`, `faults`, `crashes`, `retries` | history and bounds |

Grain. A step is what runs between two awaits, cut again at each commit
(a crash can fall there). One decision of the pass with its enactment is one
step: `run_pass` awaits nothing. What a handler thread changes between the
pass's snapshot and an enactment is left to `Scheduler`, where each enactment is
a step of its own: every enactment re-reads the job under compare-and-set and
skips it when the precondition is gone, which is the guard of the action.
Adoption by the first pass is split per job; nothing is decided before it is
complete.

Abstractions, each coarser than the code: a backoff, an avoidance, a retry
timer or a quarantine ends at any moment; a slot is free, and each provider
offers one; a rent may start the worker itself, as those of slurm, kaggle and
colab do; a release finds what is there by its key (where the platform cannot, see
`Backends`); a dependency may fail at any moment; `cancel --force` is the same
step as the graceful ladder, whose graceful exit is `WorkerExits`; the stream's
sentinel and the polled result are one `Finish`; two resources under one key
are one; the semaphore per provider is dropped. Not in this module: the graceful
shutdown (a crash that loses less), reprioritize, edit, repin, gc, and the
plain saves.

`_enact_rollback_recovery` (engine.py:301-324) is not an action: its guard, a
placing job without a row and without a task, is unreachable, which
`PlacingOwned` shows.

### How the others correspond

| module | variables and code | grain |
|---|---|---|
| `Scheduler` | `job` what the pass reads of a row (state, attempts, policy, provider, cost, dead); `pass` the snapshot, the jobs still to match and the plan; `ledger` the rows of each window; `torn` jobs whose billing a crash cut short; `charged` what the runs really cost | a Match per ranked job, an enactment per decision, one step per transaction |
| `Store` | `row` (token, record, whether it still parses), `log` the job's events, `rented` the resources table, `version` the schema's, `thread` what each caller has read so far; `clobbered` jobs where a plain save undid a transition, `adopted` jobs an upgrade found placed, `outdated` jobs and calls that went through although what their caller had checked no longer held | one step per read; a transaction is one step |
| `JobStream` | `attempt`, `written`, `worker` the far side; `file` the durable bytes, `side` the saved resume point (attempt, offset, position); `stream` the task, the exit it saw and its write position; `fol` the followers with their queues; `phase` the job | what the stream's task does between two awaits; a crash cuts it at each of its writes |
| `Bootstrap` | `stage`, `hold`, `up` the scripts; `lock` the lock directories and `nurses` their refreshers; `objects`, `tree`, `venv`, `stamp` what the project shares; `jobdir` each job's directory; `look`, `told` the client's reading; `hurt` locks whose holder died or whose waiter lost patience | one shell command; time is whether a heartbeat is fresh |
| `Backends` | `stage`, `attempt` the engine's view; `handle`, `saved`, `cached` the adapter's memory, the persisted handle, a notebook's kept verdict; `world` the runs and machines of the platform; `labels` whether the market's instances carry the job's label (vast and runpod: yes, thunder: no); `told` the verdict handed up; `blurred` a call took effect unheard, was never made, or rested on an earlier attempt's verdict, or a crash forgot an instance without a label before its handle was saved | one remote call with its effect, lost before or after it |
| `Connection` | `master` the session, `authLock` its lock, `cap` and `slots` the channel semaphore, `call` one record per thread (commands, batches, transfers, submits and discoveries; a follow, one for each running job, and a git push or ls-remote go over the session without a slot), `keyLock` and `cache` the single-flight entry | one lock or remote operation |
| `Market` | `sub` each section's submit (where it is, the request under way, the offer), `throttle`, `cool`; `live` what bills, `known` what a stub tells of, `unheard` and `undead` what a lost answer or a failed termination left | one API request; a tick moves the throttle and the cool-offs |
| `Front` | `loop` and `wake` the engine's, `refresher` and `slotsWake` the daemon's, `posted` callbacks handed to the loop, `gathering` and `supply` the slots, `parked` work items that ended with their intent open (frozen because the host cannot be reached, due again later, or cut off when the session raised), `verb` the handler or the session, `watch` a waiting client and its feed; `due` jobs a verb changed that no pass has looked at since | what runs between two awaits or under one lock |

The header of each module names its grain and what it reduces.

## 3. Runs, bounds and what they show

Bounds on faults, crashes, retries, calls and the like bound the environment,
never the code; parameters of the code stand at their smallest interesting
value. `PROJECT.json` has a mutant for every property of every run (section 7).

| run | instance | distinct states |
|---|---|---|
| `kernel` | 3 jobs (costs 0, 1, 2), budget 3, capacity 2 | 19 thousand |
| `engine_safety` | 1 job, 2 providers, 1 fault, 2 crashes, 1 retry, 1 call left behind at a time | 1.1 million (symmetric) |
| `engine_two_jobs` | 2 jobs, 1 provider with one place, 1 fault | 1.8 million (symmetric) |
| `engine_live` | 1 job, 1 provider, 2 faults, 1 crash, 1 call left behind at a time | 144 thousand |
| `scheduler` | 2 jobs, a free and a paid provider, 2 windows, 2 upsets | 381 thousand |
| `store` | 1 job, 2 providers, a loop, two handlers and a worker thread, 4 calls, 1 plain save, databases of 3 ages | 346 thousand (symmetric) |
| `job_stream` | 2 attempts of 2 lines of 3 bytes, 1 follower with a queue of 2, 1 cut, 1 crash | 472 thousand |
| `bootstrap` | 2 jobs, 1 or 2 revisions, 1 death | 254 thousand |
| `backends` | 5 families, the market with labels and without, 3 attempts, 2 faults | 136 thousand |
| `connection` | 3 threads, 6 mixes of calls, `MaxSessions` 2, 2 drops | 265 thousand |
| `market` | 2 sections, 2 offers, 2 clients (vast, runpod), 2 provisioning attempts, 1 repeated 429, 1 fault | 362 thousand |
| `front` | 1 job, 2 verbs or waits, 1 fault, with a daemon and without | 690 thousand |

Why they are enough. Two providers let a job be placed elsewhere after a
failure; two jobs and one place compete; two faults let a failure meet another
one's unwinding; one crash covers every crash point, two the quarantine; a call
left behind lands at any later moment, in any later attempt (`MaxLate`).
`engine_two_jobs` has no crash, no retry and no such call: those need the
theorem `CapacityCorrect`.
Two windows of different length let one roll over inside the other. In `store`
two handlers beside the loop and four calls let two transitions and a save cross;
a retry that outlasts its own check takes six calls, which the theorem covers. In
`job_stream` a read of four bytes spans two lines of three, a queue of two
overflows, and the second attempt starts with the first one's bytes on disk.
Three attempts in `backends` let a verdict be stale by one and by two. Three
threads in `connection` exceed the session's two channels, with follows and pushes
that leave the capped commands room and with more than that. In `market` two
sections share the throttle and each other's cool-offs.

Deadlock is checked in `kernel`, `scheduler`, `bootstrap`, `backends`,
`connection` and `market`, where a step is always possible (a tick of the clock, a
retry, or an explicit rest once everything has ended). It is off in the engine's,
the store's, the stream's and the front's runs: when every job is terminal and
settled and the bounds are used up, the system rests.

Providers (jobs) of `Engine`, providers and handlers of `Store` are interchangeable, so
the symmetry sets are sound for the invariants and action properties they are
used with; no run with a liveness property uses symmetry.

### `kernel`

`Accounts`: the budget is kept, the spend covers what is still placed
(`ActiveCovered`), the capacity is kept. `Ownership`: a job is placing exactly
while its intent is open, every minted resource has an owner, what is reaped was
captured, in its own attempt.

### `engine_safety`, `engine_two_jobs`, `engine_live`

* `TasksInOrder`: a placing job always has the row that resolves it
  (`PlacingOwned`); a live place task works for the job's current placement
  (`PlaceTaskOwns`); capture evidence never crosses attempts (`CaptureFresh`);
  a quarantined item is not worked on (`QuarantineHonoured`).
* `RunningTracked`: a running placement stays registered until it is dead and
  captured. `NoUntracked`: what a provider holds is registered, or came from a
  call whose task was gone or whose answer was lost. `WorkerOwned`: a worker runs
  only where its job says, with the same exception. The code gives no more than
  this (divergence 1); the exception is a key, and ends when a later rent finds the
  resource or a release destroys it.
* `ReleaseOrder`: nothing is released before its capture
  (`CaptureBeforeRelease`), a requeued job leaves nothing behind
  (`RequeueClean`).
* `StampsKept`: the stamps of boot adoptions, which the quarantine counts,
  survive every rewrite of the row but a cancel's.
* `ImplementsKernel`: every step of the engine is a step of the kernel or
  invisible to it, from the start and for as long as contention has not rolled back
  a registered placement (`Contended`, divergence 5 of section 6). A release left
  behind by one crash, landing after the next rent, and a second crash suffice for
  such a roll-back, so the run has it; the property ends there, as the engine does
  leave the kernel.
* `CapacityOK` (two jobs): no interleaving overbooks a provider.
* `CancelEnds`, `PlacementsEnd` (`PlacingEnds`, `DeadEnds`, `TerminalReaped`):
  cancels, placements, dead placements and the settling of terminal jobs are
  driven to their end through failures and a crash.

### `scheduler`

* `LedgerExact`: in both windows a job's reservation is exactly the price of the
  placement it holds and its spend what its runs cost, unless a crash fell
  between the job's commit and its rows.
* `BudgetKept`: no window goes over its ceiling; each such crash can cost at
  most one placement beyond it.
* `PlanSound`: nothing a handler does between two enactments makes a decision
  apply to a job in another state than it was decided from (`PlanCurrent`); one
  offer backs one Reserve (`DistinctOffers`).
* `PlacedRightly`: no paid slot while a free one serves in time (`FreeFirst`);
  never beyond the room there is when it is enacted (`WithinRoom`); only after
  the jobs it depends on (`DepsMet`).

### `store`

* `LogIsTruth`: tokens are the log's length (`TokenIsLogEnd`), the resources
  table follows the events (`MoneyFollowsLog`), the log and each provider's part
  of it replay through the kernel's guards to the state of the row
  (`LogReplays`, `TracesReplay`), and a migration leaves nothing it would do
  again (`UpgradeSettles`).
* `AppliedInTurn`: a transition is applied to the record the one before it left.

Both except jobs where a plain save undid a transition (the code's own
exception, store.py:492) and jobs an upgrade found placed.

### `job_stream`

* `LogExact`: below the resume point the file is in order, each byte once
  (`NeverDuplicates`), without a gap unless a connection broke inside a line
  (`NoGap`), and the resume point counts what it holds (`ResumeHonest`,
  `WritePosition`).
* `FollowExact`: a follower that joined a connected stream holds the file from
  where it began until it is dropped.
* `StreamEnds`: a finished worker is noticed though its sentinel be lost, and
  followers are told.

### `bootstrap`

* `SharedWhole`: among the living one script is inside a lock (`LockExclusive`),
  a script past its checkout works in a whole tree (`TreeWhole`), skipped syncs
  were really done when the jobs are of one revision (`EnvReady`).
* `LostIsDeath`: LOST is said of dead scripts only and, except over ssh, of
  scripts that left no result. `EveryScriptEnds`: no waiter is blocked for ever.

### `backends`

* `ReleasedGone`: after a confirmed release nothing of the placement runs or
  bills; on a market with labels whatever was lost, elsewhere, thunder included,
  unless a call took effect unheard or an instance without a label was forgotten.
  `ReleaseCompletes`: a teardown ends.
* `OncePerAttempt`: the deterministic key keeps one payload per job.
* `VerdictsHold`: LOST is evidence (`LostIsEvidence`), a verdict is of its own
  attempt (`VerdictIsOwn`).

### `connection`

* `Serialized`: one authentication at a time, on a password host only while the
  session is dead (`OneAuth`); one discovery round per window (`OneRound`).
* `AtMostOnce`: a submit begins at most once, other commands at most twice.
* `StaysMultiplexed`: on a capped host no command is pushed off the live session
  into a dial of its own, as long as the cap and the channels that hold no slot fit
  `MaxSessions`. A cap below `MaxSessions` alone does not give it (divergence 27).
* `CallsReturn`: no thread waits for ever.

### `market`

* `NoLeak`: no rental that was answered bills after its submit failed, unless its
  termination failed, nor after a kill unless a stub tells of it.
* `RentsElsewhere`: an offer that proved dead for a submit is not rented by it
  again while it cools. `Spaced`: calls are as far apart as the throttle says.

### `front`

* `NothingMissed`: with both loops asleep every job a verb changed has been
  looked at by a pass over slots gathered after it (`CaughtUp`), and no answer
  says "queued" before such a pass (`QueuedWasSeen`).
* `DriveSettles`: a session ends with no task of a placement, a cancel or a
  follow-up running. What it leaves undone has its intent open for the next engine:
  frozen because its host cannot be reached, waiting for its next try, or, when the
  verb raises because an item outlasts its bound, cut off.
* `NeverBlind`: while a waiting client is out of date an event is on its way.
* `CatchesUp`: a daemon catches up again and again, restarts included.

## 4. Fairness

* `Engine`: the resident loop repeats its round at every wake-up and poll tick
  whatever a round raises (`run_forever`), so an adoption, a cancel, a capture,
  a release or a requeue that stays due is enacted; each awaited call ends (most
  have a timeout; that a command over ssh ends is assumed, as `run` waits without one
  unless it is asked to, as do the transfers at execlayer/ssh.py:474); timers elapse;
  a handler thread runs to its end.
  Nothing is assumed of workers, of abandoned calls, of holds and reserves
  (which depend on offers), or of users.
* `JobStream`: the observer's round starts a missing stream, polls a silent job
  and forgets an ended one; the stream's task reconnects; a queue is read on.
  Nothing is assumed of what arrives over the connection.
* `Bootstrap`: a script runs, and a waiter's clock advances. No launch, no
  death and no ageing of a heartbeat is assumed beyond that clock.
* `Backends`: a release that stays due is repeated (the pass enacts it each
  round).
* `Connection`: each thread runs. That commands, authentications and checks of the
  session end is assumed of the host: some have no timeout (`run` by default,
  transfers at execlayer/ssh.py:474, the check at 285).
* `Front`: gathers and callbacks end (the session bounds each item, and raises when
  one outlasts it), handlers run, the loop and the refresher
  repeat, the feed is served. Nothing makes a client ask or a placement end.

All are weak fairness; `Kernel`, `Scheduler`, `Store` and `Market` state none,
having safety properties only.

## 5. What is proved

`ContractProofs`, of `Kernel`, for every finite set of jobs, every cost, budget and
capacity: `TypeCorrect`; `OwnershipCorrect` (`PlacingIntent`, `ExtTracked`, `ReapCaptured`,
`CaptureFresh`): `ExtTracked` is not inductive alone, since activate and rollback
close the intent that owned the resource, and only `PlacingIntent` ties what
remains to the job's state; `ResourceSteps`, that capture precedes release and no
job is queued again while its resource is registered; `BudgetCorrect`;
`CapCorrect`, by `ActiveStep`: only a reserve adds to the placed set, one job at
a time, behind its guard; `ActiveCoveredCorrect`, that the committed spend covers
what is placed, and with it `AccountsCorrect`. The last needs what a sum over a
set becomes when one element leaves it. Assumptions: `Jobs` is finite, costs, budget and
capacity are naturals.

`FiniteSums`, for every finite set and every sequence: what the library's
`SumFunctionOnSet` and `FoldLeft` compute. The library defines them by recursion
over the set, one chosen element at a time, so `SumUnrolled` and `SumRemove` (a sum
less any one element), `SumShift` and `FoldsAgree` (two tables that go on alike are
alike) are proved by well-founded induction on strict inclusion, as the absence of
a minimal counterexample. An induction on a bound gives that the table a recursive
function is defined by exists.

`EngineProofs`, for every set of jobs and providers, every slot, limit and bound
(jobs and providers may even be infinite, but for the refinement, where the
providers are finitely many: `FleetAssumption`):

* `TypeCorrect`. `TypeOK` is not inductive: the attempts grow
  where a placement fails, without a look at the cap, so the invariant adds
  `AttemptLeft`, that a placing job has one left to count.
* `PlacementsOwned`, `EvidenceCurrent`, `QuarantineCorrect`, together
  `TasksCorrect`, and `CaptureFirst`. The invariant is
  `Discipline`: for each job, what its task, its row and its cancel item may be
  together, and in which states of the job each of them is found. The delicate
  part is a live task whose row a handler replaced by a cancel row: the task
  then has a row, though not its own (`TaskRowed`), and still works for the
  current placement (`PlaceOwns`), because a placing job leaves that state only
  by its own task or by the cancel item after that task was stopped
  (`CancelAlone`).
* `CapacityCorrect`, with the finiteness of the placements of a provider as its
  strengthening; no step but a reserve makes a job occupy one.
* `RunningCorrect`, from `Tracked`: the stages after the
  provision find the placement provisioned, a provisioned placement is
  registered, and a release of a running job was decided on a dead and captured
  one.
* `ResourcesKnown`, `WorkersOwned`, `RequeueCorrect`, and with `CaptureFirst`
  `OrderCorrect`, from two more invariants: a settling item is for the placement
  the job records, or the job records none (`Placed`); what works is registered,
  for that placement, not reaped yet (`KeyHeld`).

* `StampsCorrect`, from `AllStamped`: a task whose row is of its own kind holds
  at least the row's stamps, so the item it writes back loses none. It is not
  enough to look at the row: a task writes what it read stages ago.
* `StepsCorrect`: every step of the engine is a step of the kernel or none, until
  contention rolls back a registered placement (divergence 5); from it
  `RefinementCorrect`, that every behaviour in which it never does (`Uncontended`)
  is one of the kernel's. The invariant is that of the parts before it with `Alone`, that the
  registry of a job is that of its placement. A job then moves by one kernel
  action or by none, and the others stay. The engine counts room provider by
  provider and the kernel all places together: `KernelRoom` injects the placed
  jobs into the places of their providers, so a reserve that found room at its
  provider leaves one in the kernel.

These invariants are one formula per job (per key of a provider), and the proof
of a step has three parts: a step of one job leaves the others as they were
(`Local`, `LocalKey`); what it leaves as it was keeps its formula (`Frame` and
its like); for the job it is of, one step per action (`Mine`, `TrackMine`,
`PlacedMine`, `KeyMine`). Assumptions: `NoProvider` is no provider, slots, limits
and bounds are naturals, the two limits positive.

`SchedulerProofs`, for every list of jobs, finite set of offers, set of windows with
or without a cap, and any number of failures, requests and crashes: `PlansSound`,
`LedgerIsExact`, `BudgetIsKept`, `JobsPlacedRightly`. A pass looks once and acts
later, and each property is about what happened in between; the invariant is
`JobsOK /\ PassOK /\ PlanOK /\ MatchOK /\ LedgerOK /\ LedgerExact /\ MoneyOK`:

* `JobsOK`: a record by itself (`Sound`: attempts stay below the cap while a
  placement may still fail, and only a placed job has a price), and a job depends on
  submitted ones.
* `PlanOK` carries what the pass saw to the moment of the enactment. `Load` counts
  the jobs that occupy a provider or will once the decisions before this one are
  enacted; `Backed` says that a Reserve still has room under that count, and that
  its job may still be placed (`Placeable`); `OnceEach`, that a job has one decision,
  or an unhold and then a Reserve. Handlers and placements only ever lower the load,
  and the rest of a plan counts its head the same after its enactment as before.
* `MatchOK` says the same of the jobs not matched yet, and that no paid Reserve was
  made beside a free slot. It does not say so of a later plan: `FreeFirst` is about
  the match, as a policy may change before the enactment.
* `MoneyOK`: what a window holds and what the plan still reserves stay within the cap
  together. A crash between a job's commit and its rows makes a placement no row
  speaks of; it can be billed later beyond the cap, once, so the bound has one dearest
  price (`Dearest`) for each job torn by a crash that was billed since (`Overrun`),
  and a plan that is about to pay does so within the cap.

`LedgerExact` is inductive with `LedgerOK`; what it needs is what every writer of
rows does to the sums of each job (one row committed, realized or voided, the others
kept). Assumptions (`SchedulerAssumption`): each job is listed once, offers are
finitely many sequences of slots, policies and times have their types, `None` is
neither a number nor a provider.

`ContractProofs`, of `Store`, for every set of jobs and providers, and any number of
threads, calls and saves: `TokensAreEnds`, `NothingIsLost` and `LogStaysTrue`, that
is all of `LogIsTruth`. Four parts:

* The folds, one event at a time: what a log's replay, its folds and each provider's
  trace become when an event is appended (`ReplayAppend`, `TraceAppend` and their
  like), which `FoldsAgree` gives for every length.
* `Story` says at once what a log, a state, a provider and a resource have to do with
  one another; `Tells` says it of a job. Each operation carries the story on, if its
  caller checked what it checks. One by one the conjuncts of `LogIsTruth` are not
  inductive: that a release finds its resource open in a provider's trace needs to
  know which provider the job is bound to, and that comes from the last reserve.
* The histories an upgrade writes tell the story of the record they are written for
  (`ToldStep` builds them up); `Found`, `Historied` and `Settled` follow a database
  from the state it is found in through both migrations.
* The races. `CallOK` says what a call's two reads are worth: if its token is still
  the row's, the record it computed comes from the row's record. A commit raises the
  token and so makes every other call's reads stale, whichever thread they are of;
  hence `TokensAreEnds` and `NothingIsLost` hold for any number of threads of each
  kind. `StillDue` is about the check made before the reads (a retry's look for
  unreleased resources): nothing compares it at the commit, so either it still
  holds then, or the call is refused for the state it finds, or it went through out
  of turn and its job is `Outdated`. `ChecksOutlast` says when that can be: with one
  engine only for a retry, beside another handler; both may check before either
  commits, and the job is placed and ends between the two commits, so the second
  retry queues it with its resource live (divergence 8). With one handler, never.

Jobs with a call out of turn, jobs whose transition a plain save undid, and jobs an upgrade found placed, are
excepted (`Regular`) from what the log, the replays and the tables must agree on, as
in the run.

`WorkerProofs`, of `JobStream`, for any number of attempts, lines, bytes, followers, cuts and
crashes: `LogCorrect`, that is `LogExact`. The inductive invariant `StreamInv`
speaks of the whole file, with what a crash left beyond the resume point: it is in
order (`Ordered`, `Gapless`); below the resume point nothing is later than it says
(`Bounded`) and the last byte is the one it counts (`LastRead`); of an attempt
whose log was not begun there are headers at most (`Recent`). A connection cuts the
file back to the resume point before it appends, so what it appends follows
`LastRead`; a new attempt appends its header to whatever is there, which `Recent`
and `Ordered` still allow.

`FollowCorrect`, that is `FollowExact`, from `FollowInv`. Where the pieces in a
follower's queue lie in the file is a running sum over the queue; the invariant
says instead that there is a function that cuts a stretch of the file into those
pieces (`LaidOut`), from where the replay ends or the reader stands to, while
chunks are published to it, the file's end. A publication extends the function by
one point, a read drops its first one, a replayed block moves neither. `Synced`
adds that a follower's connection never truncates under it.

`WorkerProofs`, of `Bootstrap`, for any number of jobs, revisions and deaths:

* `ExclusionCorrect` from `LockInv`: for each lock in which no one died and no
  waiter lost patience, `Sane` says that it belongs to the script inside it: the
  directory is there, its heartbeat is not old and nobody condemned it, and what
  refreshes it is that script's.
* `TreeCorrect` from `TreeInv`: a half made checkout has its maker inside the lock,
  and one a script goes on with is whole; `EnvCorrect` from `EnvInv`: the stamp may
  be believed without the lock, because no sync begins to change an environment
  whose stamp is already that revision's. `SharedCorrect` joins them.
* `LostCorrect` from `LostInv`: per job what the heartbeat, the process and the
  files may be together (`Heart`), and what each round of the client's reading
  has established (`Seen`).

`EndpointProofs`, of `Connection`, for every finite set of threads, mix of calls and number of
drops: `BeginsBounded` from a bound on what a call has begun by how far it is
(`Began`); `AuthCorrect` and `RoundCorrect`, together `SerializedCorrect`, from
`LockInv`: who is inside a critical section holds its lock; `MultiplexedCorrect`
from `SlotInv`: the slots held are those of the capped commands that run, so the
channels in use are at most the cap and those that hold no slot (`Beside`), and
where these fit the server's limit a command finds one.

`EndpointProofs`, of `Market`, for every set of sections and offers, every limit and interval:
`SpacedCorrect` from `Paced`: who sleeps holds the throttle and waits for what is
left of the interval; `RentsElsewhereCorrect` from `Shunned`: since a rental
proved dead the offer has been cooling; `NoLeakCorrect` from `Kept`: each
attempt's instance is accounted for by where its submit is.

`BackendsProofs`, for every number of attempts, runs, machines and lost calls, in
each of the five families: `ReleasedGoneCorrect`, `OncePerAttemptCorrect`,
`VerdictsHoldCorrect`. None of the three is inductive: each speaks of a moment,
the release or the verdict, at which the adapter trusted what it remembers. The
invariant says what it may trust:

* `Shape`: the runs and machines of the platform fit together (a run on a machine
  dies with it, a sweep of an empty host leaves no directory).
* `Phases`: which handles there are in which stage, and that no verdict is held
  while a placement is live.
* `DirFits`: outside kaggle the one run that may be alive is the one the job's
  directory names, of this attempt, and none once a result is there. This is what
  makes a launch that finds the directory an adoption and no second run.
* `KernelFits`: on kaggle, where a name is reused, only the last kernel may run
  and it is the only one of its attempt.
* `BoxesFit`, `HandlesFit`: at most one machine is up, and the handle at hand
  reaches it, or the queue entry, or what the directory names.
* `LostDead`, `EndedOwn`: what a verdict was given on still holds.

A conjunct about what was heard is conditional on it (`~blurred`), as the
properties are: a call that took effect unheard voids it, but never what a market
whose instances carry the job's label promises: there what no handle remembers is
found again. On a market without labels (thunder) `BoxesFit` has instead that while
nothing was lost or forgotten there is no machine without a handle. Assumptions: the bounds are naturals, the
families among the five, and `None` is no handle.

`FrontProofs`, for every set of jobs (finite or not), any number of verbs, waits
and faults, with a daemon and without:

* `NothingMissedCorrect`. `CaughtUp` speaks of the moment when everything sleeps;
  `Expected` says of every other moment which step will look at a job that is due:
  a nudge or a first gather still to come, a gather under way that began after the
  job was due, or the slots it published with a wake or a round that takes them.
  The step between them is the one to lose a job: a gather that publishes replaces
  slots no pass has taken, and `Overtakes` is why it may. `AskedSeen` follows a
  submit from its own gather to the pass counted for it: a count that moved means
  a pass over slots that saw the job. For a session, `SessionSeen`: its drive
  gathers first.
* `DriveSettlesCorrect` from `SessionSettled`: a round that found nothing to do
  had no live item and leaves no cancel behind but one of a parked item, whose own
  cancel failed or froze; and a stream that ends after it sets the wake that forbids
  to stop. A session that raises parks what it cuts off.
* `NeverBlindCorrect`, inductive with `Subjects`, that a watch on the feed has a
  job.

Assumptions: `None` is no job, the bounds are naturals.

TLC checked each inductive invariant on the run's instance before it was proved;
that of `Front` with two jobs as well.

Every invariant and action property of the runs is stated by one of these theorems.
None has a hypothesis on the behaviour but `RefinementCorrect` (`Uncontended`), which
is `StepsCorrect` for the behaviours without divergence 5.

Only model-checked: the liveness properties (`CancelEnds`, `PlacementsEnd`,
`StreamEnds`, `EveryScriptEnds`, `ReleaseCompletes`, `CallsReturn`, `CatchesUp`).
Fairness and `ENABLED` are beyond the prover.

## 6. Where code and documents differ

Met while modelling. The modules follow the code; each of these is excluded from a
property by name, by a ghost variable or, for 5, by where the property ends.

Engine:

1. A cancel (supervisor.py:717-722) or the end of the process leaves a rent or a
   launch behind on its thread (asyncadapter.py:161-173), where it goes on. A rent
   still creates, and nothing knows the instance; a launch, and a rent that carries
   the payload (slurm.py:637-651, kaggle, colab), starts the worker: after the
   placement was torn down, and beside the next one. A rent whose answer is lost,
   or that fails after it took effect, does the same; a release left behind
   destroys what a later placement rented under that key.
2. The durable half of a cancel is adopted and applied before its in-memory half
   arrives, which then cancels the retried job (engine.py:224).
3. A place item adopted at boot or launch finds no handle in the fresh adapter
   and fails a healthy placement.
4. A cancel answered while a work item is open has no durable row and a crash
   forgets it (verbs.py:747).
5. Contention while re-renting a provisioned placement rolls it back with its
   registry row unreleased.
6. The cancel item rewrites its row without the stamps, so it is never
   quarantined.
7. A crash between the preempted activation and the cancel row leaves a running
   job that was never launched.

Verbs, daemon and client:

8. `Edit` tears a placement down and requeues it without asking whether its
   resource was released (verbs.py:844); `gc` sweeps before a capture
   (verbs.py:970); `retry` looks for unreleased resources outside its
   transaction (verbs.py:912).
9. A session gathers slots again only when the set of pending jobs differs from the
   one it gathered for, and a requeued job was in that one: the drive places it
   over the old slots, although the docstring at client.py:276-286 says that a
   requeue gathers again.
10. `_await_settle` checks the job and then loads it again, so the record it returns
    may be of a later, unsettled state (daemon.py:452-481).

Scheduler and ledger:

11. `reprioritize_policy` rebuilds the policy without `dep_failure`, so a job that
    ignored a failed dependency stops doing so.
12. A slot of unknown cost is admitted when only the weekly cap is set.
13. A Reserve decided before a repin or a reprioritize honours the older pin and
    `max_cost`.
14. After a crash between a commit and its rows, a retry's settlement realizes
    the previous attempt's row (budget.py:93).

Store:

15. A plain save may undo a transition committed since its read (store.py:492),
    so a row is not always a fold of its log, although the docstring near
    store.py:697 says so.
16. An upgrade leaves the logs of placed jobs off the model (store.py:1404-1408).
17. A submit at token 0 overwrites a row that does not parse.

Job streams:

18. A crash between the header and the saved resume point duplicates the header.
19. A full queue at the stop loses its oldest item; a line cut by a broken
    connection is stored with a newline the worker did not write, which counts in
    the offset, so the next connection skips one byte of the rest.
20. A follower that joins before the stream's first step takes 0 for the boundary
    (client.py:808-814, jobstream.py:429-431).

Worker and backends:

21. A waiter breaks a lock on its own timeout (bootstrap.py:488), while the comment
    at 492-497 speaks of stale heartbeats only; the robbed holder's unlock then
    stops the new holder's refresher. The stamp is not removed before `uv sync`.
    A script dead before its first heartbeat reads STARTING for ever.
22. Over ssh LOST may be said after a result was written (ssh.py:370-375), which
    local.py:142 rules out for its adapter.
23. A colab machine that cannot be reached, and a failing `squeue`, read as LOST.
24. A release is "confirmed" after a status that failed (asyncadapter.py:211,
    234); a cached terminal verdict answers for the next attempt; after a crash
    between rent and boot a retry believes the earlier `result.json`; kaggle
    without a cancel call cannot stop a run.

Connections and markets:

25. A failed authentication is not shared by the threads waiting for it, though
    execlayer/ssh.py:36-42 and 229-231 say so. The cache's expiry counts from the
    end of the round. The first caller's limit stays the semaphore's.
26. A creation whose answer was lost leaves an instance no one was told of; on
    thunder, whose instances carry no label (thunder.py:159-161), none can find it
    later and it bills on after a confirmed release. The runpod key of an offer does
    not tell its clouds apart.
27. The comments at execlayer/ssh.py:63-64 and 146 and slurm.py:64-68 say that a cap
    below `MaxSessions` keeps every operation on the session. Follows, one for each
    running job, and git's push and ls-remote (jobdir.py:99-122, ssh.py:488-490) go
    over the same session and hold no slot: with the default cap of 6 and a limit of
    10, the fifth follow leaves less than the cap, and a capped command may be pushed
    off into a dial of its own.

## 7. Mutants

Operators named `Bug...` are wrong variants of the definition that follows
them: a dropped guard, an off-by-one, a missing reset, a swapped branch. No
action uses them. For each property of a run, `PROJECT.json` names one whose
substitution breaks that property.

## 8. What is not modelled

* Edit's teardown, gc and pull: they would add unguarded releases to `Engine`
  whose effects divergence 8 describes; the policy edits of `edit`, `repin` and
  `reprioritize` are in `Scheduler`.
* Two engines over one store (a daemon and a client that drives itself,
  client.py:575): two copies of `Engine` are beyond what TLC finishes. `Store`
  has the competing transactions, not the competing choreographies.
* The validator's polling, watermark and fingerprints; the replay it performs is
  in `Store`.
* Chooser, groups, wire formats: pure functions of one user's input; their
  results are the policies and pins that `Scheduler` enumerates.
* Command line, rendering, repository, artifacts, deploy keys, configuration:
  parsing and I/O.
* Within modelled parts: command lines and output parsing, offer filters and
  price arithmetic, the lengths of backoffs, notification content, deadlines and
  start estimates of the value model, interactive authentication, pid reuse on a
  worker, `invalidate` and `adapter.place` (no caller), `append_event` and
  `reserve` of the store (no caller).

## 9. Plan

1. Proofs: every invariant and action property of the runs is proved. Next is an
   abstract specification of the store's log that the engine's commits refine.
2. `EngineEdit`: edit's teardown and gc composed with `Engine`.
3. Two engines over one store, with the work items reduced to their commits.
4. The validator against a moving store.
