----------------------------- MODULE Connection -----------------------------
(***************************************************************************)
(* One login host reached by several threads: the shared ControlMaster     *)
(* session (execlayer/ssh.py), the channel slots on it, the commands,      *)
(* batches, transfers and follows (execlayer/base.py), and the single-     *)
(* flight discovery cache (endpoints/manager.py) that slurm's and kaggle's *)
(* discovery go through.                                                   *)
(*                                                                         *)
(* The threads are the engine's pool; the session may drop at any moment   *)
(* and take every channel with it; a host asks for a password, which a     *)
(* BatchMode command cannot give, or takes a key, which it can.            *)
(***************************************************************************)
EXTENDS Naturals, FiniteSets

CONSTANTS
    Callers,       \* the threads, one call each
    None,
    Loads,         \* what the threads call at once: a kind and a configured max_concurrency each
    MaxSessions,   \* the server's channels per connection
    Ttl,           \* the discovery cache's time to live, in ticks
    MaxDrops       \* bound: dropped sessions and refused dials

\* push: git, which runs ssh by itself over the same control socket.
Kinds == {"discover", "query", "submit", "batch", "put", "get", "stream", "push"}

ASSUME ConnectionAssumption ==
    /\ None \notin Callers /\ IsFiniteSet(Callers)
    /\ Loads \subseteq [Callers -> [kind : Kinds, limit : Nat \ {0}]]
    /\ {MaxSessions, Ttl} \subseteq Nat \ {0} /\ MaxDrops \in Nat

VARIABLES
    host,      \* what a dial needs: "key" or "password"
    capped,    \* are the channels of this host capped
    call,      \* each thread's call
    master,    \* does the control socket answer
    authLock,  \* the holder of _MASTER_LOCKS[key]
    cap,       \* the limit _OP_SEMAPHORES[key] was created with; 0: not yet
    slots,     \* the threads holding one of its slots
    keyLock,   \* the holder of the discovery key's lock
    cache,     \* the cached round: remaining ticks, and was it a success
    drops

vars == <<host, capped, call, master, authLock, cap, slots, keyLock, cache, drops>>

Call == [kind : Kinds, limit : Nat \ {0},
         pc : {"connect", "lock", "auth", "key", "slot", "running", "done"},
         healed : BOOLEAN,                                  \* run() already re-authenticated
         moved : BOOLEAN,                                   \* put, push: on its second command
         execs : 0..3,                                      \* ghost: commands begun remotely
         via : {"none", "mux", "own", "cut", "refused"},    \* the channel
         out : {"none", "ok", "hit", "failed", "timeout", "down"}]

TypeOK ==
    /\ host \in {"key", "password"} /\ capped \in BOOLEAN
    /\ call \in [Callers -> Call]
    /\ master \in BOOLEAN /\ {authLock, keyLock} \subseteq Callers \cup {None}
    /\ cap \in Nat /\ slots \subseteq Callers
    /\ cache \in [left : 0..Ttl, ok : BOOLEAN]
    /\ drops \in 0..MaxDrops

NoRound == [left |-> 0, ok |-> FALSE]

Init ==
    /\ host \in {"key", "password"} /\ capped \in BOOLEAN
    /\ \E l \in Loads :
          call = [c \in Callers |-> [kind |-> l[c].kind, limit |-> l[c].limit,
                                     pc |-> IF l[c].kind = "discover" THEN "connect" ELSE "slot",
                                     healed |-> FALSE, moved |-> FALSE, execs |-> 0,
                                     via |-> "none", out |-> "none"]]
    /\ master = FALSE /\ authLock = None /\ cap = 0 /\ slots = {} /\ keyLock = None
    /\ cache = NoRound /\ drops = 0

----------------------------------------------------------------------------
(***************************************************************************)
(* A thread's call.                                                        *)
(***************************************************************************)
At(c, pc) == call[c].pc = pc
Goes(c, pc) == call' = [call EXCEPT ![c].pc = pc]

\* The call returns (or raises): the discovery key's lock is let go with it.
Returns(c, out) ==
    /\ call' = [call EXCEPT ![c].pc = "done", ![c].out = out, ![c].via = "none"]
    /\ keyLock' = IF keyLock = c THEN None ELSE keyLock

----------------------------------------------------------------------------
(***************************************************************************)
(* ensure_master(interactive=False), from discover and from run's heal.    *)
(***************************************************************************)
Connected(c) == Goes(c, IF call[c].healed THEN "slot" ELSE "key")

\* The first look, before the lock.
Look(c) ==
    /\ At(c, "connect")
    /\ IF master THEN Connected(c) ELSE Goes(c, "lock")
    /\ UNCHANGED <<host, capped, master, authLock, cap, slots, keyLock, cache, drops>>

\* The lock, and the second look under it: another thread may have connected meanwhile.
Establish(c) ==
    /\ At(c, "lock") /\ authLock = None
    /\ IF master THEN Connected(c) /\ UNCHANGED authLock ELSE authLock' = c /\ Goes(c, "auth")
    /\ UNCHANGED <<host, capped, master, cap, slots, keyLock, cache, drops>>

AuthSucceeds(c) ==
    /\ At(c, "auth")
    /\ master' = TRUE /\ authLock' = None /\ Connected(c)
    /\ UNCHANGED <<host, capped, cap, slots, keyLock, cache, drops>>

\* Refused or timed out: discover is UNREACHABLE, a healing run surfaces its failure.
AuthFails(c) ==
    /\ At(c, "auth")
    /\ authLock' = None /\ Returns(c, "down")
    /\ UNCHANGED <<host, capped, master, cap, slots, cache, drops>>

----------------------------------------------------------------------------
(***************************************************************************)
(* EndpointManager.cached around discover's command.                       *)
(***************************************************************************)
BugLookUp(c) ==
    /\ At(c, "key")
    /\ IF cache.left > 0 THEN Returns(c, "hit") ELSE keyLock' = c /\ Goes(c, "slot")
    /\ UNCHANGED <<host, capped, master, authLock, cap, slots, cache, drops>>

\* Under the key's lock, a fresh success answers, or this thread makes the round.
LookUp(c) ==
    /\ At(c, "key") /\ keyLock = None
    /\ IF cache.left > 0 THEN Returns(c, "hit") ELSE keyLock' = c /\ Goes(c, "slot")
    /\ UNCHANGED <<host, capped, master, authLock, cap, slots, cache, drops>>

\* Only a success is kept; a failure empties the entry.
Stored(c, out) == IF out = "ok" THEN [left |-> Ttl, ok |-> TRUE] ELSE NoRound

----------------------------------------------------------------------------
(***************************************************************************)
(* run, run_batch, put, get, stream, and push_repo's git.                  *)
(***************************************************************************)
BugSlotted(c) == capped /\ call[c].kind \notin {"stream", "push", "put", "get"}

\* A follow holds no slot for its lifetime, git does not know of them; an uncapped
\* host has none.
Slotted(c) == capped /\ call[c].kind \notin {"stream", "push"}

\* The first command of the process creates the semaphore, with its own limit.
Limit(c) == IF cap = 0 THEN call[c].limit ELSE cap

TakesSlot(c) ==
    IF Slotted(c)
    THEN cap' = Limit(c) /\ Cardinality(slots) < Limit(c) /\ slots' = slots \cup {c}
    ELSE UNCHANGED <<cap, slots>>

Muxed == {c \in Callers : call[c].via = "mux"}
Opens(c, via) ==
    call' = [call EXCEPT ![c].pc = "running", ![c].via = via,
                         ![c].execs = IF via = "refused" THEN @ ELSE @ + 1]

\* ssh multiplexes over the live session while it has channels left.
Open(c) ==
    /\ At(c, "slot") /\ TakesSlot(c) /\ master /\ Cardinality(Muxed) < MaxSessions
    /\ Opens(c, "mux")
    /\ UNCHANGED <<host, capped, master, authLock, keyLock, cache, drops>>

\* Otherwise it dials for itself, which only a key gets through; with no session
\* in the way ControlMaster=auto makes the dial the new one.
Dial(c) ==
    /\ At(c, "slot") /\ TakesSlot(c) /\ (~master \/ Cardinality(Muxed) >= MaxSessions)
    /\ \/ /\ host = "key"
          /\ Opens(c, IF master THEN "own" ELSE "mux") /\ master' = TRUE
          /\ UNCHANGED drops
       \/ /\ \/ host = "password" /\ UNCHANGED drops
             \/ host = "key" /\ drops < MaxDrops /\ drops' = drops + 1
          /\ Opens(c, "refused") /\ UNCHANGED master
    /\ UNCHANGED <<host, capped, authLock, keyLock, cache>>

BugRetried == {"discover", "query", "submit", "batch"}

\* run() heals and retries once, unless told the command must not run twice;
\* a transfer and a follow never do.
Retried == {"discover", "query", "batch"}
Healable(c) == ~call[c].healed /\ (call[c].kind \in Retried \/ (call[c].kind = "put" /\ ~call[c].moved))

BugLetGo(c) == slots' = IF call[c].via = "cut" THEN slots ELSE slots \ {c}

\* The slot is given back on every way out.
LetGo(c) == slots' = slots \ {c}

\* The transport failed, whatever the command had done by then.
TransportFails(c) ==
    /\ At(c, "running") /\ call[c].via \in {"cut", "refused"}
    /\ LetGo(c)
    /\ IF Healable(c)
       THEN call' = [call EXCEPT ![c].pc = "connect", ![c].healed = TRUE, ![c].via = "none"]
            /\ UNCHANGED keyLock
       ELSE Returns(c, "down")
    /\ UNCHANGED <<host, capped, master, authLock, cap, cache, drops>>

\* A batch is one command: cut short by its timeout, markers are missing and the
\* whole of it is an error, never some of its results.
BatchOf(c, out) == IF call[c].kind = "batch" /\ out = "timeout" THEN "down" ELSE out

\* put's mkdir done, the transfer follows on a channel of its own; git's push refused
\* because the ref exists, ls-remote asks what it is.
Continues(c, out) ==
    /\ ~call[c].moved
    /\ \/ call[c].kind = "put" /\ out = "ok"
       \/ call[c].kind = "push" /\ out = "exists"

Finishes(c) ==
    /\ At(c, "running") /\ call[c].via \in {"mux", "own"}
    /\ \E out \in {"ok", "failed", "timeout", "exists"} :
          /\ out = "timeout" => call[c].kind \in {"discover", "query", "submit", "batch", "push"}
          /\ out = "exists" => Continues(c, out)
          /\ LetGo(c)
          /\ IF Continues(c, out)
             THEN call' = [call EXCEPT ![c].pc = "slot", ![c].moved = TRUE, ![c].via = "none",
                                       ![c].healed = FALSE]
                  /\ UNCHANGED <<keyLock, cache>>
             ELSE /\ Returns(c, BatchOf(c, out))
                  /\ cache' = IF call[c].kind = "discover" THEN Stored(c, out) ELSE cache
    /\ UNCHANGED <<host, capped, master, authLock, cap, drops>>

----------------------------------------------------------------------------
(***************************************************************************)
(* The session drops, time passes.                                         *)
(***************************************************************************)
Drop ==
    /\ master /\ drops < MaxDrops
    /\ master' = FALSE /\ drops' = drops + 1
    /\ call' = [c \in Callers |-> [call[c] EXCEPT !.via = IF @ = "mux" THEN "cut" ELSE @]]
    /\ UNCHANGED <<host, capped, authLock, cap, slots, keyLock, cache>>

\* Time goes on, whether or not anything waits for it.
Tick ==
    /\ cache' = IF cache.left <= 1 THEN NoRound ELSE [cache EXCEPT !.left = @ - 1]
    /\ UNCHANGED <<host, capped, call, master, authLock, cap, slots, keyLock, drops>>

Steps(c) ==
    \/ Look(c) \/ Establish(c) \/ AuthSucceeds(c) \/ AuthFails(c) \/ LookUp(c)
    \/ Open(c) \/ Dial(c) \/ TransportFails(c) \/ Finishes(c)

Next == (\E c \in Callers : Steps(c)) \/ Drop \/ Tick

\* The operating system runs every thread and hands every free lock to a waiter;
\* ssh's keepalives end a command whose host is gone, and every remote command is
\* assumed to end: those run without a timeout (the transfers, the -O check, run's
\* default) end no other way.
Spec == Init /\ [][Next]_vars /\ \A c \in Callers : WF_vars(Steps(c))

----------------------------------------------------------------------------
(***************************************************************************)
(* Properties.                                                             *)
(***************************************************************************)
\* One authentication at a time however many threads find the session dead, and
\* on a host that asks for a password none while the session is alive (ensure_master).
OneAuth ==
    LET authing == {c \in Callers : At(c, "auth")}
    IN  Cardinality(authing) <= 1 /\ (host = "password" /\ authing # {} => ~master)

\* A command that must not run twice begins at most once whatever the session does,
\* and no other command more than twice (run's single heal, reconnect_retry=False).
AtMostOnce ==
    \A c \in Callers :
        call[c].execs <= CASE call[c].kind = "submit" -> 1
                           [] call[c].kind = "put" -> 3
                           [] OTHER -> 2

\* The channels a dial of c would share the session with, or take itself, that hold
\* no slot: follows, one a running job, and git's.
Beside(c) == {d \in Callers : call[d].kind \in {"stream", "push"}
                                 /\ (d = c \/ call[d].via = "mux")}

\* On a capped host nothing is pushed off the live session into a dial of its own
\* while the cap and the channels that hold no slot fit the server's MaxSessions
\* (_op_slot, _OP_SEMAPHORES; the cap alone below MaxSessions does not suffice).
StaysMultiplexed ==
    [][\A c \in Callers :
          /\ capped /\ master /\ At(c, "slot") /\ call'[c].pc = "running"
          /\ cap' + Cardinality(Beside(c)) <= MaxSessions
          => call'[c].via = "mux"]_vars

\* One remote round per window: a discovery command begins only when no other is
\* under way and no success is still fresh, and what the cache answers with is a
\* success (EndpointManager.cached).
OneRound ==
    /\ cache.left > 0 => cache.ok
    /\ LET rounds == {c \in Callers : call[c].kind = "discover"
                                        /\ call[c].pc \in {"slot", "running"}}
       IN  Cardinality(rounds) <= 1 /\ (rounds # {} => cache.left = 0)

\* Every call returns, whatever drops and whoever holds the locks meanwhile.
CallsReturn == \A c \in Callers : <>At(c, "done")

\* One at a time: authentications of a host, rounds of a discovery.
Serialized == TypeOK /\ OneAuth /\ OneRound
=============================================================================
