--------------------------- MODULE EndpointProofs ---------------------------
(***************************************************************************)
(* What guards the remote endpoints: the connection to a login host, and   *)
(* the submits that rent from a market.  The two components share nothing; *)
(* their proofs share this module and no lemma.  The names of the second   *)
(* carry the prefix Market where the first has the name already.           *)
(***************************************************************************)
EXTENDS Connection, Market, FiniteSetTheorems, TLAPS

----------------------------------------------------------------------------
(***************************************************************************)
(* The connection, for every finite set of threads, every mix of calls     *)
(* under every cap, and any number of dropped sessions.                    *)
(***************************************************************************)

\* What a call has begun remotely is bounded by how far it is: once, once more if it
\* was healed, and once more for what follows a mkdir or a push.
Began(c) ==
    LET call_c == call[c]
    IN  /\ call_c.moved => call_c.kind \in {"put", "push"} /\ ~call_c.healed
        /\ call_c.healed => call_c.kind \in Retried \cup {"put"}
        /\ call_c.execs <= (IF call_c.healed THEN 1 ELSE 0)
                             + (IF call_c.moved THEN (IF call_c.kind = "put" THEN 2 ELSE 1) ELSE 0)
                             + (IF call_c.pc \in {"running", "done"} THEN 1 ELSE 0)

Typed == TypeOK /\ \A c \in Callers : Began(c)

\* The bounds are numbers.
LEMMA Bounds == MaxSessions \in Nat \ {0} /\ Ttl \in Nat \ {0} /\ MaxDrops \in Nat
BY ConnectionAssumption

\* The lock that nobody holds is held by no thread.
LEMMA Nobody == \A c \in Callers : c # None
BY ConnectionAssumption

\* A dial that opens or is refused takes a call from its slot to running.
LEMMA OpensTyped ==
  ASSUME NEW c \in Callers, NEW via \in {"mux", "own", "refused"},
         call \in [Callers -> Call], \A d \in Callers : Began(d),
         At(c, "slot"), Opens(c, via)
  PROVE  call' \in [Callers -> Call] /\ \A d \in Callers : Began(d)'
<1>1. call[c] \in Call /\ Began(c)
  OBVIOUS
<1> DEFINE more == IF via = "refused" THEN call[c].execs ELSE call[c].execs + 1
<1>2. more \in 0..3
  BY <1>1 DEF Call, Began, At, Retried
<1>3. call' = [call EXCEPT ![c] = [@ EXCEPT !.pc = "running", !.via = via, !.execs = more]]
  BY DEF Opens
<1>4. more <= call[c].execs + 1
  BY <1>1 DEF Call
<1> HIDE DEF more
<1>5. [call[c] EXCEPT !.pc = "running", !.via = via, !.execs = more] \in Call
  BY <1>1, <1>2 DEF Call
<1>6. call' \in [Callers -> Call]
  BY <1>3, <1>5
<1>7. Began(c)'
  BY <1>1, <1>2, <1>3, <1>4 DEF Began, At, Call
<1>8. ASSUME NEW d \in Callers, d # c PROVE Began(d)'
  BY <1>3, <1>8 DEF Began
<1>9. QED
  BY <1>6, <1>7, <1>8

\* A call that goes on to a point before its next command begins nothing.
LEMMA GoesTyped ==
  ASSUME NEW c \in Callers, NEW pc \in {"connect", "lock", "auth", "key", "slot"},
         call \in [Callers -> Call], \A d \in Callers : Began(d),
         call[c].pc \notin {"running", "done"}, Goes(c, pc)
  PROVE  call' \in [Callers -> Call] /\ \A d \in Callers : Began(d)'
<1>1. call' = [call EXCEPT ![c] = [@ EXCEPT !.pc = pc]]
  BY DEF Goes
<1>2. [call[c] EXCEPT !.pc = pc] \in Call
  BY DEF Call
<1>3. Began(c)'
  BY <1>1 DEF Began, Call
<1>4. QED
  BY <1>1, <1>2, <1>3 DEF Began

\* A call that returns keeps the types, whatever it returns.
LEMMA ReturnsTyped ==
  ASSUME NEW c \in Callers, NEW out \in {"ok", "hit", "failed", "timeout", "down"},
         call \in [Callers -> Call], \A d \in Callers : Began(d),
         keyLock \in Callers \cup {None}, Returns(c, out)
  PROVE  /\ call' \in [Callers -> Call] /\ \A d \in Callers : Began(d)'
         /\ keyLock' \in Callers \cup {None}
<1>1. call' = [call EXCEPT ![c] = [@ EXCEPT !.pc = "done", !.out = out, !.via = "none"]]
  BY DEF Returns
<1>2. [call[c] EXCEPT !.pc = "done", !.out = out, !.via = "none"] \in Call
  BY ZenonT(40) DEF Call
<1>3. Began(c)'
  BY <1>1 DEF Began, Call
<1>4. QED
  BY <1>1, <1>2, <1>3 DEF Began, Returns

----------------------------------------------------------------------------
\* The slot a command takes was created with a caller's limit.
LEMMA SlotTyped ==
  ASSUME NEW c \in Callers, TypeOK, TakesSlot(c)
  PROVE  cap' \in Nat /\ slots' \subseteq Callers
<1>1. call[c].limit \in Nat
  BY DEF TypeOK, Call
<1>2. Limit(c) \in Nat
  BY <1>1 DEF Limit, TypeOK
<1>3. QED
  BY <1>2 DEF TakesSlot, TypeOK

\* Reaching the connection and looking up the cache.
LEMMA ConnectingTyped ==
  ASSUME NEW c \in Callers, Typed,
         Look(c) \/ Establish(c) \/ AuthSucceeds(c) \/ AuthFails(c) \/ LookUp(c)
  PROVE  Typed'
<1> USE DEF Typed
<1>1. CASE Look(c)
  <2>1. call[c].pc \notin {"running", "done"} /\ \E pc \in {"lock", "slot", "key"} : Goes(c, pc)
    BY <1>1 DEF Look, At, Connected
  <2>2. QED
    BY <1>1, <2>1, GoesTyped DEF TypeOK, Look
<1>2. CASE Establish(c)
  <2>1. call[c].pc \notin {"running", "done"} /\ \E pc \in {"auth", "slot", "key"} : Goes(c, pc)
    BY <1>2 DEF Establish, At, Connected
  <2>2. authLock' \in Callers \cup {None}
    BY <1>2 DEF TypeOK, Establish
  <2>3. QED
    BY <1>2, <2>1, <2>2, GoesTyped DEF TypeOK, Establish
<1>3. CASE AuthSucceeds(c)
  <2>1. call[c].pc \notin {"running", "done"} /\ \E pc \in {"slot", "key"} : Goes(c, pc)
    BY <1>3 DEF AuthSucceeds, At, Connected
  <2>2. QED
    BY <1>3, <2>1, GoesTyped DEF TypeOK, AuthSucceeds
<1>4. CASE AuthFails(c)
  <2>1. keyLock \in Callers \cup {None} /\ Returns(c, "down")
    BY <1>4 DEF AuthFails, TypeOK
  <2>2. QED
    BY <1>4, <2>1, ReturnsTyped DEF TypeOK, AuthFails
<1>5. CASE LookUp(c)
  <2>1. CASE Returns(c, "hit")
    BY <1>5, <2>1, ReturnsTyped DEF TypeOK, LookUp
  <2>2. CASE keyLock' = c /\ Goes(c, "slot")
    <3>1. call[c].pc \notin {"running", "done"}
      BY <1>5 DEF LookUp, At
    <3>2. QED
      BY <1>5, <2>2, <3>1, GoesTyped DEF TypeOK, LookUp
  <2>3. QED
    BY <1>5, <2>1, <2>2 DEF LookUp
<1>6. QED
  BY <1>1, <1>2, <1>3, <1>4, <1>5

\* Opening a channel.
LEMMA OpeningTyped ==
  ASSUME NEW c \in Callers, Typed, Open(c) \/ Dial(c) PROVE Typed'
<1> USE DEF Typed
<1>1. At(c, "slot") /\ TakesSlot(c) /\ \E via \in {"mux", "own", "refused"} : Opens(c, via)
  BY DEF Open, Dial
<1>2. call' \in [Callers -> Call] /\ (\A d \in Callers : Began(d)')
  BY <1>1, OpensTyped DEF TypeOK
<1>3. cap' \in Nat /\ slots' \subseteq Callers
  BY <1>1, SlotTyped
<1>4. MaxDrops \in Nat /\ drops' \in 0..MaxDrops /\ master' \in BOOLEAN
  <2>1. drops \in 0..MaxDrops /\ master \in BOOLEAN
    BY DEF TypeOK
  <2>2. CASE Open(c)
    BY <2>1, <2>2, Bounds DEF Open
  <2>3. CASE Dial(c)
    <3>1. \/ master' = TRUE /\ drops' = drops
          \/ master' = master /\ (drops' = drops \/ (drops < MaxDrops /\ drops' = drops + 1))
      BY <2>3 DEF Dial
    <3>2. master' \in BOOLEAN
      BY <2>1, <3>1, Zenon
    <3>3. drops' = drops \/ (drops < MaxDrops /\ drops' = drops + 1)
      BY <3>1
    <3>4. drops' \in 0..MaxDrops
      BY <2>1, <3>3, Bounds
    <3>5. QED
      BY <3>2, <3>4, Bounds
  <2>4. QED
    BY <2>2, <2>3
<1>5. QED
  BY <1>2, <1>3, <1>4 DEF TypeOK, Open, Dial

\* A transport that fails, healed or surfaced.
LEMMA FailingTyped ==
  ASSUME NEW c \in Callers, Typed, TransportFails(c) PROVE Typed'
<1> USE DEF Typed
<1>1. slots' \subseteq Callers
  BY DEF TransportFails, LetGo, TypeOK
<1>2. CASE Healable(c) /\ call' = [call EXCEPT ![c].pc = "connect", ![c].healed = TRUE,
                                               ![c].via = "none"] /\ UNCHANGED keyLock
  <2>1. call[c] \in Call /\ Began(c) /\ At(c, "running")
    BY DEF TypeOK, TransportFails
  <2>2. call' = [call EXCEPT ![c] = [@ EXCEPT !.pc = "connect", !.healed = TRUE, !.via = "none"]]
    BY <1>2
  <2>3. [call[c] EXCEPT !.pc = "connect", !.healed = TRUE, !.via = "none"] \in Call
    BY <2>1 DEF Call
  <2>4. ~call[c].moved /\ ~call[c].healed /\ call[c].kind \in Retried \cup {"put"}
    BY <1>2, <2>1 DEF Healable, Began, Retried, Call
  <2>5. Began(c)'
    BY <2>1, <2>2, <2>4 DEF Began, Call, At, TypeOK
  <2>6. \A d \in Callers : Began(d)'
    BY <2>2, <2>5 DEF Began, TypeOK
  <2>7. call' \in [Callers -> Call]
    BY <2>2, <2>3 DEF TypeOK
  <2>8. QED
    BY <1>1, <1>2, <2>6, <2>7 DEF TypeOK, TransportFails
<1>3. CASE Returns(c, "down")
  BY <1>1, <1>3, ReturnsTyped DEF TypeOK, TransportFails
<1>4. QED
  BY <1>2, <1>3 DEF TransportFails

\* A command that finishes: a mkdir is followed by its transfer, a push by its probe.
LEMMA FinishingTyped ==
  ASSUME NEW c \in Callers, Typed, Finishes(c) PROVE Typed'
<1> USE DEF Typed
<1>1. PICK out \in {"ok", "failed", "timeout", "exists"} :
        /\ out = "exists" => Continues(c, out)
        /\ LetGo(c)
        /\ IF Continues(c, out)
           THEN call' = [call EXCEPT ![c].pc = "slot", ![c].moved = TRUE, ![c].via = "none",
                                     ![c].healed = FALSE]
                /\ UNCHANGED <<keyLock, cache>>
           ELSE /\ Returns(c, BatchOf(c, out))
                /\ cache' = IF call[c].kind = "discover" THEN Stored(c, out) ELSE cache
  BY DEF Finishes
<1>2. slots' \subseteq Callers
  BY <1>1 DEF LetGo, TypeOK
<1>3. CASE Continues(c, out)
  <2>1. call[c] \in Call /\ Began(c) /\ At(c, "running")
    BY DEF TypeOK, Finishes
  <2>2. call' = [call EXCEPT ![c] = [@ EXCEPT !.pc = "slot", !.moved = TRUE, !.via = "none",
                                              !.healed = FALSE]]
    BY <1>1, <1>3
  <2>3. [call[c] EXCEPT !.pc = "slot", !.moved = TRUE, !.via = "none", !.healed = FALSE] \in Call
    BY <2>1 DEF Call
  <2>4. Began(c)'
    BY <1>3, <2>1, <2>2 DEF Began, Call, At, TypeOK, Continues, Retried
  <2>5. \A d \in Callers : Began(d)'
    BY <2>2, <2>4 DEF Began, TypeOK
  <2>6. call' \in [Callers -> Call]
    BY <2>2, <2>3 DEF TypeOK
  <2>7. QED
    BY <1>1, <1>2, <1>3, <2>5, <2>6 DEF TypeOK, Finishes
<1>4. CASE ~Continues(c, out)
  <2>1. Returns(c, BatchOf(c, out)) /\ BatchOf(c, out) \in {"ok", "hit", "failed", "timeout", "down"}
    BY <1>1, <1>4 DEF BatchOf
  <2>2. /\ call' \in [Callers -> Call] /\ \A d \in Callers : Began(d)'
        /\ keyLock' \in Callers \cup {None}
    BY <2>1, ReturnsTyped DEF TypeOK
  <2>3. cache' \in [left : 0..Ttl, ok : BOOLEAN]
    <3>1. Stored(c, out) \in [left : 0..Ttl, ok : BOOLEAN]
      BY Bounds DEF Stored, NoRound
    <3>2. QED
      BY <1>1, <1>4, <3>1 DEF TypeOK
  <2>4. QED
    BY <1>2, <2>2, <2>3 DEF TypeOK, Finishes
<1>5. QED
  BY <1>3, <1>4

\* The session drops: a channel that is cut begins nothing.
LEMMA DropTyped == ASSUME Typed, Drop PROVE Typed'
<1> USE DEF Typed
<1> DEFINE cut(d) == [call[d] EXCEPT !.via = IF @ = "mux" THEN "cut" ELSE @]
<1>1. call' = [d \in Callers |-> cut(d)]
  BY DEF Drop
<1>2. ASSUME NEW d \in Callers PROVE cut(d) \in Call /\ Began(d)'
  <2>1. call[d] \in Call /\ call'[d] = cut(d) /\ Began(d)
    BY <1>1 DEF TypeOK
  <2>2. QED
    BY <2>1 DEF Call, Began
<1>3. call' \in [Callers -> Call]
  BY <1>1, <1>2
<1>4. drops' \in 0..MaxDrops
  BY Bounds DEF Drop, TypeOK
<1>5. QED
  BY <1>2, <1>3, <1>4 DEF Drop, TypeOK

\* Time passes.
LEMMA TickTyped == ASSUME Typed, Tick PROVE Typed'
<1>1. cache' \in [left : 0..Ttl, ok : BOOLEAN]
  BY Bounds DEF Typed, TypeOK, Tick, NoRound
<1>2. QED
  BY <1>1 DEF Typed, TypeOK, Tick, Began

\* The first state.
LEMMA InitTyped == ASSUME Init PROVE Typed
<1>1. PICK l \in Loads :
        call = [c \in Callers |-> [kind |-> l[c].kind, limit |-> l[c].limit,
                                   pc |-> IF l[c].kind = "discover" THEN "connect" ELSE "slot",
                                   healed |-> FALSE, moved |-> FALSE, execs |-> 0,
                                   via |-> "none", out |-> "none"]]
  BY DEF Init
<1>2. l \in [Callers -> [kind : Kinds, limit : Nat \ {0}]]
  BY ConnectionAssumption
<1>3. call \in [Callers -> Call]
  BY <1>1, <1>2 DEF Call
<1>4. \A c \in Callers : Began(c)
  BY <1>1 DEF Began
<1>5. NoRound \in [left : 0..Ttl, ok : BOOLEAN] /\ 0 \in 0..MaxDrops
  BY Bounds DEF NoRound
<1>6. QED
  BY <1>3, <1>4, <1>5 DEF Init, Typed, TypeOK

\* Every step keeps the types.
LEMMA StepTyped == ASSUME Typed, [Next]_vars PROVE Typed'
<1>1. CASE \E c \in Callers : Steps(c)
  BY <1>1, ConnectingTyped, OpeningTyped, FailingTyped, FinishingTyped DEF Steps
<1>2. CASE UNCHANGED vars
  BY <1>2 DEF Typed, TypeOK, Began, vars
<1>3. QED
  BY <1>1, <1>2, DropTyped, TickTyped DEF Next

\* The connection's variables keep their types: in particular no call begins more than
\* three commands.
THEOREM TypeCorrect == Spec => []TypeOK
<1>1. Spec => []Typed
  BY InitTyped, StepTyped, PTL DEF Spec
<1>2. QED
  BY <1>1, PTL DEF Typed

\* A submit begins at most once, any other command at most twice, a transfer and its
\* mkdir at most three times together.
THEOREM BeginsBounded == Spec => []AtMostOnce
<1>1. Typed => AtMostOnce
  <2> SUFFICES ASSUME Typed, NEW c \in Callers
               PROVE  call[c].execs <= CASE call[c].kind = "submit" -> 1
                                         [] call[c].kind = "put" -> 3
                                         [] OTHER -> 2
    BY DEF AtMostOnce
  <2>1. call[c] \in Call /\ Began(c)
    BY DEF Typed, TypeOK
  <2>2. QED
    BY <2>1 DEF Began, Call, Retried
<1>2. Spec => []Typed
  BY InitTyped, StepTyped, PTL DEF Spec
<1>3. QED
  BY <1>1, <1>2, PTL

----------------------------------------------------------------------------
(***************************************************************************)
(* The two locks.                                                          *)
(***************************************************************************)
\* A discovery under way, and one whose command is healing, is inside `cached'.
InRound(c) ==
    /\ call[c].kind = "discover"
    /\ \/ call[c].pc \in {"slot", "running"}
       \/ call[c].healed /\ call[c].pc \in {"connect", "lock", "auth"}

\* Whoever authenticates holds the host's lock, on a dead session unless the host
\* takes a key; whoever makes a round holds the key's, and nothing fresh is cached.
Locked(c) ==
    /\ At(c, "auth") => authLock = c /\ (host = "password" => ~master)
    /\ InRound(c) => keyLock = c /\ cache.left = 0

LockInv == Typed /\ (cache.left > 0 => cache.ok) /\ \A c \in Callers : Locked(c)

\* A step of a thread leaves the other threads' calls.
Alone(c) == \A d \in Callers \ {c} : call'[d] = call[d]

\* No action touches the call of a second thread.
LEMMA StepAlone ==
  ASSUME NEW c \in Callers, TypeOK, Steps(c) PROVE Alone(c)
BY DEF Alone, Steps, TypeOK, Look, Establish, AuthSucceeds, AuthFails, LookUp, Open, Dial,
       TransportFails, Finishes, Goes, Connected, Returns, Opens

\* Connecting and looking up keep the locks' owners.
LEMMA ConnectingLocked ==
  ASSUME NEW c \in Callers, LockInv,
         Look(c) \/ Establish(c) \/ AuthSucceeds(c) \/ AuthFails(c) \/ LookUp(c)
  PROVE  (cache'.left > 0 => cache'.ok) /\ \A d \in Callers : Locked(d)'
<1> USE DEF LockInv, Typed
<1>1. Alone(c) /\ call[c] \in Call /\ cache' = cache /\ host' = host
  <2>1. Alone(c)
    BY StepAlone DEF Steps
  <2>2. QED
    BY <2>1 DEF TypeOK, Look, Establish, AuthSucceeds, AuthFails, LookUp
<1>2. CASE Look(c)
  <2>1. ASSUME NEW d \in Callers \ {c} PROVE Locked(d)'
    BY <1>1, <1>2 DEF Alone, Look, At, Locked, InRound
  <2>2. PICK pc \in {"lock", "slot", "key"} :
          Goes(c, pc) /\ (pc = "slot" => call[c].healed) /\ (pc = "key" => ~call[c].healed)
    BY <1>2 DEF Look, Connected
  <2>3. At(c, "connect") /\ UNCHANGED <<host, master, authLock, keyLock, cache>>
    BY <1>2 DEF Look
  <2>4. Locked(c)'
    BY <1>1, <2>2, <2>3 DEF TypeOK, Goes, At, Locked, InRound
  <2>5. QED
    BY <1>1, <2>1, <2>4
<1>3. CASE Establish(c)
  <2>1. ASSUME NEW d \in Callers \ {c} PROVE Locked(d)'
    <3>1. ~At(d, "auth")
      BY <1>3, Nobody DEF Establish, Locked
    <3>2. QED
      BY <1>1, <1>3, <3>1 DEF Alone, Establish, At, Locked, InRound
  <2>2. CASE master /\ Connected(c) /\ UNCHANGED authLock
    <3>1. Locked(c)'
      BY <1>1, <1>3, <2>2 DEF TypeOK, Establish, Connected, Goes, At, Locked, InRound
    <3>2. QED
      BY <1>1, <2>1, <3>1
  <2>3. CASE ~master /\ authLock' = c /\ Goes(c, "auth")
    <3>1. Locked(c)'
      BY <1>1, <1>3, <2>3 DEF TypeOK, Establish, Goes, At, Locked, InRound
    <3>2. QED
      BY <1>1, <2>1, <3>1
  <2>4. QED
    BY <1>3, <2>2, <2>3 DEF Establish
<1>4. CASE AuthSucceeds(c)
  <2>1. ASSUME NEW d \in Callers \ {c} PROVE Locked(d)'
    BY <1>1, <1>4 DEF Alone, AuthSucceeds, At, Locked, InRound
  <2>2. Locked(c)'
    BY <1>1, <1>4 DEF TypeOK, AuthSucceeds, Connected, Goes, At, Locked, InRound
  <2>3. QED
    BY <1>1, <2>1, <2>2
<1>5. CASE AuthFails(c)
  BY <1>1, <1>5 DEF Alone, TypeOK, AuthFails, Returns, At, Locked, InRound
<1>6. CASE LookUp(c)
  <2>1. \A d \in Callers : keyLock # d
    BY <1>6, Nobody DEF LookUp
  <2>2. ASSUME NEW d \in Callers \ {c} PROVE Locked(d)'
    BY <1>1, <1>6, <2>1 DEF Alone, LookUp, At, Locked, InRound
  <2>3. CASE cache.left > 0 /\ Returns(c, "hit")
    <3>1. Locked(c)'
      BY <1>1, <2>3 DEF TypeOK, Returns, At, Locked, InRound
    <3>2. QED
      BY <1>1, <2>2, <3>1
  <2>4. CASE ~(cache.left > 0) /\ keyLock' = c /\ Goes(c, "slot")
    <3>1. cache.left = 0
      BY <2>4, Bounds DEF TypeOK
    <3>2. Locked(c)'
      BY <1>1, <2>4, <3>1 DEF TypeOK, Goes, At, Locked, InRound
    <3>3. QED
      BY <1>1, <2>2, <3>2
  <2>5. QED
    BY <1>6, <2>3, <2>4 DEF LookUp
<1>7. QED
  BY <1>2, <1>3, <1>4, <1>5, <1>6

\* A channel opens only from the slot, and makes a session only where a key will do.
LEMMA OpeningLocked ==
  ASSUME NEW c \in Callers, LockInv, Open(c) \/ Dial(c)
  PROVE  (cache'.left > 0 => cache'.ok) /\ \A d \in Callers : Locked(d)'
<1> USE DEF LockInv, Typed
<1>1. /\ Alone(c) /\ call[c] \in Call /\ At(c, "slot")
      /\ cache' = cache /\ host' = host /\ keyLock' = keyLock /\ authLock' = authLock
  <2>1. Alone(c)
    BY StepAlone DEF Steps
  <2>2. QED
    BY <2>1 DEF TypeOK, Open, Dial
<1>2. master' = master \/ host = "key"
  BY DEF Open, Dial
<1>3. /\ call'[c].pc = "running" /\ call'[c].kind = call[c].kind
      /\ call'[c].healed = call[c].healed
  <2>1. PICK via \in {"mux", "own", "refused"} : Opens(c, via)
    BY Zenon DEF Open, Dial
  <2>2. c \in DOMAIN call /\ DOMAIN call[c] = {"kind", "limit", "pc", "healed", "moved", "execs", "via", "out"}
    BY <1>1 DEF TypeOK, Call
  <2>3. QED
    BY <2>1, <2>2 DEF Opens
<1>4. Locked(c)'
  BY <1>1, <1>3 DEF At, Locked, InRound
<1>5. ASSUME NEW d \in Callers \ {c} PROVE Locked(d)'
  <2>1. call'[d] = call[d] /\ Locked(d)
    BY <1>1 DEF Alone
  <2>2. At(d, "auth") => authLock = d /\ (host = "password" => ~master')
    <3>1. CASE master' = master
      BY <2>1, <3>1 DEF Locked
    <3>2. CASE host = "key"
      BY <2>1, <3>2 DEF Locked
    <3>3. QED
      BY <1>2, <3>1, <3>2
  <2>3. QED
    BY <1>1, <2>1, <2>2 DEF At, Locked, InRound
<1>6. QED
  BY <1>1, <1>4, <1>5

\* A command that fails or finishes leaves the locks it holds, unless it returns.
LEMMA EndingLocked ==
  ASSUME NEW c \in Callers, LockInv, TransportFails(c) \/ Finishes(c)
  PROVE  (cache'.left > 0 => cache'.ok) /\ \A d \in Callers : Locked(d)'
<1> USE DEF LockInv, Typed
<1>1. /\ Alone(c) /\ call[c] \in Call /\ At(c, "running")
      /\ host' = host /\ master' = master /\ authLock' = authLock
  <2>1. Alone(c)
    BY StepAlone DEF Steps
  <2>2. QED
    BY <2>1 DEF TypeOK, TransportFails, Finishes
<1>2. CASE TransportFails(c)
  <2>1. cache' = cache
    BY <1>2 DEF TransportFails
  <2>2. CASE call' = [call EXCEPT ![c].pc = "connect", ![c].healed = TRUE, ![c].via = "none"]
             /\ UNCHANGED keyLock
    <3>1. Locked(c)'
      BY <1>1, <2>1, <2>2 DEF TypeOK, At, Locked, InRound
    <3>2. ASSUME NEW d \in Callers \ {c} PROVE Locked(d)'
      BY <1>1, <2>1, <2>2 DEF Alone, At, Locked, InRound
    <3>3. QED
      BY <2>1, <3>1, <3>2
  <2>3. CASE Returns(c, "down")
    <3>1. Locked(c)'
      BY <1>1, <2>3 DEF TypeOK, Returns, At, Locked, InRound
    <3>2. ASSUME NEW d \in Callers \ {c} PROVE Locked(d)'
      BY <1>1, <2>1, <2>3 DEF Alone, Returns, At, Locked, InRound
    <3>3. QED
      BY <2>1, <3>1, <3>2
  <2>4. QED
    BY <1>2, <2>2, <2>3 DEF TransportFails
<1>3. CASE Finishes(c)
  <2>1. PICK out \in {"ok", "failed", "timeout", "exists"} :
          IF Continues(c, out)
          THEN call' = [call EXCEPT ![c].pc = "slot", ![c].moved = TRUE, ![c].via = "none",
                                    ![c].healed = FALSE]
               /\ UNCHANGED <<keyLock, cache>>
          ELSE /\ Returns(c, BatchOf(c, out))
               /\ cache' = IF call[c].kind = "discover" THEN Stored(c, out) ELSE cache
    BY <1>3 DEF Finishes
  <2>2. CASE Continues(c, out)
    <3>1. Locked(c)'
      <4>1. call'[c].kind \in {"put", "push"} /\ call'[c].pc = "slot"
        BY <1>1, <2>1, <2>2 DEF TypeOK, Call, Continues
      <4>2. QED
        BY <4>1 DEF At, Locked, InRound
    <3>2. ASSUME NEW d \in Callers \ {c} PROVE Locked(d)'
      BY <1>1, <2>1, <2>2 DEF Alone, At, Locked, InRound
    <3>3. QED
      BY <2>1, <2>2, <3>1, <3>2
  <2>3. CASE Returns(c, BatchOf(c, out))
             /\ cache' = IF call[c].kind = "discover" THEN Stored(c, out) ELSE cache
    <3>1. Locked(c)'
      BY <1>1, <2>3 DEF TypeOK, Returns, At, Locked, InRound
    <3>2. call[c].kind = "discover" => keyLock = c
      BY <1>1 DEF At, Locked, InRound
    <3>3. ASSUME NEW d \in Callers \ {c} PROVE Locked(d)'
      <4>1. call'[d] = call[d] /\ Locked(d)
        BY <1>1 DEF Alone
      <4>2. InRound(d) => keyLock' = d /\ cache' = cache
        <5>1. InRound(d) => keyLock = d /\ keyLock # c
          BY <4>1 DEF Locked
        <5>2. InRound(d) => call[c].kind # "discover"
          BY <3>2, <5>1
        <5>3. QED
          BY <2>3, <5>1, <5>2 DEF Returns
      <4>3. At(d, "auth")' = At(d, "auth") /\ InRound(d)' = InRound(d)
        BY <4>1 DEF At, InRound
      <4>4. QED
        BY <1>1, <4>1, <4>2, <4>3 DEF Locked
    <3>4. cache'.left > 0 => cache'.ok
      BY <2>3 DEF Stored, NoRound
    <3>5. QED
      BY <3>1, <3>3, <3>4
  <2>4. QED
    BY <2>1, <2>2, <2>3
<1>4. QED
  BY <1>2, <1>3

\* A session that drops kills no lock's owner, and time only empties the cache.
LEMMA WorldLocked ==
  ASSUME LockInv, Drop \/ Tick
  PROVE  (cache'.left > 0 => cache'.ok) /\ \A d \in Callers : Locked(d)'
<1> USE DEF LockInv, Typed
<1>1. CASE Drop
  <2>1. ASSUME NEW d \in Callers
        PROVE  /\ call'[d].pc = call[d].pc /\ call'[d].kind = call[d].kind
               /\ call'[d].healed = call[d].healed
    BY <1>1 DEF Drop, TypeOK, Call
  <2>2. ASSUME NEW d \in Callers PROVE Locked(d)'
    BY <1>1, <2>1 DEF Drop, Locked, InRound, At
  <2>3. QED
    BY <1>1, <2>2 DEF Drop
<1>2. CASE Tick
  <2>1. /\ cache'.left > 0 => cache'.ok
        /\ cache.left = 0 => cache'.left = 0
    BY <1>2, Bounds DEF Tick, NoRound, TypeOK
  <2>2. ASSUME NEW d \in Callers PROVE Locked(d)'
    BY <1>2, <2>1 DEF Tick, Locked, InRound, At
  <2>3. QED
    BY <2>1, <2>2
<1>3. QED
  BY <1>1, <1>2

\* The locks' owners, in every reachable state.
LEMMA LockInvariant == Spec => []LockInv
<1>1. Init => LockInv
  <2> SUFFICES ASSUME Init PROVE LockInv
    OBVIOUS
  <2>1. \A c \in Callers : call[c].pc \in {"connect", "slot"} /\ ~call[c].healed
                             /\ (call[c].kind = "discover" => call[c].pc = "connect")
    BY DEF Init
  <2>2. \A c \in Callers : ~At(c, "auth") /\ ~InRound(c)
    BY <2>1 DEF At, InRound
  <2>3. ~(cache.left > 0)
    BY DEF Init, NoRound
  <2>4. QED
    BY <2>2, <2>3, InitTyped DEF LockInv, Locked
<1>2. LockInv /\ [Next]_vars => LockInv'
  <2> SUFFICES ASSUME LockInv, [Next]_vars PROVE LockInv'
    OBVIOUS
  <2>1. Typed'
    BY StepTyped DEF LockInv
  <2>2. CASE UNCHANGED vars
    BY <2>1, <2>2 DEF LockInv, Locked, InRound, At, vars
  <2>3. CASE Next
    BY <2>1, <2>3, ConnectingLocked, OpeningLocked, EndingLocked, WorldLocked
       DEF LockInv, Next, Steps
  <2>4. QED
    BY <2>2, <2>3
<1>3. QED
  BY <1>1, <1>2, PTL DEF Spec

\* A set all of whose members are one thing has at most one.
LEMMA AtMostOne ==
  ASSUME NEW S, NEW x, S \subseteq {x} PROVE Cardinality(S) <= 1
<1>1. IsFiniteSet({x}) /\ Cardinality({x}) = 1
  BY FS_Singleton
<1>2. QED
  BY <1>1, FS_Subset

\* However many threads find the session dead, one authenticates, and on a host that
\* asks for a password only while the session is dead.
THEOREM AuthCorrect == Spec => []OneAuth
<1>1. LockInv => OneAuth
  <2> SUFFICES ASSUME LockInv PROVE OneAuth
    OBVIOUS
  <2> DEFINE authing == {c \in Callers : At(c, "auth")}
  <2>1. authing \subseteq {authLock}
    BY DEF LockInv, Locked
  <2>2. Cardinality(authing) <= 1
    BY <2>1, AtMostOne
  <2>3. host = "password" /\ authing # {} => ~master
    BY DEF LockInv, Locked
  <2>4. QED
    BY <2>2, <2>3 DEF OneAuth
<1>2. QED
  BY <1>1, LockInvariant, PTL

\* A discovery command begins only when no other is under way and nothing fresh is
\* cached, and only a success is ever cached.
THEOREM RoundCorrect == Spec => []OneRound
<1>1. LockInv => OneRound
  <2> SUFFICES ASSUME LockInv PROVE OneRound
    OBVIOUS
  <2> DEFINE rounds == {c \in Callers : call[c].kind = "discover"
                                          /\ call[c].pc \in {"slot", "running"}}
  <2>1. rounds \subseteq {keyLock}
    BY DEF LockInv, Locked, InRound
  <2>2. Cardinality(rounds) <= 1
    BY <2>1, AtMostOne
  <2>3. rounds # {} => cache.left = 0
    BY DEF LockInv, Locked, InRound
  <2>4. cache.left > 0 => cache.ok
    BY DEF LockInv
  <2>5. QED
    BY <2>2, <2>3, <2>4 DEF OneRound
<1>2. QED
  BY <1>1, LockInvariant, PTL

\* Both locks do what they are for.
THEOREM SerializedCorrect == Spec => []Serialized
BY TypeCorrect, AuthCorrect, RoundCorrect, PTL DEF Serialized

----------------------------------------------------------------------------
(***************************************************************************)
(* The channels.  The slots are those of the commands that run, and no      *)
(* more of them are taken than the cap.                                    *)
(***************************************************************************)
SlotOf(c) ==
    /\ c \in slots <=> Slotted(c) /\ At(c, "running")
    /\ call[c].via = "mux" => At(c, "running")

SlotInv == (\A c \in Callers : SlotOf(c)) /\ Cardinality(slots) <= cap

\* A step begins a command, ends one, or does neither.
LEMMA StepSlots ==
  ASSUME NEW c \in Callers, TypeOK, Steps(c)
  PROVE  /\ capped' = capped /\ call'[c].kind = call[c].kind /\ call'[c].limit = call[c].limit
         /\ \/ /\ ~At(c, "running") /\ call'[c].pc # "running" /\ slots' = slots /\ cap' = cap
               /\ call'[c].via \in {call[c].via, "none"}
            \/ /\ At(c, "slot") /\ call'[c].pc = "running" /\ TakesSlot(c)
            \/ /\ At(c, "running") /\ call'[c].pc # "running" /\ call'[c].via = "none"
               /\ slots' = slots \ {c} /\ cap' = cap
<1>1. call \in [Callers -> Call] /\ call[c] \in Call
  BY DEF TypeOK
<1>2. ASSUME NEW pc \in {"lock", "auth", "key", "slot"}, Goes(c, pc)
      PROVE  /\ call'[c].kind = call[c].kind /\ call'[c].limit = call[c].limit
             /\ call'[c].via = call[c].via /\ call'[c].pc # "running"
  BY <1>1, <1>2 DEF Goes, Call
<1>3. ASSUME NEW out, Returns(c, out)
      PROVE  /\ call'[c].kind = call[c].kind /\ call'[c].limit = call[c].limit
             /\ call'[c].via = "none" /\ call'[c].pc # "running"
  BY <1>1, <1>3 DEF Returns, Call
<1>4. CASE Look(c) \/ Establish(c) \/ AuthSucceeds(c) \/ AuthFails(c) \/ LookUp(c)
  <2>1. /\ ~At(c, "running") /\ slots' = slots /\ cap' = cap /\ capped' = capped
    BY <1>4 DEF Look, Establish, AuthSucceeds, AuthFails, LookUp, At
  <2>2. (\E pc \in {"lock", "auth", "key", "slot"} : Goes(c, pc)) \/ (\E out : Returns(c, out))
    BY <1>4 DEF Look, Establish, AuthSucceeds, AuthFails, LookUp, Connected
  <2>3. QED
    BY <1>2, <1>3, <2>1, <2>2
<1>5. CASE Open(c) \/ Dial(c)
  <2>1. At(c, "slot") /\ TakesSlot(c) /\ capped' = capped
    BY <1>5 DEF Open, Dial
  <2>2. PICK via : Opens(c, via)
    BY <1>5, Zenon DEF Open, Dial
  <2>3. call'[c].kind = call[c].kind /\ call'[c].limit = call[c].limit /\ call'[c].pc = "running"
    BY <1>1, <2>2 DEF Opens, Call
  <2>4. QED
    BY <2>1, <2>3
<1>6. CASE TransportFails(c)
  <2>1. At(c, "running") /\ slots' = slots \ {c} /\ cap' = cap /\ capped' = capped
    BY <1>6 DEF TransportFails, LetGo
  <2>2. CASE Healable(c)
    <3>1. call' = [call EXCEPT ![c].pc = "connect", ![c].healed = TRUE, ![c].via = "none"]
      BY <1>6, <2>2 DEF TransportFails
    <3>2. QED
      BY <1>1, <2>1, <3>1 DEF Call
  <2>3. CASE ~Healable(c)
    BY <1>3, <1>6, <2>1, <2>3 DEF TransportFails
  <2>4. QED
    BY <2>2, <2>3
<1>7. CASE Finishes(c)
  <2>1. At(c, "running") /\ slots' = slots \ {c} /\ cap' = cap /\ capped' = capped
    BY <1>7 DEF Finishes, LetGo
  <2>2. CASE call' = [call EXCEPT ![c].pc = "slot", ![c].moved = TRUE, ![c].via = "none",
                                  ![c].healed = FALSE]
    BY <1>1, <2>1, <2>2 DEF Call
  <2>3. CASE \E out : Returns(c, out)
    BY <1>3, <2>1, <2>3
  <2>4. QED
    BY <1>7, <2>2, <2>3, Zenon DEF Finishes
<1>8. QED
  BY <1>4, <1>5, <1>6, <1>7 DEF Steps

\* The slots are finitely many.
LEMMA Sizes == ASSUME TypeOK PROVE IsFiniteSet(slots) /\ Cardinality(slots) \in Nat
BY ConnectionAssumption, FS_Subset, FS_CardinalityType DEF TypeOK

LEMMA StepSlotInv == ASSUME TypeOK, TypeOK', SlotInv, [Next]_vars PROVE SlotInv'
<1>1. ASSUME NEW c \in Callers, Steps(c) PROVE SlotInv'
  <2>1. /\ capped' = capped /\ call'[c].kind = call[c].kind /\ call'[c].limit = call[c].limit
        /\ Alone(c) /\ SlotOf(c) /\ call[c] \in Call
    BY <1>1, StepSlots, StepAlone DEF SlotInv, TypeOK
  <2>2. \A d \in Callers : call'[d].kind = call[d].kind /\ call'[d].limit = call[d].limit
    BY <2>1 DEF Alone
  <2>4. \A d \in Callers : Slotted(d)' = Slotted(d)
    BY <2>1, <2>2 DEF Slotted
  <2>5. ASSUME NEW d \in Callers \ {c}, d \in slots' <=> d \in slots PROVE SlotOf(d)'
    BY <2>1, <2>2, <2>4, <2>5 DEF Alone, SlotInv, SlotOf, At
  <2>6. IsFiniteSet(slots) /\ Cardinality(slots) \in Nat /\ cap \in Nat /\ call[c].limit \in Nat
    BY <2>1, Sizes DEF TypeOK, Call
  <2>7. CASE /\ ~At(c, "running") /\ call'[c].pc # "running" /\ slots' = slots /\ cap' = cap
             /\ call'[c].via \in {call[c].via, "none"}
    <3>1. SlotOf(c)'
      BY <2>1, <2>4, <2>7 DEF SlotOf, At
    <3>2. \A d \in Callers : SlotOf(d)'
      BY <2>5, <2>7, <3>1
    <3>3. QED
      BY <2>7, <3>2 DEF SlotInv
  <2>8. CASE At(c, "slot") /\ call'[c].pc = "running" /\ TakesSlot(c)
    <3>1. CASE Slotted(c)
      <4>1. cap' = Limit(c) /\ Cardinality(slots) < Limit(c) /\ slots' = slots \cup {c}
        BY <2>8, <3>1 DEF TakesSlot
      <4>2. Cardinality(slots') <= cap'
        <5>1. c \notin slots
          BY <2>8 DEF SlotInv, SlotOf, At
        <5>2. Cardinality(slots \cup {c}) = Cardinality(slots) + 1
          BY <2>6, <5>1, FS_AddElement
        <5>3. Limit(c) \in Nat
          BY <2>6 DEF Limit
        <5>4. QED
          BY <2>6, <4>1, <5>2, <5>3
      <4>4. SlotOf(c)'
        BY <2>1, <2>4, <2>8, <3>1, <4>1 DEF SlotOf, At
      <4>5. \A d \in Callers : SlotOf(d)'
        BY <2>5, <4>1, <4>4
      <4>6. QED
        BY <4>2, <4>5 DEF SlotInv
    <3>2. CASE ~Slotted(c)
      <4>1. cap' = cap /\ slots' = slots
        BY <2>8, <3>2 DEF TakesSlot
      <4>2. SlotOf(c)'
        BY <2>1, <2>4, <2>8, <3>2, <4>1 DEF SlotOf, At
      <4>3. \A d \in Callers : SlotOf(d)'
        BY <2>5, <4>1, <4>2
      <4>4. QED
        BY <4>1, <4>3 DEF SlotInv
    <3>3. QED
      BY <3>1, <3>2
  <2>9. CASE /\ At(c, "running") /\ call'[c].pc # "running" /\ call'[c].via = "none"
             /\ slots' = slots \ {c} /\ cap' = cap
    <3>1. Cardinality(slots') <= cap
      <4>1. slots \ {c} \in SUBSET slots
        OBVIOUS
      <4>2. Cardinality(slots \ {c}) <= Cardinality(slots) /\ Cardinality(slots \ {c}) \in Nat
        BY <2>6, <4>1, FS_Subset, FS_CardinalityType
      <4>3. QED
        BY <2>6, <2>9, <4>2 DEF SlotInv
    <3>2. SlotOf(c)'
      BY <2>1, <2>4, <2>9 DEF SlotOf, At
    <3>3. \A d \in Callers : SlotOf(d)'
      BY <2>5, <2>9, <3>2
    <3>4. QED
      BY <2>9, <3>1, <3>3 DEF SlotInv
  <2>10. QED
    BY <1>1, <2>7, <2>8, <2>9, StepSlots
<1>2. CASE Drop
  <2>1. /\ \A d \in Callers : call'[d] = [call[d] EXCEPT !.via = IF @ = "mux" THEN "cut" ELSE @]
        /\ capped' = capped /\ slots' = slots /\ cap' = cap
    BY <1>2 DEF Drop
  <2>2. \A d \in Callers : /\ call'[d].kind = call[d].kind /\ call'[d].limit = call[d].limit
                           /\ call'[d].pc = call[d].pc /\ call'[d].via # "mux"
    BY <2>1 DEF TypeOK, Call
  <2>3. QED
    BY <2>1, <2>2 DEF SlotInv, SlotOf, At, Slotted
<1>3. CASE Tick
  BY <1>3 DEF Tick, SlotInv, SlotOf, At, Slotted
<1>4. CASE UNCHANGED vars
  BY <1>4 DEF vars, SlotInv, SlotOf, At, Slotted
<1>5. QED
  BY <1>1, <1>2, <1>3, <1>4 DEF Next

LEMMA SlotInvAlways == Spec => []SlotInv
<1>1. Init => SlotInv
  <2> SUFFICES ASSUME Init PROVE SlotInv
    OBVIOUS
  <2>1. \A c \in Callers : call[c].pc # "running" /\ call[c].via = "none"
    BY DEF Init
  <2>3. slots = {} /\ cap = 0
    BY DEF Init
  <2>4. \A c \in Callers : SlotOf(c)
    BY <2>1, <2>3 DEF SlotOf, At
  <2>5. QED
    BY <2>3, <2>4, FS_EmptySet DEF SlotInv
<1>2. QED
  BY <1>1, StepSlotInv, TypeCorrect, PTL DEF Spec

\* While a command waits at its slot, with its slot free, and the cap and the channels
\* that hold no slot fit the server, those in use leave it one.
LEMMA RoomLeft ==
  ASSUME TypeOK, SlotInv, capped, NEW c \in Callers, At(c, "slot"), TakesSlot(c),
         cap' + Cardinality(Beside(c)) <= MaxSessions
  PROVE  Cardinality(Muxed) < MaxSessions
<1> DEFINE room == (slots \cup Beside(c)) \ {c}
<1>1. Muxed \subseteq room
  BY DEF Muxed, Beside, SlotInv, SlotOf, Slotted, At
<1>2. /\ IsFiniteSet(slots) /\ Cardinality(slots) \in Nat
      /\ IsFiniteSet(Beside(c)) /\ Cardinality(Beside(c)) \in Nat
      /\ cap \in Nat /\ MaxSessions \in Nat /\ call[c].limit \in Nat
  <2>1. Beside(c) \subseteq Callers
    BY DEF Beside
  <2>2. IsFiniteSet(Beside(c)) /\ Cardinality(Beside(c)) \in Nat
    BY <2>1, ConnectionAssumption, FS_Subset, FS_CardinalityType
  <2>3. QED
    BY <2>2, Sizes, Bounds DEF TypeOK, Call
<1>3. /\ IsFiniteSet(slots \cup Beside(c)) /\ Cardinality(slots \cup Beside(c)) \in Nat
      /\ Cardinality(slots \cup Beside(c)) <= Cardinality(slots) + Cardinality(Beside(c))
  <2>1. IsFiniteSet(slots \cap Beside(c))
    BY <1>2, FS_Subset
  <2>2. Cardinality(slots \cap Beside(c)) \in Nat
    BY <2>1, FS_CardinalityType
  <2>3. /\ IsFiniteSet(slots \cup Beside(c))
        /\ Cardinality(slots \cup Beside(c))
             = Cardinality(slots) + Cardinality(Beside(c)) - Cardinality(slots \cap Beside(c))
    BY <1>2, FS_Union
  <2>4. Cardinality(slots \cup Beside(c)) \in Nat
    BY <2>3, FS_CardinalityType
  <2>5. QED
    BY <1>2, <2>2, <2>3, <2>4
<1>4. /\ IsFiniteSet(room)
      /\ Cardinality(room) <= Cardinality(slots) + Cardinality(Beside(c))
      /\ c \in Beside(c) => Cardinality(room) < Cardinality(slots) + Cardinality(Beside(c))
  <2>1. IsFiniteSet(room)
        /\ Cardinality(room) = IF c \in slots \cup Beside(c) THEN Cardinality(slots \cup Beside(c)) - 1
                               ELSE Cardinality(slots \cup Beside(c))
    BY <1>3, FS_RemoveElement
  <2>2. QED
    BY <1>2, <1>3, <2>1
<1>5. Cardinality(Muxed) <= Cardinality(room)
  BY <1>1, <1>4, FS_Subset
<1>6. Cardinality(Muxed) \in Nat /\ Cardinality(room) \in Nat
  BY <1>1, <1>4, FS_Subset, FS_CardinalityType
<1>7. CASE Slotted(c)
  <2>1. cap' = Limit(c) /\ Cardinality(slots) < Limit(c) /\ Limit(c) \in Nat
    BY <1>2, <1>7 DEF TakesSlot, Limit
  <2>2. QED
    BY <1>2, <1>4, <1>5, <1>6, <2>1
<1>8. CASE ~Slotted(c)
  <2>1. c \in Beside(c) /\ cap' = cap /\ Cardinality(slots) <= cap
    BY <1>8 DEF Beside, Slotted, TakesSlot, SlotInv
  <2>2. QED
    BY <1>2, <1>4, <1>5, <1>6, <2>1
<1>9. QED
  BY <1>7, <1>8

\* On a capped host every command that begins while the session is alive goes over
\* it, as long as the cap and the channels that hold no slot fit the server.
THEOREM MultiplexedCorrect == Spec => StaysMultiplexed
<1>1. ASSUME TypeOK, SlotInv, [Next]_vars, NEW c \in Callers, capped, master, At(c, "slot"),
             call'[c].pc = "running", cap' + Cardinality(Beside(c)) <= MaxSessions
      PROVE  call'[c].via = "mux"
  <2>1. call \in [Callers -> Call] /\ call[c] \in Call /\ call'[c] # call[c]
    BY <1>1 DEF TypeOK, At
  <2>2. ASSUME NEW d \in Callers, Steps(d) PROVE call'[c].via = "mux"
    <3>1. d = c
      BY <1>1, <2>1, <2>2, StepAlone DEF Alone
    <3>2. TakesSlot(c)
      BY <1>1, <2>2, <3>1, StepSlots DEF At
    <3>3. Cardinality(Muxed) < MaxSessions /\ Cardinality(Muxed) \in Nat /\ MaxSessions \in Nat
      <4>1. Muxed \subseteq Callers /\ IsFiniteSet(Callers)
        BY ConnectionAssumption DEF Muxed
      <4>2. QED
        BY <1>1, <3>2, <4>1, RoomLeft, Bounds, FS_Subset, FS_CardinalityType
    <3>4. ~Dial(c)
      <4>1. ~(~master \/ Cardinality(Muxed) >= MaxSessions)
        BY <1>1, <3>3
      <4>2. QED
        BY <4>1, Zenon DEF Dial
    <3>5. Open(c)
      BY <1>1, <2>2, <3>1, <3>4 DEF Steps, Look, Establish, AuthSucceeds, AuthFails, LookUp,
         TransportFails, Finishes, At
    <3>6. QED
      BY <2>1, <3>5 DEF Open, Opens, Call
  <2>3. ASSUME Drop PROVE FALSE
    <3>1. call'[c] = [call[c] EXCEPT !.via = IF @ = "mux" THEN "cut" ELSE @]
      BY <2>3 DEF Drop
    <3>2. QED
      BY <1>1, <2>1, <3>1 DEF At, Call
  <2>4. ~Tick /\ ~UNCHANGED vars
    BY <2>1 DEF Tick, vars
  <2>5. QED
    BY <1>1, <2>2, <2>3, <2>4 DEF Next
<1>2. TypeOK /\ SlotInv /\ [Next]_vars
        => [\A c \in Callers :
               /\ capped /\ master /\ At(c, "slot") /\ call'[c].pc = "running"
               /\ cap' + Cardinality(Beside(c)) <= MaxSessions
               => call'[c].via = "mux"]_vars
  BY <1>1
<1>3. QED
  BY <1>2, TypeCorrect, SlotInvAlways, PTL DEF Spec, StaysMultiplexed

----------------------------------------------------------------------------
(***************************************************************************)
(* The market, for every set of sections and offers, every limit and       *)
(* interval, and any number of faults.                                     *)
(***************************************************************************)

\* The limits are numbers.
LEMMA MarketBounds ==
  /\ ProvisionAttempts \in Nat \ {0} /\ Polls \in Nat \ {0}
  /\ Retries429 \in Nat /\ MinInterval \in Nat /\ Cooloff \in Nat /\ MaxFaults \in Nat
  /\ NoSection \notin Sections \cup Offers /\ Cheapest \in Offers
BY MarketAssumption

----------------------------------------------------------------------------
(***************************************************************************)
(* Types.  A submit probes again only with an attempt left, and one that   *)
(* is over asks for nothing.                                               *)
(***************************************************************************)
Sound(s) ==
    /\ s.req = "probe" => s.attempt < ProvisionAttempts
    /\ s.pc \in {"failed", "done", "killed"} => s.req = "none"

MarketTyped == MarketTypeOK /\ \A b \in Sections : Sound(sub[b])

\* A request begins, and one ends.
LEMMA AsksSound ==
  ASSUME NEW s \in Submit, NEW req \in Request,
         req = "probe" => s.attempt < ProvisionAttempts
  PROVE  Asks(s, req) \in Submit /\ Sound(Asks(s, req))
<1>1. 0 \in 0..Retries429
  BY MarketBounds
<1>2. Asks(s, req) \in Submit
  BY <1>1 DEF Asks, Submit
<1>3. QED
  BY <1>2 DEF Asks, Submit, Sound, Request

LEMMA EndsSound ==
  ASSUME NEW s \in Submit, NEW pc \in {"stub", "ssh", "done", "failed", "killed"}
  PROVE  Ends(s, pc) \in Submit /\ Sound(Ends(s, pc))
BY DEF Ends, Submit, Sound

\* A torn down rental is terminated, and a dead one shopped for again if it may be.
LEMMA TearDownSound ==
  ASSUME NEW s \in Submit, NEW dead \in BOOLEAN
  PROVE  TearDown(s, dead) \in Submit /\ Sound(TearDown(s, dead))
<1>1. Asks(s, "terminate") \in Submit /\ Sound(Asks(s, "terminate"))
  BY AsksSound DEF Request
<1>2. QED
  BY <1>1 DEF TearDown, Submit, Sound

LEMMA ReshopSound ==
  ASSUME NEW s \in Submit
  PROVE  Reshop(s) \in Submit /\ Sound(Reshop(s))
<1>1. CASE s.attempt < ProvisionAttempts
  <2>1. Asks(s, "probe") \in Submit /\ Sound(Asks(s, "probe"))
    BY <1>1, AsksSound DEF Request
  <2>2. s.offer \in Offers
    BY DEF Submit
  <2>3. QED
    BY <1>1, <2>1, <2>2 DEF Reshop, Submit, Sound
<1>2. CASE ~(s.attempt < ProvisionAttempts)
  BY <1>2, EndsSound DEF Reshop
<1>3. QED
  BY <1>1, <1>2

LEMMA AfterTeardownSound ==
  ASSUME NEW b \in Sections, sub[b] \in Submit
  PROVE  AfterTeardown(b) \in Submit /\ Sound(AfterTeardown(b))
<1>1. CASE sub[b].dead
  <2>1. Reshop(sub[b]) \in Submit /\ Sound(Reshop(sub[b]))
    BY ReshopSound
  <2>2. 0 \in 0..Cooloff
    BY MarketBounds
  <2>3. QED
    BY <1>1, <2>1, <2>2 DEF AfterTeardown, Submit, Sound
<1>2. CASE ~sub[b].dead
  BY <1>2, EndsSound DEF AfterTeardown
<1>3. QED
  BY <1>1, <1>2

\* What a step of a section makes of its submit.
LEMMA StepsSound ==
  ASSUME NEW b \in Sections, MarketTyped, SubmitSteps(b)
  PROVE  \E s \in Submit : Becomes(b, s) /\ Sound(s)
<1>1. sub[b] \in Submit /\ Sound(sub[b])
  BY DEF MarketTyped, MarketTypeOK
<1>2. CASE TakeThrottle(b)
  <2>1. [sub[b] EXCEPT !.pc = "sleep", !.left = throttle.wait] \in Submit
    BY <1>1 DEF MarketTyped, MarketTypeOK, Submit
  <2>2. Sound([sub[b] EXCEPT !.pc = "sleep", !.left = throttle.wait])
    BY <1>1 DEF Sound, Submit
  <2>3. QED
    BY <1>2, <2>1, <2>2 DEF TakeThrottle
<1>3. CASE LeaveThrottle(b)
  <2>1. [sub[b] EXCEPT !.pc = "http"] \in Submit /\ Sound([sub[b] EXCEPT !.pc = "http"])
    BY <1>1 DEF Sound, Submit
  <2>2. QED
    BY <1>3, <2>1 DEF LeaveThrottle
<1>4. CASE RateLimited(b)
  <2>1. sub[b].tries + 1 \in 0..Retries429
    BY <1>1, <1>4, MarketBounds DEF RateLimited, Submit
  <2>2. /\ [sub[b] EXCEPT !.pc = "throttle", !.tries = @ + 1] \in Submit
        /\ Sound([sub[b] EXCEPT !.pc = "throttle", !.tries = @ + 1])
    BY <1>1, <2>1 DEF Sound, Submit
  <2>3. QED
    BY <1>4, <2>2 DEF RateLimited
<1>5. CASE Rented(b) \/ CreateFails(b) \/ PollRunning(b) \/ Launched(b) \/ ProbeFails(b)
  <2>1. PICK pc \in {"stub", "ssh", "done", "failed", "killed"} : Becomes(b, Ends(sub[b], pc))
    BY <1>5, Zenon DEF Rented, CreateFails, PollRunning, Launched, ProbeFails
  <2>2. QED
    BY <1>1, <2>1, EndsSound
<1>6. CASE Stub(b)
  <2>1. Asks(sub[b], "poll") \in Submit /\ Sound(Asks(sub[b], "poll")) /\ 0 \in 0..Polls
    BY <1>1, AsksSound, MarketBounds DEF Request
  <2>2. /\ [Asks(sub[b], "poll") EXCEPT !.polls = 0] \in Submit
        /\ Sound([Asks(sub[b], "poll") EXCEPT !.polls = 0])
    BY <2>1 DEF Submit, Sound
  <2>3. QED
    BY <1>6, <2>2 DEF Stub
<1>7. CASE OfferGone(b)
  <2>1. [sub[b] EXCEPT !.dead = FALSE] \in Submit
    BY <1>1 DEF Submit
  <2>2. QED
    BY <1>7, <2>1, ReshopSound DEF OfferGone
<1>8. CASE PollNotYet(b)
  <2>1. CASE sub[b].polls < Polls
    <3>1. Asks(sub[b], "poll") \in Submit /\ Sound(Asks(sub[b], "poll"))
      BY <1>1, AsksSound DEF Request
    <3>2. Asks(sub[b], "poll").polls = sub[b].polls /\ sub[b].polls + 1 \in 0..Polls
      BY <1>1, <2>1, MarketBounds DEF Asks, Submit
    <3>3. /\ [Asks(sub[b], "poll") EXCEPT !.polls = @ + 1] \in Submit
          /\ Sound([Asks(sub[b], "poll") EXCEPT !.polls = @ + 1])
      BY <3>1, <3>2 DEF Submit, Sound
    <3>4. QED
      BY <1>8, <2>1, <3>3 DEF PollNotYet
  <2>2. CASE ~(sub[b].polls < Polls)
    BY <1>1, <1>8, <2>2, TearDownSound DEF PollNotYet
  <2>3. QED
    BY <2>1, <2>2
<1>9. CASE PollFails(b) \/ SshDead(b) \/ LaunchFails(b)
  <2>1. PICK dead \in BOOLEAN : Becomes(b, TearDown(sub[b], dead))
    BY <1>9, Zenon DEF PollFails, SshDead, LaunchFails
  <2>2. QED
    BY <1>1, <2>1, TearDownSound
<1>10. CASE Terminated(b) \/ TerminateFails(b)
  <2>1. Becomes(b, AfterTeardown(b))
    BY <1>10, Zenon DEF Terminated, TerminateFails
  <2>2. QED
    BY <1>1, <2>1, AfterTeardownSound
<1>11. CASE Reprobed(b)
  <2>1. CASE Becomes(b, Ends(sub[b], "failed"))
    BY <1>1, <2>1, EndsSound
  <2>2. ASSUME NEW o \in Offers,
               Becomes(b, [Asks(sub[b], "create") EXCEPT !.offer = o, !.attempt = @ + 1])
        PROVE  \E s \in Submit : Becomes(b, s) /\ Sound(s)
    <3>1. Asks(sub[b], "create") \in Submit /\ Sound(Asks(sub[b], "create"))
      BY <1>1, AsksSound DEF Request
    <3>2. /\ Asks(sub[b], "create").attempt = sub[b].attempt
          /\ sub[b].attempt + 1 \in 1..ProvisionAttempts
      <4>1. sub[b].attempt < ProvisionAttempts
        BY <1>1, <1>11 DEF Reprobed, Doing, Sound
      <4>2. QED
        BY <1>1, <4>1, MarketBounds DEF Asks, Submit
    <3>3. [Asks(sub[b], "create") EXCEPT !.offer = o, !.attempt = @ + 1] \in Submit
      BY <3>1, <3>2 DEF Submit
    <3>4. Sound([Asks(sub[b], "create") EXCEPT !.offer = o, !.attempt = @ + 1])
      BY <3>3 DEF Asks, Submit, Sound
    <3>5. QED
      BY <2>2, <3>3, <3>4
  <2>3. QED
    BY <1>11, <2>1, <2>2 DEF Reprobed, Fitting
<1>12. QED
  BY <1>2, <1>3, <1>4, <1>5, <1>6, <1>7, <1>8, <1>9, <1>10, <1>11 DEF SubmitSteps, Answers

\* What a step of a section does to what the sections share.
LEMMA SharedTyped ==
  ASSUME NEW b \in Sections, MarketTyped, SubmitSteps(b)
  PROVE  /\ provider' = provider
         /\ throttle' \in [holder : Sections \cup {NoSection}, wait : 0..MinInterval]
         /\ cool' \in [Offers -> 0..Cooloff]
         /\ live' \subseteq Instances /\ known' \subseteq Instances
         /\ unheard' \subseteq Instances /\ undead' \subseteq Instances
         /\ faults' \in 0..MaxFaults
<1>1. sub[b] \in Submit /\ Rental(b) \in Instances
  BY DEF MarketTyped, MarketTypeOK, Submit, Rental, Instances
<1>2. throttle' \in [holder : Sections \cup {NoSection}, wait : 0..MinInterval]
  <2>1. CASE TakeThrottle(b)
    BY <2>1 DEF MarketTyped, MarketTypeOK, TakeThrottle
  <2>2. CASE LeaveThrottle(b)
    BY <2>2, MarketBounds DEF LeaveThrottle
  <2>3. CASE throttle' = throttle
    BY <2>3 DEF MarketTyped, MarketTypeOK
  <2>4. QED
    BY <2>1, <2>2, <2>3, Zenon DEF SubmitSteps, Answers, Rented, OfferGone, CreateFails, PollRunning,
       PollNotYet, PollFails, Terminated, TerminateFails, Reprobed, ProbeFails, RateLimited,
       Stub, SshDead, Launched, LaunchFails
<1>3. cool' \in [Offers -> 0..Cooloff]
  <2>1. Cooloff \in 0..Cooloff
    BY MarketBounds
  <2>2. Marked(b) \in [Offers -> 0..Cooloff]
    BY <2>1 DEF Marked, MarketTyped, MarketTypeOK
  <2>3. cool' \in {cool, Marked(b)}
    BY Zenon DEF SubmitSteps, Answers, Rented, OfferGone, CreateFails, PollRunning, TakeThrottle,
       LeaveThrottle, PollNotYet, PollFails, Terminated, TerminateFails, Reprobed, ProbeFails,
       RateLimited, Stub, SshDead, Launched, LaunchFails
  <2>4. QED
    BY <2>2, <2>3 DEF MarketTyped, MarketTypeOK
<1>4. /\ live' \subseteq live \cup {Rental(b)} /\ known' \subseteq known \cup {Rental(b)}
      /\ unheard' \subseteq unheard \cup {Rental(b)} /\ undead' \subseteq undead \cup {Rental(b)}
  BY DEF SubmitSteps, Answers, Rented, OfferGone, CreateFails, PollRunning, TakeThrottle,
     LeaveThrottle, PollNotYet, PollFails, Terminated, TerminateFails, Reprobed, ProbeFails,
     RateLimited, Stub, SshDead, Launched, LaunchFails
<1>5. faults' = faults \/ Fault
  BY Zenon DEF SubmitSteps, Answers, Rented, OfferGone, CreateFails, PollRunning, TakeThrottle,
     LeaveThrottle, PollNotYet, PollFails, Terminated, TerminateFails, Reprobed, ProbeFails,
     RateLimited, Stub, SshDead, Launched, LaunchFails
<1>6. faults' \in 0..MaxFaults
  BY <1>5, MarketBounds DEF Fault, MarketTyped, MarketTypeOK
<1>7. provider' = provider
  BY Zenon DEF SubmitSteps, Answers, Rented, OfferGone, CreateFails, PollRunning, TakeThrottle,
     LeaveThrottle, PollNotYet, PollFails, Terminated, TerminateFails, Reprobed, ProbeFails,
     RateLimited, Stub, SshDead, Launched, LaunchFails
<1>8. QED
  BY <1>1, <1>2, <1>3, <1>4, <1>6, <1>7 DEF MarketTyped, MarketTypeOK

\* The process is killed.
LEMMA KillTyped == ASSUME MarketTyped, Kill PROVE MarketTyped'
<1>1. ASSUME NEW b \in Sections
      PROVE  sub'[b] \in Submit /\ Sound(sub'[b]) /\ Rental(b) \in Instances
  <2>1. sub[b] \in Submit /\ Sound(sub[b])
    BY DEF MarketTyped, MarketTypeOK
  <2>2. Ends(sub[b], "killed") \in Submit /\ Sound(Ends(sub[b], "killed"))
    BY <2>1, EndsSound
  <2>3. QED
    BY <2>1, <2>2 DEF Kill, Rental, Instances, Submit
<1>2. sub' \in [Sections -> Submit]
  BY <1>1 DEF Kill
<1>3. unheard' \subseteq Instances
  BY <1>1 DEF Kill, MarketTyped, MarketTypeOK
<1>4. throttle' \in [holder : Sections \cup {NoSection}, wait : 0..MinInterval]
  BY MarketBounds DEF Kill
<1>5. cool' \in [Offers -> 0..Cooloff]
  BY MarketBounds DEF Kill
<1>6. faults' \in 0..MaxFaults
  BY MarketBounds DEF Kill, Fault, MarketTyped, MarketTypeOK
<1>7. QED
  BY <1>1, <1>2, <1>3, <1>4, <1>5, <1>6 DEF Kill, MarketTyped, MarketTypeOK

\* Time passes.
LEMMA MarketTickTyped == ASSUME MarketTyped, MarketTick PROVE MarketTyped'
<1>1. ASSUME NEW b \in Sections PROVE sub'[b] \in Submit /\ Sound(sub'[b])
  <2>1. sub[b] \in Submit /\ Sound(sub[b])
    BY DEF MarketTyped, MarketTypeOK
  <2>2. Less(sub[b].left) \in 0..MinInterval
    BY <2>1, MarketBounds DEF Submit, Less
  <2>3. (IF sub[b].since < Cooloff THEN sub[b].since + 1 ELSE sub[b].since) \in 0..Cooloff
    BY <2>1, MarketBounds DEF Submit
  <2>4. sub'[b] = [sub[b] EXCEPT !.left = Less(@), !.since = IF @ < Cooloff THEN @ + 1 ELSE @]
    BY DEF MarketTick
  <2>5. QED
    BY <2>1, <2>2, <2>3, <2>4 DEF Submit, Sound
<1>2. sub' \in [Sections -> Submit]
  BY <1>1 DEF MarketTick
<1>3. throttle' \in [holder : Sections \cup {NoSection}, wait : 0..MinInterval]
  <2>1. throttle \in [holder : Sections \cup {NoSection}, wait : 0..MinInterval]
    BY DEF MarketTyped, MarketTypeOK
  <2>2. Less(throttle.wait) \in 0..MinInterval
    BY <2>1, MarketBounds DEF Less
  <2>3. QED
    BY <2>1, <2>2 DEF MarketTick
<1>4. cool' \in [Offers -> 0..Cooloff]
  <2>1. ASSUME NEW o \in Offers PROVE Less(cool[o]) \in 0..Cooloff
    <3>1. cool[o] \in 0..Cooloff
      BY DEF MarketTyped, MarketTypeOK
    <3>2. QED
      BY <3>1, MarketBounds DEF Less
  <2>2. QED
    BY <2>1 DEF MarketTick
<1>5. QED
  BY <1>1, <1>2, <1>3, <1>4 DEF MarketTick, MarketTyped, MarketTypeOK

\* The first state.
LEMMA MarketInitTyped == ASSUME MarketInit PROVE MarketTyped
<1>1. /\ 0 \in 0..MinInterval /\ 0 \in 0..Retries429 /\ 1 \in 1..ProvisionAttempts
      /\ 0 \in 0..Polls /\ 0 \in 0..Cooloff /\ 0 \in 0..MaxFaults /\ Cheapest \in Offers
  BY MarketBounds
<1>2. sub \in [Sections -> Submit]
  BY <1>1 DEF MarketInit, Submit, Request
<1>3. \A b \in Sections : Sound(sub[b])
  BY DEF MarketInit, Sound
<1>4. QED
  BY <1>1, <1>2, <1>3 DEF MarketInit, MarketTyped, MarketTypeOK

\* Every step keeps the types.
LEMMA MarketStepTyped == ASSUME MarketTyped, [MarketNext]_marketVars PROVE MarketTyped'
<1>1. ASSUME NEW b \in Sections, SubmitSteps(b) PROVE MarketTyped'
  <2>1. PICK s \in Submit : Becomes(b, s) /\ Sound(s)
    BY <1>1, StepsSound
  <2>2. sub' \in [Sections -> Submit] /\ \A d \in Sections : Sound(sub'[d])
    BY <2>1 DEF Becomes, MarketTyped, MarketTypeOK
  <2>3. QED
    BY <1>1, <2>2, SharedTyped DEF MarketTyped, MarketTypeOK
<1>2. CASE UNCHANGED marketVars
  BY <1>2 DEF marketVars, MarketTyped, MarketTypeOK
<1>3. QED
  BY <1>1, <1>2, KillTyped, MarketTickTyped DEF MarketNext

\* The types hold in every reachable state.
LEMMA TypedAlways == MarketSpec => []MarketTyped
BY MarketInitTyped, MarketStepTyped, PTL DEF MarketSpec

\* The market's variables keep their types: no submit rents more often than
\* provision_attempts, and no request is repeated beyond its 429 retries.
THEOREM MarketTypeCorrect == MarketSpec => []MarketTypeOK
<1>1. MarketTyped => MarketTypeOK
  BY DEF MarketTyped
<1>2. QED
  BY <1>1, TypedAlways, PTL

----------------------------------------------------------------------------
(***************************************************************************)
(* The throttle.  Whoever sleeps holds its lock and still has at least the *)
(* rest of the interval to sleep.                                          *)
(***************************************************************************)
Paced ==
    \A b \in Sections : SubmitAt(b, "sleep") => throttle.holder = b /\ throttle.wait <= sub[b].left

\* A step of one section leaves the other submits alone.
LEMMA OthersStill ==
  ASSUME NEW b \in Sections, MarketTyped, SubmitSteps(b), NEW d \in Sections, d # b
  PROVE  sub'[d] = sub[d]
<1>1. PICK s \in Submit : Becomes(b, s)
  BY StepsSound
<1>2. QED
  BY <1>1 DEF Becomes, MarketTyped, MarketTypeOK

\* A section's own step puts it to sleep by taking the throttle, and wakes it by
\* leaving it.
LEMMA SleepStep ==
  ASSUME NEW b \in Sections, MarketTyped, SubmitSteps(b)
  PROVE  \/ TakeThrottle(b)
         \/ LeaveThrottle(b) /\ sub'[b].pc = "http"
         \/ throttle' = throttle /\ ~SubmitAt(b, "sleep") /\ sub'[b].pc # "sleep"
<1>1. sub \in [Sections -> Submit] /\ sub[b] \in Submit
  BY DEF MarketTyped, MarketTypeOK
<1>2. CASE LeaveThrottle(b)
  BY <1>1, <1>2 DEF LeaveThrottle, Becomes, Submit
<1>3. CASE RateLimited(b)
  BY <1>1, <1>3 DEF RateLimited, Becomes, SubmitAt, Submit
<1>4. CASE Rented(b) \/ CreateFails(b) \/ PollRunning(b) \/ Launched(b) \/ ProbeFails(b)
  <2>1. CASE Rented(b)
    BY <1>1, <2>1 DEF Rented, Becomes, Ends, Doing, SubmitAt, Submit
  <2>2. CASE CreateFails(b)
    BY <1>1, <2>2 DEF CreateFails, Becomes, Ends, Doing, SubmitAt, Submit
  <2>3. CASE PollRunning(b)
    BY <1>1, <2>3 DEF PollRunning, Becomes, Ends, Doing, SubmitAt, Submit
  <2>4. CASE Launched(b)
    BY <1>1, <2>4 DEF Launched, Becomes, Ends, Doing, SubmitAt, Submit
  <2>5. CASE ProbeFails(b)
    BY <1>1, <2>5 DEF ProbeFails, Becomes, Ends, Doing, SubmitAt, Submit
  <2>6. QED
    BY <1>4, <2>1, <2>2, <2>3, <2>4, <2>5
<1>5. CASE Stub(b) \/ PollNotYet(b) \/ PollFails(b) \/ SshDead(b) \/ LaunchFails(b)
  <2>1. \A d \in BOOLEAN : TearDown(sub[b], d).pc # "sleep"
    BY <1>1 DEF TearDown, Asks, Submit
  <2>2. /\ [Asks(sub[b], "poll") EXCEPT !.polls = 0].pc # "sleep"
        /\ [Asks(sub[b], "poll") EXCEPT !.polls = @ + 1].pc # "sleep"
    BY <1>1 DEF Asks, Submit
  <2>3. PICK s : Becomes(b, s) /\ s.pc # "sleep"
    BY <1>5, <2>1, <2>2 DEF Stub, PollNotYet, PollFails, SshDead, LaunchFails
  <2>4. QED
    BY <1>1, <1>5, <2>3 DEF Stub, PollNotYet, PollFails, SshDead, LaunchFails, Becomes, Doing, SubmitAt
<1>6. CASE OfferGone(b)
  BY <1>1, <1>6 DEF OfferGone, Becomes, Reshop, Asks, Ends, Doing, SubmitAt, Submit
<1>7. CASE Terminated(b) \/ TerminateFails(b)
  <2>1. AfterTeardown(b).pc # "sleep"
    BY <1>1 DEF AfterTeardown, Reshop, Asks, Ends, Submit
  <2>2. QED
    BY <1>1, <1>7, <2>1 DEF Terminated, TerminateFails, Becomes, Doing, SubmitAt
<1>8. CASE Reprobed(b)
  <2>1. throttle' = throttle /\ ~SubmitAt(b, "sleep")
    BY <1>8 DEF Reprobed, Doing, SubmitAt
  <2>2. CASE Becomes(b, Ends(sub[b], "failed"))
    BY <1>1, <2>1, <2>2 DEF Becomes, Ends, Submit
  <2>3. ASSUME NEW o \in Offers,
               Becomes(b, [Asks(sub[b], "create") EXCEPT !.offer = o, !.attempt = @ + 1])
        PROVE  sub'[b].pc # "sleep"
    BY <1>1, <2>3 DEF Becomes, Asks, Submit
  <2>4. QED
    BY <1>8, <2>1, <2>2, <2>3 DEF Reprobed, Fitting
<1>9. QED
  BY <1>2, <1>3, <1>4, <1>5, <1>6, <1>7, <1>8 DEF SubmitSteps, Answers

LEMMA StepPaced == ASSUME MarketTyped, Paced, [MarketNext]_marketVars PROVE Paced'
<1>1. ASSUME NEW b \in Sections, SubmitSteps(b), NEW d \in Sections, SubmitAt(d, "sleep")'
      PROVE  throttle'.holder = d /\ throttle'.wait <= sub'[d].left
  <2>1. /\ sub \in [Sections -> Submit] /\ sub[b] \in Submit
        /\ throttle \in [holder : Sections \cup {NoSection}, wait : 0..MinInterval]
    BY DEF MarketTyped, MarketTypeOK
  <2>2. CASE TakeThrottle(b)
    <3>1. d = b
      BY <1>1, <2>2, OthersStill, MarketBounds DEF TakeThrottle, Paced, SubmitAt
    <3>2. throttle'.holder = b /\ throttle'.wait = throttle.wait
      BY <2>1, <2>2 DEF TakeThrottle
    <3>3. sub'[b].left = throttle.wait
      BY <2>1, <2>2 DEF TakeThrottle, Becomes, Submit
    <3>4. throttle.wait \in Nat
      BY <2>1, MarketBounds
    <3>5. QED
      BY <3>1, <3>2, <3>3, <3>4
  <2>3. CASE LeaveThrottle(b) /\ sub'[b].pc = "http"
    <3>1. d # b
      BY <1>1, <2>3 DEF SubmitAt
    <3>2. SubmitAt(d, "sleep") /\ SubmitAt(b, "sleep")
      BY <1>1, <2>3, <3>1, OthersStill DEF SubmitAt, LeaveThrottle
    <3>3. QED
      BY <3>1, <3>2 DEF Paced
  <2>4. CASE throttle' = throttle /\ ~SubmitAt(b, "sleep") /\ sub'[b].pc # "sleep"
    <3>1. d # b
      BY <1>1, <2>4 DEF SubmitAt
    <3>2. sub'[d] = sub[d]
      BY <1>1, <3>1, OthersStill
    <3>3. QED
      BY <1>1, <2>4, <3>2 DEF Paced, SubmitAt
  <2>5. QED
    BY <1>1, <2>2, <2>3, <2>4, SleepStep
<1>2. ASSUME Kill, NEW d \in Sections PROVE ~SubmitAt(d, "sleep")'
  BY <1>2 DEF Kill, SubmitAt, Over, Ends, MarketTyped, MarketTypeOK, Submit
<1>3. ASSUME MarketTick, NEW d \in Sections, SubmitAt(d, "sleep")'
      PROVE  throttle'.holder = d /\ throttle'.wait <= sub'[d].left
  <2>1. /\ sub[d] \in Submit
        /\ throttle \in [holder : Sections \cup {NoSection}, wait : 0..MinInterval]
    BY DEF MarketTyped, MarketTypeOK
  <2>2. sub'[d] = [sub[d] EXCEPT !.left = Less(@), !.since = IF @ < Cooloff THEN @ + 1 ELSE @]
    BY <1>3 DEF MarketTick
  <2>3. sub'[d].pc = sub[d].pc /\ sub'[d].left = Less(sub[d].left)
    BY <2>1, <2>2 DEF Submit
  <2>4. throttle'.holder = throttle.holder /\ throttle'.wait = Less(throttle.wait)
    BY <1>3, <2>1 DEF MarketTick
  <2>5. throttle.wait \in Nat /\ sub[d].left \in Nat
    BY <2>1, MarketBounds DEF Submit
  <2>6. throttle.holder = d /\ throttle.wait <= sub[d].left
    BY <1>3, <2>3 DEF Paced, SubmitAt
  <2>7. QED
    BY <2>3, <2>4, <2>5, <2>6 DEF Less
<1>4. CASE UNCHANGED marketVars
  BY <1>4 DEF marketVars, Paced, SubmitAt
<1>5. QED
  BY <1>1, <1>2, <1>3, <1>4 DEF MarketNext, Paced

LEMMA PacedAlways == MarketSpec => []Paced
<1>1. MarketInit => Paced
  BY DEF MarketInit, Paced, SubmitAt
<1>2. QED
  BY <1>1, StepPaced, TypedAlways, PTL DEF MarketSpec

\* A call goes out only when the interval since the last one is over: the sleeper
\* that leaves the throttle computed its delay from it and has slept it.
THEOREM SpacedCorrect == MarketSpec => Spaced
<1>1. ASSUME MarketTyped, Paced, [MarketNext]_marketVars, NEW b \in Sections, SubmitAt(b, "sleep"), sub'[b].pc = "http"
      PROVE  throttle.wait = 0
  <2>1. /\ sub[b] \in Submit
        /\ throttle \in [holder : Sections \cup {NoSection}, wait : 0..MinInterval]
    BY <1>1 DEF MarketTyped, MarketTypeOK
  <2>2. ASSUME NEW d \in Sections, SubmitSteps(d) PROVE LeaveThrottle(b)
    <3>1. d = b
      <4>1. sub'[b] # sub[b]
        BY <1>1 DEF SubmitAt
      <4>2. QED
        BY <1>1, <2>2, <4>1, OthersStill
    <3>2. ~TakeThrottle(b)
      BY <1>1 DEF TakeThrottle, SubmitAt
    <3>3. QED
      BY <1>1, <2>2, <3>1, <3>2, SleepStep
  <2>3. ASSUME Kill PROVE FALSE
    <3>1. sub'[b] = IF Over(b) THEN sub[b] ELSE Ends(sub[b], "killed")
      BY <2>3 DEF Kill
    <3>2. Ends(sub[b], "killed").pc = "killed" /\ ~Over(b)
      BY <1>1, <2>1 DEF Ends, Submit, Over, SubmitAt
    <3>3. QED
      BY <1>1, <3>1, <3>2
  <2>4. ASSUME MarketTick PROVE FALSE
    <3>1. sub'[b] = [sub[b] EXCEPT !.left = Less(@), !.since = IF @ < Cooloff THEN @ + 1 ELSE @]
      BY <2>4 DEF MarketTick
    <3>2. sub'[b].pc = sub[b].pc
      BY <2>1, <3>1 DEF Submit
    <3>3. QED
      BY <1>1, <3>2 DEF SubmitAt
  <2>5. LeaveThrottle(b)
    BY <1>1, <2>2, <2>3, <2>4 DEF MarketNext, marketVars, SubmitAt
  <2>6. sub[b].left = 0 /\ throttle.wait <= sub[b].left /\ throttle.wait \in Nat
    BY <1>1, <2>1, <2>5, MarketBounds DEF LeaveThrottle, Paced
  <2>7. QED
    BY <2>6
<1>2. MarketTyped /\ Paced /\ [MarketNext]_marketVars
        => [\A b \in Sections : SubmitAt(b, "sleep") /\ sub'[b].pc = "http" => throttle.wait = 0]_marketVars
  BY <1>1
<1>3. QED
  BY <1>2, TypedAlways, PacedAlways, PTL DEF MarketSpec, Spaced

----------------------------------------------------------------------------
(***************************************************************************)
(* The cool-off.  A submit that shops again after a dead rental finds its  *)
(* offer marked for the whole cool-off, less the time since.               *)
(***************************************************************************)
Shuns(b) ==
    sub[b].req = "probe" /\ sub[b].dead => cool[sub[b].offer] + sub[b].since >= Cooloff

Shunned == \A b \in Sections : Shuns(b)

\* An offer is only ever marked, by a section's step, for the whole cool-off.
LEMMA CoolStep ==
  ASSUME NEW b \in Sections, MarketTyped, SubmitSteps(b), NEW o \in Offers
  PROVE  cool'[o] = cool[o] \/ cool'[o] = Cooloff
<1>1. cool' \in {cool, Marked(b)}
  BY Zenon DEF SubmitSteps, Answers, Rented, OfferGone, CreateFails, PollRunning, TakeThrottle,
     LeaveThrottle, PollNotYet, PollFails, Terminated, TerminateFails, Reprobed, ProbeFails,
     RateLimited, Stub, SshDead, Launched, LaunchFails
<1>2. cool \in [Offers -> 0..Cooloff]
  BY DEF MarketTyped, MarketTypeOK
<1>3. QED
  BY <1>1, <1>2 DEF Marked

\* A submit that shops again keeps on at it, or gave its offer back alive, or has
\* just marked it.
LEMMA ProbeStep ==
  ASSUME NEW b \in Sections, MarketTyped, SubmitSteps(b), sub'[b].req = "probe"
  PROVE  \/ /\ sub[b].req = "probe" /\ sub'[b].dead = sub[b].dead
            /\ sub'[b].offer = sub[b].offer /\ sub'[b].since = sub[b].since
         \/ ~sub'[b].dead
         \/ cool'[sub'[b].offer] = Cooloff
<1>1. /\ sub \in [Sections -> Submit] /\ sub[b] \in Submit
      /\ cool \in [Offers -> 0..Cooloff]
  BY DEF MarketTyped, MarketTypeOK
<1>2. CASE TakeThrottle(b) \/ LeaveThrottle(b) \/ RateLimited(b)
  <2>1. CASE TakeThrottle(b)
    BY <1>1, <2>1 DEF TakeThrottle, Becomes, Submit
  <2>2. CASE LeaveThrottle(b)
    BY <1>1, <2>2 DEF LeaveThrottle, Becomes, Submit
  <2>3. CASE RateLimited(b)
    BY <1>1, <2>3 DEF RateLimited, Becomes, Submit
  <2>4. QED
    BY <1>2, <2>1, <2>2, <2>3
<1>3. CASE Rented(b) \/ CreateFails(b) \/ PollRunning(b) \/ Launched(b) \/ ProbeFails(b)
  <2>1. PICK pc : Becomes(b, Ends(sub[b], pc))
    BY <1>3, Zenon DEF Rented, CreateFails, PollRunning, Launched, ProbeFails
  <2>2. QED
    BY <1>1, <2>1 DEF Becomes, Ends, Submit
<1>4. CASE Stub(b) \/ PollNotYet(b) \/ PollFails(b) \/ SshDead(b) \/ LaunchFails(b)
  <2>1. \A d \in BOOLEAN : TearDown(sub[b], d).req # "probe"
    BY <1>1 DEF TearDown, Asks, Submit
  <2>2. /\ [Asks(sub[b], "poll") EXCEPT !.polls = 0].req # "probe"
        /\ [Asks(sub[b], "poll") EXCEPT !.polls = @ + 1].req # "probe"
    BY <1>1 DEF Asks, Submit
  <2>3. PICK s : Becomes(b, s) /\ s.req # "probe"
    BY <1>4, <2>1, <2>2 DEF Stub, PollNotYet, PollFails, SshDead, LaunchFails
  <2>4. QED
    BY <1>1, <2>3 DEF Becomes
<1>5. CASE OfferGone(b)
  <2>1. Reshop([sub[b] EXCEPT !.dead = FALSE]).dead = FALSE
    BY <1>1 DEF Reshop, Asks, Ends, Submit
  <2>2. QED
    BY <1>1, <1>5, <2>1 DEF OfferGone, Becomes
<1>6. CASE Terminated(b) \/ TerminateFails(b)
  <2>1. cool' = Marked(b) /\ sub'[b] = AfterTeardown(b)
    BY <1>1, <1>6 DEF Terminated, TerminateFails, Becomes
  <2>2. CASE ~sub[b].dead
    BY <1>1, <2>1, <2>2 DEF AfterTeardown, Ends, Submit
  <2>3. CASE sub[b].dead
    <3>1. AfterTeardown(b).offer = sub[b].offer /\ sub[b].offer \in Offers
      BY <1>1, <2>3 DEF AfterTeardown, Reshop, Asks, Ends, Submit
    <3>2. QED
      BY <1>1, <2>1, <2>3, <3>1 DEF Marked
  <2>4. QED
    BY <2>2, <2>3
<1>7. CASE Reprobed(b)
  <2>1. CASE Becomes(b, Ends(sub[b], "failed"))
    BY <1>1, <2>1 DEF Becomes, Ends, Submit
  <2>2. ASSUME NEW o \in Offers,
               Becomes(b, [Asks(sub[b], "create") EXCEPT !.offer = o, !.attempt = @ + 1])
        PROVE  FALSE
    BY <1>1, <2>2 DEF Becomes, Asks, Submit
  <2>3. QED
    BY <1>7, <2>1, <2>2 DEF Reprobed, Fitting
<1>8. QED
  BY <1>2, <1>3, <1>4, <1>5, <1>6, <1>7 DEF SubmitSteps, Answers

LEMMA StepShunned == ASSUME MarketTyped, Shunned, [MarketNext]_marketVars PROVE Shunned'
<1>1. ASSUME NEW b \in Sections, SubmitSteps(b), NEW d \in Sections PROVE Shuns(d)'
  <2>1. SUFFICES ASSUME sub'[d].req = "probe", sub'[d].dead
                 PROVE  cool'[sub'[d].offer] + sub'[d].since >= Cooloff
    BY DEF Shuns
  <2>2. sub[d] \in Submit /\ sub[b] \in Submit /\ cool \in [Offers -> 0..Cooloff]
    BY DEF MarketTyped, MarketTypeOK
  <2>3. sub' \in [Sections -> Submit]
    <3>1. PICK s \in Submit : Becomes(b, s)
      BY <1>1, StepsSound
    <3>2. QED
      BY <3>1 DEF Becomes, MarketTyped, MarketTypeOK
  <2>4. sub'[d].since \in Nat /\ sub'[d].offer \in Offers
    BY <2>3, MarketBounds DEF Submit
  <2>5. CASE cool'[sub'[d].offer] = Cooloff
    BY <2>4, <2>5, MarketBounds
  <2>6. CASE /\ sub[d].req = "probe" /\ sub'[d].dead = sub[d].dead
             /\ sub'[d].offer = sub[d].offer /\ sub'[d].since = sub[d].since
             /\ cool'[sub'[d].offer] # Cooloff
    <3>1. cool'[sub'[d].offer] = cool[sub[d].offer]
      BY <1>1, <2>4, <2>6, CoolStep
    <3>2. QED
      BY <2>1, <2>6, <3>1 DEF Shunned, Shuns
  <2>7. CASE d = b
    BY <1>1, <2>1, <2>5, <2>6, <2>7, ProbeStep
  <2>8. CASE d # b
    <3>1. sub'[d] = sub[d]
      BY <1>1, <2>8, OthersStill
    <3>2. QED
      BY <2>1, <2>5, <2>6, <3>1
  <2>9. QED
    BY <2>7, <2>8
<1>2. ASSUME Kill, NEW d \in Sections PROVE Shuns(d)'
  <2>1. sub[d] \in Submit /\ Sound(sub[d])
    BY DEF MarketTyped, MarketTypeOK
  <2>2. sub'[d] = IF Over(d) THEN sub[d] ELSE Ends(sub[d], "killed")
    BY <1>2 DEF Kill
  <2>3. sub'[d].req = "none"
    BY <2>1, <2>2 DEF Over, Ends, Submit, Sound
  <2>4. QED
    BY <2>3 DEF Shuns
<1>3. ASSUME MarketTick, NEW d \in Sections PROVE Shuns(d)'
  <2>1. sub[d] \in Submit /\ cool \in [Offers -> 0..Cooloff]
    BY DEF MarketTyped, MarketTypeOK
  <2>2. sub'[d] = [sub[d] EXCEPT !.left = Less(@), !.since = IF @ < Cooloff THEN @ + 1 ELSE @]
    BY <1>3 DEF MarketTick
  <2>3. /\ sub'[d].req = sub[d].req /\ sub'[d].dead = sub[d].dead /\ sub'[d].offer = sub[d].offer
        /\ sub'[d].since = IF sub[d].since < Cooloff THEN sub[d].since + 1 ELSE sub[d].since
    BY <2>1, <2>2 DEF Submit
  <2>4. sub[d].offer \in Offers /\ sub[d].since \in Nat
    BY <2>1, MarketBounds DEF Submit
  <2>5. cool'[sub[d].offer] = Less(cool[sub[d].offer]) /\ cool[sub[d].offer] \in Nat
    <3>1. cool[sub[d].offer] \in 0..Cooloff
      BY <2>1, <2>4
    <3>2. cool' = [o \in Offers |-> Less(cool[o])]
      BY <1>3 DEF MarketTick
    <3>3. QED
      BY <2>4, <3>1, <3>2, MarketBounds
  <2>6. Shuns(d)
    BY DEF Shunned
  <2>7. QED
    BY <2>3, <2>4, <2>5, <2>6, MarketBounds DEF Shuns, Less
<1>4. CASE UNCHANGED marketVars
  BY <1>4 DEF marketVars, Shunned, Shuns
<1>5. QED
  BY <1>1, <1>2, <1>3, <1>4 DEF MarketNext, Shunned

LEMMA ShunnedAlways == MarketSpec => []Shunned
<1>1. MarketInit => Shunned
  BY DEF MarketInit, Shunned, Shuns
<1>2. QED
  BY <1>1, StepShunned, TypedAlways, PTL DEF MarketSpec

\* From shopping to renting there is one step, the answer of the probe, and it
\* takes no offer that is cooling.
LEMMA RentStep ==
  ASSUME MarketTyped, [MarketNext]_marketVars, NEW b \in Sections, sub[b].req = "probe", sub'[b].req = "create"
  PROVE  ~Cooling(sub'[b].offer) /\ sub'[b].offer \in Offers
<1>1. sub \in [Sections -> Submit] /\ sub[b] \in Submit /\ Sound(sub[b])
  BY DEF MarketTyped, MarketTypeOK
<1>2. ASSUME NEW d \in Sections, SubmitSteps(d) PROVE ~Cooling(sub'[b].offer) /\ sub'[b].offer \in Offers
  <2>1. d = b
    <3>1. sub'[b] # sub[b]
      OBVIOUS
    <3>2. QED
      BY <1>2, <3>1, OthersStill
  <2>2. CASE TakeThrottle(b) \/ LeaveThrottle(b) \/ RateLimited(b)
    <3>1. CASE TakeThrottle(b)
      BY <1>1, <3>1 DEF TakeThrottle, Becomes, Submit
    <3>2. CASE LeaveThrottle(b)
      BY <1>1, <3>2 DEF LeaveThrottle, Becomes, Submit
    <3>3. CASE RateLimited(b)
      BY <1>1, <3>3 DEF RateLimited, Becomes, Submit
    <3>4. QED
      BY <2>2, <3>1, <3>2, <3>3
  <2>3. CASE Reprobed(b)
    <3>1. CASE Becomes(b, Ends(sub[b], "failed"))
      BY <1>1, <3>1 DEF Becomes, Ends, Submit
    <3>2. ASSUME NEW o \in Offers, ~Cooling(o),
                 Becomes(b, [Asks(sub[b], "create") EXCEPT !.offer = o, !.attempt = @ + 1])
          PROVE  sub'[b].offer = o
      BY <1>1, <3>2 DEF Becomes, Asks, Submit
    <3>3. QED
      BY <2>3, <3>1, <3>2 DEF Reprobed, Fitting
  <2>4. CASE ProbeFails(b)
    BY <1>1, <2>4 DEF ProbeFails, Becomes, Ends, Submit
  <2>5. CASE Rented(b) \/ CreateFails(b) \/ PollRunning(b) \/ PollNotYet(b) \/ PollFails(b)
             \/ OfferGone(b) \/ Terminated(b) \/ TerminateFails(b)
    BY <2>5 DEF Rented, CreateFails, PollRunning, PollNotYet, PollFails, OfferGone, Terminated,
       TerminateFails, Doing
  <2>6. CASE Stub(b) \/ SshDead(b) \/ Launched(b) \/ LaunchFails(b)
    <3>1. CASE Launched(b)
      BY <1>1, <3>1 DEF Launched, Becomes, Ends, Submit
    <3>2. \A dead \in BOOLEAN : TearDown(sub[b], dead).req # "create"
      BY <1>1 DEF TearDown, Asks, Submit
    <3>3. [Asks(sub[b], "poll") EXCEPT !.polls = 0].req # "create"
      BY <1>1 DEF Asks, Submit
    <3>4. CASE \E s : Becomes(b, s) /\ s.req # "create"
      BY <1>1, <3>4 DEF Becomes
    <3>5. QED
      BY <2>6, <3>1, <3>2, <3>3, <3>4 DEF Stub, SshDead, LaunchFails
  <2>7. QED
    BY <1>2, <2>1, <2>2, <2>3, <2>4, <2>5, <2>6 DEF SubmitSteps, Answers
<1>3. ASSUME Kill PROVE FALSE
  <2>1. sub'[b] = IF Over(b) THEN sub[b] ELSE Ends(sub[b], "killed")
    BY <1>3 DEF Kill
  <2>2. QED
    BY <1>1, <2>1 DEF Ends, Submit
<1>4. ASSUME MarketTick PROVE FALSE
  <2>1. sub'[b] = [sub[b] EXCEPT !.left = Less(@), !.since = IF @ < Cooloff THEN @ + 1 ELSE @]
    BY <1>4 DEF MarketTick
  <2>2. QED
    BY <1>1, <2>1 DEF Submit
<1>5. QED
  BY <1>2, <1>3, <1>4 DEF MarketNext, marketVars

\* A submit whose rental proved dead does not rent the same offer again before the
\* cool-off is over, whatever the market shows and whoever else marks it.
THEOREM RentsElsewhereCorrect == MarketSpec => RentsElsewhere
<1>1. ASSUME MarketTyped, Shunned, [MarketNext]_marketVars, NEW b \in Sections, sub[b].req = "probe",
             sub'[b].req = "create", sub'[b].offer = sub[b].offer, sub[b].dead
      PROVE  sub[b].since = Cooloff
  <2>1. sub[b] \in Submit /\ cool \in [Offers -> 0..Cooloff]
    BY <1>1 DEF MarketTyped, MarketTypeOK
  <2>2. ~Cooling(sub[b].offer) /\ sub[b].offer \in Offers
    BY <1>1, RentStep
  <2>3. cool[sub[b].offer] = 0
    BY <2>1, <2>2, MarketBounds DEF Cooling
  <2>4. sub[b].since >= Cooloff /\ sub[b].since \in 0..Cooloff
    BY <1>1, <2>1, <2>3, MarketBounds DEF Shunned, Shuns, Submit
  <2>5. QED
    BY <2>4, MarketBounds
<1>2. MarketTyped /\ Shunned /\ [MarketNext]_marketVars
        => [\A b \in Sections :
              sub[b].req = "probe" /\ sub'[b].req = "create" /\ sub'[b].offer = sub[b].offer
                  => ~sub[b].dead \/ sub[b].since = Cooloff]_marketVars
  BY <1>1
<1>3. QED
  BY <1>2, TypedAlways, ShunnedAlways, PTL DEF MarketSpec, RentsElsewhere

----------------------------------------------------------------------------
(***************************************************************************)
(* The rentals.  Each one the section was told of is its submit's current  *)
(* one, at a point that keeps or destroys it, or could not be destroyed;   *)
(* and its stub went out, or goes out next.                                *)
(***************************************************************************)
Holding(s) == s.pc \in {"stub", "ssh", "done", "killed"} \/ s.req \in {"poll", "terminate"}

Accounted(b, n) ==
    <<b, n>> \in live \ unheard
        => /\ <<b, n>> \in undead \/ (n = sub[b].attempt /\ Holding(sub[b]))
           /\ <<b, n>> \in known \/ (n = sub[b].attempt /\ SubmitAt(b, "stub"))

Kept == \A b \in Sections : \A n \in 1..ProvisionAttempts : Accounted(b, n)

\* A section's own step keeps its rental, or destroys it, or notes that it could
\* not, or had none.
LEMMA HoldStep ==
  ASSUME NEW b \in Sections, MarketTyped, SubmitSteps(b)
  PROVE  \/ sub'[b].attempt = sub[b].attempt /\ (Holding(sub[b]) => Holding(sub'[b]))
         \/ Rental(b) \notin live' \/ Rental(b) \in undead'
         \/ ~Holding(sub[b])
<1>1. sub \in [Sections -> Submit] /\ sub[b] \in Submit
  BY DEF MarketTyped, MarketTypeOK
<1>2. CASE TakeThrottle(b) \/ LeaveThrottle(b) \/ RateLimited(b)
  <2>1. CASE TakeThrottle(b)
    BY <1>1, <2>1 DEF TakeThrottle, Becomes, SubmitAt, Holding, Submit
  <2>2. CASE LeaveThrottle(b)
    BY <1>1, <2>2 DEF LeaveThrottle, Becomes, SubmitAt, Holding, Submit
  <2>3. CASE RateLimited(b)
    BY <1>1, <2>3 DEF RateLimited, Becomes, SubmitAt, Holding, Submit
  <2>4. QED
    BY <1>2, <2>1, <2>2, <2>3
<1>3. CASE Rented(b) \/ OfferGone(b) \/ CreateFails(b) \/ Reprobed(b) \/ ProbeFails(b)
  BY <1>3 DEF Rented, OfferGone, CreateFails, Reprobed, ProbeFails, Doing, SubmitAt, Holding
<1>4. CASE PollRunning(b) \/ Launched(b)
  <2>1. PICK pc \in {"ssh", "done"} : Becomes(b, Ends(sub[b], pc))
    BY <1>4, Zenon DEF PollRunning, Launched
  <2>2. QED
    BY <1>1, <2>1 DEF Becomes, Ends, Holding, Submit
<1>5. CASE Stub(b) \/ PollNotYet(b) \/ PollFails(b) \/ SshDead(b) \/ LaunchFails(b)
  <2>1. \A d \in BOOLEAN : TearDown(sub[b], d).req = "terminate"
                           /\ TearDown(sub[b], d).attempt = sub[b].attempt
    BY <1>1 DEF TearDown, Asks, Submit
  <2>2. /\ [Asks(sub[b], "poll") EXCEPT !.polls = 0].req = "poll"
        /\ [Asks(sub[b], "poll") EXCEPT !.polls = 0].attempt = sub[b].attempt
        /\ [Asks(sub[b], "poll") EXCEPT !.polls = @ + 1].req = "poll"
        /\ [Asks(sub[b], "poll") EXCEPT !.polls = @ + 1].attempt = sub[b].attempt
    BY <1>1 DEF Asks, Submit
  <2>3. PICK s : Becomes(b, s) /\ s.req \in {"poll", "terminate"} /\ s.attempt = sub[b].attempt
    BY <1>5, <2>1, <2>2 DEF Stub, PollNotYet, PollFails, SshDead, LaunchFails
  <2>4. QED
    BY <1>1, <2>3 DEF Becomes, Holding
<1>6. CASE Terminated(b) \/ TerminateFails(b)
  BY <1>6 DEF Terminated, TerminateFails
<1>7. QED
  BY <1>2, <1>3, <1>4, <1>5, <1>6 DEF SubmitSteps, Answers

\* Only the stub's own step leads away from it, and it tells the client.
LEMMA StubStep ==
  ASSUME NEW b \in Sections, SubmitSteps(b), SubmitAt(b, "stub")
  PROVE  Rental(b) \in known'
<1>1. Stub(b)
  BY DEF SubmitAt, SubmitSteps, Answers, Rented, OfferGone, CreateFails, PollRunning, TakeThrottle,
     LeaveThrottle, PollNotYet, PollFails, Terminated, TerminateFails, Reprobed, ProbeFails,
     RateLimited, SshDead, Launched, LaunchFails, Doing
<1>2. QED
  BY <1>1 DEF Stub

\* The sets only grow but for a rental destroyed, and only Rented bills one that
\* the section learns of.
LEMMA SetsStep ==
  ASSUME NEW b \in Sections, MarketTyped, SubmitSteps(b)
  PROVE  /\ known \subseteq known' /\ undead \subseteq undead' /\ unheard \subseteq unheard'
         /\ Rented(b) \/ live' \ unheard' \subseteq live \ unheard
         /\ live' \subseteq live \cup {Rental(b)}
BY DEF SubmitSteps, Answers, Rented, OfferGone, CreateFails, PollRunning, TakeThrottle,
   LeaveThrottle, PollNotYet, PollFails, Terminated, TerminateFails, Reprobed, ProbeFails,
   RateLimited, Stub, SshDead, Launched, LaunchFails

LEMMA StepKept == ASSUME MarketTyped, Kept, [MarketNext]_marketVars PROVE Kept'
<1>1. ASSUME NEW b \in Sections, SubmitSteps(b), NEW d \in Sections, NEW n \in 1..ProvisionAttempts,
             <<d, n>> \in live' \ unheard'
      PROVE  Accounted(d, n)'
  <2>1. sub \in [Sections -> Submit] /\ sub[b] \in Submit
    BY DEF MarketTyped, MarketTypeOK
  <2>2. CASE d # b
    <3>1. sub'[d] = sub[d]
      BY <1>1, <2>2, OthersStill
    <3>2. <<d, n>> \in live \ unheard
      BY <1>1, <2>2, SetsStep DEF Rental
    <3>3. QED
      BY <1>1, <3>1, <3>2, SetsStep DEF Kept, Accounted, SubmitAt, Holding
  <2>3. CASE d = b /\ Rented(b)
    <3>1. sub'[b] = Ends(sub[b], "stub") /\ live' = live \cup {Rental(b)}
          /\ known' = known /\ undead' = undead /\ unheard' = unheard
      BY <2>1, <2>3 DEF Rented, Becomes
    <3>2. sub'[b].attempt = sub[b].attempt /\ sub'[b].pc = "stub"
      BY <2>1, <3>1 DEF Ends, Submit
    <3>3. CASE n = sub[b].attempt
      BY <2>3, <3>2, <3>3 DEF Accounted, SubmitAt, Holding
    <3>4. CASE n # sub[b].attempt
      <4>1. <<b, n>> \in live \ unheard
        BY <1>1, <2>3, <3>1, <3>4 DEF Rental
      <4>2. <<b, n>> \in undead /\ <<b, n>> \in known
        BY <3>4, <4>1 DEF Kept, Accounted
      <4>3. QED
        BY <2>3, <3>1, <4>2 DEF Accounted
    <3>5. QED
      BY <3>3, <3>4
  <2>4. CASE d = b /\ ~Rented(b)
    <3>1. <<b, n>> \in live \ unheard
      BY <1>1, <2>4, SetsStep
    <3>2. /\ <<b, n>> \in undead \/ (n = sub[b].attempt /\ Holding(sub[b]))
          /\ <<b, n>> \in known \/ (n = sub[b].attempt /\ SubmitAt(b, "stub"))
      BY <3>1 DEF Kept, Accounted
    <3>3. <<b, n>> \in known'
      BY <1>1, <3>2, SetsStep, StubStep DEF Rental
    <3>4. <<b, n>> \in undead' \/ (n = sub'[b].attempt /\ Holding(sub'[b]))
      <4>1. CASE <<b, n>> \in undead
        BY <1>1, <4>1, SetsStep
      <4>2. CASE n = sub[b].attempt /\ Holding(sub[b])
        BY <1>1, <2>4, <4>2, HoldStep DEF Rental
      <4>3. QED
        BY <3>2, <4>1, <4>2
    <3>5. QED
      BY <2>4, <3>3, <3>4 DEF Accounted, Holding
  <2>5. QED
    BY <2>2, <2>3, <2>4
<1>2. ASSUME Kill, NEW d \in Sections, NEW n \in 1..ProvisionAttempts,
             <<d, n>> \in live' \ unheard'
      PROVE  Accounted(d, n)'
  <2>1. sub[d] \in Submit
    BY DEF MarketTyped, MarketTypeOK
  <2>2. /\ sub'[d] = IF Over(d) THEN sub[d] ELSE Ends(sub[d], "killed")
        /\ known' = known /\ undead' = undead
    BY <1>2 DEF Kill
  <2>3. <<d, n>> \in live \ unheard
    BY <1>2 DEF Kill
  <2>4. ~(n = sub[d].attempt /\ SubmitAt(d, "stub"))
    BY <1>2 DEF Kill, Rental
  <2>5. <<d, n>> \in known /\ (<<d, n>> \in undead \/ (n = sub[d].attempt /\ Holding(sub[d])))
    BY <2>3, <2>4 DEF Kept, Accounted
  <2>6. sub'[d].attempt = sub[d].attempt /\ (Holding(sub[d]) => Holding(sub'[d]))
    BY <2>1, <2>2 DEF Ends, Holding, Submit
  <2>7. QED
    BY <2>2, <2>5, <2>6 DEF Accounted, Holding
<1>3. ASSUME MarketTick, NEW d \in Sections, NEW n \in 1..ProvisionAttempts PROVE Accounted(d, n)'
  <2>1. sub[d] \in Submit
    BY DEF MarketTyped, MarketTypeOK
  <2>2. sub'[d] = [sub[d] EXCEPT !.left = Less(@), !.since = IF @ < Cooloff THEN @ + 1 ELSE @]
    BY <1>3 DEF MarketTick
  <2>3. sub'[d].pc = sub[d].pc /\ sub'[d].req = sub[d].req /\ sub'[d].attempt = sub[d].attempt
    BY <2>1, <2>2 DEF Submit
  <2>4. QED
    BY <1>3, <2>3 DEF MarketTick, Kept, Accounted, Holding, SubmitAt
<1>4. CASE UNCHANGED marketVars
  BY <1>4 DEF marketVars, Kept, Accounted, Holding, SubmitAt
<1>5. QED
  BY <1>1, <1>2, <1>3, <1>4 DEF MarketNext, Kept, Accounted

LEMMA KeptAlways == MarketSpec => []Kept
<1>1. MarketInit => Kept
  BY DEF MarketInit, Kept, Accounted
<1>2. QED
  BY <1>1, StepKept, TypedAlways, PTL DEF MarketSpec

\* No rental the section was told of is left billing by a submit that failed,
\* unless its termination failed, nor by a kill, unless a stub tells of it.
THEOREM NoLeakCorrect == MarketSpec => []NoLeak
<1>1. ASSUME MarketTyped, Kept PROVE NoLeak
  <2>1. ASSUME NEW i \in live \ unheard
        PROVE  LET s == sub[i[1]]
                   current == s.attempt = i[2] /\ ~(s.pc = "failed")
               IN  (current \/ i \in undead) /\ (i \in known \/ (current /\ s.pc = "stub"))
    <3>1. PICK b \in Sections, n \in 1..ProvisionAttempts : i = <<b, n>>
      BY <1>1 DEF MarketTyped, MarketTypeOK, Instances
    <3>2. Accounted(b, n) /\ Sound(sub[b])
      BY <1>1 DEF Kept, MarketTyped
    <3>3. Holding(sub[b]) => sub[b].pc # "failed"
      BY <3>2 DEF Holding, Sound
    <3>4. QED
      BY <2>1, <3>1, <3>2, <3>3 DEF Accounted, SubmitAt
  <2>2. QED
    BY <2>1 DEF NoLeak
<1>2. QED
  BY <1>1, TypedAlways, KeptAlways, PTL
=============================================================================
