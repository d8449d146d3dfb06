--------------------------- MODULE ContractProofs ---------------------------
(***************************************************************************)
(* The kernel's invariants for every set of jobs, every cost, budget and   *)
(* capacity; and the store's, for every set of jobs and providers and any  *)
(* number of calls: that the record it keeps of the kernel's transitions   *)
(* is the truth.  The two share the sums and folds of FiniteSums.          *)
(*                                                                         *)
(* Of the kernel, type correctness comes first; the other invariants are   *)
(* proved together, since the tracking of resources needs the intents.     *)
(*                                                                         *)
(* Of the store, the folds over a job's events come first, one event at a  *)
(* time; then the story of a job, that every legal operation carries on;   *)
(* then the histories an upgrade writes; then the calls and their races.   *)
(***************************************************************************)
EXTENDS Kernel, Store, FiniteSums, SequenceTheorems

-----------------------------------------------------------------------------
(* The kernel.                                                             *)

USE DEF Terminal, Occupying, JState

\* The kernel's variables keep their types.
THEOREM TypeCorrect == Spec => []TypeOK
<1>1. Init => TypeOK
  BY DEF Init, TypeOK
<1>2. TypeOK /\ [Next]_vars => TypeOK'
  <2> SUFFICES ASSUME TypeOK, [Next]_vars PROVE TypeOK'
    OBVIOUS
  <2> USE DEF TypeOK
  <2>1. ASSUME NEW j \in Jobs, Submit(j) PROVE TypeOK'
    BY <2>1 DEF Submit
  <2>2. ASSUME NEW j \in Jobs, Reserve(j) PROVE TypeOK'
    <3>1. Cost[j] \in Nat
      BY CostAssumption
    <3>2. spent' \in Nat
      BY <2>2, <3>1 DEF Reserve
    <3>3. QED
      BY <2>2, <3>2 DEF Reserve
  <2>3. ASSUME NEW j \in Jobs, Provision(j) PROVE TypeOK'
    BY <2>3 DEF Provision
  <2>4. ASSUME NEW j \in Jobs, Activate(j) PROVE TypeOK'
    BY <2>4 DEF Activate
  <2>5. ASSUME NEW j \in Jobs, Rollback(j) PROVE TypeOK'
    <3>1. Cost[j] \in Nat
      BY CostAssumption
    <3>2. spent' \in Nat
      BY <2>5, <3>1 DEF Rollback, Void
    <3>3. QED
      BY <2>5, <3>2 DEF Rollback
  <2>6. ASSUME NEW j \in Jobs, Finish(j) PROVE TypeOK'
    BY <2>6 DEF Finish
  <2>7. ASSUME NEW j \in Jobs, Cancel(j) PROVE TypeOK'
    BY <2>7 DEF Cancel
  <2>8. ASSUME NEW j \in Jobs, FailQueued(j) PROVE TypeOK'
    BY <2>8 DEF FailQueued
  <2>9. ASSUME NEW j \in Jobs, Capture(j) PROVE TypeOK'
    BY <2>9 DEF Capture
  <2>10. ASSUME NEW j \in Jobs, Reap(j) PROVE TypeOK'
    BY <2>10 DEF Reap
  <2>11. ASSUME NEW j \in Jobs, ReleaseLost(j) PROVE TypeOK'
    BY <2>11 DEF ReleaseLost
  <2>12. ASSUME NEW j \in Jobs, Requeue(j) PROVE TypeOK'
    <3>1. Cost[j] \in Nat
      BY CostAssumption
    <3>2. spent' \in Nat
      BY <2>12, <3>1 DEF Requeue, Void
    <3>3. QED
      BY <2>12, <3>2 DEF Requeue
  <2>13. ASSUME NEW j \in Jobs, Retry(j) PROVE TypeOK'
    BY <2>13 DEF Retry
  <2>14. CASE UNCHANGED vars
    BY <2>14 DEF vars
  <2>15. QED
    BY <2>1, <2>2, <2>3, <2>4, <2>5, <2>6, <2>7, <2>8, <2>9, <2>10, <2>11,
       <2>12, <2>13, <2>14 DEF Next
<1>3. QED
  BY <1>1, <1>2, PTL DEF Spec

-----------------------------------------------------------------------------
(* Ownership of resources: which step can break what.                      *)

\* A placing job is exactly one with an open intent, every minted resource
\* has an owner, what is reaped was captured, in the current attempt.  ExtTracked alone is not
\* inductive: Activate and Rollback close the intent, so what remains of
\* the ownership is read from the state, which PlacingIntent ties to it.
THEOREM OwnershipCorrect == Spec => []Ownership
<1> USE DEF Ownership, PlacingIntent, ExtTracked, ReapCaptured, CaptureFresh
<1>1. Init => Ownership
  BY DEF Init
<1>2. TypeOK /\ Ownership /\ [Next]_vars => Ownership'
  <2> SUFFICES ASSUME TypeOK, Ownership, [Next]_vars PROVE Ownership'
    OBVIOUS
  <2> USE DEF TypeOK
  <2>1. ASSUME NEW j \in Jobs, Submit(j) PROVE Ownership'
    BY <2>1 DEF Submit
  <2>2. ASSUME NEW j \in Jobs, Reserve(j) PROVE Ownership'
    BY <2>2 DEF Reserve
  <2>3. ASSUME NEW j \in Jobs, Provision(j) PROVE Ownership'
    BY <2>3 DEF Provision
  <2>4. ASSUME NEW j \in Jobs, Activate(j) PROVE Ownership'
    BY <2>4 DEF Activate
  <2>5. ASSUME NEW j \in Jobs, Rollback(j) PROVE Ownership'
    BY <2>5 DEF Rollback
  <2>6. ASSUME NEW j \in Jobs, Finish(j) PROVE Ownership'
    BY <2>6 DEF Finish
  <2>7. ASSUME NEW j \in Jobs, Cancel(j) PROVE Ownership'
    BY <2>7 DEF Cancel
  <2>8. ASSUME NEW j \in Jobs, FailQueued(j) PROVE Ownership'
    BY <2>8 DEF FailQueued
  <2>9. ASSUME NEW j \in Jobs, Capture(j) PROVE Ownership'
    BY <2>9 DEF Capture
  <2>10. ASSUME NEW j \in Jobs, Reap(j) PROVE Ownership'
    BY <2>10 DEF Reap
  <2>11. ASSUME NEW j \in Jobs, ReleaseLost(j) PROVE Ownership'
    BY <2>11 DEF ReleaseLost
  <2>12. ASSUME NEW j \in Jobs, Requeue(j) PROVE Ownership'
    BY <2>12 DEF Requeue
  <2>13. ASSUME NEW j \in Jobs, Retry(j) PROVE Ownership'
    BY <2>13 DEF Retry
  <2>14. CASE UNCHANGED vars
    BY <2>14 DEF vars
  <2>15. QED
    BY <2>1, <2>2, <2>3, <2>4, <2>5, <2>6, <2>7, <2>8, <2>9, <2>10, <2>11,
       <2>12, <2>13, <2>14 DEF Next
<1>3. QED
  BY <1>1, <1>2, TypeCorrect, PTL DEF Spec, Ownership

\* No resource leaves the registry before its artifacts were captured, and
\* no job comes back to the queue while its resource is still registered.
THEOREM ResourceSteps == Spec => CaptureBeforeRelease /\ NeverTwice
<1> DEFINE Released == \A j \in Jobs : j \in ext /\ j \notin ext' => j \in captured
           Requeued == \A j \in Jobs :
                          st[j] # "queued" /\ st'[j] = "queued" => j \notin ext'
<1>1. TypeOK /\ Ownership /\ [Next]_vars => [Released]_vars /\ [Requeued]_vars
  <2> SUFFICES ASSUME TypeOK, Ownership, Next
               PROVE Released /\ Requeued
    OBVIOUS
  <2> USE DEF TypeOK, Ownership, PlacingIntent, ExtTracked
  <2>1. PICK j \in Jobs :
          \/ Submit(j) \/ Reserve(j) \/ Provision(j) \/ Activate(j)
          \/ Rollback(j) \/ Finish(j) \/ Cancel(j) \/ FailQueued(j)
          \/ Capture(j) \/ Reap(j) \/ ReleaseLost(j) \/ Requeue(j) \/ Retry(j)
    BY DEF Next
  <2>2. CASE Submit(j) \/ Reserve(j) \/ Provision(j) \/ Activate(j)
    BY <2>2 DEF Submit, Reserve, Provision, Activate
  <2>3. CASE Finish(j) \/ Cancel(j) \/ FailQueued(j) \/ Capture(j)
    BY <2>3 DEF Finish, Cancel, FailQueued, Capture
  <2>4. CASE Reap(j) \/ ReleaseLost(j)
    BY <2>4 DEF Reap, ReleaseLost
  <2>5. CASE Rollback(j) \/ Requeue(j) \/ Retry(j)
    BY <2>5 DEF Rollback, Requeue, Retry
  <2>6. QED
    BY <2>1, <2>2, <2>3, <2>4, <2>5
<1>2. QED
  BY <1>1, TypeCorrect, OwnershipCorrect, PTL
     DEF Spec, Ownership, CaptureBeforeRelease, NeverTwice

-----------------------------------------------------------------------------
(* Money and capacity.                                                     *)

\* Committed spend stays within the budget: only Reserve commits, behind
\* its guard, and every step that gives spend back truncates at zero.
THEOREM BudgetCorrect == Spec => []BudgetOK
<1>1. Init => BudgetOK
  BY BudgetAssumption DEF Init, BudgetOK
<1>2. TypeOK /\ BudgetOK /\ [Next]_vars => BudgetOK'
  <2> SUFFICES ASSUME TypeOK, BudgetOK, [Next]_vars PROVE BudgetOK'
    OBVIOUS
  <2>1. ASSUME NEW j \in Jobs, Reserve(j) PROVE BudgetOK'
    BY <2>1 DEF Reserve, Affordable, BudgetOK
  <2>2. ASSUME NEW j \in Jobs, Rollback(j) \/ Requeue(j) PROVE BudgetOK'
    BY <2>2, CostAssumption, BudgetAssumption
       DEF Rollback, Requeue, Void, BudgetOK, TypeOK
  <2>3. ASSUME UNCHANGED spent PROVE BudgetOK'
    BY <2>3 DEF BudgetOK
  <2>4. QED
    BY <2>1, <2>2, <2>3
       DEF Next, Submit, Provision, Activate, Finish, Cancel, FailQueued,
           Capture, Reap, ReleaseLost, Retry, vars
<1>3. QED
  BY <1>1, <1>2, TypeCorrect, PTL DEF Spec

\* The set of occupying jobs grows only in Reserve, by the job reserved.
LEMMA ActiveStep ==
  ASSUME TypeOK, [Next]_vars
  PROVE  \/ Active' \subseteq Active
         \/ \E j \in Jobs : Reserve(j) /\ Active' \subseteq Active \union {j}
<1> USE DEF TypeOK, Active
<1>1. CASE UNCHANGED vars
  BY <1>1 DEF vars
<1>2. ASSUME NEW j \in Jobs, Reserve(j) PROVE Active' \subseteq Active \union {j}
  BY <1>2 DEF Reserve
<1>3. ASSUME NEW j \in Jobs, Submit(j) \/ Provision(j) \/ Activate(j) \/ Rollback(j)
      PROVE Active' \subseteq Active
  BY <1>3 DEF Submit, Provision, Activate, Rollback
<1>4. ASSUME NEW j \in Jobs, Finish(j) \/ Cancel(j) \/ FailQueued(j) \/ Requeue(j)
      PROVE Active' \subseteq Active
  BY <1>4 DEF Finish, Cancel, FailQueued, Requeue
<1>5. ASSUME NEW j \in Jobs, Capture(j) \/ Reap(j) \/ ReleaseLost(j) \/ Retry(j)
      PROVE Active' \subseteq Active
  BY <1>5 DEF Capture, Reap, ReleaseLost, Retry
<1>6. QED
  BY <1>1, <1>2, <1>3, <1>4, <1>5 DEF Next

\* Placements never exceed the capacity, whatever the interleaving.
THEOREM CapCorrect == Spec => []CapOK
<1>1. Init => CapOK
  <2> SUFFICES ASSUME Init PROVE CapOK
    OBVIOUS
  <2>1. Active = {}
    BY DEF Init, Active
  <2>2. QED
    BY <2>1, FS_EmptySet, CapAssumption DEF CapOK
<1>2. TypeOK /\ CapOK /\ [Next]_vars => CapOK'
  <2> SUFFICES ASSUME TypeOK, CapOK, [Next]_vars PROVE CapOK'
    OBVIOUS
  <2>1. IsFiniteSet(Active) /\ Cardinality(Active) \in Nat
    BY JobsAssumption, FS_Subset, FS_CardinalityType DEF Active
  <2>2. CASE Active' \subseteq Active
    BY <2>1, <2>2, FS_Subset, FS_CardinalityType, CapAssumption DEF CapOK
  <2>3. ASSUME NEW j \in Jobs, Reserve(j), Active' \subseteq Active \union {j}
        PROVE CapOK'
    <3>1. /\ IsFiniteSet(Active \union {j})
          /\ Cardinality(Active \union {j}) <= Cardinality(Active) + 1
      BY <2>1, FS_AddElement
    <3>2. /\ IsFiniteSet(Active')
          /\ Cardinality(Active') <= Cardinality(Active \union {j})
      BY <3>1, <2>3, FS_Subset
    <3>3. Cardinality(Active') \in Nat /\ Cardinality(Active \union {j}) \in Nat
      BY <3>1, <3>2, FS_CardinalityType
    <3>4. Cardinality(Active) < Cap
      BY <2>3 DEF Reserve, Room
    <3>5. QED
      BY <2>1, <3>1, <3>2, <3>3, <3>4, CapAssumption DEF CapOK
  <2>4. QED
    BY <2>2, <2>3, ActiveStep
<1>3. QED
  BY <1>1, <1>2, TypeCorrect, PTL DEF Spec

-----------------------------------------------------------------------------
\* What is given back was committed: a job's cost is added to the spend when
\* it starts to occupy and taken off at most once when it stops, so that the
\* spend covers what still occupies.  The truncation at zero never bites.
THEOREM ActiveCoveredCorrect == Spec => []ActiveCovered
<1> DEFINE Sum(S) == SumFunctionOnSet(Cost, S)
<1>1. /\ Sum({}) = 0
      /\ \A S \in SUBSET Jobs : IsFiniteSet(S) /\ Sum(S) \in Nat
      /\ \A S \in SUBSET Jobs : \A x \in S : Sum(S) = Cost[x] + Sum(S \ {x})
  <2>1. \A S \in SUBSET Jobs : IsFiniteSet(S) /\ \A x \in S : Cost[x] \in Nat
    BY JobsAssumption, CostAssumption, FS_Subset
  <2>2. QED
    BY <2>1, FS_EmptySet, SumUnrolled, SumRemove
<1> HIDE DEF Sum
<1>2. /\ ActiveCovered <=> Sum(Active) <= spent
      /\ ActiveCovered' <=> Sum(Active') <= spent'
  BY DEF Sum, ActiveCovered
<1>3. Init => ActiveCovered
  <2> SUFFICES ASSUME Init PROVE Sum(Active) <= spent
    BY <1>2
  <2>1. Active = {}
    BY DEF Init, Active
  <2>2. QED
    BY <1>1, <2>1 DEF Init
<1>4. TypeOK /\ ActiveCovered /\ [Next]_vars => ActiveCovered'
  <2> SUFFICES ASSUME TypeOK, Sum(Active) <= spent, [Next]_vars
               PROVE Sum(Active') <= spent'
    BY <1>2
  <2>1. /\ Active \in SUBSET Jobs /\ Active' \in SUBSET Jobs /\ spent \in Nat
        /\ \A j \in Jobs : Cost[j] \in Nat
    BY CostAssumption DEF Active, TypeOK
  <2>2. ASSUME NEW j \in Jobs, Reserve(j) PROVE Sum(Active') <= spent'
    <3>1. j \in Active' /\ Active' \ {j} = Active
      BY <2>2 DEF Reserve, Active, TypeOK
    <3>2. Sum(Active') = Cost[j] + Sum(Active)
      BY <1>1, <2>1, <3>1
    <3>3. QED
      BY <1>1, <2>1, <2>2, <3>2 DEF Reserve
  <2>3. ASSUME NEW j \in Jobs, Rollback(j) \/ Requeue(j) PROVE Sum(Active') <= spent'
    <3>1. j \in Active /\ Active' = Active \ {j}
      BY <2>3 DEF Rollback, Requeue, Active, TypeOK
    <3>2. Sum(Active) = Cost[j] + Sum(Active')
      BY <1>1, <2>1, <3>1
    <3>3. spent' = Void(j)
      BY <2>3 DEF Rollback, Requeue
    <3>4. QED
      BY <1>1, <2>1, <3>2, <3>3 DEF Void
  <2>4. ASSUME NEW j \in Jobs, Finish(j) \/ Cancel(j) PROVE Sum(Active') <= spent'
    <3>1. Active' = Active \/ (j \in Active /\ Active' = Active \ {j})
      BY <2>4 DEF Finish, Cancel, Active, TypeOK
    <3>2. j \in Active => Sum(Active) = Cost[j] + Sum(Active \ {j})
      BY <1>1, <2>1
    <3>3. Sum(Active') \in Nat /\ Sum(Active) \in Nat
      BY <1>1, <2>1
    <3>4. spent' = spent
      BY <2>4 DEF Finish, Cancel
    <3>5. CASE Active' = Active
      BY <3>4, <3>5
    <3>6. CASE j \in Active /\ Active' = Active \ {j}
      <4>1. Sum(Active) = Cost[j] + Sum(Active') /\ Cost[j] \in Nat
        BY <2>1, <3>2, <3>6
      <4>2. QED
        BY <2>1, <3>3, <3>4, <4>1
    <3>7. QED
      BY <3>1, <3>5, <3>6
  <2>5. ASSUME NEW j \in Jobs, Submit(j) \/ Activate(j) \/ FailQueued(j) \/ Retry(j)
        PROVE Active' = Active /\ spent' = spent
    BY <2>5 DEF Submit, Activate, FailQueued, Retry, Active, TypeOK
  <2>6. ASSUME NEW j \in Jobs, Provision(j) \/ Capture(j) \/ Reap(j) \/ ReleaseLost(j)
        PROVE Active' = Active /\ spent' = spent
    BY <2>6 DEF Provision, Capture, Reap, ReleaseLost, Active
  <2>7. ASSUME UNCHANGED vars PROVE Active' = Active /\ spent' = spent
    BY <2>7 DEF vars, Active
  <2>8. QED
    BY <2>2, <2>3, <2>4, <2>5, <2>6, <2>7 DEF Next
<1>5. QED
  BY <1>3, <1>4, TypeCorrect, PTL DEF Spec

\* The accounts, together: commits stay within the budget, what occupies is
\* covered by what is committed, and there are no more placements than room.
THEOREM AccountsCorrect == Spec => []Accounts
  BY BudgetCorrect, ActiveCoveredCorrect, CapCorrect, PTL DEF Accounts

-----------------------------------------------------------------------------
(* The folds over a job's events.                                          *)

\* What a job is in the checker's model, whether a resource is open and the
\* artifacts captured, and what a provider is shown.
Models == [st : {"none", "queued", "placing", "placed"} \cup Finished, captured : BOOLEAN,
           ext : BOOLEAN, ok : BOOLEAN]
Exts == [open : BOOLEAN, captured : BOOLEAN]
Views == [bound : Providers \cup {None}, known : BOOLEAN, line : Seq(Ops)]

Events == [seq : Nat, op : Ops, prov : Providers \cup {None}]

\* The operations, by name.
LEMMA OpsNamed ==
  Ops = {"submit", "reserve", "hold", "unhold", "fail", "provision", "activate", "rollback",
         "finish", "flunk", "dead", "cancel", "capture", "reap", "release", "requeue", "retry",
         "reprioritize"}
  BY DEF Ops, From

\* Every operation leads a job of the model to one.
LEMMA ReplayStepType ==
  ASSUME NEW s \in Models, NEW a \in Ops
  PROVE  ReplayStep(s, a) \in Models
<1>1. s.ok \in BOOLEAN /\ s.captured \in BOOLEAN /\ s.ext \in BOOLEAN
      /\ s.st \in {"none", "queued", "placing", "placed"} \cup Finished
  BY DEF Models
<1>2. Permits(s, a) \in BOOLEAN
  BY DEF Permits
<1>3. ModelState(Into(a, s.st)) \in {"none", "queued", "placing", "placed"} \cup Finished
  BY OpsNamed, <1>1 DEF ModelState, Into, Finished
<1>4. (s.ok /\ Permits(s, a)) \in BOOLEAN /\ (s.ok /\ s.st = "none") \in BOOLEAN
  BY <1>1, <1>2
<1> HIDE DEF Permits, ModelState, Into
<1>5. CASE a = "submit"
  BY <1>4, <1>5 DEF ReplayStep, Fresh, Models
<1>6. CASE a = "retry"
  BY <1>1, <1>6 DEF ReplayStep, Fresh, Models
<1>7. CASE a # "submit" /\ a # "retry"
  BY <1>1, <1>3, <1>4, <1>7 DEF ReplayStep, Models
<1>8. QED
  BY <1>5, <1>6, <1>7

\* How Replay is computed.
ReplayRow(t, s, S) ==
    IF S = {} THEN Unsubmitted ELSE ReplayStep(t[S \ {Max(S)}], s[Max(S)])
IsReplay(t, s) == t = [S \in SUBSET DOMAIN s |-> ReplayRow(t, s, S)]

\* The table of the replays of a sequence of operations.
LEMMA ReplayTable ==
  ASSUME NEW s \in Seq(Ops)
  PROVE  \E t \in [SUBSET (1..Len(s)) -> Models] : IsReplay(t, s) /\ Replay(s) = t[1..Len(s)]
<1> DEFINE n == Len(s)
           g == [c \in Models \X (1..n) |-> ReplayStep(c[1], s[c[2]])]
<1>0. n \in Nat /\ DOMAIN s = 1..n /\ \A i \in 1..n : s[i] \in Ops
  OBVIOUS
<1> HIDE DEF n
<1>1. Unsubmitted \in Models
  BY DEF Unsubmitted, Models
<1>2. g \in [Models \X (1..n) -> Models]
  BY <1>0, ReplayStepType
<1>3. PICK u \in [SUBSET (1..n) -> Models] : IsFold(u, g, Unsubmitted, n)
  <2> HIDE DEF g
  <2>1. QED
    BY <1>0, <1>1, <1>2, FoldTableExists
<1>4. ASSUME NEW S \in SUBSET (1..n) PROVE u[S] = ReplayRow(u, s, S)
  <2>1. CASE S = {}
    BY <1>3, <2>1 DEF IsFold, FoldRow, ReplayRow
  <2>2. CASE S # {}
    <3>1. Max(S) \in 1..n
      BY <1>0, <2>2, MaxOf
    <3>2. <<u[S \ {Max(S)}], Max(S)>> \in Models \X (1..n)
      BY <3>1
    <3>3. g[<<u[S \ {Max(S)}], Max(S)>>] = ReplayStep(u[S \ {Max(S)}], s[Max(S)])
      BY <3>2
    <3>4. QED
      BY <1>3, <2>2, <3>3 DEF IsFold, FoldRow, ReplayRow
  <2>3. QED
    BY <2>1, <2>2
<1>5. IsReplay(u, s)
  BY <1>0, <1>4 DEF IsReplay
<1> DEFINE t == CHOOSE v : IsReplay(v, s)
<1>6. IsReplay(t, s)
  BY <1>5
<1>7. Replay(s) = t[1..n]
  BY <1>0 DEF Replay, FoldLeft, MapThenFoldSet, IsReplay, ReplayRow
<1> HIDE DEF t, g
<1>8. \A S \in SUBSET (1..n) : t[S] = ReplayRow(t, s, S)
  BY <1>0, <1>6 DEF IsReplay
<1>9. \A S \in SUBSET (1..n) : u[S] = t[S]
  <2>1. u[{}] = t[{}]
    BY <1>4, <1>8 DEF ReplayRow
  <2>2. ASSUME NEW S \in SUBSET (1..n), S # {}, u[S \ {Max(S)}] = t[S \ {Max(S)}] PROVE u[S] = t[S]
    BY <1>4, <1>8, <2>2 DEF ReplayRow
  <2>3. GoOnAlike(u, t, n)
    BY <2>1, <2>2 DEF GoOnAlike
  <2>4. n \in Nat
    BY <1>0
  <2>5. QED
    BY <2>3, <2>4, FoldsAgree
<1>10. QED
  BY <1>0, <1>5, <1>7, <1>9 DEF n

\* Replaying one more operation is one more step.
LEMMA ReplayAppend ==
  ASSUME NEW s \in Seq(Ops), NEW a \in Ops
  PROVE  /\ Replay(s) \in Models
         /\ Replay(Append(s, a)) = ReplayStep(Replay(s), a)
<1> DEFINE n == Len(s)
           r == Append(s, a)
<1>1. /\ n \in Nat /\ r \in Seq(Ops) /\ Len(r) = n + 1 /\ DOMAIN s = 1..n /\ DOMAIN r = 1..(n + 1)
      /\ r[n + 1] = a /\ \A i \in 1..n : r[i] = s[i]
  OBVIOUS
<1> HIDE DEF n, r
<1>2. PICK t \in [SUBSET (1..n) -> Models] : IsReplay(t, s) /\ Replay(s) = t[1..n]
  BY ReplayTable DEF n
<1>3. PICK u \in [SUBSET (1..(n + 1)) -> Models] : IsReplay(u, r) /\ Replay(r) = u[1..(n + 1)]
  BY <1>1, ReplayTable
<1>4. \A S \in SUBSET (1..n) : t[S] = ReplayRow(t, s, S)
  BY <1>1, <1>2 DEF IsReplay
<1>5. \A S \in SUBSET (1..(n + 1)) : u[S] = ReplayRow(u, r, S)
  BY <1>1, <1>3 DEF IsReplay
<1>6. \A S \in SUBSET (1..n) : S \in SUBSET (1..(n + 1))
  BY <1>1
<1>7. \A S \in SUBSET (1..n) : t[S] = u[S]
  <2>1. t[{}] = u[{}]
    BY <1>4, <1>5 DEF ReplayRow
  <2>2. ASSUME NEW S \in SUBSET (1..n), S # {}, t[S \ {Max(S)}] = u[S \ {Max(S)}] PROVE t[S] = u[S]
    <3>1. s[Max(S)] = r[Max(S)]
      BY <1>1, <2>2, MaxOf
    <3>2. QED
      BY <1>4, <1>5, <1>6, <2>2, <3>1 DEF ReplayRow
  <2>3. GoOnAlike(t, u, n)
    BY <2>1, <2>2 DEF GoOnAlike
  <2>4. n \in Nat
    BY <1>1
  <2>5. QED
    BY <2>3, <2>4, FoldsAgree, ZenonT(40)
<1>8. Max(1..(n + 1)) = n + 1 /\ (1..(n + 1)) \ {n + 1} = 1..n /\ 1..(n + 1) # {}
  <2>1. n \in Nat
    BY <1>1
  <2> DEFINE m == n + 1
  <2>2. Max(1..m) = m /\ (1..m) \ {m} = 1..n
    <3>1. m \in Nat \ {0} /\ m - 1 = n
      BY <2>1
    <3> HIDE DEF m
    <3>2. Max(1..m) = m /\ (1..m) \ {m} = 1..(m - 1)
      BY <3>1, MaxOfInterval
    <3>3. QED
      BY <3>1, <3>2
  <2>3. 1..m # {}
    <3>1. m \in 1..m
      BY <2>1
    <3>2. QED
      BY <3>1
  <2>4. QED
    BY <2>2, <2>3
<1>9. u[1..(n + 1)] = ReplayStep(u[1..n], a)
  BY <1>1, <1>5, <1>8 DEF ReplayRow
<1>10. u[1..n] = t[1..n]
  BY <1>7
<1>11. t[1..n] \in Models
  <2>1. 1..n \in SUBSET (1..n)
    OBVIOUS
  <2>2. QED
    BY <2>1
<1>12. QED
  BY <1>2, <1>3, <1>9, <1>10, <1>11 DEF r

\* Nothing replayed is a job not submitted yet.
LEMMA ReplayNothing == Replay(<<>>) = Unsubmitted
<1> DEFINE s == <<>>
<1>1. s \in Seq(Ops) /\ 1..Len(s) = {} /\ DOMAIN s = {}
  OBVIOUS
<1> HIDE DEF s
<1>2. PICK t \in [SUBSET (1..Len(s)) -> Models] : IsReplay(t, s) /\ Replay(s) = t[1..Len(s)]
  BY <1>1, ReplayTable
<1>3. QED
  BY <1>1, <1>2 DEF IsReplay, ReplayRow, s

\* Every operation leaves the fold in its set.
LEMMA ExtStepType ==
  ASSUME NEW s \in Exts, NEW a \in Ops
  PROVE  ExtStep(s, a) \in Exts
  BY DEF ExtStep, Exts, Closed

\* How FoldExt is computed.
ExtRow(t, s, S) ==
    IF S = {} THEN Closed ELSE ExtStep(t[S \ {Max(S)}], s[Max(S)])
IsExt(t, s) == t = [S \in SUBSET DOMAIN s |-> ExtRow(t, s, S)]

\* The table of what a sequence of operations leaves open.
LEMMA ExtTable ==
  ASSUME NEW s \in Seq(Ops)
  PROVE  \E t \in [SUBSET (1..Len(s)) -> Exts] : IsExt(t, s) /\ FoldExt(s) = t[1..Len(s)]
<1> DEFINE n == Len(s)
           g == [c \in Exts \X (1..n) |-> ExtStep(c[1], s[c[2]])]
<1>0. n \in Nat /\ DOMAIN s = 1..n /\ \A i \in 1..n : s[i] \in Ops
  OBVIOUS
<1> HIDE DEF n
<1>1. Closed \in Exts
  BY DEF Closed, Exts
<1>2. g \in [Exts \X (1..n) -> Exts]
  BY <1>0, ExtStepType
<1>3. PICK u \in [SUBSET (1..n) -> Exts] : IsFold(u, g, Closed, n)
  <2> HIDE DEF g
  <2>1. QED
    BY <1>0, <1>1, <1>2, FoldTableExists
<1>4. ASSUME NEW S \in SUBSET (1..n) PROVE u[S] = ExtRow(u, s, S)
  <2>1. CASE S = {}
    BY <1>3, <2>1 DEF IsFold, FoldRow, ExtRow
  <2>2. CASE S # {}
    <3>1. Max(S) \in 1..n
      BY <1>0, <2>2, MaxOf
    <3>2. <<u[S \ {Max(S)}], Max(S)>> \in Exts \X (1..n)
      BY <3>1
    <3>3. g[<<u[S \ {Max(S)}], Max(S)>>] = ExtStep(u[S \ {Max(S)}], s[Max(S)])
      BY <3>2
    <3>4. QED
      BY <1>3, <2>2, <3>3 DEF IsFold, FoldRow, ExtRow
  <2>3. QED
    BY <2>1, <2>2
<1>5. IsExt(u, s)
  BY <1>0, <1>4 DEF IsExt
<1> DEFINE t == CHOOSE v : IsExt(v, s)
<1>6. IsExt(t, s)
  BY <1>5
<1>7. FoldExt(s) = t[1..n]
  BY <1>0 DEF FoldExt, FoldLeft, MapThenFoldSet, IsExt, ExtRow
<1> HIDE DEF t, g
<1>8. \A S \in SUBSET (1..n) : t[S] = ExtRow(t, s, S)
  BY <1>0, <1>6 DEF IsExt
<1>9. \A S \in SUBSET (1..n) : u[S] = t[S]
  <2>1. u[{}] = t[{}]
    BY <1>4, <1>8 DEF ExtRow
  <2>2. ASSUME NEW S \in SUBSET (1..n), S # {}, u[S \ {Max(S)}] = t[S \ {Max(S)}] PROVE u[S] = t[S]
    BY <1>4, <1>8, <2>2 DEF ExtRow
  <2>3. GoOnAlike(u, t, n)
    BY <2>1, <2>2 DEF GoOnAlike
  <2>4. n \in Nat
    BY <1>0
  <2>5. QED
    BY <2>3, <2>4, FoldsAgree
<1>10. QED
  BY <1>0, <1>5, <1>7, <1>9 DEF n

\* One more operation is one more step.
LEMMA ExtAppend ==
  ASSUME NEW s \in Seq(Ops), NEW a \in Ops
  PROVE  /\ FoldExt(s) \in Exts
         /\ FoldExt(Append(s, a)) = ExtStep(FoldExt(s), a)
<1> DEFINE n == Len(s)
           r == Append(s, a)
<1>1. /\ n \in Nat /\ r \in Seq(Ops) /\ Len(r) = n + 1 /\ DOMAIN s = 1..n /\ DOMAIN r = 1..(n + 1)
      /\ r[n + 1] = a /\ \A i \in 1..n : r[i] = s[i]
  OBVIOUS
<1> HIDE DEF n, r
<1>2. PICK t \in [SUBSET (1..n) -> Exts] : IsExt(t, s) /\ FoldExt(s) = t[1..n]
  BY ExtTable DEF n
<1>3. PICK u \in [SUBSET (1..(n + 1)) -> Exts] : IsExt(u, r) /\ FoldExt(r) = u[1..(n + 1)]
  BY <1>1, ExtTable
<1>4. \A S \in SUBSET (1..n) : t[S] = ExtRow(t, s, S)
  BY <1>1, <1>2 DEF IsExt
<1>5. \A S \in SUBSET (1..(n + 1)) : u[S] = ExtRow(u, r, S)
  BY <1>1, <1>3 DEF IsExt
<1>6. \A S \in SUBSET (1..n) : S \in SUBSET (1..(n + 1))
  BY <1>1
<1>7. \A S \in SUBSET (1..n) : t[S] = u[S]
  <2>1. t[{}] = u[{}]
    BY <1>4, <1>5 DEF ExtRow
  <2>2. ASSUME NEW S \in SUBSET (1..n), S # {}, t[S \ {Max(S)}] = u[S \ {Max(S)}] PROVE t[S] = u[S]
    <3>1. s[Max(S)] = r[Max(S)]
      BY <1>1, <2>2, MaxOf
    <3>2. QED
      BY <1>4, <1>5, <1>6, <2>2, <3>1 DEF ExtRow
  <2>3. GoOnAlike(t, u, n)
    BY <2>1, <2>2 DEF GoOnAlike
  <2>4. n \in Nat
    BY <1>1
  <2>5. QED
    BY <2>3, <2>4, FoldsAgree, ZenonT(40)
<1>8. Max(1..(n + 1)) = n + 1 /\ (1..(n + 1)) \ {n + 1} = 1..n /\ 1..(n + 1) # {}
  <2>1. n \in Nat
    BY <1>1
  <2> DEFINE m == n + 1
  <2>2. Max(1..m) = m /\ (1..m) \ {m} = 1..n
    <3>1. m \in Nat \ {0} /\ m - 1 = n
      BY <2>1
    <3> HIDE DEF m
    <3>2. Max(1..m) = m /\ (1..m) \ {m} = 1..(m - 1)
      BY <3>1, MaxOfInterval
    <3>3. QED
      BY <3>1, <3>2
  <2>3. 1..m # {}
    <3>1. m \in 1..m
      BY <2>1
    <3>2. QED
      BY <3>1
  <2>4. QED
    BY <2>2, <2>3
<1>9. u[1..(n + 1)] = ExtStep(u[1..n], a)
  BY <1>1, <1>5, <1>8 DEF ExtRow
<1>10. u[1..n] = t[1..n]
  BY <1>7
<1>11. t[1..n] \in Exts
  <2>1. 1..n \in SUBSET (1..n)
    OBVIOUS
  <2>2. QED
    BY <2>1
<1>12. QED
  BY <1>2, <1>3, <1>9, <1>10, <1>11 DEF r

\* Before the first operation nothing is open.
LEMMA ExtNothing == FoldExt(<<>>) = Closed
<1> DEFINE s == <<>>
<1>1. s \in Seq(Ops) /\ 1..Len(s) = {} /\ DOMAIN s = {}
  OBVIOUS
<1> HIDE DEF s
<1>2. PICK t \in [SUBSET (1..Len(s)) -> Exts] : IsExt(t, s) /\ FoldExt(s) = t[1..Len(s)]
  BY <1>1, ExtTable
<1>3. QED
  BY <1>1, <1>2 DEF IsExt, ExtRow, s

\* Every event leaves what a provider is shown in its set.
LEMMA TraceStepType ==
  ASSUME NEW p, NEW t \in Views, NEW e \in Events
  PROVE  TraceStep(t, e, p) \in Views
<1>1. /\ t.bound \in Providers \cup {None} /\ t.known \in BOOLEAN /\ t.line \in Seq(Ops)
      /\ e.op \in Ops /\ e.prov \in Providers \cup {None} /\ "submit" \in Ops
  BY OpsNamed DEF Views, Events
<1>2. CASE e.op = "retry"
  BY <1>2 DEF TraceStep, Renewed, Unknown, Views
<1>3. CASE e.op = "submit"
  BY <1>1, <1>3 DEF TraceStep
<1>4. CASE e.op \notin {"retry", "submit"}
  <2> DEFINE bound == IF e.op = "reserve" THEN e.prov ELSE t.bound
             more == IF bound # p THEN <<>> ELSE IF t.known THEN <<e.op>> ELSE <<"submit", e.op>>
  <2>1. bound \in Providers \cup {None} /\ more \in Seq(Ops)
    BY <1>1
  <2>2. TraceStep(t, e, p) = [bound |-> IF e.op \in {"rollback", "requeue"} THEN None ELSE bound,
                              known |-> t.known \/ bound = p, line |-> t.line \o more]
    BY <1>4 DEF TraceStep
  <2> HIDE DEF bound, more
  <2>3. (t.known \/ bound = p) \in BOOLEAN /\ t.line \o more \in Seq(Ops)
    BY <1>1, <2>1
  <2>4. QED
    BY <2>1, <2>2, <2>3 DEF Views
<1>5. QED
  BY <1>2, <1>3, <1>4

\* How Trace is computed.
TraceRow(t, s, p, S) ==
    IF S = {} THEN Unknown ELSE TraceStep(t[S \ {Max(S)}], s[Max(S)], p)
IsTrace(t, s, p) == t = [S \in SUBSET DOMAIN s |-> TraceRow(t, s, p, S)]

\* The table of what a provider is shown of a sequence of events.
LEMMA TraceTable ==
  ASSUME NEW p, NEW s \in Seq(Events)
  PROVE  \E t \in [SUBSET (1..Len(s)) -> Views] : IsTrace(t, s, p) /\ Trace(s, p) = t[1..Len(s)]
<1> DEFINE n == Len(s)
           g == [c \in Views \X (1..n) |-> TraceStep(c[1], s[c[2]], p)]
<1>0. n \in Nat /\ DOMAIN s = 1..n /\ \A i \in 1..n : s[i] \in Events
  OBVIOUS
<1> HIDE DEF n
<1>1. Unknown \in Views
  BY DEF Unknown, Views
<1>2. g \in [Views \X (1..n) -> Views]
  BY <1>0, TraceStepType
<1>3. PICK u \in [SUBSET (1..n) -> Views] : IsFold(u, g, Unknown, n)
  <2> HIDE DEF g
  <2>1. QED
    BY <1>0, <1>1, <1>2, FoldTableExists
<1>4. ASSUME NEW S \in SUBSET (1..n) PROVE u[S] = TraceRow(u, s, p, S)
  <2>1. CASE S = {}
    BY <1>3, <2>1 DEF IsFold, FoldRow, TraceRow
  <2>2. CASE S # {}
    <3>1. Max(S) \in 1..n
      BY <1>0, <2>2, MaxOf
    <3>2. <<u[S \ {Max(S)}], Max(S)>> \in Views \X (1..n)
      BY <3>1
    <3>3. g[<<u[S \ {Max(S)}], Max(S)>>] = TraceStep(u[S \ {Max(S)}], s[Max(S)], p)
      BY <3>2
    <3>4. QED
      BY <1>3, <2>2, <3>3 DEF IsFold, FoldRow, TraceRow
  <2>3. QED
    BY <2>1, <2>2
<1>5. IsTrace(u, s, p)
  BY <1>0, <1>4 DEF IsTrace
<1> DEFINE t == CHOOSE v : IsTrace(v, s, p)
<1>6. IsTrace(t, s, p)
  BY <1>5
<1>7. Trace(s, p) = t[1..n]
  BY <1>0 DEF Trace, FoldLeft, MapThenFoldSet, IsTrace, TraceRow
<1> HIDE DEF t, g
<1>8. \A S \in SUBSET (1..n) : t[S] = TraceRow(t, s, p, S)
  BY <1>0, <1>6 DEF IsTrace
<1>9. \A S \in SUBSET (1..n) : u[S] = t[S]
  <2>1. u[{}] = t[{}]
    BY <1>4, <1>8 DEF TraceRow
  <2>2. ASSUME NEW S \in SUBSET (1..n), S # {}, u[S \ {Max(S)}] = t[S \ {Max(S)}] PROVE u[S] = t[S]
    BY <1>4, <1>8, <2>2 DEF TraceRow
  <2>3. GoOnAlike(u, t, n)
    BY <2>1, <2>2 DEF GoOnAlike
  <2>4. n \in Nat
    BY <1>0
  <2>5. QED
    BY <2>3, <2>4, FoldsAgree, ZenonT(40)
<1>10. QED
  BY <1>0, <1>5, <1>7, <1>9 DEF n

\* One more event is one more step.
LEMMA TraceAppend ==
  ASSUME NEW p, NEW s \in Seq(Events), NEW a \in Events
  PROVE  /\ Trace(s, p) \in Views
         /\ Trace(Append(s, a), p) = TraceStep(Trace(s, p), a, p)
<1> DEFINE n == Len(s)
           r == Append(s, a)
<1>1. /\ n \in Nat /\ r \in Seq(Events) /\ Len(r) = n + 1 /\ DOMAIN s = 1..n /\ DOMAIN r = 1..(n + 1)
      /\ r[n + 1] = a /\ \A i \in 1..n : r[i] = s[i]
  OBVIOUS
<1> HIDE DEF n, r
<1>2. PICK t \in [SUBSET (1..n) -> Views] : IsTrace(t, s, p) /\ Trace(s, p) = t[1..n]
  BY TraceTable DEF n
<1>3. PICK u \in [SUBSET (1..(n + 1)) -> Views] : IsTrace(u, r, p) /\ Trace(r, p) = u[1..(n + 1)]
  <2>1. r \in Seq(Events) /\ 1..Len(r) = 1..(n + 1)
    BY <1>1
  <2>2. \E u \in [SUBSET (1..Len(r)) -> Views] : IsTrace(u, r, p) /\ Trace(r, p) = u[1..Len(r)]
    BY <2>1, TraceTable
  <2>3. QED
    BY <2>1, <2>2
<1>4. \A S \in SUBSET (1..n) : t[S] = TraceRow(t, s, p, S)
  BY <1>1, <1>2 DEF IsTrace
<1>5. \A S \in SUBSET (1..(n + 1)) : u[S] = TraceRow(u, r, p, S)
  BY <1>1, <1>3 DEF IsTrace
<1>6. \A S \in SUBSET (1..n) : S \in SUBSET (1..(n + 1))
  BY <1>1
<1>7. \A S \in SUBSET (1..n) : t[S] = u[S]
  <2>1. t[{}] = u[{}]
    BY <1>4, <1>5 DEF TraceRow
  <2>2. ASSUME NEW S \in SUBSET (1..n), S # {}, t[S \ {Max(S)}] = u[S \ {Max(S)}] PROVE t[S] = u[S]
    <3>1. s[Max(S)] = r[Max(S)]
      BY <1>1, <2>2, MaxOf
    <3>2. QED
      BY <1>4, <1>5, <1>6, <2>2, <3>1 DEF TraceRow
  <2>3. GoOnAlike(t, u, n)
    BY <2>1, <2>2 DEF GoOnAlike
  <2>4. n \in Nat
    BY <1>1
  <2>5. QED
    BY <2>3, <2>4, FoldsAgree, ZenonT(40)
<1>8. Max(1..(n + 1)) = n + 1 /\ (1..(n + 1)) \ {n + 1} = 1..n /\ 1..(n + 1) # {}
  <2>1. n \in Nat
    BY <1>1
  <2> DEFINE m == n + 1
  <2>2. Max(1..m) = m /\ (1..m) \ {m} = 1..n
    <3>1. m \in Nat \ {0} /\ m - 1 = n
      BY <2>1
    <3> HIDE DEF m
    <3>2. Max(1..m) = m /\ (1..m) \ {m} = 1..(m - 1)
      BY <3>1, MaxOfInterval
    <3>3. QED
      BY <3>1, <3>2
  <2>3. 1..m # {}
    <3>1. m \in 1..m
      BY <2>1
    <3>2. QED
      BY <3>1
  <2>4. QED
    BY <2>2, <2>3
<1>9. u[1..(n + 1)] = TraceStep(u[1..n], a, p)
  BY <1>1, <1>5, <1>8 DEF TraceRow
<1>10. u[1..n] = t[1..n]
  BY <1>7
<1>11. t[1..n] \in Views
  <2>1. 1..n \in SUBSET (1..n)
    OBVIOUS
  <2>2. QED
    BY <2>1
<1>12. QED
  BY <1>2, <1>3, <1>9, <1>10, <1>11 DEF r

\* Before the first event no provider knows of the job.
LEMMA TraceNothing == ASSUME NEW p PROVE Trace(<<>>, p) = Unknown
<1> DEFINE s == <<>>
<1>1. s \in Seq(Events) /\ 1..Len(s) = {} /\ DOMAIN s = {}
  OBVIOUS
<1> HIDE DEF s
<1>2. PICK t \in [SUBSET (1..Len(s)) -> Views] : IsTrace(t, s, p) /\ Trace(s, p) = t[1..Len(s)]
  BY <1>1, TraceTable
<1>3. QED
  BY <1>1, <1>2 DEF IsTrace, TraceRow, s

-----------------------------------------------------------------------------
(* One more event, and the story it belongs to.                            *)

\* What a call needs beside a state to start from: whether a resource is held,
\* and whether the artifacts were captured.
Legal(op, state, live, kept) ==
    /\ op \in {"provision", "rollback", "requeue", "retry"} => ~live
    /\ op \in {"activate", "release"} => live
    /\ op = "cancel" => state # "placing"
    /\ op \in {"reap", "release"} => kept

\* Whether a resource is held afterwards, and where the job is placed.
Holds(op, live) == op = "provision" \/ (live /\ op \notin {"reap", "release"})
Goes(op, p, prov) == CASE op = "reserve" -> p
                       [] op \in {"rollback", "requeue", "retry"} -> None
                       [] OTHER -> prov

\* What the checker's model says of a job in a state, with or without a resource.
Modelled(m, state, live) ==
    /\ m.ok /\ m.st = ModelState(state) /\ (m.ext <=> live)
    /\ state \in Pending => ~m.ext /\ ~m.captured
    /\ state = "placing" => ~m.captured

\* A job that waits is a fresh one.
LEMMA WaitsFresh ==
  ASSUME NEW m \in Models, NEW state, NEW live, Modelled(m, state, live), state \in Pending
  PROVE  m = Fresh(TRUE)
<1>1. m.ok = TRUE /\ m.st = "queued" /\ m.ext = FALSE /\ m.captured = FALSE
  BY DEF Modelled, Models, ModelState, Pending
<1>2. m = [st |-> m.st, captured |-> m.captured, ext |-> m.ext, ok |-> m.ok]
  BY DEF Models
<1>3. QED
  BY <1>1, <1>2 DEF Fresh

\* A legal operation is one the checker permits, and leads to what the record says.
LEMMA ModelStep ==
  ASSUME NEW m \in Models, NEW op \in Ops \ {"submit"}, NEW state \in From[op], NEW live \in BOOLEAN,
         Modelled(m, state, live), Legal(op, state, live, m.captured)
  PROVE  /\ Modelled(ReplayStep(m, op), Into(op, state), Holds(op, live))
         /\ ReplayStep(m, op).captured <=>
              op = "capture" \/ (m.captured /\ op \notin {"requeue", "retry"})
         /\ ReplayStep(m, op).ext <=> op = "provision" \/ (m.ext /\ op \notin {"reap", "release"})
         /\ ReplayStep(m, op) \in Models
<1> DEFINE r == ReplayStep(m, op)
<1>1. m.ok /\ m.st = ModelState(state) /\ (m.ext <=> live) /\ m.captured \in BOOLEAN /\ m.ext \in BOOLEAN
  BY DEF Modelled, Models
<1>2. /\ state \in Pending => ~m.ext /\ ~m.captured
      /\ state = "placing" => ~m.captured
  BY DEF Modelled
<1>3. r \in Models
  BY ReplayStepType
<1>4. CASE op = "retry"
  <2>1. r = Fresh(m.ok) /\ ~live /\ Into(op, state) = "queued"
    BY <1>4 DEF ReplayStep, Legal, Into
  <2>2. r.ok /\ r.st = "queued" /\ ~r.captured /\ ~r.ext
    BY <1>1, <2>1 DEF Fresh
  <2>3. Modelled(r, "queued", Holds(op, live))
    BY <1>4, <2>1, <2>2 DEF Modelled, ModelState, Holds
  <2>4. QED
    BY <1>1, <1>3, <1>4, <2>1, <2>2, <2>3 DEF Legal
<1>5. CASE op # "retry"
  <2>1. /\ r.st = ModelState(Into(op, m.st))
        /\ r.captured <=> op = "capture" \/ (m.captured /\ op # "requeue")
        /\ r.ext <=> op = "provision" \/ (m.ext /\ op \notin {"reap", "release"})
        /\ r.ok <=> m.ok /\ Permits(m, op)
    <3>1. op # "submit"
      OBVIOUS
    <3>2. r = [st |-> ModelState(Into(op, m.st)),
               captured |-> op = "capture" \/ (m.captured /\ op # "requeue"),
               ext |-> op = "provision" \/ (m.ext /\ op \notin {"reap", "release"}),
               ok |-> m.ok /\ Permits(m, op)]
      BY <1>5, <3>1 DEF ReplayStep
    <3> DEFINE w == op = "capture" \/ (m.captured /\ op # "requeue")
               h == op = "provision" \/ (m.ext /\ op \notin {"reap", "release"})
               g == m.ok /\ Permits(m, op)
               v == ModelState(Into(op, m.st))
    <3> HIDE DEF r, w, h, g, v
    <3>3. r = [st |-> v, captured |-> w, ext |-> h, ok |-> g]
      BY <3>2 DEF r, w, h, g, v
    <3>4. r.st = v /\ r.captured = w /\ r.ext = h /\ r.ok = g
      BY <3>3
    <3>5. (r.captured <=> w) /\ (r.ext <=> h) /\ (r.ok <=> g)
      BY <3>4
    <3>6. QED
      BY <3>4, <3>5 DEF w, h, g, v
  <2> HIDE DEF r
  <2>2. Permits(m, op)
    BY <1>1, <1>2, OpsNamed DEF Permits, Legal, From, ModelState, Pending, Finished
  <2>3. ModelState(Into(op, m.st)) = ModelState(Into(op, state))
    BY <1>1, OpsNamed DEF From, ModelState, Into, Pending, Finished
  <2>4. Into(op, state) \in Pending => ~r.ext /\ ~r.captured
    BY <1>1, <1>2, <1>5, <2>1, OpsNamed DEF From, Into, Legal, Pending, Finished
  <2>5. Into(op, state) = "placing" => ~r.captured
    BY <1>1, <1>2, <1>5, <2>1, OpsNamed DEF From, Into, Pending, Finished
  <2>6. Modelled(r, Into(op, state), Holds(op, live))
    BY <1>1, <2>1, <2>2, <2>3, <2>4, <2>5 DEF Modelled, Holds
  <2>7. QED
    BY <1>3, <1>5, <2>1, <2>6 DEF r
<1>6. QED
  BY <1>4, <1>5

\* What the fold of the migration keeps is what the model keeps.
LEMMA ExtFollows ==
  ASSUME NEW x \in Exts, NEW m \in Models, NEW r \in Models, NEW op \in Ops,
         x.open <=> m.ext, x.captured <=> m.captured,
         r.captured <=> op = "capture" \/ (m.captured /\ op \notin {"requeue", "retry"}),
         r.ext <=> op = "provision" \/ (m.ext /\ op \notin {"reap", "release"}),
         op = "retry" => ~m.ext
  PROVE  (ExtStep(x, op).open <=> r.ext) /\ (ExtStep(x, op).captured <=> r.captured)
<1>1. x = [open |-> x.open, captured |-> x.captured]
  BY DEF Exts
<1>2. CASE op = "retry"
  BY <1>2 DEF ExtStep, Closed
<1>3. CASE op = "provision"
  BY <1>1, <1>3 DEF ExtStep, Exts
<1>4. CASE op \in {"reap", "release"}
  BY <1>1, <1>4 DEF ExtStep, Exts
<1>5. CASE op = "capture"
  BY <1>1, <1>5 DEF ExtStep, Exts
<1>6. CASE op = "requeue"
  BY <1>1, <1>6 DEF ExtStep, Exts
<1>7. CASE op \notin {"retry", "provision", "reap", "release", "capture", "requeue"}
  BY <1>7 DEF ExtStep
<1>8. QED
  BY <1>2, <1>3, <1>4, <1>5, <1>6, <1>7

\* What a provider is shown of a job: nothing before its first placement
\* there; while the job is placed there all of its story, and otherwise a
\* story that ended with the job back in the pool.
ShownTo(p, events, prov) ==
    LET t == Trace(events, p)
    IN  /\ t.bound = prov
        /\ ~t.known => t.line = <<>> /\ prov # p
        /\ t.known /\ prov # p => Replay(t.line) = Fresh(TRUE)
        /\ prov = p => t.known /\ Replay(t.line) = Replay(Actions(events))

\* The actions of one more event.
LEMMA ActionsAppend ==
  ASSUME NEW events \in Seq(Events), NEW e \in Events
  PROVE  /\ Actions(events) \in Seq(Ops) /\ Len(Actions(events)) = Len(events)
         /\ Actions(Append(events, e)) = Append(Actions(events), e.op)
<1>1. /\ Len(events) \in Nat /\ DOMAIN events = 1..Len(events)
      /\ \A i \in 1..Len(events) : events[i].op \in Ops
      /\ e.op \in Ops
  <2>1. \A i \in DOMAIN events : events[i] \in Events
    OBVIOUS
  <2>2. \A f \in Events : f.op \in Ops
    BY DEF Events
  <2>3. Len(events) \in Nat /\ DOMAIN events = 1..Len(events)
    OBVIOUS
  <2>4. QED
    BY <2>1, <2>2, <2>3
<1>2. Actions(events) \in Seq(Ops) /\ Len(Actions(events)) = Len(events)
  <2> DEFINE a == [i \in 1..Len(events) |-> events[i].op]
  <2>1. a \in [1..Len(events) -> Ops]
    BY <1>1
  <2>2. a \in Seq(Ops) /\ Len(a) = Len(events)
    BY <1>1, <2>1, IsASeq, LenProperties
  <2>3. QED
    BY <1>1, <2>2 DEF Actions
<1>3. Actions(Append(events, e)) = Append(Actions(events), e.op)
  <2> DEFINE more == Append(events, e)
  <2>1. /\ DOMAIN more = 1..(Len(events) + 1) /\ more[Len(events) + 1] = e
        /\ \A i \in 1..Len(events) : more[i] = events[i]
    BY <1>1
  <2> HIDE DEF more
  <2> DEFINE b == Append(Actions(events), e.op)
  <2>2. /\ DOMAIN b = 1..(Len(events) + 1) /\ b[Len(events) + 1] = e.op
        /\ \A i \in 1..Len(events) : b[i] = Actions(events)[i]
        /\ b = [i \in DOMAIN b |-> b[i]]
    BY <1>1, <1>2
  <2> HIDE DEF b
  <2>3. \A i \in 1..Len(events) : Actions(events)[i] = events[i].op
    BY <1>1 DEF Actions
  <2>4. \A i \in 1..(Len(events) + 1) : more[i].op = b[i]
    <3> SUFFICES ASSUME NEW i \in 1..(Len(events) + 1) PROVE more[i].op = b[i]
      OBVIOUS
    <3>1. CASE i = Len(events) + 1
      BY <2>1, <2>2, <3>1
    <3>2. CASE i \in 1..Len(events)
      BY <2>1, <2>2, <2>3, <3>2
    <3>3. QED
      BY <1>1, <3>1, <3>2
  <2>5. [i \in DOMAIN more |-> more[i].op] = [i \in DOMAIN b |-> b[i]]
    BY <2>1, <2>2, <2>4
  <2>6. QED
    BY <2>2, <2>5 DEF Actions, more, b
<1>4. QED
  BY <1>2, <1>3

\* What one more event adds to what a provider is shown.
BoundBy(t, e) == IF e.op = "reserve" THEN e.prov ELSE t.bound

Grows(t, r, e, p) ==
    /\ r.bound = (IF e.op \in {"rollback", "requeue"} THEN None ELSE BoundBy(t, e))
    /\ r.known <=> t.known \/ BoundBy(t, e) = p
    /\ BoundBy(t, e) # p => r.line = t.line
    /\ BoundBy(t, e) = p /\ t.known => Replay(r.line) = ReplayStep(Replay(t.line), e.op)
    /\ BoundBy(t, e) = p /\ t.line = <<>> /\ ~t.known =>
         Replay(r.line) = ReplayStep(Fresh(TRUE), e.op)

LEMMA LineStep ==
  ASSUME NEW p, NEW t \in Views, NEW e \in Events, e.op \notin {"retry", "submit"}
  PROVE  Grows(t, TraceStep(t, e, p), e, p)
<1> DEFINE bound == BoundBy(t, e)
<1> DEFINE r == TraceStep(t, e, p)
<1>1. /\ t.known \in BOOLEAN /\ t.line \in Seq(Ops) /\ e.op \in Ops /\ "submit" \in Ops
  BY OpsNamed DEF Views, Events
<1>2. r = [bound |-> IF e.op \in {"rollback", "requeue"} THEN None ELSE bound,
           known |-> t.known \/ bound = p,
           line |-> t.line \o (IF bound # p THEN <<>>
                               ELSE IF t.known THEN <<e.op>> ELSE <<"submit", e.op>>)]
  BY DEF TraceStep, BoundBy
<1> HIDE DEF r, bound
<1>3. r.bound = (IF e.op \in {"rollback", "requeue"} THEN None ELSE bound)
  BY <1>2
<1>4. r.known <=> t.known \/ bound = p
  BY <1>2
<1>5. bound # p => r.line = t.line
  <2>1. bound # p => r.line = t.line \o <<>>
    BY <1>2
  <2>2. QED
    BY <1>1, <2>1, ConcatEmptySeq
<1>6. ASSUME bound = p, t.known PROVE Replay(r.line) = ReplayStep(Replay(t.line), e.op)
  <2>1. r.line = t.line \o <<e.op>>
    BY <1>2, <1>6
  <2>2. t.line \o <<e.op>> = Append(t.line, e.op)
    BY <1>1, AppendIsConcat
  <2>3. QED
    BY <1>1, <2>1, <2>2, ReplayAppend
<1>7. ASSUME bound = p, t.line = <<>>, ~t.known PROVE Replay(r.line) = ReplayStep(Fresh(TRUE), e.op)
  <2>1. r.line = <<>> \o <<"submit", e.op>>
    BY <1>2, <1>7
  <2>2. <<>> \o <<"submit", e.op>> = Append(Append(<<>>, "submit"), e.op)
    OBVIOUS
  <2>3. <<>> \in Seq(Ops) /\ Append(<<>>, "submit") \in Seq(Ops)
    BY <1>1
  <2>4. Replay(Append(<<>>, "submit")) = ReplayStep(Unsubmitted, "submit")
    BY <1>1, <2>3, ReplayAppend, ReplayNothing
  <2>5. ReplayStep(Unsubmitted, "submit") = Fresh(TRUE)
    BY DEF ReplayStep, Unsubmitted, Fresh
  <2>6. Replay(Append(Append(<<>>, "submit"), e.op)) = ReplayStep(Replay(Append(<<>>, "submit")), e.op)
    BY <1>1, <2>3, ReplayAppend
  <2>7. QED
    BY <2>1, <2>2, <2>4, <2>5, <2>6
<1>8. QED
  BY <1>3, <1>4, <1>5, <1>6, <1>7 DEF r, bound, Grows

\* One more event leaves what a provider is shown in step with the whole story.
LEMMA ShownStep ==
  ASSUME NEW p \in Providers, NEW events \in Seq(Events), NEW e \in Events, e.op # "submit", NEW prov,
         ShownTo(p, events, prov),
         e.op = "reserve" => prov = None /\ Replay(Actions(events)) = Fresh(TRUE),
         e.op \in {"rollback", "requeue"} => ReplayStep(Replay(Actions(events)), e.op) = Fresh(TRUE)
  PROVE  ShownTo(p, Append(events, e), Goes(e.op, e.prov, prov))
<1> DEFINE t == Trace(events, p)
           r == Trace(Append(events, e), p)
           m == Replay(Actions(events))
           n == Replay(Actions(Append(events, e)))
           bound == BoundBy(t, e)
           next == Goes(e.op, e.prov, prov)
<1>0. p # None /\ e.op \in Ops /\ t \in Views /\ r = TraceStep(t, e, p) /\ n = ReplayStep(m, e.op)
  BY StoreAssumption, TraceAppend, ActionsAppend, ReplayAppend DEF Events
<1>1. /\ t.bound = prov
      /\ ~t.known => t.line = <<>> /\ prov # p
      /\ t.known /\ prov # p => Replay(t.line) = Fresh(TRUE)
      /\ prov = p => t.known /\ Replay(t.line) = m
  BY DEF ShownTo
<1> HIDE DEF t, r, m, n
<1>2. CASE e.op = "retry"
  <2>1. r = Unknown /\ next = None
    BY <1>0, <1>2 DEF TraceStep, Renewed, Goes
  <2>2. r.bound = next /\ ~r.known /\ r.line = <<>> /\ next # p
    BY <1>0, <2>1 DEF Unknown
  <2>3. QED
    BY <2>2 DEF ShownTo, r
<1>3. CASE e.op # "retry"
  <2>1. /\ r.bound = (IF e.op \in {"rollback", "requeue"} THEN None ELSE bound)
        /\ r.known <=> t.known \/ bound = p
        /\ bound # p => r.line = t.line
        /\ bound = p /\ t.known => Replay(r.line) = ReplayStep(Replay(t.line), e.op)
        /\ bound = p /\ t.line = <<>> /\ ~t.known => Replay(r.line) = ReplayStep(Fresh(TRUE), e.op)
    <3> HIDE DEF bound
    <3>1. e.op \notin {"retry", "submit"} /\ t \in Views
      BY <1>0, <1>3
    <3>2. Grows(t, TraceStep(t, e, p), e, p)
      BY <3>1, LineStep
    <3>3. QED
      BY <1>0, <3>2 DEF Grows, bound
  <2>2. next = (IF e.op \in {"rollback", "requeue"} THEN None ELSE bound)
    BY <1>1, <1>3 DEF Goes, BoundBy
  <2>3. e.op = "reserve" => prov = None /\ m = Fresh(TRUE)
    BY DEF m
  <2>4. e.op \in {"rollback", "requeue"} => n = Fresh(TRUE)
    BY <1>0 DEF m
  <2> HIDE DEF next
  <2>5. CASE bound # p
    <3>1. prov # p
      BY <1>0, <1>1, <2>3, <2>5 DEF BoundBy
    <3>2. next # p
      BY <1>0, <2>2, <2>5
    <3>3. r.known => Replay(r.line) = Fresh(TRUE)
      BY <1>1, <2>1, <2>5, <3>1
    <3>4. ~r.known => r.line = <<>>
      BY <1>1, <2>1, <2>5
    <3>5. QED
      BY <2>1, <2>2, <3>2, <3>3, <3>4 DEF ShownTo, r, next
  <2>6. CASE bound = p
    <3>1. r.known
      BY <2>1, <2>6
    <3>2. Replay(r.line) = n
      <4>1. CASE e.op = "reserve"
        <5>1. prov # p
          BY <1>0, <2>3, <4>1
        <5>2. CASE t.known
          BY <1>0, <1>1, <2>1, <2>3, <2>6, <4>1, <5>1, <5>2
        <5>3. CASE ~t.known
          BY <1>0, <1>1, <2>1, <2>3, <2>6, <4>1, <5>3
        <5>4. QED
          BY <5>2, <5>3
      <4>2. CASE e.op # "reserve"
        <5>1. prov = p
          BY <1>1, <2>6, <4>2 DEF BoundBy
        <5>2. QED
          BY <1>0, <1>1, <2>1, <2>6, <5>1
      <4>3. QED
        BY <4>1, <4>2
    <3>3. next # p => e.op \in {"rollback", "requeue"}
      BY <2>2, <2>6
    <3>4. QED
      BY <2>1, <2>2, <2>4, <3>1, <3>2, <3>3 DEF ShownTo, r, n, next
  <2>7. QED
    BY <2>5, <2>6
<1>4. QED
  BY <1>2, <1>3

\* The story of a job, told by its events, its state and whether it holds a resource.
Kept(events) == Replay(Actions(events)).captured

Story(events, state, prov, live) ==
    LET m == Replay(Actions(events))
    IN  /\ Modelled(m, state, live)
        /\ state \in Pending => prov = None
        /\ FoldExt(Actions(events)).open <=> m.ext
        /\ FoldExt(Actions(events)).captured <=> m.captured
        /\ \A p \in Providers : ShownTo(p, events, prov)

\* A job submitted.
LEMMA StorySubmit ==
  ASSUME NEW e \in Events, e.op = "submit"
  PROVE  /\ Story(Append(<<>>, e), "queued", None, FALSE)
         /\ ~Kept(Append(<<>>, e))
<1> DEFINE none == <<>>
           events == Append(none, e)
<1>1. none \in Seq(Events) /\ none \in Seq(Ops) /\ "submit" \in Ops /\ Actions(none) = <<>>
  BY OpsNamed DEF Actions
<1> HIDE DEF none
<1>2. Actions(events) = Append(Actions(none), "submit")
  BY <1>1, ActionsAppend
<1>3. Replay(Actions(events)) = Fresh(TRUE)
  <2>1. Replay(Actions(events)) = ReplayStep(Unsubmitted, "submit")
    BY <1>1, <1>2, ReplayAppend, ReplayNothing DEF none
  <2>2. QED
    BY <2>1 DEF ReplayStep, Unsubmitted, Fresh
<1>4. FoldExt(Actions(events)) = Closed
  <2>1. FoldExt(Actions(events)) = ExtStep(Closed, "submit")
    BY <1>1, <1>2, ExtAppend, ExtNothing DEF none
  <2>2. QED
    BY <2>1 DEF ExtStep
<1>5. ASSUME NEW p \in Providers PROVE ShownTo(p, events, None)
  <2>1. Trace(events, p) = TraceStep(Unknown, e, p)
    BY <1>1, TraceAppend, TraceNothing DEF none
  <2>2. Trace(events, p) = Unknown
    BY <2>1 DEF TraceStep
  <2>3. QED
    BY <2>2, StoreAssumption DEF ShownTo, Unknown
<1>6. Modelled(Fresh(TRUE), "queued", FALSE) /\ ~Fresh(TRUE).captured /\ ~Fresh(TRUE).ext
  BY DEF Modelled, Fresh, ModelState
<1>7. ~Closed.open /\ ~Closed.captured
  BY DEF Closed
<1> HIDE DEF events
<1>8. Story(events, "queued", None, FALSE)
  BY <1>3, <1>4, <1>5, <1>6, <1>7 DEF Story
<1>9. ~Kept(events)
  BY <1>3, <1>6 DEF Kept
<1>10. QED
  BY <1>8, <1>9 DEF events, none

\* A job found new has the empty story.
LEMMA StoryNew == Story(<<>>, "none", None, FALSE)
<1>1. Actions(<<>>) = <<>>
  BY DEF Actions
<1>2. Replay(Actions(<<>>)) = Unsubmitted /\ FoldExt(Actions(<<>>)) = Closed
  BY <1>1, ReplayNothing, ExtNothing
<1> DEFINE none == <<>>
<1>3. ASSUME NEW p \in Providers PROVE ShownTo(p, none, None)
  <2>1. Trace(none, p) = Unknown /\ None # p
    BY TraceNothing, StoreAssumption
  <2> HIDE DEF none
  <2>2. QED
    BY <2>1 DEF ShownTo, Unknown
<1>4. Modelled(Unsubmitted, "none", FALSE) /\ "none" \notin Pending
  BY DEF Modelled, Unsubmitted, ModelState, Pending
<1>5. ~Closed.open /\ ~Closed.captured /\ ~Unsubmitted.ext /\ ~Unsubmitted.captured
  BY DEF Closed, Unsubmitted
<1> HIDE DEF none
<1>6. Replay(Actions(none)) = Unsubmitted /\ FoldExt(Actions(none)) = Closed
  BY <1>2 DEF none
<1>7. Story(none, "none", None, FALSE)
  BY <1>3, <1>4, <1>5, <1>6 DEF Story
<1>8. QED
  BY <1>7 DEF none

\* How a story goes on.
GoesOn(events, e, state, prov, live) ==
    /\ Story(Append(events, e), Into(e.op, state), Goes(e.op, e.prov, prov), Holds(e.op, live))
    /\ Kept(Append(events, e)) <=>
         e.op = "capture" \/ (Kept(events) /\ e.op \notin {"requeue", "retry"})

\* Every legal operation carries the story on.
LEMMA StoryStep ==
  ASSUME NEW events \in Seq(Events), NEW e \in Events, e.op # "submit",
         NEW state \in From[e.op], NEW prov, NEW live \in BOOLEAN,
         Story(events, state, prov, live), Legal(e.op, state, live, Kept(events))
  PROVE  GoesOn(events, e, state, prov, live)
<1> DEFINE op == e.op
           m == Replay(Actions(events))
           r == Replay(Actions(Append(events, e)))
           x == FoldExt(Actions(events))
           y == FoldExt(Actions(Append(events, e)))
<1>1. op \in Ops /\ op \in Ops \ {"submit"}
  BY DEF Events
<1>2. m \in Models /\ x \in Exts /\ r = ReplayStep(m, op) /\ y = ExtStep(x, op)
  BY ActionsAppend, ReplayAppend, ExtAppend, <1>1
<1>3. /\ Modelled(m, state, live) /\ (state \in Pending => prov = None)
      /\ x.open <=> m.ext
      /\ x.captured <=> m.captured
      /\ \A p \in Providers : ShownTo(p, events, prov)
  BY DEF Story
<1>4. Legal(op, state, live, m.captured)
  BY DEF Kept
<1> HIDE DEF m, r, x, y, op
<1>5. /\ Modelled(r, Into(op, state), Holds(op, live))
      /\ r.captured <=> op = "capture" \/ (m.captured /\ op \notin {"requeue", "retry"})
      /\ r.ext <=> op = "provision" \/ (m.ext /\ op \notin {"reap", "release"})
      /\ r \in Models
  <2>1. state \in From[op]
    BY DEF op
  <2>2. QED
    BY <1>1, <1>2, <1>3, <1>4, <2>1, ModelStep
<1>6. op = "retry" => ~m.ext
  BY <1>3, <1>4 DEF Legal, Modelled
<1>7. (y.open <=> r.ext) /\ (y.captured <=> r.captured)
  BY <1>1, <1>2, <1>3, <1>5, <1>6, ExtFollows
<1>8. op = "reserve" => prov = None /\ m = Fresh(TRUE)
  <2>1. op = "reserve" => state \in Pending
    BY DEF From, op
  <2>2. QED
    BY <1>2, <1>3, <2>1, WaitsFresh
<1>9. op \in {"rollback", "requeue"} => r = Fresh(TRUE)
  <2>1. op \in {"rollback", "requeue"} => Into(op, state) \in Pending
    BY DEF Into, Pending
  <2>2. QED
    BY <1>5, <2>1, WaitsFresh
<1>10. ASSUME NEW p \in Providers PROVE ShownTo(p, Append(events, e), Goes(op, e.prov, prov))
  BY <1>1, <1>2, <1>3, <1>8, <1>9, ShownStep DEF op, m, r
<1>11. Into(op, state) \in Pending => Goes(op, e.prov, prov) = None
  <2>1. state \in From[op]
    BY DEF op
  <2>2. QED
    BY <1>1, <1>3, <2>1, OpsNamed DEF From, Into, Goes, Pending, Finished
<1>12. Story(Append(events, e), Into(op, state), Goes(op, e.prov, prov), Holds(op, live))
  BY <1>5, <1>7, <1>10, <1>11 DEF Story, r, y
<1>13. QED
  BY <1>5, <1>12 DEF GoesOn, Kept, op, m, r

-----------------------------------------------------------------------------
(* The histories a migration writes.                                       *)

\* Where an event that a migration writes says the job went.
Where(op, l) == IF op = "reserve" THEN l.prov ELSE None

\* What a migration writes is numbered on from the token.
LEMMA WrittenType ==
  ASSUME NEW a \in Seq(Ops), NEW seq \in Nat, NEW l \in Life
  PROVE  /\ Written(a, seq, l) \in Seq(Events) /\ Len(Written(a, seq, l)) = Len(a)
         /\ \A i \in 1..Len(a) : Written(a, seq, l)[i] = Event(seq + i, a[i], Where(a[i], l))
<1>1. Len(a) \in Nat /\ DOMAIN a = 1..Len(a) /\ \A i \in 1..Len(a) : a[i] \in Ops /\ i \in Nat
  OBVIOUS
<1>2. l.prov \in Providers \cup {None}
  BY DEF Life
<1> DEFINE w == Written(a, seq, l)
<1>3. w = [i \in 1..Len(a) |-> Event(seq + i, a[i], Where(a[i], l))]
  BY <1>1 DEF Written, Where
<1> HIDE DEF w
<1>4. \A i \in 1..Len(a) : w[i] = Event(seq + i, a[i], Where(a[i], l)) /\ w[i] \in Events
  <2> TAKE i \in 1..Len(a)
  <2>1. a[i] \in Ops /\ seq + i \in Nat /\ Where(a[i], l) \in Providers \cup {None}
    BY <1>1, <1>2 DEF Where
  <2>2. QED
    BY <1>3, <2>1 DEF Event, Events
<1>5. w \in [1..Len(a) -> Events]
  BY <1>3, <1>4
<1>6. w \in Seq(Events) /\ Len(w) = Len(a)
  BY <1>1, <1>5, IsASeq, LenProperties
<1>7. QED
  BY <1>4, <1>6 DEF w

\* One action more is one event more.
LEMMA WrittenAppend ==
  ASSUME NEW a \in Seq(Ops), NEW x \in Ops, NEW seq \in Nat, NEW l \in Life
  PROVE  /\ Event(seq + Len(a) + 1, x, Where(x, l)) \in Events
         /\ Written(Append(a, x), seq, l) = Append(Written(a, seq, l), Event(seq + Len(a) + 1, x, Where(x, l)))
<1> DEFINE e == Event(seq + Len(a) + 1, x, Where(x, l))
           b == Append(a, x)
           w == Written(a, seq, l)
           v == Written(b, seq, l)
           u == Append(w, e)
           n == Len(a)
<1>1. /\ n \in Nat /\ b \in Seq(Ops) /\ Len(b) = n + 1 /\ b[n + 1] = x
      /\ \A i \in 1..n : b[i] = a[i] /\ i \in 1..(n + 1)
  OBVIOUS
<1>2. e \in Events
  <2>1. l.prov \in Providers \cup {None} /\ seq + Len(a) + 1 \in Nat
    BY <1>1 DEF Life
  <2>2. QED
    BY <2>1 DEF Event, Events, Where
<1>3. /\ w \in Seq(Events) /\ Len(w) = n
      /\ \A i \in 1..n : w[i] = Event(seq + i, a[i], Where(a[i], l))
  BY WrittenType
<1> HIDE DEF b, w
<1>4. /\ v \in Seq(Events) /\ Len(v) = n + 1
      /\ \A i \in 1..(n + 1) : v[i] = Event(seq + i, b[i], Where(b[i], l))
  <2>1. /\ v \in Seq(Events) /\ Len(v) = Len(b)
        /\ \A i \in 1..Len(b) : v[i] = Event(seq + i, b[i], Where(b[i], l))
    BY <1>1, WrittenType
  <2>2. QED
    BY <1>1, <2>1
<1> HIDE DEF v, e
<1>5. /\ u \in Seq(Events) /\ Len(u) = n + 1 /\ u[n + 1] = e
      /\ \A i \in 1..n : u[i] = w[i]
  BY <1>1, <1>2, <1>3
<1> HIDE DEF u
<1>6. ASSUME NEW i \in 1..(n + 1) PROVE v[i] = u[i]
  <2>1. CASE i = n + 1
    <3>1. n + 1 \in 1..(n + 1) /\ seq + (n + 1) = seq + n + 1
      BY <1>1
    <3>2. v[n + 1] = Event(seq + (n + 1), x, Where(x, l))
      BY <1>1, <1>4, <3>1
    <3>3. QED
      BY <1>5, <2>1, <3>1, <3>2 DEF e
  <2>2. CASE i \in 1..n
    BY <1>1, <1>3, <1>4, <1>5, <2>2
  <2>3. QED
    BY <1>1, <2>1, <2>2
<1>7. v = u
  BY <1>4, <1>5, <1>6, SeqEqual
<1>8. QED
  BY <1>2, <1>7 DEF v, u, w, b, e

\* A story told by a history, and one action more of it.
Told(a, l, state, prov, live, kept) ==
    /\ Story(Written(a, 0, l), state, prov, live)
    /\ Kept(Written(a, 0, l)) <=> kept

\* A legal action carries a history on.
LEMMA ToldStep ==
  ASSUME NEW a \in Seq(Ops), NEW x \in Ops, x # "submit", NEW l \in Life, NEW state \in From[x], NEW prov,
         NEW live \in BOOLEAN, NEW kept \in BOOLEAN,
         Told(a, l, state, prov, live, kept), Legal(x, state, live, kept)
  PROVE  /\ Append(a, x) \in Seq(Ops)
         /\ Told(Append(a, x), l, Into(x, state), Goes(x, Where(x, l), prov), Holds(x, live),
                 x = "capture" \/ (kept /\ x \notin {"requeue", "retry"}))
<1> DEFINE zero == 0
           w == Written(a, zero, l)
           e == Event(zero + Len(a) + 1, x, Where(x, l))
<1>1. w \in Seq(Events) /\ e \in Events /\ Written(Append(a, x), zero, l) = Append(w, e)
  <2>1. zero \in Nat
    OBVIOUS
  <2> HIDE DEF zero
  <2>2. QED
    BY <2>1, WrittenType, WrittenAppend
<1>2. e.op = x /\ e.prov = Where(x, l)
  BY DEF Event
<1>3. Story(w, state, prov, live) /\ (Kept(w) <=> kept)
  BY DEF Told
<1> HIDE DEF w, e, zero
<1>4. Legal(x, state, live, Kept(w))
  BY <1>3 DEF Legal
<1>5. /\ Story(Append(w, e), Into(x, state), Goes(x, Where(x, l), prov), Holds(x, live))
      /\ Kept(Append(w, e)) <=> x = "capture" \/ (Kept(w) /\ x \notin {"requeue", "retry"})
  <2>1. e.op # "submit" /\ state \in From[e.op] /\ Legal(e.op, state, live, Kept(w))
    BY <1>2, <1>4
  <2>2. GoesOn(w, e, state, prov, live)
    BY <1>1, <1>3, <2>1, StoryStep
  <2>3. QED
    BY <1>2, <2>2 DEF GoesOn
<1>6. Append(a, x) \in Seq(Ops)
  OBVIOUS
<1>7. QED
  BY <1>1, <1>3, <1>5, <1>6 DEF Told, zero

\* The histories of a job submitted, and of one placed.
LEMMA PlacedTold ==
  ASSUME NEW l \in Life
  PROVE  /\ <<"submit">> \in Seq(Ops) /\ Told(<<"submit">>, l, "queued", None, FALSE, FALSE)
         /\ Placed \in Seq(Ops) /\ Told(Placed, l, "running", l.prov, TRUE, FALSE)
<1>1. "submit" \in Ops /\ "reserve" \in Ops /\ "provision" \in Ops /\ "activate" \in Ops
  BY OpsNamed
<1> DEFINE a == <<"submit">>
           b == Append(a, "reserve")
           c == Append(b, "provision")
           d == Append(c, "activate")
<1>2. a \in Seq(Ops) /\ d = Placed
  <2>1. a \in Seq(Ops) /\ Len(a) = 1 /\ a[1] = "submit"
    BY <1>1
  <2>2. b \in Seq(Ops) /\ Len(b) = 2 /\ b[1] = "submit" /\ b[2] = "reserve"
    <3> HIDE DEF a
    <3>1. a \in Seq(Ops) /\ "reserve" \in Ops
      BY <1>1, <2>1
    <3>2. /\ b \in Seq(Ops) /\ Len(b) = Len(a) + 1 /\ b[Len(a) + 1] = "reserve"
          /\ \A i \in 1..Len(a) : b[i] = a[i]
      BY <3>1, AppendProperties
    <3> HIDE DEF b
    <3>3. QED
      BY <2>1, <3>2
  <2>3. c \in Seq(Ops) /\ Len(c) = 3 /\ c[1] = "submit" /\ c[2] = "reserve" /\ c[3] = "provision"
    <3> HIDE DEF b
    <3>1. b \in Seq(Ops) /\ "provision" \in Ops
      BY <1>1, <2>2
    <3>2. /\ c \in Seq(Ops) /\ Len(c) = Len(b) + 1 /\ c[Len(b) + 1] = "provision"
          /\ \A i \in 1..Len(b) : c[i] = b[i]
      BY <3>1, AppendProperties
    <3> HIDE DEF c
    <3>3. QED
      BY <2>2, <3>2
  <2>4. /\ d \in Seq(Ops) /\ Len(d) = 4
        /\ d[1] = "submit" /\ d[2] = "reserve" /\ d[3] = "provision" /\ d[4] = "activate"
    <3> HIDE DEF c
    <3>1. c \in Seq(Ops) /\ "activate" \in Ops
      BY <1>1, <2>3
    <3>2. /\ d \in Seq(Ops) /\ Len(d) = Len(c) + 1 /\ d[Len(c) + 1] = "activate"
          /\ \A i \in 1..Len(c) : d[i] = c[i]
      BY <3>1, AppendProperties
    <3> HIDE DEF d
    <3>3. QED
      BY <2>3, <3>2
  <2>5. /\ Placed \in Seq(Ops) /\ Len(Placed) = 4
        /\ Placed[1] = "submit" /\ Placed[2] = "reserve" /\ Placed[3] = "provision"
        /\ Placed[4] = "activate"
    BY <1>1 DEF Placed
  <2> HIDE DEF d
  <2>6. ASSUME NEW i \in 1..4 PROVE d[i] = Placed[i]
    <3>1. i = 1 \/ i = 2 \/ i = 3 \/ i = 4
      OBVIOUS
    <3>2. QED
      BY <2>4, <2>5, <3>1
  <2>7. d = Placed
    BY <2>4, <2>5, <2>6, SeqEqual
  <2>8. QED
    BY <2>1, <2>7
<1>3. Told(a, l, "queued", None, FALSE, FALSE)
  <2> DEFINE none == <<>>
             zero == 0
             e == Event(zero + Len(none) + 1, "submit", Where("submit", l))
  <2>1. none \in Seq(Ops) /\ zero \in Nat /\ a = Append(none, "submit") /\ Written(none, zero, l) = <<>>
    BY DEF Written
  <2>2. e.op = "submit"
    BY DEF Event
  <2>3. e \in Events /\ Written(Append(none, "submit"), zero, l) = Append(Written(none, zero, l), e)
    <3> HIDE DEF none, zero
    <3>1. QED
      BY <1>1, <2>1, WrittenAppend
  <2> HIDE DEF e, none, zero, a
  <2>4. Story(Append(<<>>, e), "queued", None, FALSE) /\ ~Kept(Append(<<>>, e))
    BY <2>2, <2>3, StorySubmit
  <2>5. Written(a, 0, l) = Append(<<>>, e)
    BY <2>1, <2>3 DEF zero
  <2>6. QED
    BY <2>4, <2>5 DEF Told
<1> HIDE DEF a
<1>4. b \in Seq(Ops) /\ Told(b, l, "placing", l.prov, FALSE, FALSE)
  <2>1. "queued" \in From["reserve"] /\ Legal("reserve", "queued", FALSE, FALSE)
    BY DEF From, Legal, Pending
  <2>2. /\ b \in Seq(Ops)
        /\ Told(b, l, Into("reserve", "queued"), Goes("reserve", Where("reserve", l), None),
                Holds("reserve", FALSE), "reserve" = "capture" \/ (FALSE /\ "reserve" \notin {"requeue", "retry"}))
    BY <1>1, <1>2, <1>3, <2>1, ToldStep
  <2>3. Into("reserve", "queued") = "placing" /\ Goes("reserve", Where("reserve", l), None) = l.prov
        /\ (Holds("reserve", FALSE) <=> FALSE)
    BY DEF Into, Goes, Where, Holds
  <2>4. QED
    BY <2>2, <2>3 DEF Told, Story, Modelled
<1> HIDE DEF b
<1>5. c \in Seq(Ops) /\ Told(c, l, "placing", l.prov, TRUE, FALSE)
  <2>1. "placing" \in From["provision"] /\ Legal("provision", "placing", FALSE, FALSE)
    BY DEF From, Legal
  <2>2. /\ c \in Seq(Ops)
        /\ Told(c, l, Into("provision", "placing"), Goes("provision", Where("provision", l), l.prov),
                Holds("provision", FALSE), "provision" = "capture" \/ (FALSE /\ "provision" \notin {"requeue", "retry"}))
    BY <1>1, <1>4, <2>1, ToldStep
  <2>3. Into("provision", "placing") = "placing" /\ Goes("provision", Where("provision", l), l.prov) = l.prov
        /\ (Holds("provision", FALSE) <=> TRUE)
    BY DEF Into, Goes, Where, Holds
  <2>4. QED
    BY <2>2, <2>3 DEF Told, Story, Modelled
<1> HIDE DEF c
<1>6. d \in Seq(Ops) /\ Told(d, l, "running", l.prov, TRUE, FALSE)
  <2>1. "placing" \in From["activate"] /\ Legal("activate", "placing", TRUE, FALSE)
    BY DEF From, Legal
  <2>2. /\ d \in Seq(Ops)
        /\ Told(d, l, Into("activate", "placing"), Goes("activate", Where("activate", l), l.prov),
                Holds("activate", TRUE), "activate" = "capture" \/ (FALSE /\ "activate" \notin {"requeue", "retry"}))
    BY <1>1, <1>5, <2>1, ToldStep
  <2>3. Into("activate", "placing") = "running" /\ Goes("activate", Where("activate", l), l.prov) = l.prov
        /\ (Holds("activate", TRUE) <=> TRUE)
    BY DEF Into, Goes, Where, Holds
  <2>4. QED
    BY <2>2, <2>3 DEF Told, Story, Modelled
<1> HIDE DEF d
<1>7. QED
  BY <1>2, <1>3, <1>6 DEF a

\* A job that ended was placed, unless it was cancelled while it waited.
WasPlaced(l) == ~(l.st = "cancelled" /\ l.prov = None)

\* The history of a job that ended, before its artifacts.
LEMMA EndTold ==
  ASSUME NEW l \in Life, l.st \in Finished
  PROVE  /\ Reached(l) \in Seq(Ops) /\ Reached(l) # <<>>
         /\ Told(Reached(l), l, l.st, l.prov, WasPlaced(l), FALSE)
         /\ Contains(Reached(l), "provision") <=> WasPlaced(l)
<1>1. l.st \in {"succeeded", "failed", "cancelled"}
  BY DEF Finished
<1>2. CASE ~WasPlaced(l)
  <2>1. Reached(l) = <<"submit", "cancel">> /\ l.st = "cancelled" /\ l.prov = None
    BY <1>2 DEF WasPlaced, Reached, Pending
  <2> DEFINE a == <<"submit">>
  <2>2. Reached(l) = Append(a, "cancel")
    BY <2>1
  <2>3. a \in Seq(Ops) /\ Told(a, l, "queued", None, FALSE, FALSE) /\ "cancel" \in Ops
    BY PlacedTold, OpsNamed
  <2> HIDE DEF a
  <2>4. "queued" \in From["cancel"] /\ Legal("cancel", "queued", FALSE, FALSE)
    BY DEF From, Legal, Pending
  <2>5. /\ Append(a, "cancel") \in Seq(Ops)
        /\ Told(Append(a, "cancel"), l, Into("cancel", "queued"), Goes("cancel", Where("cancel", l), None),
                Holds("cancel", FALSE), "cancel" = "capture" \/ (FALSE /\ "cancel" \notin {"requeue", "retry"}))
    BY <2>3, <2>4, ToldStep
  <2>6. Into("cancel", "queued") = "cancelled" /\ Goes("cancel", Where("cancel", l), None) = None
        /\ (Holds("cancel", FALSE) <=> FALSE)
    BY DEF Into, Goes, Holds
  <2>7. ~Contains(Reached(l), "provision") /\ Reached(l) # <<>>
    BY <2>1 DEF Contains
  <2>8. QED
    BY <1>2, <2>1, <2>2, <2>5, <2>6, <2>7 DEF Told, Story, Modelled
<1>3. CASE WasPlaced(l)
  <2> DEFINE x == Ended(l)
  <2>1. Reached(l) = Append(Placed, x)
    BY <1>1, <1>3 DEF WasPlaced, Reached, Pending
  <2>2. x \in {"cancel", "flunk", "finish"} /\ Into(x, "running") = l.st
    BY <1>1 DEF Ended, Into
  <2> HIDE DEF x
  <2>3. Placed \in Seq(Ops) /\ Told(Placed, l, "running", l.prov, TRUE, FALSE) /\ x \in Ops
    BY <2>2, PlacedTold, OpsNamed
  <2>4. "running" \in From[x] /\ Legal(x, "running", TRUE, FALSE)
    BY <2>2 DEF From, Legal
  <2>5. x # "submit"
    BY <2>2
  <2>6. /\ Append(Placed, x) \in Seq(Ops)
        /\ Told(Append(Placed, x), l, Into(x, "running"), Goes(x, Where(x, l), l.prov),
                Holds(x, TRUE), x = "capture" \/ (FALSE /\ x \notin {"requeue", "retry"}))
    BY <2>3, <2>4, <2>5, ToldStep
  <2>7. Goes(x, Where(x, l), l.prov) = l.prov /\ (Holds(x, TRUE) <=> TRUE) /\ x # "capture"
    BY <2>2 DEF Goes, Holds
  <2>8. Contains(Reached(l), "provision") /\ Reached(l) # <<>>
    <3>1. Len(Placed) = 4 /\ Placed[3] = "provision"
      BY DEF Placed
    <3>2. Len(Reached(l)) = 5 /\ Reached(l)[3] = "provision" /\ 3 \in 1..5
      BY <2>1, <2>3, <3>1
    <3>3. Reached(l) # <<>>
      BY <3>2
    <3>4. QED
      BY <3>2, <3>3 DEF Contains
  <2>9. QED
    BY <1>3, <2>1, <2>2, <2>6, <2>7, <2>8 DEF Told, Story, Modelled
<1>4. QED
  BY <1>2, <1>3

\* Closing what ended: captured, and then reaped.
LEMMA CloseTold ==
  ASSUME NEW a \in Seq(Ops), NEW l \in Life, NEW state \in Finished \cup {"running"}, NEW live \in BOOLEAN,
         NEW kept \in BOOLEAN, Told(a, l, state, l.prov, live, kept)
  PROVE  /\ a \o <<"capture">> \in Seq(Ops) /\ Told(a \o <<"capture">>, l, state, l.prov, live, TRUE)
         /\ state \in Finished =>
              /\ a \o <<"capture", "reap">> \in Seq(Ops)
              /\ Told(a \o <<"capture", "reap">>, l, state, l.prov, FALSE, TRUE)
<1>1. "capture" \in Ops /\ "reap" \in Ops
  BY OpsNamed
<1> DEFINE b == Append(a, "capture")
           c == Append(b, "reap")
<1>2. a \o <<"capture">> = b /\ a \o <<"capture", "reap">> = c
  OBVIOUS
<1>3. b \in Seq(Ops) /\ Told(b, l, state, l.prov, live, TRUE)
  <2>1. state \in From["capture"] /\ Legal("capture", state, live, kept)
    BY DEF From, Legal
  <2>2. /\ b \in Seq(Ops)
        /\ Told(b, l, Into("capture", state), Goes("capture", Where("capture", l), l.prov),
                Holds("capture", live), "capture" = "capture" \/ (kept /\ "capture" \notin {"requeue", "retry"}))
    BY <1>1, <2>1, ToldStep
  <2>3. Into("capture", state) = state /\ Goes("capture", Where("capture", l), l.prov) = l.prov
        /\ (Holds("capture", live) <=> live)
    BY DEF Into, Goes, Holds
  <2>4. QED
    BY <2>2, <2>3 DEF Told, Story, Modelled
<1> HIDE DEF b
<1>4. ASSUME state \in Finished PROVE c \in Seq(Ops) /\ Told(c, l, state, l.prov, FALSE, TRUE)
  <2>1. state \in From["reap"] /\ Legal("reap", state, live, TRUE)
    BY <1>4 DEF From, Legal
  <2>2. /\ c \in Seq(Ops)
        /\ Told(c, l, Into("reap", state), Goes("reap", Where("reap", l), l.prov),
                Holds("reap", live), "reap" = "capture" \/ (TRUE /\ "reap" \notin {"requeue", "retry"}))
    BY <1>1, <1>3, <2>1, ToldStep
  <2>3. Into("reap", state) = state /\ Goes("reap", Where("reap", l), l.prov) = l.prov
        /\ (Holds("reap", live) <=> FALSE)
    BY DEF Into, Goes, Holds
  <2>4. QED
    BY <2>2, <2>3 DEF Told, Story, Modelled
<1>5. QED
  BY <1>2, <1>3, <1>4

\* What the flags of a record add to its history.
LEMMA FlagsAre ==
  ASSUME NEW l \in Life
  PROVE  /\ ~l.cached /\ ~l.reaped => Flags(l) = <<>>
         /\ l.cached /\ ~l.reaped => Flags(l) = <<"capture">>
         /\ l.reaped /\ l.st \in Finished => Flags(l) = <<"capture", "reap">>
         /\ l.reaped /\ l.st \notin Finished => Flags(l) = <<"capture">>
<1>1. l.cached \in BOOLEAN /\ l.reaped \in BOOLEAN
  BY DEF Life
<1>2. <<>> \o <<>> = <<>> /\ <<"capture">> \o <<>> = <<"capture">>
      /\ <<"capture">> \o <<"reap">> = <<"capture", "reap">>
  <2>1. "capture" \in Ops /\ "reap" \in Ops
    BY OpsNamed
  <2> DEFINE a == <<"capture">>
             b == <<>>
  <2>2. a \in Seq(Ops) /\ b \in Seq(Ops)
    BY <2>1
  <2> DEFINE c == <<"capture", "reap">>
             d == Append(a, "reap")
  <2>3. d = c
    <3>1. c \in Seq(Ops)
      BY <2>1
    <3>2. Len(c) = 2 /\ c[1] = "capture" /\ c[2] = "reap"
      OBVIOUS
    <3>3. Len(a) = 1 /\ a[1] = "capture"
      OBVIOUS
    <3> HIDE DEF a, c
    <3>4. /\ d \in Seq(Ops) /\ Len(d) = Len(a) + 1 /\ d[Len(a) + 1] = "reap"
          /\ \A i \in 1..Len(a) : d[i] = a[i]
      BY <2>1, <2>2, AppendProperties
    <3> HIDE DEF d
    <3>5. Len(d) = 2 /\ d[1] = "capture" /\ d[2] = "reap"
      BY <3>3, <3>4
    <3>6. ASSUME NEW i \in 1..2 PROVE d[i] = c[i]
      <4>1. i = 1 \/ i = 2
        OBVIOUS
      <4>2. QED
        BY <3>2, <3>5, <4>1
    <3>7. QED
      BY <3>1, <3>2, <3>4, <3>5, <3>6, SeqEqual
  <2> HIDE DEF a, b, c
  <2>4. b \o <<>> = b /\ a \o <<>> = a
    BY <2>2, ConcatEmptySeq
  <2>5. a \o <<"reap">> = Append(a, "reap")
    BY <2>1, <2>2, AppendIsConcat
  <2>6. QED
    BY <2>3, <2>4, <2>5 DEF a, b, c
<1>3. ~l.cached /\ ~l.reaped => Flags(l) = <<>> \o <<>>
  BY DEF Flags
<1>4. l.cached /\ ~l.reaped => Flags(l) = <<"capture">> \o <<>>
  BY DEF Flags
<1>5. l.reaped /\ l.st \in Finished => Flags(l) = <<"capture">> \o <<"reap">>
  BY DEF Flags
<1>6. l.reaped /\ l.st \notin Finished => Flags(l) = <<"capture">> \o <<>>
  BY DEF Flags
<1>7. QED
  BY <1>2, <1>3, <1>4, <1>5, <1>6

\* The records an older release left behind.
LEMMA LegacyIs ==
  ASSUME NEW l \in Legacy
  PROVE  /\ l \in Life /\ ~l.edited
         /\ l.st \in {"queued", "placing", "running"} => ~l.reaped
         /\ l.st \in {"queued", "placing"} => ~l.cached
         /\ l.st = "queued" => l.prov = None
         /\ l.st \in {"placing", "running"} => l.prov # None
         /\ l.st \in {"queued", "placing", "running"} \cup Finished
<1>1. l \in Life /\ l.st \notin {"none", "held"}
  BY DEF Legacy
<1>2. l.st \in {"queued", "placing", "running"} \cup Finished
  BY <1>1 DEF Life, Pending
<1>3. QED
  BY <1>1, <1>2 DEF Legacy

\* Both releases reconstruct a history for every record.
LEMMA HistoryType ==
  ASSUME NEW l \in Legacy
  PROVE  /\ Reconstruction(l) \in Seq(Ops) /\ Reconstruction(l) # <<>>
         /\ FirstReconstruction(l) \in Seq(Ops) /\ FirstReconstruction(l) # <<>>
<1>1. l \in Life /\ l.st \in {"queued", "placing", "running"} \cup Finished
  BY LegacyIs
<1>2. Reached(l) \in Seq(Ops) /\ Reached(l) # <<>>
  <2>1. CASE l.st \in Finished
    BY <1>1, <2>1, EndTold
  <2>2. CASE l.st \in {"queued", "placing"}
    <3>1. Reached(l) = <<"submit">> \/ Reached(l) = <<"submit", "reserve">>
      BY <2>2 DEF Reached, Pending
    <3>2. "submit" \in Ops /\ "reserve" \in Ops
      BY OpsNamed
    <3>3. CASE Reached(l) = <<"submit">>
      BY <3>2, <3>3
    <3>4. CASE Reached(l) = <<"submit", "reserve">>
      BY <3>2, <3>4
    <3>5. QED
      BY <3>1, <3>3, <3>4
  <2>3. CASE l.st = "running"
    <3>1. Reached(l) = Placed
      BY <2>3 DEF Reached, Pending
    <3>2. Placed # <<>>
      BY DEF Placed
    <3>3. QED
      BY <1>1, <3>1, <3>2, PlacedTold
  <2>4. QED
    BY <1>1, <2>1, <2>2, <2>3
<1>3. ASSUME NEW more \in {<<>>, <<"capture">>, <<"capture", "reap">>}
      PROVE  Reached(l) \o more \in Seq(Ops) /\ Reached(l) \o more # <<>>
  <2> DEFINE a == Reached(l)
  <2> HIDE DEF a
  <2>1. a \in Seq(Ops) /\ a # <<>>
    BY <1>2 DEF a
  <2>2. more \in Seq(Ops)
    <3>1. "capture" \in Ops /\ "reap" \in Ops
      BY OpsNamed
    <3>2. CASE more = <<>>
      BY <3>2
    <3>3. CASE more = <<"capture">>
      BY <3>1, <3>3
    <3>4. CASE more = <<"capture", "reap">>
      BY <3>1, <3>4
    <3>5. QED
      BY <1>3, <3>2, <3>3, <3>4
  <2>3. a \o more \in Seq(Ops) /\ a \o more # <<>>
    <3> HIDE <1>3
    <3>1. /\ Len(a) \in Nat /\ Len(more) \in Nat /\ Len(a) # 0
          /\ a \o more \in Seq(Ops) /\ Len(a \o more) = Len(a) + Len(more)
      BY <2>1, <2>2
    <3>2. Len(a \o more) # 0
      BY <3>1
    <3>3. a \o more # <<>>
      BY <3>2
    <3>4. QED
      BY <3>1, <3>3
  <2>4. QED
    BY <2>3 DEF a
<1>4. Flags(l) \in {<<>>, <<"capture">>, <<"capture", "reap">>}
  <2>1. l.cached \in BOOLEAN /\ l.reaped \in BOOLEAN
    BY <1>1 DEF Life
  <2>2. QED
    BY <1>1, <2>1, FlagsAre
<1>5. \E more \in {<<>>, <<"capture">>, <<"capture", "reap">>} : Reconstruction(l) = Reached(l) \o more
  BY <1>4 DEF Reconstruction
<1>6. \E more \in {<<>>, <<"capture">>, <<"capture", "reap">>} : FirstReconstruction(l) = Reached(l) \o more
  BY <1>4 DEF FirstReconstruction
<1>7. QED
  BY <1>3, <1>5, <1>6

\* The history an upgrade gives a job that is not placed tells its story, and
\* leaves nothing open.
LEMMA Reconstructed ==
  ASSUME NEW l \in Legacy, l.st \notin {"placing", "running"}
  PROVE  \E kept \in BOOLEAN :
           Told(Reconstruction(l), l, l.st, l.prov, FALSE, kept) /\ (l.cached => kept)
<1>1. /\ l \in Life /\ l.st \in {"queued"} \cup Finished /\ l.cached \in BOOLEAN /\ l.reaped \in BOOLEAN
      /\ l.st = "queued" => l.prov = None /\ ~l.cached /\ ~l.reaped
  <2>1. l \in Life
    BY LegacyIs
  <2>2. QED
    BY <2>1, LegacyIs DEF Life
<1> DEFINE a == Reached(l)
<1>2. CASE l.st = "queued"
  <2>1. a = <<"submit">> /\ Reconstruction(l) = a \o <<>>
    BY <1>2 DEF Reached, Reconstruction, Pending, Finished
  <2>2. Reconstruction(l) = <<"submit">>
    BY <2>1
  <2>3. Told(Reconstruction(l), l, "queued", None, FALSE, FALSE)
    BY <1>1, <2>2, PlacedTold
  <2>4. QED
    BY <1>1, <1>2, <2>3
<1>3. CASE l.st \in Finished
  <2>1. /\ a \in Seq(Ops) /\ Told(a, l, l.st, l.prov, WasPlaced(l), FALSE)
        /\ Contains(a, "provision") <=> WasPlaced(l)
    BY <1>1, <1>3, EndTold
  <2>2. Reconstruction(l) = a \o (IF WasPlaced(l) THEN <<"capture", "reap">> ELSE Flags(l))
    BY <1>3, <2>1 DEF Reconstruction
  <2> HIDE DEF a
  <2>3. WasPlaced(l) \in BOOLEAN /\ FALSE \in BOOLEAN /\ l.st \in Finished \cup {"running"}
    BY <1>3 DEF WasPlaced
  <2>4. /\ Told(a \o <<"capture">>, l, l.st, l.prov, WasPlaced(l), TRUE)
        /\ Told(a \o <<"capture", "reap">>, l, l.st, l.prov, FALSE, TRUE)
    BY <1>1, <1>3, <2>1, <2>3, CloseTold
  <2>5. CASE WasPlaced(l)
    BY <2>2, <2>4, <2>5
  <2>6. CASE ~WasPlaced(l)
    <3>1. a \o <<>> = a
      BY <2>1
    <3>2. Told(a, l, l.st, l.prov, FALSE, FALSE) /\ Told(a \o <<"capture">>, l, l.st, l.prov, FALSE, TRUE)
      BY <2>1, <2>4, <2>6 DEF Told, Story, Modelled
    <3>3. CASE ~l.cached /\ ~l.reaped
      BY <1>1, <2>2, <2>6, <3>1, <3>2, <3>3, FlagsAre
    <3>4. CASE l.cached /\ ~l.reaped
      <4>1. Reconstruction(l) = a \o <<"capture">>
        BY <1>1, <2>2, <2>6, <3>4, FlagsAre
      <4>2. QED
        BY <3>2, <4>1
    <3>5. CASE l.reaped
      <4>1. Reconstruction(l) = a \o <<"capture", "reap">>
        BY <1>1, <1>3, <2>2, <2>6, <3>5, FlagsAre
      <4>2. QED
        BY <2>4, <4>1
    <3>6. QED
      BY <1>1, <3>3, <3>4, <3>5
  <2>7. QED
    BY <2>5, <2>6
<1>4. QED
  BY <1>1, <1>2, <1>3

\* The history the first release with a log gave a job tells its story; it is
\* open for a job that was placed and not reaped.
StillOpen(l) == l.st # "queued" /\ WasPlaced(l) /\ ~l.reaped

LEMMA FirstReconstructed ==
  ASSUME NEW l \in Legacy, l.st # "placing"
  PROVE  Told(FirstReconstruction(l), l, l.st, l.prov, StillOpen(l), l.cached \/ l.reaped)
<1>1. /\ l \in Life /\ l.st \in {"queued", "running"} \cup Finished
      /\ l.cached \in BOOLEAN /\ l.reaped \in BOOLEAN
      /\ l.st = "queued" => l.prov = None /\ ~l.cached /\ ~l.reaped
      /\ l.st = "running" => ~l.reaped
  <2>1. l \in Life
    BY LegacyIs
  <2>2. QED
    BY <2>1, LegacyIs DEF Life
<1> DEFINE a == Reached(l)
<1>2. CASE l.st = "queued"
  <2>1. a = <<"submit">> /\ FirstReconstruction(l) = a \o <<>>
    BY <1>2 DEF Reached, FirstReconstruction, Pending, Finished
  <2>2. FirstReconstruction(l) = <<"submit">>
    BY <2>1
  <2>3. Told(FirstReconstruction(l), l, "queued", None, FALSE, FALSE)
    BY <1>1, <2>2, PlacedTold
  <2>4. ~StillOpen(l) /\ ~(l.cached \/ l.reaped)
    BY <1>1, <1>2 DEF StillOpen
  <2>5. QED
    BY <1>1, <1>2, <2>3, <2>4 DEF Told, Story, Modelled
<1>3. CASE l.st \in Finished \cup {"running"}
  <2>1. a \in Seq(Ops) /\ Told(a, l, l.st, l.prov, WasPlaced(l), FALSE)
    <3>1. CASE l.st = "running"
      <4>1. a = Placed /\ WasPlaced(l)
        BY <3>1 DEF Reached, Pending, WasPlaced
      <4>2. Placed \in Seq(Ops) /\ Told(Placed, l, "running", l.prov, TRUE, FALSE)
        BY <1>1, PlacedTold
      <4>3. QED
        BY <3>1, <4>1, <4>2 DEF Told, Story, Modelled
    <3>2. CASE l.st \in Finished
      BY <1>1, <3>2, EndTold
    <3>3. QED
      BY <1>3, <3>1, <3>2
  <2>2. FirstReconstruction(l) = a \o Flags(l)
    BY <1>3 DEF FirstReconstruction
  <2> HIDE DEF a
  <2>3. WasPlaced(l) \in BOOLEAN /\ FALSE \in BOOLEAN
    BY DEF WasPlaced
  <2>4. /\ Told(a \o <<"capture">>, l, l.st, l.prov, WasPlaced(l), TRUE)
        /\ l.st \in Finished => Told(a \o <<"capture", "reap">>, l, l.st, l.prov, FALSE, TRUE)
    BY <1>1, <1>3, <2>1, <2>3, CloseTold
  <2>5. l.st # "queued"
    BY <1>3 DEF Finished
  <2>6. CASE ~l.cached /\ ~l.reaped
    <3>1. a \o <<>> = a /\ Flags(l) = <<>>
      BY <1>1, <2>1, <2>6, FlagsAre
    <3>2. FirstReconstruction(l) = a /\ (StillOpen(l) <=> WasPlaced(l))
      BY <2>2, <2>5, <2>6, <3>1 DEF StillOpen
    <3>3. QED
      BY <2>1, <2>6, <3>2 DEF Told, Story, Modelled
  <2>7. CASE l.cached /\ ~l.reaped
    <3>1. FirstReconstruction(l) = a \o <<"capture">> /\ (StillOpen(l) <=> WasPlaced(l))
      BY <1>1, <2>2, <2>5, <2>7, FlagsAre DEF StillOpen
    <3>2. QED
      BY <2>4, <2>7, <3>1 DEF Told, Story, Modelled
  <2>8. CASE l.reaped
    <3>1. l.st \in Finished /\ ~StillOpen(l)
      BY <1>1, <1>3, <2>8 DEF StillOpen
    <3>2. FirstReconstruction(l) = a \o <<"capture", "reap">>
      BY <1>1, <2>2, <2>8, <3>1, FlagsAre
    <3>3. QED
      BY <2>4, <2>8, <3>1, <3>2 DEF Told, Story, Modelled
  <2>9. QED
    BY <1>1, <2>6, <2>7, <2>8
<1>4. QED
  BY <1>1, <1>2, <1>3

-----------------------------------------------------------------------------
(* What holds of a job between the calls.                                  *)

\* The tokens number the events up to the row's.
Numbered(events, n) ==
    /\ events \in Seq(Events) /\ n = Len(events)
    /\ \A i \in 1..Len(events) : events[i].seq = i

\* A resource is held; the current placement provisioned one.
Alive(rs) == \E p \in Providers : rs[p] = "live"
Made(events) ==
    \E i \in DOMAIN events :
        /\ events[i].op = "provision"
        /\ \A k \in i..Len(events) : events[k].op # "reserve"

\* The events, the record and the resources of a job tell one story.
Tells(events, l, rs) ==
    /\ Story(events, l.st, l.prov, Alive(rs))
    /\ l.cached => Kept(events)
    /\ \A p \in Providers : rs[p] = "live" => l.prov = p
    /\ l.st = "placing" => l.prov # None /\ (Made(events) <=> Alive(rs))

\* A resource table: what each provider holds for a job.
Rows == [Providers -> {"none", "live", "released"}]

\* What a transition does to it.
Rented(op, p, rs) ==
    IF op = "provision" /\ p # None /\ ~Alive(rs) THEN [rs EXCEPT ![p] = "live"]
    ELSE IF op \in {"reap", "release"} /\ p # None /\ rs[p] = "live" THEN [rs EXCEPT ![p] = "released"]
    ELSE rs

\* What a caller has checked, of the record, the events and the resources.
Checked(op, l, made, live) ==
    CASE op = "submit" -> TRUE
      [] op = "provision" -> l.st = "placing" /\ ~made
      [] op = "activate" -> l.st = "placing" /\ made
      [] op = "rollback" -> l.st = "placing" /\ ~made
      [] op = "cancel" -> l.st \in Pending \cup {"running"}
      [] op = "capture" -> l.st \in From[op] /\ l.prov # None /\ ~l.cached
      [] op = "reap" -> l.st \in Finished /\ l.prov # None /\ l.cached /\ ~l.reaped
      [] op = "release" -> l.st = "running" /\ l.cached /\ live
      [] op = "requeue" -> l.st = "running" /\ l.cached /\ ~live
      [] op = "retry" -> l.st \in Finished /\ ~live
      [] OTHER -> l.st \in From[op]

\* What the checks say of the calls that are about more than the state.
LEMMA CheckedSays ==
  ASSUME NEW op \in Ops, NEW l \in Life, NEW made \in BOOLEAN, NEW live \in BOOLEAN
  PROVE  /\ op = "submit" => Checked(op, l, made, live)
         /\ op \in {"provision", "rollback"} => (Checked(op, l, made, live) <=> l.st = "placing" /\ ~made)
         /\ op = "activate" => (Checked(op, l, made, live) <=> l.st = "placing" /\ made)
         /\ op = "cancel" => (Checked(op, l, made, live) <=> l.st \in Pending \cup {"running"})
         /\ op = "reap" => (Checked(op, l, made, live) => l.cached)
         /\ op = "release" => (Checked(op, l, made, live) <=> l.st = "running" /\ l.cached /\ live)
         /\ op = "requeue" => (Checked(op, l, made, live) <=> l.st = "running" /\ l.cached /\ ~live)
         /\ op = "retry" => (Checked(op, l, made, live) <=> l.st \in Finished /\ ~live)
         /\ op \in {"reserve", "hold", "unhold", "fail", "finish", "flunk", "dead", "reprioritize"} =>
              (Checked(op, l, made, live) <=> l.st \in From[op])
  BY DEF Checked

\* One event more, numbered by the token after the row's.
LEMMA NumberedAppend ==
  ASSUME NEW events, NEW n \in Nat, Numbered(events, n), NEW op \in Ops, NEW p \in Providers \cup {None}
  PROVE  /\ Event(n + 1, op, p) \in Events
         /\ Numbered(Append(events, Event(n + 1, op, p)), n + 1)
         /\ Append(events, Event(n + 1, op, p)) # <<>>
<1> DEFINE e == Event(n + 1, op, p)
           more == Append(events, e)
<1>1. e \in Events /\ e.seq = n + 1
  BY DEF Event, Events
<1>2. /\ events \in Seq(Events) /\ n = Len(events)
      /\ \A i \in 1..n : events[i].seq = i
  BY DEF Numbered
<1> HIDE DEF e
<1>3. /\ more \in Seq(Events) /\ Len(more) = n + 1 /\ more[n + 1] = e
      /\ \A i \in 1..n : more[i] = events[i]
  BY <1>1, <1>2
<1> HIDE DEF more
<1>4. ASSUME NEW i \in 1..(n + 1) PROVE more[i].seq = i
  <2>1. CASE i = n + 1
    BY <1>1, <1>3, <2>1
  <2>2. CASE i \in 1..n
    BY <1>2, <1>3, <2>2
  <2>3. QED
    BY <2>1, <2>2
<1>5. more # <<>>
  BY <1>3
<1>6. Numbered(more, n + 1)
  BY <1>3, <1>4 DEF Numbered
<1>7. QED
  BY <1>1, <1>5, <1>6 DEF more, e

\* The history a migration writes for a job is numbered.
LEMMA NumberedWritten ==
  ASSUME NEW a \in Seq(Ops), NEW l \in Life
  PROVE  Numbered(Written(a, 0, l), Len(a)) /\ (Written(a, 0, l) = <<>> <=> a = <<>>)
<1> DEFINE zero == 0
           w == Written(a, zero, l)
<1>1. zero \in Nat /\ \A i \in 1..Len(a) : i \in Nat /\ zero + i = i
  OBVIOUS
<1> HIDE DEF zero
<1>2. /\ w \in Seq(Events) /\ Len(w) = Len(a)
      /\ \A i \in 1..Len(a) : w[i] = Event(zero + i, a[i], Where(a[i], l))
  BY <1>1, WrittenType
<1> HIDE DEF w
<1>3. \A i \in 1..Len(a) : w[i].seq = i
  <2> TAKE i \in 1..Len(a)
  <2>1. w[i] = Event(zero + i, a[i], Where(a[i], l))
    BY <1>2
  <2>2. w[i].seq = zero + i
    BY <2>1 DEF Event
  <2>3. QED
    BY <1>1, <2>2
<1>4. Numbered(w, Len(a))
  BY <1>2, <1>3 DEF Numbered
<1>5. w = <<>> <=> a = <<>>
  <2>1. w = <<>> <=> Len(w) = 0
    BY <1>2
  <2>2. a = <<>> <=> Len(a) = 0
    OBVIOUS
  <2>3. QED
    BY <1>2, <2>1, <2>2
<1>6. QED
  BY <1>4, <1>5 DEF w, zero

\* When the current placement has provisioned, after one event more.
LEMMA MadeAppend ==
  ASSUME NEW events \in Seq(Events), NEW e \in Events
  PROVE  Made(Append(events, e)) <=> e.op = "provision" \/ (Made(events) /\ e.op # "reserve")
<1> DEFINE n == Len(events)
           more == Append(events, e)
<1>1. /\ n \in Nat /\ DOMAIN events = 1..n /\ DOMAIN more = 1..(n + 1) /\ Len(more) = n + 1
      /\ more[n + 1] = e /\ \A i \in 1..n : more[i] = events[i]
  OBVIOUS
<1>0. Len(events) = n
  OBVIOUS
<1> HIDE DEF n, more
<1>2. ASSUME e.op = "provision" PROVE Made(more)
  <2>1. n + 1 \in DOMAIN more /\ \A k \in (n + 1)..Len(more) : k = n + 1
    BY <1>1
  <2>2. more[n + 1].op = "provision" /\ \A k \in (n + 1)..Len(more) : more[k].op # "reserve"
    BY <1>1, <1>2, <2>1
  <2>3. QED
    BY <2>1, <2>2 DEF Made
<1>3. ASSUME Made(events), e.op # "reserve" PROVE Made(more)
  <2>1. PICK i \in 1..n : events[i].op = "provision" /\ \A k \in i..n : events[k].op # "reserve"
    BY <1>0, <1>1, <1>3 DEF Made
  <2>2. i \in DOMAIN more /\ more[i].op = "provision"
    BY <1>1, <2>1
  <2>3. ASSUME NEW k \in i..Len(more) PROVE more[k].op # "reserve"
    <3>1. CASE k = n + 1
      BY <1>1, <1>3, <3>1
    <3>2. CASE k # n + 1
      <4>1. k \in i..n /\ k \in 1..n
        BY <1>1, <3>2
      <4>2. QED
        BY <1>1, <2>1, <4>1
    <3>3. QED
      BY <3>1, <3>2
  <2>4. QED
    BY <2>2, <2>3 DEF Made
<1>4. ASSUME Made(more), e.op # "provision" PROVE Made(events) /\ e.op # "reserve"
  <2>1. PICK i \in 1..(n + 1) : more[i].op = "provision" /\ \A k \in i..(n + 1) : more[k].op # "reserve"
    BY <1>1, <1>4 DEF Made
  <2>2. i # n + 1
    BY <1>1, <1>4, <2>1
  <2>3. i \in 1..n /\ n + 1 \in i..(n + 1) /\ \A k \in i..n : k \in i..(n + 1) /\ k \in 1..n
    BY <1>1, <2>1, <2>2
  <2>4. events[i].op = "provision" /\ \A k \in i..n : events[k].op # "reserve"
    BY <1>1, <2>1, <2>3
  <2>5. e.op # "reserve"
    BY <1>1, <2>1, <2>3
  <2>6. QED
    BY <1>0, <1>1, <2>3, <2>4, <2>5 DEF Made
<1>5. QED
  BY <1>2, <1>3, <1>4 DEF more

\* A transition writes a record.
LEMMA EditType ==
  ASSUME NEW op \in Ops, NEW p \in Providers \cup {None}, NEW l \in Life
  PROVE  Edit(op, p, l) \in Life
<1>1. Into(op, l.st) \in {"none", "placing", "running"} \cup Pending \cup Finished
  BY DEF Into, Pending, Finished, Life
<1> DEFINE i == Into(op, l.st)
           g == CASE op = "reserve" -> p
                  [] op \in {"rollback", "requeue", "retry"} -> None
                  [] OTHER -> l.prov
           c == op = "capture" \/ (l.cached /\ op \notin {"requeue", "retry"})
           r == op = "reap" \/ (l.reaped /\ op \notin {"requeue", "retry"})
           d == op = "reprioritize" \/ l.edited
<1>2. g \in Providers \cup {None}
  BY DEF Life
<1>3. c \in BOOLEAN /\ r \in BOOLEAN /\ d \in BOOLEAN
  BY DEF Life
<1>4. Edit(op, p, l) = [st |-> i, prov |-> g, cached |-> c, reaped |-> r, edited |-> d]
  BY DEF Edit
<1>5. i \in {"none", "placing", "running"} \cup Pending \cup Finished
  BY <1>1
<1> HIDE DEF i, g, c, r, d
<1>6. QED
  BY <1>2, <1>3, <1>4, <1>5 DEF Life

\* What it writes.
LEMMA EditIs ==
  ASSUME NEW op \in Ops, NEW p, NEW l
  PROVE  /\ Edit(op, p, l).st = Into(op, l.st) /\ Edit(op, p, l).prov = Goes(op, p, l.prov)
         /\ Edit(op, p, l).cached <=> op = "capture" \/ (l.cached /\ op \notin {"requeue", "retry"})
<1> DEFINE i == Into(op, l.st)
           g == CASE op = "reserve" -> p
                  [] op \in {"rollback", "requeue", "retry"} -> None
                  [] OTHER -> l.prov
           c == op = "capture" \/ (l.cached /\ op \notin {"requeue", "retry"})
           r == op = "reap" \/ (l.reaped /\ op \notin {"requeue", "retry"})
           d == op = "reprioritize" \/ l.edited
           x == Edit(op, p, l)
<1>1. x = [st |-> i, prov |-> g, cached |-> c, reaped |-> r, edited |-> d]
  BY DEF Edit
<1> HIDE DEF i, g, c, r, d, x
<1>2. x.st = i /\ x.prov = g /\ x.cached = c
  BY <1>1
<1>3. x.cached <=> c
  BY <1>2
<1>4. g = Goes(op, p, l.prov)
  BY DEF g, Goes
<1>5. QED
  BY <1>2, <1>3, <1>4 DEF i, c, x

\* What a transition does to the resources of its job.
LEMMA RentedIs ==
  ASSUME NEW op \in Ops, NEW rs \in Rows, NEW prov \in Providers \cup {None},
         \A p \in Providers : rs[p] = "live" => prov = p
  PROVE  /\ Rented(op, prov, rs) \in Rows
         /\ op = "provision" => prov = None \/ Alive(Rented(op, prov, rs))
         /\ op \in {"reap", "release"} => ~Alive(Rented(op, prov, rs))
         /\ op \notin {"provision", "reap", "release"} => Rented(op, prov, rs) = rs
         /\ \A p \in Providers : Rented(op, prov, rs)[p] = "live" => prov = p
<1> DEFINE x == Rented(op, prov, rs)
<1>1. CASE op = "provision" /\ prov # None /\ ~Alive(rs)
  <2>1. x = [rs EXCEPT ![prov] = "live"] /\ prov \in Providers
    BY <1>1 DEF Rented
  <2> HIDE DEF x
  <2>2. x \in Rows /\ x[prov] = "live" /\ \A p \in Providers : p # prov => x[p] = rs[p]
    BY <2>1 DEF Rows
  <2>3. Alive(x)
    BY <2>1, <2>2 DEF Alive
  <2>4. QED
    BY <1>1, <2>2, <2>3 DEF x
<1>2. CASE op \in {"reap", "release"} /\ prov # None /\ rs[prov] = "live"
  <2>1. x = [rs EXCEPT ![prov] = "released"] /\ prov \in Providers
    BY <1>2 DEF Rented
  <2> HIDE DEF x
  <2>2. x \in Rows /\ x[prov] = "released" /\ \A p \in Providers : p # prov => x[p] = rs[p]
    BY <2>1 DEF Rows
  <2>3. \A p \in Providers : x[p] # "live"
    BY <2>2
  <2>4. ~Alive(x)
    BY <2>3 DEF Alive
  <2>5. QED
    BY <1>2, <2>2, <2>3, <2>4 DEF x
<1>3. CASE ~(op = "provision" /\ prov # None /\ ~Alive(rs)) /\ ~(op \in {"reap", "release"} /\ prov # None /\ rs[prov] = "live")
  <2>1. x = rs
    BY <1>3 DEF Rented
  <2> HIDE DEF x
  <2>2. op \in {"reap", "release"} => ~Alive(rs)
    BY <1>3, StoreAssumption DEF Alive
  <2>3. op = "provision" => prov = None \/ Alive(rs)
    BY <1>3
  <2>4. QED
    BY <2>1, <2>2, <2>3 DEF x
<1>4. QED
  BY <1>1, <1>2, <1>3

\* A call whose check holds is a legal operation of the job's story.
LEMMA CheckedLegal ==
  ASSUME NEW events, NEW l \in Life, NEW rs \in Rows, NEW op \in Ops \ {"submit"},
         Tells(events, l, rs), Checked(op, l, Made(events), Alive(rs))
  PROVE  Legal(op, l.st, Alive(rs), Kept(events))
<1> DEFINE made == Made(events)
           live == Alive(rs)
           kept == Kept(events)
<1>1. /\ l.cached => kept
      /\ l.st = "placing" => (made <=> live)
  BY DEF Tells
<1>2. made \in BOOLEAN /\ live \in BOOLEAN
  BY DEF Made, Alive
<1>3. Checked(op, l, made, live)
  OBVIOUS
<1> HIDE DEF made, live, kept
<1>4. /\ op \in {"provision", "rollback"} => l.st = "placing" /\ ~made
      /\ op = "activate" => l.st = "placing" /\ made
      /\ op = "cancel" => l.st \in Pending \cup {"running"}
      /\ op = "reap" => l.cached
      /\ op = "release" => l.st = "running" /\ l.cached /\ live
      /\ op = "requeue" => l.st = "running" /\ l.cached /\ ~live
      /\ op = "retry" => l.st \in Finished /\ ~live
  BY <1>2, <1>3, CheckedSays
<1>5. Legal(op, l.st, live, kept)
  BY <1>1, <1>4 DEF Legal, Pending
<1>6. QED
  BY <1>5 DEF live, kept

\* A transition whose check holds carries the story of its job on.
LEMMA TellsStep ==
  ASSUME NEW events \in Seq(Events), NEW l \in Life, NEW rs \in Rows, NEW op \in Ops \ {"submit"},
         NEW p \in Providers \cup {None}, op = "reserve" <=> p # None, l.st \in From[op], NEW n \in Nat,
         Tells(events, l, rs), Checked(op, l, Made(events), Alive(rs))
  PROVE  Tells(Append(events, Event(n, op, p)), Edit(op, p, l), Rented(op, l.prov, rs))
<1> DEFINE e == Event(n, op, p)
           more == Append(events, e)
           x == Edit(op, p, l)
           rx == Rented(op, l.prov, rs)
           live == Alive(rs)
<1>1. e \in Events /\ e.op = op /\ e.prov = p
  BY DEF Event, Events
<1>2. live \in BOOLEAN /\ l.prov \in Providers \cup {None}
  BY DEF Alive, Life
<1>3. /\ Story(events, l.st, l.prov, live)
      /\ l.cached => Kept(events)
      /\ \A q \in Providers : rs[q] = "live" => l.prov = q
      /\ l.st = "placing" => l.prov # None /\ (Made(events) <=> live)
  BY DEF Tells
<1>4. Legal(op, l.st, live, Kept(events))
  BY CheckedLegal
<1>5. /\ rx \in Rows
      /\ op = "provision" => l.prov = None \/ Alive(rx)
      /\ op \in {"reap", "release"} => ~Alive(rx)
      /\ op \notin {"provision", "reap", "release"} => rx = rs
      /\ \A q \in Providers : rx[q] = "live" => l.prov = q
  BY <1>2, <1>3, RentedIs
<1>6. /\ x.st = Into(op, l.st) /\ x.prov = Goes(op, p, l.prov)
      /\ x.cached <=> op = "capture" \/ (l.cached /\ op \notin {"requeue", "retry"})
  BY EditIs
<1>7. Made(more) <=> op = "provision" \/ (Made(events) /\ op # "reserve")
  BY <1>1, MadeAppend
<1> HIDE DEF e, x, rx, live
<1>8. /\ Story(more, Into(op, l.st), Goes(op, p, l.prov), Holds(op, live))
      /\ Kept(more) <=> op = "capture" \/ (Kept(events) /\ op \notin {"requeue", "retry"})
  <2>1. GoesOn(events, e, l.st, l.prov, live)
    BY <1>1, <1>2, <1>3, <1>4, StoryStep
  <2>2. QED
    BY <1>1, <2>1 DEF GoesOn
<1> HIDE DEF more
<1>9. Alive(rx) <=> Holds(op, live)
  <2>1. op = "provision" => l.prov # None
    BY <1>3 DEF From
  <2>2. op \notin {"provision", "reap", "release"} => (Alive(rx) <=> live)
    BY <1>5 DEF live
  <2>3. QED
    BY <1>5, <2>1, <2>2 DEF Holds
<1>10. Story(more, x.st, x.prov, Alive(rx))
  BY <1>6, <1>8, <1>9 DEF Story, Modelled
<1>11. x.cached => Kept(more)
  BY <1>3, <1>6, <1>8
<1>12. op \in {"reserve", "rollback", "requeue", "retry"} => ~live
  <2>1. op = "reserve" => l.st \in Pending
    BY DEF From
  <2>2. l.st \in Pending => ~live
    BY <1>3 DEF Story, Modelled
  <2>3. op \in {"rollback", "requeue", "retry"} => ~live
    BY <1>4 DEF Legal
  <2>4. QED
    BY <2>1, <2>2, <2>3
<1>13. ASSUME NEW q \in Providers, rx[q] = "live" PROVE x.prov = q
  <2>1. Alive(rx)
    BY <1>13 DEF Alive
  <2>2. op \notin {"reserve", "rollback", "requeue", "retry"}
    BY <1>9, <1>12, <2>1 DEF Holds
  <2>3. x.prov = l.prov
    BY <1>6, <2>2 DEF Goes
  <2>4. QED
    BY <1>5, <1>13, <2>3
<1>14. ASSUME x.st = "placing" PROVE x.prov # None /\ (Made(more) <=> Alive(rx))
  <2>1. op = "reserve" \/ (l.st = "placing" /\ op \in {"provision", "reprioritize"})
    BY <1>6, <1>14, OpsNamed DEF Into, From, Pending, Finished
  <2>2. CASE op = "reserve"
    BY <1>6, <1>7, <1>9, <1>12, <2>2 DEF Goes, Holds
  <2>3. CASE l.st = "placing" /\ op \in {"provision", "reprioritize"}
    BY <1>3, <1>6, <1>7, <1>9, <2>3 DEF Goes, Holds
  <2>4. QED
    BY <2>1, <2>2, <2>3
<1>15. QED
  BY <1>10, <1>11, <1>13, <1>14 DEF Tells, more, e, x, rx

\* A job submitted starts its story.
LEMMA TellsSubmit ==
  ASSUME NEW n \in Nat, NEW rs \in Rows, ~Alive(rs)
  PROVE  Tells(Append(<<>>, Event(n, "submit", None)), Edit("submit", None, Blank), Rented("submit", None, rs))
<1> DEFINE e == Event(n, "submit", None)
           none == <<>>
           more == Append(none, e)
           x == Edit("submit", None, Blank)
<1>1. e \in Events /\ e.op = "submit"
  BY OpsNamed DEF Event, Events
<1> HIDE DEF e
<1>2. Story(more, "queued", None, FALSE)
  BY <1>1, StorySubmit
<1>3. x.st = "queued" /\ x.prov = None /\ ~x.cached
  BY DEF Edit, Into, Blank
<1>4. Rented("submit", None, rs) = rs
  BY DEF Rented
<1> HIDE DEF x, more
<1>5. Story(more, x.st, x.prov, Alive(rs))
  BY <1>2, <1>3 DEF Story, Modelled
<1>6. \A p \in Providers : rs[p] # "live"
  BY DEF Alive
<1>7. Tells(more, x, rs)
  BY <1>3, <1>5, <1>6 DEF Tells
<1>8. QED
  BY <1>4, <1>7 DEF more, x, e, none

-----------------------------------------------------------------------------
(* What the migrations do to one job.                                      *)

\* What a migration writes after a history is the rest of a longer one.
LEMMA WrittenJoin ==
  ASSUME NEW a \in Seq(Ops), NEW b \in Seq(Ops), NEW l \in Life
  PROVE  Written(a, 0, l) \o Written(b, Len(a), l) = Written(a \o b, 0, l)
<1> DEFINE zero == 0
           m == Len(a)
           n == Len(b)
           c == a \o b
           u == Written(a, zero, l)
           v == Written(b, m, l)
           w == Written(c, zero, l)
           x == u \o v
<1>1. /\ m \in Nat /\ n \in Nat /\ c \in Seq(Ops) /\ Len(c) = m + n
      /\ \A i \in 1..m : c[i] = a[i] /\ zero + i = i
      /\ \A i \in 1..n : c[m + i] = b[i] /\ zero + (m + i) = m + i
      /\ zero \in Nat
  OBVIOUS
<1> HIDE DEF zero, c
<1>2. /\ u \in Seq(Events) /\ Len(u) = m
      /\ \A i \in 1..m : u[i] = Event(zero + i, a[i], Where(a[i], l))
  BY <1>1, WrittenType
<1>3. /\ v \in Seq(Events) /\ Len(v) = n
      /\ \A i \in 1..n : v[i] = Event(m + i, b[i], Where(b[i], l))
  BY <1>1, WrittenType
<1>4. /\ w \in Seq(Events) /\ Len(w) = Len(c)
      /\ \A i \in 1..Len(c) : w[i] = Event(zero + i, c[i], Where(c[i], l))
  BY <1>1, WrittenType
<1> HIDE DEF u, v, w, m, n
<1>5. /\ x \in Seq(Events) /\ Len(x) = m + n
      /\ \A i \in 1..(m + n) : x[i] = IF i <= m THEN u[i] ELSE v[i - m]
  <2>1. /\ u \o v \in Seq(Events) /\ Len(u \o v) = Len(u) + Len(v)
        /\ \A i \in 1..(Len(u) + Len(v)) : (u \o v)[i] = IF i <= Len(u) THEN u[i] ELSE v[i - Len(u)]
    BY <1>2, <1>3, ConcatProperties, Zenon
  <2>2. QED
    BY <1>2, <1>3, <2>1
<1> HIDE DEF x
<1>6. ASSUME NEW i \in 1..(m + n) PROVE x[i] = w[i]
  <2>1. i \in 1..Len(c)
    BY <1>1
  <2>2. w[i] = Event(zero + i, c[i], Where(c[i], l))
    BY <1>4, <2>1
  <2>3. CASE i <= m
    <3>1. i \in 1..m /\ x[i] = u[i]
      BY <1>1, <1>5, <2>3
    <3>2. c[i] = a[i] /\ u[i] = Event(zero + i, a[i], Where(a[i], l))
      BY <1>1, <1>2, <3>1
    <3>3. QED
      BY <2>2, <3>1, <3>2
  <2>4. CASE ~(i <= m)
    <3> DEFINE k == i - m
    <3>1. k \in 1..n /\ i = m + k /\ x[i] = v[k]
      BY <1>1, <1>5, <2>4
    <3> HIDE DEF k
    <3>2. c[i] = b[k] /\ zero + i = m + k
      BY <1>1, <3>1
    <3>3. v[k] = Event(m + k, b[k], Where(b[k], l))
      BY <1>3, <3>1
    <3>4. QED
      BY <2>2, <3>1, <3>2, <3>3
  <2>5. QED
    BY <2>3, <2>4
<1>7. x = w
  <2>1. Len(w) = m + n
    BY <1>1, <1>4
  <2>2. QED
    BY <1>4, <1>5, <1>6, <2>1, SeqEqual
<1>8. QED
  BY <1>7 DEF x, u, v, w, c, m, zero

\* The highest token of a numbered history is its length.
LEMMA TopOf ==
  ASSUME NEW events, NEW n \in Nat, Numbered(events, n)
  PROVE  Max({n} \cup {events[i].seq : i \in DOMAIN events}) = n
<1> DEFINE S == {n} \cup {events[i].seq : i \in DOMAIN events}
<1>1. DOMAIN events = 1..n /\ \A i \in 1..n : events[i].seq = i
  BY DEF Numbered
<1>2. n \in S /\ \A y \in S : y \in Nat /\ y <= n
  <2>1. \A y \in S : y = n \/ \E i \in 1..n : y = i
    BY <1>1
  <2>2. QED
    BY <2>1
<1> HIDE DEF S
<1>3. Max(S) \in S /\ \A y \in S : Max(S) >= y
  <2>1. \E x \in S : \A y \in S : x >= y
    BY <1>2
  <2>2. QED
    BY <2>1 DEF Max
<1>4. Max(S) = n
  <2>1. Max(S) \in Nat /\ Max(S) <= n /\ Max(S) >= n
    BY <1>2, <1>3
  <2>2. QED
    BY <2>1
<1>5. QED
  BY <1>4 DEF S

\* A job that ended and was captured is closed by its reap.
LEMMA ReapTold ==
  ASSUME NEW a \in Seq(Ops), NEW l \in Life, NEW state \in Finished, NEW live \in BOOLEAN,
         Told(a, l, state, l.prov, live, TRUE)
  PROVE  a \o <<"reap">> \in Seq(Ops) /\ Told(a \o <<"reap">>, l, state, l.prov, FALSE, TRUE)
<1> DEFINE b == Append(a, "reap")
<1>1. "reap" \in Ops /\ a \o <<"reap">> = b
  BY OpsNamed, AppendIsConcat
<1>2. state \in From["reap"] /\ Legal("reap", state, live, TRUE)
  BY DEF From, Legal
<1>3. /\ b \in Seq(Ops)
      /\ Told(b, l, Into("reap", state), Goes("reap", Where("reap", l), l.prov),
              Holds("reap", live), "reap" = "capture" \/ (TRUE /\ "reap" \notin {"requeue", "retry"}))
  BY <1>1, <1>2, ToldStep
<1>4. Into("reap", state) = state /\ Goes("reap", Where("reap", l), l.prov) = l.prov
      /\ (Holds("reap", live) <=> FALSE)
  BY DEF Into, Goes, Holds
<1>5. QED
  BY <1>1, <1>3, <1>4 DEF Told, Story, Modelled

\* What a story says of what is left open.
LEMMA ToldOpen ==
  ASSUME NEW a, NEW l \in Life, NEW state, NEW prov, NEW live \in BOOLEAN, NEW kept \in BOOLEAN,
         Told(a, l, state, prov, live, kept)
  PROVE  /\ FoldExt(Actions(Written(a, 0, l))).open <=> live
         /\ FoldExt(Actions(Written(a, 0, l))).captured <=> kept
  BY DEF Told, Story, Modelled, Kept

\* How a job is found in a database that is not upgraded yet.
FoundOK(ver, r, events, rs, old) ==
    /\ r \in [seq : Nat, life : Life, parses : BOOLEAN] /\ rs \in Rows
    /\ ver = 0 => r.life = Blank /\ ~old
    /\ ver # 0 => r.life \in Legacy
    /\ ver = 8 => /\ r.parses /\ r.seq = Len(FirstReconstruction(r.life))
                  /\ events = Written(FirstReconstruction(r.life), 0, r.life)
                  /\ ~old => /\ Alive(rs) => StillOpen(r.life)
                             /\ StillOpen(r.life) /\ ~Alive(rs) => r.life.st \in Finished
    /\ ver # 8 => /\ r.seq = 0 /\ events = <<>> /\ ~Alive(rs)
                  /\ ~old => r.life.st # "running"
    /\ old => r.life.st \notin Finished
    /\ ~old => r.life.st # "placing"
    /\ \A p \in Providers : rs[p] = "live" => r.life.prov = p

\* A record that was never written is one.
LEMMA BlankIs == Blank \in Life /\ Blank.st = "none" /\ Blank.prov = None
  BY DEF Blank, Life

\* How a database is found.
Found ==
    /\ version \in 0..8 /\ clobbered = {} /\ outdated = {} /\ calls = 0 /\ saves = 0
    /\ adopted \subseteq JobIds
    /\ thread = [w \in Threads |-> Asleep]
    /\ row = [j \in JobIds |-> row[j]] /\ rented = [j \in JobIds |-> rented[j]]
    /\ \A j \in JobIds : FoundOK(version, row[j], log[j], rented[j], j \in adopted)

\* Every database is found so.
LEMMA FoundSo ==
  ASSUME StoreInit
  PROVE  Found
<1>0. PICK ver \in Versions : \E found \in [JobIds -> Finds(ver)] :
        LET history(j) == IF ver = 8 THEN FirstReconstruction(found[j].life) ELSE <<>>
        IN  /\ version = ver
            /\ row = [j \in JobIds |-> [seq |-> Len(history(j)), life |-> found[j].life,
                                        parses |-> found[j].parses]]
            /\ log = [j \in JobIds |-> Written(history(j), 0, found[j].life)]
            /\ rented = [j \in JobIds |-> [p \in Providers |->
                            IF found[j].tracked /\ found[j].life.prov = p
                            THEN (IF found[j].life.reaped THEN "released" ELSE "live") ELSE "none"]]
            /\ adopted = {j \in JobIds : found[j].life.st \in {"placing", "running"} /\ ~found[j].tracked}
            /\ thread = [w \in Threads |-> Asleep]
            /\ clobbered = {} /\ outdated = {} /\ calls = 0 /\ saves = 0
  BY DEF StoreInit
<1>1. PICK found \in [JobIds -> Finds(ver)] :
        LET history(j) == IF ver = 8 THEN FirstReconstruction(found[j].life) ELSE <<>>
        IN  /\ version = ver
            /\ row = [j \in JobIds |-> [seq |-> Len(history(j)), life |-> found[j].life,
                                        parses |-> found[j].parses]]
            /\ log = [j \in JobIds |-> Written(history(j), 0, found[j].life)]
            /\ rented = [j \in JobIds |-> [p \in Providers |->
                            IF found[j].tracked /\ found[j].life.prov = p
                            THEN (IF found[j].life.reaped THEN "released" ELSE "live") ELSE "none"]]
            /\ adopted = {j \in JobIds : found[j].life.st \in {"placing", "running"} /\ ~found[j].tracked}
            /\ thread = [w \in Threads |-> Asleep]
            /\ clobbered = {} /\ outdated = {} /\ calls = 0 /\ saves = 0
  BY <1>0
<1>2. ver \in 0..8 /\ version = ver /\ adopted \subseteq JobIds
  BY <1>1, StoreAssumption
<1>3. row = [j \in JobIds |-> row[j]] /\ rented = [j \in JobIds |-> rented[j]]
  BY <1>1
<1>4. ASSUME NEW j \in JobIds PROVE FoundOK(version, row[j], log[j], rented[j], j \in adopted)
  <2> DEFINE f == found[j]
             l == f.life
             h == IF ver = 8 THEN FirstReconstruction(l) ELSE <<>>
             rs == [p \in Providers |-> IF f.tracked /\ l.prov = p
                                        THEN (IF l.reaped THEN "released" ELSE "live") ELSE "none"]
             r == [seq |-> Len(h), life |-> l, parses |-> f.parses]
             old == l.st \in {"placing", "running"} /\ ~f.tracked
  <2>1. row[j] = r /\ log[j] = Written(h, 0, l) /\ rented[j] = rs /\ (j \in adopted <=> old) /\ f \in Finds(ver)
    BY <1>1
  <2>2. /\ f.tracked \in BOOLEAN /\ f.parses \in BOOLEAN /\ l \in Life
        /\ ver = 0 => l = Blank /\ ~f.tracked
        /\ ver # 0 => l \in Legacy /\ (f.tracked => ver = 8 /\ Tracked(l)) /\ (f.parses \/ ver < 8)
    <3>1. CASE ver = 0
      <4>1. f \in {[life |-> Blank, parses |-> TRUE, tracked |-> FALSE]}
        BY <2>1, <3>1 DEF Finds
      <4> HIDE DEF f
      <4>2. f.life = Blank /\ f.parses = TRUE /\ f.tracked = FALSE
        BY <4>1
      <4>3. QED
        BY <3>1, <4>2, BlankIs
    <3>2. CASE ver # 0
      <4>1. f \in {x \in [life : Legacy, parses : BOOLEAN, tracked : BOOLEAN] :
                     /\ x.tracked => ver = 8 /\ Tracked(x.life)
                     /\ x.parses \/ ver < 8}
        BY <2>1, <3>2 DEF Finds
      <4> HIDE DEF f
      <4>2. f.tracked \in BOOLEAN /\ f.parses \in BOOLEAN /\ f.life \in Legacy
            /\ (f.tracked => ver = 8 /\ Tracked(f.life)) /\ (f.parses \/ ver < 8)
        BY <4>1
      <4>3. f.life \in Life
        BY <4>2 DEF Legacy
      <4>4. QED
        BY <3>2, <4>2, <4>3
    <3>3. QED
      BY <3>1, <3>2
  <2> HIDE DEF f, l
  <2>3. ver # 8 => h = <<>>
    OBVIOUS
  <2>4. ver = 8 => h = FirstReconstruction(l)
    OBVIOUS
  <2>5. ver = 8 => f.parses /\ l \in Legacy
    BY <2>2
  <2>6. h \in Seq(Ops)
    <3>1. CASE ver = 8
      BY <2>4, <2>5, <3>1, HistoryType
    <3>2. CASE ver # 8
      BY <2>3, <3>2
    <3>3. QED
      BY <3>1, <3>2
  <2>7. rs \in Rows
    BY DEF Rows
  <2>8. \A p \in Providers : rs[p] = "live" => l.prov = p /\ f.tracked /\ ~l.reaped
    OBVIOUS
  <2>9. f.tracked /\ ~l.reaped => Alive(rs)
    <3>1. f.tracked => l.prov \in Providers
      BY <1>2, <2>2 DEF Tracked, Life
    <3>2. f.tracked /\ ~l.reaped => rs[l.prov] = "live"
      BY <3>1
    <3>3. QED
      BY <3>1, <3>2 DEF Alive
  <2>10. Alive(rs) => f.tracked /\ ~l.reaped
    BY <2>8 DEF Alive
  <2> HIDE DEF h, rs
  <2>11. r \in [seq : Nat, life : Life, parses : BOOLEAN]
    <3>1. Len(h) \in Nat
      BY <2>6
    <3>2. QED
      BY <2>2, <3>1
  <2>12. r.seq = Len(h) /\ r.life = l /\ r.parses = f.parses
    OBVIOUS
  <2> HIDE DEF r
  <2>13. f.tracked => l.prov # None /\ l.st \in {"running", "succeeded"}
    BY <1>2, <2>2 DEF Tracked
  <2>14. ver = 0 => ~old
    BY <2>2, BlankIs
  <2>15. ~old => l.st # "placing"
    BY <2>13
  <2>16. old => l.st \notin Finished
    BY DEF Finished
  <2>17. ver # 8 => Len(h) = 0 /\ Written(h, 0, l) = <<>> /\ ~Alive(rs) /\ (~old => l.st # "running")
    <3> SUFFICES ASSUME ver # 8 PROVE Len(h) = 0 /\ Written(h, 0, l) = <<>> /\ ~Alive(rs) /\ (~old => l.st # "running")
      OBVIOUS
    <3>1. ~f.tracked
      BY <2>2
    <3>2. h = <<>>
      BY <2>3
    <3>3. Written(h, 0, l) = <<>>
      BY <2>2, <2>6, <3>2, NumberedWritten
    <3>4. Len(h) = 0
      BY <3>2
    <3>5. QED
      BY <2>10, <3>1, <3>3, <3>4
  <2>18. ~old => /\ Alive(rs) => StillOpen(l)
                 /\ ver = 8 /\ StillOpen(l) /\ ~Alive(rs) => l.st \in Finished
    <3>1. Alive(rs) => StillOpen(l)
      BY <2>10, <2>13 DEF StillOpen, WasPlaced
    <3>2. ASSUME ~old, ver = 8, StillOpen(l), ~Alive(rs) PROVE l.st \in Finished
      <4>1. ~f.tracked /\ l.st # "queued" /\ l.st \in {"queued", "placing", "running"} \cup Finished
        BY <2>5, <2>9, <3>2, LegacyIs DEF StillOpen
      <4>2. QED
        BY <3>2, <4>1
    <3>3. QED
      BY <3>1, <3>2
  <2> HIDE DEF old
  <2>19. FoundOK(ver, r, Written(h, 0, l), rs, old)
    BY <1>2, <2>2, <2>4, <2>5, <2>7, <2>8, <2>11, <2>12, <2>14, <2>15, <2>16, <2>17, <2>18 DEF FoundOK
  <2>20. QED
    <3>1. (j \in adopted) = old
      BY <2>1 DEF old
    <3>2. QED
      BY <1>2, <2>1, <2>19, <3>1
<1>5. QED
  BY <1>1, <1>2, <1>3, <1>4 DEF Found

\* What an upgrade has to leave of a job: a history, unless there is nothing to
\* tell, and one that tells its story, if the job was not placed by then.
Settled(a, r, rs, old) ==
    /\ a = <<>> <=> ~r.parses \/ r.life.st = "none"
    /\ a = <<>> => ~Alive(rs)
    /\ ~old /\ a # <<>> => \E kept \in BOOLEAN : Told(a, r.life, r.life.st, r.life.prov, Alive(rs), kept)
                                                 /\ (r.life.cached => kept)

\* Half way: what version 8 has may be left open where nothing is held.
Historied(h, r, rs, old) ==
    /\ h = <<>> <=> ~r.parses \/ r.life.st = "none"
    /\ h = <<>> => ~Alive(rs)
    /\ ~old /\ h # <<>> =>
         \E live, kept \in BOOLEAN :
            /\ Told(h, r.life, r.life.st, r.life.prov, live, kept)
            /\ r.life.cached => kept
            /\ (live <=> Alive(rs)) \/ (live /\ ~Alive(rs) /\ r.life.st \in Finished)

\* A job's row and its events, after a step of the upgrade.
Rewritten(r2, events2, a, r) ==
    /\ r2 \in [seq : Nat, life : Life, parses : BOOLEAN]
    /\ r2.seq = Len(a) /\ r2.life = r.life /\ r2.parses = r.parses
    /\ events2 = Written(a, 0, r.life)

\* Up to version 8: a job without a history is given one.
LEMMA ToEight ==
  ASSUME NEW ver \in 0..8, NEW r, NEW events, NEW rs, NEW old, FoundOK(ver, r, events, rs, old)
  PROVE  LET bare == r.parses /\ r.life.st # "none" /\ events = <<>>
             h == Reconstruction(r.life)
             r2 == IF ver < 8 /\ bare THEN [r EXCEPT !.seq = Len(h)] ELSE r
             events2 == IF ver < 8 /\ bare THEN events \o Written(h, 0, r.life) ELSE events
         IN  \E a \in Seq(Ops) : Rewritten(r2, events2, a, r) /\ Historied(a, r, rs, old)
<1> DEFINE bare == r.parses /\ r.life.st # "none" /\ events = <<>>
           h == Reconstruction(r.life)
           r2 == IF ver < 8 /\ bare THEN [r EXCEPT !.seq = Len(h)] ELSE r
           events2 == IF ver < 8 /\ bare THEN events \o Written(h, 0, r.life) ELSE events
           l == r.life
<1>1. /\ r \in [seq : Nat, life : Life, parses : BOOLEAN] /\ rs \in Rows
      /\ ver = 0 => l = Blank
      /\ ver # 0 => l \in Legacy
      /\ ver = 8 => /\ r.parses /\ r.seq = Len(FirstReconstruction(l))
                    /\ events = Written(FirstReconstruction(l), 0, l)
                    /\ ~old => /\ Alive(rs) => StillOpen(l)
                               /\ StillOpen(l) /\ ~Alive(rs) => l.st \in Finished
      /\ ver # 8 => /\ r.seq = 0 /\ events = <<>> /\ ~Alive(rs)
                    /\ ~old => l.st # "running"
      /\ ~old => l.st # "placing"
  BY DEF FoundOK
<1>2. l \in Life /\ r.parses \in BOOLEAN
  BY <1>1
<1> HIDE DEF h, l
<1> SUFFICES \E a \in Seq(Ops) : Rewritten(r2, events2, a, r) /\ Historied(a, r, rs, old)
  BY DEF h
<1>3. l \in Legacy => l.st # "none"
  BY DEF Legacy
<1>4. CASE ver = 8
  <2> DEFINE a == FirstReconstruction(l)
  <2>1. a \in Seq(Ops) /\ a # <<>> /\ l \in Legacy
    BY <1>1, <1>4, HistoryType
  <2>2. r2 = r /\ events2 = Written(a, 0, l)
    BY <1>1, <1>4
  <2>3. Rewritten(r2, events2, a, r)
    BY <1>1, <1>4, <2>2 DEF Rewritten, l
  <2>4. ASSUME ~old PROVE \E live, kept \in BOOLEAN :
            /\ Told(a, l, l.st, l.prov, live, kept)
            /\ l.cached => kept
            /\ (live <=> Alive(rs)) \/ (live /\ ~Alive(rs) /\ l.st \in Finished)
    <3> DEFINE live == StillOpen(l)
               kept == l.cached \/ l.reaped
    <3>1. live \in BOOLEAN /\ kept \in BOOLEAN
      BY DEF StillOpen
    <3>2. Told(a, l, l.st, l.prov, live, kept)
      BY <1>1, <2>1, <2>4, FirstReconstructed
    <3>3. l.cached => kept
      OBVIOUS
    <3>4. (live <=> Alive(rs)) \/ (live /\ ~Alive(rs) /\ l.st \in Finished)
      BY <1>1, <1>4, <2>4
    <3> HIDE DEF live, kept, a
    <3>5. QED
      BY <3>1, <3>2, <3>3, <3>4
  <2>5. Historied(a, r, rs, old)
    <3> HIDE DEF a
    <3>1. r.parses /\ l.st # "none"
      BY <1>1, <1>3, <1>4, <2>1
    <3>2. QED
      BY <2>1, <2>4, <3>1 DEF Historied, l
  <2>6. QED
    BY <2>1, <2>3, <2>5
<1>5. CASE ver # 8 /\ ~bare
  <2>1. ~r.parses \/ l.st = "none"
    BY <1>1, <1>5 DEF l
  <2>2. r2 = r /\ events2 = <<>>
    BY <1>1, <1>5
  <2> DEFINE a == <<>>
  <2>3. a \in Seq(Ops) /\ Len(a) = 0
    OBVIOUS
  <2>4. Written(a, 0, l) = <<>>
    BY <1>2, <2>3, NumberedWritten
  <2>5. Rewritten(r2, events2, a, r)
    BY <1>1, <1>5, <2>2, <2>3, <2>4 DEF Rewritten, l
  <2>6. Historied(a, r, rs, old)
    BY <1>1, <1>5, <2>1 DEF Historied, l
  <2>7. QED
    BY <2>3, <2>5, <2>6
<1>6. CASE ver # 8 /\ bare
  <2>1. l \in Legacy
    BY <1>1, <1>6, BlankIs DEF l
  <2>2. h \in Seq(Ops) /\ h # <<>>
    BY <2>1, HistoryType DEF h, l
  <2>3. Len(h) \in Nat /\ Written(h, 0, l) \in Seq(Events)
    <3>1. Numbered(Written(h, 0, l), Len(h))
      BY <1>2, <2>2, NumberedWritten
    <3>2. QED
      BY <2>2, <3>1 DEF Numbered
  <2>4. ver < 8 /\ events = <<>>
    BY <1>6
  <2>5. r2 = [r EXCEPT !.seq = Len(h)] /\ events2 = <<>> \o Written(h, 0, l)
    BY <1>6, <2>4 DEF l
  <2>6. events2 = Written(h, 0, l)
    BY <2>3, <2>5, ConcatEmptySeq
  <2> HIDE DEF r2, events2
  <2>7. /\ r2 \in [seq : Nat, life : Life, parses : BOOLEAN]
        /\ r2.seq = Len(h) /\ r2.life = r.life /\ r2.parses = r.parses
    BY <1>1, <2>3, <2>5
  <2>8. Rewritten(r2, events2, h, r)
    BY <2>6, <2>7 DEF Rewritten, l
  <2>9. ASSUME ~old PROVE \E live, kept \in BOOLEAN :
            /\ Told(h, l, l.st, l.prov, live, kept)
            /\ l.cached => kept
            /\ (live <=> Alive(rs)) \/ (live /\ ~Alive(rs) /\ l.st \in Finished)
    <3>1. l.st \notin {"placing", "running"}
      BY <1>1, <1>6, <2>9
    <3>2. PICK kept \in BOOLEAN : Told(h, l, l.st, l.prov, FALSE, kept) /\ (l.cached => kept)
      <4>1. \E kept \in BOOLEAN :
              Told(Reconstruction(l), l, l.st, l.prov, FALSE, kept) /\ (l.cached => kept)
        BY <2>1, <3>1, Reconstructed
      <4>2. QED
        BY <4>1 DEF h, l
    <3>3. ~Alive(rs)
      BY <1>1, <1>6
    <3>4. QED
      BY <3>2, <3>3
  <2>10. Historied(h, r, rs, old)
    <3>1. r.parses /\ l.st # "none"
      BY <1>6 DEF l
    <3>2. QED
      BY <2>2, <2>9, <3>1 DEF Historied, l
  <2>11. QED
    BY <2>2, <2>8, <2>10
<1>7. QED
  BY <1>4, <1>5, <1>6

\* On to version 9: what is left open where nothing is held is closed.
LEMMA ToNine ==
  ASSUME NEW r \in [seq : Nat, life : Life, parses : BOOLEAN], NEW rs, NEW old \in BOOLEAN, NEW h \in Seq(Ops),
         NEW r1, NEW events1, Rewritten(r1, events1, h, r), Historied(h, r, rs, old),
         old => r.life.st \notin Finished
  PROVE  LET x == FoldExt(Actions(events1))
             unclosed == r1.life.st \in Finished /\ ~Alive(rs) /\ x.open
             repair == IF x.captured THEN <<"reap">> ELSE <<"capture", "reap">>
             top == Max({r1.seq} \cup {events1[i].seq : i \in DOMAIN events1})
             r2 == IF unclosed THEN [r1 EXCEPT !.seq = top + Len(repair)] ELSE r1
             events2 == IF unclosed THEN events1 \o Written(repair, top, r1.life) ELSE events1
         IN  \E a \in Seq(Ops) : Rewritten(r2, events2, a, r) /\ Settled(a, r, rs, old)
<1> DEFINE x == FoldExt(Actions(events1))
           unclosed == r1.life.st \in Finished /\ ~Alive(rs) /\ x.open
           repair == IF x.captured THEN <<"reap">> ELSE <<"capture", "reap">>
           top == Max({r1.seq} \cup {events1[i].seq : i \in DOMAIN events1})
           r2 == IF unclosed THEN [r1 EXCEPT !.seq = top + Len(repair)] ELSE r1
           events2 == IF unclosed THEN events1 \o Written(repair, top, r1.life) ELSE events1
           l == r.life
           live == Alive(rs)
<1>1. /\ r1 \in [seq : Nat, life : Life, parses : BOOLEAN]
      /\ r1.seq = Len(h) /\ r1.life = l /\ r1.parses = r.parses
      /\ events1 = Written(h, 0, l)
  BY DEF Rewritten
<1>2. l \in Life /\ live \in BOOLEAN /\ Len(h) \in Nat
  BY DEF Alive
<1>3. Numbered(events1, Len(h)) /\ (events1 = <<>> <=> h = <<>>)
  BY <1>1, <1>2, NumberedWritten
<1>4. top = Len(h)
  BY <1>1, <1>2, <1>3, TopOf
<1>5. x = FoldExt(Actions(Written(h, 0, l)))
  BY <1>1
<1>6. /\ h = <<>> <=> ~r.parses \/ l.st = "none"
      /\ h = <<>> => ~live
  BY DEF Historied
<1>7. h = <<>> => ~unclosed
  <2>1. ASSUME h = <<>> PROVE ~x.open
    <3>1. events1 = <<>>
      BY <1>3, <2>1
    <3>2. Actions(events1) = <<>>
      BY <3>1 DEF Actions
    <3>3. x = Closed
      BY <3>2, ExtNothing
    <3>4. QED
      BY <3>3 DEF Closed
  <2>2. QED
    BY <2>1
<1> HIDE DEF x, top, l, live
<1> SUFFICES \E a \in Seq(Ops) : Rewritten(r2, events2, a, r) /\ Settled(a, r, rs, old)
  BY DEF x, top
<1>8. CASE h = <<>> \/ old
  <2>1. ~unclosed
    BY <1>1, <1>7, <1>8 DEF l
  <2>2. r2 = r1 /\ events2 = events1
    BY <2>1
  <2> HIDE DEF r2, events2
  <2>3. Settled(h, r, rs, old)
    BY <1>6, <1>8 DEF Settled, l, live
  <2>4. QED
    BY <2>2, <2>3
<1>9. CASE h # <<>> /\ ~old
  <2>1. PICK open, kept \in BOOLEAN :
            /\ Told(h, l, l.st, l.prov, open, kept)
            /\ l.cached => kept
            /\ (open <=> live) \/ (open /\ ~live /\ l.st \in Finished)
    BY <1>9 DEF Historied, l, live
  <2>2. (x.open <=> open) /\ (x.captured <=> kept)
    BY <1>2, <1>5, <2>1, ToldOpen
  <2>3. CASE open <=> live
    <3>1. ~unclosed
      BY <2>2, <2>3 DEF live
    <3>2. r2 = r1 /\ events2 = events1
      BY <3>1
    <3> HIDE DEF r2, events2
    <3>3. Told(h, l, l.st, l.prov, live, kept)
      BY <2>1, <2>3 DEF Told, Story, Modelled
    <3>4. Settled(h, r, rs, old)
      BY <1>6, <1>9, <2>1, <3>3 DEF Settled, l, live
    <3>5. QED
      BY <3>2, <3>4
  <2>4. CASE open /\ ~live /\ l.st \in Finished
    <3>1. unclosed
      BY <1>1, <2>2, <2>4 DEF live
    <3> DEFINE a == h \o repair
    <3>2. /\ repair \in Seq(Ops) /\ a \in Seq(Ops)
          /\ Told(a, l, l.st, l.prov, FALSE, TRUE)
      <4>1. CASE x.captured
        <5>1. Told(h, l, l.st, l.prov, open, TRUE)
          BY <2>1, <2>2, <4>1 DEF Told
        <5>2. repair = <<"reap">> /\ "reap" \in Ops
          BY <4>1, OpsNamed
        <5>3. repair \in Seq(Ops)
          BY <5>2
        <5> HIDE DEF repair
        <5>4. h \o <<"reap">> \in Seq(Ops) /\ Told(h \o <<"reap">>, l, l.st, l.prov, FALSE, TRUE)
          BY <1>2, <2>4, <5>1, ReapTold
        <5>5. QED
          BY <5>2, <5>3, <5>4
      <4>2. CASE ~x.captured
        <5>1. repair = <<"capture", "reap">> /\ "reap" \in Ops /\ "capture" \in Ops
          BY <4>2, OpsNamed
        <5>2. repair \in Seq(Ops)
          BY <5>1
        <5> HIDE DEF repair
        <5>3. /\ h \o <<"capture", "reap">> \in Seq(Ops)
              /\ Told(h \o <<"capture", "reap">>, l, l.st, l.prov, FALSE, TRUE)
          BY <1>2, <2>1, <2>4, CloseTold
        <5>4. QED
          BY <5>1, <5>2, <5>3
      <4>3. QED
        BY <4>1, <4>2
    <3>3. r2 = [r1 EXCEPT !.seq = top + Len(repair)] /\ events2 = events1 \o Written(repair, top, r1.life)
      BY <3>1
    <3> HIDE DEF repair, r2, events2
    <3>4. Len(a) = Len(h) + Len(repair) /\ Len(repair) \in Nat /\ (a = <<>> => h = <<>>)
      <4>1. Len(a) = Len(h) + Len(repair) /\ Len(repair) \in Nat
        BY <3>2
      <4>2. a = <<>> => Len(a) = 0
        OBVIOUS
      <4>3. Len(h) = 0 => h = <<>>
        OBVIOUS
      <4> HIDE DEF a
      <4>4. QED
        BY <1>2, <4>1, <4>2, <4>3
    <3>5. events2 = Written(a, 0, l)
      BY <1>1, <1>2, <1>4, <3>2, <3>3, WrittenJoin
    <3> HIDE DEF a
    <3>6. /\ r2 \in [seq : Nat, life : Life, parses : BOOLEAN]
          /\ r2.seq = Len(a) /\ r2.life = l /\ r2.parses = r.parses
      BY <1>1, <1>2, <1>4, <3>3, <3>4
    <3>7. Rewritten(r2, events2, a, r)
      BY <3>5, <3>6 DEF Rewritten, l
    <3>8. Told(a, l, l.st, l.prov, live, TRUE)
      BY <2>4, <3>2 DEF Told, Story, Modelled
    <3>9. Settled(a, r, rs, old)
      <4>1. a # <<>>
        BY <1>9, <3>4
      <4>2. QED
        BY <1>6, <1>9, <3>8, <4>1 DEF Settled, l, live
    <3>10. QED
      BY <3>2, <3>7, <3>9
  <2>5. QED
    BY <2>1, <2>3, <2>4
<1>10. QED
  BY <1>8, <1>9

\* The invariant of a job: its tokens number its events, and a job without
\* events is new, or does not parse, and holds nothing.
JobOK(r, events, rs) ==
    /\ Numbered(events, r.seq)
    /\ ~r.parses => events = <<>>
    /\ events = <<>> => (r.parses => r.life.st = "none") /\ ~Alive(rs)

\* What an upgrade has settled is a job as it should be.
LEMMA SettledOK ==
  ASSUME NEW r \in [seq : Nat, life : Life, parses : BOOLEAN], NEW rs \in Rows, NEW old \in BOOLEAN,
         NEW ver, NEW found, FoundOK(ver, r, found, rs, old),
         NEW a \in Seq(Ops), NEW r2, NEW events2, Rewritten(r2, events2, a, r), Settled(a, r, rs, old)
  PROVE  JobOK(r2, events2, rs) /\ (~old /\ r2.parses => Tells(events2, r2.life, rs))
<1> DEFINE l == r.life
<1>1. r2.seq = Len(a) /\ r2.life = l /\ r2.parses = r.parses /\ events2 = Written(a, 0, l)
  BY DEF Rewritten
<1>2. /\ a = <<>> <=> ~r.parses \/ l.st = "none"
      /\ a = <<>> => ~Alive(rs)
  BY DEF Settled
<1>3. l \in Life
  OBVIOUS
<1>4. Numbered(events2, Len(a)) /\ (events2 = <<>> <=> a = <<>>)
  BY <1>1, <1>3, NumberedWritten
<1>5. JobOK(r2, events2, rs)
  BY <1>1, <1>2, <1>4 DEF JobOK
<1>6. ASSUME ~old, r2.parses PROVE Tells(events2, l, rs)
  <2>1. /\ ver = 0 => l = Blank
        /\ ver # 0 => l \in Legacy
        /\ l.st # "placing"
        /\ \A p \in Providers : rs[p] = "live" => l.prov = p
    BY <1>6 DEF FoundOK
  <2>2. CASE a = <<>>
    <3>1. l.st = "none"
      BY <1>1, <1>2, <1>6, <2>2
    <3>2. l = Blank
      <4>1. l \notin Legacy
        BY <3>1, LegacyIs DEF Finished
      <4>2. QED
        BY <2>1, <4>1
    <3>3. l.prov = None /\ ~l.cached
      BY <3>2 DEF Blank
    <3>4. events2 = <<>> /\ ~Alive(rs)
      BY <1>2, <1>4, <2>2
    <3>5. Story(<<>>, "none", None, FALSE)
      BY StoryNew
    <3>6. Story(events2, l.st, l.prov, Alive(rs))
      BY <3>1, <3>3, <3>4, <3>5 DEF Story, Modelled
    <3> HIDE DEF l
    <3>7. QED
      BY <2>1, <3>3, <3>6 DEF Tells
  <2>3. CASE a # <<>>
    <3>1. PICK kept \in BOOLEAN : Told(a, l, l.st, l.prov, Alive(rs), kept) /\ (l.cached => kept)
      BY <1>6, <2>3 DEF Settled
    <3>2. Story(events2, l.st, l.prov, Alive(rs)) /\ (Kept(events2) <=> kept)
      BY <1>1, <3>1 DEF Told
    <3> HIDE DEF l
    <3>3. QED
      BY <2>1, <3>1, <3>2 DEF Tells
  <2>4. QED
    BY <2>2, <2>3
<1>7. QED
  BY <1>1, <1>5, <1>6

\* What the upgrade leaves of a job.
LEMMA Upgraded ==
  ASSUME Found, NEW j \in JobIds
  PROVE  LET db == Migrations(Database, version)
         IN  /\ db.row[j] \in [seq : Nat, life : Life, parses : BOOLEAN]
             /\ JobOK(db.row[j], db.log[j], rented[j])
             /\ j \notin adopted /\ db.row[j].parses => Tells(db.log[j], db.row[j].life, rented[j])
<1> DEFINE r == row[j]
           events == log[j]
           rs == rented[j]
           old == j \in adopted
           ver == version
           one == IF ver < 8 THEN To8(Database) ELSE Database
           two == To9(one)
<1>1. ver \in 0..8 /\ FoundOK(ver, r, events, rs, old)
  BY DEF Found
<1>2. r \in [seq : Nat, life : Life, parses : BOOLEAN] /\ rs \in Rows /\ old \in BOOLEAN
      /\ (old => r.life.st \notin Finished)
  BY <1>1 DEF FoundOK
<1> DEFINE bare == r.parses /\ r.life.st # "none" /\ events = <<>>
           h == Reconstruction(r.life)
           r1 == IF ver < 8 /\ bare THEN [r EXCEPT !.seq = Len(h)] ELSE r
           events1 == IF ver < 8 /\ bare THEN events \o Written(h, 0, r.life) ELSE events
<1>3. one.row[j] = r1 /\ one.log[j] = events1
  <2>1. Bare(Database, j) <=> bare
    BY DEF Bare, Database
  <2>2. CASE ver < 8
    <3>1. one = To8(Database)
      BY <2>2
    <3>2. /\ one.row[j] = IF Bare(Database, j) THEN [r EXCEPT !.seq = Len(h)] ELSE r
          /\ one.log[j] = IF Bare(Database, j) THEN events \o Written(h, 0, r.life) ELSE events
      BY <3>1 DEF To8, Database
    <3>3. QED
      BY <2>1, <2>2, <3>2
  <2>3. CASE ~(ver < 8)
    BY <2>3 DEF Database
  <2>4. QED
    BY <2>2, <2>3
<1> HIDE DEF ver
<1>4. PICK a \in Seq(Ops) : Rewritten(r1, events1, a, r) /\ Historied(a, r, rs, old)
  <2> HIDE DEF r, events, rs, old
  <2>1. QED
    BY <1>1, ToEight
<1> DEFINE x == FoldExt(Actions(events1))
           unclosed == r1.life.st \in Finished /\ ~Alive(rs) /\ x.open
           repair == IF x.captured THEN <<"reap">> ELSE <<"capture", "reap">>
           top == Max({r1.seq} \cup {events1[i].seq : i \in DOMAIN events1})
           r2 == IF unclosed THEN [r1 EXCEPT !.seq = top + Len(repair)] ELSE r1
           events2 == IF unclosed THEN events1 \o Written(repair, top, r1.life) ELSE events1
<1> HIDE DEF one, r1, events1, two
<1>5. two.row[j] = r2 /\ two.log[j] = events2
  <2>1. Unclosed(one, j) <=> unclosed
    BY <1>3 DEF Unclosed, Live, Alive
  <2> HIDE DEF unclosed
  <2>2. /\ two.row[j] = IF Unclosed(one, j) THEN [r1 EXCEPT !.seq = top + Len(repair)] ELSE r1
        /\ two.log[j] = IF Unclosed(one, j) THEN events1 \o Written(repair, top, r1.life) ELSE events1
    BY <1>3 DEF two, To9, Resumed
  <2>3. QED
    BY <2>1, <2>2
<1>6. PICK b \in Seq(Ops) : Rewritten(r2, events2, b, r) /\ Settled(b, r, rs, old)
  <2> HIDE DEF r, rs, old
  <2>1. QED
    BY <1>2, <1>4, ToNine
<1> HIDE DEF r2, events2
<1>7. JobOK(r2, events2, rs) /\ (~old /\ r2.parses => Tells(events2, r2.life, rs))
  <2> HIDE DEF r, rs, old, events
  <2>1. QED
    BY <1>1, <1>2, <1>6, SettledOK
<1>8. r2 \in [seq : Nat, life : Life, parses : BOOLEAN]
  BY <1>6 DEF Rewritten
<1>9. Migrations(Database, version) = two
  <2>1. ver < 9
    BY <1>1
  <2>2. QED
    BY <2>1 DEF Migrations, two, one, ver
<1>10. QED
  BY <1>5, <1>7, <1>8, <1>9

\* The upgrade rewrites every row of the jobs table, and no other.
LEMMA UpgradeRows ==
  ASSUME NEW db
  PROVE  /\ To9(db).log = [j \in JobIds |-> To9(db).log[j]]
         /\ To9(db).row = [j \in JobIds |-> To9(db).row[j]]
  BY DEF To9

-----------------------------------------------------------------------------
(* The calls: what a call has read, and what its caller checked.           *)

\* Where a thread is in its call.
Places == [pc : {"idle", "seq", "record", "commit", "save"}, job : JobIds \cup {None},
           op : Ops \cup {None}, prov : Providers \cup {None}, seq : Nat, life : Life, left : 0..3]
JobRows == [seq : Nat, life : Life, parses : BOOLEAN]
Calling == {"seq", "record", "commit"}

\* What a call has read is what is there, unless its token is old.
ReadsOK(w, t, r, events, lost) ==
    /\ t.pc # "idle" => t.job \in JobIds
    /\ t.pc \in Calling =>
         /\ t.op \in Ops /\ (t.op = "reserve" <=> t.prov # None)
         /\ w \notin Workers /\ (w \in Handlers <=> t.op \in ClientOps)
         /\ t.op # "submit" => events # <<>>
         /\ t.op = "submit" => /\ t.pc = "commit" /\ t.seq = 0 /\ t.left = 1
                               /\ t.life = Edit("submit", None, Blank)
    /\ t.pc \in {"record", "commit"} => t.seq <= r.seq
    /\ t.pc = "commit" /\ t.op # "submit" /\ t.seq = r.seq /\ ~lost =>
         r.life.st \in From[t.op] /\ t.life = Edit(t.op, t.prov, r.life)
    /\ t.pc = "save" => events # <<>>

CallOK(w) ==
    ReadsOK(w, thread[w], row[thread[w].job], log[thread[w].job], thread[w].job \in clobbered)

\* What the caller checked holds as long as the call may still go through, but for a
\* retry beside another handler's.
DueOK(t, l, made, live) ==
    t.pc \in Calling /\ (t.op # "retry" \/ Alone(Handlers)) =>
        Checked(t.op, l, made, live) \/ (t.op # "retry" /\ l.st \notin From[t.op])

\* The jobs with something out of line.
Odd == clobbered \cup adopted \cup {j \in JobIds : Outdated(j)}

StillDue(w) ==
    Alone(Loops) /\ thread[w].job \notin Odd =>
        DueOK(thread[w], row[thread[w].job].life, Made(log[thread[w].job]), Alive(rented[thread[w].job]))

TokensOK ==
    /\ log \in [JobIds -> Seq(Events)]
    /\ \A j \in JobIds : JobOK(row[j], log[j], rented[j])
StoriesOK ==
    \A j \in JobIds \ Odd : row[j].parses => Tells(log[j], row[j].life, rented[j])

\* A database that is open: of its tokens and of the calls, and of its stories and
\* of what the calls rest on.
OpenOK == TokensOK /\ \A w \in Threads : CallOK(w)
TruthOK == StoriesOK /\ ChecksOutlast /\ \A w \in Threads : StillDue(w)

\* The tables and the threads have their types.
Tables ==
    /\ row \in [JobIds -> JobRows] /\ rented \in [JobIds -> Rows] /\ thread \in [Threads -> Places]
    /\ clobbered \subseteq JobIds /\ adopted \subseteq JobIds /\ outdated \subseteq JobIds \X Ops

LEMMA TablesTyped ==
  ASSUME StoreTypeOK
  PROVE  Tables
  BY DEF StoreTypeOK, Tables, JobRows, Rows, Places

\* A thread asleep has read nothing and checked nothing.
LEMMA AsleepIs ==
  /\ Asleep \in Places /\ Asleep.pc = "idle"
  /\ \A w, r, events, lost : ReadsOK(w, Asleep, r, events, lost)
  /\ \A l, made, live : DueOK(Asleep, l, made, live)
<1>1. Asleep \in Places /\ Asleep.pc = "idle"
  BY BlankIs DEF Asleep, Places
<1>2. \A w, r, events, lost : ReadsOK(w, Asleep, r, events, lost)
  BY <1>1 DEF ReadsOK, Calling
<1>3. \A l, made, live : DueOK(Asleep, l, made, live)
  BY <1>1 DEF DueOK, Calling
<1>4. QED
  BY <1>1, <1>2, <1>3

\* A step of one thread that leaves the tables alone.
Moves(w, t) ==
    /\ row' = row /\ log' = log /\ rented' = rented /\ version' = version
    /\ clobbered' = clobbered /\ adopted' = adopted /\ outdated' = outdated
    /\ thread' = [thread EXCEPT ![w] = t]

LEMMA MovesKeep ==
  ASSUME Tables, OpenOK, NEW w \in Threads, NEW t \in Places, Moves(w, t),
         ReadsOK(w, t, row[t.job], log[t.job], t.job \in clobbered)
  PROVE  Tables' /\ OpenOK'
<1>1. /\ row' = row /\ log' = log /\ rented' = rented
      /\ clobbered' = clobbered /\ adopted' = adopted /\ outdated' = outdated
      /\ thread' = [thread EXCEPT ![w] = t]
  BY DEF Moves
<1>2. /\ thread' \in [Threads -> Places] /\ thread'[w] = t
      /\ \A v \in Threads : v # w => thread'[v] = thread[v]
  BY <1>1 DEF Tables
<1>3. Tables'
  BY <1>1, <1>2 DEF Tables
<1>4. TokensOK'
  BY <1>1 DEF OpenOK, TokensOK
<1>5. ASSUME NEW v \in Threads PROVE CallOK(v)'
  <2>1. CASE v = w
    BY <1>1, <1>2, <2>1 DEF CallOK
  <2>2. CASE v # w
    <3>1. thread'[v] = thread[v] /\ CallOK(v)
      BY <1>2, <2>2 DEF OpenOK
    <3>2. QED
      BY <1>1, <3>1 DEF CallOK
  <2>3. QED
    BY <2>1, <2>2
<1>6. QED
  BY <1>3, <1>4, <1>5 DEF OpenOK

\* The same of the stories.
LEMMA MovesTell ==
  ASSUME Tables, TruthOK, NEW w \in Threads, NEW t \in Places, Moves(w, t),
         Alone(Loops) /\ t.job \notin Odd =>
           DueOK(t, row[t.job].life, Made(log[t.job]), Alive(rented[t.job]))
  PROVE  TruthOK'
<1>1. /\ row' = row /\ log' = log /\ rented' = rented
      /\ clobbered' = clobbered /\ adopted' = adopted /\ outdated' = outdated
      /\ thread' = [thread EXCEPT ![w] = t]
  BY DEF Moves
<1>2. /\ thread'[w] = t
      /\ \A v \in Threads : v # w => thread'[v] = thread[v]
  BY <1>1 DEF Tables
<1>3. StoriesOK' /\ ChecksOutlast' /\ Odd' = Odd
  BY <1>1 DEF TruthOK, StoriesOK, ChecksOutlast, Odd, Outdated
<1>4. ASSUME NEW v \in Threads PROVE StillDue(v)'
  <2>1. CASE v = w
    BY <1>1, <1>2, <1>3, <2>1 DEF StillDue
  <2>2. CASE v # w
    <3>1. thread'[v] = thread[v] /\ StillDue(v)
      BY <1>2, <2>2 DEF TruthOK
    <3>2. QED
      BY <1>1, <1>3, <3>1 DEF StillDue
  <2>3. QED
    BY <2>1, <2>2
<1>5. QED
  BY <1>3, <1>4 DEF TruthOK

\* What the caller checks is about the record, the events and the resources.
LEMMA DueIs ==
  ASSUME NEW op, NEW j
  PROVE  Due(op, j) <=> Checked(op, row[j].life, Made(log[j]), Alive(rented[j]))
<1>1. Provisioned(j) <=> Made(log[j])
  BY DEF Provisioned, Made
<1>2. Live(rented, j) <=> Alive(rented[j])
  BY DEF Live, Alive
<1>3. QED
  BY <1>1, <1>2 DEF Due, Checked

\* A call is made.
LEMMA CallSteps ==
  ASSUME Tables, OpenOK, NEW w \in Threads, NEW op \in Ops, NEW j \in JobIds,
         NEW p \in Providers \cup {None}, Call(w, op, j, p)
  PROVE  \E t \in Places :
           /\ Moves(w, t)
           /\ ReadsOK(w, t, row[t.job], log[t.job], t.job \in clobbered)
           /\ DueOK(t, row[t.job].life, Made(log[t.job]), Alive(rented[t.job]))
<1> DEFINE t == [pc |-> IF op = "submit" THEN "commit" ELSE "seq", job |-> j, op |-> op, prov |-> p,
                 seq |-> 0, life |-> IF op = "submit" THEN Edit(op, p, Blank) ELSE Blank,
                 left |-> IF op = "submit" THEN 1 ELSE Retries(op)]
<1>1. /\ w \in Handlers <=> op \in ClientOps
      /\ w \notin Workers
      /\ op = "submit" \/ row[j].parses
      /\ Due(op, j) /\ (op = "reserve" <=> p # None)
      /\ thread' = [thread EXCEPT ![w] = t]
      /\ UNCHANGED <<version, row, log, rented, clobbered, adopted, outdated, saves>>
  BY DEF Call
<1>2. t \in Places
  <2>1. Edit(op, p, Blank) \in Life /\ Blank \in Life
    BY BlankIs, EditType
  <2>2. Retries(op) \in 0..3
    BY DEF Retries
  <2>3. QED
    BY <2>1, <2>2 DEF Places
<1>3. /\ t.pc = (IF op = "submit" THEN "commit" ELSE "seq") /\ t.job = j /\ t.op = op /\ t.prov = p
      /\ t.seq = 0 /\ (op = "submit" => t.left = 1 /\ t.life = Edit(op, p, Blank))
  OBVIOUS
<1> HIDE DEF t
<1>4. Moves(w, t)
  BY <1>1 DEF Moves
<1>5. DueOK(t, row[j].life, Made(log[j]), Alive(rented[j]))
  BY <1>1, <1>3, DueIs DEF DueOK
<1>6. op # "submit" => log[j] # <<>>
  <2>1. op # "submit" => row[j].parses /\ Due(op, j)
    BY <1>1
  <2>2. log[j] = <<>> => (row[j].parses => row[j].life.st = "none")
    BY DEF OpenOK, TokensOK, JobOK
  <2>3. ASSUME op # "submit", row[j].life.st = "none" PROVE ~Due(op, j)
    <3>1. \A l \in Life, made, live \in BOOLEAN : op # "submit" /\ l.st = "none" => ~Checked(op, l, made, live)
      <4> SUFFICES ASSUME NEW l \in Life, NEW made \in BOOLEAN, NEW live \in BOOLEAN, op # "submit",
                          l.st = "none", Checked(op, l, made, live)
                   PROVE  FALSE
        OBVIOUS
      <4>1. op \notin {"capture", "reap"}
        BY DEF Checked, From, Finished
      <4>2. QED
        BY <4>1, CheckedSays, OpsNamed DEF From, Pending, Finished
    <3>2. row[j].life \in Life /\ Made(log[j]) \in BOOLEAN /\ Alive(rented[j]) \in BOOLEAN
      BY DEF Tables, JobRows, Made, Alive
    <3>3. QED
      BY <2>3, <3>1, <3>2, DueIs
  <2>4. QED
    BY <2>1, <2>2, <2>3
<1>7. row[j].seq \in Nat
  BY DEF Tables, JobRows
<1>8. ReadsOK(w, t, row[j], log[j], j \in clobbered)
  BY <1>1, <1>3, <1>6, <1>7 DEF ReadsOK, Calling
<1>9. QED
  BY <1>2, <1>3, <1>4, <1>5, <1>8

\* The token is read.
LEMMA ReadSeqSteps ==
  ASSUME Tables, OpenOK, NEW w \in Threads, ReadSeq(w)
  PROVE  \E t \in Places :
           /\ Moves(w, t)
           /\ ReadsOK(w, t, row[t.job], log[t.job], t.job \in clobbered)
           /\ t.job = thread[w].job
           /\ \A l, made, live : DueOK(thread[w], l, made, live) => DueOK(t, l, made, live)
<1> DEFINE u == thread[w]
           j == u.job
           t == [u EXCEPT !.seq = row[j].seq, !.pc = "record"]
<1>1. /\ u.pc = "seq"
      /\ thread' = [thread EXCEPT ![w].seq = row[thread[w].job].seq, ![w].pc = "record"]
      /\ UNCHANGED <<version, row, log, rented, clobbered, adopted, outdated, calls, saves>>
  BY DEF ReadSeq
<1>2. u \in Places /\ ReadsOK(w, u, row[j], log[j], j \in clobbered)
  BY DEF Tables, OpenOK, CallOK
<1>3. j \in JobIds /\ u.op \in Ops /\ u.op # "submit"
  BY <1>1, <1>2 DEF ReadsOK, Calling
<1>4. row[j].seq \in Nat
  BY <1>3 DEF Tables, JobRows
<1>5. thread' = [thread EXCEPT ![w] = t]
  BY <1>1 DEF Tables
<1> HIDE DEF u
<1>6. t \in Places
  BY <1>2, <1>4 DEF Places
<1>7. t.pc = "record" /\ t.job = j /\ t.op = u.op /\ t.prov = u.prov /\ t.seq = row[j].seq
  BY <1>2 DEF Places
<1> HIDE DEF t
<1>8. Moves(w, t)
  BY <1>1, <1>5 DEF Moves
<1>9. ReadsOK(w, t, row[j], log[j], j \in clobbered)
  BY <1>1, <1>2, <1>3, <1>4, <1>7 DEF ReadsOK, Calling
<1>10. \A l, made, live : DueOK(u, l, made, live) => DueOK(t, l, made, live)
  BY <1>1, <1>7 DEF DueOK, Calling
<1>11. QED
  BY <1>6, <1>7, <1>8, <1>9, <1>10 DEF u

\* The record is read.
LEMMA ReadRecordSteps ==
  ASSUME Tables, OpenOK, NEW w \in Threads, ReadRecord(w)
  PROVE  \E t \in Places :
           /\ Moves(w, t)
           /\ ReadsOK(w, t, row[t.job], log[t.job], t.job \in clobbered)
           /\ t = Asleep \/ t.job = thread[w].job
           /\ \A l, made, live : DueOK(thread[w], l, made, live) => DueOK(t, l, made, live)
<1> DEFINE u == thread[w]
           j == u.job
           l0 == row[j].life
           reads == row[j].parses /\ l0.st \in From[u.op]
           t == IF reads THEN [u EXCEPT !.life = Edit(u.op, u.prov, l0), !.pc = "commit"] ELSE Asleep
<1>1. /\ u.pc = "record"
      /\ thread' = [thread EXCEPT ![w] = t]
      /\ UNCHANGED <<version, row, log, rented, clobbered, adopted, outdated, calls, saves>>
  BY DEF ReadRecord
<1>2. u \in Places /\ ReadsOK(w, u, row[j], log[j], j \in clobbered)
  BY DEF Tables, OpenOK, CallOK
<1>3. j \in JobIds /\ u.op \in Ops /\ u.op # "submit" /\ u.prov \in Providers \cup {None}
  BY <1>1, <1>2 DEF ReadsOK, Calling, Places
<1>4. row[j].seq \in Nat /\ l0 \in Life
  BY <1>3 DEF Tables, JobRows
<1>5. Moves(w, t)
  BY <1>1 DEF Moves
<1>6. CASE ~reads
  <2>1. t = Asleep
    BY <1>6
  <2> HIDE DEF t, u
  <2>2. QED
    BY <1>5, <2>1, AsleepIs
<1>7. CASE reads
  <2>1. Edit(u.op, u.prov, l0) \in Life
    BY <1>3, <1>4, EditType
  <2>2. t = [u EXCEPT !.life = Edit(u.op, u.prov, l0), !.pc = "commit"]
    BY <1>7
  <2>3. l0.st \in From[u.op]
    BY <1>7
  <2> HIDE DEF u, t, l0, reads
  <2>4. t \in Places
    BY <1>2, <2>1, <2>2 DEF Places
  <2>5. /\ t.pc = "commit" /\ t.job = j /\ t.op = u.op /\ t.prov = u.prov /\ t.seq = u.seq
        /\ t.life = Edit(u.op, u.prov, l0)
    BY <1>2, <2>2 DEF Places
  <2>6. ReadsOK(w, t, row[j], log[j], j \in clobbered)
    BY <1>1, <1>2, <1>3, <1>4, <2>3, <2>5 DEF ReadsOK, Calling, l0
  <2>7. \A l, made, live : DueOK(u, l, made, live) => DueOK(t, l, made, live)
    BY <1>1, <2>5 DEF DueOK, Calling
  <2>8. QED
    BY <1>5, <2>4, <2>5, <2>6, <2>7 DEF u
<1>8. QED
  BY <1>6, <1>7

\* A lost race.
LEMMA StaleSteps ==
  ASSUME Tables, OpenOK, NEW w \in Threads, Stale(w)
  PROVE  \E t \in Places :
           /\ Moves(w, t)
           /\ ReadsOK(w, t, row[t.job], log[t.job], t.job \in clobbered)
           /\ t = Asleep \/ t.job = thread[w].job
           /\ \A l, made, live : DueOK(thread[w], l, made, live) => DueOK(t, l, made, live)
<1> DEFINE u == thread[w]
           j == u.job
           t == IF u.left > 1 THEN [u EXCEPT !.pc = "seq", !.life = Blank, !.left = @ - 1] ELSE Asleep
<1>1. /\ u.pc = "commit"
      /\ thread' = [thread EXCEPT ![w] = t]
      /\ UNCHANGED <<version, row, log, rented, clobbered, adopted, outdated, calls, saves>>
  BY DEF Stale
<1>2. u \in Places /\ ReadsOK(w, u, row[j], log[j], j \in clobbered)
  BY DEF Tables, OpenOK, CallOK
<1>3. Moves(w, t)
  BY <1>1 DEF Moves
<1>4. CASE ~(u.left > 1)
  <2>1. t = Asleep
    BY <1>4
  <2> HIDE DEF t, u
  <2>2. QED
    BY <1>3, <2>1, AsleepIs
<1>5. CASE u.left > 1
  <2>1. t = [u EXCEPT !.pc = "seq", !.life = Blank, !.left = @ - 1]
    BY <1>5
  <2> HIDE DEF u, t
  <2>2. u.left - 1 \in 0..3
    BY <1>2, <1>5 DEF Places
  <2>3. t \in Places
    BY <1>2, <2>1, <2>2, BlankIs DEF Places
  <2>4. t.pc = "seq" /\ t.job = j /\ t.op = u.op /\ t.prov = u.prov
    BY <1>2, <2>1 DEF Places
  <2>5. u.op # "submit"
    <3>1. u.op = "submit" => u.left = 1
      BY <1>1, <1>2 DEF ReadsOK, Calling
    <3>2. QED
      BY <1>5, <3>1
  <2>6. ReadsOK(w, t, row[j], log[j], j \in clobbered)
    BY <1>1, <1>2, <2>4, <2>5 DEF ReadsOK, Calling
  <2>7. \A l, made, live : DueOK(u, l, made, live) => DueOK(t, l, made, live)
    BY <1>1, <2>4 DEF DueOK, Calling
  <2>8. QED
    BY <1>3, <2>3, <2>4, <2>6, <2>7 DEF u
<1>6. QED
  BY <1>4, <1>5

\* A record is loaded to be saved.
LEMMA FetchSteps ==
  ASSUME Tables, OpenOK, NEW w \in Threads, NEW j \in JobIds, Fetch(w, j)
  PROVE  \E t \in Places :
           /\ Moves(w, t)
           /\ ReadsOK(w, t, row[t.job], log[t.job], t.job \in clobbered)
           /\ \A l, made, live : DueOK(t, l, made, live)
<1> DEFINE t == [Asleep EXCEPT !.pc = "save", !.job = j, !.life = row[j].life]
<1>1. /\ row[j].parses /\ row[j].life.st \in {"placing", "running"}
      /\ thread' = [thread EXCEPT ![w] = t]
      /\ UNCHANGED <<version, row, log, rented, clobbered, adopted, outdated, calls>>
  BY DEF Fetch
<1>2. row[j].life \in Life
  BY DEF Tables, JobRows
<1>3. t \in Places /\ t.pc = "save" /\ t.job = j
  BY <1>2, AsleepIs DEF Places
<1> HIDE DEF t
<1>4. Moves(w, t)
  BY <1>1 DEF Moves
<1>5. log[j] # <<>>
  BY <1>1 DEF OpenOK, TokensOK, JobOK
<1>6. ReadsOK(w, t, row[j], log[j], j \in clobbered)
  BY <1>3, <1>5 DEF ReadsOK, Calling
<1>7. \A l, made, live : DueOK(t, l, made, live)
  BY <1>3 DEF DueOK, Calling
<1>8. QED
  BY <1>3, <1>4, <1>6, <1>7

\* What a transition does to the resources, job by job.
LEMMA RentsIs ==
  ASSUME NEW op \in Ops, NEW j \in JobIds, rented \in [JobIds -> Rows]
  PROVE  /\ Rents(op, j, rented)[j] = Rented(op, row[j].life.prov, rented[j])
         /\ \A k \in JobIds : k # j => Rents(op, j, rented)[k] = rented[k]
         /\ Rents(op, j, rented) = [k \in JobIds |-> Rents(op, j, rented)[k]]
<1> DEFINE p == row[j].life.prov
           rs == rented[j]
           x == Rents(op, j, rented)
<1>1. Live(rented, j) <=> Alive(rs)
  BY DEF Live, Alive
<1>2. CASE op = "provision" /\ p # None /\ ~Alive(rs)
  <2>1. x = [rented EXCEPT ![j][p] = IF @ = "released" THEN Minted(@) ELSE "live"]
    BY <1>1, <1>2 DEF Rents
  <2>2. x = [rented EXCEPT ![j] = [rs EXCEPT ![p] = "live"]]
    BY <2>1 DEF Minted
  <2>3. Rented(op, p, rs) = [rs EXCEPT ![p] = "live"]
    BY <1>2 DEF Rented
  <2> HIDE DEF x, rs, p
  <2>4. QED
    BY <2>2, <2>3 DEF x, rs, p
<1>3. CASE op \in {"reap", "release"} /\ p # None /\ rs[p] = "live"
  <2>1. x = [rented EXCEPT ![j][p] = "released"]
    BY <1>3 DEF Rents
  <2>2. x = [rented EXCEPT ![j] = [rs EXCEPT ![p] = "released"]]
    BY <2>1
  <2>3. Rented(op, p, rs) = [rs EXCEPT ![p] = "released"]
    BY <1>3 DEF Rented
  <2>4. QED
    BY <2>2, <2>3
<1>4. CASE ~(op = "provision" /\ p # None /\ ~Alive(rs)) /\ ~(op \in {"reap", "release"} /\ p # None /\ rs[p] = "live")
  <2>1. x = rented
    BY <1>1, <1>4 DEF Rents
  <2>2. Rented(op, p, rs) = rs
    BY <1>4 DEF Rented
  <2>3. QED
    BY <2>1, <2>2
<1>5. QED
  BY <1>2, <1>3, <1>4

\* What a transition writes.
Writes(w, j, op, p) ==
    LET n == row[j].seq IN
    /\ thread[w].pc = "commit" /\ thread[w].op = op /\ thread[w].job = j /\ thread[w].prov = p
    /\ row' \in [JobIds -> JobRows] /\ log' \in [JobIds -> Seq(Events)] /\ rented' \in [JobIds -> Rows]
    /\ row'[j] = [seq |-> n + 1, life |-> thread[w].life, parses |-> TRUE]
    /\ log'[j] = Append(log[j], Event(n + 1, op, p))
    /\ rented'[j] = Rented(op, row[j].life.prov, rented[j])
    /\ \A k \in JobIds : k # j => row'[k] = row[k] /\ log'[k] = log[k] /\ rented'[k] = rented[k]
    /\ thread' \in [Threads -> Places] /\ thread'[w] = Asleep
    /\ \A v \in Threads : v # w => thread'[v] = thread[v]
    /\ clobbered' = clobbered /\ adopted' = adopted /\ version' = version
    /\ outdated' = IF Due(op, j) THEN outdated ELSE outdated \cup {<<j, op>>}
    /\ w \notin Workers /\ (w \in Handlers <=> op \in ClientOps) /\ (op = "reserve" <=> p # None)
    /\ op = "submit" => log[j] = <<>> /\ p = None /\ thread[w].life = Edit("submit", None, Blank)
    /\ op # "submit" => log[j] # <<>>
    /\ op # "submit" /\ j \notin clobbered =>
         row[j].life.st \in From[op] /\ thread[w].life = Edit(op, p, row[j].life)

LEMMA CommitWrites ==
  ASSUME Tables, OpenOK, NEW w \in Threads, Commit(w)
  PROVE  \E j \in JobIds, op \in Ops, p \in Providers \cup {None} : Writes(w, j, op, p)
<1> DEFINE t == thread[w]
           j == t.job
           op == t.op
           p == t.prov
           n == row[j].seq
<1>1. /\ t.pc = "commit" /\ t.seq = n
      /\ row' = [row EXCEPT ![j] = [seq |-> n + 1, life |-> t.life, parses |-> TRUE]]
      /\ log' = [log EXCEPT ![j] = Append(@, Event(n + 1, op, p))]
      /\ rented' = Rents(op, j, rented)
      /\ thread' = [thread EXCEPT ![w] = Asleep]
      /\ version' = version /\ clobbered' = clobbered /\ adopted' = adopted
      /\ outdated' = IF Due(op, j) THEN outdated ELSE outdated \cup {<<j, op>>}
  BY DEF Commit, UpToDate
<1>2. t \in Places /\ ReadsOK(w, t, row[j], log[j], j \in clobbered)
  BY DEF Tables, OpenOK, CallOK
<1>3. j \in JobIds /\ op \in Ops /\ p \in Providers \cup {None} /\ t.life \in Life
  BY <1>1, <1>2 DEF ReadsOK, Calling, Places
<1>4. /\ row \in [JobIds -> JobRows] /\ log \in [JobIds -> Seq(Events)] /\ rented \in [JobIds -> Rows]
      /\ thread \in [Threads -> Places] /\ n \in Nat /\ Numbered(log[j], n)
      /\ row[j].life.prov \in Providers \cup {None}
  <2>1. /\ row \in [JobIds -> JobRows] /\ rented \in [JobIds -> Rows] /\ thread \in [Threads -> Places]
    BY DEF Tables
  <2>2. log \in [JobIds -> Seq(Events)] /\ Numbered(log[j], n)
    BY <1>3 DEF OpenOK, TokensOK, JobOK
  <2>3. row[j] \in JobRows
    BY <1>3, <2>1
  <2>4. n \in Nat /\ row[j].life.prov \in Providers \cup {None}
    BY <2>3 DEF JobRows, Life
  <2>5. QED
    BY <2>1, <2>2, <2>4
<1>5. /\ w \notin Workers /\ (w \in Handlers <=> op \in ClientOps) /\ (op = "reserve" <=> p # None)
      /\ op # "submit" => log[j] # <<>>
      /\ op = "submit" => t.seq = 0 /\ t.life = Edit("submit", None, Blank)
      /\ op # "submit" /\ j \notin clobbered => row[j].life.st \in From[op] /\ t.life = Edit(op, p, row[j].life)
  BY <1>1, <1>2 DEF ReadsOK, Calling
<1>6. op = "submit" => log[j] = <<>> /\ p = None
  <2>1. log[j] \in Seq(Events) /\ Len(log[j]) = n
    BY <1>4 DEF Numbered
  <2>2. n = 0 => log[j] = <<>>
    BY <2>1
  <2>3. QED
    BY <1>1, <1>5, <2>2
<1>7. Event(n + 1, op, p) \in Events /\ Append(log[j], Event(n + 1, op, p)) \in Seq(Events)
  BY <1>3, <1>4, NumberedAppend DEF Numbered
<1>8. /\ Rents(op, j, rented)[j] = Rented(op, row[j].life.prov, rented[j])
      /\ \A k \in JobIds : k # j => Rents(op, j, rented)[k] = rented[k]
      /\ Rents(op, j, rented) = [k \in JobIds |-> Rents(op, j, rented)[k]]
  BY <1>3, <1>4, RentsIs
<1> HIDE DEF t, j, op, p, n
<1>9. Rented(op, row[j].life.prov, rented[j]) \in Rows
  <2>1. rented[j] \in Rows
    BY <1>3, <1>4
  <2>2. QED
    BY <1>4, <2>1 DEF Rented, Rows
<1>10. /\ rented' \in [JobIds -> Rows]
       /\ rented'[j] = Rented(op, row[j].life.prov, rented[j])
       /\ \A k \in JobIds : k # j => rented'[k] = rented[k]
  <2> DEFINE x == Rents(op, j, rented)
  <2> HIDE DEF x
  <2>1. x = [k \in JobIds |-> x[k]] /\ \A k \in JobIds : x[k] \in Rows
    BY <1>3, <1>4, <1>8, <1>9 DEF x
  <2>2. QED
    BY <1>1, <1>8, <2>1 DEF x
<1>11. [seq |-> n + 1, life |-> t.life, parses |-> TRUE] \in JobRows
  BY <1>3, <1>4 DEF JobRows
<1>12. /\ row' \in [JobIds -> JobRows] /\ row'[j] = [seq |-> n + 1, life |-> t.life, parses |-> TRUE]
       /\ \A k \in JobIds : k # j => row'[k] = row[k]
  BY <1>1, <1>3, <1>4, <1>11
<1>13. /\ log' \in [JobIds -> Seq(Events)] /\ log'[j] = Append(log[j], Event(n + 1, op, p))
       /\ \A k \in JobIds : k # j => log'[k] = log[k]
  BY <1>1, <1>3, <1>4, <1>7
<1>14. /\ thread' \in [Threads -> Places] /\ thread'[w] = Asleep
       /\ \A v \in Threads : v # w => thread'[v] = thread[v]
  BY <1>1, <1>4, AsleepIs
<1>15. Writes(w, j, op, p)
  BY <1>1, <1>5, <1>6, <1>10, <1>12, <1>13, <1>14 DEF Writes, t, j, op, p, n
<1>16. QED
  BY <1>3, <1>15

\* A transition by another thread makes the token of a call old.
LEMMA ReadsGrow ==
  ASSUME NEW w, NEW t \in Places, NEW r \in JobRows, NEW events, NEW lost, ReadsOK(w, t, r, events, lost),
         NEW r2 \in JobRows, r2.seq = r.seq + 1, NEW events2, events2 # <<>>, NEW lost2
  PROVE  ReadsOK(w, t, r2, events2, lost2)
<1>1. t.seq \in Nat /\ r.seq \in Nat /\ r2.seq \in Nat
  BY DEF Places, JobRows
<1>2. t.pc \in {"record", "commit"} => t.seq <= r2.seq /\ t.seq # r2.seq
  <2>1. t.pc \in {"record", "commit"} => t.seq <= r.seq
    BY DEF ReadsOK
  <2>2. QED
    BY <1>1, <2>1
<1>3. QED
  BY <1>2 DEF ReadsOK

\* A thread that is not in a call is as it should be whatever it finds.
LEMMA IdleReads ==
  ASSUME NEW w, NEW t, t.pc = "idle", NEW r, NEW events, NEW lost
  PROVE  ReadsOK(w, t, r, events, lost)
  BY DEF ReadsOK, Calling

\* A transition keeps what holds of the tables and of the calls.
LEMMA CommitKeeps ==
  ASSUME Tables, OpenOK, NEW w \in Threads, Commit(w)
  PROVE  Tables' /\ OpenOK'
<1>1. PICK j \in JobIds, op \in Ops, p \in Providers \cup {None} : Writes(w, j, op, p)
  BY CommitWrites
<1> DEFINE n == row[j].seq
<1>2. /\ row' \in [JobIds -> JobRows] /\ log' \in [JobIds -> Seq(Events)] /\ rented' \in [JobIds -> Rows]
      /\ row'[j] = [seq |-> n + 1, life |-> thread[w].life, parses |-> TRUE]
      /\ log'[j] = Append(log[j], Event(n + 1, op, p))
      /\ \A k \in JobIds : k # j => row'[k] = row[k] /\ log'[k] = log[k] /\ rented'[k] = rented[k]
      /\ thread' \in [Threads -> Places] /\ thread'[w] = Asleep
      /\ \A v \in Threads : v # w => thread'[v] = thread[v]
      /\ clobbered' = clobbered /\ adopted' = adopted
      /\ outdated' \in {outdated, outdated \cup {<<j, op>>}}
  BY <1>1 DEF Writes
<1>3. /\ row \in [JobIds -> JobRows] /\ n \in Nat /\ row[j] \in JobRows
      /\ \A k \in JobIds : JobOK(row[k], log[k], rented[k])
      /\ \A v \in Threads : CallOK(v)
      /\ thread \in [Threads -> Places]
  BY DEF Tables, OpenOK, TokensOK, JobRows
<1>4. Tables'
  BY <1>2 DEF Tables
<1>5. /\ row'[j].seq = n + 1 /\ row'[j].parses = TRUE
  BY <1>2
<1>6. Numbered(log'[j], n + 1) /\ log'[j] # <<>>
  <2>1. Numbered(log[j], n)
    BY <1>3 DEF JobOK
  <2>2. QED
    BY <1>2, <1>3, <2>1, NumberedAppend
<1> HIDE DEF n
<1>7. ASSUME NEW k \in JobIds PROVE JobOK(row[k], log[k], rented[k])'
  <2>1. CASE k = j
    BY <1>5, <1>6, <2>1 DEF JobOK
  <2>2. CASE k # j
    <3>1. row'[k] = row[k] /\ log'[k] = log[k] /\ rented'[k] = rented[k]
      BY <1>2, <2>2
    <3>2. QED
      BY <1>3, <3>1
  <2>3. QED
    BY <2>1, <2>2
<1>8. TokensOK'
  BY <1>2, <1>7 DEF TokensOK
<1>9. ASSUME NEW v \in Threads PROVE CallOK(v)'
  <2>1. CASE v = w
    BY <1>2, <2>1, AsleepIs DEF CallOK
  <2>2. CASE v # w
    <3> DEFINE u == thread[v]
    <3>1. thread'[v] = u /\ u \in Places
      BY <1>2, <1>3, <2>2
    <3>2. ReadsOK(v, u, row[u.job], log[u.job], u.job \in clobbered)
      BY <1>3 DEF CallOK
    <3> HIDE DEF u
    <3>3. CASE u.pc = "idle"
      BY <3>1, <3>3, IdleReads DEF CallOK
    <3>4. CASE u.pc # "idle" /\ u.job = j
      <4>1. row'[j] \in JobRows /\ row'[j].seq = row[j].seq + 1
        BY <1>2, <1>5 DEF n
      <4>2. ReadsOK(v, u, row'[j], log'[j], j \in clobbered)
        BY <1>3, <1>6, <3>1, <3>2, <3>4, <4>1, ReadsGrow
      <4>3. QED
        BY <1>2, <3>1, <3>4, <4>2 DEF CallOK
    <3>5. CASE u.pc # "idle" /\ u.job # j
      <4>1. u.job \in JobIds
        BY <3>2, <3>5 DEF ReadsOK
      <4>2. row'[u.job] = row[u.job] /\ log'[u.job] = log[u.job]
        BY <1>2, <3>5, <4>1
      <4>3. QED
        BY <1>2, <3>1, <3>2, <4>2 DEF CallOK
    <3>6. QED
      BY <3>3, <3>4, <3>5
  <2>3. QED
    BY <2>1, <2>2
<1>10. QED
  BY <1>4, <1>8, <1>9 DEF OpenOK

\* What was checked holds after an edit that only reprioritizes.
LEMMA CheckedSame ==
  ASSUME NEW op, NEW l, NEW x, NEW made, NEW live,
         x.st = l.st, x.prov = l.prov, x.cached = l.cached, x.reaped = l.reaped
  PROVE  Checked(op, x, made, live) <=> Checked(op, l, made, live)
  BY DEF Checked

\* A transition of one side leaves the other side's check in force, or its call
\* unable to go through.
LEMMA DueAfter ==
  ASSUME NEW events \in Seq(Events), NEW l \in Life, NEW rs \in Rows,
         \A q \in Providers : rs[q] = "live" => l.prov = q,
         NEW op \in Ops \ {"submit"}, NEW p \in Providers \cup {None}, NEW n \in Nat, l.st \in From[op],
         Checked(op, l, Made(events), Alive(rs)),
         NEW other \in Ops, other \in ClientOps <=> op \notin ClientOps,
         Checked(other, l, Made(events), Alive(rs)) \/ (other # "retry" /\ l.st \notin From[other])
  PROVE  LET x == Edit(op, p, l)
             more == Append(events, Event(n, op, p))
             rx == Rented(op, l.prov, rs)
         IN  Checked(other, x, Made(more), Alive(rx)) \/ (other # "retry" /\ x.st \notin From[other])
<1> DEFINE x == Edit(op, p, l)
           more == Append(events, Event(n, op, p))
           rx == Rented(op, l.prov, rs)
           made == Made(events)
           live == Alive(rs)
<1>1. l.prov \in Providers \cup {None} /\ x \in Life
  BY EditType DEF Life
<1>2. /\ op \in {"reap", "release"} => ~Alive(rx)
      /\ op \notin {"provision", "reap", "release"} => rx = rs
  BY <1>1, RentedIs
<1>3. x.st = Into(op, l.st) /\ x.prov = Goes(op, p, l.prov)
  BY EditIs
<1>4. made \in BOOLEAN /\ live \in BOOLEAN /\ Made(more) \in BOOLEAN /\ Alive(rx) \in BOOLEAN
  BY DEF Made, Alive
<1>5. Event(n, op, p) \in Events /\ Event(n, op, p).op = op
  BY DEF Event, Events
<1>6. Made(more) <=> op = "provision" \/ (made /\ op # "reserve")
  BY <1>5, MadeAppend
<1>7. op = "reprioritize" => x.cached = l.cached /\ x.reaped = l.reaped
  <2>1. l.cached \in BOOLEAN /\ l.reaped \in BOOLEAN
    BY DEF Life
  <2> SUFFICES ASSUME op = "reprioritize" PROVE x.cached = l.cached /\ x.reaped = l.reaped
    OBVIOUS
  <2>2. /\ (op = "capture" \/ (l.cached /\ op \notin {"requeue", "retry"})) = l.cached
        /\ (op = "reap" \/ (l.reaped /\ op \notin {"requeue", "retry"})) = l.reaped
    BY <2>1
  <2>3. QED
    BY <2>2 DEF Edit
<1> HIDE DEF x, more, rx, made, live
<1> SUFFICES Checked(other, x, Made(more), Alive(rx)) \/ (other # "retry" /\ x.st \notin From[other])
  BY DEF x, more, rx
<1>8. CASE other = "submit"
  BY <1>1, <1>4, <1>8, CheckedSays
<1>9. CASE other = "reprioritize"
  BY <1>1, <1>4, <1>9, CheckedSays
<1>10. CASE other = "retry"
  <2>1. l.st \in Finished /\ ~live
    BY <1>4, <1>10, CheckedSays DEF made, live
  <2>2. op \in {"capture", "reap"}
    <3>1. op \notin ClientOps
      BY <1>10 DEF ClientOps
    <3>2. QED
      BY <2>1, <3>1, OpsNamed DEF ClientOps, From, Pending, Finished
  <2>3. x.st = l.st /\ ~Alive(rx)
    BY <1>2, <1>3, <2>1, <2>2 DEF Into, live
  <2>4. QED
    BY <1>1, <1>4, <1>10, <2>1, <2>3, CheckedSays
<1>11. CASE other \notin ClientOps /\ op = "retry"
  <2>1. x.st = "queued"
    BY <1>3, <1>11 DEF Into
  <2>2. other \in {"reserve", "hold", "fail", "cancel"} \/ "queued" \notin From[other]
    BY <1>11, OpsNamed DEF ClientOps, From, Pending, Finished
  <2>3. CASE other \in {"reserve", "hold", "fail"}
    <3>1. x.st \in From[other]
      BY <2>1, <2>3 DEF From, Pending
    <3>2. QED
      BY <1>1, <1>4, <2>3, <3>1, CheckedSays
  <2>4. CASE other = "cancel"
    <3>1. x.st \in Pending
      BY <2>1 DEF Pending
    <3>2. QED
      BY <1>1, <1>4, <2>4, <3>1, CheckedSays
  <2>5. CASE "queued" \notin From[other]
    BY <1>11, <2>1, <2>5 DEF ClientOps
  <2>6. QED
    BY <2>2, <2>3, <2>4, <2>5
<1>12. CASE other \notin ClientOps /\ op = "reprioritize"
  <2>1. x.st = l.st /\ x.prov = l.prov
    BY <1>3, <1>12 DEF Into, Goes
  <2>2. Checked(other, x, Made(more), Alive(rx)) <=> Checked(other, l, Made(more), Alive(rx))
    BY <1>7, <1>12, <2>1, CheckedSame
  <2>3. Made(more) = made /\ rx = rs
    BY <1>2, <1>4, <1>6, <1>12
  <2>4. QED
    BY <2>1, <2>2, <2>3 DEF made, live
<1>13. other \in ClientOps \/ op \in {"retry", "reprioritize"}
  BY DEF ClientOps
<1>14. QED
  BY <1>8, <1>9, <1>10, <1>11, <1>12, <1>13 DEF ClientOps

\* A transition carries the stories on, and leaves the other calls in force.
LEMMA CommitTells ==
  ASSUME Tables, OpenOK, TruthOK, NEW w \in Threads, Commit(w)
  PROVE  TruthOK'
<1>1. PICK j \in JobIds, op \in Ops, p \in Providers \cup {None} : Writes(w, j, op, p)
  BY CommitWrites
<1> DEFINE n == row[j].seq
           l == row[j].life
           events == log[j]
           rs == rented[j]
<1>2. /\ thread[w].pc = "commit" /\ thread[w].op = op /\ thread[w].job = j
      /\ row'[j] = [seq |-> n + 1, life |-> thread[w].life, parses |-> TRUE]
      /\ log'[j] = Append(events, Event(n + 1, op, p))
      /\ rented'[j] = Rented(op, l.prov, rs)
      /\ \A k \in JobIds : k # j => row'[k] = row[k] /\ log'[k] = log[k] /\ rented'[k] = rented[k]
      /\ thread'[w] = Asleep
      /\ \A v \in Threads : v # w => thread'[v] = thread[v]
      /\ clobbered' = clobbered /\ adopted' = adopted
      /\ outdated' = IF Due(op, j) THEN outdated ELSE outdated \cup {<<j, op>>}
      /\ w \notin Workers /\ (w \in Handlers <=> op \in ClientOps) /\ (op = "reserve" <=> p # None)
      /\ op = "submit" => events = <<>> /\ p = None /\ thread[w].life = Edit("submit", None, Blank)
      /\ op # "submit" => events # <<>>
      /\ op # "submit" /\ j \notin clobbered => l.st \in From[op] /\ thread[w].life = Edit(op, p, l)
  BY <1>1 DEF Writes
<1>3. /\ n \in Nat /\ n + 1 \in Nat /\ l \in Life /\ rs \in Rows /\ JobOK(row[j], events, rs)
      /\ events \in Seq(Events) /\ row[j].parses \in BOOLEAN
  BY DEF Tables, OpenOK, TokensOK, JobRows
<1>4. row'[j].life = thread[w].life /\ row'[j].parses
  BY <1>2
<1>5. Due(op, j) <=> Checked(op, l, Made(events), Alive(rs))
  BY DueIs
<1>6. \A k \in JobIds : k \notin Odd' => k \notin Odd
  BY <1>2 DEF Odd, Outdated
<1>7. j \notin Odd' => Checked(op, l, Made(events), Alive(rs))
  BY <1>2, <1>5 DEF Odd, Outdated
<1>8. ASSUME j \notin Odd, op # "submit"
      PROVE  /\ Tells(events, l, rs) /\ l.st \in From[op] /\ thread[w].life = Edit(op, p, l)
             /\ \A q \in Providers : rs[q] = "live" => l.prov = q
  <2>1. l.st \in From[op] /\ thread[w].life = Edit(op, p, l)
    BY <1>2, <1>8 DEF Odd
  <2>2. Tells(events, l, rs)
    <3>1. row[j].parses
      BY <1>2, <1>3, <1>8 DEF JobOK
    <3>2. QED
      BY <1>8, <3>1 DEF TruthOK, StoriesOK
  <2>3. QED
    BY <2>1, <2>2 DEF Tells
<1>9. ASSUME Alone(Loops), j \notin Odd, ~Due(op, j) PROVE op = "retry" /\ ~Alone(Handlers)
  <2>1. op # "submit"
    BY <1>9 DEF Due
  <2>2. DueOK(thread[w], l, Made(events), Alive(rs))
    <3>1. StillDue(w)
      BY DEF TruthOK
    <3>2. QED
      BY <1>2, <1>9, <3>1 DEF StillDue
  <2>3. QED
    BY <1>2, <1>5, <1>8, <1>9, <2>1, <2>2 DEF DueOK, Calling
<1>10. ChecksOutlast'
  <2> SUFFICES ASSUME Alone(Loops), NEW k \in JobIds \ (clobbered \cup adopted), Outdated(k)'
               PROVE  <<k, "retry">> \in outdated' /\ ~Alone(Handlers)
    BY <1>2 DEF ChecksOutlast, Alone
  <2>1. CASE Outdated(k)
    BY <1>2, <2>1 DEF TruthOK, ChecksOutlast
  <2>2. CASE ~Outdated(k)
    <3>1. k = j /\ ~Due(op, j) /\ outdated' = outdated \cup {<<j, op>>}
      BY <1>2, <2>2 DEF Outdated
    <3>2. j \notin Odd
      BY <2>2, <3>1 DEF Odd
    <3>3. QED
      BY <1>9, <3>1, <3>2
  <2>3. QED
    BY <2>1, <2>2
<1> HIDE DEF n, l, events, rs
<1>11. ASSUME NEW k \in JobIds \ Odd', row'[k].parses
       PROVE  Tells(log'[k], row'[k].life, rented'[k])
  <2>1. CASE k # j
    <3>1. row'[k] = row[k] /\ log'[k] = log[k] /\ rented'[k] = rented[k]
      BY <1>2, <2>1
    <3>2. QED
      BY <1>6, <1>11, <3>1 DEF TruthOK, StoriesOK
  <2>2. CASE k = j /\ op = "submit"
    <3>1. events = <<>> /\ p = None /\ thread[w].life = Edit("submit", None, Blank)
      BY <1>2, <2>2
    <3>2. ~Alive(rs)
      BY <1>3, <3>1 DEF JobOK
    <3>3. Rented(op, l.prov, rs) = Rented("submit", None, rs)
      BY <2>2 DEF Rented
    <3>4. Tells(Append(<<>>, Event(n + 1, "submit", None)), Edit("submit", None, Blank), Rented("submit", None, rs))
      BY <1>3, <3>2, TellsSubmit
    <3>5. QED
      BY <1>2, <1>4, <2>2, <3>1, <3>3, <3>4
  <2>3. CASE k = j /\ op # "submit"
    <3>1. /\ Tells(events, l, rs) /\ Checked(op, l, Made(events), Alive(rs))
          /\ l.st \in From[op] /\ thread[w].life = Edit(op, p, l)
      BY <1>6, <1>7, <1>8, <1>11, <2>3
    <3>2. op = "reserve" <=> p # None
      BY <1>2
    <3>3. Tells(Append(events, Event(n + 1, op, p)), Edit(op, p, l), Rented(op, l.prov, rs))
      BY <1>3, <2>3, <3>1, <3>2, TellsStep
    <3>4. QED
      BY <1>2, <1>4, <2>3, <3>1, <3>3
  <2>4. QED
    BY <2>1, <2>2, <2>3
<1>12. StoriesOK'
  BY <1>2, <1>11 DEF StoriesOK
<1>13. ASSUME NEW v \in Threads PROVE StillDue(v)'
  <2>1. CASE v = w
    BY <1>2, <2>1, AsleepIs DEF StillDue
  <2>2. CASE v # w
    <3> DEFINE u == thread[v]
    <3>1. thread'[v] = u
      BY <1>2, <2>2
    <3>2. ReadsOK(v, u, row[u.job], log[u.job], u.job \in clobbered) /\ StillDue(v)
      BY DEF OpenOK, CallOK, TruthOK
    <3>3. Alone(Loops) /\ u.job \notin Odd =>
            DueOK(u, row[u.job].life, Made(log[u.job]), Alive(rented[u.job]))
      BY <3>2 DEF StillDue
    <3> HIDE DEF u
    <3>4. CASE u.pc \notin Calling
      BY <3>1, <3>4 DEF StillDue, DueOK
    <3>5. CASE u.pc \in Calling /\ u.job # j
      <4>1. u.job \in JobIds
        BY <3>2, <3>5 DEF ReadsOK, Calling
      <4>2. row'[u.job] = row[u.job] /\ log'[u.job] = log[u.job] /\ rented'[u.job] = rented[u.job]
        BY <1>2, <3>5, <4>1
      <4>3. QED
        BY <1>2, <1>6, <3>1, <3>3, <4>1, <4>2 DEF StillDue
    <3>6. CASE u.pc \in Calling /\ u.job = j
      <4>1. /\ u.op \in Ops /\ v \notin Workers /\ (v \in Handlers <=> u.op \in ClientOps)
            /\ u.op # "submit" => events # <<>>
        BY <3>2, <3>6 DEF ReadsOK, events
      <4>2. row'[j].life \in Life /\ Made(log'[j]) \in BOOLEAN /\ Alive(rented'[j]) \in BOOLEAN
        BY <1>2, <1>4 DEF Tables, Places, Made, Alive
      <4>3. CASE u.op \in {"submit", "reprioritize"}
        BY <3>1, <3>6, <4>1, <4>2, <4>3, CheckedSays DEF StillDue, DueOK
      <4>4. CASE u.op = "retry" /\ ~Alone(Handlers)
        BY <3>1, <4>4 DEF StillDue, DueOK
      <4>5. ASSUME u.op \notin {"submit", "reprioritize"}, u.op # "retry" \/ Alone(Handlers),
                   Alone(Loops), j \notin Odd'
            PROVE  DueOK(u, row'[j].life, Made(log'[j]), Alive(rented'[j]))
        <5>1. DueOK(u, l, Made(events), Alive(rs))
          BY <1>6, <3>3, <3>6, <4>5 DEF l, events, rs
        <5>2. Checked(u.op, l, Made(events), Alive(rs)) \/ (u.op # "retry" /\ l.st \notin From[u.op])
          BY <3>6, <4>5, <5>1 DEF DueOK
        <5>3. op # "submit"
          BY <1>2, <4>1, <4>5
        <5>4. u.op \in ClientOps <=> op \notin ClientOps
          BY <1>2, <2>2, <4>1, <4>5 DEF Alone, Threads, ClientOps
        <5>5. /\ Checked(op, l, Made(events), Alive(rs)) /\ l.st \in From[op]
              /\ thread[w].life = Edit(op, p, l)
              /\ \A q \in Providers : rs[q] = "live" => l.prov = q
          BY <1>6, <1>7, <1>8, <4>5, <5>3
        <5> DEFINE x == Edit(op, p, l)
                   more == Append(events, Event(n + 1, op, p))
                   rx == Rented(op, l.prov, rs)
        <5>6. Checked(u.op, x, Made(more), Alive(rx)) \/ (u.op # "retry" /\ x.st \notin From[u.op])
          BY <1>3, <4>1, <5>2, <5>3, <5>4, <5>5, DueAfter
        <5>7. row'[j].life = x /\ log'[j] = more /\ rented'[j] = rx
          BY <1>2, <1>4, <5>5
        <5> HIDE DEF x, more, rx
        <5>8. QED
          BY <5>6, <5>7 DEF DueOK
      <4>6. QED
        BY <1>2, <3>1, <3>6, <4>3, <4>4, <4>5 DEF StillDue
    <3>7. QED
      BY <3>4, <3>5, <3>6
  <2>3. QED
    BY <2>1, <2>2
<1>14. QED
  BY <1>10, <1>12, <1>13 DEF TruthOK

\* What a plain save writes: a record read earlier, over the one that is there.
Saves(w, j) ==
    LET l == thread[w].life IN
    /\ row' \in [JobIds -> JobRows] /\ log' = log /\ rented' = rented
    /\ row'[j].seq = row[j].seq /\ row'[j].life = l /\ row'[j].parses = TRUE
    /\ row[j].parses = TRUE /\ log[j] # <<>>
    /\ \A k \in JobIds : k # j => row'[k] = row[k]
    /\ clobbered' = (IF row[j].life = l THEN clobbered ELSE clobbered \cup {j})
    /\ adopted' = adopted /\ outdated' = outdated /\ version' = version
    /\ thread' \in [Threads -> Places] /\ thread'[w] = Asleep
    /\ \A v \in Threads : v # w => thread'[v] = thread[v]

LEMMA SaveWrites ==
  ASSUME Tables, OpenOK, NEW w \in Threads, Save(w)
  PROVE  \E j \in JobIds : Saves(w, j)
<1> DEFINE t == thread[w]
           j == t.job
<1>1. /\ t.pc = "save"
      /\ row' = [row EXCEPT ![j].life = t.life, ![j].parses = TRUE]
      /\ clobbered' = IF row[j].life = t.life THEN clobbered ELSE clobbered \cup {j}
      /\ thread' = [thread EXCEPT ![w] = Asleep]
      /\ version' = version /\ log' = log /\ rented' = rented /\ adopted' = adopted
      /\ outdated' = outdated
  BY DEF Save
<1>2. t \in Places /\ ReadsOK(w, t, row[j], log[j], j \in clobbered)
  BY DEF Tables, OpenOK, CallOK
<1>3. j \in JobIds /\ t.life \in Life /\ log[j] # <<>>
  BY <1>1, <1>2 DEF ReadsOK, Places
<1>4. row \in [JobIds -> JobRows] /\ thread \in [Threads -> Places] /\ row[j] \in JobRows
  BY <1>3 DEF Tables
<1>5. row[j].parses = TRUE
  <2>1. row[j].parses \in BOOLEAN
    BY <1>4 DEF JobRows
  <2>2. JobOK(row[j], log[j], rented[j])
    BY <1>3 DEF OpenOK, TokensOK
  <2>3. QED
    BY <1>3, <2>1, <2>2 DEF JobOK
<1> HIDE DEF t, j
<1> DEFINE r == [row[j] EXCEPT !.life = t.life, !.parses = TRUE]
<1>6. r \in JobRows /\ r.seq = row[j].seq /\ r.life = t.life /\ r.parses = TRUE
  BY <1>3, <1>4 DEF JobRows
<1>7. row' = [row EXCEPT ![j] = r]
  BY <1>1, <1>3, <1>4
<1> HIDE DEF r
<1>8. row' \in [JobIds -> JobRows] /\ row'[j] = r /\ \A k \in JobIds : k # j => row'[k] = row[k]
  BY <1>3, <1>4, <1>6, <1>7
<1>9. /\ thread' \in [Threads -> Places] /\ thread'[w] = Asleep
      /\ \A v \in Threads : v # w => thread'[v] = thread[v]
  BY <1>1, <1>4, AsleepIs
<1>10. Saves(w, j)
  BY <1>1, <1>3, <1>5, <1>6, <1>8, <1>9 DEF Saves, t
<1>11. QED
  BY <1>3, <1>10

\* A save keeps what holds of the tables and of the calls.
LEMMA SaveKeeps ==
  ASSUME Tables, OpenOK, NEW w \in Threads, Save(w)
  PROVE  Tables' /\ OpenOK'
<1>1. PICK j \in JobIds : Saves(w, j)
  BY SaveWrites
<1>2. /\ row' \in [JobIds -> JobRows] /\ log' = log /\ rented' = rented
      /\ row'[j].seq = row[j].seq /\ row'[j].life = thread[w].life /\ row'[j].parses = TRUE
      /\ log[j] # <<>>
      /\ \A k \in JobIds : k # j => row'[k] = row[k]
      /\ clobbered' = (IF row[j].life = thread[w].life THEN clobbered ELSE clobbered \cup {j})
      /\ adopted' = adopted /\ outdated' = outdated
      /\ thread' \in [Threads -> Places] /\ thread'[w] = Asleep
      /\ \A v \in Threads : v # w => thread'[v] = thread[v]
  BY <1>1 DEF Saves
<1>3. Tables'
  BY <1>2 DEF Tables
<1>4. ASSUME NEW k \in JobIds PROVE JobOK(row[k], log[k], rented[k])'
  <2>1. JobOK(row[k], log[k], rented[k])
    BY DEF OpenOK, TokensOK
  <2>2. CASE k = j
    BY <1>2, <2>1, <2>2 DEF JobOK
  <2>3. CASE k # j
    <3>1. row'[k] = row[k] /\ log'[k] = log[k] /\ rented'[k] = rented[k]
      BY <1>2, <2>3
    <3>2. QED
      BY <2>1, <3>1
  <2>4. QED
    BY <2>2, <2>3
<1>5. TokensOK'
  BY <1>2, <1>4 DEF OpenOK, TokensOK
<1>6. ASSUME NEW v \in Threads PROVE CallOK(v)'
  <2>1. CASE v = w
    BY <1>2, <2>1, AsleepIs DEF CallOK
  <2>2. CASE v # w
    <3> DEFINE u == thread[v]
    <3>1. thread'[v] = u
      BY <1>2, <2>2
    <3>2. ReadsOK(v, u, row[u.job], log[u.job], u.job \in clobbered)
      BY DEF OpenOK, CallOK
    <3> HIDE DEF u
    <3>3. CASE u.pc = "idle"
      BY <3>1, <3>3, IdleReads DEF CallOK
    <3>4. CASE u.pc # "idle" /\ u.job = j
      <4>1. row'[j].life = row[j].life \/ j \in clobbered'
        BY <1>2
      <4>2. j \in clobbered => j \in clobbered'
        BY <1>2
      <4>3. ReadsOK(v, u, row'[j], log[j], j \in clobbered')
        BY <1>2, <3>2, <3>4, <4>1, <4>2 DEF ReadsOK
      <4>4. QED
        BY <1>2, <3>1, <3>4, <4>3 DEF CallOK
    <3>5. CASE u.pc # "idle" /\ u.job # j
      <4>1. u.job \in JobIds
        BY <3>2, <3>5 DEF ReadsOK
      <4>2. row'[u.job] = row[u.job]
        BY <1>2, <3>5, <4>1
      <4>3. u.job \in clobbered' <=> u.job \in clobbered
        BY <1>2, <3>5
      <4>4. ReadsOK(v, u, row'[u.job], log[u.job], u.job \in clobbered')
        BY <3>2, <4>2, <4>3 DEF ReadsOK
      <4>5. QED
        BY <1>2, <3>1, <4>4 DEF CallOK
    <3>6. QED
      BY <3>3, <3>4, <3>5
  <2>3. QED
    BY <2>1, <2>2
<1>7. QED
  BY <1>3, <1>5, <1>6 DEF OpenOK

\* A save that changes the record is counted as such; any other tells nothing new.
LEMMA SaveTells ==
  ASSUME Tables, OpenOK, TruthOK, NEW w \in Threads, Save(w)
  PROVE  TruthOK'
<1>1. PICK j \in JobIds : Saves(w, j)
  BY SaveWrites
<1>2. /\ log' = log /\ rented' = rented
      /\ row'[j].life = thread[w].life
      /\ row[j].parses = TRUE
      /\ \A k \in JobIds : k # j => row'[k] = row[k]
      /\ clobbered' = (IF row[j].life = thread[w].life THEN clobbered ELSE clobbered \cup {j})
      /\ adopted' = adopted /\ outdated' = outdated
      /\ thread'[w] = Asleep
      /\ \A v \in Threads : v # w => thread'[v] = thread[v]
  BY <1>1 DEF Saves
<1>3. ASSUME NEW k \in JobIds, k \notin Odd'
      PROVE  k \notin Odd /\ row'[k].life = row[k].life /\ (row'[k].parses => row[k].parses)
  BY <1>2, <1>3 DEF Odd, Outdated
<1>4. ASSUME NEW k \in JobIds \ Odd', row'[k].parses
      PROVE  Tells(log'[k], row'[k].life, rented'[k])
  <2>1. k \in JobIds \ Odd /\ row'[k].life = row[k].life /\ row[k].parses
    BY <1>2, <1>3, <1>4
  <2>2. Tells(log[k], row[k].life, rented[k])
    BY <2>1 DEF TruthOK, StoriesOK
  <2>3. QED
    BY <1>2, <2>1, <2>2
<1>5. StoriesOK'
  BY <1>4 DEF StoriesOK
<1>6. ASSUME NEW v \in Threads PROVE StillDue(v)'
  <2>1. CASE v = w
    BY <1>2, <2>1, AsleepIs DEF StillDue
  <2>2. CASE v # w
    <3> DEFINE u == thread[v]
    <3>1. thread'[v] = u
      BY <1>2, <2>2
    <3>2. /\ u.pc # "idle" => u.job \in JobIds
          /\ Alone(Loops) /\ u.job \notin Odd =>
               DueOK(u, row[u.job].life, Made(log[u.job]), Alive(rented[u.job]))
      BY DEF OpenOK, CallOK, ReadsOK, TruthOK, StillDue
    <3> HIDE DEF u
    <3>3. CASE u.pc = "idle"
      BY <3>1, <3>3 DEF StillDue, DueOK, Calling
    <3>4. CASE u.pc # "idle"
      <4>1. u.job \notin Odd' =>
              u.job \notin Odd /\ row'[u.job].life = row[u.job].life
        BY <1>2, <1>3, <3>2, <3>4
      <4>2. QED
        BY <1>2, <3>1, <3>2, <4>1 DEF StillDue
    <3>5. QED
      BY <3>3, <3>4
  <2>3. QED
    BY <2>1, <2>2
<1>7. ChecksOutlast'
  BY <1>2 DEF TruthOK, ChecksOutlast, Outdated
<1>8. QED
  BY <1>5, <1>6, <1>7 DEF TruthOK

\* Opening the database upgrades it.
LEMMA MigrateOpens ==
  ASSUME Found, Migrate
  PROVE  /\ version' = Current /\ calls' = calls /\ saves' = saves
         /\ Tables' /\ OpenOK' /\ TruthOK'
<1> DEFINE db == Migrations(Database, version)
<1>1. /\ row' = db.row /\ log' = db.log /\ version' = Current
      /\ UNCHANGED <<rented, thread, clobbered, adopted, outdated, calls, saves>>
  BY DEF Migrate
<1>2. \A j \in JobIds :
        /\ db.row[j] \in JobRows
        /\ JobOK(db.row[j], db.log[j], rented[j])
        /\ j \notin adopted /\ db.row[j].parses => Tells(db.log[j], db.row[j].life, rented[j])
  BY Upgraded DEF JobRows
<1>3. db.row = [j \in JobIds |-> db.row[j]] /\ db.log = [j \in JobIds |-> db.log[j]]
  <2>1. version < 9
    BY DEF Found
  <2> DEFINE one == IF version < 8 THEN To8(Database) ELSE Database
  <2>2. db = To9(one)
    BY <2>1 DEF Migrations
  <2> HIDE DEF db, one
  <2>3. QED
    BY <2>2, UpgradeRows
<1> HIDE DEF db
<1>4. /\ clobbered' = {} /\ outdated' = {} /\ adopted' = adopted /\ adopted \subseteq JobIds /\ rented' = rented
      /\ thread' = [w \in Threads |-> Asleep]
      /\ rented \in [JobIds -> Rows]
  <2>1. \A j \in JobIds : rented[j] \in Rows
    BY DEF Found, FoundOK
  <2>2. rented = [j \in JobIds |-> rented[j]]
    BY DEF Found
  <2>3. QED
    BY <1>1, <2>1, <2>2 DEF Found
<1>5. Tables'
  <2>1. row' \in [JobIds -> JobRows]
    BY <1>1, <1>2, <1>3
  <2>2. thread' \in [Threads -> Places]
    BY <1>4, AsleepIs
  <2>3. QED
    BY <1>4, <2>1, <2>2 DEF Tables
<1>6. TokensOK'
  <2>1. \A j \in JobIds : db.log[j] \in Seq(Events)
    BY <1>2 DEF JobOK, Numbered
  <2>2. log' \in [JobIds -> Seq(Events)]
    BY <1>1, <1>3, <2>1
  <2>3. QED
    BY <1>1, <1>2, <1>4, <2>2 DEF TokensOK
<1>7. StoriesOK' /\ ChecksOutlast'
  BY <1>1, <1>2, <1>4 DEF StoriesOK, Odd, ChecksOutlast, Outdated
<1>8. ASSUME NEW w \in Threads PROVE CallOK(w)' /\ StillDue(w)'
  <2>1. thread'[w] = Asleep
    BY <1>4
  <2>2. QED
    BY <2>1, AsleepIs DEF CallOK, StillDue
<1>9. QED
  BY <1>1, <1>5, <1>6, <1>7, <1>8 DEF OpenOK, TruthOK

-----------------------------------------------------------------------------
(* The theorems.                                                           *)

\* The inductive invariant: of the tokens and the calls, and of the stories.
StoreInv ==
    /\ StoreTypeOK /\ version \in 0..Current
    /\ version # Current => Found
    /\ version = Current => OpenOK
StoryInv == StoreInv /\ (version = Current => TruthOK)

\* What the steps of an open database are.
Steps ==
    \E w \in Threads :
       \/ \E op \in Ops, j \in JobIds, p \in Providers \cup {None} : Call(w, op, j, p)
       \/ \E j \in JobIds : Fetch(w, j)
       \/ ReadSeq(w) \/ ReadRecord(w) \/ Commit(w) \/ Stale(w) \/ Save(w)

\* A database that is found has no call under way.
LEMMA FoundAsleep ==
  ASSUME Found, StoreNext
  PROVE  Migrate
<1>1. version # Current /\ \A w \in Threads : thread[w].pc = "idle"
  BY AsleepIs DEF Found, Current
<1>2. ASSUME NEW w \in Threads
      PROVE  /\ \A op \in Ops, j \in JobIds, p \in Providers \cup {None} : ~Call(w, op, j, p)
             /\ \A j \in JobIds : ~Fetch(w, j)
             /\ ~ReadSeq(w) /\ ~ReadRecord(w) /\ ~Commit(w) /\ ~Stale(w) /\ ~Save(w)
  <2>1. \A op \in Ops, j \in JobIds, p \in Providers \cup {None} : ~Call(w, op, j, p)
    BY <1>1 DEF Call
  <2>2. \A j \in JobIds : ~Fetch(w, j)
    BY <1>1 DEF Fetch
  <2>3. ~ReadSeq(w)
    BY <1>1 DEF ReadSeq
  <2>4. ~ReadRecord(w)
    BY <1>1 DEF ReadRecord
  <2>5. ~Commit(w)
    BY <1>1 DEF Commit
  <2>6. ~Stale(w)
    BY <1>1 DEF Stale
  <2>7. ~Save(w)
    BY <1>1 DEF Save
  <2>8. QED
    BY <2>1, <2>2, <2>3, <2>4, <2>5, <2>6, <2>7
<1>3. ~Steps
  BY <1>2 DEF Steps
<1>4. QED
  BY <1>3 DEF StoreNext, Steps

\* A step of an open database is one of a thread.
LEMMA StepKeeps ==
  ASSUME StoreTypeOK, OpenOK, version = Current, Steps
  PROVE  /\ version' = version /\ calls' \in 0..MaxCalls /\ saves' \in 0..MaxSaves
         /\ Tables' /\ OpenOK'
<1>0. Tables /\ calls \in 0..MaxCalls /\ saves \in 0..MaxSaves /\ MaxCalls \in Nat /\ MaxSaves \in Nat
  BY TablesTyped, StoreAssumption DEF StoreTypeOK
<1>1. PICK w \in Threads :
       \/ \E op \in Ops, j \in JobIds, p \in Providers \cup {None} : Call(w, op, j, p)
       \/ \E j \in JobIds : Fetch(w, j)
       \/ ReadSeq(w) \/ ReadRecord(w) \/ Commit(w) \/ Stale(w) \/ Save(w)
  BY DEF Steps
<1>2. ASSUME NEW op \in Ops, NEW j \in JobIds, NEW p \in Providers \cup {None}, Call(w, op, j, p)
      PROVE  /\ version' = version /\ calls' \in 0..MaxCalls /\ saves' \in 0..MaxSaves
             /\ Tables' /\ OpenOK'
  <2>1. version' = version /\ calls < MaxCalls /\ calls' = calls + 1 /\ saves' = saves
    BY <1>2 DEF Call
  <2>2. Tables' /\ OpenOK'
    BY <1>0, <1>2, CallSteps, MovesKeep
  <2>3. QED
    BY <1>0, <2>1, <2>2
<1>3. ASSUME NEW j \in JobIds, Fetch(w, j)
      PROVE  /\ version' = version /\ calls' \in 0..MaxCalls /\ saves' \in 0..MaxSaves
             /\ Tables' /\ OpenOK'
  <2>1. version' = version /\ saves < MaxSaves /\ saves' = saves + 1 /\ calls' = calls
    BY <1>3 DEF Fetch
  <2>2. Tables' /\ OpenOK'
    BY <1>0, <1>3, FetchSteps, MovesKeep
  <2>3. QED
    BY <1>0, <2>1, <2>2
<1>4. ASSUME ReadSeq(w) \/ ReadRecord(w) \/ Stale(w)
      PROVE  /\ version' = version /\ calls' \in 0..MaxCalls /\ saves' \in 0..MaxSaves
             /\ Tables' /\ OpenOK'
  <2>1. version' = version /\ saves' = saves /\ calls' = calls
    BY <1>4 DEF ReadSeq, ReadRecord, Stale
  <2>2. Tables' /\ OpenOK'
    BY <1>0, <1>4, ReadSeqSteps, ReadRecordSteps, StaleSteps, MovesKeep
  <2>3. QED
    BY <1>0, <2>1, <2>2
<1>5. ASSUME Commit(w) \/ Save(w)
      PROVE  /\ version' = version /\ calls' \in 0..MaxCalls /\ saves' \in 0..MaxSaves
             /\ Tables' /\ OpenOK'
  <2>1. version' = version /\ saves' = saves /\ calls' = calls
    BY <1>5 DEF Commit, Save
  <2>2. Tables' /\ OpenOK'
    BY <1>0, <1>5, CommitKeeps, SaveKeeps
  <2>3. QED
    BY <1>0, <2>1, <2>2
<1>6. QED
  BY <1>1, <1>2, <1>3, <1>4, <1>5

\* It keeps the stories true.
LEMMA StepTells ==
  ASSUME StoreTypeOK, OpenOK, TruthOK, version = Current, Steps
  PROVE  TruthOK'
<1>0. Tables
  BY TablesTyped
<1>1. PICK w \in Threads :
       \/ \E op \in Ops, j \in JobIds, p \in Providers \cup {None} : Call(w, op, j, p)
       \/ \E j \in JobIds : Fetch(w, j)
       \/ ReadSeq(w) \/ ReadRecord(w) \/ Commit(w) \/ Stale(w) \/ Save(w)
  BY DEF Steps
<1>2. ASSUME NEW op \in Ops, NEW j \in JobIds, NEW p \in Providers \cup {None}, Call(w, op, j, p)
      PROVE  TruthOK'
  BY <1>0, <1>2, CallSteps, MovesTell
<1>3. ASSUME NEW j \in JobIds, Fetch(w, j) PROVE TruthOK'
  BY <1>0, <1>3, FetchSteps, MovesTell
<1>4. ASSUME ReadSeq(w) \/ ReadRecord(w) \/ Stale(w) PROVE TruthOK'
  <2>1. PICK t \in Places :
          /\ Moves(w, t)
          /\ t = Asleep \/ t.job = thread[w].job
          /\ \A l, made, live : DueOK(thread[w], l, made, live) => DueOK(t, l, made, live)
    BY <1>0, <1>4, ReadSeqSteps, ReadRecordSteps, StaleSteps
  <2>2. StillDue(w)
    BY DEF TruthOK
  <2>3. Alone(Loops) /\ t.job \notin Odd =>
          DueOK(t, row[t.job].life, Made(log[t.job]), Alive(rented[t.job]))
    <3>1. CASE t = Asleep
      BY <3>1, AsleepIs
    <3>2. CASE t.job = thread[w].job
      BY <2>1, <2>2, <3>2 DEF StillDue
    <3>3. QED
      BY <2>1, <3>1, <3>2
  <2>4. QED
    BY <1>0, <2>1, <2>3, MovesTell
<1>5. ASSUME Commit(w) \/ Save(w) PROVE TruthOK'
  BY <1>0, <1>5, CommitTells, SaveTells
<1>6. QED
  BY <1>1, <1>2, <1>3, <1>4, <1>5

\* Every step keeps the invariant.
LEMMA StoreStep ==
  ASSUME StoreInv, [StoreNext]_storeVars
  PROVE  StoreInv' /\ (StoryInv => StoryInv')
<1>1. CASE UNCHANGED storeVars
  <2>1. /\ version' = version /\ row' = row /\ log' = log /\ rented' = rented /\ thread' = thread
        /\ clobbered' = clobbered /\ adopted' = adopted /\ outdated' = outdated
        /\ calls' = calls /\ saves' = saves
    BY <1>1 DEF storeVars
  <2>2. StoreTypeOK'
    BY <2>1 DEF StoreInv, StoreTypeOK
  <2>3. version # Current => Found'
    BY <2>1 DEF StoreInv, Found
  <2>4. version = Current => OpenOK'
    BY <2>1 DEF StoreInv, OpenOK, TokensOK, CallOK
  <2>5. StoryInv /\ version = Current => TruthOK'
    BY <2>1 DEF StoryInv, TruthOK, StoriesOK, StillDue, Odd, ChecksOutlast, Outdated
  <2>6. QED
    BY <2>1, <2>2, <2>3, <2>4, <2>5 DEF StoreInv, StoryInv
<1>2. CASE StoreNext /\ version # Current
  <2>1. Found
    BY <1>2 DEF StoreInv
  <2>2. Migrate
    BY <1>2, <2>1, FoundAsleep
  <2>3. /\ version' = Current /\ calls' = calls /\ saves' = saves
        /\ Tables' /\ OpenOK' /\ TruthOK'
    BY <2>1, <2>2, MigrateOpens
  <2>4. StoreTypeOK'
    BY <2>3 DEF StoreInv, StoreTypeOK, Tables, JobRows, Rows, Places, Current
  <2>5. QED
    BY <2>3, <2>4 DEF StoreInv, StoryInv, Current
<1>3. CASE StoreNext /\ version = Current
  <2>1. StoreTypeOK /\ OpenOK
    BY <1>3 DEF StoreInv
  <2>2. Steps
    BY <1>3 DEF StoreNext, Steps, Migrate, Current
  <2>3. /\ version' = version /\ calls' \in 0..MaxCalls /\ saves' \in 0..MaxSaves
        /\ Tables' /\ OpenOK'
    BY <1>3, <2>1, <2>2, StepKeeps
  <2>4. StoreTypeOK'
    BY <2>1, <2>3 DEF StoreTypeOK, Tables, JobRows, Rows, Places
  <2>5. StoryInv => TruthOK'
    BY <1>3, <2>1, <2>2, StepTells DEF StoryInv
  <2>6. QED
    BY <1>3, <2>3, <2>4, <2>5 DEF StoreInv, StoryInv
<1>4. QED
  BY <1>1, <1>2, <1>3

\* A database found is one the invariant allows.
LEMMA StoreStart ==
  ASSUME StoreInit
  PROVE  StoreInv /\ StoryInv
<1>1. Found
  BY FoundSo
<1>2. version \in 0..8 /\ version # Current /\ version \in 0..Current /\ version \in Nat
  BY <1>1 DEF Found, Current
<1>3. \A j \in JobIds : row[j] \in JobRows /\ rented[j] \in Rows
  BY <1>1 DEF Found, FoundOK, JobRows
<1>4. row \in [JobIds -> JobRows] /\ rented \in [JobIds -> Rows]
  BY <1>1, <1>3 DEF Found
<1>5. thread \in [Threads -> Places]
  BY <1>1, AsleepIs DEF Found
<1>6. /\ clobbered \subseteq JobIds /\ adopted \subseteq JobIds /\ outdated \subseteq JobIds \X Ops
      /\ calls \in 0..MaxCalls /\ saves \in 0..MaxSaves
  BY <1>1, StoreAssumption DEF Found
<1>7. StoreTypeOK
  BY <1>2, <1>4, <1>5, <1>6 DEF StoreTypeOK, JobRows, Rows, Places
<1>8. QED
  BY <1>1, <1>2, <1>7 DEF StoreInv, StoryInv

\* The tokens of a job number its events, in every database that is open.
LEMMA TokensNumber ==
  ASSUME StoreInv
  PROVE  TokenIsLogEnd
<1> SUFFICES ASSUME version = Current, NEW j \in JobIds
             PROVE  /\ row[j].seq = Len(log[j])
                    /\ \A i \in DOMAIN log[j] : log[j][i].seq = i
  BY DEF TokenIsLogEnd
<1>1. Numbered(log[j], row[j].seq)
  BY DEF StoreInv, OpenOK, TokensOK, JobOK
<1>2. log[j] \in Seq(Events) /\ row[j].seq = Len(log[j]) /\ \A i \in 1..Len(log[j]) : log[j][i].seq = i
  BY <1>1 DEF Numbered
<1>3. DOMAIN log[j] = 1..Len(log[j])
  BY <1>2
<1>4. QED
  BY <1>2, <1>3

\* The tables always hold what the schema says, and the events of a job are
\* numbered without a gap up to its row's token, so that the unique index
\* never refuses the event of a transition (_migrate_to_9, cas_step),
\* whatever the number of threads.
THEOREM TokensAreEnds == StoreSpec => [](StoreTypeOK /\ TokenIsLogEnd)
<1>1. StoreInit => StoreInv
  BY StoreStart
<1>2. StoreInv /\ [StoreNext]_storeVars => StoreInv'
  BY StoreStep
<1>3. StoreInv => StoreTypeOK /\ TokenIsLogEnd
  BY TokensNumber DEF StoreInv
<1>4. QED
  BY <1>1, <1>2, <1>3, PTL DEF StoreSpec

\* What one step does to the log of a job that no save undid.
Applies(j) ==
    version = Current /\ Len(log'[j]) > Len(log[j]) =>
        LET e == Last(log'[j])
        IN  row'[j].life = Edit(e.op, e.prov, IF e.op = "submit" THEN Blank ELSE row[j].life)

LEMMA AppliedStep ==
  ASSUME StoreInv, [StoreNext]_storeVars, NEW j \in JobIds \ clobbered
  PROVE  Applies(j)
<1> SUFFICES ASSUME version = Current, Len(log'[j]) > Len(log[j])
             PROVE  LET e == Last(log'[j])
                    IN  row'[j].life = Edit(e.op, e.prov, IF e.op = "submit" THEN Blank ELSE row[j].life)
  BY DEF Applies
<1>1. Tables /\ OpenOK /\ log[j] \in Seq(Events)
  BY TablesTyped DEF StoreInv, OpenOK, TokensOK
<1>2. log'[j] # log[j]
  BY <1>1
<1>3. PICK w \in Threads : Commit(w)
  <2>1. Steps
    BY <1>2 DEF StoreNext, Steps, Migrate, Current, storeVars
  <2>2. QED
    <3>1. \A w \in Threads, op \in Ops, k \in JobIds, p \in Providers \cup {None} : ~Call(w, op, k, p)
      BY <1>2 DEF Call
    <3>2. \A w \in Threads, k \in JobIds : ~Fetch(w, k)
      BY <1>2 DEF Fetch
    <3>3. \A w \in Threads : ~ReadSeq(w)
      BY <1>2 DEF ReadSeq
    <3>4. \A w \in Threads : ~ReadRecord(w)
      BY <1>2 DEF ReadRecord
    <3>5. \A w \in Threads : ~Stale(w)
      BY <1>2 DEF Stale
    <3>6. \A w \in Threads : ~Save(w)
      BY <1>2 DEF Save
    <3>7. QED
      BY <2>1, <3>1, <3>2, <3>3, <3>4, <3>5, <3>6, Zenon DEF Steps
<1>4. PICK k \in JobIds, op \in Ops, p \in Providers \cup {None} : Writes(w, k, op, p)
  BY <1>1, <1>3, CommitWrites
<1>5. k = j
  BY <1>2, <1>4 DEF Writes
<1> DEFINE n == row[j].seq
           e == Event(n + 1, op, p)
<1>6. /\ row'[j] = [seq |-> n + 1, life |-> thread[w].life, parses |-> TRUE]
      /\ log'[j] = Append(log[j], e)
      /\ op = "submit" => p = None /\ thread[w].life = Edit("submit", None, Blank)
      /\ op # "submit" => thread[w].life = Edit(op, p, row[j].life)
  BY <1>4, <1>5 DEF Writes
<1>7. n \in Nat
  BY <1>1 DEF Tables, JobRows
<1>8. e \in Events /\ e.op = op /\ e.prov = p
  BY <1>7 DEF Event, Events
<1> HIDE DEF e
<1>9. Last(log'[j]) = e
  <2>1. Last(Append(log[j], e)) = e
    BY <1>1, <1>8 DEF Last
  <2>2. QED
    BY <1>6, <2>1
<1>10. row'[j].life = thread[w].life
  BY <1>6
<1>11. QED
  BY <1>6, <1>8, <1>9, <1>10

\* A transition is applied to the record the one before it left: nothing
\* committed between its reads and its commit is lost (cas_step), whatever the
\* number of threads.
THEOREM NothingIsLost == StoreSpec => AppliedInTurn
<1>1. StoreInit => StoreInv
  BY StoreStart
<1>2. StoreInv /\ [StoreNext]_storeVars => StoreInv'
  BY StoreStep
<1>3. StoreInv /\ [StoreNext]_storeVars =>
        [\A j \in JobIds \ clobbered :
           version = Current /\ Len(log'[j]) > Len(log[j]) =>
               LET e == Last(log'[j])
               IN  row'[j].life = Edit(e.op, e.prov, IF e.op = "submit" THEN Blank ELSE row[j].life)]_storeVars
  BY AppliedStep DEF Applies
<1>4. QED
  BY <1>1, <1>2, <1>3, PTL DEF StoreSpec, AppliedInTurn

\* What a job's story says to the checker and to each provider.
LEMMA StoryTold ==
  ASSUME NEW events \in Seq(Events), NEW state, NEW prov, NEW live \in BOOLEAN, Story(events, state, prov, live)
  PROVE  LET s == Replay(Actions(events))
         IN  /\ s.ok /\ s.st = ModelState(state)
             /\ FoldExt(Actions(events)).open <=> live
             /\ \A p \in Providers :
                  LET t == Trace(events, p)
                      m == Replay(t.line)
                  IN  /\ m.ok /\ (m.ext <=> live /\ prov = p)
                      /\ t.line # <<>> /\ prov = p => m.st = ModelState(state)
<1> DEFINE s == Replay(Actions(events))
<1>1. /\ Modelled(s, state, live)
      /\ FoldExt(Actions(events)).open <=> s.ext
      /\ \A p \in Providers : ShownTo(p, events, prov)
  BY DEF Story
<1>2. s.ok /\ s.st = ModelState(state) /\ (s.ext <=> live)
  BY <1>1 DEF Modelled
<1> HIDE DEF s
<1>3. ASSUME NEW p \in Providers
      PROVE  LET t == Trace(events, p)
                 m == Replay(t.line)
             IN  /\ m.ok /\ (m.ext <=> live /\ prov = p)
                 /\ t.line # <<>> /\ prov = p => m.st = ModelState(state)
  <2> DEFINE t == Trace(events, p)
             m == Replay(t.line)
  <2>1. /\ ~t.known => t.line = <<>> /\ prov # p
        /\ t.known /\ prov # p => m = Fresh(TRUE)
        /\ prov = p => t.known /\ m = s
    BY <1>1 DEF ShownTo, s
  <2>2. ~t.known => m = Unsubmitted
    BY <2>1, ReplayNothing
  <2> HIDE DEF t, m
  <2>3. CASE prov = p
    BY <1>2, <2>1, <2>3 DEF t, m
  <2>4. CASE prov # p /\ t.known
    <3>1. m.ok /\ ~m.ext
      BY <2>1, <2>4 DEF Fresh
    <3>2. QED
      BY <2>4, <3>1 DEF t, m
  <2>5. CASE prov # p /\ ~t.known
    <3>1. m.ok /\ ~m.ext
      BY <2>2, <2>5 DEF Unsubmitted
    <3>2. QED
      BY <2>5, <3>1 DEF t, m
  <2>6. QED
    BY <2>3, <2>4, <2>5
<1>4. QED
  BY <1>1, <1>2, <1>3 DEF s

\* What the invariant says of one job: row, log and resources agree.
LEMMA JobTrue ==
  ASSUME StoryInv, version = Current, NEW j \in JobIds \ Odd
  PROVE  /\ Live(rented, j) <=> FoldExt(Actions(log[j])).open
         /\ row[j].parses => Replays(j)
         /\ \A p \in Providers :
              LET s == Replay(ProviderTrace(j, p))
              IN  /\ s.ok /\ (s.ext <=> rented[j][p] = "live")
                  /\ ProviderTrace(j, p) # <<>> /\ row[j].life.prov = p => s.st = ModelState(row[j].life.st)
<1> DEFINE events == log[j]
           l == row[j].life
           rs == rented[j]
           live == Alive(rs)
<1>1. /\ JobOK(row[j], events, rs) /\ events \in Seq(Events)
      /\ row[j].parses => Tells(events, l, rs)
      /\ row[j].parses \in BOOLEAN
  BY TablesTyped DEF StoryInv, StoreInv, OpenOK, TokensOK, TruthOK, StoriesOK, Tables, JobRows
<1>2. live \in BOOLEAN /\ (Live(rented, j) <=> live)
  BY DEF Alive, Live
<1>3. \A p \in Providers : ProviderTrace(j, p) = Trace(events, p).line
  BY DEF ProviderTrace
<1>4. CASE row[j].parses
  <2>1. Story(events, l.st, l.prov, live) /\ \A p \in Providers : rs[p] = "live" => l.prov = p
    BY <1>1, <1>4 DEF Tells
  <2>2. \A p \in Providers : rs[p] = "live" <=> live /\ l.prov = p
    BY <2>1 DEF Alive
  <2> HIDE DEF live
  <2>3. LET s == Replay(Actions(events))
        IN  /\ s.ok /\ s.st = ModelState(l.st)
            /\ FoldExt(Actions(events)).open <=> live
            /\ \A p \in Providers :
                 LET t == Trace(events, p)
                     m == Replay(t.line)
                 IN  /\ m.ok /\ (m.ext <=> live /\ l.prov = p)
                     /\ t.line # <<>> /\ l.prov = p => m.st = ModelState(l.st)
    BY <1>1, <1>2, <2>1, StoryTold
  <2>4. Replays(j)
    BY <2>3 DEF Replays
  <2>5. QED
    BY <1>2, <1>3, <2>2, <2>3, <2>4
<1>5. CASE ~row[j].parses
  <2>1. events = <<>> /\ ~live
    BY <1>1, <1>5 DEF JobOK
  <2>2. Actions(events) = <<>>
    BY <2>1 DEF Actions
  <2>3. ~FoldExt(Actions(events)).open
    BY <2>2, ExtNothing DEF Closed
  <2>4. ASSUME NEW p \in Providers
        PROVE  /\ Replay(ProviderTrace(j, p)).ok /\ ~Replay(ProviderTrace(j, p)).ext
               /\ ProviderTrace(j, p) = <<>> /\ rs[p] # "live"
    <3>1. ProviderTrace(j, p) = <<>>
      BY <1>3, <2>1, TraceNothing DEF Unknown
    <3>2. Replay(ProviderTrace(j, p)) = Unsubmitted
      BY <3>1, ReplayNothing
    <3>3. QED
      BY <2>1, <3>1, <3>2 DEF Unsubmitted, Alive
  <2>5. QED
    BY <1>2, <1>5, <2>1, <2>3, <2>4
<1>6. QED
  BY <1>1, <1>4, <1>5

\* The invariant implies that the log is the truth.
LEMMA TruthFollows ==
  ASSUME StoryInv
  PROVE  LogIsTruth
<1>0. Regular = JobIds \ Odd
  BY DEF Regular, Odd
<1>1. StoreTypeOK /\ TokenIsLogEnd
  BY TokensNumber DEF StoryInv, StoreInv
<1>2. MoneyFollowsLog
  BY <1>0, JobTrue DEF MoneyFollowsLog
<1>3. LogReplays
  BY <1>0, JobTrue DEF LogReplays
<1>4. TracesReplay
  BY <1>0, JobTrue DEF TracesReplay
<1>5. UpgradeSettles
  <2> SUFFICES ASSUME version = Current
               PROVE  /\ \A j \in JobIds : ~Bare(Database, j)
                      /\ \A j \in Regular : ~Unclosed(Database, j)
    BY DEF UpgradeSettles
  <2>1. ASSUME NEW j \in JobIds PROVE ~Bare(Database, j)
    <3>1. JobOK(row[j], log[j], rented[j])
      BY DEF StoryInv, StoreInv, OpenOK, TokensOK
    <3>2. QED
      BY <3>1 DEF JobOK, Bare, Database
  <2>2. ASSUME NEW j \in Regular PROVE ~Unclosed(Database, j)
    <3>1. Live(rented, j) <=> FoldExt(Actions(log[j])).open
      BY <1>0, JobTrue
    <3>2. QED
      BY <3>1 DEF Unclosed, Database
  <2>3. QED
    BY <2>1, <2>2
<1>6. ChecksOutlast
  <2>1. CASE version = Current
    BY <2>1 DEF StoryInv, TruthOK
  <2>2. CASE version # Current
    BY <2>2 DEF StoryInv, StoreInv, Found, ChecksOutlast, Outdated
  <2>3. QED
    BY <2>1, <2>2
<1>7. QED
  BY <1>1, <1>2, <1>3, <1>4, <1>5, <1>6 DEF LogIsTruth

\* Whatever the number of threads: row, log and money tell one story, before, during
\* and after an upgrade, and it is one the checker accepts, as a whole and as each
\* provider is shown it, for every job no call went through out of turn; and with one
\* engine no call does but a retry beside another handler.
THEOREM LogStaysTrue == StoreSpec => []LogIsTruth
<1>1. StoreInit => StoryInv
  BY StoreStart
<1>2. StoryInv /\ [StoreNext]_storeVars => StoryInv'
  BY StoreStep DEF StoryInv
<1>3. StoryInv => LogIsTruth
  BY TruthFollows
<1>4. QED
  BY <1>1, <1>2, <1>3, PTL DEF StoreSpec

=============================================================================
