-------------------------- MODULE SchedulerProofs --------------------------
(***************************************************************************)
(* The scheduler's properties, for every sequence of jobs, every offer,    *)
(* policy and window, any number of crashes and any time: what a pass      *)
(* decides is still right when it is enacted, the ledger of a window is    *)
(* exact for every job no crash cut short, no window is overspent but for  *)
(* those, and a job is placed only where and when it may be.               *)
(*                                                                         *)
(* The pass reads the jobs and the ledger once and enacts its decisions    *)
(* one at a time, so the invariant says of a plan under way what is left   *)
(* of it: the jobs it is about, the room and the money its decisions will  *)
(* take together.                                                          *)
(***************************************************************************)
EXTENDS Scheduler, FiniteSums

-----------------------------------------------------------------------------
(* Sums of amounts and of costs.                                           *)

\* How the library's sum of a field of the members of a sequence is unrolled.
Amounts(rows) == [i \in DOMAIN rows |-> rows[i].amount]
AmountsUnrolled(rows, g, s) ==
    IF s = {} THEN 0 ELSE rows[Chosen(s)].amount + g[s \ {Chosen(s)}]

\* The sum over the rows of a ledger is the sum of the function of their amounts.
LEMMA AmountSum ==
  ASSUME NEW rows, NEW S, IsFiniteSet(S), S \subseteq DOMAIN rows, \A i \in S : rows[i].amount \in Nat
  PROVE  AmountOf(rows, S) = SumFunctionOnSet(Amounts(rows), S)
<1> DEFINE f == Amounts(rows)
           Table(g) == g = [s \in SUBSET S |-> AmountsUnrolled(rows, g, s)]
           t == CHOOSE g : Table(g)
<1>1. AmountOf(rows, S) = t[S]
  BY DEF AmountOf, MapThenSumSet, MapThenFoldSet, AmountsUnrolled, Chosen
<1>2. \A x \in S : f[x] \in Nat /\ f[x] = rows[x].amount
  BY DEF Amounts
<1> HIDE DEF f
<1>3. ASSUME NEW g PROVE Table(g) <=> IsTable(f, S, g)
  <2>1. \A s \in SUBSET S : AmountsUnrolled(rows, g, s) = Unrolled(f, g, s)
    BY <1>2, ChosenIn DEF AmountsUnrolled, Unrolled
  <2>2. [s \in SUBSET S |-> AmountsUnrolled(rows, g, s)] = [s \in SUBSET S |-> Unrolled(f, g, s)]
    BY <2>1
  <2>3. QED
    BY <2>2 DEF IsTable
<1>4. PICK g : IsTable(f, S, g)
  BY <1>2, SumTableExists
<1>5. IsTable(f, S, t)
  <2>1. Table(g)
    BY <1>3, <1>4
  <2>2. Table(t)
    <3> HIDE DEF Table
    <3>1. QED
      BY <2>1
  <2>3. QED
    BY <1>3, <2>2
<1>6. IsTable(f, S, SumTable(f, S))
  BY <1>4 DEF SumTable
<1>7. t[S] = SumTable(f, S)[S]
  <2> HIDE DEF t
  <2>1. S \in SUBSET S
    OBVIOUS
  <2>2. QED
    BY <1>5, <1>6, <2>1, SumTablesAgree
<1>8. QED
  BY <1>1, <1>7, SumByTable DEF f

\* What decisions cost, likewise.
Costs(rows) == [i \in DOMAIN rows |-> rows[i].cost]
CostsUnrolled(rows, g, s) ==
    IF s = {} THEN 0 ELSE rows[Chosen(s)].cost + g[s \ {Chosen(s)}]

\* The same for the costs of a plan.
LEMMA CostSum ==
  ASSUME NEW rows, NEW S, IsFiniteSet(S), S \subseteq DOMAIN rows, \A i \in S : rows[i].cost \in Nat
  PROVE  CostOf(rows, S) = SumFunctionOnSet(Costs(rows), S)
<1> DEFINE f == Costs(rows)
           Table(g) == g = [s \in SUBSET S |-> CostsUnrolled(rows, g, s)]
           t == CHOOSE g : Table(g)
<1>1. CostOf(rows, S) = t[S]
  BY DEF CostOf, MapThenSumSet, MapThenFoldSet, CostsUnrolled, Chosen
<1>2. \A x \in S : f[x] \in Nat /\ f[x] = rows[x].cost
  BY DEF Costs
<1> HIDE DEF f
<1>3. ASSUME NEW g PROVE Table(g) <=> IsTable(f, S, g)
  <2>1. \A s \in SUBSET S : CostsUnrolled(rows, g, s) = Unrolled(f, g, s)
    BY <1>2, ChosenIn DEF CostsUnrolled, Unrolled
  <2>2. [s \in SUBSET S |-> CostsUnrolled(rows, g, s)] = [s \in SUBSET S |-> Unrolled(f, g, s)]
    BY <2>1
  <2>3. QED
    BY <2>2 DEF IsTable
<1>4. PICK g : IsTable(f, S, g)
  BY <1>2, SumTableExists
<1>5. IsTable(f, S, t)
  <2>1. Table(g)
    BY <1>3, <1>4
  <2>2. Table(t)
    <3> HIDE DEF Table
    <3>1. QED
      BY <2>1
  <2>3. QED
    BY <1>3, <2>2
<1>6. IsTable(f, S, SumTable(f, S))
  BY <1>4 DEF SumTable
<1>7. t[S] = SumTable(f, S)[S]
  <2> HIDE DEF t
  <2>1. S \in SUBSET S
    OBVIOUS
  <2>2. QED
    BY <1>5, <1>6, <2>1, SumTablesAgree
<1>8. QED
  BY <1>1, <1>7, SumByTable DEF f

\* Two sequences with the same amounts sum to the same.
LEMMA AmountsAgree ==
  ASSUME NEW rows, NEW new, NEW S, IsFiniteSet(S), S \subseteq DOMAIN rows, S \subseteq DOMAIN new,
         \A i \in S : rows[i].amount \in Nat /\ new[i].amount = rows[i].amount
  PROVE  AmountOf(new, S) = AmountOf(rows, S) /\ AmountOf(rows, S) \in Nat
<1> DEFINE f == Amounts(rows)
           g == Amounts(new)
<1>1. /\ \A i \in S : f[i] \in Nat
      /\ \A i \in S : g[i] = f[i]
  BY DEF Amounts
<1>2. AmountOf(rows, S) = SumFunctionOnSet(f, S) /\ AmountOf(new, S) = SumFunctionOnSet(g, S)
  BY AmountSum
<1> HIDE DEF f, g
<1>3. SumFunctionOnSet(g, S) = SumFunctionOnSet(f, S) /\ SumFunctionOnSet(f, S) \in Nat
  BY <1>1, SumSame, SumUnrolled
<1>4. QED
  BY <1>2, <1>3

\* One of them can be taken out, a part is no more than the whole, and none is nothing.
LEMMA AmountsSplit ==
  ASSUME NEW rows, NEW S, IsFiniteSet(S), S \subseteq DOMAIN rows,
         \A i \in S : rows[i].amount \in Nat
  PROVE  /\ AmountOf(rows, S) \in Nat
         /\ \A i \in S : AmountOf(rows, S) = rows[i].amount + AmountOf(rows, S \ {i})
         /\ \A R \in SUBSET S : AmountOf(rows, R) \in Nat /\ AmountOf(rows, R) <= AmountOf(rows, S)
         /\ AmountOf(rows, {}) = 0
<1> DEFINE f == Amounts(rows)
<1>1. \A i \in S : f[i] = rows[i].amount /\ f[i] \in Nat
  BY DEF Amounts
<1>2. ASSUME NEW R \in SUBSET S
      PROVE  AmountOf(rows, R) = SumFunctionOnSet(f, R) /\ IsFiniteSet(R)
  <2>1. IsFiniteSet(R)
    BY FS_Subset
  <2>2. QED
    BY <2>1, AmountSum
<1> HIDE DEF f
<1>3. ASSUME NEW R \in SUBSET S PROVE SumFunctionOnSet(f, R) \in Nat /\ SumFunctionOnSet(f, R) <= SumFunctionOnSet(f, S)
  BY <1>1, <1>2, SumUnrolled, SumPart
<1>4. ASSUME NEW i \in S PROVE SumFunctionOnSet(f, S) = f[i] + SumFunctionOnSet(f, S \ {i})
  BY <1>1, SumRemove
<1>5. SumFunctionOnSet(f, {}) = 0
  BY <1>1, SumUnrolled
<1>6. S \in SUBSET S /\ {} \in SUBSET S /\ \A i \in S : S \ {i} \in SUBSET S
  OBVIOUS
<1>7. QED
  BY <1>1, <1>2, <1>3, <1>4, <1>5, <1>6

\* Two sequences with the same costs sum to the same.
LEMMA CostsAgree ==
  ASSUME NEW rows, NEW new, NEW S, IsFiniteSet(S), S \subseteq DOMAIN rows, S \subseteq DOMAIN new,
         \A i \in S : rows[i].cost \in Nat /\ new[i].cost = rows[i].cost
  PROVE  CostOf(new, S) = CostOf(rows, S) /\ CostOf(rows, S) \in Nat
<1> DEFINE f == Costs(rows)
           g == Costs(new)
<1>1. /\ \A i \in S : f[i] \in Nat
      /\ \A i \in S : g[i] = f[i]
  BY DEF Costs
<1>2. CostOf(rows, S) = SumFunctionOnSet(f, S) /\ CostOf(new, S) = SumFunctionOnSet(g, S)
  BY CostSum
<1> HIDE DEF f, g
<1>3. SumFunctionOnSet(g, S) = SumFunctionOnSet(f, S) /\ SumFunctionOnSet(f, S) \in Nat
  BY <1>1, SumSame, SumUnrolled
<1>4. QED
  BY <1>2, <1>3

\* One of them can be taken out, a part is no more than the whole, and none is nothing.
LEMMA CostsSplit ==
  ASSUME NEW rows, NEW S, IsFiniteSet(S), S \subseteq DOMAIN rows,
         \A i \in S : rows[i].cost \in Nat
  PROVE  /\ CostOf(rows, S) \in Nat
         /\ \A i \in S : CostOf(rows, S) = rows[i].cost + CostOf(rows, S \ {i})
         /\ \A R \in SUBSET S : CostOf(rows, R) \in Nat /\ CostOf(rows, R) <= CostOf(rows, S)
         /\ CostOf(rows, {}) = 0
<1> DEFINE f == Costs(rows)
<1>1. \A i \in S : f[i] = rows[i].cost /\ f[i] \in Nat
  BY DEF Costs
<1>2. ASSUME NEW R \in SUBSET S
      PROVE  CostOf(rows, R) = SumFunctionOnSet(f, R) /\ IsFiniteSet(R)
  <2>1. IsFiniteSet(R)
    BY FS_Subset
  <2>2. QED
    BY <2>1, CostSum
<1> HIDE DEF f
<1>3. ASSUME NEW R \in SUBSET S PROVE SumFunctionOnSet(f, R) \in Nat /\ SumFunctionOnSet(f, R) <= SumFunctionOnSet(f, S)
  BY <1>1, <1>2, SumUnrolled, SumPart
<1>4. ASSUME NEW i \in S PROVE SumFunctionOnSet(f, S) = f[i] + SumFunctionOnSet(f, S \ {i})
  BY <1>1, SumRemove
<1>5. SumFunctionOnSet(f, {}) = 0
  BY <1>1, SumUnrolled
<1>6. S \in SUBSET S /\ {} \in SUBSET S /\ \A i \in S : S \ {i} \in SUBSET S
  OBVIOUS
<1>7. QED
  BY <1>1, <1>2, <1>3, <1>4, <1>5, <1>6

\* The costs of a sequence without its head are those of the sequence, shifted.
LEMMA CostsShift ==
  ASSUME NEW rows, NEW rest, NEW S, IsFiniteSet(S), S \subseteq Int, S \subseteq DOMAIN rest,
         \A i \in S : i + 1 \in DOMAIN rows /\ rest[i].cost \in Nat /\ rows[i + 1].cost = rest[i].cost
  PROVE  CostOf(rows, {i + 1 : i \in S}) = CostOf(rest, S)
<1> DEFINE f == Costs(rows)
           g == Costs(rest)
           up == {i + 1 : i \in S}
<1>1. \A i \in S : g[i] \in Nat /\ f[i + 1] = g[i]
  BY DEF Costs
<1>2. up \subseteq DOMAIN rows /\ \A x \in up : rows[x].cost \in Nat
  OBVIOUS
<1>3. IsFiniteSet(up)
  <2> DEFINE h == [i \in S |-> i + 1]
  <2>1. up = {h[i] : i \in S}
    OBVIOUS
  <2> HIDE DEF h, up
  <2>2. QED
    BY <2>1, ImageFinite, ZenonT(40)
<1>4. CostOf(rest, S) = SumFunctionOnSet(g, S)
  BY CostSum
<1>5. CostOf(rows, up) = SumFunctionOnSet(f, up)
  <2> HIDE DEF up
  <2>1. QED
    BY <1>2, <1>3, CostSum
<1> HIDE DEF f, g
<1>6. SumFunctionOnSet(f, {i + 1 : i \in S}) = SumFunctionOnSet(g, S)
  BY <1>1, SumShift
<1>7. QED
  BY <1>4, <1>5, <1>6

-----------------------------------------------------------------------------
(* The inductive invariant, in parts.                                      *)

States == Terminal \cup Pending \cup Occupying \cup {"ABSENT"}

JobRecord ==
    [state : States, prov : Providers \cup {None}, cost : Nat \cup {None}, dead : BOOLEAN,
     attempts : Nat, error : BOOLEAN, notBefore : Nat, avoid : [Providers -> Nat],
     submitted : Nat, priority : Int, finish : Int \cup {None}, maxCost : Nat \cup {None},
     pin : Providers \cup {None}, ignore : BOOLEAN, deps : SUBSET Jobs]

\* What holds of a record by itself: attempts are counted up to the cap and
\* below it while a placement may still fail, and only a placed job has a price.
Sound(r) ==
    /\ r \in JobRecord
    /\ r.attempts <= MaxAttempts
    /\ r.error \/ r.attempts = 0
    /\ r.state = "PLACING" => r.attempts < MaxAttempts
    /\ r.state \in Pending \cup {"ABSENT"} => r.cost = None
    /\ r.cost # None => r.cost <= Dearest

\* What a job ignores its policy said, and what it depends on was submitted.
Bound(j) ==
    /\ job[j].ignore => \E p \in Policies[j] : p.ignore
    /\ \A d \in job[j].deps : job[d].state # "ABSENT"

JobsOK == /\ job \in [Jobs -> JobRecord]
          /\ \A j \in Jobs : Sound(job[j]) /\ Bound(j)

Passes == [phase : {"idle", "match", "enact"}, at : Nat, slots : Seq(Slots), todo : SUBSET Jobs,
           room : Seq(Nat), used : SUBSET STRING, plan : Seq(Decisions)]

\* The variables of the pass: a pass that is not matching has no job left to match.
PassOK ==
    /\ pass \in Passes
    /\ DOMAIN pass.room = DOMAIN pass.slots
    /\ pass.phase # "idle" => pass.slots \in Offers
    /\ pass.phase = "idle" => pass = Idle
    /\ pass.phase = "match" => pass.at = now
    /\ pass.phase # "match" <=> pass.todo = {}
    /\ pass.phase = "enact" => pass.plan # <<>>

\* A job that may be placed: it has attempts left, and what it depends on has
\* ended well enough for it.
Placeable(j) ==
    /\ job[j].state \in Pending /\ job[j].attempts < MaxAttempts
    /\ \A d \in job[j].deps : \/ job[d].state = "SUCCEEDED"
                              \/ d \in retried
                              \/ job[d].state \in Terminal /\ \E p \in Policies[j] : p.ignore

\* The jobs that occupy p, or will once the first n decisions are enacted.
Load(p, n) ==
    {j \in Jobs : \/ job[j].state \in Occupying /\ job[j].prov = p
                  \/ \E m \in 1..n : /\ m \in DOMAIN pass.plan /\ pass.plan[m].kind = "reserve"
                                     /\ pass.plan[m].prov = p /\ pass.plan[m].job = j}

\* A Reserve to enact: its job may be placed, its slot is taken, and there is
\* room for it after the decisions before it.
Backed(n) ==
    /\ Placeable(pass.plan[n].job)
    /\ pass.plan[n].key \in pass.used
    /\ pass.plan[n].cost <= Dearest
    /\ \E i \in DOMAIN pass.slots :
         /\ pass.slots[i].prov = pass.plan[n].prov /\ pass.slots[i].key = pass.plan[n].key
         /\ Cardinality(Load(pass.plan[n].prov, n)) <= pass.slots[i].cap

\* At most one decision of each job, but for a Reserve after an Unhold.
OnceEach ==
    \A i, k \in DOMAIN pass.plan :
      i < k /\ pass.plan[i].job = pass.plan[k].job
        => pass.plan[i].kind = "unhold" /\ pass.plan[k].kind = "reserve"

PlanOK ==
    /\ PlanCurrent /\ DistinctOffers /\ OnceEach
    /\ \A n \in DOMAIN pass.plan : pass.plan[n].kind = "reserve" => Backed(n)

\* The match so far: the jobs left may be placed and have no Reserve yet, and
\* a slot with room left has that much beside what its provider holds.
MatchOK ==
    pass.phase = "match" =>
      /\ \A j \in pass.todo :
           /\ Placeable(j)
           /\ \A n \in DOMAIN pass.plan : pass.plan[n].job = j => pass.plan[n].kind = "unhold"
      /\ \A i \in DOMAIN pass.slots :
           pass.room[i] > 0 =>
             Cardinality(Load(pass.slots[i].prov, Len(pass.plan))) + pass.room[i] <= pass.slots[i].cap
      /\ ~FreeLeft

Rows == [job : Jobs, amount : Nat, kind : {"committed", "spent"}, at : Nat]

LedgerOK ==
    /\ ledger \in [Windows -> Seq(Rows)]
    /\ \A w \in Windows : \A i \in DOMAIN ledger[w] : ledger[w][i].at <= now
    /\ now \in 0..MaxNow /\ crashes \in Nat /\ upsets \in Nat
    /\ torn \subseteq Jobs /\ retried \subseteq Jobs /\ charged \in [Jobs -> Nat]

Paying(j) == job[j].state \in Occupying /\ job[j].cost # None

\* Jobs a crash cut short whose placement since was billed already.
Overrun == {j \in torn : ~Paying(j)}

MoneyOK ==
    /\ Cardinality(torn) <= crashes
    /\ \A w \in Windows : Cap[w] # None =>
         /\ Total(w, now) + Reserved <= Cap[w] + Cardinality(Overrun) * Dearest
         /\ (\E n \in DOMAIN pass.plan : pass.plan[n].kind = "reserve" /\ pass.plan[n].cost > 0)
              => Total(w, now) + Reserved <= Cap[w]
-----------------------------------------------------------------------------
(* What the pass chooses exists.                                           *)

\* Among indices there is one of least key, the first of its kind.
LEMMA LeastExists ==
  ASSUME NEW S, S \subseteq Nat, S # {}, NEW f, \A i \in S : f[i] \in Nat
  PROVE  \E i \in S : \A k \in S : f[i] < f[k] \/ (f[i] = f[k] /\ i <= k)
<1> DEFINE V == {f[i] : i \in S}
<1>1. V \subseteq Nat /\ V # {}
  OBVIOUS
<1>2. PICK v \in V : \A u \in V : v <= u
  <2> HIDE DEF V
  <2>1. QED
    BY <1>1, NatLeast
<1> DEFINE R == {i \in S : f[i] = v}
<1>3. R \subseteq Nat /\ R # {}
  OBVIOUS
<1>4. PICK i \in R : \A k \in R : i <= k
  <2> HIDE DEF R
  <2>1. QED
    BY <1>3, NatLeast
<1>5. ASSUME NEW k \in S PROVE f[i] < f[k] \/ (f[i] = f[k] /\ i <= k)
  <2>1. v <= f[k] /\ v \in Nat /\ f[k] \in Nat
    BY <1>1, <1>2
  <2>2. f[k] = v => i <= k
    BY <1>4
  <2>3. QED
    BY <1>4, <2>1, <2>2
<1>6. QED
  BY <1>5

\* The slots of a pass, one by one.
LEMMA SlotType ==
  ASSUME PassOK, NEW i \in DOMAIN pass.slots
  PROVE  /\ pass.slots[i].prov \in Providers /\ pass.slots[i].key \in STRING
         /\ pass.slots[i].setup \in Nat /\ pass.slots[i].price \in Nat \cup {None}
         /\ pass.slots[i].wait \in Nat /\ pass.slots[i].cap \in Nat
         /\ i \in Nat /\ i # 0
<1>1. pass.slots \in Seq(Slots)
  BY DEF PassOK, Passes
<1>2. pass.slots[i] \in Slots /\ i \in Nat /\ i # 0
  BY <1>1
<1>3. QED
  BY <1>2 DEF Slots

\* A price is a natural number, or None where the runtime is not known.
LEMMA PriceType ==
  ASSUME PassOK, NEW i \in DOMAIN pass.slots, NEW j \in Jobs
  PROVE  /\ Price(pass.slots[i], j) \in Nat \cup {None}
         /\ IsFree(pass.slots[i]) => Price(pass.slots[i], j) = 0
<1> DEFINE s == pass.slots[i]
<1>1. s.setup \in Nat /\ s.price \in Nat \cup {None} /\ Time[j] \in Nat \cup {None}
  BY SlotType, SchedulerAssumption
<1> HIDE DEF s
<1>2. s.price # None /\ Time[j] # None => s.setup + s.price * Time[j] \in Nat
  BY <1>1
<1>3. Price(s, j) \in Nat \cup {None} /\ (IsFree(s) => Price(s, j) = 0)
  BY <1>2 DEF Price, IsFree
<1>4. QED
  BY <1>3 DEF s

\* What the match chooses fits, is allowed and has room; it is free, or no
\* free one serves in time and it is within what can be afforded.
LEMMA ChoiceCorrect ==
  ASSUME PassOK, NEW j \in Jobs, NEW i, i = Choice(j), i # 0
  PROVE  /\ i \in Fitting(j)
         /\ \/ IsFree(pass.slots[i])
            \/ FreeInTime(j) = {} /\ (i \in Affordable(j) \/ i \in Unpriced(j))
<1>1. Fitting(j) \subseteq DOMAIN pass.slots /\ Candidates(j) \subseteq Fitting(j)
  BY DEF Fitting, Candidates
<1>2. \A k \in DOMAIN pass.slots : pass.slots[k].wait \in Nat /\ k \in Nat
  BY SlotType
<1>3. ASSUME NEW S, S \subseteq Candidates(j), S # {} PROVE Soonest(S) \in S
  <2> DEFINE f == [k \in S |-> pass.slots[k].wait]
  <2>1. S \subseteq Nat /\ \A k \in S : f[k] \in Nat
    BY <1>1, <1>2, <1>3
  <2>2. \E k \in S : \A l \in S : f[k] < f[l] \/ (f[k] = f[l] /\ k <= l)
    <3> HIDE DEF f
    <3>1. QED
      BY <1>3, <2>1, LeastExists
  <2>3. \E k \in S : \A l \in S : \/ pass.slots[k].wait < pass.slots[l].wait
                                  \/ pass.slots[k].wait = pass.slots[l].wait /\ k <= l
    <3>1. \A k \in S : f[k] = pass.slots[k].wait
      OBVIOUS
    <3> HIDE DEF f
    <3>2. QED
      BY <2>2, <3>1
  <2>4. QED
    BY <2>3 DEF Soonest, Least
<1>4. ASSUME Affordable(j) # {}
      PROVE  Least(Affordable(j), LAMBDA k : Price(pass.slots[k], j)) \in Affordable(j)
  <2> DEFINE S == Affordable(j)
             f == [k \in S |-> Price(pass.slots[k], j)]
  <2>1. S \subseteq DOMAIN pass.slots /\ \A k \in S : Price(pass.slots[k], j) # None
    BY <1>1 DEF Affordable, PaidInTime
  <2>2. S \subseteq Nat /\ \A k \in S : f[k] \in Nat
    BY <1>2, <2>1, PriceType
  <2>3. \E k \in S : \A l \in S : f[k] < f[l] \/ (f[k] = f[l] /\ k <= l)
    <3> HIDE DEF f, S
    <3>1. S # {}
      BY <1>4 DEF S
    <3>2. QED
      BY <2>2, <3>1, LeastExists
  <2>4. \E k \in S : \A l \in S : \/ Price(pass.slots[k], j) < Price(pass.slots[l], j)
                                  \/ Price(pass.slots[k], j) = Price(pass.slots[l], j) /\ k <= l
    <3>1. \A k \in S : f[k] = Price(pass.slots[k], j)
      OBVIOUS
    <3> HIDE DEF f, S
    <3>2. QED
      BY <2>3, <3>1
  <2>5. QED
    BY <2>4 DEF Least
<1>5. ASSUME Unpriced(j) # {} PROVE Least(Unpriced(j), LAMBDA k : k) \in Unpriced(j)
  <2> DEFINE S == Unpriced(j)
  <2>1. S \subseteq Nat
    BY <1>1, <1>2 DEF Unpriced, PaidInTime
  <2>2. PICK k \in S : \A l \in S : k <= l
    <3> HIDE DEF S
    <3>1. S # {}
      BY <1>5 DEF S
    <3>2. QED
      BY <2>1, <3>1, NatLeast
  <2>3. \A l \in S : k < l \/ (k = l /\ k <= l)
    BY <2>1, <2>2
  <2>4. QED
    BY <2>3 DEF Least
<1>6. /\ FreeInTime(j) \subseteq FreeSlots(j) /\ FreeSlots(j) \subseteq Candidates(j)
      /\ Affordable(j) \subseteq Candidates(j) /\ Unpriced(j) \subseteq Candidates(j)
      /\ \A k \in FreeSlots(j) : IsFree(pass.slots[k])
  BY DEF FreeInTime, FreeSlots, Affordable, Unpriced, PaidInTime
<1>7. CASE FreeInTime(j) # {}
  <2>1. i = Soonest(FreeInTime(j))
    BY <1>7 DEF Choice
  <2>2. i \in FreeInTime(j)
    BY <1>3, <1>6, <1>7, <2>1
  <2>3. QED
    BY <1>1, <1>6, <2>2
<1>8. CASE FreeInTime(j) = {} /\ Affordable(j) # {}
  BY <1>1, <1>4, <1>6, <1>8 DEF Choice
<1>9. CASE FreeInTime(j) = {} /\ Affordable(j) = {} /\ Unpriced(j) # {}
  BY <1>1, <1>5, <1>6, <1>9 DEF Choice
<1>10. CASE FreeInTime(j) = {} /\ Affordable(j) = {} /\ Unpriced(j) = {} /\ FreeSlots(j) # {}
  <2>1. i = Soonest(FreeSlots(j))
    BY <1>10 DEF Choice
  <2>2. i \in FreeSlots(j)
    BY <1>3, <1>6, <1>10, <2>1
  <2>3. QED
    BY <1>1, <1>6, <2>2
<1>11. QED
  BY <1>7, <1>8, <1>9, <1>10 DEF Choice

\* The jobs are finitely many.
LEMMA JobsFinite == IsFiniteSet(Jobs)
<1>1. JobSeq \in Seq(Jobs) /\ DOMAIN JobSeq = 1..Len(JobSeq) /\ Len(JobSeq) \in Nat
  BY SchedulerAssumption
<1>2. IsFiniteSet(DOMAIN JobSeq)
  BY <1>1, FS_Interval
<1>3. IsFiniteSet({JobSeq[i] : i \in DOMAIN JobSeq})
  BY <1>2, ImageFinite
<1>4. QED
  BY <1>3 DEF Jobs

\* The position of a job in the list is its own.
LEMMA PositionOwn ==
  /\ \A j \in Jobs : Position(j) \in Nat
  /\ \A j, k \in Jobs : Position(j) = Position(k) => j = k
<1>1. ASSUME NEW j \in Jobs PROVE Position(j) \in DOMAIN JobSeq /\ JobSeq[Position(j)] = j
  BY DEF Jobs, Position
<1>2. DOMAIN JobSeq \subseteq Nat
  BY SchedulerAssumption
<1>3. QED
  BY <1>1, <1>2

\* The ranking is a strict order of the jobs, and no two jobs are level in it.
LEMMA BeforeOrder ==
  ASSUME JobsOK, NEW t \in Nat
  PROVE  /\ \A j, k, l \in Jobs : Before(j, k, t) /\ Before(k, l, t) => Before(j, l, t)
         /\ \A j, k \in Jobs : j # k => Before(j, k, t) \/ Before(k, j, t)
<1>1. ASSUME NEW j \in Jobs
      PROVE  /\ job[j].priority \in Int /\ Urgency(j, t) \in Int /\ job[j].submitted \in Int
             /\ Position(j) \in Int
  <2>1. /\ job[j].priority \in Int /\ job[j].submitted \in Nat
        /\ job[j].finish \in Int \cup {None}
    BY DEF JobsOK, JobRecord
  <2>2. Time[j] \in Nat \cup {None}
    BY SchedulerAssumption
  <2>3. Urgency(j, t) \in Int
    BY <2>1, <2>2 DEF Urgency
  <2>4. QED
    BY <2>1, <2>3, PositionOwn
<1>2. ASSUME NEW j \in Jobs, NEW k \in Jobs, NEW l \in Jobs, Before(j, k, t), Before(k, l, t)
      PROVE  Before(j, l, t)
  BY <1>1, <1>2 DEF Before
<1>3. ASSUME NEW j \in Jobs, NEW k \in Jobs, j # k PROVE Before(j, k, t) \/ Before(k, j, t)
  <2>1. Position(j) # Position(k)
    BY <1>3, PositionOwn
  <2>2. QED
    BY <1>1, <2>1 DEF Before
<1>4. QED
  BY <1>2, <1>3

\* Among the jobs left to match one ranks first.
LEMMA FirstExists ==
  ASSUME JobsOK, NEW t \in Nat, NEW S, S \subseteq Jobs, S # {}
  PROVE  \E k \in S : \A o \in S \ {k} : Before(k, o, t)
<1> DEFINE First(s) == \E k \in s : \A o \in s \ {k} : Before(k, o, t)
           T == {s \in SUBSET S : s # {} /\ ~First(s)}
<1>1. IsFiniteSet(S)
  BY JobsFinite, FS_Subset
<1>2. T = {}
  <2> SUFFICES ASSUME T # {} PROVE FALSE
    OBVIOUS
  <2>1. PICK U \in T : \A V \in SUBSET U : V # U => V \notin T
    <3> HIDE DEF T
    <3>1. T \subseteq SUBSET S
      BY DEF T
    <3>2. QED
      BY <1>1, <3>1, LeastSubset
  <2>2. PICK x \in U : TRUE
    OBVIOUS
  <2>3. CASE U = {x}
    BY <2>1, <2>3
  <2>4. CASE U # {x}
    <3>1. U \ {x} # {} /\ U \ {x} \in SUBSET S /\ U \ {x} # U
      BY <2>1, <2>2, <2>4
    <3>2. First(U \ {x})
      BY <2>1, <3>1
    <3>3. PICK k \in U \ {x} : \A o \in (U \ {x}) \ {k} : Before(k, o, t)
      BY <3>2
    <3>4. /\ U \subseteq Jobs /\ x \in Jobs /\ k \in Jobs /\ x # k
      BY <2>1, <2>2, <3>3
    <3>5. CASE Before(k, x, t)
      <4>1. \A o \in U \ {k} : Before(k, o, t)
        BY <3>3, <3>5
      <4>2. QED
        BY <2>1, <3>3, <4>1
    <3>6. CASE Before(x, k, t)
      <4>1. \A o \in U \ {x} : Before(x, o, t)
        BY <3>3, <3>4, <3>6, BeforeOrder
      <4>2. QED
        BY <2>1, <2>2, <4>1
    <3>7. QED
      BY <3>4, <3>5, <3>6, BeforeOrder
  <2>5. QED
    BY <2>3, <2>4
<1>3. QED
  BY <1>2

-----------------------------------------------------------------------------
(* The decisions a pass begins with.                                       *)

\* One turn of the loop that makes them, and the table of its turns.
Turn(offered, t, g, n) ==
    IF n = 0 THEN <<>>
    ELSE IF Verdict(JobSeq[n], offered, t) = "none" THEN g[n - 1]
         ELSE Append(g[n - 1], Decision(Verdict(JobSeq[n], offered, t), JobSeq[n]))
IsLoop(offered, t, g) == g = [n \in 0..Len(JobSeq) |-> Turn(offered, t, g, n)]
Loop(offered, t) == CHOOSE g : IsLoop(offered, t, g)

\* The decisions are the last entry of the table.
LEMMA AdmissionsByLoop ==
  ASSUME NEW offered, NEW t
  PROVE  Admissions(offered, t) = Loop(offered, t)[Len(JobSeq)]
BY DEF Admissions, Loop, IsLoop, Turn

\* A verdict is none, or a decision of the pass about its job.
LEMMA VerdictType ==
  ASSUME NEW offered, NEW t, NEW j \in Jobs, Verdict(j, offered, t) # "none"
  PROVE  /\ Decision(Verdict(j, offered, t), j) \in Decisions
         /\ Decision(Verdict(j, offered, t), j).kind \in {"hold", "unhold", "fail", "requeue"}
         /\ Decision(Verdict(j, offered, t), j).job = j
<1>1. Verdict(j, offered, t) \in {"hold", "unhold", "fail", "requeue"}
  BY DEF Verdict
<1>2. QED
  BY <1>1 DEF Decision, Decisions

\* The table exists, by induction on the turn up to which it is filled in.
LEMMA LoopExists ==
  ASSUME NEW offered, NEW t
  PROVE  IsLoop(offered, t, Loop(offered, t))
<1> DEFINE N == Len(JobSeq)
           Upto(g, n) == \A m \in 0..N : m <= n => g[m] = Turn(offered, t, g, m)
           T == {n \in Nat : \E g \in [0..N -> Seq(Decisions)] : Upto(g, n)}
<1>1. N \in Nat /\ DOMAIN JobSeq = 1..N /\ \A n \in 1..N : JobSeq[n] \in Jobs
  BY SchedulerAssumption
<1> HIDE DEF N
<1>2. 0 \in T
  <2> DEFINE z == [m \in 0..N |-> <<>>]
  <2>1. z \in [0..N -> Seq(Decisions)]
    OBVIOUS
  <2>2. Upto(z, 0)
    BY DEF Turn
  <2>3. QED
    BY <2>1, <2>2
<1>3. ASSUME NEW n \in Nat, n \in T PROVE n + 1 \in T
  <2>1. PICK g \in [0..N -> Seq(Decisions)] : Upto(g, n)
    BY <1>3
  <2> DEFINE h == [m \in 0..N |-> Turn(offered, t, g, m)]
  <2>2. ASSUME NEW m \in 0..N PROVE Turn(offered, t, g, m) \in Seq(Decisions)
    <3>1. CASE m = 0
      BY <3>1 DEF Turn
    <3>2. CASE m # 0
      <4>1. m - 1 \in 0..N /\ m \in 1..N
        BY <1>1, <3>2
      <4>2. g[m - 1] \in Seq(Decisions) /\ JobSeq[m] \in Jobs
        BY <1>1, <4>1
      <4>3. CASE Verdict(JobSeq[m], offered, t) = "none"
        BY <3>2, <4>2, <4>3 DEF Turn
      <4>4. CASE Verdict(JobSeq[m], offered, t) # "none"
        <5>1. Decision(Verdict(JobSeq[m], offered, t), JobSeq[m]) \in Decisions
          BY <4>2, <4>4, VerdictType
        <5>2. Turn(offered, t, g, m)
                = Append(g[m - 1], Decision(Verdict(JobSeq[m], offered, t), JobSeq[m]))
          BY <3>2, <4>4 DEF Turn
        <5> HIDE DEF h, T, Upto
        <5>3. QED
          BY <4>2, <5>1, <5>2
      <4>5. QED
        BY <4>3, <4>4
    <3>3. QED
      BY <3>1, <3>2
  <2>3. h \in [0..N -> Seq(Decisions)]
    BY <2>2
  <2>4. ASSUME NEW m \in 0..N, m <= n + 1 PROVE h[m] = Turn(offered, t, h, m)
    <3>1. CASE m = 0
      BY <3>1 DEF Turn
    <3>2. CASE m # 0
      <4>1. m - 1 \in 0..N /\ m - 1 <= n
        BY <1>1, <2>4, <3>2
      <4>2. h[m - 1] = g[m - 1]
        BY <2>1, <4>1
      <4>3. h[m] = Turn(offered, t, g, m)
        OBVIOUS
      <4> HIDE DEF h
      <4>4. QED
        BY <4>2, <4>3 DEF Turn
    <3>3. QED
      BY <3>1, <3>2
  <2> HIDE DEF h
  <2>5. Upto(h, n + 1)
    BY <2>4
  <2> HIDE DEF Upto
  <2>6. QED
    BY <2>3, <2>5
<1> HIDE DEF T
<1>4. N \in T
  BY <1>1, <1>2, <1>3, NatSetInduction
<1>5. PICK g \in [0..N -> Seq(Decisions)] : Upto(g, N)
  BY <1>4 DEF T
<1>6. IsLoop(offered, t, g)
  <2>1. \A m \in 0..N : g[m] = Turn(offered, t, g, m)
    BY <1>1, <1>5
  <2>2. g = [m \in 0..N |-> Turn(offered, t, g, m)]
    BY <2>1
  <2>3. QED
    BY <2>2 DEF IsLoop, N
<1>7. QED
  BY <1>6 DEF Loop

\* A pass begins with at most one decision of each job, and none to place it.
LEMMA AdmissionsCorrect ==
  ASSUME NEW offered, NEW t, NEW plan, plan = Admissions(offered, t)
  PROVE  /\ plan \in Seq(Decisions)
         /\ \A n \in DOMAIN plan : /\ plan[n].kind \in {"hold", "unhold", "fail", "requeue"}
                                   /\ plan[n].kind = Verdict(plan[n].job, offered, t)
                                   /\ plan[n].job \in Jobs
         /\ \A n, m \in DOMAIN plan : plan[n].job = plan[m].job => n = m
<1> DEFINE N == Len(JobSeq)
           g == Loop(offered, t)
           Good(s, n) == /\ s \in Seq(Decisions)
                         /\ \A k \in DOMAIN s :
                              /\ s[k].kind \in {"hold", "unhold", "fail", "requeue"}
                              /\ s[k].kind = Verdict(s[k].job, offered, t)
                              /\ \E i \in 1..n : i <= N /\ s[k].job = JobSeq[i]
                         /\ \A k, l \in DOMAIN s : s[k].job = s[l].job => k = l
           T == {n \in Nat : n <= N => Good(g[n], n)}
<1>1. /\ N \in Nat /\ DOMAIN JobSeq = 1..N /\ \A n \in 1..N : JobSeq[n] \in Jobs
      /\ \A i, k \in 1..N : JobSeq[i] = JobSeq[k] => i = k
  BY SchedulerAssumption
<1>2. \A n \in 0..N : g[n] = Turn(offered, t, g, n)
  <2>1. IsLoop(offered, t, g)
    BY LoopExists
  <2> HIDE DEF g
  <2>2. QED
    BY <2>1 DEF IsLoop
<1> HIDE DEF N, g
<1>3. 0 \in T
  <2>1. g[0] = <<>>
    BY <1>1, <1>2 DEF Turn
  <2>2. g[0] \in Seq(Decisions) /\ DOMAIN g[0] = {}
    BY <2>1
  <2>3. Good(g[0], 0)
    BY <2>2
  <2> HIDE DEF Good
  <2>4. QED
    BY <2>3
<1>4. ASSUME NEW n \in Nat, n \in T PROVE n + 1 \in T
  <2> SUFFICES ASSUME n + 1 <= N PROVE Good(g[n + 1], n + 1)
    OBVIOUS
  <2> DEFINE v == Verdict(JobSeq[n + 1], offered, t)
             d == Decision(v, JobSeq[n + 1])
  <2>1. n + 1 \in 1..N /\ n + 1 \in 0..N /\ n \in 0..N /\ n <= N /\ (n + 1) - 1 = n /\ n + 1 # 0
    BY <1>1
  <2>2. Good(g[n], n)
    BY <1>4, <2>1
  <2>3. g[n + 1] = IF v = "none" THEN g[n] ELSE Append(g[n], d)
    BY <1>2, <2>1 DEF Turn
  <2>4. CASE v = "none"
    <3>1. g[n + 1] = g[n]
      BY <2>3, <2>4
    <3>2. \A i \in 1..n : i \in 1..(n + 1)
      BY <2>1
    <3>3. QED
      BY <2>2, <3>1, <3>2
  <2>5. CASE v # "none"
    <3>1. /\ d \in Decisions /\ d.kind \in {"hold", "unhold", "fail", "requeue"}
          /\ d.job = JobSeq[n + 1] /\ d.kind = Verdict(d.job, offered, t)
      <4>1. JobSeq[n + 1] \in Jobs
        BY <1>1, <2>1
      <4>2. d.kind = v
        BY DEF Decision
      <4>3. QED
        BY <2>5, <4>1, <4>2, VerdictType
    <3> DEFINE s == g[n]
               r == g[n + 1]
    <3>2. r = Append(s, d)
      BY <2>3, <2>5
    <3> HIDE DEF d, v
    <3>3. /\ s \in Seq(Decisions) /\ DOMAIN s = 1..Len(s) /\ Len(s) \in Nat
          /\ \A k \in DOMAIN s : s[k].job # d.job
      <4>1. \A k \in DOMAIN s : \E i \in 1..n : i <= N /\ s[k].job = JobSeq[i]
        BY <2>2
      <4>2. \A i \in 1..n : i <= N => JobSeq[i] # JobSeq[n + 1]
        BY <1>1, <2>1
      <4>3. QED
        BY <2>2, <3>1, <4>1, <4>2
    <3> HIDE DEF s, r
    <3>4. /\ r \in Seq(Decisions) /\ DOMAIN r = 1..(Len(s) + 1)
          /\ \A k \in 1..Len(s) : r[k] = s[k] /\ r[Len(s) + 1] = d
      BY <3>1, <3>2, <3>3
    <3>5. r[Len(s) + 1] = d
      BY <3>1, <3>2, <3>3
    <3>6. \A k \in DOMAIN r :
            (k \in DOMAIN s /\ r[k] = s[k]) \/ (k = Len(s) + 1 /\ r[k] = d)
      <4>1. \A k \in 1..(Len(s) + 1) : k \in 1..Len(s) \/ k = Len(s) + 1
        BY <3>3
      <4>2. QED
        BY <3>3, <3>4, <3>5, <4>1
    <3>7. Good(s, n)
      BY <2>2 DEF s
    <3>8. ASSUME NEW k \in DOMAIN r
          PROVE  /\ r[k].kind \in {"hold", "unhold", "fail", "requeue"}
                 /\ r[k].kind = Verdict(r[k].job, offered, t)
                 /\ \E i \in 1..(n + 1) : i <= N /\ r[k].job = JobSeq[i]
      <4>1. CASE k \in DOMAIN s /\ r[k] = s[k]
        <5>1. PICK i \in 1..n : i <= N /\ s[k].job = JobSeq[i]
          BY <3>7, <4>1
        <5>2. i \in 1..(n + 1)
          OBVIOUS
        <5>3. QED
          BY <3>7, <4>1, <5>1, <5>2
      <4>2. CASE r[k] = d
        BY <2>1, <3>1, <4>2
      <4>3. QED
        BY <3>6, <4>1, <4>2
    <3>9. \A k, l \in DOMAIN r : r[k].job = r[l].job => k = l
      BY <3>3, <3>6, <3>7
    <3>10. QED
      BY <3>4, <3>8, <3>9 DEF r
  <2>6. QED
    BY <2>4, <2>5
<1> HIDE DEF T
<1>5. N \in T
  BY <1>1, <1>3, <1>4, NatSetInduction
<1>6. Good(g[N], N)
  BY <1>1, <1>5 DEF T
<1>7. plan = g[N]
  BY AdmissionsByLoop DEF g, N
<1>8. QED
  BY <1>1, <1>6, <1>7

-----------------------------------------------------------------------------
(* What each action does to the jobs.                                      *)

\* A step that writes the record of one job, and leaves it a sound one.
Touches(j) ==
    /\ j \in Jobs /\ job' \in [Jobs -> JobRecord] /\ Sound(job'[j])
    /\ \A k \in Jobs \ {j} : job'[k] = job[k]

\* The same, and what the job depends on stays as it was submitted.
Moves(j, to) ==
    /\ Touches(j) /\ job'[j].state = to /\ to # "ABSENT"
    /\ job'[j].deps = job[j].deps /\ (job'[j].ignore => job[j].ignore)

\* How a record is written in place of another.
LEMMA Written1 ==
  ASSUME JobsOK, NEW j \in Jobs, NEW r, Sound(r), job' = [job EXCEPT ![j] = r]
  PROVE  Touches(j) /\ job'[j] = r
BY DEF JobsOK, Touches, Sound

\* No job it may depend on is lost, and what it depends on was submitted.
LEMMA JobsKept ==
  ASSUME JobsOK, NEW j, Touches(j),
         job'[j].state = "ABSENT" => job[j].state = "ABSENT",
         job'[j].ignore => \E p \in Policies[j] : p.ignore,
         \A d \in job'[j].deps : job[d].state # "ABSENT"
  PROVE  JobsOK'
<1>1. \A k \in Jobs : Sound(job'[k])
  BY DEF JobsOK, Touches
<1>2. \A d \in Jobs : job[d].state # "ABSENT" => job'[d].state # "ABSENT"
  BY DEF Touches
<1>3. ASSUME NEW k \in Jobs PROVE Bound(k)'
  <2>1. (job'[k].ignore => \E p \in Policies[k] : p.ignore) /\ job'[k].deps \subseteq Jobs
    BY DEF JobsOK, Touches, Bound, JobRecord
  <2>2. \A d \in job'[k].deps : job[d].state # "ABSENT"
    BY DEF JobsOK, Touches, Bound
  <2>3. QED
    BY <1>2, <2>1, <2>2 DEF Bound
<1>4. QED
  BY <1>1, <1>3 DEF JobsOK, Touches, Sound

\* A move keeps all of it.
LEMMA MovesKeep ==
  ASSUME JobsOK, NEW j, NEW s, Moves(j, s)
  PROVE  JobsOK'
<1>1. j \in Jobs /\ Bound(j)
  BY DEF Moves, Touches, JobsOK
<1>2. QED
  BY <1>1, JobsKept DEF Moves, Bound

\* The head of the plan, while there is one.
LEMMA HeadType ==
  ASSUME PassOK, pass.phase = "enact"
  PROVE  /\ Head(pass.plan) = pass.plan[1] /\ Head(pass.plan) \in Decisions
         /\ 1 \in DOMAIN pass.plan /\ Len(pass.plan) \in Nat /\ Len(pass.plan) >= 1
         /\ Head(pass.plan).job \in Jobs
<1>1. pass.plan \in Seq(Decisions) /\ pass.plan # <<>>
  BY DEF PassOK, Passes
<1>2. /\ Head(pass.plan) = pass.plan[1] /\ Head(pass.plan) \in Decisions
      /\ 1 \in DOMAIN pass.plan /\ Len(pass.plan) \in Nat /\ Len(pass.plan) >= 1
  BY <1>1
<1>3. QED
  BY <1>2 DEF Decisions

\* A hold takes its job from the queue, and back again an unhold.
LEMMA HoldEffect ==
  ASSUME JobsOK, PassOK, EnactHold
  PROVE  /\ Moves(Head(pass.plan).job, "HELD")
         /\ job[Head(pass.plan).job].state = "QUEUED"
         /\ job'[Head(pass.plan).job].cost = None /\ job'[Head(pass.plan).job].attempts = job[Head(pass.plan).job].attempts
<1> DEFINE j == Head(pass.plan).job
           r == [job[j] EXCEPT !.state = "HELD"]
<1>1. j \in Jobs /\ job[j].state = "QUEUED" /\ job' = [job EXCEPT ![j].state = "HELD"]
  BY HeadType DEF EnactHold, Enacting
<1> HIDE DEF j
<1>2. job[j] \in JobRecord /\ Sound(job[j]) /\ job \in [Jobs -> JobRecord]
  BY <1>1 DEF JobsOK
<1>3. job' = [job EXCEPT ![j] = r]
  BY <1>1, <1>2
<1>4. Sound(r)
  BY <1>1, <1>2 DEF Sound, JobRecord, States, Pending, Occupying, Terminal, Queued
<1>5. r.state = "HELD" /\ r.cost = None /\ r.deps = job[j].deps /\ r.ignore = job[j].ignore /\ r.attempts = job[j].attempts
  BY <1>1, <1>2 DEF JobRecord, Sound, Pending, Queued
<1> HIDE DEF r
<1>6. Touches(j) /\ job'[j] = r
  BY <1>1, <1>3, <1>4, Written1
<1>7. QED
  BY <1>1, <1>5, <1>6 DEF Moves, j

\* An unhold puts it back.
LEMMA UnholdEffect ==
  ASSUME JobsOK, PassOK, EnactUnhold
  PROVE  /\ Moves(Head(pass.plan).job, "QUEUED")
         /\ job[Head(pass.plan).job].state = "HELD"
         /\ job'[Head(pass.plan).job].cost = None /\ job'[Head(pass.plan).job].attempts = job[Head(pass.plan).job].attempts
<1> DEFINE j == Head(pass.plan).job
           r == [job[j] EXCEPT !.state = "QUEUED"]
<1>1. j \in Jobs /\ job[j].state = "HELD" /\ job' = [job EXCEPT ![j].state = "QUEUED"]
  BY HeadType DEF EnactUnhold, Enacting
<1> HIDE DEF j
<1>2. job[j] \in JobRecord /\ Sound(job[j]) /\ job \in [Jobs -> JobRecord]
  BY <1>1 DEF JobsOK
<1>3. job' = [job EXCEPT ![j] = r]
  BY <1>1, <1>2
<1>4. Sound(r)
  BY <1>1, <1>2 DEF Sound, JobRecord, States, Pending, Occupying, Terminal, Queued
<1>5. r.state = "QUEUED" /\ r.cost = None /\ r.deps = job[j].deps /\ r.ignore = job[j].ignore /\ r.attempts = job[j].attempts
  BY <1>1, <1>2 DEF JobRecord, Sound, Pending, Queued
<1> HIDE DEF r
<1>6. Touches(j) /\ job'[j] = r
  BY <1>1, <1>3, <1>4, Written1
<1>7. QED
  BY <1>1, <1>5, <1>6 DEF Moves, j

\* A failed decision ends a job that was waiting.
LEMMA FailEffect ==
  ASSUME JobsOK, PassOK, EnactFail
  PROVE  /\ Moves(Head(pass.plan).job, "FAILED")
         /\ job[Head(pass.plan).job].state \in Pending
         /\ job'[Head(pass.plan).job].cost = None /\ job'[Head(pass.plan).job].attempts = job[Head(pass.plan).job].attempts
<1> DEFINE j == Head(pass.plan).job
           r == [job[j] EXCEPT !.state = "FAILED"]
<1>1. j \in Jobs /\ job[j].state \in Pending /\ job' = [job EXCEPT ![j].state = "FAILED"]
  BY HeadType DEF EnactFail, Enacting
<1> HIDE DEF j
<1>2. job[j] \in JobRecord /\ Sound(job[j]) /\ job \in [Jobs -> JobRecord]
  BY <1>1 DEF JobsOK
<1>3. job' = [job EXCEPT ![j] = r]
  BY <1>1, <1>2
<1>4. Sound(r)
  BY <1>1, <1>2 DEF Sound, JobRecord, States, Pending, Occupying, Terminal, Queued
<1>5. r.state = "FAILED" /\ r.cost = None /\ r.deps = job[j].deps /\ r.ignore = job[j].ignore /\ r.attempts = job[j].attempts
  BY <1>1, <1>2 DEF JobRecord, Sound, Pending, Queued
<1> HIDE DEF r
<1>6. Touches(j) /\ job'[j] = r
  BY <1>1, <1>3, <1>4, Written1
<1>7. QED
  BY <1>1, <1>5, <1>6 DEF Moves, j

\* A Reserve places its job, at the price that was decided.
LEMMA ReserveEffect ==
  ASSUME JobsOK, PassOK, NEW ws, EnactReserve(ws), Backed(1)
  PROVE  /\ Moves(Head(pass.plan).job, "PLACING")
         /\ job[Head(pass.plan).job].state \in Pending /\ job[Head(pass.plan).job].cost = None
         /\ job'[Head(pass.plan).job].prov = Head(pass.plan).prov
         /\ job'[Head(pass.plan).job].cost = IF Head(pass.plan).cost > 0 THEN Head(pass.plan).cost ELSE None
<1> DEFINE j == Head(pass.plan).job
           r == [job[j] EXCEPT !.state = "PLACING", !.prov = Head(pass.plan).prov,
                              !.cost = IF Head(pass.plan).cost > 0 THEN Head(pass.plan).cost ELSE None]
<1>1. j \in Jobs /\ job[j].state \in Pending
         /\ job' = [job EXCEPT ![j].state = "PLACING", ![j].prov = Head(pass.plan).prov,
                               ![j].cost = IF Head(pass.plan).cost > 0 THEN Head(pass.plan).cost ELSE None]
  BY HeadType DEF EnactReserve, Enacting
<1> HIDE DEF j
<1>2. job[j] \in JobRecord /\ Sound(job[j]) /\ job \in [Jobs -> JobRecord]
  BY <1>1 DEF JobsOK
<1>8. /\ Head(pass.plan).prov \in Providers \cup {None} /\ Head(pass.plan).cost \in Nat
      /\ None \notin Nat
  <2>1. Head(pass.plan) \in Decisions
    BY HeadType DEF Enacting, EnactReserve
  <2>2. None \notin Nat
    BY SchedulerAssumption
  <2>3. QED
    BY <2>1, <2>2 DEF Decisions
<1>9. job[j].attempts < MaxAttempts /\ Head(pass.plan).cost <= Dearest
  BY HeadType DEF Backed, Placeable, EnactReserve, Enacting, j
<1>3. job' = [job EXCEPT ![j] = r]
  BY <1>1, <1>2
<1>4. Sound(r)
  <2>1. "PLACING" \in States
    BY DEF States, Occupying
  <2> HIDE DEF States
  <2>2. r \in JobRecord
    BY <1>2, <1>8, <2>1 DEF JobRecord
  <2>3. /\ r.state = "PLACING" /\ r.attempts = job[j].attempts /\ r.error = job[j].error
        /\ r.cost = IF Head(pass.plan).cost > 0 THEN Head(pass.plan).cost ELSE None
    BY <1>2 DEF JobRecord
  <2> HIDE DEF r
  <2>4. QED
    BY <1>2, <1>8, <1>9, <2>2, <2>3 DEF Sound, Pending
<1>5. /\ r.state = "PLACING" /\ r.prov = Head(pass.plan).prov /\ job[j].cost = None
      /\ r.cost = IF Head(pass.plan).cost > 0 THEN Head(pass.plan).cost ELSE None
      /\ r.deps = job[j].deps /\ r.ignore = job[j].ignore
  BY <1>1, <1>2 DEF JobRecord, Sound, Pending, Queued
<1> HIDE DEF r
<1>6. Touches(j) /\ job'[j] = r
  BY <1>1, <1>3, <1>4, Written1
<1>7. QED
  BY <1>1, <1>5, <1>6 DEF Moves, j

\* A requeue takes a dead placement back to the queue.
LEMMA RequeueEffect ==
  ASSUME JobsOK, PassOK, LedgerOK, NEW ws, EnactRequeue(ws)
  PROVE  /\ Moves(Head(pass.plan).job, "QUEUED")
         /\ job[Head(pass.plan).job].state = "RUNNING"
         /\ job'[Head(pass.plan).job].cost = None /\ job'[Head(pass.plan).job].attempts = job[Head(pass.plan).job].attempts
<1> DEFINE j == Head(pass.plan).job
           r == [Queued(job[j]) EXCEPT !.notBefore = Later(now + Backoff)]
<1>1. j \in Jobs /\ job[j].state = "RUNNING"
         /\ job' = [job EXCEPT ![j] = [Queued(@) EXCEPT !.notBefore = Later(now + Backoff)]]
  BY HeadType DEF EnactRequeue, Enacting
<1> HIDE DEF j
<1>2. job[j] \in JobRecord /\ Sound(job[j]) /\ job \in [Jobs -> JobRecord]
  BY <1>1 DEF JobsOK
<1>8. Later(now + Backoff) \in Nat
  BY SchedulerAssumption DEF Later, LedgerOK
<1>3. job' = [job EXCEPT ![j] = r]
  BY <1>1, <1>2
<1>4. Sound(r)
  <2>1. "QUEUED" \in States
    BY DEF States, Pending
  <2>2. r \in JobRecord
    BY <1>2, <1>8, <2>1 DEF JobRecord, Queued
  <2>3. r.cost = None /\ r.state = "QUEUED" /\ r.attempts = job[j].attempts /\ r.error = job[j].error
    BY <1>2 DEF JobRecord, Queued
  <2> HIDE DEF r
  <2>4. QED
    BY <1>2, <2>2, <2>3 DEF Sound
<1>5. r.state = "QUEUED" /\ r.cost = None /\ r.deps = job[j].deps /\ r.ignore = job[j].ignore /\ r.attempts = job[j].attempts
  BY <1>1, <1>2 DEF JobRecord, Sound, Pending, Queued
<1> HIDE DEF r
<1>6. Touches(j) /\ job'[j] = r
  BY <1>1, <1>3, <1>4, Written1
<1>7. QED
  BY <1>1, <1>5, <1>6 DEF Moves, j

\* A placement that started keeps its provider and its price.
LEMMA ActivateEffect ==
  ASSUME JobsOK, PassOK, NEW j \in Jobs, Activate(j)
  PROVE  /\ Moves(j, "RUNNING")
         /\ job[j].state = "PLACING"
         /\ job'[j].cost = job[j].cost /\ job'[j].prov = job[j].prov
<1> DEFINE r == [job[j] EXCEPT !.state = "RUNNING"]
<1>1. j \in Jobs /\ job[j].state = "PLACING" /\ job' = [job EXCEPT ![j].state = "RUNNING"]
  BY DEF Activate
<1>2. job[j] \in JobRecord /\ Sound(job[j]) /\ job \in [Jobs -> JobRecord]
  BY <1>1 DEF JobsOK
<1>3. job' = [job EXCEPT ![j] = r]
  BY <1>1, <1>2
<1>4. Sound(r)
  BY <1>1, <1>2 DEF Sound, JobRecord, States, Pending, Occupying, Terminal, Queued
<1>5. r.state = "RUNNING" /\ r.cost = job[j].cost /\ r.prov = job[j].prov /\ r.deps = job[j].deps /\ r.ignore = job[j].ignore /\ r.attempts = job[j].attempts
  BY <1>1, <1>2 DEF JobRecord, Sound, Pending, Queued
<1> HIDE DEF r
<1>6. Touches(j) /\ job'[j] = r
  BY <1>1, <1>3, <1>4, Written1
<1>7. QED
  BY <1>1, <1>5, <1>6 DEF Moves

\* So does one whose worker died.
LEMMA WorkerDiesEffect ==
  ASSUME JobsOK, PassOK, NEW j \in Jobs, WorkerDies(j)
  PROVE  /\ Moves(j, "RUNNING")
         /\ job[j].state = "RUNNING"
         /\ job'[j].cost = job[j].cost /\ job'[j].prov = job[j].prov
<1> DEFINE r == [job[j] EXCEPT !.dead = TRUE]
<1>1. j \in Jobs /\ job[j].state = "RUNNING" /\ job' = [job EXCEPT ![j].dead = TRUE]
  BY DEF WorkerDies
<1>2. job[j] \in JobRecord /\ Sound(job[j]) /\ job \in [Jobs -> JobRecord]
  BY <1>1 DEF JobsOK
<1>3. job' = [job EXCEPT ![j] = r]
  BY <1>1, <1>2
<1>4. Sound(r)
  <2>1. r \in JobRecord
    BY <1>2 DEF JobRecord
  <2>2. r.state = job[j].state /\ r.cost = job[j].cost /\ r.attempts = job[j].attempts /\ r.error = job[j].error
    BY <1>2 DEF JobRecord
  <2> HIDE DEF r
  <2>3. QED
    BY <1>2, <2>1, <2>2 DEF Sound
<1>5. r.state = "RUNNING" /\ r.cost = job[j].cost /\ r.prov = job[j].prov /\ r.deps = job[j].deps /\ r.ignore = job[j].ignore /\ r.attempts = job[j].attempts
  BY <1>1, <1>2 DEF JobRecord, Sound, Pending, Queued
<1> HIDE DEF r
<1>6. Touches(j) /\ job'[j] = r
  BY <1>1, <1>3, <1>4, Written1
<1>7. QED
  BY <1>1, <1>5, <1>6 DEF Moves

\* What goes back to the queue keeps no placement.
LEMMA QueuedType ==
  ASSUME NEW w \in JobRecord, NEW r, r = Queued(w)
  PROVE  /\ r \in JobRecord /\ r.state = "QUEUED" /\ r.prov = None /\ r.cost = None
         /\ r.attempts = w.attempts /\ r.error = w.error /\ r.deps = w.deps /\ r.ignore = w.ignore
<1>1. "QUEUED" \in States
  BY DEF States, Pending
<1> HIDE DEF States
<1>2. QED
  BY <1>1 DEF Queued, JobRecord

\* A failure is counted, and takes nothing else from the placement.
LEMMA BlamedType ==
  ASSUME LedgerOK, NEW w \in JobRecord, NEW r, r = Blamed(w)
  PROVE  /\ r \in JobRecord /\ r.state = w.state /\ r.prov = w.prov /\ r.cost = w.cost
         /\ r.attempts = w.attempts + 1 /\ r.error = TRUE /\ r.deps = w.deps /\ r.ignore = w.ignore
<1> DEFINE a == w.attempts + 1
           n == Later(now + Backoff)
           v == [w.avoid EXCEPT ![w.prov] = Later(now + Avoidance)]
<1>1. n \in Nat /\ Later(now + Avoidance) \in Nat
  BY SchedulerAssumption DEF Later, LedgerOK
<1>2. a \in Nat /\ v \in [Providers -> Nat]
  <2>1. w.attempts \in Nat /\ w.avoid \in [Providers -> Nat]
    BY DEF JobRecord
  <2>2. a \in Nat
    BY <2>1
  <2>3. ASSUME NEW f, f \in [Providers -> Nat], NEW p, NEW m \in Nat
        PROVE  [f EXCEPT ![p] = m] \in [Providers -> Nat]
    BY <2>3
  <2>4. QED
    BY <1>1, <2>1, <2>2, <2>3
<1>3. r = [w EXCEPT !.attempts = a, !.error = TRUE, !.notBefore = n, !.avoid = v]
  BY DEF Blamed
<1> HIDE DEF a, n, v, States
<1>4. r \in JobRecord /\ r.attempts = a
  <2>1. w \in JobRecord
    OBVIOUS
  <2>2. [w EXCEPT !.attempts = a] \in JobRecord /\ [w EXCEPT !.attempts = a].attempts = a
    BY <1>2, <2>1 DEF JobRecord
  <2>3. PICK u : u = [w EXCEPT !.attempts = a]
    OBVIOUS
  <2>4. PICK x : x = [u EXCEPT !.error = TRUE, !.notBefore = n]
    OBVIOUS
  <2>5. x \in JobRecord /\ x.attempts = a
    BY <1>1, <2>2, <2>3, <2>4 DEF JobRecord
  <2>6. r = [x EXCEPT !.avoid = v]
    BY <1>3, <2>3, <2>4
  <2>7. QED
    BY <1>2, <2>5, <2>6 DEF JobRecord
<1>5. /\ r.state = w.state /\ r.prov = w.prov /\ r.cost = w.cost
      /\ r.error = TRUE /\ r.deps = w.deps /\ r.ignore = w.ignore
  BY <1>3 DEF JobRecord
<1>6. QED
  BY <1>4, <1>5 DEF a

\* A placement that failed after the mint is dead, at the price it was placed for.
LEMMA PlaceDiesEffect ==
  ASSUME JobsOK, PassOK, LedgerOK, NEW j \in Jobs, PlaceDies(j)
  PROVE  /\ Moves(j, "RUNNING") /\ job[j].state = "PLACING"
         /\ job'[j].cost = job[j].cost /\ job'[j].prov = job[j].prov
<1> DEFINE b == Blamed(job[j])
           r == [b EXCEPT !.state = "RUNNING", !.dead = TRUE]
<1>1. job[j].state = "PLACING" /\ job' = [job EXCEPT ![j] = r]
  BY DEF PlaceDies
<1>2. job[j] \in JobRecord /\ Sound(job[j])
  BY DEF JobsOK
<1>3. /\ b \in JobRecord /\ b.prov = job[j].prov /\ b.cost = job[j].cost
      /\ b.attempts = job[j].attempts + 1 /\ b.error = TRUE
      /\ b.deps = job[j].deps /\ b.ignore = job[j].ignore
  BY <1>2, BlamedType
<1> HIDE DEF b
<1>4. /\ r \in JobRecord /\ r.state = "RUNNING" /\ r.prov = b.prov /\ r.cost = b.cost
      /\ r.attempts = b.attempts /\ r.error = b.error /\ r.deps = b.deps /\ r.ignore = b.ignore
  <2>1. "RUNNING" \in States
    BY DEF States, Occupying
  <2> HIDE DEF States
  <2>2. QED
    BY <1>3, <2>1 DEF JobRecord
<1> HIDE DEF r
<1>5. job[j].attempts \in Nat
  BY <1>2 DEF JobRecord
<1>6. job[j].attempts + 1 <= MaxAttempts
  BY <1>1, <1>2, <1>5, SchedulerAssumption DEF Sound
<1>7. Sound(r)
  BY <1>1, <1>2, <1>3, <1>4, <1>6 DEF Sound, Pending
<1>8. Touches(j) /\ job'[j] = r
  BY <1>1, <1>7, Written1
<1>9. QED
  BY <1>1, <1>3, <1>4, <1>8 DEF Moves

\* One that failed before it goes back to the queue, counted or paced.
LEMMA RollbackEffect ==
  ASSUME JobsOK, PassOK, LedgerOK, NEW j \in Jobs, NEW ws, Rollback(j, ws)
  PROVE  Moves(j, "QUEUED") /\ job[j].state = "PLACING" /\ job'[j].cost = None
<1>1. job[j].state = "PLACING" /\ job[j] \in JobRecord /\ Sound(job[j])
  BY DEF JobsOK, Rollback
<1>2. CASE job' = [job EXCEPT ![j] = [Queued(@) EXCEPT !.notBefore = Later(now + Backoff)]]
  <2> DEFINE q == Queued(job[j])
             r == [q EXCEPT !.notBefore = Later(now + Backoff)]
  <2>1. job' = [job EXCEPT ![j] = r]
    BY <1>2
  <2>2. /\ q \in JobRecord /\ q.state = "QUEUED" /\ q.cost = None /\ q.attempts = job[j].attempts
        /\ q.error = job[j].error /\ q.deps = job[j].deps /\ q.ignore = job[j].ignore
    BY <1>1, QueuedType
  <2>3. Later(now + Backoff) \in Nat
    BY SchedulerAssumption DEF Later, LedgerOK
  <2> HIDE DEF q
  <2>4. /\ r \in JobRecord /\ r.state = q.state /\ r.cost = q.cost /\ r.attempts = q.attempts
        /\ r.error = q.error /\ r.deps = q.deps /\ r.ignore = q.ignore
    BY <2>2, <2>3 DEF JobRecord
  <2> HIDE DEF r
  <2>5. Sound(r)
    BY <1>1, <2>2, <2>4 DEF Sound
  <2>6. Touches(j) /\ job'[j] = r
    BY <2>1, <2>5, Written1
  <2>7. QED
    BY <1>1, <2>2, <2>4, <2>6 DEF Moves
<1>3. CASE job' = [job EXCEPT ![j] = Queued(Blamed(@))]
  <2> DEFINE b == Blamed(job[j])
             r == Queued(b)
  <2>1. job' = [job EXCEPT ![j] = r]
    BY <1>3
  <2>2. /\ b \in JobRecord /\ b.attempts = job[j].attempts + 1 /\ b.error = TRUE
        /\ b.deps = job[j].deps /\ b.ignore = job[j].ignore
    BY <1>1, BlamedType
  <2> HIDE DEF b
  <2>3. /\ r \in JobRecord /\ r.state = "QUEUED" /\ r.cost = None
        /\ r.attempts = b.attempts /\ r.error = b.error /\ r.deps = b.deps /\ r.ignore = b.ignore
    BY <2>2, QueuedType
  <2> HIDE DEF r
  <2>4. job[j].attempts \in Nat
    BY <1>1 DEF JobRecord
  <2>5. job[j].attempts + 1 <= MaxAttempts
    BY <1>1, <2>4, SchedulerAssumption DEF Sound
  <2>6. Sound(r)
    BY <2>2, <2>3, <2>5 DEF Sound
  <2>7. Touches(j) /\ job'[j] = r
    BY <2>1, <2>6, Written1
  <2>8. QED
    BY <1>1, <2>2, <2>3, <2>7 DEF Moves
<1>4. QED
  BY <1>2, <1>3 DEF Rollback

\* A placement that ended keeps its price on record.
LEMMA FinishEffect ==
  ASSUME JobsOK, PassOK, NEW j \in Jobs, NEW ok, NEW ws, Finish(j, ok, ws), NEW result, result = IF ok THEN "SUCCEEDED" ELSE "FAILED"
  PROVE  /\ Moves(j, result)
         /\ job[j].state = "RUNNING"
         /\ job'[j].cost = job[j].cost
<1> DEFINE r == [job[j] EXCEPT !.state = result]
<1>1. j \in Jobs /\ job[j].state = "RUNNING" /\ result \in {"SUCCEEDED", "FAILED"} /\ job' = [job EXCEPT ![j].state = result]
  BY DEF Finish
<1>2. job[j] \in JobRecord /\ Sound(job[j]) /\ job \in [Jobs -> JobRecord]
  BY <1>1 DEF JobsOK
<1>3. job' = [job EXCEPT ![j] = r]
  BY <1>1, <1>2
<1>4. Sound(r)
  <2>1. result \in States /\ result # "PLACING" /\ result \notin Pending \cup {"ABSENT"}
    BY <1>1 DEF States, Terminal, Pending
  <2>2. r \in JobRecord
    BY <1>2, <2>1 DEF JobRecord
  <2>3. r.state = result /\ r.cost = job[j].cost /\ r.attempts = job[j].attempts /\ r.error = job[j].error
    BY <1>2 DEF JobRecord
  <2> HIDE DEF r
  <2>4. QED
    BY <1>2, <2>1, <2>2, <2>3 DEF Sound
<1>5. r.state = result /\ result # "ABSENT" /\ r.cost = job[j].cost /\ r.deps = job[j].deps /\ r.ignore = job[j].ignore /\ r.attempts = job[j].attempts
  BY <1>1, <1>2 DEF JobRecord, Sound, Pending, Queued
<1> HIDE DEF r
<1>6. Touches(j) /\ job'[j] = r
  BY <1>1, <1>3, <1>4, Written1
<1>7. QED
  BY <1>1, <1>5, <1>6 DEF Moves

\* So does a cancelled one.
LEMMA CancelEffect ==
  ASSUME JobsOK, PassOK, NEW j \in Jobs, NEW ws, ApplyCancel(j, ws)
  PROVE  /\ Moves(j, "CANCELLED")
         /\ job[j].state \in Pending \cup Occupying
         /\ job'[j].cost = job[j].cost
<1> DEFINE r == [job[j] EXCEPT !.state = "CANCELLED"]
<1>1. j \in Jobs /\ job[j].state \in Pending \cup Occupying /\ job' = [job EXCEPT ![j].state = "CANCELLED"]
  BY DEF ApplyCancel
<1>2. job[j] \in JobRecord /\ Sound(job[j]) /\ job \in [Jobs -> JobRecord]
  BY <1>1 DEF JobsOK
<1>3. job' = [job EXCEPT ![j] = r]
  BY <1>1, <1>2
<1>4. Sound(r)
  BY <1>1, <1>2 DEF Sound, JobRecord, States, Pending, Occupying, Terminal, Queued
<1>5. r.state = "CANCELLED" /\ r.cost = job[j].cost /\ r.deps = job[j].deps /\ r.ignore = job[j].ignore /\ r.attempts = job[j].attempts
  BY <1>1, <1>2 DEF JobRecord, Sound, Pending, Queued
<1> HIDE DEF r
<1>6. Touches(j) /\ job'[j] = r
  BY <1>1, <1>3, <1>4, Written1
<1>7. QED
  BY <1>1, <1>5, <1>6 DEF Moves

\* A retried job comes back without the price and the failures.
LEMMA RetryEffect ==
  ASSUME JobsOK, NEW j \in Jobs, Retry(j)
  PROVE  /\ Moves(j, "QUEUED") /\ job[j].state \in Terminal /\ job'[j].cost = None
         /\ retried' = retried \cup {j}
<1> DEFINE q == Queued(job[j])
           r == [q EXCEPT !.attempts = 0, !.error = FALSE, !.notBefore = 0, !.avoid = Absent.avoid]
<1>1. job[j].state \in Terminal /\ retried' = retried \cup {j} /\ job' = [job EXCEPT ![j] = r]
  BY DEF Retry
<1>2. job[j] \in JobRecord
  BY DEF JobsOK
<1>3. /\ q \in JobRecord /\ q.state = "QUEUED" /\ q.cost = None
      /\ q.deps = job[j].deps /\ q.ignore = job[j].ignore
  BY <1>2, QueuedType
<1>4. Absent.avoid \in [Providers -> Nat]
  BY DEF Absent
<1> HIDE DEF q
<1>5. /\ r \in JobRecord /\ r.state = q.state /\ r.cost = q.cost /\ r.attempts = 0
      /\ r.deps = q.deps /\ r.ignore = q.ignore
  <2> HIDE DEF Absent
  <2>1. QED
    BY <1>3, <1>4 DEF JobRecord
<1> HIDE DEF r
<1>6. Sound(r)
  BY <1>3, <1>5, SchedulerAssumption DEF Sound
<1>7. Touches(j) /\ job'[j] = r
  BY <1>1, <1>6, Written1
<1>8. QED
  BY <1>1, <1>3, <1>5, <1>7 DEF Moves

\* A submitted job is what its policy says of it.
LEMMA SubmitEffect ==
  ASSUME JobsOK, LedgerOK, NEW j \in Jobs, Submit(j)
  PROVE  /\ Touches(j) /\ job[j].state = "ABSENT" /\ job'[j].state = "QUEUED" /\ job'[j].cost = None
         /\ job'[j].ignore => \E p \in Policies[j] : p.ignore
         /\ \A d \in job'[j].deps : job[d].state # "ABSENT"
<1>1. PICK p \in Policies[j] :
        /\ job[j].state = "ABSENT" /\ \A d \in p.deps : job[d].state # "ABSENT"
        /\ job' = [job EXCEPT ![j] =
                     [@ EXCEPT !.state = "QUEUED", !.submitted = now, !.priority = p.priority,
                             !.finish = p.finish, !.maxCost = p.maxCost, !.pin = p.pin,
                             !.ignore = p.ignore, !.deps = p.deps]]
  BY DEF Submit
<1> DEFINE w == job[j]
           r == [w EXCEPT !.state = "QUEUED", !.submitted = now, !.priority = p.priority,
                          !.finish = p.finish, !.maxCost = p.maxCost, !.pin = p.pin,
                          !.ignore = p.ignore, !.deps = p.deps]
<1>2. job' = [job EXCEPT ![j] = r]
  BY <1>1
<1>3. /\ p.priority \in Int /\ p.finish \in Int \cup {None} /\ p.maxCost \in Nat \cup {None}
      /\ p.pin \in Providers \cup {None} /\ p.ignore \in BOOLEAN /\ p.deps \in SUBSET Jobs
  BY SchedulerAssumption DEF Policy
<1>4. now \in Nat /\ "QUEUED" \in States
  BY SchedulerAssumption DEF LedgerOK, States, Pending
<1>5. w \in JobRecord /\ Sound(w) /\ w.state = "ABSENT"
  BY <1>1 DEF JobsOK
<1> HIDE DEF w
<1>6. r \in JobRecord
  <2> HIDE DEF States
  <2>1. QED
    BY <1>3, <1>4, <1>5 DEF JobRecord
<1>7. /\ r.state = "QUEUED" /\ r.cost = w.cost /\ r.attempts = w.attempts /\ r.error = w.error
      /\ r.ignore = p.ignore /\ r.deps = p.deps
  <2> HIDE DEF States
  <2>1. QED
    BY <1>5 DEF JobRecord
<1> HIDE DEF r
<1>8. w.cost = None
  BY <1>5 DEF Sound
<1>9. Sound(r)
  BY <1>5, <1>6, <1>7, <1>8 DEF Sound
<1>10. Touches(j) /\ job'[j] = r
  BY <1>2, <1>9, Written1
<1>11. QED
  BY <1>1, <1>7, <1>8, <1>10

\* What a request to reprioritize, or to edit, leaves alone.
Asks(j) ==
    /\ Moves(j, job[j].state)
    /\ job'[j].prov = job[j].prov /\ job'[j].cost = job[j].cost /\ job'[j].dead = job[j].dead
    /\ job'[j].attempts = job[j].attempts

\* A changed priority or ceiling.
LEMMA ReprioritizeEffect ==
  ASSUME JobsOK, NEW j \in Jobs, Reprioritize(j)
  PROVE  Asks(j) /\ job[j].state \in Pending \cup Occupying
<1>1. /\ job[j].state \in Pending \cup Occupying
      /\ \/ job' = [job EXCEPT ![j].priority = 1, ![j].ignore = FALSE]
         \/ \E m \in {None, 0} : job' = [job EXCEPT ![j].maxCost = m, ![j].ignore = FALSE]
  BY DEF Reprioritize
<1> DEFINE w == job[j]
           r(m) == [w EXCEPT !.maxCost = m, !.ignore = FALSE]
           q(n) == [w EXCEPT !.priority = n, !.ignore = FALSE]
<1>2. w \in JobRecord /\ Sound(w) /\ job \in [Jobs -> JobRecord]
  BY DEF JobsOK
<1>3. \/ job' = [job EXCEPT ![j] = q(1)]
      \/ \E m \in {None, 0} : job' = [job EXCEPT ![j] = r(m)]
  BY <1>1, <1>2
<1>4. PICK s : /\ job' = [job EXCEPT ![j] = s]
               /\ s = q(1) \/ \E m \in {None, 0} : s = r(m)
  BY <1>3
<1> HIDE DEF w
<1>5. /\ s \in JobRecord /\ s.state = w.state /\ s.prov = w.prov /\ s.cost = w.cost
      /\ s.dead = w.dead /\ s.attempts = w.attempts /\ s.error = w.error /\ s.deps = w.deps
      /\ s.ignore = FALSE
  <2> HIDE DEF States
  <2>1. CASE s = q(1)
    <3>1. PICK n \in Int : s = q(n)
      <4> HIDE DEF q
      <4>1. 1 \in Int
        OBVIOUS
      <4>2. QED
        BY <2>1, <4>1
    <3>2. QED
      BY <1>2, <3>1 DEF JobRecord
  <2>2. CASE \E m \in {None, 0} : s = r(m)
    <3>1. PICK m \in {None, 0} : s = r(m)
      BY <2>2
    <3>2. m \in Nat \cup {None}
      OBVIOUS
    <3>3. QED
      BY <1>2, <3>1, <3>2 DEF JobRecord
  <2>3. QED
    BY <1>4, <2>1, <2>2
<1>6. Sound(s)
  BY <1>2, <1>5 DEF Sound
<1>7. Touches(j) /\ job'[j] = s
  BY <1>4, <1>6, Written1
<1>8. QED
  BY <1>1, <1>5, <1>7 DEF Asks, Moves, w, Pending, Occupying

\* An edit of the pin.
LEMMA RepinEffect ==
  ASSUME JobsOK, NEW j \in Jobs, Repin(j)
  PROVE  Asks(j) /\ job[j].state \in Pending
<1> DEFINE w == job[j]
           r(p) == [w EXCEPT !.pin = p]
<1>1. w \in JobRecord /\ Sound(w) /\ job \in [Jobs -> JobRecord]
  BY DEF JobsOK
<1>2. PICK p \in Providers \cup {None} : /\ job[j].state \in Pending
                                         /\ job' = [job EXCEPT ![j].pin = p]
  BY DEF Repin
<1>3. job' = [job EXCEPT ![j] = r(p)]
  BY <1>1, <1>2
<1> HIDE DEF w
<1>4. PICK s : job' = [job EXCEPT ![j] = s] /\ s = r(p)
  BY <1>3
<1>5. /\ s \in JobRecord /\ s.state = w.state /\ s.prov = w.prov /\ s.cost = w.cost
      /\ s.dead = w.dead /\ s.attempts = w.attempts /\ s.error = w.error /\ s.deps = w.deps
      /\ s.ignore = w.ignore
  <2> HIDE DEF States
  <2>1. QED
    BY <1>1, <1>2, <1>4 DEF JobRecord
<1>6. Sound(s)
  BY <1>1, <1>5 DEF Sound
<1>7. Touches(j) /\ job'[j] = s
  BY <1>4, <1>6, Written1
<1>8. QED
  BY <1>2, <1>5, <1>7 DEF Asks, Moves, w, Pending

-----------------------------------------------------------------------------
(* The jobs and the pass, step by step.                                    *)

\* What the request handlers do: a waiting or placed job is asked something of,
\* or one that is not there, or has ended, enters the queue.
Handling(j) ==
    /\ Touches(j) /\ Handled(j) /\ retried \subseteq retried' /\ retried' \subseteq retried \cup {j}
    /\ \/ Asks(j) /\ job[j].state \in Pending \cup Occupying
       \/ /\ job[j].state \in Terminal \cup {"ABSENT"} /\ job'[j].state = "QUEUED"
          /\ job'[j].cost = None
          /\ job[j].state \in Terminal => j \in retried'

\* A verb or a request handles one job: the step is one of a handler, and the
\* records keep their shape.
LEMMA HandlerEffect ==
  ASSUME JobsOK, LedgerOK, NEW j \in Jobs, Handler(j)
  PROVE  Handling(j) /\ JobsOK'
<1>1. CASE Submit(j)
  <2>1. /\ Touches(j) /\ job[j].state = "ABSENT" /\ job'[j].state = "QUEUED" /\ job'[j].cost = None
        /\ job'[j].ignore => \E p \in Policies[j] : p.ignore
        /\ \A d \in job'[j].deps : job[d].state # "ABSENT"
    BY <1>1, SubmitEffect
  <2>2. JobsOK'
    BY <2>1, JobsKept
  <2>3. QED
    BY <1>1, <2>1, <2>2 DEF Handling, Submit, Terminal
<1>2. CASE Reprioritize(j)
  <2>1. Asks(j) /\ job[j].state \in Pending \cup Occupying
    BY <1>2, ReprioritizeEffect
  <2>2. JobsOK'
    BY <2>1, MovesKeep DEF Asks
  <2>3. QED
    BY <1>2, <2>1, <2>2 DEF Handling, Reprioritize, Asks, Moves
<1>3. CASE Repin(j)
  <2>1. Asks(j) /\ job[j].state \in Pending
    BY <1>3, RepinEffect
  <2>2. JobsOK'
    BY <2>1, MovesKeep DEF Asks
  <2>3. QED
    BY <1>3, <2>1, <2>2 DEF Handling, Repin, Asks, Moves
<1>4. CASE Retry(j)
  <2>1. /\ Moves(j, "QUEUED") /\ job[j].state \in Terminal /\ job'[j].cost = None
        /\ retried' = retried \cup {j}
    BY <1>4, RetryEffect
  <2>2. JobsOK'
    BY <2>1, MovesKeep
  <2>3. QED
    BY <1>4, <2>1, <2>2 DEF Handling, Retry, Moves
<1>5. QED
  BY <1>1, <1>2, <1>3, <1>4 DEF Handler

\* What leaves a job waiting or ended, with the bill that follows.
Billing(j, amount, ws, after) ==
    /\ Touches(j) /\ job[j].state \in Pending \cup Occupying /\ job'[j].state \notin Occupying
    /\ Resolve(j, amount, ws, after) /\ ws \in Written
    /\ amount = 0 \/ amount = job[j].cost
    /\ charged' = [charged EXCEPT ![j] = @ + (IF job[j].cost = None THEN 0 ELSE amount)]
    /\ now' = now /\ retried' = retried

\* A rollback bills the job nothing more than it has paid.
LEMMA RollbackBills ==
  ASSUME JobsOK, PassOK, LedgerOK, NEW j \in Jobs, NEW ws \in Written, Rollback(j, ws)
  PROVE  Billing(j, 0, ws, pass) /\ JobsOK'
<1>1. Moves(j, "QUEUED") /\ job[j].state = "PLACING" /\ job'[j].cost = None
  BY RollbackEffect
<1>2. JobsOK'
  BY <1>1, MovesKeep
<1>3. charged' = [charged EXCEPT ![j] = @ + (IF job[j].cost = None THEN 0 ELSE 0)]
  <2>1. charged \in [Jobs -> Nat] /\ charged' = charged
    BY DEF LedgerOK, Rollback
  <2>2. charged[j] + 0 = charged[j]
    BY <2>1
  <2>3. QED
    BY <2>1, <2>2
<1>4. QED
  BY <1>1, <1>2, <1>3 DEF Billing, Rollback, Moves, Pending, Occupying

\* A finished job is billed what it was quoted.
LEMMA FinishBills ==
  ASSUME JobsOK, PassOK, LedgerOK, NEW j \in Jobs, NEW ws \in Written, NEW ok, Finish(j, ok, ws)
  PROVE  Billing(j, job[j].cost, ws, pass) /\ JobsOK'
<1> DEFINE result == IF ok THEN "SUCCEEDED" ELSE "FAILED"
<1>1. result \in {"SUCCEEDED", "FAILED"}
  OBVIOUS
<1>2. Moves(j, result) /\ job[j].state = "RUNNING" /\ job'[j].cost = job[j].cost
  BY FinishEffect
<1> HIDE DEF result
<1>3. JobsOK'
  BY <1>2, MovesKeep
<1>4. charged' = [charged EXCEPT ![j] = @ + (IF job[j].cost = None THEN 0 ELSE job[j].cost)]
  BY DEF Finish, Charge
<1>5. QED
  BY <1>1, <1>2, <1>3, <1>4 DEF Billing, Finish, Moves, Pending, Occupying

\* A cancelled job is billed what it was quoted, if it had a placement.
LEMMA CancelBills ==
  ASSUME JobsOK, PassOK, LedgerOK, NEW j \in Jobs, NEW ws \in Written, ApplyCancel(j, ws)
  PROVE  Billing(j, job[j].cost, ws, pass) /\ JobsOK'
<1>1. Moves(j, "CANCELLED") /\ job[j].state \in Pending \cup Occupying
  BY CancelEffect
<1>2. JobsOK'
  BY <1>1, MovesKeep
<1>3. charged' = [charged EXCEPT ![j] = @ + (IF job[j].cost = None THEN 0 ELSE job[j].cost)]
  BY DEF ApplyCancel, Charge
<1>4. QED
  BY <1>1, <1>2, <1>3 DEF Billing, ApplyCancel, Moves, Pending, Occupying

\* A requeue bills the job nothing, and takes its decision off the plan.
LEMMA RequeueBills ==
  ASSUME JobsOK, PassOK, LedgerOK, NEW ws \in Written, EnactRequeue(ws)
  PROVE  Billing(Head(pass.plan).job, 0, ws, Rest) /\ JobsOK'
<1> DEFINE j == Head(pass.plan).job
<1>1. j \in Jobs
  BY HeadType DEF EnactRequeue, Enacting
<1>2. Moves(j, "QUEUED") /\ job[j].state = "RUNNING"
  BY RequeueEffect
<1>3. Resolve(j, 0, ws, Rest) /\ now' = now /\ retried' = retried /\ charged' = charged
  BY DEF EnactRequeue
<1> HIDE DEF j
<1>4. JobsOK'
  BY <1>2, MovesKeep
<1>5. charged' = [charged EXCEPT ![j] = @ + (IF job[j].cost = None THEN 0 ELSE 0)]
  <2>1. charged \in [Jobs -> Nat]
    BY DEF LedgerOK
  <2>2. charged[j] + 0 = charged[j]
    BY <1>1, <2>1
  <2>3. QED
    BY <1>3, <2>1, <2>2
<1>6. QED
  BY <1>2, <1>3, <1>4, <1>5 DEF Billing, Moves, Pending, Occupying, j

\* What goes on with a placement without a bill.
Running(j) ==
    /\ Touches(j) /\ job[j].state \in Occupying /\ job'[j].state \in Occupying
    /\ job'[j].prov = job[j].prov /\ job'[j].cost = job[j].cost
    /\ pass.phase = "idle" /\ UNCHANGED <<pass, ledger, now, crashes, ghosts>>

\* The end of a placement either leaves the job running or bills it, and bills
\* only between two passes.
LEMMA OutcomeEffect ==
  ASSUME JobsOK, PassOK, LedgerOK, NEW j \in Jobs, Outcome(j)
  PROVE  /\ JobsOK'
         /\ \/ Running(j)
            \/ \E amount : \E ws \in Written : Billing(j, amount, ws, pass) /\ pass.phase = "idle"
<1>1. CASE PlaceDies(j)
  <2>1. /\ Moves(j, "RUNNING") /\ job[j].state = "PLACING"
        /\ job'[j].cost = job[j].cost /\ job'[j].prov = job[j].prov
    BY <1>1, PlaceDiesEffect
  <2>2. JobsOK'
    BY <2>1, MovesKeep
  <2>3. QED
    BY <1>1, <2>1, <2>2 DEF Running, PlaceDies, Moves, Occupying
<1>2. CASE Activate(j)
  <2>1. /\ Moves(j, "RUNNING") /\ job[j].state = "PLACING"
        /\ job'[j].cost = job[j].cost /\ job'[j].prov = job[j].prov
    BY <1>2, ActivateEffect
  <2>2. JobsOK'
    BY <2>1, MovesKeep
  <2>3. QED
    BY <1>2, <2>1, <2>2 DEF Running, Activate, Moves, Occupying
<1>3. CASE WorkerDies(j)
  <2>1. /\ Moves(j, "RUNNING") /\ job[j].state = "RUNNING"
        /\ job'[j].cost = job[j].cost /\ job'[j].prov = job[j].prov
    BY <1>3, WorkerDiesEffect
  <2>2. JobsOK'
    BY <2>1, MovesKeep
  <2>3. QED
    BY <1>3, <2>1, <2>2 DEF Running, WorkerDies, Moves, Occupying
<1>4. CASE \E ws \in Written : Rollback(j, ws)
  <2>1. PICK ws \in Written : Rollback(j, ws)
    BY <1>4
  <2>2. Billing(j, 0, ws, pass) /\ JobsOK'
    BY <2>1, RollbackBills
  <2>3. pass.phase = "idle"
    BY <2>1 DEF Rollback
  <2>4. QED
    BY <2>2, <2>3
<1>5. CASE \E ws \in Written : ApplyCancel(j, ws)
  <2>1. PICK ws \in Written : ApplyCancel(j, ws)
    BY <1>5
  <2>2. Billing(j, job[j].cost, ws, pass) /\ JobsOK'
    BY <2>1, CancelBills
  <2>3. pass.phase = "idle"
    BY <2>1 DEF ApplyCancel
  <2>4. QED
    BY <2>2, <2>3
<1>6. CASE \E ws \in Written, ok \in BOOLEAN : Finish(j, ok, ws)
  <2>1. PICK ws \in Written, ok \in BOOLEAN : Finish(j, ok, ws)
    BY <1>6
  <2>2. Billing(j, job[j].cost, ws, pass) /\ JobsOK'
    BY <2>1, FinishBills
  <2>3. pass.phase = "idle"
    BY <2>1 DEF Finish
  <2>4. QED
    BY <2>2, <2>3
<1>7. QED
  BY <1>1, <1>2, <1>3, <1>4, <1>5, <1>6 DEF Outcome

\* An enacted decision of the other kinds: its job waits on, or has failed.
Deciding ==
    /\ Touches(Head(pass.plan).job)
    /\ job[Head(pass.plan).job].state \in Pending /\ job'[Head(pass.plan).job].cost = None
    /\ \/ Head(pass.plan).kind = "fail" /\ job'[Head(pass.plan).job].state = "FAILED"
       \/ Head(pass.plan).kind = "hold" /\ job'[Head(pass.plan).job].state = "HELD"
       \/ /\ Head(pass.plan).kind = "unhold" /\ job'[Head(pass.plan).job].state = "QUEUED"
          /\ job'[Head(pass.plan).job].attempts = job[Head(pass.plan).job].attempts
          /\ job'[Head(pass.plan).job].deps = job[Head(pass.plan).job].deps
    /\ pass.phase = "enact" /\ pass' = Rest /\ UNCHANGED <<ledger, now, crashes, ghosts>>

\* The decisions that place nothing move no money, and take themselves off the
\* plan.
LEMMA DecidingEffect ==
  ASSUME JobsOK, PassOK, EnactHold \/ EnactUnhold \/ EnactFail
  PROVE  Deciding /\ JobsOK'
<1>1. CASE EnactHold
  <2>1. /\ Moves(Head(pass.plan).job, "HELD") /\ job[Head(pass.plan).job].state = "QUEUED"
        /\ job'[Head(pass.plan).job].cost = None
    BY <1>1, HoldEffect
  <2>2. JobsOK'
    BY <2>1, MovesKeep
  <2>3. QED
    BY <1>1, <2>1, <2>2 DEF Deciding, EnactHold, Enacting, Moves, Pending
<1>2. CASE EnactUnhold
  <2>1. /\ Moves(Head(pass.plan).job, "QUEUED") /\ job[Head(pass.plan).job].state = "HELD"
        /\ job'[Head(pass.plan).job].cost = None
        /\ job'[Head(pass.plan).job].attempts = job[Head(pass.plan).job].attempts
    BY <1>2, UnholdEffect
  <2>2. JobsOK'
    BY <2>1, MovesKeep
  <2>3. QED
    BY <1>2, <2>1, <2>2 DEF Deciding, EnactUnhold, Enacting, Moves, Pending
<1>3. CASE EnactFail
  <2>1. /\ Moves(Head(pass.plan).job, "FAILED") /\ job[Head(pass.plan).job].state \in Pending
        /\ job'[Head(pass.plan).job].cost = None
    BY <1>3, FailEffect
  <2>2. JobsOK'
    BY <2>1, MovesKeep
  <2>3. QED
    BY <1>3, <2>1, <2>2 DEF Deciding, EnactFail, Enacting, Moves, Pending
<1>4. QED
  BY <1>1, <1>2, <1>3
-----------------------------------------------------------------------------
(* The variables of the pass.                                              *)

\* The pass at rest has no plan and no slot.
LEMMA IdlePass ==
  ASSUME pass' = Idle
  PROVE  PassOK' /\ pass'.phase = "idle" /\ pass'.plan = <<>> /\ pass'.slots = <<>> /\ pass'.todo = {}
<1>1. Idle \in Passes
  <2>1. <<>> \in Seq(Slots) /\ <<>> \in Seq(Nat) /\ <<>> \in Seq(Decisions)
    OBVIOUS
  <2>2. QED
    BY <2>1 DEF Idle, Passes
<1>2. /\ Idle.phase = "idle" /\ Idle.todo = {} /\ Idle.slots = <<>> /\ Idle.room = <<>>
      /\ Idle.plan = <<>>
  BY DEF Idle
<1> HIDE DEF Idle
<1>3. QED
  BY <1>1, <1>2 DEF PassOK

\* A pass left alone, as every step but its own leaves it while it matches.
LEMMA SamePass ==
  ASSUME PassOK, pass' = pass, pass.phase # "match" \/ now' = now
  PROVE  PassOK'
BY DEF PassOK

\* The plan without its head.
LEMMA RestPass ==
  ASSUME PassOK, pass.phase = "enact"
  PROVE  \/ Rest = Idle /\ Len(pass.plan) = 1
         \/ /\ Rest = [pass EXCEPT !.plan = Tail(@)] /\ Rest \in Passes
            /\ Rest.phase = "enact" /\ Rest.slots = pass.slots /\ Rest.room = pass.room
            /\ Rest.used = pass.used /\ Rest.todo = {} /\ Rest.at = pass.at
            /\ Rest.plan = Tail(pass.plan) /\ Rest.plan # <<>>
<1>1. pass \in Passes /\ pass.todo = {} /\ pass.plan \in Seq(Decisions) /\ pass.plan # <<>>
  BY DEF PassOK, Passes
<1>2. CASE Len(pass.plan) = 1
  BY <1>2 DEF Rest
<1>3. CASE Len(pass.plan) # 1
  <2>1. Tail(pass.plan) \in Seq(Decisions)
    BY <1>1
  <2>2. Tail(pass.plan) # <<>>
    <3>1. Len(Tail(pass.plan)) = Len(pass.plan) - 1 /\ Len(pass.plan) # 0
      BY <1>1
    <3>2. Len(pass.plan) - 1 # 0
      BY <1>1, <1>3
    <3>3. QED
      BY <3>1, <3>2
  <2>3. Rest = [pass EXCEPT !.plan = Tail(@)]
    BY <1>3 DEF Rest
  <2>4. Rest = [pass EXCEPT !.plan = Tail(pass.plan)]
    BY <1>3 DEF Rest
  <2>5. /\ Rest \in Passes /\ Rest.phase = "enact" /\ Rest.slots = pass.slots
        /\ Rest.room = pass.room /\ Rest.used = pass.used /\ Rest.todo = {} /\ Rest.at = pass.at
        /\ Rest.plan = Tail(pass.plan)
    BY <1>1, <2>1, <2>4 DEF Passes
  <2>6. QED
    BY <2>2, <2>3, <2>5
<1>4. QED
  BY <1>2, <1>3

\* What is left of the plan is what it held after its head.
LEMMA RestPlan ==
  ASSUME PassOK, pass.phase = "enact"
  PROVE  /\ \A n \in DOMAIN Rest.plan : /\ n + 1 \in DOMAIN pass.plan /\ n \in Nat /\ n >= 1
                                        /\ Rest.plan[n] = pass.plan[n + 1]
         /\ Rest = Idle \/ (Rest.slots = pass.slots /\ Rest.used = pass.used)
         /\ Rest.phase # "match"
         /\ \A n \in DOMAIN pass.plan : n > 1 => n - 1 \in DOMAIN Rest.plan
<1>1. pass.plan \in Seq(Decisions) /\ pass.plan # <<>> /\ Len(pass.plan) \in Nat
  BY DEF PassOK, Passes
<1>2. CASE Rest = Idle /\ Len(pass.plan) = 1
  BY <1>1, <1>2 DEF Idle
<1>3. CASE Rest.plan = Tail(pass.plan) /\ Rest.slots = pass.slots /\ Rest.used = pass.used
           /\ Rest.phase = "enact"
  <2>1. DOMAIN Tail(pass.plan) = 1..(Len(pass.plan) - 1)
    BY <1>1
  <2>2. \A n \in 1..(Len(pass.plan) - 1) : Tail(pass.plan)[n] = pass.plan[n + 1]
    BY <1>1
  <2>3. DOMAIN pass.plan = 1..Len(pass.plan)
    BY <1>1
  <2>4. QED
    BY <1>1, <1>3, <2>1, <2>2, <2>3
<1>4. QED
  BY <1>2, <1>3, RestPass

\* A pass with one decision fewer is a pass, or at rest.
LEMMA PassToRest ==
  ASSUME PassOK, pass.phase = "enact", pass' = Rest
  PROVE  PassOK'
<1>1. CASE Rest = Idle
  BY <1>1, IdlePass
<1>2. CASE /\ Rest \in Passes
           /\ Rest.phase = "enact" /\ Rest.slots = pass.slots /\ Rest.room = pass.room
           /\ Rest.todo = {} /\ Rest.plan # <<>>
  BY <1>2 DEF PassOK
<1>3. QED
  BY <1>1, <1>2, RestPass

\* The larger of nothing and a number.
LEMMA MaxType ==
  ASSUME NEW n \in Int
  PROVE  Max({0, n}) \in Nat /\ Max({0, n}) = IF n > 0 THEN n ELSE 0
<1>1. CASE n > 0
  <2>1. \A x \in {0, n} : (\A y \in {0, n} : x >= y) => x = n
    BY <1>1
  <2>2. \A y \in {0, n} : n >= y
    BY <1>1
  <2>3. Max({0, n}) = n
    BY <2>1, <2>2 DEF Max
  <2>4. QED
    BY <1>1, <2>3
<1>2. CASE ~(n > 0)
  <2>1. \A x \in {0, n} : (\A y \in {0, n} : x >= y) => x = 0
    BY <1>2
  <2>2. \A y \in {0, n} : 0 >= y
    BY <1>2
  <2>3. Max({0, n}) = 0
    BY <2>1, <2>2 DEF Max
  <2>4. QED
    BY <1>2, <2>3
<1>3. QED
  BY <1>1, <1>2

\* A pass goes on matching, or to what it has to enact.
LEMMA OnwardPass ==
  ASSUME NEW p \in Passes, p.phase = "match", p.at = now, DOMAIN p.room = DOMAIN p.slots,
         p.slots \in Offers, pass' = Onward(p), now' = now
  PROVE  /\ PassOK' /\ pass'.plan = p.plan
         /\ pass'.phase = "match" => pass' = p
         /\ \/ pass' = Idle /\ p.plan = <<>>
            \/ /\ pass'.slots = p.slots /\ pass'.used = p.used /\ pass'.room = p.room
               /\ pass'.at = p.at
<1>1. CASE p.todo # {}
  <2>1. pass' = p
    BY <1>1 DEF Onward
  <2>2. QED
    BY <1>1, <2>1 DEF PassOK
<1>2. CASE p.todo = {} /\ p.plan = <<>>
  <2>1. pass' = Idle
    BY <1>2 DEF Onward
  <2>2. QED
    BY <1>2, <2>1, IdlePass
<1>3. CASE p.todo = {} /\ p.plan # <<>>
  <2> DEFINE q == [p EXCEPT !.phase = "enact"]
  <2>1. pass' = q
    BY <1>3 DEF Onward
  <2>2. /\ q \in Passes /\ q.phase = "enact" /\ q.at = p.at /\ q.slots = p.slots
        /\ q.todo = p.todo /\ q.room = p.room /\ q.used = p.used /\ q.plan = p.plan
    BY DEF Passes
  <2> HIDE DEF q
  <2>3. QED
    BY <1>3, <2>1, <2>2 DEF PassOK
<1>4. QED
  BY <1>1, <1>2, <1>3
-----------------------------------------------------------------------------
(* The beginning of a pass.                                                *)

\* What occupies a provider is counted.
LEMMA LoadFinite ==
  ASSUME NEW p, NEW n
  PROVE  /\ IsFiniteSet(Load(p, n)) /\ Cardinality(Load(p, n)) \in Nat
         /\ Active(p) \in Nat
<1>1. Load(p, n) \subseteq Jobs
  BY DEF Load
<1>2. {j \in Jobs : job[j].state \in Occupying /\ job[j].prov = p} \subseteq Jobs
  OBVIOUS
<1>3. QED
  BY <1>1, <1>2, JobsFinite, FS_Subset, FS_CardinalityType DEF Active

\* A job the pass may match may be placed, and what else is decided of it is at
\* most to take it back to the queue.
LEMMA AdmittableJob ==
  ASSUME JobsOK, NEW j \in Jobs, NEW offered, NEW t, Admittable(j, offered, t)
  PROVE  Placeable(j) /\ Verdict(j, offered, t) \in {"none", "unhold"}
<1>1. /\ job[j].state \in Pending /\ ~Exhausted(j) /\ ~DepFailed(j) /\ ~DepWaiting(j)
      /\ ~Unfit(j, offered, t)
  BY DEF Admittable, Gated, Unfit
<1>2. job[j].attempts < MaxAttempts
  <2>1. job[j].attempts \in Nat /\ (job[j].error \/ job[j].attempts = 0)
    BY DEF JobsOK, Sound, JobRecord
  <2>2. QED
    BY <1>1, <2>1, SchedulerAssumption DEF Exhausted
<1>3. ASSUME NEW d \in job[j].deps
      PROVE  \/ job[d].state = "SUCCEEDED"
             \/ job[d].state \in Terminal /\ \E p \in Policies[j] : p.ignore
  <2>1. job[d].state \notin Pending \cup Occupying
    BY <1>1, <1>3 DEF DepWaiting
  <2>2. job[j].ignore \/ job[d].state \notin {"FAILED", "CANCELLED", "ABSENT"}
    BY <1>1, <1>3 DEF DepFailed
  <2>3. job[d].state # "ABSENT" /\ (job[j].ignore => \E p \in Policies[j] : p.ignore)
    BY <1>3 DEF JobsOK, Bound
  <2>4. job[d].state \in States
    <3>1. d \in Jobs
      BY <1>3 DEF JobsOK, JobRecord
    <3>2. QED
      BY <3>1 DEF JobsOK, JobRecord
  <2>5. job[d].state \in Terminal
    BY <2>1, <2>3, <2>4 DEF States
  <2>6. QED
    BY <2>2, <2>3, <2>5 DEF Terminal
<1>4. Verdict(j, offered, t) \in {"none", "unhold"}
  BY <1>1 DEF Verdict
<1>5. QED
  BY <1>1, <1>2, <1>3, <1>4 DEF Placeable

\* A decision is about a job in the state it was decided from.
LEMMA VerdictCurrent ==
  ASSUME NEW j, NEW offered, NEW t, NEW v, v = Verdict(j, offered, t)
  PROVE  /\ v = "fail" => job[j].state \in Pending
         /\ v = "hold" => job[j].state = "QUEUED"
         /\ v = "unhold" => job[j].state = "HELD"
         /\ v = "requeue" => job[j].state = "RUNNING" /\ job[j].dead
<1>1. v = "unhold" => job[j].state \in Pending /\ job[j].state # "QUEUED"
  BY DEF Verdict
<1>2. QED
  BY <1>1 DEF Verdict, Pending

\* A pass begins with what the jobs are in, and with the room there is.
LEMMA BeginEffect ==
  ASSUME JobsOK, LedgerOK, PassBegin
  PROVE  /\ PassOK' /\ PlanOK' /\ MatchOK'
         /\ \A n \in DOMAIN pass'.plan : pass'.plan[n].kind # "reserve"
<1>1. PICK offered \in Offers :
        pass' = Onward(
                  [phase |-> "match", at |-> now, slots |-> offered,
                   todo |-> {j \in Jobs : Admittable(j, offered, now)},
                   room |-> [i \in DOMAIN offered |->
                               Max({0, offered[i].cap - Active(offered[i].prov)})],
                   used |-> {}, plan |-> Admissions(offered, now)])
  BY DEF PassBegin
<1>2. job' = job /\ now' = now /\ retried' = retried
  BY DEF PassBegin, ghosts
<1> DEFINE room == [i \in DOMAIN offered |-> Max({0, offered[i].cap - Active(offered[i].prov)})]
           todo == {j \in Jobs : Admittable(j, offered, now)}
           plan == Admissions(offered, now)
           p == [phase |-> "match", at |-> now, slots |-> offered, todo |-> todo,
                 room |-> room, used |-> {}, plan |-> plan]
<1>3. offered \in Seq(Slots)
  BY SchedulerAssumption
<1>4. ASSUME NEW i \in DOMAIN offered
      PROVE  /\ offered[i].cap \in Nat /\ Active(offered[i].prov) \in Nat
             /\ room[i] \in Nat
             /\ room[i] > 0 => Active(offered[i].prov) + room[i] <= offered[i].cap
  <2>1. offered[i].cap \in Nat
    <3>1. offered[i] \in Slots
      BY <1>3, <1>4
    <3>2. QED
      BY <3>1 DEF Slots
  <2>2. Active(offered[i].prov) \in Nat
    BY LoadFinite
  <2>3. offered[i].cap - Active(offered[i].prov) \in Int
    BY <2>1, <2>2
  <2>4. room[i] \in Nat /\ room[i] = IF offered[i].cap - Active(offered[i].prov) > 0
                                     THEN offered[i].cap - Active(offered[i].prov) ELSE 0
    BY <1>4, <2>3, MaxType
  <2>5. QED
    BY <2>1, <2>2, <2>4
<1>5. room \in Seq(Nat) /\ DOMAIN room = DOMAIN offered
  <2>1. DOMAIN offered = 1..Len(offered) /\ Len(offered) \in Nat
    BY <1>3
  <2>2. room \in [1..Len(offered) -> Nat]
    BY <1>4, <2>1
  <2> HIDE DEF room
  <2>3. QED
    BY <2>1, <2>2
<1>6. /\ plan \in Seq(Decisions)
      /\ \A n \in DOMAIN plan : /\ plan[n].kind \in {"hold", "unhold", "fail", "requeue"}
                                /\ plan[n].kind = Verdict(plan[n].job, offered, now)
                                /\ plan[n].job \in Jobs
      /\ \A n, m \in DOMAIN plan : plan[n].job = plan[m].job => n = m
  BY AdmissionsCorrect
<1>7. todo \subseteq Jobs /\ now \in Nat
  BY SchedulerAssumption DEF LedgerOK
<1>8. \A j \in todo : Placeable(j) /\ Verdict(j, offered, now) \in {"none", "unhold"}
  BY AdmittableJob
<1>9. pass' = Onward(p)
  BY <1>1
<1> HIDE DEF room, todo, plan
<1>10. /\ p \in Passes /\ p.phase = "match" /\ p.at = now /\ p.slots = offered /\ p.room = room
       /\ p.plan = plan /\ p.todo = todo
  BY <1>3, <1>5, <1>6, <1>7 DEF Passes
<1> HIDE DEF p
<1>11. PassOK' /\ pass'.plan = plan /\ (pass'.phase = "match" => pass' = p)
  BY <1>2, <1>5, <1>9, <1>10, OnwardPass
<1>12. PlanCurrent'
  <2>1. ASSUME NEW n \in DOMAIN plan
        PROVE  /\ plan[n].kind = "fail" => job[plan[n].job].state \in Pending
               /\ plan[n].kind = "hold" => job[plan[n].job].state = "QUEUED"
               /\ plan[n].kind = "unhold" => job[plan[n].job].state = "HELD"
               /\ plan[n].kind = "requeue" => job[plan[n].job].state = "RUNNING" /\ job[plan[n].job].dead
               /\ plan[n].kind # "reserve"
    <3>1. plan[n].kind = Verdict(plan[n].job, offered, now)
      BY <1>6, <2>1
    <3>2. plan[n].kind # "reserve"
      BY <1>6, <2>1
    <3>3. QED
      BY <3>1, <3>2, VerdictCurrent
  <2>2. QED
    BY <1>2, <1>11, <2>1 DEF PlanCurrent
<1>13. PlanOK' /\ ~FreeLeft'
  <2>1. /\ \A n \in DOMAIN pass'.plan : pass'.plan[n].kind # "reserve" /\ n \in Nat
        /\ \A n, m \in DOMAIN pass'.plan : pass'.plan[n].job = pass'.plan[m].job => n = m
    BY <1>6, <1>11
  <2>2. DistinctOffers'
    BY <2>1 DEF DistinctOffers
  <2>3. OnceEach'
    BY <2>1 DEF OnceEach
  <2>4. ~FreeLeft'
    BY <2>1 DEF FreeLeft
  <2>5. QED
    BY <1>12, <2>1, <2>2, <2>3, <2>4 DEF PlanOK
<1>14. MatchOK'
  <2> SUFFICES ASSUME pass'.phase = "match"
               PROVE  MatchOK!2'
    BY DEF MatchOK
  <2>1. /\ pass' = p
    BY <1>11
  <2>2. ASSUME NEW j \in todo
        PROVE  /\ Placeable(j)'
               /\ \A n \in DOMAIN plan : plan[n].job = j => plan[n].kind = "unhold"
    <3>1. Placeable(j)'
      BY <1>2, <1>8, <2>2 DEF Placeable
    <3>2. ASSUME NEW n \in DOMAIN plan, plan[n].job = j PROVE plan[n].kind = "unhold"
      <4>1. plan[n].kind = Verdict(j, offered, now) /\ plan[n].kind # "none"
        BY <1>6, <3>2
      <4>2. QED
        BY <1>8, <2>2, <4>1
    <3>3. QED
      BY <3>1, <3>2
  <2>3. /\ pass'.todo = todo /\ pass'.slots = offered /\ pass'.room = room /\ pass'.plan = plan
    BY <1>10, <2>1
  <2>4. ASSUME NEW i \in DOMAIN offered, room[i] > 0
        PROVE  Cardinality(Load(pass.slots[i].prov, Len(pass.plan))') + room[i] <= offered[i].cap
    <3>1. Load(pass.slots[i].prov, Len(pass.plan))'
            = {j \in Jobs : job[j].state \in Occupying /\ job[j].prov = offered[i].prov}
      BY <1>2, <1>6, <2>3 DEF Load
    <3>2. Cardinality(Load(pass.slots[i].prov, Len(pass.plan))') = Active(offered[i].prov)
      BY <3>1 DEF Active
    <3>3. QED
      BY <1>4, <2>4, <3>2
  <2>5. \A i \in DOMAIN pass'.slots :
           pass'.room[i] > 0 =>
             Cardinality(Load(pass.slots[i].prov, Len(pass.plan))') + pass'.room[i] <= pass'.slots[i].cap
    BY <2>3, <2>4
  <2>6. QED
    BY <1>13, <2>2, <2>3, <2>5
<1>15. \A n \in DOMAIN pass'.plan : pass'.plan[n].kind # "reserve"
  BY <1>6, <1>11
<1>16. QED
  BY <1>11, <1>13, <1>14, <1>15
-----------------------------------------------------------------------------
(* The dearest placement.                                                  *)

\* A finite set of numbers has a greatest one.
LEMMA NatMost ==
  ASSUME NEW S, IsFiniteSet(S), S \subseteq Nat, S # {}
  PROVE  Max(S) \in S /\ \A y \in S : y <= Max(S)
<1> DEFINE Most(s) == \E x \in s : \A y \in s : x >= y
           T == {s \in SUBSET S : s # {} /\ ~Most(s)}
<1>1. T = {}
  <2> SUFFICES ASSUME T # {} PROVE FALSE
    OBVIOUS
  <2>1. PICK U \in T : \A V \in SUBSET U : V # U => V \notin T
    <3> HIDE DEF T
    <3>1. T \subseteq SUBSET S
      BY DEF T
    <3>2. QED
      BY <3>1, LeastSubset
  <2>2. PICK x \in U : TRUE
    OBVIOUS
  <2>3. CASE U = {x}
    <3>1. x >= x
      BY <2>1, <2>2
    <3>2. QED
      BY <2>1, <2>3, <3>1
  <2>4. CASE U # {x}
    <3>1. U \ {x} # {} /\ U \ {x} \in SUBSET S /\ U \ {x} # U
      BY <2>1, <2>2, <2>4
    <3>2. PICK k \in U \ {x} : \A y \in U \ {x} : k >= y
      BY <2>1, <3>1
    <3>3. x \in Nat /\ k \in Nat /\ U \subseteq Nat
      BY <2>1, <2>2, <3>2
    <3>4. CASE k >= x
      <4>1. \A y \in U : k >= y
        BY <3>2, <3>4
      <4>2. QED
        BY <2>1, <3>2, <4>1
    <3>5. CASE x >= k
      <4>1. \A y \in U : x >= y
        BY <3>2, <3>3, <3>5
      <4>2. QED
        BY <2>1, <2>2, <4>1
    <3>6. QED
      BY <3>3, <3>4, <3>5
  <2>5. QED
    BY <2>3, <2>4
<1>2. PICK x \in S : \A y \in S : x >= y
  BY <1>1
<1>3. Max(S) \in S /\ \A y \in S : Max(S) >= y
  BY <1>2 DEF Max
<1>4. QED
  BY <1>3

\* No slot on offer asks more for a job than the dearest placement costs.
LEMMA DearestBound ==
  /\ Dearest \in Nat
  /\ \A o \in Offers : \A i \in DOMAIN o : \A j \in Jobs :
       Price(o[i], j) # None => Price(o[i], j) <= Dearest
<1> DEFINE R == [o \in Offers |-> {o[i] : i \in DOMAIN o}]
           U == UNION {R[o] : o \in Offers}
           K == {k \in Jobs : Time[k] # None}
           f == [z \in U \X K |-> Price(z[1], z[2])]
           P == {f[z] : z \in U \X K}
<1>1. ASSUME NEW o \in Offers PROVE IsFiniteSet(R[o]) /\ \A s \in R[o] : s \in Slots
  <2>1. o \in Seq(Slots)
    BY SchedulerAssumption
  <2>2. DOMAIN o = 1..Len(o) /\ Len(o) \in Nat /\ \A i \in DOMAIN o : o[i] \in Slots
    BY <2>1
  <2>3. IsFiniteSet(DOMAIN o)
    BY <2>2, FS_Interval
  <2>4. IsFiniteSet({o[i] : i \in DOMAIN o})
    BY <2>3, ImageFinite
  <2>5. QED
    BY <2>2, <2>4
<1>2. IsFiniteSet(U) /\ \A s \in U : s \in Slots
  <2> HIDE DEF R
  <2>1. IsFiniteSet({R[o] : o \in Offers})
    BY SchedulerAssumption, ImageFinite
  <2>2. \A T \in {R[o] : o \in Offers} : IsFiniteSet(T)
    BY <1>1
  <2>3. IsFiniteSet(U)
    BY <2>1, <2>2, FS_UNION
  <2>4. QED
    BY <1>1, <2>3
<1>3. IsFiniteSet(K) /\ K \subseteq Jobs
  BY JobsFinite, FS_Subset
<1>4. {0} \cup {Price(s, j) : s \in UNION {{o[i] : i \in DOMAIN o} : o \in Offers},
                              j \in {k \in Jobs : Time[k] # None}} = {0} \cup P
  <2>1. UNION {{o[i] : i \in DOMAIN o} : o \in Offers} = U
    OBVIOUS
  <2>2. {Price(s, j) : s \in U, j \in K} = P
    <3> HIDE DEF U, K
    <3>1. ASSUME NEW s \in U, NEW j \in K PROVE Price(s, j) \in P
      <4>1. <<s, j>> \in U \X K /\ f[<<s, j>>] = Price(s, j)
        OBVIOUS
      <4> HIDE DEF f
      <4>2. QED
        BY <4>1
    <3>2. ASSUME NEW z \in U \X K PROVE \E s \in U, j \in K : f[z] = Price(s, j)
      BY <3>2
    <3> HIDE DEF f
    <3>3. ASSUME NEW x \in P PROVE x \in {Price(s, j) : s \in U, j \in K}
      <4>1. PICK z \in U \X K : x = f[z]
        OBVIOUS
      <4> HIDE DEF P
      <4>2. PICK s \in U, j \in K : x = Price(s, j)
        BY <3>2, <4>1
      <4>3. QED
        BY <4>2
    <3> HIDE DEF P
    <3>4. ASSUME NEW x \in {Price(s, j) : s \in U, j \in K} PROVE x \in P
      <4>1. PICK s \in U, j \in K : x = Price(s, j)
        OBVIOUS
      <4>2. QED
        BY <3>1, <4>1
    <3>5. QED
      BY <3>3, <3>4
  <2> HIDE DEF P, U
  <2>3. QED
    BY <2>1, <2>2 DEF K
<1>5. ASSUME NEW s \in U, NEW j \in K PROVE Price(s, j) \in Nat /\ Price(s, j) \in P
  <2>1. s.setup \in Nat /\ s.price \in Nat \cup {None} /\ Time[j] \in Nat
    <3>1. s \in Slots /\ j \in Jobs /\ Time[j] # None
      BY <1>2
    <3> HIDE DEF U, K
    <3>2. Time[j] \in Nat
      BY <3>1, SchedulerAssumption
    <3>3. QED
      BY <3>1, <3>2 DEF Slots
  <2>2. s.price # None => s.setup + s.price * Time[j] \in Nat
    BY <2>1
  <2>3. Price(s, j) \in Nat
    BY <2>1, <2>2, SchedulerAssumption DEF Price, IsFree
  <2>4. <<s, j>> \in U \X K /\ f[<<s, j>>] = Price(s, j)
    <3> HIDE DEF U, K
    <3>1. QED
      OBVIOUS
  <2> HIDE DEF f, U, K
  <2>5. QED
    BY <2>3, <2>4
<1>6. IsFiniteSet(P) /\ P \subseteq Nat
  <2> HIDE DEF U, K
  <2>1. IsFiniteSet(U \X K)
    BY <1>2, <1>3, FS_Product
  <2>2. IsFiniteSet(P)
    <3> HIDE DEF f
    <3>1. QED
      BY <2>1, ImageFinite
  <2>3. QED
    BY <1>5, <2>2
<1>7. ASSUME NEW o \in Offers, NEW i \in DOMAIN o, NEW j \in Jobs, Price(o[i], j) # None
      PROVE  Price(o[i], j) = 0 \/ Price(o[i], j) \in P
  <2>1. o[i] \in U
    OBVIOUS
  <2>2. Time[j] = None => Price(o[i], j) = 0
    BY <1>7 DEF Price
  <2>3. Time[j] # None => j \in K
    OBVIOUS
  <2> HIDE DEF U, K, P
  <2>4. QED
    BY <1>5, <2>1, <2>2, <2>3
<1> HIDE DEF P, U, K, R, f
<1>8. IsFiniteSet({0} \cup P) /\ {0} \cup P \subseteq Nat /\ {0} \cup P # {}
  <2>1. IsFiniteSet(P \cup {0}) /\ P \cup {0} = {0} \cup P
    BY <1>6, FS_AddElement
  <2>2. QED
    BY <1>6, <2>1
<1>9. Dearest = Max({0} \cup P)
  BY <1>4 DEF Dearest
<1>10. Dearest \in {0} \cup P /\ \A y \in {0} \cup P : y <= Dearest
  BY <1>8, <1>9, NatMost
<1>11. Dearest \in Nat /\ \A y \in P : y <= Dearest
  BY <1>8, <1>10
<1>12. QED
  BY <1>7, <1>11
-----------------------------------------------------------------------------
(* The match of one job.                                                   *)

\* A free slot that is left, would serve the job in time and is not avoided.
ServesFree(q, x, k) ==
    /\ k \in DOMAIN q.slots /\ q.room[k] > 0 /\ q.slots[k].key \notin q.used
    /\ Fits(x, q.slots[k]) /\ Allowed(x, q.slots[k])
    /\ ~Avoided(x, q.slots[k].prov, q.at)
    /\ IsFree(q.slots[k]) /\ MeetsDeadline(q.slots[k], x, q.at)

PaysBeside(q, n, k) ==
    /\ n \in DOMAIN q.plan /\ q.plan[n].kind = "reserve" /\ q.plan[n].cost > 0
    /\ ServesFree(q, q.plan[n].job, k)

\* Such a slot is one the match would look at.
LEMMA FreeServes ==
  ASSUME NEW x, NEW k, ServesFree(pass, x, k)
  PROVE  k \in FreeInTime(x) /\ ~Avoided(x, pass.slots[k].prov, pass.at)
<1>1. k \in Fitting(x) /\ ~Avoided(x, pass.slots[k].prov, pass.at)
  BY DEF ServesFree, Fitting
<1>2. k \in Candidates(x)
  BY <1>1 DEF Candidates
<1>3. QED
  BY <1>1, <1>2 DEF ServesFree, FreeInTime, FreeSlots

\* A Reserve that pays beside a free slot in time is what FreeLeft says of the pass.
LEMMA FreeLeftNow ==
  ASSUME NEW n, NEW k, PaysBeside(pass, n, k)
  PROVE  FreeLeft
<1>1. k \in FreeInTime(pass.plan[n].job) /\ ~Avoided(pass.plan[n].job, pass.slots[k].prov, pass.at)
  BY FreeServes DEF PaysBeside
<1>2. QED
  BY <1>1 DEF PaysBeside, FreeLeft

\* The same of the pass after a step.
LEMMA FreeLeftNext ==
  ASSUME FreeLeft', job' = job
  PROVE  \E n, k : PaysBeside(pass', n, k)
<1>1. PICK n \in DOMAIN pass'.plan :
        /\ pass'.plan[n].kind = "reserve" /\ pass'.plan[n].cost > 0
        /\ \E k : /\ k \in FreeInTime(pass.plan[n].job)'
                  /\ ~Avoided(pass.plan[n].job, pass.slots[k].prov, pass.at)'
  BY DEF FreeLeft
<1>0. PICK k : /\ k \in FreeInTime(pass.plan[n].job)'
               /\ ~Avoided(pass.plan[n].job, pass.slots[k].prov, pass.at)'
  BY <1>1
<1> DEFINE x == pass'.plan[n].job
<1>2. /\ k \in FreeSlots(pass.plan[n].job)'
      /\ MeetsDeadline(pass.slots[k], pass.plan[n].job, pass.at)'
  BY <1>0 DEF FreeInTime
<1>3. k \in Candidates(pass.plan[n].job)' /\ IsFree(pass.slots[k])'
  BY <1>2 DEF FreeSlots
<1>4. k \in Fitting(pass.plan[n].job)'
  BY <1>3 DEF Candidates
<1>5. /\ k \in DOMAIN pass'.slots /\ pass'.room[k] > 0 /\ pass'.slots[k].key \notin pass'.used
      /\ Fits(x, pass'.slots[k]) /\ Allowed(x, pass'.slots[k])
  BY <1>4, job' = job DEF Fitting, Fits, Allowed
<1>6. ~Avoided(x, pass'.slots[k].prov, pass'.at)
  BY <1>0, job' = job DEF Avoided
<1>7. MeetsDeadline(pass'.slots[k], x, pass'.at)
  BY <1>2, job' = job DEF MeetsDeadline
<1>8. IsFree(pass'.slots[k])
  BY <1>3 DEF IsFree
<1>9. PaysBeside(pass', n, k)
  BY <1>1, <1>5, <1>6, <1>7, <1>8 DEF PaysBeside, ServesFree
<1>10. QED
  BY <1>9

\* A pass without a plan is sound, and so is one that keeps its plan.
LEMMA EmptyPlan ==
  ASSUME pass'.plan = <<>>
  PROVE  PlanOK' /\ ~FreeLeft'
<1>1. DOMAIN pass'.plan = {}
  OBVIOUS
<1>2. QED
  BY <1>1 DEF PlanOK, PlanCurrent, DistinctOffers, OnceEach, FreeLeft

\* A step that leaves the jobs and the plan alone leaves the plan sound.
LEMMA SamePlan ==
  ASSUME PlanOK, job' = job, retried' = retried, pass'.plan = pass.plan,
         pass'.slots = pass.slots, pass'.used = pass.used
  PROVE  PlanOK'
<1>1. PlanCurrent' /\ DistinctOffers' /\ OnceEach'
  BY DEF PlanOK, PlanCurrent, DistinctOffers, OnceEach
<1>2. \A n : Load(pass.plan[n].prov, n)' = Load(pass.plan[n].prov, n)
  BY DEF Load
<1>3. \A n : Placeable(pass.plan[n].job)' <=> Placeable(pass.plan[n].job)
  BY DEF Placeable
<1>4. \A n \in DOMAIN pass.plan : pass.plan[n].kind = "reserve" => Backed(n)'
  BY <1>2, <1>3 DEF PlanOK, Backed
<1>5. QED
  BY <1>1, <1>4 DEF PlanOK

\* The match takes the first of the jobs left.
LEMMA MatchFirst ==
  ASSUME JobsOK, PassOK, LedgerOK, Match
  PROVE  \E j \in pass.todo :
           pass' = Onward(IF Choice(j) = 0 THEN [pass EXCEPT !.todo = @ \ {j}]
                          ELSE [pass EXCEPT !.todo = @ \ {j}, !.room = Taken(Choice(j)),
                                            !.used = @ \cup {pass.slots[Choice(j)].key},
                                            !.plan = Append(@, Reserving(j, Choice(j)))])
<1> DEFINE First(k) == \A o \in pass.todo \ {k} : Before(k, o, pass.at)
           j == CHOOSE k \in pass.todo : First(k)
<1>1. pass.todo \subseteq Jobs /\ pass.todo # {} /\ pass.at \in Nat
  BY DEF PassOK, Passes, Match
<1>2. \E k \in pass.todo : First(k)
  BY <1>1, FirstExists
<1>3. j \in pass.todo
  <2> HIDE DEF First
  <2>1. QED
    BY <1>2
<1>4. pass' = Onward(IF Choice(j) = 0 THEN [pass EXCEPT !.todo = @ \ {j}]
                     ELSE [pass EXCEPT !.todo = @ \ {j}, !.room = Taken(Choice(j)),
                                       !.used = @ \cup {pass.slots[Choice(j)].key},
                                       !.plan = Append(@, Reserving(j, Choice(j)))])
  BY DEF Match
<1> HIDE DEF j
<1>5. QED
  BY <1>3, <1>4

\* A job nothing serves is passed over.
LEMMA SkipEffect ==
  ASSUME PassOK, PlanOK, MatchOK, pass.phase = "match", NEW j \in pass.todo,
         pass' = Onward([pass EXCEPT !.todo = @ \ {j}]),
         now' = now, job' = job, retried' = retried
  PROVE  PassOK' /\ PlanOK' /\ MatchOK' /\ ~FreeLeft'
<1> DEFINE p == [pass EXCEPT !.todo = @ \ {j}]
<1>1. /\ p \in Passes /\ p.phase = "match" /\ p.at = now /\ p.slots = pass.slots /\ p.room = pass.room
      /\ p.plan = pass.plan /\ p.todo = pass.todo \ {j} /\ p.used = pass.used /\ p.at = pass.at
  BY DEF PassOK, Passes
<1>2. DOMAIN p.room = DOMAIN p.slots /\ p.slots \in Offers
  <2>1. pass.slots \in Offers
    BY <1>1 DEF PassOK
  <2>2. QED
    BY <1>1, <2>1 DEF PassOK
<1> HIDE DEF p
<1>3. pass' = Onward(p)
  BY DEF p
<1>4. /\ PassOK' /\ pass'.plan = pass.plan
      /\ pass'.phase = "match" => pass' = p
      /\ \/ pass' = Idle /\ p.plan = <<>>
         \/ /\ pass'.slots = pass.slots /\ pass'.used = pass.used /\ pass'.room = pass.room
            /\ pass'.at = pass.at
  BY <1>1, <1>2, <1>3, OnwardPass
<1>5. ~FreeLeft
  BY DEF MatchOK
<1>6. PlanOK' /\ ~FreeLeft'
  <2>1. CASE pass'.plan = <<>>
    BY <2>1, EmptyPlan
  <2>2. CASE /\ pass'.slots = pass.slots /\ pass'.used = pass.used /\ pass'.room = pass.room
             /\ pass'.at = pass.at
    <3>1. PlanOK'
      BY <1>4, <2>2, SamePlan
    <3>2. ASSUME NEW n, NEW k, PaysBeside(pass', n, k) PROVE PaysBeside(pass, n, k)
      BY <1>4, <2>2, <3>2 DEF PaysBeside, ServesFree
    <3>3. ~FreeLeft'
      BY <1>5, <3>2, FreeLeftNext, FreeLeftNow
    <3>4. QED
      BY <3>1, <3>3
  <2>3. QED
    BY <1>1, <1>4, <2>1, <2>2
<1>7. MatchOK'
  <2> SUFFICES ASSUME pass'.phase = "match"
               PROVE  MatchOK!2'
    BY DEF MatchOK
  <2>1. /\ pass'.todo = pass.todo \ {j} /\ pass'.slots = pass.slots /\ pass'.room = pass.room
        /\ pass'.plan = pass.plan
    BY <1>1, <1>4
  <2>2. \A k \in pass'.todo :
          /\ Placeable(k)'
          /\ \A n \in DOMAIN pass'.plan : pass'.plan[n].job = k => pass'.plan[n].kind = "unhold"
    <3>1. ASSUME NEW k \in pass.todo
          PROVE  /\ Placeable(k)
                 /\ \A n \in DOMAIN pass.plan : pass.plan[n].job = k => pass.plan[n].kind = "unhold"
      BY DEF MatchOK
    <3>2. \A k \in pass.todo : Placeable(k)'
      BY <3>1 DEF Placeable
    <3>3. QED
      <4>1. ASSUME NEW k \in pass'.todo
            PROVE  \A n \in DOMAIN pass'.plan : pass'.plan[n].job = k => pass'.plan[n].kind = "unhold"
        BY <2>1, <3>1
      <4>2. pass'.todo \subseteq pass.todo
        BY <2>1
      <4>3. QED
        BY <3>2, <4>1, <4>2
  <2>3. \A i \in DOMAIN pass'.slots :
          pass'.room[i] > 0 =>
            Cardinality(Load(pass.slots[i].prov, Len(pass.plan))') + pass'.room[i] <= pass'.slots[i].cap
    <3>1. \A i : Load(pass.slots[i].prov, Len(pass.plan))' = Load(pass.slots[i].prov, Len(pass.plan))
      <4>1. ASSUME NEW i PROVE Load(pass.slots[i].prov, Len(pass.plan))' = Load(pass.slots[i].prov, Len(pass.plan))
        <5>1. pass'.slots[i].prov = pass.slots[i].prov /\ Len(pass'.plan) = Len(pass.plan)
          BY <2>1
        <5>2. \A x : x \in Load(pass.slots[i].prov, Len(pass.plan))' <=> x \in Load(pass.slots[i].prov, Len(pass.plan))
          <6>1. PICK q : q = pass.slots[i].prov
            OBVIOUS
          <6>2. pass'.plan = pass.plan /\ pass'.slots[i].prov = q /\ Len(pass'.plan) = Len(pass.plan)
            BY <2>1, <5>1, <6>1
          <6>3. job' = job
            OBVIOUS
          <6>4. \A x : x \in Load(q, Len(pass.plan))' <=> x \in Load(q, Len(pass.plan))
            BY <6>2, <6>3 DEF Load
          <6>5. QED
            BY <6>1, <6>2, <6>4
        <5>3. QED
          BY <5>2
      <4>2. QED
        BY <4>1
    <3>2. QED
      BY <2>1, <3>1 DEF MatchOK
  <2>4. QED
    BY <1>6, <2>2, <2>3
<1>8. QED
  BY <1>4, <1>6, <1>7

\* What a Reserve is made of.
LEMMA ReservingType ==
  ASSUME PassOK, pass.phase = "match", NEW j \in Jobs, NEW i \in DOMAIN pass.slots, NEW d, d = Reserving(j, i)
  PROVE  /\ d \in Decisions /\ d.kind = "reserve" /\ d.job = j
         /\ d.prov = pass.slots[i].prov /\ d.key = pass.slots[i].key /\ d.cost \in Nat
         /\ d.cost <= Dearest /\ (IsFree(pass.slots[i]) => d.cost = 0)
<1> DEFINE c == Price(pass.slots[i], j)
           n == IF c = None THEN 0 ELSE c
<1>1. c \in Nat \cup {None} /\ (IsFree(pass.slots[i]) => c = 0)
  BY PriceType
<1>2. pass.slots \in Offers
  BY DEF PassOK
<1>3. Dearest \in Nat /\ (c # None => c <= Dearest)
  BY <1>2, DearestBound
<1>4. pass.slots[i].prov \in Providers /\ pass.slots[i].key \in STRING
  BY SlotType
<1>5. d = [kind |-> "reserve", job |-> j, prov |-> pass.slots[i].prov,
           key |-> pass.slots[i].key, cost |-> n]
  BY DEF Reserving
<1> HIDE DEF c
<1>6. n \in Nat /\ n <= Dearest /\ (IsFree(pass.slots[i]) => n = 0)
  BY <1>1, <1>3
<1> HIDE DEF n
<1>7. d.kind = "reserve" /\ d.job = j /\ d.prov = pass.slots[i].prov /\ d.key = pass.slots[i].key /\ d.cost = n
  BY <1>5
<1>8. d \in Decisions
  BY <1>4, <1>5, <1>6 DEF Decisions
<1>9. QED
  BY <1>6, <1>7, <1>8

\* A unit of every slot of the provider is taken.
LEMMA TakenType ==
  ASSUME PassOK, NEW i, NEW room, room = Taken(i)
  PROVE  /\ room \in Seq(Nat) /\ DOMAIN room = DOMAIN pass.slots
         /\ \A k \in DOMAIN pass.slots :
              /\ pass.room[k] \in Nat /\ room[k] \in Nat /\ room[k] <= pass.room[k]
              /\ pass.slots[k].prov = pass.slots[i].prov /\ room[k] > 0 => room[k] = pass.room[k] - 1
<1>1. pass.room \in Seq(Nat) /\ DOMAIN pass.room = DOMAIN pass.slots
  BY DEF PassOK, Passes
<1>2. DOMAIN pass.room = 1..Len(pass.room) /\ Len(pass.room) \in Nat /\ \A k \in DOMAIN pass.room : pass.room[k] \in Nat
  BY <1>1
<1>3. /\ DOMAIN room = DOMAIN pass.room
      /\ \A k \in DOMAIN pass.room :
           room[k] = IF pass.slots[k].prov = pass.slots[i].prov /\ pass.room[k] > 0
                     THEN pass.room[k] - 1 ELSE pass.room[k]
  BY DEF Taken
<1>4. \A k \in DOMAIN pass.room : room[k] \in Nat
  BY <1>2, <1>3
<1>5. room \in [1..Len(pass.room) -> Nat]
  <2>1. room = [k \in DOMAIN room |-> room[k]]
    BY DEF Taken
  <2>2. QED
    BY <1>2, <1>3, <1>4, <2>1
<1>6. room \in Seq(Nat)
  BY <1>2, <1>5
<1>7. QED
  BY <1>1, <1>2, <1>3, <1>4, <1>6

\* A job that gets a slot has a Reserve of its own, of a slot of its own, with
\* room for it and no free slot left beside what it pays.
LEMMA TakeEffect ==
  ASSUME JobsOK, PassOK, PlanOK, MatchOK, pass.phase = "match", NEW j \in pass.todo,
         NEW i, i = Choice(j), i # 0,
         pass' = Onward([pass EXCEPT !.todo = @ \ {j}, !.room = Taken(i),
                                     !.used = @ \cup {pass.slots[i].key},
                                     !.plan = Append(@, Reserving(j, i))]),
         now' = now, job' = job, retried' = retried
  PROVE  PassOK' /\ PlanOK' /\ MatchOK' /\ ~FreeLeft'
<1>0. PICK N, d : N = Len(pass.plan) /\ d = Reserving(j, i)
  OBVIOUS
<1> DEFINE room == Taken(i)
           used == pass.used \cup {pass.slots[i].key}
           plan == Append(pass.plan, d)
           p == [pass EXCEPT !.todo = @ \ {j}, !.room = room, !.used = used, !.plan = plan]
<1>1. /\ pass \in Passes /\ pass.todo \subseteq Jobs /\ j \in Jobs /\ pass.plan \in Seq(Decisions)
      /\ DOMAIN pass.plan = 1..N /\ N \in Nat
  BY <1>0 DEF PassOK, Passes
<1>2. i \in Fitting(j) /\ (IsFree(pass.slots[i]) \/ FreeInTime(j) = {})
  BY <1>1, ChoiceCorrect
<1>3. i \in DOMAIN pass.slots /\ pass.room[i] > 0 /\ pass.slots[i].key \notin pass.used
  BY <1>2 DEF Fitting
<1>4. /\ d \in Decisions /\ d.kind = "reserve" /\ d.job = j
      /\ d.prov = pass.slots[i].prov /\ d.key = pass.slots[i].key /\ d.cost \in Nat
      /\ d.cost <= Dearest /\ (IsFree(pass.slots[i]) => d.cost = 0)
  BY <1>0, <1>1, <1>3, ReservingType
<1>5. /\ room \in Seq(Nat) /\ DOMAIN room = DOMAIN pass.slots
      /\ \A k \in DOMAIN pass.slots :
           /\ pass.room[k] \in Nat /\ room[k] \in Nat /\ room[k] <= pass.room[k]
           /\ pass.slots[k].prov = pass.slots[i].prov /\ room[k] > 0 => room[k] = pass.room[k] - 1
  BY TakenType
<1>6. used \subseteq STRING
  BY <1>1, <1>3, SlotType DEF Passes
<1> HIDE DEF room
<1>7. /\ plan \in Seq(Decisions) /\ DOMAIN plan = 1..(N + 1) /\ Len(plan) = N + 1
      /\ plan[N + 1] = d /\ \A n \in 1..N : plan[n] = pass.plan[n]
  BY <1>0, <1>1, <1>4
<1>8. \A n \in 1..(N + 1) : n \in 1..N \/ n = N + 1
  BY <1>1
<1> HIDE DEF used, plan
<1>9. /\ p \in Passes /\ p.phase = "match" /\ p.at = pass.at /\ p.slots = pass.slots /\ p.room = room
      /\ p.plan = plan /\ p.todo = pass.todo \ {j} /\ p.used = used
  BY <1>1, <1>5, <1>6, <1>7 DEF Passes
<1>10. p.at = now /\ p.slots \in Offers
  BY <1>9 DEF PassOK
<1>11. pass' = Onward(p)
  BY <1>0 DEF p, room, used, plan
<1> HIDE DEF p
<1>12. /\ PassOK' /\ pass'.plan = plan
       /\ pass'.phase = "match" => pass' = p
       /\ \/ pass' = Idle /\ p.plan = <<>>
          \/ /\ pass'.slots = p.slots /\ pass'.used = p.used /\ pass'.room = p.room
             /\ pass'.at = p.at
  BY <1>5, <1>9, <1>10, <1>11, OnwardPass
<1>13. p.plan # <<>>
  <2>1. Len(p.plan) # 0
    BY <1>1, <1>7, <1>9
  <2>2. QED
    BY <2>1
<1>14. /\ pass'.slots = pass.slots /\ pass'.used = used /\ pass'.room = room
       /\ pass'.at = pass.at /\ pass'.plan = plan
  BY <1>9, <1>12, <1>13
<1>15. Placeable(j) /\ \A n \in 1..N : pass.plan[n].job = j => pass.plan[n].kind = "unhold"
  BY <1>1 DEF MatchOK
<1>16. \A n \in 1..N : pass.plan[n].kind = "reserve" => Backed(n)
  BY <1>1 DEF PlanOK
<1>17. PlanCurrent'
  <2>1. \A n \in 1..N :
          /\ plan[n].kind \in {"reserve", "fail"} => job[plan[n].job].state \in Pending
          /\ plan[n].kind = "hold" => job[plan[n].job].state = "QUEUED"
          /\ plan[n].kind = "unhold" => job[plan[n].job].state = "HELD"
          /\ plan[n].kind = "requeue" => job[plan[n].job].state = "RUNNING" /\ job[plan[n].job].dead
    BY <1>1, <1>7 DEF PlanOK, PlanCurrent
  <2>2. plan[N + 1].kind = "reserve" /\ job[plan[N + 1].job].state \in Pending
    BY <1>4, <1>7, <1>15 DEF Placeable
  <2>3. \A n \in 1..(N + 1) :
          /\ plan[n].kind \in {"reserve", "fail"} => job[plan[n].job].state \in Pending
          /\ plan[n].kind = "hold" => job[plan[n].job].state = "QUEUED"
          /\ plan[n].kind = "unhold" => job[plan[n].job].state = "HELD"
          /\ plan[n].kind = "requeue" => job[plan[n].job].state = "RUNNING" /\ job[plan[n].job].dead
    BY <1>8, <2>1, <2>2
  <2>4. pass'.plan = plan /\ DOMAIN plan = 1..(N + 1)
    BY <1>7, <1>14
  <2> HIDE DEF plan
  <2>5. ASSUME NEW n \in DOMAIN pass'.plan
        PROVE  /\ pass'.plan[n].kind \in {"reserve", "fail"} => job'[pass'.plan[n].job].state \in Pending
               /\ pass'.plan[n].kind = "hold" => job'[pass'.plan[n].job].state = "QUEUED"
               /\ pass'.plan[n].kind = "unhold" => job'[pass'.plan[n].job].state = "HELD"
               /\ pass'.plan[n].kind = "requeue"
                    => job'[pass'.plan[n].job].state = "RUNNING" /\ job'[pass'.plan[n].job].dead
    <3>1. n \in 1..(N + 1) /\ pass'.plan[n] = plan[n]
      BY <2>4
    <3>2. QED
      BY <2>3, <3>1
  <2>6. QED
    BY <2>5 DEF PlanCurrent
<1>18. DistinctOffers'
  <2>1. \A n \in 1..N : plan[n].kind = "reserve" => plan[n].key # d.key /\ plan[n].job # d.job
    BY <1>3, <1>4, <1>7, <1>15, <1>16 DEF Backed
  <2>2. \A n, m \in 1..N : n # m /\ plan[n].kind = "reserve" /\ plan[m].kind = "reserve"
                            => plan[n].key # plan[m].key /\ plan[n].job # plan[m].job
    BY <1>1, <1>7 DEF PlanOK, DistinctOffers
  <2>3. QED
    BY <1>7, <1>8, <1>14, <2>1, <2>2, SMTT(40) DEF DistinctOffers
<1>19. OnceEach'
  <2>1. \A n, m \in 1..N : n < m /\ plan[n].job = plan[m].job
                             => plan[n].kind = "unhold" /\ plan[m].kind = "reserve"
    BY <1>1, <1>7 DEF PlanOK, OnceEach
  <2>2. \A n \in 1..N : plan[n].job = d.job => plan[n].kind = "unhold"
    BY <1>4, <1>7, <1>15
  <2>3. \A n \in 1..N : ~(N + 1 < n)
    BY <1>1
  <2>4. ASSUME NEW n \in 1..(N + 1), NEW m \in 1..(N + 1), n < m, plan[n].job = plan[m].job
        PROVE  plan[n].kind = "unhold" /\ plan[m].kind = "reserve"
    <3>1. n \in 1..N
      BY <1>8, <2>3, <2>4
    <3>2. CASE m \in 1..N
      BY <2>1, <2>4, <3>1, <3>2
    <3>3. CASE m = N + 1
      BY <1>4, <1>7, <2>2, <2>4, <3>1, <3>3
    <3>4. QED
      BY <1>8, <3>2, <3>3
  <2>5. QED
    BY <1>7, <1>14, <2>4 DEF OnceEach
<1>20. \A q : \A n \in 1..N : Load(q, n)' = Load(q, n)
  <2>1. ASSUME NEW q, NEW n \in 1..N, NEW x \in Jobs
        PROVE  (\E m \in 1..n : /\ m \in 1..(N + 1) /\ plan[m].kind = "reserve"
                                /\ plan[m].prov = q /\ plan[m].job = x)
               <=> (\E m \in 1..n : /\ m \in 1..N /\ pass.plan[m].kind = "reserve"
                                    /\ pass.plan[m].prov = q /\ pass.plan[m].job = x)
    <3>1. \A m \in 1..n : m \in 1..N /\ m \in 1..(N + 1)
      BY <1>1
    <3>2. QED
      BY <1>7, <3>1
  <2>2. ASSUME NEW q, NEW n \in 1..N, NEW x PROVE x \in Load(q, n)' <=> x \in Load(q, n)
    <3>1. x \in Load(q, n)' <=>
            /\ x \in Jobs
            /\ \/ job[x].state \in Occupying /\ job[x].prov = q
               \/ \E m \in 1..n : /\ m \in 1..(N + 1) /\ plan[m].kind = "reserve"
                                  /\ plan[m].prov = q /\ plan[m].job = x
      BY <1>7, <1>14 DEF Load
    <3>2. x \in Load(q, n) <=>
            /\ x \in Jobs
            /\ \/ job[x].state \in Occupying /\ job[x].prov = q
               \/ \E m \in 1..n : /\ m \in 1..N /\ pass.plan[m].kind = "reserve"
                                  /\ pass.plan[m].prov = q /\ pass.plan[m].job = x
      BY <1>1 DEF Load
    <3>3. QED
      BY <2>1, <3>1, <3>2
  <2>3. QED
    BY <2>2
<1>21. \A q : /\ Load(q, N + 1)' \subseteq Load(q, N) \cup {j}
              /\ q # d.prov => Load(q, N + 1)' \subseteq Load(q, N)
  <2>1. ASSUME NEW q, NEW x \in Jobs, NEW m \in 1..(N + 1), plan[m].kind = "reserve",
               plan[m].prov = q, plan[m].job = x
        PROVE  \/ q = d.prov /\ x = j
               \/ /\ m \in 1..N /\ pass.plan[m].kind = "reserve"
                  /\ pass.plan[m].prov = q /\ pass.plan[m].job = x
    BY <1>4, <1>7, <1>8, <2>1
  <2>2. ASSUME NEW q, NEW x, x \in Load(q, N + 1)'
        PROVE  x \in Load(q, N) \/ (q = d.prov /\ x = j)
    <3>1. x \in Jobs /\ \/ job[x].state \in Occupying /\ job[x].prov = q
                        \/ \E m \in 1..(N + 1) : /\ plan[m].kind = "reserve"
                                                 /\ plan[m].prov = q /\ plan[m].job = x
      BY <1>14, <2>2 DEF Load
    <3>2. CASE job[x].state \in Occupying /\ job[x].prov = q
      BY <3>1, <3>2 DEF Load
    <3>3. CASE \E m \in 1..(N + 1) : plan[m].kind = "reserve" /\ plan[m].prov = q /\ plan[m].job = x
      <4>1. PICK m \in 1..(N + 1) : plan[m].kind = "reserve" /\ plan[m].prov = q /\ plan[m].job = x
        BY <3>3
      <4>2. \/ q = d.prov /\ x = j
            \/ /\ m \in 1..N /\ pass.plan[m].kind = "reserve"
               /\ pass.plan[m].prov = q /\ pass.plan[m].job = x
        BY <2>1, <3>1, <4>1
      <4>3. QED
        BY <1>1, <3>1, <4>2 DEF Load
    <3>4. QED
      BY <3>1, <3>2, <3>3
  <2>3. QED
    BY <2>2
<1>22. \A q : /\ Cardinality(Load(q, N)) \in Nat /\ Cardinality(Load(q, N + 1)') \in Nat
              /\ Cardinality(Load(q, N + 1)') <= Cardinality(Load(q, N)) + 1
              /\ q # d.prov => Cardinality(Load(q, N + 1)') <= Cardinality(Load(q, N))
  <2> SUFFICES ASSUME NEW q
               PROVE  /\ Cardinality(Load(q, N)) \in Nat /\ Cardinality(Load(q, N + 1)') \in Nat
                      /\ Cardinality(Load(q, N + 1)') <= Cardinality(Load(q, N)) + 1
                      /\ q # d.prov => Cardinality(Load(q, N + 1)') <= Cardinality(Load(q, N))
    OBVIOUS
  <2> DEFINE A == Load(q, N)
             B == Load(q, N + 1)'
  <2>1. IsFiniteSet(A) /\ Cardinality(A) \in Nat
    BY LoadFinite
  <2>2. B \subseteq A \cup {j} /\ (q # d.prov => B \subseteq A)
    BY <1>21
  <2> HIDE DEF A, B
  <2>3. IsFiniteSet(A \cup {j}) /\ Cardinality(A \cup {j}) \in Nat /\ Cardinality(A \cup {j}) <= Cardinality(A) + 1
    <3>1. /\ IsFiniteSet(A \cup {j})
          /\ Cardinality(A \cup {j}) = IF j \in A THEN Cardinality(A) ELSE Cardinality(A) + 1
      BY <2>1, FS_AddElement
    <3>2. QED
      BY <2>1, <3>1
  <2>4. IsFiniteSet(B) /\ Cardinality(B) \in Nat /\ Cardinality(B) <= Cardinality(A \cup {j})
    BY <2>2, <2>3, FS_Subset, FS_CardinalityType
  <2>5. q # d.prov => Cardinality(B) <= Cardinality(A)
    BY <2>1, <2>2, FS_Subset
  <2>6. QED
    BY <2>1, <2>3, <2>4, <2>5 DEF A, B
<1>23. \A k \in DOMAIN pass.slots :
         /\ pass.slots[k].cap \in Nat
         /\ pass.room[k] > 0 => Cardinality(Load(pass.slots[k].prov, N)) + pass.room[k] <= pass.slots[k].cap
  BY <1>0, SlotType DEF MatchOK
<1>24. Backed(N + 1)'
  <2>1. Cardinality(Load(d.prov, N + 1)') <= pass.slots[i].cap
    <3>1. Cardinality(Load(d.prov, N)) + pass.room[i] <= pass.slots[i].cap
      BY <1>3, <1>4, <1>23
    <3>2. QED
      <4>1. pass.room[i] \in Nat /\ pass.room[i] > 0 /\ pass.slots[i].cap \in Nat
        BY <1>3, <1>5, <1>23
      <4>2. /\ Cardinality(Load(d.prov, N)) \in Nat /\ Cardinality(Load(d.prov, N + 1)') \in Nat
            /\ Cardinality(Load(d.prov, N + 1)') <= Cardinality(Load(d.prov, N)) + 1
        BY <1>22
      <4>3. QED
        BY <3>1, <4>1, <4>2
  <2>2. Placeable(j)'
    BY <1>15 DEF Placeable
  <2>3. pass'.plan[N + 1] = d /\ d.key \in used
    BY <1>4, <1>7, <1>14 DEF used
  <2>4. /\ Placeable(pass.plan[N + 1].job)'
        /\ Cardinality(Load(pass.plan[N + 1].prov, N + 1)') <= pass'.slots[i].cap
    BY <1>4, <1>14, <2>1, <2>2, <2>3
  <2>5. /\ i \in DOMAIN pass'.slots /\ pass'.slots[i].prov = pass'.plan[N + 1].prov
        /\ pass'.slots[i].key = pass'.plan[N + 1].key
        /\ pass'.plan[N + 1].key \in pass'.used
        /\ pass'.plan[N + 1].cost <= Dearest
    BY <1>3, <1>4, <1>14, <2>3
  <2>6. QED
    BY <2>4, <2>5 DEF Backed
<1>25. ASSUME NEW n \in 1..N, pass.plan[n].kind = "reserve" PROVE Backed(n)'
  <2>1. Backed(n) /\ pass'.plan[n] = pass.plan[n]
    BY <1>7, <1>14, <1>16, <1>25
  <2>2. Placeable(pass.plan[n].job)'
    BY <2>1 DEF Backed, Placeable
  <2>3. Load(pass.plan[n].prov, n)' = Load(pass.plan[n].prov, n)
    BY <1>20, <2>1
  <2>4. pass'.plan[n].key \in pass'.used
    BY <1>14, <2>1 DEF used, Backed
  <2>5. QED
    BY <1>14, <2>1, <2>2, <2>3, <2>4 DEF Backed
<1>26. PlanOK'
  <2>1. \A n \in 1..(N + 1) : pass'.plan[n].kind = "reserve" => Backed(n)'
    BY <1>7, <1>8, <1>14, <1>24, <1>25
  <2>2. QED
    BY <1>7, <1>14, <1>17, <1>18, <1>19, <2>1 DEF PlanOK
<1>27. ~FreeLeft'
  <2> SUFFICES ASSUME FreeLeft' PROVE FALSE
    OBVIOUS
  <2>1. PICK n, k : PaysBeside(pass', n, k)
    BY FreeLeftNext
  <2>2. n \in 1..(N + 1) /\ plan[n].kind = "reserve" /\ plan[n].cost > 0
    BY <1>7, <1>14, <2>1 DEF PaysBeside
  <2>3. ServesFree(pass, plan[n].job, k)
    <3>1. /\ k \in DOMAIN pass.slots /\ room[k] > 0 /\ pass.slots[k].key \notin pass.used
      BY <1>14, <2>1 DEF PaysBeside, ServesFree, used
    <3>2. pass.room[k] > 0
      BY <1>5, <3>1
    <3>3. QED
      BY <1>14, <2>1, <3>1, <3>2 DEF PaysBeside, ServesFree
  <2>4. CASE n \in 1..N
    <3>1. PaysBeside(pass, n, k)
      BY <1>1, <1>7, <2>2, <2>3, <2>4 DEF PaysBeside
    <3>2. QED
      BY <3>1, FreeLeftNow DEF MatchOK
  <2>5. CASE n = N + 1
    <3>1. plan[n].job = j /\ FreeInTime(j) = {}
      BY <1>2, <1>4, <1>7, <2>2, <2>5
    <3>2. QED
      BY <2>3, <3>1, FreeServes
  <2>6. QED
    BY <1>8, <2>2, <2>4, <2>5
<1>28. MatchOK'
  <2> SUFFICES ASSUME pass'.phase = "match"
               PROVE  MatchOK!2'
    BY DEF MatchOK
  <2>1. pass'.todo = pass.todo \ {j}
    BY <1>9, <1>12
  <2>2. ASSUME NEW k \in pass.todo, k # j
        PROVE  /\ Placeable(k)'
               /\ \A n \in 1..(N + 1) : plan[n].job = k => plan[n].kind = "unhold"
    <3>1. Placeable(k) /\ \A n \in 1..N : pass.plan[n].job = k => pass.plan[n].kind = "unhold"
      BY <1>1 DEF MatchOK
    <3>2. Placeable(k)'
      BY <3>1 DEF Placeable
    <3>3. QED
      BY <1>4, <1>7, <1>8, <2>2, <3>1, <3>2
  <2>3. ASSUME NEW k \in DOMAIN pass.slots, room[k] > 0
        PROVE  Cardinality(Load(pass.slots[k].prov, Len(pass.plan))') + room[k] <= pass.slots[k].cap
    <3>0. PICK q : q = pass.slots[k].prov
      OBVIOUS
    <3>1. Cardinality(Load(pass.slots[k].prov, Len(pass.plan))') = Cardinality(Load(q, N + 1)')
      <4>1. pass'.slots[k].prov = q /\ Len(pass'.plan) = N + 1
        BY <1>7, <1>14, <3>0
      <4>2. QED
        BY <4>1
    <3>2. /\ pass.room[k] \in Nat /\ room[k] \in Nat /\ room[k] <= pass.room[k] /\ pass.room[k] > 0
          /\ q = d.prov => room[k] = pass.room[k] - 1
      BY <1>4, <1>5, <2>3, <3>0
    <3>3. Cardinality(Load(q, N)) + pass.room[k] <= pass.slots[k].cap /\ pass.slots[k].cap \in Nat
      BY <1>23, <3>0, <3>2
    <3>4. /\ Cardinality(Load(q, N)) \in Nat /\ Cardinality(Load(q, N + 1)') \in Nat
          /\ Cardinality(Load(q, N + 1)') <= Cardinality(Load(q, N)) + 1
          /\ q # d.prov => Cardinality(Load(q, N + 1)') <= Cardinality(Load(q, N))
      BY <1>22
    <3>5. Cardinality(Load(q, N + 1)') + room[k] <= pass.slots[k].cap
      BY <3>2, <3>3, <3>4
    <3>6. QED
      BY <3>1, <3>5
  <2>4. \A k \in pass'.todo :
          /\ Placeable(k)'
          /\ \A n \in DOMAIN pass'.plan : pass'.plan[n].job = k => pass'.plan[n].kind = "unhold"
    <3>1. pass'.plan = plan /\ DOMAIN plan = 1..(N + 1)
      BY <1>7, <1>14
    <3>2. ASSUME NEW k \in pass'.todo PROVE k \in pass.todo /\ k # j
      BY <2>1
    <3>3. \A k \in pass'.todo : Placeable(k)'
      BY <2>2, <3>2
    <3>4. ASSUME NEW k \in pass'.todo, NEW n \in 1..(N + 1), plan[n].job = k PROVE plan[n].kind = "unhold"
      BY <2>2, <3>2, <3>4
    <3> HIDE DEF plan
    <3>5. \A k \in pass'.todo :
            \A n \in DOMAIN pass'.plan : pass'.plan[n].job = k => pass'.plan[n].kind = "unhold"
      <4>1. ASSUME NEW k \in pass'.todo, NEW n \in DOMAIN pass'.plan, pass'.plan[n].job = k
            PROVE  pass'.plan[n].kind = "unhold"
        <5>1. n \in 1..(N + 1) /\ pass'.plan[n] = plan[n]
          BY <3>1
        <5>2. QED
          BY <3>4, <4>1, <5>1
      <4>2. QED
        BY <4>1
    <3>6. QED
      BY <3>3, <3>5
  <2>5. \A k \in DOMAIN pass'.slots :
          pass'.room[k] > 0 =>
            Cardinality(Load(pass.slots[k].prov, Len(pass.plan))') + pass'.room[k] <= pass'.slots[k].cap
    BY <1>14, <2>3
  <2>6. QED
    BY <1>27, <2>4, <2>5
<1>29. QED
  BY <1>12, <1>26, <1>27, <1>28

\* A step of the match keeps the plan sound and the rest of the jobs to match.
LEMMA MatchEffect ==
  ASSUME JobsOK, PassOK, LedgerOK, PlanOK, MatchOK, Match
  PROVE  PassOK' /\ PlanOK' /\ MatchOK' /\ ~FreeLeft'
<1>1. PICK j \in pass.todo :
         pass' = Onward(IF Choice(j) = 0 THEN [pass EXCEPT !.todo = @ \ {j}]
                        ELSE [pass EXCEPT !.todo = @ \ {j}, !.room = Taken(Choice(j)),
                                          !.used = @ \cup {pass.slots[Choice(j)].key},
                                          !.plan = Append(@, Reserving(j, Choice(j)))])
  BY MatchFirst
<1>2. pass.phase = "match" /\ now' = now /\ job' = job /\ retried' = retried
  BY DEF Match, ghosts
<1>3. CASE Choice(j) = 0
  <2>1. pass' = Onward([pass EXCEPT !.todo = @ \ {j}])
    BY <1>1, <1>3
  <2>2. QED
    BY <1>2, <2>1, SkipEffect
<1>4. CASE Choice(j) # 0
  <2> DEFINE i == Choice(j)
  <2>1. pass' = Onward([pass EXCEPT !.todo = @ \ {j}, !.room = Taken(i),
                                    !.used = @ \cup {pass.slots[i].key},
                                    !.plan = Append(@, Reserving(j, i))])
    BY <1>1, <1>4
  <2>2. i # 0
    BY <1>4
  <2> HIDE DEF i
  <2>3. QED
    BY <1>2, <2>1, <2>2, TakeEffect DEF i
<1>5. QED
  BY <1>3, <1>4
-----------------------------------------------------------------------------
(* What the plan survives between two of its decisions.                    *)

\* A decision stands while a request is handled.
LEMMA HandlingPlan ==
  ASSUME JobsOK, PassOK, PlanOK, NEW j, Handling(j)
  PROVE  PlanOK' /\ MatchOK'
<1>1. /\ pass' = pass /\ pass.phase # "match" /\ retried \subseteq retried'
      /\ j \in Jobs /\ \A k \in Jobs \ {j} : job'[k] = job[k]
  BY DEF Handling, Handled, Touches
<1>2. /\ job[j].state \in Pending \cup Occupying =>
           /\ job'[j].state = job[j].state /\ job'[j].prov = job[j].prov
           /\ job'[j].dead = job[j].dead /\ job'[j].attempts = job[j].attempts
           /\ job'[j].deps = job[j].deps
      /\ job[j].state \notin Pending \cup Occupying =>
           /\ job[j].state \in Terminal \cup {"ABSENT"} /\ job'[j].state = "QUEUED"
           /\ job[j].state \in Terminal => j \in retried'
  BY DEF Handling, Asks, Moves, Terminal, Pending, Occupying
<1>3. pass.plan \in Seq(Decisions) /\ \A n \in DOMAIN pass.plan : pass.plan[n].job \in Jobs
  <2>1. pass.plan \in Seq(Decisions)
    BY DEF PassOK, Passes
  <2>2. \A n \in DOMAIN pass.plan : pass.plan[n] \in Decisions
    BY <2>1
  <2>3. QED
    BY <2>1, <2>2 DEF Decisions
<1>4. ASSUME NEW k \in Jobs, job[k].state \in Pending \cup Occupying
      PROVE  /\ job'[k].state = job[k].state /\ job'[k].dead = job[k].dead
             /\ job'[k].attempts = job[k].attempts /\ job'[k].deps = job[k].deps
  BY <1>1, <1>2, <1>4
<1>5. ASSUME NEW k \in Jobs, Placeable(k) PROVE Placeable(k)'
  <2>1. /\ job'[k].state = job[k].state /\ job'[k].attempts = job[k].attempts
        /\ job'[k].deps = job[k].deps /\ job[k].deps \subseteq Jobs
    BY <1>4, <1>5 DEF Placeable, JobsOK, JobRecord
  <2>2. ASSUME NEW d \in job[k].deps
        PROVE  \/ job'[d].state = "SUCCEEDED" \/ d \in retried'
               \/ job'[d].state \in Terminal /\ \E p \in Policies[k] : p.ignore
    <3>1. \/ job[d].state = "SUCCEEDED" \/ d \in retried
          \/ job[d].state \in Terminal /\ \E p \in Policies[k] : p.ignore
      BY <1>5 DEF Placeable
    <3>2. CASE d # j
      BY <1>1, <2>1, <3>1, <3>2
    <3>3. CASE d = j
      BY <1>1, <1>2, <3>1, <3>3 DEF Terminal, Pending, Occupying
    <3>4. QED
      BY <3>2, <3>3
  <2>3. QED
    BY <1>5, <2>1, <2>2 DEF Placeable
<1>6. ASSUME NEW q, NEW n PROVE Load(q, n)' = Load(q, n)
  <2>1. \A x \in Jobs : (job'[x].state \in Occupying /\ job'[x].prov = q)
                        <=> (job[x].state \in Occupying /\ job[x].prov = q)
    <3>1. job[j].state \in Pending \cup Occupying => job'[j].state = job[j].state /\ job'[j].prov = job[j].prov
      BY <1>2
    <3>2. job[j].state \notin Pending \cup Occupying => job[j].state \notin Occupying /\ job'[j].state \notin Occupying
      BY <1>2 DEF Pending, Occupying
    <3>3. QED
      BY <1>1, <3>1, <3>2
  <2>2. QED
    BY <1>1, <2>1 DEF Load
<1>7. PlanCurrent'
  <2>1. ASSUME NEW n \in DOMAIN pass.plan
        PROVE  /\ pass.plan[n].kind \in {"reserve", "fail"} => job'[pass.plan[n].job].state \in Pending
               /\ pass.plan[n].kind = "hold" => job'[pass.plan[n].job].state = "QUEUED"
               /\ pass.plan[n].kind = "unhold" => job'[pass.plan[n].job].state = "HELD"
               /\ pass.plan[n].kind = "requeue"
                    => job'[pass.plan[n].job].state = "RUNNING" /\ job'[pass.plan[n].job].dead
    <3> DEFINE k == pass.plan[n].job
               v == pass.plan[n].kind
    <3>1. k \in Jobs
      BY <1>3
    <3>2. /\ v \in {"reserve", "fail"} => job[k].state \in Pending
          /\ v = "hold" => job[k].state = "QUEUED"
          /\ v = "unhold" => job[k].state = "HELD"
          /\ v = "requeue" => job[k].state = "RUNNING" /\ job[k].dead
      BY DEF PlanOK, PlanCurrent
    <3> HIDE DEF k, v
    <3>3. v \in {"reserve", "fail", "hold", "unhold", "requeue"} => job[k].state \in Pending \cup Occupying
      BY <3>2 DEF Pending, Occupying
    <3>4. v \in {"reserve", "fail", "hold", "unhold", "requeue"} =>
             job'[k].state = job[k].state /\ job'[k].dead = job[k].dead
      BY <1>4, <3>1, <3>3
    <3>5. /\ v \in {"reserve", "fail"} => job'[k].state \in Pending
          /\ v = "hold" => job'[k].state = "QUEUED"
          /\ v = "unhold" => job'[k].state = "HELD"
          /\ v = "requeue" => job'[k].state = "RUNNING" /\ job'[k].dead
      BY <3>2, <3>4
    <3>6. QED
      BY <3>5 DEF k, v
  <2>2. QED
    BY <1>1, <2>1 DEF PlanCurrent
<1>8. DistinctOffers' /\ OnceEach'
  BY <1>1 DEF PlanOK, DistinctOffers, OnceEach
<1>9. ASSUME NEW n \in DOMAIN pass.plan, pass.plan[n].kind = "reserve" PROVE Backed(n)'
  <2>1. Backed(n) /\ pass.plan[n].job \in Jobs
    BY <1>3, <1>9 DEF PlanOK
  <2>2. Placeable(pass.plan[n].job)'
    <3>1. PICK k \in Jobs : k = pass.plan[n].job
      BY <2>1
    <3>2. Placeable(k)'
      BY <1>5, <2>1, <3>1 DEF Backed
    <3>3. pass'.plan[n].job = k
      BY <1>1, <3>1
    <3>4. QED
      BY <3>2, <3>3
  <2>3. Load(pass.plan[n].prov, n)' = Load(pass.plan[n].prov, n)
    <3>1. PICK q : q = pass.plan[n].prov
      OBVIOUS
    <3>2. Load(q, n)' = Load(q, n) /\ pass'.plan[n].prov = q
      BY <1>1, <1>6, <3>1
    <3>3. QED
      BY <3>1, <3>2
  <2>4. QED
    BY <1>1, <2>1, <2>2, <2>3 DEF Backed
<1>10. QED
  BY <1>1, <1>7, <1>8, <1>9 DEF PlanOK, MatchOK

\* What every enacted decision does to the job it is about.
Enacted ==
    LET h == Head(pass.plan).job
    IN  /\ Touches(h) /\ job[h].state \in Pending \cup {"RUNNING"}
        /\ job'[h].state \in Occupying => /\ Head(pass.plan).kind = "reserve"
                                          /\ job'[h].prov = Head(pass.plan).prov
        /\ Head(pass.plan).kind = "unhold" =>
             /\ job'[h].state = "QUEUED" /\ job'[h].attempts = job[h].attempts
             /\ job'[h].deps = job[h].deps
        /\ pass.phase = "enact" /\ retried' = retried

\* The decisions after it stand.
LEMMA EnactedPlan ==
  ASSUME JobsOK, PassOK, PlanOK, Enacted, pass' = Rest
  PROVE  PlanOK'
<1>0. PICK h, head : h = Head(pass.plan).job /\ head = Head(pass.plan)
  OBVIOUS
<1>1. /\ h \in Jobs /\ \A k \in Jobs \ {h} : job'[k] = job[k]
      /\ job[h].state \in Pending \cup {"RUNNING"}
      /\ job'[h].state \in Occupying => head.kind = "reserve" /\ job'[h].prov = head.prov
      /\ head.kind = "unhold" => /\ job'[h].state = "QUEUED" /\ job'[h].attempts = job[h].attempts
                                 /\ job'[h].deps = job[h].deps
      /\ retried' = retried
  BY <1>0 DEF Enacted, Touches
<1>2. /\ head = pass.plan[1] /\ head.job = h /\ 1 \in DOMAIN pass.plan
      /\ pass.plan \in Seq(Decisions)
  BY <1>0, HeadType DEF Enacted, PassOK, Passes
<1>3. /\ \A n \in DOMAIN pass'.plan : /\ n + 1 \in DOMAIN pass.plan /\ n \in Nat /\ n >= 1
                                      /\ pass'.plan[n] = pass.plan[n + 1]
      /\ pass' = Idle \/ (pass'.slots = pass.slots /\ pass'.used = pass.used)
  BY RestPlan DEF Enacted
<1>4. \A n \in DOMAIN pass.plan : pass.plan[n].job \in Jobs
  <2>1. \A n \in DOMAIN pass.plan : pass.plan[n] \in Decisions
    BY <1>2
  <2>2. QED
    BY <2>1 DEF Decisions
<1>5. ASSUME NEW n \in DOMAIN pass'.plan, pass'.plan[n].job = h
      PROVE  /\ pass'.plan[n].kind = "reserve" /\ job'[h].state = "QUEUED"
             /\ job'[h].attempts = job[h].attempts /\ job'[h].deps = job[h].deps
  <2>1. 1 < n + 1 /\ n + 1 \in DOMAIN pass.plan /\ pass.plan[1].job = pass.plan[n + 1].job
    BY <1>2, <1>3, <1>5
  <2>2. pass.plan[1].kind = "unhold" /\ pass.plan[n + 1].kind = "reserve"
    BY <1>2, <2>1 DEF PlanOK, OnceEach
  <2>3. QED
    BY <1>1, <1>2, <1>3, <2>2
<1>6. PlanCurrent'
  <2>1. ASSUME NEW n \in DOMAIN pass'.plan
        PROVE  /\ pass'.plan[n].kind \in {"reserve", "fail"} => job'[pass'.plan[n].job].state \in Pending
               /\ pass'.plan[n].kind = "hold" => job'[pass'.plan[n].job].state = "QUEUED"
               /\ pass'.plan[n].kind = "unhold" => job'[pass'.plan[n].job].state = "HELD"
               /\ pass'.plan[n].kind = "requeue"
                    => job'[pass'.plan[n].job].state = "RUNNING" /\ job'[pass'.plan[n].job].dead
    <3>1. PICK d : d = pass'.plan[n]
      OBVIOUS
    <3>2. d = pass.plan[n + 1] /\ n + 1 \in DOMAIN pass.plan /\ d.job \in Jobs
      BY <1>3, <1>4, <2>1, <3>1
    <3>3. /\ d.kind \in {"reserve", "fail"} => job[d.job].state \in Pending
          /\ d.kind = "hold" => job[d.job].state = "QUEUED"
          /\ d.kind = "unhold" => job[d.job].state = "HELD"
          /\ d.kind = "requeue" => job[d.job].state = "RUNNING" /\ job[d.job].dead
      BY <3>2 DEF PlanOK, PlanCurrent
    <3>4. CASE d.job = h
      <4>1. d.kind = "reserve" /\ job'[d.job].state = "QUEUED"
        BY <1>5, <3>1, <3>4
      <4>2. QED
        BY <3>1, <4>1 DEF Pending
    <3>5. CASE d.job # h
      <4>1. job'[d.job] = job[d.job]
        BY <1>1, <3>2, <3>5
      <4>2. QED
        BY <3>1, <3>3, <4>1
    <3>6. QED
      BY <3>4, <3>5
  <2>2. QED
    BY <2>1 DEF PlanCurrent
<1>7. DistinctOffers'
  <2>1. ASSUME NEW n \in DOMAIN pass'.plan, NEW m \in DOMAIN pass'.plan, n # m,
               pass'.plan[n].kind = "reserve", pass'.plan[m].kind = "reserve"
        PROVE  pass'.plan[n].key # pass'.plan[m].key /\ pass'.plan[n].job # pass'.plan[m].job
    <3>1. n + 1 \in DOMAIN pass.plan /\ m + 1 \in DOMAIN pass.plan /\ n + 1 # m + 1
      BY <1>3, <2>1
    <3>2. pass.plan[n + 1].key # pass.plan[m + 1].key /\ pass.plan[n + 1].job # pass.plan[m + 1].job
      BY <1>3, <2>1, <3>1 DEF PlanOK, DistinctOffers
    <3>3. QED
      BY <1>3, <3>2
  <2>2. QED
    BY <2>1 DEF DistinctOffers
<1>8. OnceEach'
  <2>1. ASSUME NEW n \in DOMAIN pass'.plan, NEW m \in DOMAIN pass'.plan, n < m,
               pass'.plan[n].job = pass'.plan[m].job
        PROVE  pass'.plan[n].kind = "unhold" /\ pass'.plan[m].kind = "reserve"
    <3>1. n + 1 \in DOMAIN pass.plan /\ m + 1 \in DOMAIN pass.plan /\ n + 1 < m + 1
      BY <1>3, <2>1
    <3>2. pass.plan[n + 1].kind = "unhold" /\ pass.plan[m + 1].kind = "reserve"
      BY <1>3, <2>1, <3>1 DEF PlanOK, OnceEach
    <3>3. QED
      BY <1>3, <3>2
  <2>2. QED
    BY <2>1 DEF OnceEach
<1>9. ASSUME NEW k \in Jobs, Placeable(k), k = h => job'[h].state = "QUEUED"
                                               /\ job'[h].attempts = job[h].attempts
                                               /\ job'[h].deps = job[h].deps
      PROVE  Placeable(k)'
  <2>1. job'[k].state \in Pending /\ job'[k].attempts = job[k].attempts /\ job'[k].deps = job[k].deps
    BY <1>1, <1>9 DEF Placeable, Pending
  <2>2. job[k].deps \subseteq Jobs
    BY DEF JobsOK, JobRecord
  <2>3. ASSUME NEW d \in job[k].deps
        PROVE  \/ job'[d].state = "SUCCEEDED" \/ d \in retried'
               \/ job'[d].state \in Terminal /\ \E p \in Policies[k] : p.ignore
    <3>1. \/ job[d].state = "SUCCEEDED" \/ d \in retried
          \/ job[d].state \in Terminal /\ \E p \in Policies[k] : p.ignore
      BY <1>9 DEF Placeable
    <3>2. CASE d # h
      BY <1>1, <2>2, <3>1, <3>2
    <3>3. CASE d = h
      BY <1>1, <3>1, <3>3 DEF Terminal, Pending
    <3>4. QED
      BY <3>2, <3>3
  <2>4. QED
    BY <1>9, <2>1, <2>3 DEF Placeable
<1>10. ASSUME NEW q, NEW n \in DOMAIN pass'.plan PROVE Load(q, n)' \subseteq Load(q, n + 1)
  <2> SUFFICES ASSUME NEW x, x \in Load(q, n)' PROVE x \in Load(q, n + 1)
    OBVIOUS
  <2>1. /\ x \in Jobs
        /\ \/ job'[x].state \in Occupying /\ job'[x].prov = q
           \/ \E m \in 1..n : /\ m \in DOMAIN pass'.plan /\ pass'.plan[m].kind = "reserve"
                              /\ pass'.plan[m].prov = q /\ pass'.plan[m].job = x
    BY DEF Load
  <2>2. n \in Nat
    BY <1>3
  <2>3. CASE job'[x].state \in Occupying /\ job'[x].prov = q /\ x # h
    BY <1>1, <2>1, <2>3 DEF Load
  <2>4. CASE job'[x].state \in Occupying /\ job'[x].prov = q /\ x = h
    <3>1. pass.plan[1].kind = "reserve" /\ pass.plan[1].prov = q /\ pass.plan[1].job = x
      BY <1>1, <1>2, <2>4
    <3>2. 1 \in 1..(n + 1) /\ 1 \in DOMAIN pass.plan
      BY <1>2, <2>2
    <3>3. QED
      BY <2>1, <3>1, <3>2 DEF Load
  <2>5. CASE \E m \in 1..n : /\ m \in DOMAIN pass'.plan /\ pass'.plan[m].kind = "reserve"
                             /\ pass'.plan[m].prov = q /\ pass'.plan[m].job = x
    <3>1. PICK m \in 1..n : /\ m \in DOMAIN pass'.plan /\ pass'.plan[m].kind = "reserve"
                            /\ pass'.plan[m].prov = q /\ pass'.plan[m].job = x
      BY <2>5
    <3>2. /\ m + 1 \in 1..(n + 1) /\ m + 1 \in DOMAIN pass.plan
          /\ pass.plan[m + 1].kind = "reserve" /\ pass.plan[m + 1].prov = q /\ pass.plan[m + 1].job = x
      BY <1>3, <2>2, <3>1
    <3>3. QED
      BY <2>1, <3>2 DEF Load
  <2>6. QED
    BY <2>1, <2>3, <2>4, <2>5
<1>11. ASSUME NEW n \in DOMAIN pass'.plan, pass'.plan[n].kind = "reserve" PROVE Backed(n)'
  <2>1. PICK d, q : d = pass'.plan[n] /\ q = d.prov
    OBVIOUS
  <2>2. /\ d = pass.plan[n + 1] /\ n + 1 \in DOMAIN pass.plan /\ d.job \in Jobs /\ d.kind = "reserve"
    BY <1>3, <1>4, <1>11, <2>1
  <2>3. Backed(n + 1)
    BY <2>2 DEF PlanOK
  <2>4. pass' # Idle
    <3>1. DOMAIN Idle.plan = {}
      BY DEF Idle
    <3>2. QED
      BY <1>11, <3>1
  <2>5. pass'.slots = pass.slots /\ pass'.used = pass.used
    BY <1>3, <2>4
  <2>6. Placeable(pass.plan[n].job)'
    <3>1. PICK k \in Jobs : k = d.job
      BY <2>2
    <3>2. Placeable(k)
      BY <2>2, <2>3, <3>1 DEF Backed
    <3>3. k = h => /\ job'[h].state = "QUEUED" /\ job'[h].attempts = job[h].attempts
                   /\ job'[h].deps = job[h].deps
      BY <1>5, <2>1, <3>1
    <3>4. Placeable(k)'
      BY <1>9, <3>2, <3>3
    <3>5. pass'.plan[n].job = k
      BY <2>1, <3>1
    <3>6. QED
      BY <3>4, <3>5
  <2>7. PICK i \in DOMAIN pass.slots :
          /\ pass.slots[i].prov = q /\ pass.slots[i].key = d.key
          /\ Cardinality(Load(q, n + 1)) <= pass.slots[i].cap
    BY <2>1, <2>2, <2>3 DEF Backed
  <2>8. Cardinality(Load(q, n)') <= pass.slots[i].cap
    <3>1. IsFiniteSet(Load(q, n + 1)) /\ Cardinality(Load(q, n + 1)) \in Nat
      BY LoadFinite
    <3>2. Load(q, n)' \subseteq Load(q, n + 1)
      BY <1>10
    <3>3. /\ Cardinality(Load(q, n)') <= Cardinality(Load(q, n + 1))
          /\ Cardinality(Load(q, n)') \in Nat
      BY <3>1, <3>2, FS_Subset, FS_CardinalityType
    <3>4. pass.slots[i].cap \in Nat
      BY SlotType
    <3>5. QED
      BY <2>7, <3>1, <3>3, <3>4
  <2>9. Cardinality(Load(pass.plan[n].prov, n)') <= pass'.slots[i].cap
    <3>1. pass'.plan[n].prov = q
      BY <2>1
    <3>2. QED
      BY <2>5, <2>8, <3>1
  <2>10. /\ i \in DOMAIN pass'.slots /\ pass'.slots[i].prov = pass'.plan[n].prov
         /\ pass'.slots[i].key = pass'.plan[n].key
         /\ pass'.plan[n].key \in pass'.used /\ pass'.plan[n].cost <= Dearest
    BY <2>1, <2>2, <2>3, <2>5, <2>7 DEF Backed
  <2>11. QED
    BY <2>6, <2>9, <2>10 DEF Backed
<1>12. QED
  BY <1>6, <1>7, <1>8, <1>11 DEF PlanOK
-----------------------------------------------------------------------------
(* The rows of one window.                                                 *)

SpentOf(rows, k) == {i \in DOMAIN rows : rows[i].job = k /\ rows[i].kind = "spent"}

\* What the rows say of one job: the price it is due, and what it cost so far.
Exact(rows, k, due, owed) ==
    /\ {rows[i].amount : i \in CommittedOf(rows, k)} = due
    /\ Cardinality(CommittedOf(rows, k)) <= 1
    /\ owed = AmountOf(rows, SpentOf(rows, k))

InWindow(rows, w, t) == {i \in DOMAIN rows : SameWindow(w, rows[i].at, t)}
TotalOf(rows, w, t) == AmountOf(rows, InWindow(rows, w, t))

\* Any of the rows have a sum.
LEMMA RowsType ==
  ASSUME NEW rows, rows \in Seq(Rows)
  PROVE  /\ DOMAIN rows = 1..Len(rows) /\ Len(rows) \in Nat
         /\ \A i \in DOMAIN rows : /\ rows[i] \in Rows /\ rows[i].amount \in Nat /\ rows[i].at \in Nat
                                   /\ rows[i].job \in Jobs /\ rows[i].kind \in {"committed", "spent"}
         /\ \A S \in SUBSET DOMAIN rows : /\ IsFiniteSet(S) /\ AmountOf(rows, S) \in Nat
                                          /\ Cardinality(S) \in Nat
<1>1. DOMAIN rows = 1..Len(rows) /\ Len(rows) \in Nat /\ \A i \in DOMAIN rows : rows[i] \in Rows
  OBVIOUS
<1>2. \A i \in DOMAIN rows : /\ rows[i].amount \in Nat /\ rows[i].at \in Nat
                             /\ rows[i].job \in Jobs /\ rows[i].kind \in {"committed", "spent"}
  BY <1>1 DEF Rows
<1>3. IsFiniteSet(DOMAIN rows)
  BY <1>1, FS_Interval
<1>4. ASSUME NEW S \in SUBSET DOMAIN rows PROVE IsFiniteSet(S) /\ AmountOf(rows, S) \in Nat /\ Cardinality(S) \in Nat
  <2>1. IsFiniteSet(S) /\ Cardinality(S) \in Nat
    BY <1>3, FS_Subset, FS_CardinalityType
  <2>2. QED
    BY <1>2, <2>1, AmountsSplit
<1>5. QED
  BY <1>1, <1>2, <1>4

\* What is written after the last row.
LEMMA AppendRow ==
  ASSUME NEW rows, rows \in Seq(Rows), NEW r \in Rows, NEW new, new = Append(rows, r)
  PROVE  /\ new \in Seq(Rows) /\ DOMAIN new = DOMAIN rows \cup {Len(rows) + 1}
         /\ Len(rows) + 1 \notin DOMAIN rows /\ new[Len(rows) + 1] = r
         /\ \A i \in DOMAIN rows : new[i] = rows[i]
<1>1. /\ new \in Seq(Rows) /\ DOMAIN new = 1..(Len(rows) + 1) /\ DOMAIN rows = 1..Len(rows)
      /\ Len(rows) \in Nat
  OBVIOUS
<1>2. new[Len(rows) + 1] = r /\ \A i \in DOMAIN rows : new[i] = rows[i]
  OBVIOUS
<1>3. 1..(Len(rows) + 1) = 1..Len(rows) \cup {Len(rows) + 1} /\ Len(rows) + 1 \notin 1..Len(rows)
  BY <1>1
<1>4. QED
  BY <1>1, <1>2, <1>3

\* The row f of job j is settled for the amount a, and keeps its date.
Rewritten(rows, new, j, a, f) ==
    /\ new \in Seq(Rows) /\ DOMAIN new = DOMAIN rows
    /\ new[f].job = j /\ new[f].kind = "spent" /\ new[f].amount = a /\ new[f].at = rows[f].at
    /\ \A i \in DOMAIN rows \ {f} : new[i] = rows[i]

\* A settled row keeps its job and its date; a job without one gets a new row.
LEMMA RealizedRows ==
  ASSUME NEW rows, rows \in Seq(Rows), NEW j \in Jobs, NEW a \in Nat, NEW t \in Nat,
         NEW new, new = Realized(rows, j, a, t)
  PROVE  \/ /\ CommittedOf(rows, j) = {} /\ new = Append(rows, Row(j, a, "spent", t))
            /\ Row(j, a, "spent", t) \in Rows
         \/ \E f \in CommittedOf(rows, j) : Rewritten(rows, new, j, a, f)
<1> DEFINE mine == CommittedOf(rows, j)
           Earliest(i) == \A k \in mine :
                            rows[i].at < rows[k].at \/ (rows[i].at = rows[k].at /\ i <= k)
           first == CHOOSE i \in mine : Earliest(i)
<1>1. CASE mine = {}
  <2>1. new = Append(rows, Row(j, a, "spent", t))
    BY <1>1 DEF Realized
  <2>2. Row(j, a, "spent", t) \in Rows
    BY DEF Row, Rows
  <2>3. QED
    BY <1>1, <2>1, <2>2
<1>2. CASE mine # {}
  <2>1. mine \subseteq DOMAIN rows
    BY DEF CommittedOf
  <2>2. \E i \in mine : Earliest(i)
    <3> DEFINE g == [i \in mine |-> rows[i].at]
    <3>1. mine \subseteq Nat /\ \A i \in mine : g[i] \in Nat /\ g[i] = rows[i].at
      BY <2>1, RowsType
    <3> HIDE DEF mine, g
    <3>2. \E i \in mine : \A k \in mine : g[i] < g[k] \/ (g[i] = g[k] /\ i <= k)
      BY <1>2, <3>1, LeastExists
    <3>3. PICK i \in mine : \A k \in mine : g[i] < g[k] \/ (g[i] = g[k] /\ i <= k)
      BY <3>2
    <3>4. Earliest(i)
      BY <3>1, <3>3
    <3>5. QED
      BY <3>4
  <2>3. first \in mine
    <3> HIDE DEF Earliest, mine
    <3>1. QED
      BY <2>2
  <2>4. new = [rows EXCEPT ![first].kind = "spent", ![first].amount = a]
    BY <1>2 DEF Realized
  <2>5. PICK f \in mine : new = [rows EXCEPT ![f].kind = "spent", ![f].amount = a]
    <3> HIDE DEF first, mine
    <3>1. QED
      BY <2>3, <2>4
  <2>6. f \in DOMAIN rows /\ rows[f] \in Rows /\ rows[f].job = j /\ DOMAIN rows = 1..Len(rows)
    BY <2>1, <2>5, RowsType DEF CommittedOf
  <2> HIDE DEF mine
  <2>7. PICK r : r = [rows[f] EXCEPT !.kind = "spent", !.amount = a]
    OBVIOUS
  <2>8. /\ r \in Rows /\ r.job = j /\ r.kind = "spent" /\ r.amount = a /\ r.at = rows[f].at
    BY <2>6, <2>7 DEF Rows
  <2>9. new = [rows EXCEPT ![f] = r]
    BY <2>5, <2>6, <2>7
  <2>10. /\ DOMAIN new = DOMAIN rows /\ new[f] = r /\ \A i \in DOMAIN rows \ {f} : new[i] = rows[i]
    BY <2>6, <2>9
  <2>11. new \in Seq(Rows)
    BY <2>6, <2>8, <2>9
  <2>12. QED
    BY <2>5, <2>8, <2>10, <2>11 DEF mine, Rewritten
<1>3. QED
  BY <1>1, <1>2

\* The rows of another job are as they were.
LEMMA KeptExact ==
  ASSUME NEW rows, rows \in Seq(Rows), NEW new, new \in Seq(Rows), NEW k, NEW due, NEW owed,
         CommittedOf(new, k) = CommittedOf(rows, k), SpentOf(new, k) = SpentOf(rows, k),
         \A i \in CommittedOf(rows, k) \cup SpentOf(rows, k) : new[i].amount = rows[i].amount,
         Exact(rows, k, due, owed)
  PROVE  Exact(new, k, due, owed)
<1> DEFINE C == CommittedOf(rows, k)
           S == SpentOf(rows, k)
<1>1. C \subseteq DOMAIN rows /\ S \subseteq DOMAIN rows /\ S \subseteq DOMAIN new
  BY DEF CommittedOf, SpentOf
<1>2. AmountOf(new, S) = AmountOf(rows, S)
  <2>1. /\ IsFiniteSet(S) /\ \A i \in S : rows[i].amount \in Nat /\ new[i].amount = rows[i].amount
    BY <1>1, RowsType
  <2> HIDE DEF S
  <2>2. QED
    BY <1>1, <2>1, AmountsAgree
<1>3. {new[i].amount : i \in C} = {rows[i].amount : i \in C}
  OBVIOUS
<1>4. QED
  BY <1>2, <1>3 DEF Exact

\* A row of one job leaves the account of the others exact.
LEMMA AppendOther ==
  ASSUME NEW rows, rows \in Seq(Rows), NEW r \in Rows, NEW new, new = Append(rows, r),
         NEW k, k # r.job, NEW due, NEW owed, Exact(rows, k, due, owed)
  PROVE  Exact(new, k, due, owed)
<1>1. /\ new \in Seq(Rows) /\ DOMAIN new = DOMAIN rows \cup {Len(rows) + 1}
      /\ Len(rows) + 1 \notin DOMAIN rows /\ new[Len(rows) + 1] = r
      /\ \A i \in DOMAIN rows : new[i] = rows[i]
  BY AppendRow
<1>2. CommittedOf(new, k) = CommittedOf(rows, k)
  BY <1>1 DEF CommittedOf
<1>3. SpentOf(new, k) = SpentOf(rows, k)
  BY <1>1 DEF SpentOf
<1>4. \A i \in CommittedOf(rows, k) \cup SpentOf(rows, k) : new[i].amount = rows[i].amount
  BY <1>1 DEF CommittedOf, SpentOf
<1>5. QED
  BY <1>1, <1>2, <1>3, <1>4, KeptExact

\* Realizing one job leaves the account of the others exact.
LEMMA RealizedOther ==
  ASSUME NEW rows, rows \in Seq(Rows), NEW j \in Jobs, NEW a \in Nat, NEW t \in Nat,
         NEW new, new = Realized(rows, j, a, t),
         NEW k, k # j, NEW due, NEW owed, Exact(rows, k, due, owed)
  PROVE  Exact(new, k, due, owed)
<1>1. CASE new = Append(rows, Row(j, a, "spent", t)) /\ Row(j, a, "spent", t) \in Rows
  <2>1. Row(j, a, "spent", t).job = j
    BY DEF Row
  <2>2. QED
    BY <1>1, <2>1, AppendOther
<1>2. CASE \E f \in CommittedOf(rows, j) : Rewritten(rows, new, j, a, f)
  <2>1. PICK f \in CommittedOf(rows, j) :
             /\ new \in Seq(Rows) /\ DOMAIN new = DOMAIN rows
             /\ new[f].job = j /\ \A i \in DOMAIN rows \ {f} : new[i] = rows[i]
    BY <1>2 DEF Rewritten
  <2>2. rows[f].job = j
    BY DEF CommittedOf
  <2>3. CommittedOf(new, k) = CommittedOf(rows, k)
    BY <2>1, <2>2 DEF CommittedOf
  <2>4. SpentOf(new, k) = SpentOf(rows, k)
    BY <2>1, <2>2 DEF SpentOf
  <2>5. \A i \in CommittedOf(rows, k) \cup SpentOf(rows, k) : new[i].amount = rows[i].amount
    BY <2>1, <2>2 DEF CommittedOf, SpentOf
  <2>6. QED
    BY <2>1, <2>3, <2>4, <2>5, KeptExact
<1>3. QED
  BY <1>1, <1>2, RealizedRows

\* The row of a placement is the price the job is due.
LEMMA CommitExact ==
  ASSUME NEW rows, rows \in Seq(Rows), NEW j \in Jobs, NEW a \in Nat, NEW t \in Nat,
         NEW new, new = Append(rows, Row(j, a, "committed", t)), NEW owed, Exact(rows, j, {}, owed)
  PROVE  Exact(new, j, {a}, owed)
<1>0. PICK r, n : r = Row(j, a, "committed", t) /\ n = Len(rows) + 1
  OBVIOUS
<1>1. r \in Rows /\ r.job = j /\ r.kind = "committed" /\ r.amount = a
  BY <1>0 DEF Row, Rows
<1>2. /\ new \in Seq(Rows) /\ DOMAIN new = DOMAIN rows \cup {n}
      /\ n \notin DOMAIN rows /\ new[n] = r
      /\ \A i \in DOMAIN rows : new[i] = rows[i]
  BY <1>0, <1>1, AppendRow
<1>3. CommittedOf(rows, j) = {}
  BY DEF Exact
<1>4. CommittedOf(new, j) = {n}
  BY <1>1, <1>2, <1>3 DEF CommittedOf
<1>5. SpentOf(new, j) = SpentOf(rows, j)
  BY <1>1, <1>2 DEF SpentOf
<1>6. {new[i].amount : i \in CommittedOf(new, j)} = {a}
  BY <1>1, <1>2, <1>4
<1>7. Cardinality(CommittedOf(new, j)) <= 1
  <2>1. Cardinality({n}) = 1
    BY FS_Singleton
  <2>2. Cardinality(CommittedOf(new, j)) = 1
    BY <1>4, <2>1
  <2>3. QED
    BY <2>2
<1>8. AmountOf(new, SpentOf(rows, j)) = AmountOf(rows, SpentOf(rows, j))
  <2> DEFINE S == SpentOf(rows, j)
  <2>1. S \subseteq DOMAIN rows
    BY DEF SpentOf
  <2> HIDE DEF S
  <2>2. /\ IsFiniteSet(S) /\ S \subseteq DOMAIN new
        /\ \A i \in S : rows[i].amount \in Nat /\ new[i].amount = rows[i].amount
    BY <1>2, <2>1, RowsType
  <2>3. AmountOf(new, S) = AmountOf(rows, S)
    BY <2>1, <2>2, AmountsAgree
  <2>4. QED
    BY <2>3 DEF S
<1>9. QED
  BY <1>5, <1>6, <1>7, <1>8 DEF Exact

\* A settled placement is due nothing more, and cost what it was settled for.
LEMMA SettleExact ==
  ASSUME NEW rows, rows \in Seq(Rows), NEW j \in Jobs, NEW a \in Nat, NEW t \in Nat,
         NEW new, new = Realized(rows, j, a, t), NEW c, NEW owed, Exact(rows, j, {c}, owed)
  PROVE  /\ Exact(new, j, {}, owed + a)
         /\ \E f \in CommittedOf(rows, j) :
              /\ DOMAIN new = DOMAIN rows /\ rows[f].amount = c /\ new[f].amount = a /\ new[f].at = rows[f].at
              /\ \A i \in DOMAIN rows \ {f} : new[i] = rows[i]
<1>1. CommittedOf(rows, j) # {}
  BY DEF Exact
<1>11. PICK f \in CommittedOf(rows, j) : Rewritten(rows, new, j, a, f)
  BY <1>1, RealizedRows
<1>2. /\ f \in CommittedOf(rows, j)
             /\ new \in Seq(Rows) /\ DOMAIN new = DOMAIN rows
             /\ new[f].job = j /\ new[f].kind = "spent" /\ new[f].amount = a /\ new[f].at = rows[f].at
             /\ \A i \in DOMAIN rows \ {f} : new[i] = rows[i]
  BY <1>11 DEF Rewritten
<1>3. CommittedOf(rows, j) = {f}
  <2> DEFINE C == CommittedOf(rows, j)
  <2>1. C \subseteq DOMAIN rows
    BY DEF CommittedOf
  <2>2. IsFiniteSet(C) /\ Cardinality(C) \in Nat /\ Cardinality(C) <= 1 /\ f \in C
    BY <1>2, <2>1, RowsType DEF Exact
  <2> HIDE DEF C
  <2>3. IsFiniteSet({f}) /\ Cardinality({f}) = 1 /\ {f} \subseteq C
    BY <2>2, FS_Singleton
  <2>4. Cardinality({f}) <= Cardinality(C)
    BY <2>2, <2>3, FS_Subset
  <2>5. {f} = C
    BY <2>2, <2>3, <2>4, FS_Subset
  <2>6. QED
    BY <2>5 DEF C
<1>4. f \in DOMAIN rows /\ rows[f].job = j /\ rows[f].kind = "committed"
  BY DEF CommittedOf
<1>5. rows[f].amount = c
  BY <1>3 DEF Exact
<1>6. CommittedOf(new, j) = {}
  BY <1>2, <1>3 DEF CommittedOf
<1>7. SpentOf(new, j) = SpentOf(rows, j) \cup {f} /\ f \notin SpentOf(rows, j)
  BY <1>2, <1>4 DEF SpentOf
<1>8. AmountOf(new, SpentOf(rows, j) \cup {f}) = AmountOf(rows, SpentOf(rows, j)) + a
  <2> DEFINE S == SpentOf(rows, j)
             R == S \cup {f}
  <2>1. S \subseteq DOMAIN rows /\ f \notin S
    BY <1>7 DEF SpentOf
  <2> HIDE DEF S
  <2>2. /\ IsFiniteSet(S) /\ S \subseteq DOMAIN new /\ AmountOf(rows, S) \in Nat
        /\ \A i \in S : rows[i].amount \in Nat /\ new[i].amount = rows[i].amount
    BY <1>2, <2>1, RowsType
  <2>3. AmountOf(new, S) = AmountOf(rows, S)
    BY <2>1, <2>2, AmountsAgree
  <2>4. /\ IsFiniteSet(R) /\ R \subseteq DOMAIN new /\ R \ {f} = S /\ f \in R
        /\ \A i \in R : new[i].amount \in Nat
    <3>1. R \subseteq DOMAIN new
      BY <1>2, <1>4, <2>1
    <3>2. R \ {f} = S /\ f \in R
      BY <2>1
    <3> HIDE DEF R
    <3>3. QED
      BY <1>2, <3>1, <3>2, RowsType
  <2> HIDE DEF R
  <2>5. AmountOf(new, R) = new[f].amount + AmountOf(new, R \ {f})
    BY <2>4, AmountsSplit
  <2>6. AmountOf(new, R) = AmountOf(rows, S) + a
    <3>1. AmountOf(new, R \ {f}) = AmountOf(rows, S) /\ new[f].amount = a
      BY <1>2, <2>3, <2>4
    <3>2. AmountOf(new, R) = a + AmountOf(rows, S)
      BY <2>5, <3>1
    <3>3. QED
      BY <2>2, <3>2
  <2>7. QED
    BY <2>6 DEF R, S
<1>9. Exact(new, j, {}, owed + a)
  <2>1. {new[i].amount : i \in CommittedOf(new, j)} = {}
    BY <1>6
  <2>2. Cardinality(CommittedOf(new, j)) <= 1
    BY <1>6, FS_EmptySet
  <2>3. owed + a = AmountOf(new, SpentOf(new, j))
    BY <1>7, <1>8 DEF Exact
  <2>4. QED
    BY <2>1, <2>2, <2>3 DEF Exact
<1>10. QED
  BY <1>2, <1>5, <1>9
-----------------------------------------------------------------------------
(* What a window adds up to.                                               *)

\* Whole division keeps the order: a later moment lies in no earlier window.
LEMMA DivMonotone ==
  ASSUME NEW s \in Nat \ {0}, NEW a \in Nat, NEW b \in Nat, a <= b
  PROVE  a \div s \in Nat /\ b \div s \in Nat /\ a \div s <= b \div s
<1> DEFINE p == a \div s   q == b \div s   x == a % s   y == b % s
<1>1. p \in Int /\ q \in Int /\ x \in 0..(s - 1) /\ y \in 0..(s - 1)
  OBVIOUS
<1>2. a = s * p + x /\ b = s * q + y
  OBVIOUS
<1> HIDE DEF p, q, x, y
<1>3. p >= 0
  <2> SUFFICES ASSUME p < 0 PROVE FALSE
    BY <1>1
  <2>1. s * p <= s * (0 - 1)
    BY <1>1
  <2>2. QED
    BY <1>1, <1>2, <2>1
<1>4. p <= q
  <2> SUFFICES ASSUME p > q PROVE FALSE
    BY <1>1
  <2>1. s * p >= s * (q + 1) /\ s * (q + 1) = s * q + s
    BY <1>1
  <2>2. QED
    BY <1>1, <1>2, <2>1
<1>5. QED
  BY <1>1, <1>3, <1>4 DEF p, q

\* One more row of now adds its amount.
LEMMA LongerTotal ==
  ASSUME NEW rows, rows \in Seq(Rows), NEW new, new \in Seq(Rows), NEW n,
         DOMAIN new = DOMAIN rows \cup {n}, n \notin DOMAIN rows,
         \A i \in DOMAIN rows : new[i] = rows[i], NEW w
  PROVE  TotalOf(new, w, new[n].at) = TotalOf(rows, w, new[n].at) + new[n].amount
<1>0. PICK t, S : t = new[n].at /\ S = InWindow(rows, w, t)
  OBVIOUS
<1>1. S \subseteq DOMAIN rows
  BY <1>0 DEF InWindow
<1>2. InWindow(new, w, t) = S \cup {n}
  <2>1. SameWindow(w, new[n].at, t)
    BY <1>0 DEF SameWindow
  <2>2. QED
    BY <1>0, <2>1 DEF InWindow
<1>3. /\ IsFiniteSet(S) /\ S \subseteq DOMAIN new /\ AmountOf(rows, S) \in Nat
      /\ \A i \in S : rows[i].amount \in Nat /\ new[i].amount = rows[i].amount
  BY <1>1, RowsType
<1>4. AmountOf(new, S) = AmountOf(rows, S)
  BY <1>1, <1>3, AmountsAgree
<1>5. PICK R : R = S \cup {n}
  OBVIOUS
<1>6. /\ R \subseteq DOMAIN new /\ R \ {n} = S /\ n \in R
  BY <1>1, <1>5
<1>7. IsFiniteSet(R) /\ \A i \in R : new[i].amount \in Nat
  BY <1>6, RowsType
<1>8. AmountOf(new, R) = new[n].amount + AmountOf(new, R \ {n})
  BY <1>6, <1>7, AmountsSplit
<1>9. AmountOf(new, R) = AmountOf(rows, S) + new[n].amount
  <2>1. AmountOf(new, R \ {n}) = AmountOf(rows, S) /\ new[n].amount \in Nat
    BY <1>4, <1>6, <1>7
  <2>2. AmountOf(new, R) = new[n].amount + AmountOf(rows, S)
    BY <1>8, <2>1
  <2>3. QED
    BY <1>3, <2>1, <2>2
<1>10. TotalOf(new, w, t) = AmountOf(new, R) /\ TotalOf(rows, w, t) = AmountOf(rows, S)
  BY <1>0, <1>2, <1>5 DEF TotalOf
<1>11. QED
  BY <1>0, <1>9, <1>10

\* A row appended now adds its amount.
LEMMA AppendTotal ==
  ASSUME NEW rows, rows \in Seq(Rows), NEW r \in Rows, NEW w
  PROVE  TotalOf(Append(rows, r), w, r.at) = TotalOf(rows, w, r.at) + r.amount
<1>1. PICK new : new = Append(rows, r)
  OBVIOUS
<1>2. PICK n : n = Len(rows) + 1
  OBVIOUS
<1>3. /\ new \in Seq(Rows) /\ DOMAIN new = DOMAIN rows \cup {n} /\ n \notin DOMAIN rows /\ new[n] = r
      /\ \A i \in DOMAIN rows : new[i] = rows[i]
  BY <1>1, <1>2, AppendRow
<1>4. TotalOf(new, w, new[n].at) = TotalOf(rows, w, new[n].at) + new[n].amount
  BY <1>3, LongerTotal
<1>5. TotalOf(new, w, r.at) = TotalOf(rows, w, r.at) + r.amount
  BY <1>3, <1>4
<1>6. QED
  BY <1>1, <1>5

\* A row rewritten for no more than it said adds nothing, and for any amount at
\* most that amount.
LEMMA RewrittenTotal ==
  ASSUME NEW rows, rows \in Seq(Rows), NEW new, NEW j, NEW a \in Nat, NEW f \in DOMAIN rows,
         Rewritten(rows, new, j, a, f), NEW w, NEW t
  PROVE  /\ TotalOf(new, w, t) \in Nat /\ TotalOf(rows, w, t) \in Nat
         /\ TotalOf(new, w, t) <= TotalOf(rows, w, t) + a
         /\ a <= rows[f].amount => TotalOf(new, w, t) <= TotalOf(rows, w, t)
<1>0. PICK S : S = InWindow(rows, w, t)
  OBVIOUS
<1>1. /\ new \in Seq(Rows) /\ DOMAIN new = DOMAIN rows
      /\ new[f].amount = a /\ new[f].at = rows[f].at
      /\ \A i \in DOMAIN rows \ {f} : new[i] = rows[i]
  BY DEF Rewritten
<1>2. S \subseteq DOMAIN rows
  BY <1>0 DEF InWindow
<1>3. InWindow(new, w, t) = S
  <2>1. \A i \in DOMAIN rows : new[i].at = rows[i].at
    BY <1>1
  <2>2. QED
    BY <1>0, <1>1, <2>1 DEF InWindow
<1>4. /\ IsFiniteSet(S) /\ S \subseteq DOMAIN new
      /\ AmountOf(rows, S) \in Nat /\ AmountOf(new, S) \in Nat
      /\ \A i \in S : rows[i].amount \in Nat /\ new[i].amount \in Nat
  <2>1. S \in SUBSET DOMAIN rows /\ S \in SUBSET DOMAIN new
    BY <1>1, <1>2
  <2>2. IsFiniteSet(S) /\ AmountOf(rows, S) \in Nat /\ \A i \in S : rows[i].amount \in Nat
    BY <2>1, RowsType
  <2>3. AmountOf(new, S) \in Nat /\ \A i \in S : new[i].amount \in Nat
    BY <1>1, <2>1, RowsType
  <2>4. QED
    BY <2>1, <2>2, <2>3
<1>5. CASE f \notin S
  <2>1. \A i \in S : new[i].amount = rows[i].amount
    BY <1>1, <1>2, <1>5
  <2>2. AmountOf(new, S) = AmountOf(rows, S)
    BY <1>2, <1>4, <2>1, AmountsAgree
  <2>3. TotalOf(new, w, t) = TotalOf(rows, w, t) /\ TotalOf(rows, w, t) \in Nat
    BY <1>0, <1>3, <1>4, <2>2 DEF TotalOf
  <2>4. QED
    BY <2>3
<1>6. CASE f \in S
  <2>1. PICK R : R = S \ {f}
    OBVIOUS
  <2>2. /\ IsFiniteSet(R) /\ R \subseteq DOMAIN rows /\ R \subseteq DOMAIN new
        /\ \A i \in R : rows[i].amount \in Nat /\ new[i].amount = rows[i].amount
    BY <1>1, <1>2, <1>4, <2>1, FS_Subset
  <2>3. AmountOf(new, R) = AmountOf(rows, R) /\ AmountOf(rows, R) \in Nat
    BY <2>2, AmountsAgree
  <2>4. AmountOf(rows, S) = rows[f].amount + AmountOf(rows, R)
    BY <1>2, <1>4, <1>6, <2>1, AmountsSplit
  <2>5. AmountOf(new, S) = new[f].amount + AmountOf(new, R)
    BY <1>4, <1>6, <2>1, AmountsSplit
  <2>6. AmountOf(new, S) = a + AmountOf(rows, R)
    BY <1>1, <2>3, <2>5
  <2>7. rows[f].amount \in Nat
    BY <1>4, <1>6
  <2>8. /\ AmountOf(new, S) <= AmountOf(rows, S) + a
        /\ a <= rows[f].amount => AmountOf(new, S) <= AmountOf(rows, S)
    BY <2>3, <2>4, <2>6, <2>7
  <2>9. TotalOf(new, w, t) = AmountOf(new, S) /\ TotalOf(rows, w, t) = AmountOf(rows, S)
    BY <1>0, <1>3 DEF TotalOf
  <2>10. QED
    BY <1>4, <2>8, <2>9
<1>7. QED
  BY <1>5, <1>6

\* What a window has seen is a natural number.
LEMMA TotalType ==
  ASSUME NEW rows, rows \in Seq(Rows), NEW w, NEW t
  PROVE  TotalOf(rows, w, t) \in Nat
<1>1. InWindow(rows, w, t) \in SUBSET DOMAIN rows
  BY DEF InWindow
<1>2. QED
  BY <1>1, RowsType DEF TotalOf

\* What is settled for some amount adds at most that amount.
LEMMA RealizedTotal ==
  ASSUME NEW rows, rows \in Seq(Rows), NEW j \in Jobs, NEW a \in Nat, NEW t \in Nat,
         NEW new, new = Realized(rows, j, a, t), NEW w
  PROVE  /\ new \in Seq(Rows) /\ TotalOf(rows, w, t) \in Nat /\ TotalOf(new, w, t) \in Nat
         /\ TotalOf(new, w, t) <= TotalOf(rows, w, t) + a
<1>1. TotalOf(rows, w, t) \in Nat
  BY TotalType
<1>2. CASE new = Append(rows, Row(j, a, "spent", t)) /\ Row(j, a, "spent", t) \in Rows
  <2>1. PICK r : r = Row(j, a, "spent", t)
    OBVIOUS
  <2>2. r \in Rows /\ r.at = t /\ r.amount = a
    BY <1>2, <2>1 DEF Row
  <2>3. Append(rows, r) \in Seq(Rows)
    BY <2>2, AppendRow
  <2>4. TotalOf(Append(rows, r), w, t) = TotalOf(rows, w, t) + a
    <3>1. TotalOf(Append(rows, r), w, r.at) = TotalOf(rows, w, r.at) + r.amount
      BY <2>2, AppendTotal
    <3>2. QED
      BY <2>2, <3>1
  <2>5. QED
    BY <1>1, <1>2, <2>1, <2>3, <2>4
<1>3. CASE \E f \in CommittedOf(rows, j) : Rewritten(rows, new, j, a, f)
  <2>1. PICK f \in CommittedOf(rows, j) : Rewritten(rows, new, j, a, f)
    BY <1>3
  <2>2. f \in DOMAIN rows /\ new \in Seq(Rows)
    BY <2>1 DEF CommittedOf, Rewritten
  <2>3. QED
    BY <2>1, <2>2, RewrittenTotal
<1>4. QED
  BY <1>2, <1>3, RealizedRows

\* A settled placement adds nothing when it is settled for no more than its price.
LEMMA SettleTotal ==
  ASSUME NEW rows, rows \in Seq(Rows), NEW j \in Jobs, NEW a \in Nat, NEW t \in Nat,
         NEW new, new = Realized(rows, j, a, t), NEW c, NEW owed, Exact(rows, j, {c}, owed),
         a <= c, NEW w
  PROVE  TotalOf(new, w, t) <= TotalOf(rows, w, t)
<1>1. CommittedOf(rows, j) # {}
  BY DEF Exact
<1>2. PICK f \in CommittedOf(rows, j) : Rewritten(rows, new, j, a, f)
  BY <1>1, RealizedRows
<1>3. f \in DOMAIN rows /\ rows[f].amount \in {rows[i].amount : i \in CommittedOf(rows, j)}
  BY DEF CommittedOf
<1>4. rows[f].amount = c
  BY <1>3 DEF Exact
<1>5. QED
  BY <1>2, <1>3, <1>4, RewrittenTotal

\* The clock only takes rows out of the window it is in.
LEMMA TickTotal ==
  ASSUME NEW rows, rows \in Seq(Rows), NEW t \in Nat, \A i \in DOMAIN rows : rows[i].at <= t,
         NEW w \in Windows
  PROVE  TotalOf(rows, w, t + 1) <= TotalOf(rows, w, t)
<1>0. PICK R, S : R = InWindow(rows, w, t + 1) /\ S = InWindow(rows, w, t)
  OBVIOUS
<1>1. R \subseteq S /\ S \subseteq DOMAIN rows
  <2>1. ASSUME NEW i \in DOMAIN rows, SameWindow(w, rows[i].at, t + 1) PROVE SameWindow(w, rows[i].at, t)
    <3>1. Span[w] \in Nat \ {0} /\ rows[i].at \in Nat /\ rows[i].at <= t /\ t <= t + 1 /\ t + 1 \in Nat
      BY RowsType, SchedulerAssumption
    <3>2. rows[i].at \div Span[w] = (t + 1) \div Span[w]
      BY <2>1 DEF SameWindow
    <3>3. /\ rows[i].at \div Span[w] <= t \div Span[w] /\ t \div Span[w] <= (t + 1) \div Span[w]
          /\ rows[i].at \div Span[w] \in Nat /\ t \div Span[w] \in Nat /\ (t + 1) \div Span[w] \in Nat
      BY <3>1, DivMonotone
    <3>4. QED
      BY <3>2, <3>3 DEF SameWindow
  <2>2. QED
    BY <1>0, <2>1 DEF InWindow
<1>2. IsFiniteSet(S) /\ \A i \in S : rows[i].amount \in Nat
  BY <1>1, RowsType
<1>3. AmountOf(rows, R) <= AmountOf(rows, S)
  BY <1>1, <1>2, AmountsSplit
<1>4. QED
  BY <1>0, <1>3 DEF TotalOf
-----------------------------------------------------------------------------
(* The ledger, step by step.                                               *)

\* What the ledger says of each job, now and after a step.
LEMMA ExactNow ==
  LedgerExact <=> \A k \in Jobs \ torn, w \in Windows :
                     Exact(ledger[w], k, IF Paying(k) THEN {job[k].cost} ELSE {}, charged[k])
BY DEF LedgerExact, Exact, SpentOf, Paying

\* The exact ledger after a step, job by job.
LEMMA ExactNext ==
  LedgerExact' <=> \A k \in Jobs \ torn', w \in Windows :
                     Exact(ledger'[w], k, IF Paying(k)' THEN {job'[k].cost} ELSE {}, charged'[k])
BY DEF LedgerExact, Exact, SpentOf, Paying

\* A step without a bill, that leaves what each job pays alone.
LEMMA ExactKept ==
  ASSUME LedgerExact, UNCHANGED <<ledger, torn, charged>>,
         \A k \in Jobs : /\ Paying(k)' <=> Paying(k)
                         /\ Paying(k) => job'[k].cost = job[k].cost
  PROVE  LedgerExact'
<1>1. \A k \in Jobs : (IF Paying(k)' THEN {job'[k].cost} ELSE {})
                        = (IF Paying(k) THEN {job[k].cost} ELSE {})
  OBVIOUS
<1>2. \A k \in Jobs \ torn, w \in Windows :
         Exact(ledger[w], k, IF Paying(k) THEN {job[k].cost} ELSE {}, charged[k])
  BY ExactNow
<1>3. \A k \in Jobs \ torn', w \in Windows :
         Exact(ledger'[w], k, IF Paying(k)' THEN {job'[k].cost} ELSE {}, charged'[k])
  <2> TAKE k \in Jobs \ torn', w \in Windows
  <2>1. Exact(ledger[w], k, IF Paying(k) THEN {job[k].cost} ELSE {}, charged[k])
    BY <1>2
  <2>2. ledger'[w] = ledger[w] /\ charged'[k] = charged[k]
    OBVIOUS
  <2>3. QED
    BY <1>1, <2>1, <2>2
<1>4. QED
  BY <1>3, ExactNext

\* How a bill ends: all of it is written, or a crash cut it short.
LEMMA BilledEffect ==
  ASSUME LedgerOK, NEW j \in Jobs, NEW ws, NEW after, Billed(j, ws, after)
  PROVE  /\ torn \subseteq torn' /\ torn' \subseteq torn \cup {j} /\ torn' \subseteq Jobs
         /\ crashes' \in Nat /\ crashes' >= crashes
         /\ \/ ws = Windows /\ pass' = after /\ crashes' = crashes /\ torn' = torn
            \/ pass' = Idle /\ crashes' = crashes + 1 /\ torn' = torn \cup {j}
BY DEF LedgerOK, Billed

\* The price of a placement is written down.
LEMMA CommitLedger ==
  ASSUME LedgerOK, NEW j \in Jobs, NEW a \in Nat, NEW ws, Commit(j, a, ws)
  PROVE  /\ ledger' \in [Windows -> Seq(Rows)]
         /\ \A w \in Windows : /\ \A i \in DOMAIN ledger'[w] : ledger'[w][i].at <= now
                               /\ w \in ws => ledger'[w] = Append(ledger[w], Row(j, a, "committed", now))
                               /\ w \notin ws => ledger'[w] = ledger[w]
<1>1. PICK r : r = Row(j, a, "committed", now)
  OBVIOUS
<1>2. r \in Rows /\ r.at = now /\ now \in Nat /\ ledger \in [Windows -> Seq(Rows)]
  <2>1. now \in Nat /\ ledger \in [Windows -> Seq(Rows)]
    BY DEF LedgerOK
  <2>2. r \in Rows /\ r.at = now
    BY <1>1, <2>1 DEF Row, Rows
  <2>3. QED
    BY <2>1, <2>2
<1>3. ledger' = [w \in Windows |-> IF w \in ws THEN Append(ledger[w], r) ELSE ledger[w]]
  BY <1>1 DEF Commit
<1>4. ASSUME NEW w \in Windows
      PROVE  /\ ledger'[w] \in Seq(Rows)
             /\ \A i \in DOMAIN ledger'[w] : ledger'[w][i].at <= now
             /\ w \in ws => ledger'[w] = Append(ledger[w], r)
             /\ w \notin ws => ledger'[w] = ledger[w]
  <2>1. ledger[w] \in Seq(Rows) /\ \A i \in DOMAIN ledger[w] : ledger[w][i].at <= now
    BY DEF LedgerOK
  <2>2. ledger'[w] = IF w \in ws THEN Append(ledger[w], r) ELSE ledger[w]
    BY <1>3
  <2>3. /\ Append(ledger[w], r) \in Seq(Rows)
        /\ \A i \in DOMAIN Append(ledger[w], r) : Append(ledger[w], r)[i].at <= now
    <3>1. PICK new : new = Append(ledger[w], r)
      OBVIOUS
    <3>2. /\ new \in Seq(Rows) /\ DOMAIN new = DOMAIN ledger[w] \cup {Len(ledger[w]) + 1}
          /\ new[Len(ledger[w]) + 1] = r
          /\ \A i \in DOMAIN ledger[w] : new[i] = ledger[w][i]
      BY <1>2, <2>1, <3>1, AppendRow
    <3>3. \A i \in DOMAIN new : new[i].at <= now
      BY <1>2, <2>1, <3>2
    <3>4. QED
      BY <3>1, <3>2, <3>3
  <2>4. QED
    BY <2>1, <2>2, <2>3
<1>5. ledger' \in [Windows -> Seq(Rows)]
  <2>1. \A w \in Windows : ledger'[w] \in Seq(Rows)
    BY <1>4
  <2>2. DOMAIN ledger' = Windows /\ ledger' = [w \in DOMAIN ledger' |-> ledger'[w]]
    BY <1>3
  <2>3. QED
    BY <2>1, <2>2
<1>6. QED
  BY <1>1, <1>4, <1>5

\* A placement is settled.
LEMMA SettleLedger ==
  ASSUME LedgerOK, NEW j \in Jobs, NEW a \in Nat, NEW ws, Settle(j, a, ws)
  PROVE  /\ ledger' \in [Windows -> Seq(Rows)]
         /\ \A w \in Windows : /\ \A i \in DOMAIN ledger'[w] : ledger'[w][i].at <= now
                               /\ w \in ws => ledger'[w] = Realized(ledger[w], j, a, now)
                               /\ w \notin ws => ledger'[w] = ledger[w]
<1>1. now \in Nat /\ ledger \in [Windows -> Seq(Rows)]
  BY DEF LedgerOK
<1>2. ledger' = [w \in Windows |-> IF w \in ws THEN Realized(ledger[w], j, a, now) ELSE ledger[w]]
  BY DEF Settle
<1>3. ASSUME NEW w \in Windows
      PROVE  /\ ledger'[w] \in Seq(Rows)
             /\ \A i \in DOMAIN ledger'[w] : ledger'[w][i].at <= now
             /\ w \in ws => ledger'[w] = Realized(ledger[w], j, a, now)
             /\ w \notin ws => ledger'[w] = ledger[w]
  <2>1. ledger[w] \in Seq(Rows) /\ \A i \in DOMAIN ledger[w] : ledger[w][i].at <= now
    BY DEF LedgerOK
  <2>2. ledger'[w] = IF w \in ws THEN Realized(ledger[w], j, a, now) ELSE ledger[w]
    BY <1>2
  <2>3. PICK new : new = Realized(ledger[w], j, a, now)
    OBVIOUS
  <2>4. new \in Seq(Rows) /\ \A i \in DOMAIN new : new[i].at <= now
    <3>1. CASE \E f \in CommittedOf(ledger[w], j) : Rewritten(ledger[w], new, j, a, f)
      <4>1. PICK f \in CommittedOf(ledger[w], j) : Rewritten(ledger[w], new, j, a, f)
        BY <3>1
      <4>2. f \in DOMAIN ledger[w]
        BY DEF CommittedOf
      <4>3. QED
        BY <2>1, <4>1, <4>2 DEF Rewritten
    <3>2. CASE /\ new = Append(ledger[w], Row(j, a, "spent", now)) /\ Row(j, a, "spent", now) \in Rows
      <4>1. PICK r : r = Row(j, a, "spent", now)
        OBVIOUS
      <4>2. r \in Rows /\ r.at = now /\ new = Append(ledger[w], r)
        BY <3>2, <4>1 DEF Row
      <4>3. /\ new \in Seq(Rows) /\ DOMAIN new = DOMAIN ledger[w] \cup {Len(ledger[w]) + 1}
            /\ new[Len(ledger[w]) + 1] = r
            /\ \A i \in DOMAIN ledger[w] : new[i] = ledger[w][i]
        BY <2>1, <4>2, AppendRow
      <4>4. QED
        BY <1>1, <2>1, <4>2, <4>3
    <3>3. QED
      BY <1>1, <2>1, <2>3, <3>1, <3>2, RealizedRows
  <2>5. QED
    BY <2>1, <2>2, <2>3, <2>4
<1>4. ledger' \in [Windows -> Seq(Rows)]
  <2>1. \A w \in Windows : ledger'[w] \in Seq(Rows)
    BY <1>3
  <2>2. DOMAIN ledger' = Windows /\ ledger' = [w \in DOMAIN ledger' |-> ledger'[w]]
    BY <1>2
  <2>3. QED
    BY <2>1, <2>2
<1>5. QED
  BY <1>3, <1>4

\* A paid placement: its row is the price it holds.
LEMMA ReservedExact ==
  ASSUME LedgerOK, LedgerExact, NEW j \in Jobs, NEW c \in Nat, NEW ws, NEW after,
         Commit(j, c, ws), Billed(j, ws, after), charged' = charged,
         \A k \in Jobs \ {j} : job'[k] = job[k],
         ~Paying(j), job'[j].state \in Occupying, job'[j].cost = c
  PROVE  LedgerExact'
<1>1. /\ \A w \in Windows : /\ w \in ws => ledger'[w] = Append(ledger[w], Row(j, c, "committed", now))
                            /\ w \notin ws => ledger'[w] = ledger[w]
      /\ torn \subseteq torn' /\ (ws = Windows \/ j \in torn')
      /\ now \in Nat /\ c # None
      /\ \A w \in Windows : ledger[w] \in Seq(Rows)
  BY CommitLedger, BilledEffect, SchedulerAssumption DEF LedgerOK
<1>2. \A k \in Jobs \ torn, w \in Windows :
         Exact(ledger[w], k, IF Paying(k) THEN {job[k].cost} ELSE {}, charged[k])
  BY ExactNow
<1>3. ASSUME NEW k \in Jobs \ torn', NEW w \in Windows
      PROVE  Exact(ledger'[w], k, IF Paying(k)' THEN {job'[k].cost} ELSE {}, charged'[k])
  <2>1. Exact(ledger[w], k, IF Paying(k) THEN {job[k].cost} ELSE {}, charged[k])
    BY <1>1, <1>2
  <2>2. CASE k # j
    <3>1. PICK due, owed : due = (IF Paying(k) THEN {job[k].cost} ELSE {}) /\ owed = charged[k]
      OBVIOUS
    <3>2. (IF Paying(k)' THEN {job'[k].cost} ELSE {}) = due /\ charged'[k] = owed
      BY <2>2, <3>1 DEF Paying
    <3>3. Exact(ledger'[w], k, due, owed)
      <4>1. Exact(ledger[w], k, due, owed)
        BY <2>1, <3>1
      <4>2. PICK r : r = Row(j, c, "committed", now)
        OBVIOUS
      <4>3. r \in Rows /\ r.job = j
        BY <1>1, <4>2 DEF Row, Rows
      <4>4. Exact(Append(ledger[w], r), k, due, owed)
        BY <1>1, <2>2, <4>1, <4>3, AppendOther
      <4>5. QED
        BY <1>1, <4>1, <4>2, <4>4
    <3>4. QED
      BY <3>2, <3>3
  <2>3. CASE k = j
    <3>1. ledger'[w] = Append(ledger[w], Row(j, c, "committed", now))
      BY <1>1, <2>3
    <3>2. Exact(ledger[w], j, {}, charged[j])
      BY <2>1, <2>3
    <3>3. Exact(Append(ledger[w], Row(j, c, "committed", now)), j, {c}, charged[j])
      BY <1>1, <3>2, CommitExact
    <3>4. (IF Paying(j)' THEN {job'[j].cost} ELSE {}) = {c}
      BY <1>1 DEF Paying
    <3>5. QED
      BY <2>3, <3>1, <3>3, <3>4
  <2>4. QED
    BY <2>2, <2>3
<1>4. QED
  BY <1>3, ExactNext

\* A settled one: its row is what it cost, and nothing is due any more.
LEMMA SettledExact ==
  ASSUME LedgerOK, LedgerExact, NEW j \in Jobs, NEW a \in Nat, NEW ws, NEW after,
         Settle(j, a, ws), Billed(j, ws, after), charged' = [charged EXCEPT ![j] = @ + a],
         \A k \in Jobs \ {j} : job'[k] = job[k],
         Paying(j), job'[j].state \notin Occupying
  PROVE  LedgerExact'
<1>1. /\ \A w \in Windows : /\ w \in ws => ledger'[w] = Realized(ledger[w], j, a, now)
                            /\ w \notin ws => ledger'[w] = ledger[w]
      /\ torn \subseteq torn' /\ (ws = Windows \/ j \in torn')
      /\ now \in Nat
      /\ \A w \in Windows : ledger[w] \in Seq(Rows)
  BY SettleLedger, BilledEffect DEF LedgerOK
<1>2. \A k \in Jobs \ torn, w \in Windows :
         Exact(ledger[w], k, IF Paying(k) THEN {job[k].cost} ELSE {}, charged[k])
  BY ExactNow
<1>3. ASSUME NEW k \in Jobs \ torn', NEW w \in Windows
      PROVE  Exact(ledger'[w], k, IF Paying(k)' THEN {job'[k].cost} ELSE {}, charged'[k])
  <2>1. Exact(ledger[w], k, IF Paying(k) THEN {job[k].cost} ELSE {}, charged[k])
    BY <1>1, <1>2
  <2>2. CASE k # j
    <3>1. PICK due, owed : due = (IF Paying(k) THEN {job[k].cost} ELSE {}) /\ owed = charged[k]
      OBVIOUS
    <3>2. (IF Paying(k)' THEN {job'[k].cost} ELSE {}) = due /\ charged'[k] = owed
      <4>1. charged'[k] = owed
        BY <2>2, <3>1 DEF LedgerOK
      <4>2. QED
        BY <2>2, <3>1, <4>1 DEF Paying
    <3>3. Exact(ledger'[w], k, due, owed)
      <4>1. Exact(ledger[w], k, due, owed)
        BY <2>1, <3>1
      <4>2. PICK new : new = Realized(ledger[w], j, a, now)
        OBVIOUS
      <4>3. Exact(new, k, due, owed)
        BY <1>1, <2>2, <4>1, <4>2, RealizedOther
      <4>4. QED
        BY <1>1, <4>1, <4>2, <4>3
    <3>4. QED
      BY <3>2, <3>3
  <2>3. CASE k = j
    <3>1. ledger'[w] = Realized(ledger[w], j, a, now)
      BY <1>1, <2>3
    <3>2. Exact(ledger[w], j, {job[j].cost}, charged[j])
      BY <2>1, <2>3
    <3>3. Exact(Realized(ledger[w], j, a, now), j, {}, charged[j] + a)
      BY <1>1, <3>2, SettleExact
    <3>4. (IF Paying(j)' THEN {job'[j].cost} ELSE {}) = {} /\ charged'[j] = charged[j] + a
      BY DEF Paying, LedgerOK
    <3>5. QED
      BY <2>3, <3>1, <3>3, <3>4
  <2>4. QED
    BY <2>2, <2>3
<1>4. QED
  BY <1>3, ExactNext

\* A job that ends, or is given back, is billed if it paid.
LEMMA BillingKinds ==
  ASSUME JobsOK, LedgerOK, NEW j \in Jobs, NEW amount, NEW ws, NEW after, Billing(j, amount, ws, after)
  PROVE  \/ /\ ~Paying(j) /\ job[j].cost = None /\ UNCHANGED <<ledger, crashes, torn, charged>>
            /\ pass' = after
         \/ /\ Paying(j) /\ amount \in Nat /\ amount <= job[j].cost /\ job[j].cost \in Nat
            /\ job[j].cost <= Dearest
            /\ Settle(j, amount, ws) /\ Billed(j, ws, after)
            /\ charged' = [charged EXCEPT ![j] = @ + amount]
<1>1. /\ job[j].state \in Pending \cup Occupying /\ Sound(job[j])
      /\ job[j].cost \in Nat \cup {None} /\ charged \in [Jobs -> Nat] /\ None \notin Nat
  <2>1. Sound(job[j]) /\ job[j] \in JobRecord
    BY DEF JobsOK, Sound
  <2>2. job[j].cost \in Nat \cup {None}
    BY <2>1 DEF JobRecord
  <2>3. job[j].state \in Pending \cup Occupying /\ charged \in [Jobs -> Nat]
    BY DEF Billing, LedgerOK
  <2>4. None \notin Nat
    BY SchedulerAssumption
  <2>5. QED
    BY <2>1, <2>2, <2>3, <2>4
<1>2. CASE job[j].cost = None
  <2>1. charged' = [charged EXCEPT ![j] = @ + 0]
    BY <1>2 DEF Billing
  <2>2. charged[j] + 0 = charged[j]
    BY <1>1
  <2>3. charged' = charged
    BY <1>1, <2>1, <2>2
  <2>4. UNCHANGED <<ledger, crashes, torn>> /\ pass' = after
    BY <1>2 DEF Billing, Resolve
  <2>5. QED
    BY <1>2, <2>3, <2>4 DEF Paying
<1>3. CASE job[j].cost # None
  <2>1. job[j].state \in Occupying /\ job[j].cost \in Nat /\ job[j].cost <= Dearest
    BY <1>1, <1>3 DEF Sound
  <2>2. Settle(j, amount, ws) /\ Billed(j, ws, after)
    BY <1>3 DEF Billing, Resolve
  <2>3. charged' = [charged EXCEPT ![j] = @ + amount]
    BY <1>3 DEF Billing
  <2>4. amount \in Nat /\ amount <= job[j].cost
    BY <2>1 DEF Billing
  <2>5. QED
    BY <1>3, <2>1, <2>2, <2>3, <2>4 DEF Paying
<1>4. QED
  BY <1>2, <1>3
-----------------------------------------------------------------------------
(* What the decisions of a plan have set aside.                            *)

Reserves(plan) == {i \in DOMAIN plan : plan[i].kind = "reserve"}
ReservedOf(plan) == CostOf(plan, Reserves(plan))

\* Some decision of the plan is to pay.
Pays(plan) == \E n \in DOMAIN plan : plan[n].kind = "reserve" /\ plan[n].cost > 0

\* A plan's costs have a sum, and so have some of them.
LEMMA PlanType ==
  ASSUME NEW plan, plan \in Seq(Decisions)
  PROVE  /\ DOMAIN plan = 1..Len(plan) /\ Len(plan) \in Nat
         /\ \A i \in DOMAIN plan : plan[i] \in Decisions /\ plan[i].cost \in Nat
         /\ \A S \in SUBSET DOMAIN plan : IsFiniteSet(S) /\ CostOf(plan, S) \in Nat
         /\ ReservedOf(plan) \in Nat
<1>1. DOMAIN plan = 1..Len(plan) /\ Len(plan) \in Nat /\ \A i \in DOMAIN plan : plan[i] \in Decisions
  OBVIOUS
<1>2. \A i \in DOMAIN plan : plan[i].cost \in Nat
  BY <1>1 DEF Decisions
<1>3. IsFiniteSet(DOMAIN plan)
  BY <1>1, FS_Interval
<1>4. ASSUME NEW S \in SUBSET DOMAIN plan PROVE IsFiniteSet(S) /\ CostOf(plan, S) \in Nat
  <2>1. IsFiniteSet(S)
    BY <1>3, FS_Subset
  <2>2. QED
    BY <1>2, <2>1, CostsSplit
<1>5. Reserves(plan) \in SUBSET DOMAIN plan
  BY DEF Reserves
<1>6. QED
  BY <1>1, <1>2, <1>4, <1>5 DEF ReservedOf

\* Without a Reserve nothing is set aside.
LEMMA NoneReserved ==
  ASSUME NEW plan, plan \in Seq(Decisions), \A n \in DOMAIN plan : plan[n].kind # "reserve"
  PROVE  ReservedOf(plan) = 0 /\ ~Pays(plan)
<1>1. Reserves(plan) = {}
  BY DEF Reserves
<1>2. IsFiniteSet({}) /\ {} \subseteq DOMAIN plan /\ \A i \in {} : plan[i].cost \in Nat
  BY FS_EmptySet
<1>3. CostOf(plan, {}) = 0
  BY <1>2, CostsSplit
<1>4. QED
  BY <1>1, <1>3 DEF ReservedOf, Pays

\* One more Reserve sets aside its cost.
LEMMA AppendReserved ==
  ASSUME NEW plan, plan \in Seq(Decisions), NEW d \in Decisions, d.kind = "reserve"
  PROVE  /\ ReservedOf(Append(plan, d)) = ReservedOf(plan) + d.cost
         /\ Pays(Append(plan, d)) => Pays(plan) \/ d.cost > 0
<1>1. PICK new, n : new = Append(plan, d) /\ n = Len(plan) + 1
  OBVIOUS
<1>2. /\ new \in Seq(Decisions) /\ DOMAIN new = DOMAIN plan \cup {n}
      /\ n \notin DOMAIN plan /\ new[n] = d
      /\ \A i \in DOMAIN plan : new[i] = plan[i]
  <2>1. /\ new \in Seq(Decisions) /\ DOMAIN new = 1..n /\ DOMAIN plan = 1..Len(plan) /\ Len(plan) \in Nat
    BY <1>1
  <2>2. new[n] = d /\ \A i \in DOMAIN plan : new[i] = plan[i]
    BY <1>1
  <2>3. QED
    BY <1>1, <2>1, <2>2
<1>3. PICK S, R : S = Reserves(plan) /\ R = S \cup {n}
  OBVIOUS
<1>4. Reserves(new) = R /\ S \subseteq DOMAIN plan /\ R \ {n} = S /\ n \in R /\ R \subseteq DOMAIN new
  BY <1>2, <1>3 DEF Reserves
<1>5. Pays(new) => Pays(plan) \/ d.cost > 0
  BY <1>2 DEF Pays
<1>6. /\ IsFiniteSet(S) /\ IsFiniteSet(R) /\ CostOf(plan, S) \in Nat /\ S \subseteq DOMAIN new
      /\ \A i \in S : plan[i].cost \in Nat /\ new[i].cost = plan[i].cost
      /\ \A i \in R : new[i].cost \in Nat
  <2>1. S \in SUBSET DOMAIN plan /\ R \in SUBSET DOMAIN new
    BY <1>4
  <2>2. /\ IsFiniteSet(S) /\ CostOf(plan, S) \in Nat
        /\ \A i \in DOMAIN plan : plan[i].cost \in Nat
    BY <2>1, PlanType
  <2>3. IsFiniteSet(R) /\ \A i \in DOMAIN new : new[i].cost \in Nat
    BY <1>2, <2>1, PlanType
  <2>4. QED
    BY <1>2, <1>4, <2>2, <2>3
<1>7. CostOf(new, S) = CostOf(plan, S)
  BY <1>4, <1>6, CostsAgree
<1>8. CostOf(new, R) = new[n].cost + CostOf(new, R \ {n})
  BY <1>4, <1>6, CostsSplit
<1>9. CostOf(new, R) = CostOf(plan, S) + d.cost
  <2>1. CostOf(new, R) = d.cost + CostOf(plan, S) /\ d.cost \in Nat
    BY <1>2, <1>4, <1>6, <1>7, <1>8
  <2>2. QED
    BY <1>6, <2>1
<1>10. ReservedOf(new) = ReservedOf(plan) + d.cost
  BY <1>3, <1>4, <1>9 DEF ReservedOf
<1>11. QED
  BY <1>1, <1>5, <1>10

\* A plan sets aside what its head does, if it is a Reserve, and what the rest does.
LEMMA RestReserved ==
  ASSUME NEW plan, plan \in Seq(Decisions), plan # <<>>,
         NEW rest, rest \in Seq(Decisions),
         \A i \in DOMAIN rest : i + 1 \in DOMAIN plan /\ rest[i] = plan[i + 1],
         \A i \in DOMAIN plan : i > 1 => i - 1 \in DOMAIN rest
  PROVE  /\ ReservedOf(plan) = ReservedOf(rest)
                                 + (IF Head(plan).kind = "reserve" THEN Head(plan).cost ELSE 0)
         /\ Pays(rest) => Pays(plan)
<1>1. /\ DOMAIN plan = 1..Len(plan) /\ Len(plan) \in Nat /\ 1 \in DOMAIN plan /\ Head(plan) = plan[1]
      /\ DOMAIN rest = 1..Len(rest) /\ Len(rest) \in Nat
  OBVIOUS
<1>2. Pays(rest) => Pays(plan)
  BY DEF Pays
<1>3. PICK R, S, T : S = Reserves(plan) /\ T = Reserves(rest) /\ R = {i + 1 : i \in T}
  OBVIOUS
<1>4. T \subseteq DOMAIN rest /\ T \subseteq Int /\ R \subseteq DOMAIN plan /\ 1 \notin R
  <2>1. T \subseteq DOMAIN rest
    BY <1>3 DEF Reserves
  <2>2. \A i \in T : i \in Nat /\ i >= 1 /\ i + 1 \in DOMAIN plan
    BY <1>1, <2>1
  <2>3. QED
    BY <1>3, <2>1, <2>2
<1>5. S = R \cup (IF plan[1].kind = "reserve" THEN {1} ELSE {})
  <2>1. ASSUME NEW i \in S PROVE i \in R \/ (i = 1 /\ plan[1].kind = "reserve")
    <3>1. i \in DOMAIN plan /\ plan[i].kind = "reserve" /\ i \in Nat /\ i >= 1
      BY <1>1, <1>3, <2>1 DEF Reserves
    <3>2. CASE i > 1
      <4>1. PICK m \in DOMAIN rest : m = i - 1
        BY <3>1, <3>2
      <4>2. m + 1 = i
        BY <3>1, <4>1
      <4>3. m \in T
        BY <1>3, <3>1, <4>2 DEF Reserves
      <4>4. QED
        BY <1>3, <4>2, <4>3
    <3>3. QED
      BY <3>1, <3>2
  <2>2. ASSUME NEW i \in R PROVE i \in S
    <3>1. PICK m \in T : i = m + 1
      BY <1>3, <2>2
    <3>2. m \in DOMAIN rest /\ rest[m].kind = "reserve"
      BY <1>3, <3>1 DEF Reserves
    <3>3. QED
      BY <1>3, <3>1, <3>2 DEF Reserves
  <2>3. plan[1].kind = "reserve" => 1 \in S
    BY <1>1, <1>3 DEF Reserves
  <2>4. \A x : x \in S <=> x \in R \cup (IF plan[1].kind = "reserve" THEN {1} ELSE {})
    BY <2>1, <2>2, <2>3
  <2>5. QED
    BY <2>4
<1>6. /\ IsFiniteSet(S) /\ IsFiniteSet(T) /\ IsFiniteSet(R)
      /\ CostOf(plan, R) \in Nat /\ CostOf(plan, S) \in Nat /\ CostOf(rest, T) \in Nat
      /\ \A i \in S : plan[i].cost \in Nat
      /\ \A i \in T : rest[i].cost \in Nat
      /\ S \subseteq DOMAIN plan
  <2>1. S \in SUBSET DOMAIN plan /\ R \in SUBSET DOMAIN plan /\ T \in SUBSET DOMAIN rest
    BY <1>3, <1>4 DEF Reserves
  <2>2. /\ \A i \in DOMAIN plan : plan[i].cost \in Nat
        /\ \A Z \in SUBSET DOMAIN plan : IsFiniteSet(Z) /\ CostOf(plan, Z) \in Nat
    BY PlanType
  <2>3. /\ \A i \in DOMAIN rest : rest[i].cost \in Nat
        /\ \A Z \in SUBSET DOMAIN rest : IsFiniteSet(Z) /\ CostOf(rest, Z) \in Nat
    BY PlanType
  <2>4. QED
    BY <2>1, <2>2, <2>3
<1>7. CostOf(plan, R) = CostOf(rest, T)
  <2>1. \A i \in T : i + 1 \in DOMAIN plan /\ rest[i].cost \in Nat /\ plan[i + 1].cost = rest[i].cost
    BY <1>4, <1>6
  <2>2. CostOf(plan, {i + 1 : i \in T}) = CostOf(rest, T)
    BY <1>4, <1>6, <2>1, CostsShift, ZenonT(40)
  <2>3. QED
    BY <1>3, <2>2
<1>8. CASE plan[1].kind = "reserve"
  <2>1. 1 \in S /\ S \ {1} = R
    BY <1>4, <1>5, <1>8
  <2>2. CostOf(plan, S) = plan[1].cost + CostOf(plan, S \ {1})
    <3>1. \A i \in S : CostOf(plan, S) = plan[i].cost + CostOf(plan, S \ {i})
      BY <1>6, CostsSplit, ZenonT(40)
    <3>2. QED
      BY <2>1, <3>1
  <2>3. plan[1].cost \in Nat
    BY <1>6, <2>1
  <2>4. CostOf(plan, S) = plan[1].cost + CostOf(rest, T)
    BY <1>7, <2>1, <2>2
  <2>5. CostOf(plan, S) = CostOf(rest, T) + plan[1].cost
    BY <1>6, <2>3, <2>4
  <2>6. QED
    BY <1>1, <1>2, <1>3, <1>8, <2>5 DEF ReservedOf
<1>9. CASE plan[1].kind # "reserve"
  <2>1. S = R
    BY <1>5, <1>9
  <2>2. CostOf(plan, S) = CostOf(rest, T) + 0
    BY <1>6, <1>7, <2>1
  <2>3. QED
    BY <1>1, <1>2, <1>3, <1>9, <2>2 DEF ReservedOf
<1>10. QED
  BY <1>8, <1>9

\* The same, of the plan of the pass: with the decisions left after the head.
LEMMA RestOfPlan ==
  ASSUME PassOK, pass.phase = "enact"
  PROVE  /\ ReservedOf(Rest.plan) \in Nat /\ ReservedOf(pass.plan) \in Nat
         /\ ReservedOf(pass.plan) = ReservedOf(Rest.plan)
              + (IF Head(pass.plan).kind = "reserve" THEN Head(pass.plan).cost ELSE 0)
         /\ Pays(Rest.plan) => Pays(pass.plan)
         /\ Head(pass.plan).cost \in Nat
<1>1. pass.plan \in Seq(Decisions) /\ pass.plan # <<>>
  BY DEF PassOK, Passes
<1>2. Rest.plan \in Seq(Decisions)
  <2>1. CASE Rest = Idle
    BY <2>1 DEF Idle
  <2>2. CASE Rest \in Passes
    BY <2>2 DEF Passes
  <2>3. QED
    BY <2>1, <2>2, RestPass
<1>3. /\ \A i \in DOMAIN Rest.plan : i + 1 \in DOMAIN pass.plan /\ Rest.plan[i] = pass.plan[i + 1]
      /\ \A i \in DOMAIN pass.plan : i > 1 => i - 1 \in DOMAIN Rest.plan
  BY RestPlan
<1>4. PICK plan, rest : plan = pass.plan /\ rest = Rest.plan
  OBVIOUS
<1>5. ReservedOf(rest) \in Nat /\ ReservedOf(plan) \in Nat
  BY <1>1, <1>2, <1>4, PlanType
<1>6. /\ ReservedOf(plan) = ReservedOf(rest) + (IF Head(plan).kind = "reserve" THEN Head(plan).cost ELSE 0)
      /\ Pays(rest) => Pays(plan)
  BY <1>1, <1>2, <1>3, <1>4, RestReserved
<1>7. Head(pass.plan).cost \in Nat
  BY HeadType DEF Decisions
<1>8. QED
  BY <1>4, <1>5, <1>6, <1>7

\* What is set aside now, and after a step.
LEMMA ReservedNow == Reserved = ReservedOf(pass.plan) /\ Reserved' = ReservedOf(pass'.plan)
BY DEF Reserved, ReservedOf, Reserves

\* The total of a window is read from its rows, before the step and after.
LEMMA TotalNow ==
  \A w : /\ Total(w, now) = TotalOf(ledger[w], w, now)
         /\ Total(w, now)' = TotalOf(ledger'[w], w, now')
BY DEF Total, TotalOf, InWindow
-----------------------------------------------------------------------------
(* The money, step by step.                                                *)

\* Totals and ceilings are numbers.
LEMMA MoneyType ==
  ASSUME LedgerOK, NEW w \in Windows
  PROVE  /\ TotalOf(ledger[w], w, now) \in Nat
         /\ Cap[w] # None => Cap[w] \in Nat
         /\ ledger[w] \in Seq(Rows) /\ now \in Nat
<1>1. ledger[w] \in Seq(Rows) /\ now \in Nat
  BY DEF LedgerOK
<1>2. TotalOf(ledger[w], w, now) \in Nat
  BY <1>1, TotalType
<1>3. QED
  BY <1>1, <1>2, SchedulerAssumption

\* A job whose bill is cut short is counted with the crash that did it.
LEMMA TornCounted ==
  ASSUME LedgerOK, Cardinality(torn) <= crashes, NEW j \in Jobs,
         \/ torn' = torn /\ crashes' = crashes
         \/ torn' = torn \cup {j} /\ crashes' = crashes + 1
  PROVE  Cardinality(torn') <= crashes'
<1>1. IsFiniteSet(torn) /\ crashes \in Nat
  BY JobsFinite, FS_Subset DEF LedgerOK
<1>2. Cardinality(torn) \in Nat
  BY <1>1, FS_CardinalityType
<1>3. CASE torn' = torn /\ crashes' = crashes
  BY <1>3
<1>4. CASE torn' = torn \cup {j} /\ crashes' = crashes + 1
  <2>1. Cardinality(torn \cup {j}) = Cardinality(torn) \/ Cardinality(torn \cup {j}) = Cardinality(torn) + 1
    BY <1>1, FS_AddElement
  <2>2. QED
    BY <1>1, <1>2, <1>4, <2>1
<1>5. QED
  BY <1>3, <1>4

\* The jobs that a crash cut short may be counted.
LEMMA OverrunFinite ==
  ASSUME torn \subseteq Jobs, torn' \subseteq Jobs
  PROVE  /\ IsFiniteSet(Overrun) /\ Cardinality(Overrun) \in Nat
         /\ IsFiniteSet(Overrun') /\ Cardinality(Overrun') \in Nat
         /\ Overrun \subseteq Overrun' => Cardinality(Overrun) <= Cardinality(Overrun')
         /\ \A j : j \notin Overrun /\ Overrun \cup {j} \subseteq Overrun'
                     => Cardinality(Overrun) + 1 <= Cardinality(Overrun')
<1>1. PICK A, B : A = Overrun /\ B = Overrun'
  OBVIOUS
<1>2. A \subseteq Jobs /\ B \subseteq Jobs
  BY <1>1 DEF Overrun
<1>3. IsFiniteSet(A) /\ IsFiniteSet(B)
  BY <1>2, JobsFinite, FS_Subset
<1>4. Cardinality(A) \in Nat /\ Cardinality(B) \in Nat
  BY <1>3, FS_CardinalityType
<1>5. A \subseteq B => Cardinality(A) <= Cardinality(B)
  BY <1>3, FS_Subset
<1>6. ASSUME NEW j, j \notin A, A \cup {j} \subseteq B PROVE Cardinality(A) + 1 <= Cardinality(B)
  <2>1. IsFiniteSet(A \cup {j}) /\ Cardinality(A \cup {j}) = Cardinality(A) + 1
    BY <1>3, <1>6, FS_AddElement
  <2>2. Cardinality(A \cup {j}) <= Cardinality(B)
    BY <1>3, <1>6, FS_Subset
  <2>3. QED
    BY <2>1, <2>2
<1>7. QED
  BY <1>1, <1>3, <1>4, <1>5, <1>6

\* More cut short, more that may be overrun.
LEMMA SlackGrows ==
  ASSUME NEW a \in Nat, NEW b \in Nat, a <= b
  PROVE  /\ a * Dearest \in Nat /\ b * Dearest \in Nat /\ a * Dearest <= b * Dearest
         /\ a + 1 <= b => a * Dearest + Dearest <= b * Dearest
<1>1. PICK d \in Nat : d = Dearest
  BY DearestBound
<1>2. a * d \in Nat /\ b * d \in Nat /\ (b - a) * d \in Nat /\ b * d = a * d + (b - a) * d
  OBVIOUS
<1>3. ASSUME a + 1 <= b PROVE a * d + d <= b * d
  <2>1. PICK e \in Nat : b = a + 1 + e
    <3>1. b - a - 1 \in Nat /\ b = a + 1 + (b - a - 1)
      BY <1>3
    <3>2. QED
      BY <3>1
  <2>2. b * d = a * d + d + e * d /\ e * d \in Nat
    BY <2>1
  <2>3. QED
    BY <1>2, <2>2
<1>4. QED
  BY <1>1, <1>2, <1>3

\* A step that adds nothing to what is spent and set aside.
LEMMA MoneyKept ==
  ASSUME LedgerOK, MoneyOK, Cardinality(torn') <= crashes', torn' \subseteq Jobs,
         Overrun \subseteq Overrun', Pays(pass'.plan) => Pays(pass.plan),
         ReservedOf(pass.plan) \in Nat, ReservedOf(pass'.plan) \in Nat,
         \A w \in Windows :
           /\ TotalOf(ledger'[w], w, now') \in Nat
           /\ TotalOf(ledger'[w], w, now') + ReservedOf(pass'.plan)
                <= TotalOf(ledger[w], w, now) + ReservedOf(pass.plan)
  PROVE  MoneyOK'
<1>1. torn \subseteq Jobs
  BY DEF LedgerOK
<1>2. PICK a \in Nat, b \in Nat : a = Cardinality(Overrun) /\ b = Cardinality(Overrun') /\ a <= b
  BY <1>1, OverrunFinite
<1>3. a * Dearest \in Nat /\ b * Dearest \in Nat /\ a * Dearest <= b * Dearest
  BY <1>2, SlackGrows
<1>4. ASSUME NEW w \in Windows, Cap[w] # None
      PROVE  /\ Total(w, now)' + Reserved' <= Cap[w] + b * Dearest
             /\ Pays(pass'.plan) => Total(w, now)' + Reserved' <= Cap[w]
  <2>1. /\ Total(w, now)' + Reserved' <= Total(w, now) + Reserved
        /\ Total(w, now)' \in Nat /\ Reserved' \in Nat /\ Total(w, now) \in Nat /\ Reserved \in Nat
        /\ Cap[w] \in Nat
    BY <1>4, ReservedNow, TotalNow, MoneyType
  <2>2. /\ Total(w, now) + Reserved <= Cap[w] + a * Dearest
        /\ Pays(pass.plan) => Total(w, now) + Reserved <= Cap[w]
    BY <1>2, <1>4 DEF MoneyOK, Pays
  <2>3. Total(w, now)' + Reserved' <= Cap[w] + b * Dearest
    BY <1>3, <2>1, <2>2
  <2>4. QED
    BY <2>1, <2>2, <2>3
<1>5. QED
  BY <1>2, <1>4 DEF MoneyOK, Pays

\* A step after which all of it is under the ceilings.
LEMMA MoneyCapped ==
  ASSUME Cardinality(torn') <= crashes', torn' \subseteq Jobs, LedgerOK,
         ReservedOf(pass'.plan) \in Nat,
         \A w \in Windows : Cap[w] # None =>
           /\ TotalOf(ledger'[w], w, now') \in Nat
           /\ TotalOf(ledger'[w], w, now') + ReservedOf(pass'.plan) <= Cap[w]
  PROVE  MoneyOK'
<1>1. torn \subseteq Jobs
  BY DEF LedgerOK
<1>2. PICK b \in Nat : b = Cardinality(Overrun')
  BY <1>1, OverrunFinite
<1>3. b * Dearest \in Nat
  BY SlackGrows
<1>4. ASSUME NEW w \in Windows, Cap[w] # None
      PROVE  /\ Total(w, now)' + Reserved' <= Cap[w]
             /\ Total(w, now)' + Reserved' <= Cap[w] + b * Dearest
  <2>1. /\ Total(w, now)' + Reserved' <= Cap[w] /\ Cap[w] \in Nat
        /\ Total(w, now)' \in Nat /\ Reserved' \in Nat
    BY <1>4, ReservedNow, TotalNow, MoneyType
  <2>2. QED
    BY <1>3, <2>1
<1>5. QED
  BY <1>2, <1>4 DEF MoneyOK, Pays

\* Plans of a pass have a sum.
LEMMA ReservedType ==
  ASSUME PassOK
  PROVE  pass.plan \in Seq(Decisions) /\ ReservedOf(pass.plan) \in Nat
BY PlanType DEF PassOK, Passes

\* What the plan reserves is a natural number after the step, too.
LEMMA ReservedTypeNext ==
  ASSUME PassOK'
  PROVE  pass'.plan \in Seq(Decisions) /\ ReservedOf(pass'.plan) \in Nat
<1>1. PICK plan : plan = pass'.plan
  OBVIOUS
<1>2. plan \in Seq(Decisions)
  BY <1>1 DEF PassOK, Passes
<1>3. QED
  BY <1>1, <1>2, PlanType

\* Nothing is set aside between passes.
LEMMA IdleReserved ==
  ASSUME NEW p, p = Idle
  PROVE  ReservedOf(p.plan) = 0 /\ ~Pays(p.plan) /\ p.plan = <<>>
<1>1. p.plan = <<>> /\ <<>> \in Seq(Decisions) /\ DOMAIN <<>> = {}
  BY DEF Idle
<1>2. QED
  BY <1>1, NoneReserved

\* A step that moves no money.
LEMMA QuietMoney ==
  ASSUME LedgerOK, PassOK, PassOK', MoneyOK, UNCHANGED <<ledger, torn, crashes>>,
         \/ now' = now
         \/ now' = now + 1,
         \A k \in Jobs : Paying(k)' <=> Paying(k),
         ReservedOf(pass'.plan) <= ReservedOf(pass.plan), Pays(pass'.plan) => Pays(pass.plan)
  PROVE  MoneyOK'
<1>1. Cardinality(torn') <= crashes' /\ torn' \subseteq Jobs
  BY DEF MoneyOK, LedgerOK
<1>2. Overrun \subseteq Overrun'
  <2>1. \A k : k \in Overrun => k \in Overrun'
    BY DEF Overrun, LedgerOK
  <2>2. QED
    BY <2>1
<1>3. ReservedOf(pass.plan) \in Nat /\ ReservedOf(pass'.plan) \in Nat
  BY ReservedType, ReservedTypeNext
<1>4. ASSUME NEW w \in Windows
      PROVE  /\ TotalOf(ledger'[w], w, now') \in Nat
             /\ TotalOf(ledger'[w], w, now') + ReservedOf(pass'.plan)
                  <= TotalOf(ledger[w], w, now) + ReservedOf(pass.plan)
  <2>1. /\ TotalOf(ledger[w], w, now) \in Nat /\ ledger[w] \in Seq(Rows) /\ now \in Nat
        /\ \A i \in DOMAIN ledger[w] : ledger[w][i].at <= now
    BY MoneyType DEF LedgerOK
  <2>2. TotalOf(ledger[w], w, now') \in Nat /\ TotalOf(ledger[w], w, now') <= TotalOf(ledger[w], w, now)
    <3>1. TotalOf(ledger[w], w, now + 1) \in Nat
      BY <2>1, TotalType
    <3>2. TotalOf(ledger[w], w, now + 1) <= TotalOf(ledger[w], w, now)
      BY <2>1, TickTotal
    <3>3. QED
      BY <2>1, <3>1, <3>2
  <2>3. QED
    BY <1>3, <2>1, <2>2
<1>5. QED
  BY <1>1, <1>2, <1>3, <1>4, MoneyKept

\* A pass begins with nothing set aside.
LEMMA BeginMoney ==
  ASSUME JobsOK, LedgerOK, PassOK, MoneyOK, PassBegin
  PROVE  MoneyOK'
<1>1. /\ UNCHANGED <<job, ledger, now, crashes, torn>> /\ pass = Idle
  BY DEF PassBegin, ghosts, PassOK
<1>2. PassOK' /\ \A n \in DOMAIN pass'.plan : pass'.plan[n].kind # "reserve"
  BY BeginEffect
<1>3. ReservedOf(pass.plan) = 0 /\ ~Pays(pass.plan)
  BY <1>1, IdleReserved
<1>4. ReservedOf(pass'.plan) = 0 /\ ~Pays(pass'.plan)
  <2>1. PICK plan : plan = pass'.plan
    OBVIOUS
  <2>2. plan \in Seq(Decisions)
    BY <1>2, <2>1, ReservedTypeNext
  <2>3. QED
    BY <1>2, <2>1, <2>2, NoneReserved
<1>5. \A k \in Jobs : Paying(k)' <=> Paying(k)
  BY <1>1 DEF Paying
<1>6. QED
  BY <1>1, <1>2, <1>3, <1>4, <1>5, QuietMoney

\* What the match does to the plan.
LEMMA MatchPlan ==
  ASSUME JobsOK, PassOK, LedgerOK, Match
  PROVE  \E j \in pass.todo :
           \/ pass'.plan = pass.plan
           \/ /\ Choice(j) # 0
              /\ pass'.plan = Append(pass.plan, Reserving(j, Choice(j)))
<1>1. PICK j \in pass.todo :
        pass' = Onward(IF Choice(j) = 0 THEN [pass EXCEPT !.todo = @ \ {j}]
                       ELSE [pass EXCEPT !.todo = @ \ {j}, !.room = Taken(Choice(j)),
                                         !.used = @ \cup {pass.slots[Choice(j)].key},
                                         !.plan = Append(@, Reserving(j, Choice(j)))])
  BY MatchFirst
<1>2. PICK i, room, used, todo, plan :
        /\ i = Choice(j) /\ room = Taken(i) /\ used = pass.used \cup {pass.slots[i].key}
        /\ todo = pass.todo \ {j} /\ plan = Append(pass.plan, Reserving(j, i))
  OBVIOUS
<1>3. pass \in Passes
  BY DEF PassOK
<1>4. CASE i = 0
  <2>1. PICK p : p = [pass EXCEPT !.todo = todo]
    OBVIOUS
  <2>2. pass' = Onward(p) /\ p.plan = pass.plan /\ [p EXCEPT !.phase = "enact"].plan = p.plan
    BY <1>1, <1>2, <1>3, <1>4, <2>1 DEF Passes
  <2>3. pass'.plan = pass.plan
    BY <2>2 DEF Onward, Idle
  <2>4. QED
    BY <2>3
<1>5. CASE i # 0
  <2>1. PICK p : p = [pass EXCEPT !.todo = todo, !.room = room, !.used = used, !.plan = plan]
    OBVIOUS
  <2>2. pass' = Onward(p) /\ p.plan = plan /\ [p EXCEPT !.phase = "enact"].plan = p.plan
    BY <1>1, <1>2, <1>3, <1>5, <2>1 DEF Passes
  <2>3. pass'.plan = plan
    BY <2>2 DEF Onward, Idle
  <2>4. QED
    BY <1>2, <1>5, <2>3
<1>6. QED
  BY <1>4, <1>5

\* The match sets aside no more than the ceilings leave.
LEMMA MatchMoney ==
  ASSUME JobsOK, LedgerOK, PassOK, PassOK', MoneyOK, Match
  PROVE  MoneyOK'
<1>1. /\ UNCHANGED <<job, ledger, now, crashes, torn>> /\ pass.at = now /\ pass.phase = "match"
      /\ pass.todo \subseteq Jobs
  BY DEF Match, ghosts, PassOK, Passes
<1>2. \A k \in Jobs : Paying(k)' <=> Paying(k)
  BY <1>1 DEF Paying
<1>3. PICK j \in pass.todo :
        \/ pass'.plan = pass.plan
        \/ Choice(j) # 0 /\ pass'.plan = Append(pass.plan, Reserving(j, Choice(j)))
  BY MatchPlan
<1>4. ReservedOf(pass.plan) \in Nat /\ pass.plan \in Seq(Decisions)
  BY ReservedType
<1>5. CASE pass'.plan = pass.plan
  BY <1>1, <1>2, <1>4, <1>5, QuietMoney
<1>6. CASE Choice(j) # 0 /\ pass'.plan = Append(pass.plan, Reserving(j, Choice(j)))
  <2>1. PICK i, d : i = Choice(j) /\ d = Reserving(j, i)
    OBVIOUS
  <2>2. /\ i \in Fitting(j)
        /\ IsFree(pass.slots[i]) \/ i \in Affordable(j) \/ i \in Unpriced(j)
    BY <1>1, <1>6, <2>1, ChoiceCorrect
  <2>3. i \in DOMAIN pass.slots /\ j \in Jobs
    BY <1>1, <2>2 DEF Fitting
  <2>4. d \in Decisions /\ d.kind = "reserve" /\ d.cost \in Nat /\ (IsFree(pass.slots[i]) => d.cost = 0)
    BY <1>1, <2>1, <2>3, ReservingType
  <2>5. /\ ReservedOf(pass'.plan) = ReservedOf(pass.plan) + d.cost
        /\ Pays(pass'.plan) => Pays(pass.plan) \/ d.cost > 0
    BY <1>4, <1>6, <2>1, <2>4, AppendReserved
  <2>6. CASE d.cost = 0
    BY <1>1, <1>2, <1>4, <2>5, <2>6, QuietMoney
  <2>7. CASE d.cost > 0
    <3>1. Price(pass.slots[i], j) # None /\ d.cost = Price(pass.slots[i], j)
      <4>1. d.cost = IF Price(pass.slots[i], j) = None THEN 0 ELSE Price(pass.slots[i], j)
        BY <2>1 DEF Reserving
      <4>2. QED
        BY <2>7, <4>1
    <3>2. i \in Affordable(j)
      BY <2>2, <2>4, <2>7, <3>1 DEF Unpriced
    <3>3. CanAfford(d.cost, now)
      BY <1>1, <3>1, <3>2 DEF Affordable
    <3>4. ASSUME NEW w \in Windows, Cap[w] # None
          PROVE  /\ TotalOf(ledger'[w], w, now') \in Nat
                 /\ TotalOf(ledger'[w], w, now') + ReservedOf(pass'.plan) <= Cap[w]
      <4>1. TotalOf(ledger[w], w, now) + ReservedOf(pass.plan) + d.cost <= Cap[w]
        BY <3>3, <3>4, ReservedNow, TotalNow DEF CanAfford
      <4>2. TotalOf(ledger[w], w, now) \in Nat /\ Cap[w] \in Nat
        BY <3>4, MoneyType
      <4>3. TotalOf(ledger'[w], w, now') = TotalOf(ledger[w], w, now)
        BY <1>1
      <4>4. QED
        BY <1>4, <2>4, <2>5, <4>1, <4>2, <4>3
    <3>5. Cardinality(torn') <= crashes' /\ torn' \subseteq Jobs
      BY <1>1 DEF MoneyOK, LedgerOK
    <3>6. ReservedOf(pass'.plan) \in Nat
      BY ReservedTypeNext
    <3>7. QED
      BY <3>4, <3>5, <3>6, MoneyCapped
  <2>8. QED
    BY <2>4, <2>6, <2>7
<1>7. QED
  BY <1>3, <1>5, <1>6
-----------------------------------------------------------------------------
(* A placement, and a bill.                                                *)

\* What the enactment of a Reserve does to its job and to the ledger.
Placement(j, c, ws) ==
    /\ Touches(j) /\ job[j].state \in Pending /\ job[j].cost = None
    /\ job'[j].state = "PLACING" /\ job'[j].cost = (IF c > 0 THEN c ELSE None)
    /\ \/ c = 0 /\ UNCHANGED <<ledger, crashes, torn>> /\ pass' = Rest
       \/ c > 0 /\ Commit(j, c, ws) /\ Billed(j, ws, Rest)
    /\ now' = now /\ charged' = charged /\ retried' = retried

\* A Reserve that is enacted begins a placement, at the price of its decision.
LEMMA PlacementBegins ==
  ASSUME JobsOK, PassOK, PlanOK, NEW ws, EnactReserve(ws)
  PROVE  /\ Placement(Head(pass.plan).job, Head(pass.plan).cost, ws)
         /\ pass.phase = "enact" /\ Head(pass.plan).kind = "reserve"
         /\ Backed(1) /\ JobsOK'
         /\ job'[Head(pass.plan).job].prov = Head(pass.plan).prov
<1>1. pass.phase = "enact" /\ Head(pass.plan).kind = "reserve"
  BY DEF EnactReserve, Enacting
<1>2. Backed(1)
  BY <1>1, HeadType DEF PlanOK
<1>3. PICK d : d = Head(pass.plan)
  OBVIOUS
<1>4. /\ Moves(d.job, "PLACING") /\ job[d.job].state \in Pending /\ job[d.job].cost = None
      /\ job'[d.job].prov = d.prov
      /\ job'[d.job].cost = IF d.cost > 0 THEN d.cost ELSE None
  BY <1>2, <1>3, ReserveEffect
<1>5. JobsOK'
  BY <1>4, MovesKeep
<1>6. /\ \/ d.cost = 0 /\ UNCHANGED <<ledger, crashes, torn>> /\ pass' = Rest
         \/ d.cost > 0 /\ Commit(d.job, d.cost, ws) /\ Billed(d.job, ws, Rest)
      /\ now' = now /\ charged' = charged /\ retried' = retried
  BY <1>3 DEF EnactReserve
<1>7. Placement(d.job, d.cost, ws)
  BY <1>4, <1>6 DEF Placement, Moves
<1>8. QED
  BY <1>1, <1>2, <1>3, <1>4, <1>5, <1>7

\* The ledger after it.
LEMMA ReserveLedger ==
  ASSUME JobsOK, LedgerOK, LedgerExact, NEW j \in Jobs, NEW c \in Nat, NEW ws, Placement(j, c, ws)
  PROVE  LedgerExact'
<1>1. ~Paying(j)
  BY DEF Placement, Paying
<1>2. \A k \in Jobs \ {j} : job'[k] = job[k]
  BY DEF Placement, Touches
<1>3. CASE c = 0
  <2>1. UNCHANGED <<ledger, torn, charged>> /\ job'[j].cost = None
    BY <1>3 DEF Placement
  <2>2. \A k \in Jobs : (Paying(k)' <=> Paying(k)) /\ (Paying(k) => job'[k].cost = job[k].cost)
    BY <1>1, <1>2, <2>1 DEF Paying
  <2>3. QED
    BY <2>1, <2>2, ExactKept
<1>4. CASE c > 0
  <2>1. /\ Commit(j, c, ws) /\ Billed(j, ws, Rest) /\ charged' = charged
        /\ job'[j].state \in Occupying /\ job'[j].cost = c
    BY <1>4 DEF Placement, Occupying
  <2>2. QED
    BY <1>1, <1>2, <2>1, ReservedExact
<1>5. QED
  BY <1>3, <1>4

\* It stays under the ceilings: the price was set aside when it was decided.
LEMMA ReserveMoney ==
  ASSUME JobsOK, PassOK, PassOK', PlanOK, LedgerOK, MoneyOK, NEW ws, EnactReserve(ws)
  PROVE  MoneyOK'
<1>1. PICK j, c : j = Head(pass.plan).job /\ c = Head(pass.plan).cost
  OBVIOUS
<1>2. /\ Placement(j, c, ws) /\ pass.phase = "enact" /\ Head(pass.plan).kind = "reserve"
  BY <1>1, PlacementBegins
<1>3. /\ ReservedOf(Rest.plan) \in Nat /\ ReservedOf(pass.plan) \in Nat /\ c \in Nat
      /\ ReservedOf(pass.plan) = ReservedOf(Rest.plan) + c
      /\ Pays(Rest.plan) => Pays(pass.plan)
      /\ j \in Jobs
  <2>1. pass.phase = "enact" /\ Head(pass.plan).kind = "reserve"
    BY <1>2
  <2>2. QED
    BY <1>1, <2>1, RestOfPlan, HeadType
<1>4. CASE c = 0
  <2>1. UNCHANGED <<ledger, torn, crashes>> /\ now' = now /\ pass' = Rest
    BY <1>2, <1>4 DEF Placement
  <2>2. \A k \in Jobs : Paying(k)' <=> Paying(k)
    BY <1>2, <1>4 DEF Placement, Touches, Paying
  <2>3. ReservedOf(pass'.plan) <= ReservedOf(pass.plan) /\ (Pays(pass'.plan) => Pays(pass.plan))
    BY <1>3, <1>4, <2>1
  <2>4. QED
    BY <2>1, <2>2, <2>3, QuietMoney
<1>5. CASE c > 0
  <2>1. Commit(j, c, ws) /\ Billed(j, ws, Rest) /\ now' = now
    BY <1>2, <1>5 DEF Placement
  <2>2. /\ torn' \subseteq Jobs /\ crashes' \in Nat
        /\ \/ pass' = Rest /\ crashes' = crashes /\ torn' = torn
           \/ pass' = Idle /\ crashes' = crashes + 1 /\ torn' = torn \cup {j}
    BY <1>3, <2>1, BilledEffect
  <2>3. Cardinality(torn') <= crashes'
    BY <1>3, <2>2, TornCounted DEF MoneyOK
  <2>4. Pays(pass.plan)
    BY <1>1, <1>2, <1>5, HeadType DEF Pays
  <2>5. ReservedOf(pass'.plan) \in Nat /\ ReservedOf(pass'.plan) + c <= ReservedOf(pass.plan)
    <3>1. CASE pass' = Rest
      BY <1>3, <3>1
    <3>2. CASE pass' = Idle
      BY <1>3, <3>2, IdleReserved
    <3>3. QED
      BY <2>2, <3>1, <3>2
  <2>6. ASSUME NEW w \in Windows, Cap[w] # None
        PROVE  /\ TotalOf(ledger'[w], w, now') \in Nat
               /\ TotalOf(ledger'[w], w, now') + ReservedOf(pass'.plan) <= Cap[w]
    <3>1. /\ TotalOf(ledger[w], w, now) \in Nat /\ Cap[w] \in Nat /\ ledger[w] \in Seq(Rows)
          /\ now \in Nat
      BY <2>6, MoneyType
    <3>2. TotalOf(ledger[w], w, now) + ReservedOf(pass.plan) <= Cap[w]
      BY <2>4, <2>6, ReservedNow, TotalNow DEF MoneyOK, Pays
    <3>3. /\ TotalOf(ledger'[w], w, now) \in Nat
          /\ TotalOf(ledger'[w], w, now) <= TotalOf(ledger[w], w, now) + c
      <4>1. CASE ledger'[w] = ledger[w]
        BY <1>3, <3>1, <4>1
      <4>2. CASE ledger'[w] = Append(ledger[w], Row(j, c, "committed", now))
        <5>1. PICK r : r = Row(j, c, "committed", now)
          OBVIOUS
        <5>2. r \in Rows /\ r.at = now /\ r.amount = c
          BY <1>3, <3>1, <5>1 DEF Row, Rows
        <5>3. TotalOf(Append(ledger[w], r), w, r.at) = TotalOf(ledger[w], w, r.at) + r.amount
          BY <3>1, <5>2, AppendTotal
        <5>4. TotalOf(ledger'[w], w, now) = TotalOf(ledger[w], w, now) + c
          BY <4>2, <5>1, <5>2, <5>3
        <5>5. QED
          BY <1>3, <3>1, <5>4
      <4>3. QED
        BY <1>3, <2>1, <4>1, <4>2, CommitLedger
    <3>4. QED
      BY <1>3, <2>1, <2>5, <3>1, <3>2, <3>3, SMTT(40)
  <2>7. QED
    BY <2>2, <2>3, <2>5, <2>6, MoneyCapped
<1>6. QED
  BY <1>3, <1>4, <1>5

\* What a bill does to the ledger.
LEMMA BillingLedger ==
  ASSUME JobsOK, LedgerOK, LedgerExact, NEW j \in Jobs, NEW amount, NEW ws, NEW after,
         Billing(j, amount, ws, after)
  PROVE  LedgerExact'
<1>1. (\A k \in Jobs \ {j} : job'[k] = job[k]) /\ job'[j].state \notin Occupying
  BY DEF Billing, Touches
<1>2. CASE ~Paying(j) /\ UNCHANGED <<ledger, torn, charged>>
  <2>1. \A k \in Jobs : (Paying(k)' <=> Paying(k)) /\ (Paying(k) => job'[k].cost = job[k].cost)
    BY <1>1, <1>2 DEF Paying
  <2>2. QED
    BY <1>2, <2>1, ExactKept
<1>3. CASE /\ Paying(j) /\ amount \in Nat /\ Settle(j, amount, ws) /\ Billed(j, ws, after)
           /\ charged' = [charged EXCEPT ![j] = @ + amount]
  BY <1>1, <1>3, SettledExact
<1>4. QED
  BY <1>2, <1>3, BillingKinds

\* It adds nothing to a window, but for a job whose row a crash took: that one
\* has been counted with the crash.
LEMMA BillingMoney ==
  ASSUME JobsOK, PassOK, PassOK', LedgerOK, LedgerExact, MoneyOK, NEW j \in Jobs, NEW amount,
         NEW ws, NEW after, Billing(j, amount, ws, after),
         ReservedOf(after.plan) \in Nat, ReservedOf(after.plan) <= ReservedOf(pass.plan),
         Pays(after.plan) => Pays(pass.plan) /\ amount = 0
  PROVE  MoneyOK'
<1>1. /\ \A k \in Jobs \ {j} : job'[k] = job[k]
      /\ job'[j].state \notin Occupying /\ now' = now
  BY DEF Billing, Touches
<1>2. ReservedOf(pass.plan) \in Nat
  BY ReservedType
<1>3. CASE ~Paying(j) /\ UNCHANGED <<ledger, crashes, torn>> /\ pass' = after
  <2>1. \A k \in Jobs : Paying(k)' <=> Paying(k)
    BY <1>1, <1>3 DEF Paying
  <2>2. QED
    BY <1>1, <1>3, <2>1, QuietMoney
<1>4. CASE /\ Paying(j) /\ amount \in Nat /\ amount <= job[j].cost /\ job[j].cost \in Nat
           /\ job[j].cost <= Dearest
           /\ Settle(j, amount, ws) /\ Billed(j, ws, after)
  <2>1. /\ torn' \subseteq Jobs /\ crashes' \in Nat /\ torn \subseteq torn' /\ torn \subseteq Jobs
        /\ torn' \subseteq torn \cup {j}
        /\ \/ pass' = after /\ crashes' = crashes /\ torn' = torn
           \/ pass' = Idle /\ crashes' = crashes + 1 /\ torn' = torn \cup {j}
    BY <1>4, BilledEffect DEF LedgerOK
  <2>2. Cardinality(torn') <= crashes'
    BY <2>1, TornCounted DEF MoneyOK
  <2>3. /\ ReservedOf(pass'.plan) \in Nat /\ ReservedOf(pass'.plan) <= ReservedOf(pass.plan)
        /\ Pays(pass'.plan) => Pays(pass.plan) /\ amount = 0
    <3>1. CASE pass' = Idle
      BY <1>2, <3>1, IdleReserved
    <3>2. QED
      BY <2>1, <3>1
  <2>4. ~Paying(j)' /\ \A k \in Jobs \ {j} : Paying(k)' <=> Paying(k)
    BY <1>1 DEF Paying
  <2>5. Overrun \subseteq Overrun' /\ j \notin Overrun /\ (j \in torn => Overrun \cup {j} \subseteq Overrun')
    <3>1. j \notin Overrun
      BY <1>4 DEF Overrun
    <3>2. \A k : k \in Overrun => k \in Overrun'
      BY <2>1, <2>4 DEF Overrun
    <3>3. j \in torn => j \in Overrun'
      BY <2>1, <2>4 DEF Overrun
    <3>4. QED
      BY <3>1, <3>2, <3>3
  <2>6. ASSUME NEW w \in Windows
        PROVE  /\ TotalOf(ledger[w], w, now) \in Nat /\ TotalOf(ledger'[w], w, now') \in Nat
               /\ TotalOf(ledger'[w], w, now') <= TotalOf(ledger[w], w, now) + amount
               /\ j \notin torn => TotalOf(ledger'[w], w, now') <= TotalOf(ledger[w], w, now)
    <3>1. TotalOf(ledger[w], w, now) \in Nat /\ ledger[w] \in Seq(Rows) /\ now \in Nat
      BY MoneyType
    <3>2. CASE ledger'[w] = ledger[w]
      BY <1>1, <1>4, <3>1, <3>2
    <3>3. CASE ledger'[w] = Realized(ledger[w], j, amount, now)
      <4>1. PICK new, old : new = Realized(old, j, amount, now) /\ old = ledger[w]
        OBVIOUS
      <4>2. /\ TotalOf(new, w, now) \in Nat /\ TotalOf(new, w, now) <= TotalOf(old, w, now) + amount
        BY <1>4, <3>1, <4>1, RealizedTotal
      <4>3. ASSUME j \notin torn PROVE TotalOf(new, w, now) <= TotalOf(old, w, now)
        <5>1. Exact(ledger[w], j, IF Paying(j) THEN {job[j].cost} ELSE {}, charged[j])
          BY <4>3, ExactNow
        <5>2. Exact(old, j, {job[j].cost}, charged[j])
          BY <1>4, <4>1, <5>1
        <5>3. QED
          BY <1>4, <3>1, <4>1, <5>2, SettleTotal
      <4>4. QED
        BY <1>1, <3>1, <3>3, <4>1, <4>2, <4>3
    <3>4. QED
      BY <1>4, <3>2, <3>3, SettleLedger
  <2>7. CASE j \notin torn \/ amount = 0
    <3>1. ASSUME NEW w \in Windows
          PROVE  /\ TotalOf(ledger'[w], w, now') \in Nat
                 /\ TotalOf(ledger'[w], w, now') + ReservedOf(pass'.plan)
                      <= TotalOf(ledger[w], w, now) + ReservedOf(pass.plan)
      BY <1>2, <2>3, <2>6, <2>7
    <3>2. QED
      BY <1>2, <2>1, <2>2, <2>3, <2>5, <3>1, MoneyKept
  <2>8. CASE j \in torn /\ amount # 0
    <3>1. PICK a \in Nat, b \in Nat : /\ a = Cardinality(Overrun) /\ b = Cardinality(Overrun')
                                      /\ a <= b /\ a + 1 <= b
      BY <2>1, <2>5, <2>8, OverrunFinite
    <3>2. /\ a * Dearest \in Nat /\ b * Dearest \in Nat /\ a * Dearest + Dearest <= b * Dearest
          /\ Dearest \in Nat
      BY <3>1, SlackGrows, DearestBound
    <3>3. ASSUME NEW w \in Windows, Cap[w] # None
          PROVE  Total(w, now)' + Reserved' <= Cap[w] + b * Dearest
      <4>1. Total(w, now) + Reserved <= Cap[w] + a * Dearest
        BY <3>1, <3>3 DEF MoneyOK
      <4>2. /\ Total(w, now)' <= Total(w, now) + amount /\ Reserved' <= Reserved
            /\ Total(w, now)' \in Nat /\ Reserved' \in Nat /\ Total(w, now) \in Nat /\ Reserved \in Nat
        BY <1>2, <2>3, <2>6, ReservedNow, TotalNow
      <4>3. Cap[w] \in Nat /\ amount \in Nat /\ amount <= Dearest
        BY <1>4, <3>2, <3>3, MoneyType, SMTT(40)
      <4>4. QED
        BY <3>2, <4>1, <4>2, <4>3
    <3>4. ~Pays(pass'.plan)
      BY <2>3, <2>8
    <3>5. QED
      BY <2>2, <3>1, <3>3, <3>4 DEF MoneyOK, Pays
  <2>9. QED
    BY <2>7, <2>8
<1>5. QED
  BY <1>3, <1>4, BillingKinds
-----------------------------------------------------------------------------
(* The invariant, step by step.                                            *)

IInv == JobsOK /\ PassOK /\ PlanOK /\ MatchOK /\ LedgerOK /\ LedgerExact /\ MoneyOK

\* The invariant holds at the start.
LEMMA InitInv ==
  ASSUME Init
  PROVE  IInv
<1>1. JobsOK
  <2>1. Absent \in JobRecord
    <3>1. [p \in Providers |-> 0] \in [Providers -> Nat] /\ {} \in SUBSET Jobs /\ "ABSENT" \in States
      BY DEF States
    <3> HIDE DEF States
    <3>2. QED
      BY <3>1 DEF Absent, JobRecord
  <2>2. Sound(Absent)
    BY <2>1, SchedulerAssumption DEF Sound, Absent, Pending
  <2>3. \A j \in Jobs : Bound(j)
    BY DEF Init, Bound, Absent
  <2>4. QED
    BY <2>1, <2>2, <2>3 DEF JobsOK, Init
<1>2. PassOK
  <2>1. Idle \in Passes /\ DOMAIN Idle.room = DOMAIN Idle.slots /\ Idle.phase = "idle" /\ Idle.todo = {}
    BY DEF Idle, Passes
  <2>2. QED
    BY <2>1 DEF Init, PassOK
<1>3. pass.plan = <<>> /\ DOMAIN pass.plan = {} /\ pass.phase = "idle"
  BY DEF Init, Idle
<1>4. PlanOK /\ MatchOK
  BY <1>3 DEF PlanOK, PlanCurrent, DistinctOffers, OnceEach, MatchOK
<1>5. LedgerOK
  <2>1. ledger \in [Windows -> Seq(Rows)] /\ \A w \in Windows : DOMAIN ledger[w] = {}
    BY DEF Init
  <2>2. QED
    BY <2>1, SchedulerAssumption DEF Init, LedgerOK
<1>6. ASSUME NEW w \in Windows
      PROVE  /\ ledger[w] = <<>> /\ ledger[w] \in Seq(Rows) /\ DOMAIN ledger[w] = {}
             /\ \A S \in SUBSET DOMAIN ledger[w] : S = {} /\ AmountOf(ledger[w], S) = 0
  <2>1. ledger[w] = <<>> /\ DOMAIN ledger[w] = {}
    BY DEF Init
  <2>2. IsFiniteSet({}) /\ {} \subseteq DOMAIN ledger[w] /\ \A i \in {} : ledger[w][i].amount \in Nat
    BY FS_EmptySet
  <2>3. AmountOf(ledger[w], {}) = 0
    BY <2>2, AmountsSplit
  <2>4. QED
    BY <2>1, <2>3
<1>7. LedgerExact
  <2>1. ASSUME NEW k \in Jobs, NEW w \in Windows
        PROVE  Exact(ledger[w], k, IF Paying(k) THEN {job[k].cost} ELSE {}, charged[k])
    <3>1. CommittedOf(ledger[w], k) = {} /\ SpentOf(ledger[w], k) \in SUBSET DOMAIN ledger[w]
      BY <1>6 DEF CommittedOf, SpentOf
    <3>2. AmountOf(ledger[w], SpentOf(ledger[w], k)) = 0
      BY <1>6, <3>1
    <3>3. ~Paying(k) /\ charged[k] = 0
      BY DEF Init, Paying, Absent
    <3>4. Cardinality(CommittedOf(ledger[w], k)) <= 1
      BY <3>1, FS_EmptySet
    <3>5. QED
      BY <3>1, <3>2, <3>3, <3>4 DEF Exact
  <2>2. QED
    BY <2>1, ExactNow
<1>8. MoneyOK
  <2>1. Overrun = {} /\ torn = {} /\ crashes = 0
    BY DEF Init, Overrun
  <2>2. Cardinality(torn) <= crashes /\ Cardinality(Overrun) = 0
    BY <2>1, FS_EmptySet
  <2>3. Reserved = 0
    <3>1. ReservedOf(pass.plan) = 0
      BY IdleReserved DEF Init
    <3>2. QED
      BY <3>1, ReservedNow
  <2>4. ASSUME NEW w \in Windows, Cap[w] # None
        PROVE  Total(w, now) + Reserved <= Cap[w] /\ Cap[w] \in Nat
    <3>1. InWindow(ledger[w], w, now) \in SUBSET DOMAIN ledger[w]
      BY DEF InWindow
    <3>2. Total(w, now) = 0
      BY <1>6, <3>1, TotalNow DEF TotalOf
    <3>3. Cap[w] \in Nat
      BY <1>5, <2>4, MoneyType
    <3>4. QED
      BY <2>3, <3>2, <3>3
  <2>5. Cardinality(Overrun) * Dearest = 0
    BY <2>2, DearestBound
  <2>6. \A w \in Windows : Cap[w] # None => Total(w, now) + Reserved <= Cap[w] + Cardinality(Overrun) * Dearest
    BY <2>4, <2>5
  <2>7. QED
    BY <1>3, <2>2, <2>6 DEF MoneyOK
<1>9. QED
  BY <1>1, <1>2, <1>4, <1>5, <1>7, <1>8 DEF IInv

\* What goes wrong is counted.
LEMMA UpsetsType ==
  ASSUME LedgerOK, [Next]_vars
  PROVE  upsets' \in Nat
<1>1. upsets \in Nat
  BY DEF LedgerOK
<1>2. upsets' = upsets \/ upsets' = upsets + 1
  <2>1. CASE UNCHANGED vars
    BY <2>1 DEF vars
  <2>2. CASE Pass \/ Tick
    BY <2>2 DEF Pass, PassBegin, Match, Tick
  <2>3. CASE Enact
    BY <2>3 DEF Enact, EnactHold, EnactUnhold, EnactFail, EnactReserve, EnactRequeue
  <2>4. CASE \E j \in Jobs : Outcome(j)
    BY <2>4 DEF Outcome, PlaceDies, Activate, WorkerDies, Rollback, ApplyCancel, Finish, Upset
  <2>5. CASE \E j \in Jobs : Handler(j)
    BY <2>5 DEF Handler, Submit, Reprioritize, Repin, Retry, Upset
  <2>6. QED
    BY <2>1, <2>2, <2>3, <2>4, <2>5 DEF Next
<1>3. QED
  BY <1>1, <1>2

\* A step that leaves the ledger alone.
LEMMA LedgerKept ==
  ASSUME LedgerOK, UNCHANGED <<ledger, torn, charged, crashes>>, upsets' \in Nat, retried' \subseteq Jobs,
         now' = now \/ (now' = now + 1 /\ now < MaxNow)
  PROVE  LedgerOK'
<1>1. /\ now \in 0..MaxNow /\ MaxNow \in Nat /\ now' \in 0..MaxNow /\ now <= now'
  BY SchedulerAssumption DEF LedgerOK
<1>2. ASSUME NEW w \in Windows, NEW i \in DOMAIN ledger[w] PROVE ledger[w][i].at <= now'
  <2>1. ledger[w][i].at \in Nat /\ ledger[w][i].at <= now
    BY RowsType DEF LedgerOK
  <2>2. QED
    BY <1>1, <2>1
<1>3. QED
  BY <1>1, <1>2 DEF LedgerOK

\* A step that writes it.
LEMMA LedgerWritten ==
  ASSUME LedgerOK, ledger' \in [Windows -> Seq(Rows)],
         \A w \in Windows : \A i \in DOMAIN ledger'[w] : ledger'[w][i].at <= now,
         torn' \subseteq Jobs, charged' \in [Jobs -> Nat], crashes' \in Nat, upsets' \in Nat,
         now' = now, retried' = retried
  PROVE  LedgerOK'
BY DEF LedgerOK

\* Nothing is matched outside a match.
LEMMA NoMatch ==
  ASSUME pass'.phase # "match"
  PROVE  MatchOK'
BY DEF MatchOK

\* The invariant holds after a step of the pass that decides.
LEMMA PassInv ==
  ASSUME IInv, Pass, upsets' \in Nat
  PROVE  IInv'
<1>1. /\ JobsOK /\ PassOK /\ PlanOK /\ MatchOK /\ LedgerOK /\ LedgerExact /\ MoneyOK
  BY DEF IInv
<1>2. UNCHANGED <<job, ledger, now, crashes, torn, charged, retried>>
  BY DEF Pass, PassBegin, Match, ghosts
<1>3. PassOK' /\ PlanOK' /\ MatchOK'
  BY <1>1, BeginEffect, MatchEffect DEF Pass
<1>4. JobsOK'
  BY <1>1, <1>2 DEF JobsOK, Bound
<1>5. LedgerOK'
  BY <1>1, <1>2, LedgerKept DEF LedgerOK
<1>6. LedgerExact'
  <2>1. \A k \in Jobs : (Paying(k)' <=> Paying(k)) /\ (Paying(k) => job'[k].cost = job[k].cost)
    BY <1>2 DEF Paying
  <2>2. QED
    BY <1>1, <1>2, <2>1, ExactKept
<1>7. MoneyOK'
  BY <1>1, <1>3, BeginMoney, MatchMoney DEF Pass
<1>8. QED
  BY <1>3, <1>4, <1>5, <1>6, <1>7 DEF IInv

\* The invariant holds after a hold, an unhold or a failure is enacted.
LEMMA DecidingInv ==
  ASSUME IInv, EnactHold \/ EnactUnhold \/ EnactFail, upsets' \in Nat
  PROVE  IInv'
<1>1. /\ JobsOK /\ PassOK /\ PlanOK /\ LedgerOK /\ LedgerExact /\ MoneyOK
  BY DEF IInv
<1>2. PICK j : j = Head(pass.plan).job
  OBVIOUS
<1>3. Deciding /\ JobsOK'
  BY <1>1, DecidingEffect
<1>4. /\ Touches(j) /\ job[j].state \in Pending /\ job'[j].state \notin Occupying
      /\ pass.phase = "enact" /\ pass' = Rest
      /\ UNCHANGED <<ledger, now, crashes, torn, charged, retried>>
  BY <1>2, <1>3 DEF Deciding, ghosts, Occupying
<1>5. PassOK'
  BY <1>1, <1>4, PassToRest
<1>6. Enacted
  BY <1>2, <1>3, <1>4 DEF Enacted, Deciding, Occupying
<1>7. PlanOK' /\ MatchOK'
  BY <1>1, <1>4, <1>6, EnactedPlan, RestPlan, NoMatch
<1>8. LedgerOK'
  BY <1>1, <1>4, LedgerKept DEF LedgerOK
<1>9. \A k \in Jobs : (Paying(k)' <=> Paying(k)) /\ (Paying(k) => job'[k].cost = job[k].cost)
  BY <1>4 DEF Paying, Touches, Pending, Occupying
<1>10. LedgerExact'
  BY <1>1, <1>4, <1>9, ExactKept
<1>11. MoneyOK'
  <2>1. /\ ReservedOf(pass'.plan) \in Nat /\ ReservedOf(pass.plan) \in Nat
        /\ ReservedOf(pass.plan) = ReservedOf(pass'.plan)
             + (IF Head(pass.plan).kind = "reserve" THEN Head(pass.plan).cost ELSE 0)
        /\ Pays(pass'.plan) => Pays(pass.plan) /\ Head(pass.plan).cost \in Nat
    BY <1>1, <1>4, RestOfPlan
  <2>2. ReservedOf(pass'.plan) <= ReservedOf(pass.plan)
    <3>1. Head(pass.plan).cost \in Nat
      BY <1>1, <1>4, RestOfPlan
    <3>2. QED
      BY <2>1, <3>1
  <2>3. QED
    BY <1>1, <1>4, <1>5, <1>9, <2>1, <2>2, QuietMoney
<1>12. QED
  BY <1>3, <1>5, <1>7, <1>8, <1>10, <1>11 DEF IInv

\* The invariant holds after a Reserve is enacted.
LEMMA ReserveInv ==
  ASSUME IInv, NEW ws \in Written, EnactReserve(ws), upsets' \in Nat
  PROVE  IInv'
<1>1. /\ JobsOK /\ PassOK /\ PlanOK /\ LedgerOK /\ LedgerExact /\ MoneyOK
  BY DEF IInv
<1>2. PICK j, c : j = Head(pass.plan).job /\ c = Head(pass.plan).cost
  OBVIOUS
<1>3. /\ Placement(j, c, ws) /\ pass.phase = "enact" /\ Head(pass.plan).kind = "reserve" /\ JobsOK'
      /\ job'[j].prov = Head(pass.plan).prov
  BY <1>1, <1>2, PlacementBegins
<1>4. j \in Jobs /\ c \in Nat
  BY <1>1, <1>2, <1>3, HeadType DEF Decisions
<1>5. /\ Touches(j) /\ job[j].state \in Pending /\ now' = now /\ charged' = charged /\ retried' = retried
      /\ \/ c = 0 /\ UNCHANGED <<ledger, crashes, torn>> /\ pass' = Rest
         \/ c > 0 /\ Commit(j, c, ws) /\ Billed(j, ws, Rest)
  BY <1>3 DEF Placement
<1>6. pass' = Rest \/ pass' = Idle
  BY <1>1, <1>4, <1>5, BilledEffect
<1>7. PassOK'
  BY <1>1, <1>3, <1>6, PassToRest, IdlePass
<1>8. PlanOK' /\ MatchOK'
  <2>1. CASE pass' = Idle
    BY <2>1, IdlePass, EmptyPlan, NoMatch
  <2>2. CASE pass' = Rest
    <3>1. Enacted
      BY <1>2, <1>3, <1>5 DEF Enacted
    <3>2. QED
      BY <1>1, <1>3, <2>2, <3>1, EnactedPlan, RestPlan, NoMatch
  <2>3. QED
    BY <1>6, <2>1, <2>2
<1>9. LedgerOK'
  <2>1. CASE c = 0
    BY <1>1, <1>4, <1>5, <2>1, LedgerKept DEF LedgerOK
  <2>2. CASE c > 0
    <3>1. Commit(j, c, ws) /\ Billed(j, ws, Rest)
      BY <1>4, <1>5, <2>2
    <3>2. /\ ledger' \in [Windows -> Seq(Rows)]
          /\ \A w \in Windows : \A i \in DOMAIN ledger'[w] : ledger'[w][i].at <= now
      BY <1>1, <1>4, <3>1, CommitLedger
    <3>3. torn' \subseteq Jobs /\ crashes' \in Nat
      BY <1>1, <1>4, <3>1, BilledEffect
    <3>4. charged' \in [Jobs -> Nat]
      BY <1>1, <1>5 DEF LedgerOK
    <3>5. QED
      BY <1>1, <1>5, <3>2, <3>3, <3>4, LedgerWritten
  <2>3. QED
    BY <1>4, <2>1, <2>2
<1>10. LedgerExact'
  BY <1>1, <1>3, <1>4, ReserveLedger
<1>11. MoneyOK'
  BY <1>1, <1>7, ReserveMoney
<1>12. QED
  BY <1>3, <1>7, <1>8, <1>9, <1>10, <1>11 DEF IInv

\* A bill of an outcome, or of a requeue.
LEMMA BillInv ==
  ASSUME IInv, NEW j \in Jobs, NEW amount, NEW ws, NEW after, Billing(j, amount, ws, after), JobsOK',
         upsets' \in Nat, pass' = after \/ pass' = Idle => PassOK' /\ PlanOK' /\ MatchOK',
         ReservedOf(after.plan) \in Nat, ReservedOf(after.plan) <= ReservedOf(pass.plan),
         Pays(after.plan) => Pays(pass.plan) /\ amount = 0
  PROVE  IInv'
<1>1. /\ JobsOK /\ PassOK /\ LedgerOK /\ LedgerExact /\ MoneyOK
  BY DEF IInv
<1>2. now' = now /\ retried' = retried
  BY DEF Billing
<1>3. ASSUME UNCHANGED <<ledger, crashes, torn, charged>> PROVE LedgerOK'
  BY <1>1, <1>2, <1>3, LedgerKept DEF LedgerOK
<1>4. ASSUME amount \in Nat, Settle(j, amount, ws), Billed(j, ws, after),
             charged' = [charged EXCEPT ![j] = @ + amount]
      PROVE  LedgerOK'
  <2>1. /\ ledger' \in [Windows -> Seq(Rows)]
        /\ \A w \in Windows : \A i \in DOMAIN ledger'[w] : ledger'[w][i].at <= now
    BY <1>1, <1>4, SettleLedger
  <2>2. torn' \subseteq Jobs /\ crashes' \in Nat
    BY <1>1, <1>4, BilledEffect
  <2>3. charged' \in [Jobs -> Nat]
    BY <1>1, <1>4 DEF LedgerOK
  <2>4. QED
    BY <1>1, <1>2, <2>1, <2>2, <2>3, LedgerWritten
<1>5. LedgerOK'
  BY <1>1, <1>3, <1>4, BillingKinds
<1>6. pass' = after \/ pass' = Idle
  BY <1>1, BillingKinds, BilledEffect
<1>7. LedgerExact'
  BY <1>1, BillingLedger
<1>8. MoneyOK'
  BY <1>1, <1>6, BillingMoney
<1>9. QED
  BY <1>5, <1>6, <1>7, <1>8 DEF IInv

\* The invariant holds after a requeue is enacted.
LEMMA RequeueInv ==
  ASSUME IInv, NEW ws \in Written, EnactRequeue(ws), upsets' \in Nat
  PROVE  IInv'
<1>1. /\ JobsOK /\ PassOK /\ PlanOK /\ LedgerOK
  BY DEF IInv
<1>2. PICK j : j = Head(pass.plan).job
  OBVIOUS
<1>3. /\ Billing(j, 0, ws, Rest) /\ JobsOK' /\ Moves(j, "QUEUED") /\ job[j].state = "RUNNING"
  BY <1>1, <1>2, RequeueBills, RequeueEffect
<1>4. pass.phase = "enact" /\ Head(pass.plan).kind = "requeue" /\ retried' = retried
  BY DEF EnactRequeue, Enacting
<1>5. j \in Jobs
  BY <1>1, <1>2, <1>4, HeadType
<1>6. Enacted
  BY <1>2, <1>3, <1>4 DEF Enacted, Moves, Pending, Occupying
<1>7. ASSUME pass' = Rest \/ pass' = Idle PROVE PassOK' /\ PlanOK' /\ MatchOK'
  <2>1. CASE pass' = Idle
    BY <2>1, IdlePass, EmptyPlan, NoMatch
  <2>2. CASE pass' = Rest
    BY <1>1, <1>4, <1>6, <2>2, PassToRest, EnactedPlan, RestPlan, NoMatch
  <2>3. QED
    BY <1>7, <2>1, <2>2
<1>8. /\ ReservedOf(Rest.plan) \in Nat /\ ReservedOf(Rest.plan) <= ReservedOf(pass.plan)
      /\ Pays(Rest.plan) => Pays(pass.plan)
  <2>1. /\ ReservedOf(Rest.plan) \in Nat /\ ReservedOf(pass.plan) = ReservedOf(Rest.plan) + 0
        /\ Pays(Rest.plan) => Pays(pass.plan)
    BY <1>1, <1>4, RestOfPlan
  <2>2. QED
    BY <2>1
<1>9. QED
  BY <1>3, <1>5, <1>7, <1>8, BillInv

\* The invariant holds after the end of a placement.
LEMMA OutcomeInv ==
  ASSUME IInv, NEW j \in Jobs, Outcome(j), upsets' \in Nat
  PROVE  IInv'
<1>1. /\ JobsOK /\ PassOK /\ PlanOK /\ LedgerOK /\ LedgerExact /\ MoneyOK
  BY DEF IInv
<1>2. JobsOK'
  BY <1>1, OutcomeEffect
<1>3. CASE Running(j)
  <2>1. /\ Touches(j) /\ job[j].state \in Occupying /\ job'[j].state \in Occupying
        /\ job'[j].cost = job[j].cost /\ pass.phase = "idle"
        /\ UNCHANGED <<pass, ledger, now, crashes, torn, charged, retried>>
    BY <1>3 DEF Running, ghosts
  <2>2. pass' = Idle
    BY <1>1, <2>1 DEF PassOK
  <2>3. PassOK' /\ PlanOK' /\ MatchOK'
    BY <2>2, IdlePass, EmptyPlan, NoMatch
  <2>4. LedgerOK'
    BY <1>1, <2>1, LedgerKept DEF LedgerOK
  <2>5. \A k \in Jobs : (Paying(k)' <=> Paying(k)) /\ (Paying(k) => job'[k].cost = job[k].cost)
    BY <2>1 DEF Paying, Touches
  <2>6. LedgerExact'
    BY <1>1, <2>1, <2>5, ExactKept
  <2>7. MoneyOK'
    <3>1. ReservedOf(pass.plan) \in Nat
      BY <1>1, ReservedType
    <3>2. QED
      BY <1>1, <2>1, <2>3, <2>5, <3>1, QuietMoney
  <2>8. QED
    BY <1>2, <2>3, <2>4, <2>6, <2>7 DEF IInv
<1>4. CASE \E amount : \E ws \in Written : Billing(j, amount, ws, pass) /\ pass.phase = "idle"
  <2>1. PICK amount, ws : Billing(j, amount, ws, pass) /\ pass.phase = "idle"
    BY <1>4
  <2>2. pass = Idle
    BY <1>1, <2>1 DEF PassOK
  <2>3. pass' = pass \/ pass' = Idle => PassOK' /\ PlanOK' /\ MatchOK'
    BY <2>2, IdlePass, EmptyPlan, NoMatch
  <2>4. ReservedOf(pass.plan) = 0 /\ ~Pays(pass.plan)
    BY <2>2, IdleReserved
  <2>5. ReservedOf(pass.plan) \in Nat /\ ReservedOf(pass.plan) <= ReservedOf(pass.plan)
    BY <2>4
  <2>6. QED
    BY <1>2, <2>1, <2>3, <2>4, <2>5, BillInv
<1>5. QED
  BY <1>1, <1>3, <1>4, OutcomeEffect

\* The invariant holds after a handler.
LEMMA HandlerInv ==
  ASSUME IInv, NEW j \in Jobs, Handler(j), upsets' \in Nat
  PROVE  IInv'
<1>1. /\ JobsOK /\ PassOK /\ PlanOK /\ LedgerOK /\ LedgerExact /\ MoneyOK
  BY DEF IInv
<1>2. Handling(j) /\ JobsOK'
  BY <1>1, HandlerEffect
<1>3. /\ Touches(j) /\ pass.phase # "match"
      /\ UNCHANGED <<pass, ledger, now, crashes, torn, charged>>
      /\ retried' \subseteq retried \cup {j}
      /\ \/ job'[j].state = job[j].state /\ job'[j].cost = job[j].cost
         \/ job[j].state \in Terminal \cup {"ABSENT"} /\ job'[j].state = "QUEUED"
  BY <1>2 DEF Handling, Handled, Asks, Moves
<1>4. PassOK'
  BY <1>1, <1>3, SamePass
<1>5. PlanOK' /\ MatchOK'
  BY <1>1, <1>2, HandlingPlan
<1>6. LedgerOK'
  <2>1. retried' \subseteq Jobs
    BY <1>1, <1>3 DEF LedgerOK
  <2>2. QED
    BY <1>1, <1>3, <2>1, LedgerKept
<1>7. \A k \in Jobs : (Paying(k)' <=> Paying(k)) /\ (Paying(k) => job'[k].cost = job[k].cost)
  BY <1>3 DEF Paying, Touches, Terminal, Occupying
<1>8. LedgerExact'
  BY <1>1, <1>3, <1>7, ExactKept
<1>9. MoneyOK'
  <2>1. ReservedOf(pass.plan) \in Nat
    BY <1>1, ReservedType
  <2>2. QED
    BY <1>1, <1>3, <1>4, <1>7, <2>1, QuietMoney
<1>10. QED
  BY <1>2, <1>4, <1>5, <1>6, <1>8, <1>9 DEF IInv

\* The clock, and a step that changes nothing.
LEMMA TickInv ==
  ASSUME IInv, Tick \/ UNCHANGED vars, upsets' \in Nat
  PROVE  IInv'
<1>1. /\ JobsOK /\ PassOK /\ PlanOK /\ MatchOK /\ LedgerOK /\ LedgerExact /\ MoneyOK
  BY DEF IInv
<1>2. /\ UNCHANGED <<job, pass, ledger, crashes, torn, charged, retried>>
      /\ now' = now \/ (now' = now + 1 /\ now < MaxNow /\ pass.phase # "match")
  BY DEF Tick, vars, ghosts
<1>3. JobsOK'
  BY <1>1, <1>2 DEF JobsOK, Bound
<1>4. PassOK'
  BY <1>1, <1>2, SamePass
<1>5. PlanOK'
  BY <1>1, <1>2, SamePlan
<1>6. MatchOK'
  <2>1. CASE pass.phase # "match"
    BY <1>2, <2>1, NoMatch
  <2>2. CASE now' = now
    <3>1. UNCHANGED <<job, pass, ledger, now, retried>>
      BY <1>2, <2>2
    <3>2. MatchOK' <=> MatchOK
      BY <3>1 DEF MatchOK, Placeable, Load, FreeLeft, FreeInTime, FreeSlots, Candidates, Fitting,
                  Avoided, MeetsDeadline, Fits, Allowed
    <3>3. QED
      BY <1>1, <3>2
  <2>3. QED
    BY <1>2, <2>1, <2>2
<1>7. LedgerOK'
  BY <1>1, <1>2, LedgerKept DEF LedgerOK
<1>8. \A k \in Jobs : (Paying(k)' <=> Paying(k)) /\ (Paying(k) => job'[k].cost = job[k].cost)
  BY <1>2 DEF Paying
<1>9. LedgerExact'
  BY <1>1, <1>2, <1>8, ExactKept
<1>10. MoneyOK'
  <2>1. ReservedOf(pass.plan) \in Nat
    BY <1>1, ReservedType
  <2>2. QED
    BY <1>1, <1>2, <1>4, <1>8, <2>1, QuietMoney
<1>11. QED
  BY <1>3, <1>4, <1>5, <1>6, <1>7, <1>9, <1>10 DEF IInv

\* The invariant is one of the specification.
LEMMA NextInv ==
  ASSUME IInv, [Next]_vars
  PROVE  IInv'
<1>1. upsets' \in Nat
  BY UpsetsType DEF IInv
<1>2. CASE Pass
  BY <1>1, <1>2, PassInv
<1>3. CASE Enact
  BY <1>1, <1>3, DecidingInv, ReserveInv, RequeueInv DEF Enact
<1>4. CASE Tick \/ UNCHANGED vars
  BY <1>1, <1>4, TickInv
<1>5. CASE \E j \in Jobs : Outcome(j) \/ Handler(j)
  BY <1>1, <1>5, OutcomeInv, HandlerInv
<1>6. QED
  BY <1>2, <1>3, <1>4, <1>5 DEF Next
-----------------------------------------------------------------------------
(* The theorems.                                                           *)

\* In every reachable state all parts of the invariant hold.
THEOREM Invariance == Spec => []IInv
<1>1. Init => IInv
  BY InitInv
<1>2. IInv /\ [Next]_vars => IInv'
  BY NextInv
<1>3. QED
  BY <1>1, <1>2, PTL DEF Spec

\* The tables and the running pass are what their types say, no decision is out
\* of date when its turn comes, and no offer backs two of them.
THEOREM PlansSound == Spec => []PlanSound
<1>1. ASSUME IInv PROVE PlanSound
  <2>1. /\ JobsOK /\ PassOK /\ PlanOK /\ LedgerOK
    BY <1>1 DEF IInv
  <2>2. \A j \in Jobs : /\ job[j].state \in Terminal \cup Pending \cup Occupying \cup {"ABSENT"}
                        /\ job[j].attempts \in 0..MaxAttempts
                        /\ job[j].cost \in Nat \cup {None}
    <3> TAKE j \in Jobs
    <3>1. Sound(job[j]) /\ job[j] \in JobRecord
      BY <2>1 DEF JobsOK, Sound
    <3>2. job[j].state \in States /\ job[j].attempts \in Nat /\ job[j].cost \in Nat \cup {None}
      BY <3>1 DEF JobRecord
    <3>3. job[j].attempts <= MaxAttempts /\ MaxAttempts \in Nat
      BY <3>1, SchedulerAssumption DEF Sound
    <3>4. QED
      BY <3>2, <3>3 DEF States
  <2>3. /\ pass.phase \in {"idle", "match", "enact"} /\ (pass.phase = "enact" => pass.plan # <<>>)
        /\ pass.todo \subseteq Jobs
        /\ \A i \in DOMAIN pass.plan : pass.plan[i] \in Decisions
    <3>1. pass \in Passes /\ (pass.phase = "enact" => pass.plan # <<>>)
      BY <2>1 DEF PassOK
    <3>2. pass.plan \in Seq(Decisions)
      BY <3>1 DEF Passes
    <3>3. \A i \in DOMAIN pass.plan : pass.plan[i] \in Decisions
      BY <3>2, PlanType
    <3>4. QED
      BY <3>1, <3>3 DEF Passes
  <2>4. \A w \in Windows : \A i \in DOMAIN ledger[w] :
          ledger[w][i] \in [job : Jobs, amount : Nat, kind : {"committed", "spent"}, at : 0..MaxNow]
    <3> TAKE w \in Windows
    <3> TAKE i \in DOMAIN ledger[w]
    <3>1. ledger[w] \in Seq(Rows) /\ now \in 0..MaxNow /\ ledger[w][i].at <= now /\ MaxNow \in Nat
      BY <2>1, SchedulerAssumption DEF LedgerOK
    <3>2. ledger[w][i] \in Rows
      BY <3>1, RowsType
    <3>3. PICK r : r = ledger[w][i]
      OBVIOUS
    <3>4. r \in Rows /\ r.at \in 0..MaxNow
      BY <3>1, <3>2, <3>3 DEF Rows
    <3>5. r \in [job : Jobs, amount : Nat, kind : {"committed", "spent"}, at : 0..MaxNow]
      BY <3>4 DEF Rows
    <3>6. QED
      BY <3>3, <3>5
  <2>5. TypeOK
    BY <2>1, <2>2, <2>3, <2>4 DEF TypeOK, LedgerOK
  <2>6. QED
    BY <2>1, <2>5 DEF PlanOK, PlanSound
<1>2. QED
  BY <1>1, Invariance, PTL

\* What a job is billed is the price of the placement it holds and the cost of
\* its runs, in both windows, unless a crash cut its bill short.
THEOREM LedgerIsExact == Spec => []LedgerExact
<1>1. IInv => LedgerExact
  BY DEF IInv
<1>2. QED
  BY <1>1, Invariance, PTL

\* No window goes over its ceiling by more than one placement for each crash.
THEOREM BudgetIsKept == Spec => []BudgetKept
<1>1. ASSUME IInv PROVE BudgetKept
  <2>1. /\ PassOK /\ LedgerOK /\ MoneyOK
    BY <1>1 DEF IInv
  <2>2. torn \subseteq Jobs /\ crashes \in Nat /\ Cardinality(torn) <= crashes
    BY <2>1 DEF LedgerOK, MoneyOK
  <2>3. Cardinality(Overrun) \in Nat /\ Cardinality(Overrun) <= crashes
    <3>1. IsFiniteSet(torn) /\ Overrun \subseteq torn
      BY <2>2, JobsFinite, FS_Subset DEF Overrun
    <3>2. IsFiniteSet(Overrun) /\ Cardinality(Overrun) <= Cardinality(torn)
      BY <3>1, FS_Subset
    <3>3. Cardinality(Overrun) \in Nat /\ Cardinality(torn) \in Nat
      BY <3>1, <3>2, FS_CardinalityType
    <3>4. QED
      BY <2>2, <3>2, <3>3
  <2>4. /\ Cardinality(Overrun) * Dearest \in Nat /\ crashes * Dearest \in Nat
        /\ Cardinality(Overrun) * Dearest <= crashes * Dearest
    BY <2>2, <2>3, SlackGrows
  <2>5. ASSUME NEW w \in Windows, Cap[w] # None PROVE Total(w, now) <= Cap[w] + crashes * Dearest
    <3>1. Total(w, now) + Reserved <= Cap[w] + Cardinality(Overrun) * Dearest
      BY <2>1, <2>5 DEF MoneyOK
    <3>2. Total(w, now) \in Nat /\ Reserved \in Nat /\ Cap[w] \in Nat
      BY <2>1, <2>5, MoneyType, TotalNow, ReservedNow, ReservedType
    <3>3. QED
      BY <2>4, <3>1, <3>2
  <2>6. QED
    BY <2>5 DEF BudgetKept
<1>2. QED
  BY <1>1, Invariance, PTL

\* No job comes to occupy a place but by the enactment of a Reserve.
LEMMA OnlyPlaced ==
  ASSUME IInv, [Next]_vars
  PROVE  \/ \E ws \in Written : EnactReserve(ws)
         \/ \A k \in Jobs : job'[k].state \in Occupying
                              => job[k].state \in Occupying /\ job'[k].prov = job[k].prov
<1>1. /\ JobsOK /\ PassOK /\ PlanOK /\ LedgerOK
  BY DEF IInv
<1> DEFINE Stays(k) == job'[k].state \in Occupying
                         => job[k].state \in Occupying /\ job'[k].prov = job[k].prov
<1>2. ASSUME NEW j, Touches(j), Stays(j) PROVE \A k \in Jobs : Stays(k)
  BY <1>2 DEF Touches
<1>3. ASSUME Pass \/ Tick \/ UNCHANGED vars PROVE \A k \in Jobs : Stays(k)
  BY <1>3 DEF Pass, PassBegin, Match, Tick, vars
<1>4. ASSUME EnactHold \/ EnactUnhold \/ EnactFail PROVE \A k \in Jobs : Stays(k)
  <2>1. PICK j : j = Head(pass.plan).job
    OBVIOUS
  <2>2. Touches(j) /\ job'[j].state \notin Occupying
    BY <1>1, <1>4, <2>1, DecidingEffect DEF Deciding, Occupying
  <2>3. QED
    BY <1>2, <2>2
<1>5. ASSUME \E ws \in Written : EnactRequeue(ws) PROVE \A k \in Jobs : Stays(k)
  <2>1. PICK j : j = Head(pass.plan).job
    OBVIOUS
  <2>2. Touches(j) /\ job'[j].state \notin Occupying
    BY <1>1, <1>5, <2>1, RequeueBills DEF Billing
  <2>3. QED
    BY <1>2, <2>2
<1>6. ASSUME NEW j \in Jobs, Outcome(j) PROVE \A k \in Jobs : Stays(k)
  <2>1. CASE Running(j)
    BY <1>2, <2>1 DEF Running
  <2>2. CASE \E amount : \E ws \in Written : Billing(j, amount, ws, pass) /\ pass.phase = "idle"
    BY <1>2, <2>2 DEF Billing
  <2>3. QED
    BY <1>1, <1>6, <2>1, <2>2, OutcomeEffect
<1>7. ASSUME NEW j \in Jobs, Handler(j) PROVE \A k \in Jobs : Stays(k)
  <2>1. Handling(j)
    BY <1>1, <1>7, HandlerEffect
  <2>2. Touches(j) /\ Stays(j)
    BY <2>1 DEF Handling, Asks, Moves, Occupying
  <2>3. QED
    BY <1>2, <2>2
<1> HIDE DEF Stays
<1>8. (\E ws \in Written : EnactReserve(ws)) \/ \A k \in Jobs : Stays(k)
  BY <1>3, <1>4, <1>5, <1>6, <1>7 DEF Next, Enact
<1>9. QED
  BY <1>8 DEF Stays

\* A job is placed on a free slot before a paid one, within the room of the slot
\* at that moment, and after what it depends on.
THEOREM JobsPlacedRightly == Spec => PlacedRightly
<1>1. ASSUME IInv, [Next]_vars PROVE [pass.phase = "match" => ~FreeLeft']_vars
  <2> SUFFICES ASSUME pass.phase = "match", ~UNCHANGED vars PROVE ~FreeLeft'
    OBVIOUS
  <2>1. Match
    <3>1. ~PassBegin /\ ~Enact /\ ~Tick
      BY DEF PassBegin, Enact, EnactHold, EnactUnhold, EnactFail, EnactReserve, EnactRequeue,
             Enacting, Tick
    <3>2. ASSUME NEW j \in Jobs PROVE ~Outcome(j) /\ ~Handler(j)
      <4>1. ~Outcome(j)
        BY DEF Outcome, PlaceDies, Activate, WorkerDies, Rollback, ApplyCancel, Finish
      <4>2. ~Handler(j)
        BY DEF Handler, Submit, Reprioritize, Repin, Retry, Handled
      <4>3. QED
        BY <4>1, <4>2
    <3>3. QED
      BY <1>1, <3>1, <3>2 DEF Next, Pass
  <2>2. QED
    BY <1>1, <2>1, MatchEffect DEF IInv
<1>2. ASSUME IInv, [Next]_vars
      PROVE  \A p \in Providers : Active(p)' > Active(p) =>
               \E i \in DOMAIN pass.slots :
                 /\ pass.slots[i].prov = p /\ pass.slots[i].key = Head(pass.plan).key
                 /\ Active(p)' <= pass.slots[i].cap
  <2> SUFFICES ASSUME NEW p \in Providers, Active(p)' > Active(p)
               PROVE  \E i \in DOMAIN pass.slots :
                        /\ pass.slots[i].prov = p /\ pass.slots[i].key = Head(pass.plan).key
                        /\ Active(p)' <= pass.slots[i].cap
    OBVIOUS
  <2>1. PICK A, B : /\ A = {k \in Jobs : job[k].state \in Occupying /\ job[k].prov = p}
                    /\ B = {k \in Jobs : job'[k].state \in Occupying /\ job'[k].prov = p}
    OBVIOUS
  <2>2. Active(p) = Cardinality(A) /\ Active(p)' = Cardinality(B)
    BY <2>1 DEF Active
  <2>3. IsFiniteSet(A) /\ IsFiniteSet(B) /\ Cardinality(A) \in Nat /\ Cardinality(B) \in Nat
    BY <2>1, JobsFinite, FS_Subset, FS_CardinalityType
  <2>4. ~(B \subseteq A)
    <3>1. B \subseteq A => Cardinality(B) <= Cardinality(A)
      BY <2>3, FS_Subset
    <3>2. QED
      BY <2>2, <2>3, <3>1
  <2>5. PICK ws \in Written : EnactReserve(ws)
    <3>1. ASSUME \A k \in Jobs : job'[k].state \in Occupying
                                   => job[k].state \in Occupying /\ job'[k].prov = job[k].prov
          PROVE  B \subseteq A
      BY <2>1, <3>1
    <3>2. QED
      BY <1>2, <2>4, <3>1, OnlyPlaced
  <2>6. PICK d : d = Head(pass.plan)
    OBVIOUS
  <2>7. /\ Backed(1) /\ pass.plan[1] = d /\ 1 \in DOMAIN pass.plan /\ d.kind = "reserve"
        /\ Touches(d.job) /\ job[d.job].state \in Pending
        /\ job'[d.job].state = "PLACING" /\ job'[d.job].prov = d.prov
        /\ JobsOK /\ PassOK /\ PlanOK
    BY <1>2, <2>5, <2>6, PlacementBegins, HeadType DEF IInv, Placement
  <2>8. d.prov = p
    BY <2>1, <2>4, <2>7 DEF Touches
  <2>9. B = Load(p, 1)
    <3>1. \A m : m \in 1..1 <=> m = 1
      OBVIOUS
    <3>2. Load(p, 1) = {k \in Jobs : (job[k].state \in Occupying /\ job[k].prov = p) \/ k = d.job}
      BY <2>7, <2>8, <3>1 DEF Load
    <3>3. \A k \in Jobs : k \in B <=> k \in Load(p, 1)
      BY <2>1, <2>7, <2>8, <3>2 DEF Touches, Occupying
    <3>4. B \subseteq Jobs /\ Load(p, 1) \subseteq Jobs
      BY <2>1 DEF Load
    <3>5. QED
      BY <3>3, <3>4
  <2>10. QED
    BY <2>2, <2>6, <2>7, <2>8, <2>9 DEF Backed
<1>3. ASSUME IInv, [Next]_vars
      PROVE  \A j \in Jobs : job[j].state \in Pending /\ job'[j].state = "PLACING" =>
               \A d \in job[j].deps :
                  \/ job[d].state = "SUCCEEDED"
                  \/ d \in retried
                  \/ job[d].state \in Terminal /\ \E p \in Policies[j] : p.ignore
  <2> SUFFICES ASSUME NEW j \in Jobs, job[j].state \in Pending, job'[j].state = "PLACING"
               PROVE  Placeable(j)
    BY DEF Placeable
  <2>1. PICK ws \in Written : EnactReserve(ws)
    BY <1>3, OnlyPlaced DEF Pending, Occupying
  <2>2. PICK d : d = Head(pass.plan)
    OBVIOUS
  <2>3. Backed(1) /\ pass.plan[1] = d /\ Touches(d.job)
    BY <1>3, <2>1, <2>2, PlacementBegins, HeadType DEF IInv, Placement
  <2>4. j = d.job
    BY <2>3 DEF Touches, Pending
  <2>5. QED
    BY <2>3, <2>4 DEF Backed
<1>4. QED
  BY <1>1, <1>2, <1>3, Invariance, PTL DEF Spec, PlacedRightly, FreeFirst, WithinRoom, DepsMet
=============================================================================
