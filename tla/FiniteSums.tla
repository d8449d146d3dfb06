--------------------------- MODULE FiniteSums ---------------------------
(***************************************************************************)
(* Sums over finite sets, for the proofs about money, and folds over       *)
(* sequences, for those about logs: what the library's SumFunctionOnSet,   *)
(* MapThenSumSet and FoldLeft compute, whichever element they take first.  *)
(* The library defines them by recursion over the set; the inductions are  *)
(* on the well-founded ordering of the subsets.                            *)
(***************************************************************************)
EXTENDS Integers, Sequences, Functions, FiniteSetsExt, FiniteSetTheorems, WellFoundedInduction, TLAPS

\* Every non-empty set of natural numbers has a least member.
LEMMA NatLeast ==
  ASSUME NEW T, T \subseteq Nat, T # {}
  PROVE  \E x \in T : \A y \in T : x <= y
<1> DEFINE R == OpToRel(<, Nat)
<1>1. IsWellFoundedOn(R, Nat)
  BY NatLessThanWellFounded
<1>2. \A y, x \in Nat : y < x => <<y, x>> \in R
  BY DEF OpToRel
<1> HIDE DEF R
<1>3. PICK x \in T : \A y \in T : ~(<<y, x>> \in R)
  BY <1>1, WFMin
<1>4. \A y \in T : ~(y < x)
  BY <1>2, <1>3
<1>5. QED
  BY <1>4

\* Induction over the natural numbers, for a set in place of a predicate.
LEMMA NatSetInduction ==
  ASSUME NEW T, 0 \in T, \A n \in Nat : n \in T => n + 1 \in T
  PROVE  Nat \subseteq T
<1> SUFFICES ASSUME Nat \ T # {} PROVE FALSE
  OBVIOUS
<1>1. PICK x \in Nat \ T : \A y \in Nat \ T : x <= y
  BY NatLeast
<1>2. x - 1 \in Nat /\ x - 1 \in T
  BY <1>1
<1>3. QED
  BY <1>1, <1>2

\* Among the subsets of a finite set, a non-empty family has a minimal member.
LEMMA LeastSubset ==
  ASSUME NEW S, IsFiniteSet(S), NEW T, T \subseteq SUBSET S, T # {}
  PROVE  \E U \in T : \A V \in SUBSET U : V # U => V \notin T
<1>1. T \subseteq FiniteSubsetsOf(S)
  BY FS_FiniteSubsetsOfFinite
<1>2. PICK U \in T : \A V \in T : ~(<<V, U>> \in StrictSubsetOrdering(S))
  BY <1>1, FS_StrictSubsetOrderingWellFounded, WFMin
<1>3. QED
  BY <1>2 DEF StrictSubsetOrdering

\* How the sum over a set is computed: one element is chosen and set apart, the rest
\* is looked up in the table of the sums over the smaller sets.
Chosen(s) == CHOOSE x \in s : TRUE
Unrolled(f, g, s) == IF s = {} THEN 0 ELSE f[Chosen(s)] + g[s \ {Chosen(s)}]
IsTable(f, S, g) == g = [s \in SUBSET S |-> Unrolled(f, g, s)]
SumTable(f, S) == CHOOSE g : IsTable(f, S, g)

\* The sum of Functions is read from that table.
LEMMA SumByTable == ASSUME NEW f, NEW S PROVE SumFunctionOnSet(f, S) = SumTable(f, S)[S]
  BY DEF SumFunctionOnSet, FoldFunctionOnSet, MapThenFoldSet, SumTable, IsTable, Unrolled, Chosen

\* The chosen element is one of the set.
LEMMA ChosenIn == ASSUME NEW s, s # {} PROVE Chosen(s) \in s
  BY DEF Chosen

\* A table exists for a finite set, by induction on the cardinality up to which it
\* is filled in.
LEMMA SumTableExists ==
  ASSUME NEW S, IsFiniteSet(S), NEW f, \A x \in S : f[x] \in Nat
  PROVE  \E g \in [SUBSET S -> Nat] : IsTable(f, S, g)
<1> DEFINE Upto(g, n) == \A s \in SUBSET S : Cardinality(s) <= n => g[s] = Unrolled(f, g, s)
           T == {n \in Nat : \E g \in [SUBSET S -> Nat] : Upto(g, n)}
<1>1. \A s \in SUBSET S : IsFiniteSet(s) /\ Cardinality(s) \in Nat
  BY FS_Subset, FS_CardinalityType
<1>2. 0 \in T
  <2> DEFINE z == [s \in SUBSET S |-> 0]
  <2>1. \A s \in SUBSET S : Cardinality(s) <= 0 => s = {}
    BY <1>1, FS_EmptySet
  <2>2. Upto(z, 0)
    BY <2>1 DEF Unrolled
  <2>3. QED
    BY <2>2
<1>3. ASSUME NEW n \in Nat, n \in T PROVE n + 1 \in T
  <2>1. PICK g \in [SUBSET S -> Nat] : Upto(g, n)
    BY <1>3
  <2> DEFINE h == [s \in SUBSET S |-> Unrolled(f, g, s)]
  <2>2. h \in [SUBSET S -> Nat]
    BY ChosenIn DEF Unrolled
  <2>3. ASSUME NEW s \in SUBSET S, Cardinality(s) <= n + 1, s # {}
        PROVE  h[s] = Unrolled(f, h, s)
    <3> DEFINE r == s \ {Chosen(s)}
    <3>0. Chosen(s) \in s /\ IsFiniteSet(s) /\ Cardinality(s) \in Nat
      BY <1>1, <2>3, ChosenIn
    <3>1. r \in SUBSET S /\ Cardinality(r) = Cardinality(s) - 1
      <4>1. PICK c : c = Chosen(s)
        OBVIOUS
      <4>2. Cardinality(s \ {c}) = IF c \in s THEN Cardinality(s) - 1 ELSE Cardinality(s)
        BY <3>0, FS_RemoveElement, Zenon
      <4>3. c \in s
        BY <3>0, <4>1
      <4>4. QED
        BY <2>3, <4>1, <4>2, <4>3
    <3>2. Cardinality(r) <= n
      BY <2>3, <3>0, <3>1
    <3>3. h[r] = g[r]
      BY <2>1, <3>1, <3>2
    <3>4. QED
      BY <2>3, <3>1, <3>3 DEF Unrolled
  <2>4. h[{}] = Unrolled(f, h, {})
    BY DEF Unrolled
  <2> HIDE DEF h
  <2>5. Upto(h, n + 1)
    BY <2>3, <2>4
  <2>6. QED
    BY <2>2, <2>5
<1> HIDE DEF T
<1>4. Cardinality(S) \in T
  BY <1>1, <1>2, <1>3, NatSetInduction
<1>5. PICK g \in [SUBSET S -> Nat] : Upto(g, Cardinality(S))
  BY <1>4 DEF T
<1>6. \A s \in SUBSET S : Cardinality(s) <= Cardinality(S)
  BY FS_Subset
<1>7. QED
  BY <1>5, <1>6 DEF IsTable

\* The tables for a set and for a subset agree where both are defined.
LEMMA SumTablesAgree ==
  ASSUME NEW S, IsFiniteSet(S), NEW R \in SUBSET S, NEW f,
         NEW g, IsTable(f, S, g), NEW h, IsTable(f, R, h)
  PROVE  \A s \in SUBSET R : g[s] = h[s]
<1> DEFINE T == {s \in SUBSET R : g[s] # h[s]}
<1> SUFFICES ASSUME T # {} PROVE FALSE
  OBVIOUS
<1>1. IsFiniteSet(R)
  BY FS_Subset
<1>2. PICK U \in T : \A V \in SUBSET U : V # U => V \notin T
  <2> HIDE DEF T
  <2>1. T \subseteq SUBSET R
    BY DEF T
  <2>2. QED
    BY <1>1, <2>1, LeastSubset
<1>3. U \in SUBSET S /\ U \in SUBSET R
  OBVIOUS
<1>4. g[U] = Unrolled(f, g, U) /\ h[U] = Unrolled(f, h, U)
  BY <1>3 DEF IsTable
<1>5. CASE U = {}
  BY <1>4, <1>5 DEF Unrolled
<1>6. CASE U # {}
  <2>1. g[U \ {Chosen(U)}] = h[U \ {Chosen(U)}]
    BY <1>2, <1>6, ChosenIn
  <2>2. QED
    BY <1>4, <1>6, <2>1 DEF Unrolled
<1>7. QED
  BY <1>5, <1>6

\* The sum is a natural number, zero for the empty set, and one chosen element
\* more than the sum of the rest.
LEMMA SumUnrolled ==
  ASSUME NEW S, IsFiniteSet(S), NEW f, \A x \in S : f[x] \in Nat
  PROVE  /\ SumFunctionOnSet(f, S) \in Nat
         /\ SumFunctionOnSet(f, {}) = 0
         /\ S # {} => SumFunctionOnSet(f, S)
                        = f[Chosen(S)] + SumFunctionOnSet(f, S \ {Chosen(S)})
<1>1. ASSUME NEW R \in SUBSET S
      PROVE  IsTable(f, R, SumTable(f, R)) /\ SumTable(f, R)[R] \in Nat
  <2>1. IsFiniteSet(R) /\ \A x \in R : f[x] \in Nat
    BY FS_Subset
  <2>2. PICK g \in [SUBSET R -> Nat] : IsTable(f, R, g)
    BY <2>1, SumTableExists
  <2>3. IsTable(f, R, SumTable(f, R))
    BY <2>2 DEF SumTable
  <2>4. \A s \in SUBSET R : g[s] = SumTable(f, R)[s]
    BY <2>1, <2>2, <2>3, SumTablesAgree
  <2>5. QED
    BY <2>2, <2>3, <2>4
<1>2. \A R \in SUBSET S : SumTable(f, S)[R] = SumTable(f, R)[R]
  BY <1>1, SumTablesAgree
<1>3. \A R \in SUBSET S : SumTable(f, S)[R] = Unrolled(f, SumTable(f, S), R)
  BY <1>1 DEF IsTable
<1>4. SumTable(f, S)[{}] = 0
  BY <1>3 DEF Unrolled
<1>5. QED
  BY <1>1, <1>2, <1>3, <1>4, SumByTable DEF Unrolled

\* Any element, not only the chosen one, may be set apart first: the order in which
\* a sum is taken makes no difference.
LEMMA SumRemove ==
  ASSUME NEW S, IsFiniteSet(S), NEW f, \A x \in S : f[x] \in Nat, NEW y \in S
  PROVE  SumFunctionOnSet(f, S) = f[y] + SumFunctionOnSet(f, S \ {y})
<1> DEFINE Sum(s) == SumFunctionOnSet(f, s)
           T == {s \in SUBSET S : \E x \in s : Sum(s) # f[x] + Sum(s \ {x})}
<1>1. \A s \in SUBSET S : Sum(s) \in Nat /\ (s # {} => Sum(s) = f[Chosen(s)] + Sum(s \ {Chosen(s)}))
  BY FS_Subset, SumUnrolled
<1> HIDE DEF Sum
<1>2. T = {}
  <2> SUFFICES ASSUME T # {} PROVE FALSE
    OBVIOUS
  <2>1. PICK U \in T : \A V \in SUBSET U : V # U => V \notin T
    <3> HIDE DEF T
    <3>1. T \subseteq SUBSET S
      BY DEF T
    <3>2. QED
      BY <3>1, LeastSubset
  <2>2. PICK x \in U : Sum(U) # f[x] + Sum(U \ {x})
    OBVIOUS
  <2> DEFINE c == Chosen(U)
  <2>3. c \in U /\ c # x /\ Sum(U) = f[c] + Sum(U \ {c})
    BY <1>1, <2>2, ChosenIn
  <2> HIDE DEF c
  <2>4. Sum(U \ {c}) = f[x] + Sum((U \ {c}) \ {x})
    BY <2>1, <2>2, <2>3
  <2>5. Sum(U \ {x}) = f[c] + Sum((U \ {x}) \ {c})
    BY <2>1, <2>2, <2>3
  <2>6. (U \ {c}) \ {x} = (U \ {x}) \ {c}
    OBVIOUS
  <2>7. f[c] \in Nat /\ f[x] \in Nat /\ Sum((U \ {x}) \ {c}) \in Nat
    BY <1>1, <2>3
  <2>8. QED
    BY <2>2, <2>3, <2>4, <2>5, <2>6, <2>7
<1>3. QED
  BY <1>2 DEF Sum

\* Two functions that agree on a set have the same sum over it.
LEMMA SumSame ==
  ASSUME NEW S, IsFiniteSet(S), NEW f, \A x \in S : f[x] \in Nat,
         NEW g, \A x \in S : g[x] = f[x]
  PROVE  SumFunctionOnSet(g, S) = SumFunctionOnSet(f, S)
<1> DEFINE SumF(s) == SumFunctionOnSet(f, s)
           SumG(s) == SumFunctionOnSet(g, s)
           T == {s \in SUBSET S : SumG(s) # SumF(s)}
<1>1. \A s \in SUBSET S : IsFiniteSet(s)
  BY FS_Subset
<1>2. \A s \in SUBSET S : /\ s = {} => SumF(s) = 0 /\ SumG(s) = 0
                         /\ \A x \in s : SumF(s) = f[x] + SumF(s \ {x}) /\ SumG(s) = g[x] + SumG(s \ {x})
  <2> SUFFICES ASSUME NEW s \in SUBSET S
               PROVE  /\ s = {} => SumF(s) = 0 /\ SumG(s) = 0
                      /\ \A x \in s : SumF(s) = f[x] + SumF(s \ {x}) /\ SumG(s) = g[x] + SumG(s \ {x})
    OBVIOUS
  <2>1. IsFiniteSet(s) /\ (\A x \in s : f[x] \in Nat) /\ (\A x \in s : g[x] \in Nat)
    BY <1>1
  <2>2. s = {} => SumF(s) = 0 /\ SumG(s) = 0
    BY <2>1, SumUnrolled
  <2>3. \A x \in s : SumF(s) = f[x] + SumF(s \ {x})
    BY <2>1, SumRemove
  <2>4. \A x \in s : SumG(s) = g[x] + SumG(s \ {x})
    BY <2>1, SumRemove
  <2>5. QED
    BY <2>2, <2>3, <2>4
<1> HIDE DEF SumF, SumG
<1>3. T = {}
  <2> SUFFICES ASSUME T # {} PROVE FALSE
    OBVIOUS
  <2>1. PICK U \in T : \A V \in SUBSET U : V # U => V \notin T
    <3> HIDE DEF T
    <3>1. T \subseteq SUBSET S
      BY DEF T
    <3>2. QED
      BY <3>1, LeastSubset
  <2>2. PICK x \in U : TRUE
    BY <1>2
  <2>3. SumG(U \ {x}) = SumF(U \ {x})
    BY <2>1, <2>2
  <2>4. QED
    BY <1>2, <2>1, <2>2, <2>3
<1>4. QED
  BY <1>3 DEF SumF, SumG

\* A part of a sum of natural numbers is at most the whole.
LEMMA SumPart ==
  ASSUME NEW S, IsFiniteSet(S), NEW f, \A x \in S : f[x] \in Nat, NEW R \in SUBSET S
  PROVE  SumFunctionOnSet(f, R) <= SumFunctionOnSet(f, S)
<1> DEFINE Sum(s) == SumFunctionOnSet(f, s)
           T == {s \in SUBSET S : R \subseteq s /\ Sum(R) > Sum(s)}
<1>1. \A s \in SUBSET S : Sum(s) \in Nat /\ \A x \in s : Sum(s) = f[x] + Sum(s \ {x})
  BY FS_Subset, SumUnrolled, SumRemove
<1> HIDE DEF Sum
<1>2. T = {}
  <2> SUFFICES ASSUME T # {} PROVE FALSE
    OBVIOUS
  <2>1. PICK U \in T : \A V \in SUBSET U : V # U => V \notin T
    <3> HIDE DEF T
    <3>1. T \subseteq SUBSET S
      BY DEF T
    <3>2. QED
      BY <3>1, LeastSubset
  <2>2. U # R /\ Sum(R) \in Nat /\ Sum(U) \in Nat
    BY <1>1, <2>1
  <2>3. PICK x \in U : x \notin R
    BY <2>1, <2>2
  <2>4. U \ {x} \in SUBSET S /\ R \subseteq U \ {x} /\ U \ {x} # U
    BY <2>1, <2>3
  <2>5. Sum(R) <= Sum(U \ {x})
    BY <1>1, <2>1, <2>2, <2>4
  <2>6. Sum(U) = f[x] + Sum(U \ {x}) /\ f[x] \in Nat /\ Sum(U \ {x}) \in Nat
    BY <1>1, <2>3, <2>4
  <2>7. QED
    BY <2>1, <2>2, <2>5, <2>6
<1>3. Sum(R) \in Nat /\ Sum(S) \in Nat /\ ~(Sum(R) > Sum(S))
  BY <1>1, <1>2
<1>4. QED
  BY <1>3 DEF Sum

\* The values of a function over a finite set are finitely many.
LEMMA ImageFinite ==
  ASSUME NEW S, IsFiniteSet(S), NEW f
  PROVE  IsFiniteSet({f[x] : x \in S})
<1> DEFINE T == {f[x] : x \in S}
           g == [x \in S |-> f[x]]
<1>1. g \in Surjection(S, T)
  BY DEF Surjection
<1> HIDE DEF g, T
<1>2. IsFiniteSet(T)
  BY <1>1, FS_Surjection
<1>3. QED
  BY <1>2 DEF T

\* A sum over indices that are all one further on.
LEMMA SumShift ==
  ASSUME NEW S, IsFiniteSet(S), S \subseteq Int, NEW f, NEW g,
         \A i \in S : g[i] \in Nat /\ f[i + 1] = g[i]
  PROVE  SumFunctionOnSet(f, {i + 1 : i \in S}) = SumFunctionOnSet(g, S)
<1> DEFINE Up(s) == {i + 1 : i \in s}
           SumF(s) == SumFunctionOnSet(f, s)
           SumG(s) == SumFunctionOnSet(g, s)
           T == {s \in SUBSET S : SumF(Up(s)) # SumG(s)}
<1>1. ASSUME NEW s \in SUBSET S
      PROVE  /\ s = {} => SumF(Up(s)) = 0 /\ SumG(s) = 0
             /\ \A x \in s : /\ SumF(Up(s)) = f[x + 1] + SumF(Up(s) \ {x + 1})
                            /\ SumG(s) = g[x] + SumG(s \ {x})
  <2>1. IsFiniteSet(s) /\ \A x \in s : g[x] \in Nat
    BY FS_Subset
  <2>2. IsFiniteSet(Up(s)) /\ \A y \in Up(s) : f[y] \in Nat
    <3> DEFINE h == [x \in s |-> x + 1]
    <3>1. Up(s) = {h[x] : x \in s}
      OBVIOUS
    <3>2. IsFiniteSet({h[x] : x \in s})
      <4> HIDE DEF h
      <4>1. QED
        BY <2>1, ImageFinite, ZenonT(40)
    <3>3. \A y \in Up(s) : f[y] \in Nat
      OBVIOUS
    <3>4. QED
      BY <3>1, <3>2, <3>3
  <2>3. s = {} => SumF(Up(s)) = 0 /\ SumG(s) = 0
    <3>1. s = {} => Up(s) = {}
      OBVIOUS
    <3> HIDE DEF Up
    <3>2. QED
      BY <2>1, <2>2, <3>1, SumUnrolled
  <2>4. \A x \in s : SumG(s) = g[x] + SumG(s \ {x})
    BY <2>1, SumRemove
  <2>5. \A y \in Up(s) : SumF(Up(s)) = f[y] + SumF(Up(s) \ {y})
    <3> HIDE DEF Up
    <3>1. QED
      BY <2>2, SumRemove
  <2>6. QED
    BY <2>3, <2>4, <2>5
<1>2. \A s \in SUBSET S : \A x \in s : Up(s) \ {x + 1} = Up(s \ {x})
  <2> SUFFICES ASSUME NEW s \in SUBSET S, NEW x \in s PROVE Up(s) \ {x + 1} = Up(s \ {x})
    OBVIOUS
  <2>1. \A y \in s : y \in Int /\ (y + 1 = x + 1 <=> y = x)
    OBVIOUS
  <2>2. \A z : z \in Up(s) \ {x + 1} <=> z \in Up(s \ {x})
    BY <2>1
  <2>3. QED
    BY <2>2
<1> HIDE DEF Up, SumF, SumG
<1>3. T = {}
  <2> SUFFICES ASSUME T # {} PROVE FALSE
    OBVIOUS
  <2>1. PICK U \in T : \A V \in SUBSET U : V # U => V \notin T
    <3> HIDE DEF T
    <3>1. T \subseteq SUBSET S
      BY DEF T
    <3>2. QED
      BY <3>1, LeastSubset
  <2>2. PICK x \in U : TRUE
    BY <1>1
  <2>3. SumF(Up(U \ {x})) = SumG(U \ {x})
    BY <2>1, <2>2
  <2>4. f[x + 1] = g[x] /\ Up(U) \ {x + 1} = Up(U \ {x})
    BY <1>2, <2>1, <2>2
  <2>5. /\ SumF(Up(U)) = f[x + 1] + SumF(Up(U) \ {x + 1})
        /\ SumG(U) = g[x] + SumG(U \ {x})
    BY <1>1, <2>1, <2>2
  <2>6. SumF(Up(U)) = SumG(U)
    BY <2>3, <2>4, <2>5
  <2>7. QED
    BY <2>1, <2>6
<1>4. QED
  BY <1>3 DEF SumF, SumG, Up
-----------------------------------------------------------------------------
(* Folds of a sequence.  The library folds over the set of the indices,    *)
(* the greatest one last.                                                  *)

\* The greatest of some indices, and what is left without it.
LEMMA MaxOf ==
  ASSUME NEW n \in Nat, NEW S \in SUBSET (1..n), S # {}
  PROVE  Max(S) \in S /\ \A y \in S : y <= Max(S)
<1> DEFINE T == {n - x : x \in S}
<1>0. \A x \in S : x \in Nat /\ n - x \in Nat
  OBVIOUS
<1>1. T \subseteq Nat /\ T # {}
  BY <1>0
<1>2. PICK v \in T : \A y \in T : v <= y
  <2> HIDE DEF T
  <2>1. QED
    BY <1>1, NatLeast
<1>3. PICK x \in S : v = n - x
  BY <1>2
<1>4. ASSUME NEW y \in S PROVE x >= y
  <2>1. n - y \in T
    OBVIOUS
  <2>2. n - x <= n - y /\ x \in Nat /\ y \in Nat
    <3> HIDE DEF T
    <3>1. v <= n - y
      BY <1>2, <2>1
    <3>2. QED
      BY <1>0, <1>3, <3>1
  <2>3. QED
    BY <2>2
<1>5. \E z \in S : \A y \in S : z >= y
  BY <1>3, <1>4
<1>6. Max(S) \in S /\ \A y \in S : Max(S) >= y
  BY <1>5 DEF Max
<1>7. QED
  BY <1>6

\* Of an interval, the last index.
LEMMA MaxOfInterval ==
  ASSUME NEW n \in Nat \ {0}
  PROVE  Max(1..n) = n /\ (1..n) \ {n} = 1..(n - 1)
<1>1. n \in 1..n /\ 1..n # {}
  OBVIOUS
<1>2. Max(1..n) \in 1..n /\ n <= Max(1..n)
  BY <1>1, MaxOf
<1>3. QED
  BY <1>2

\* A fold is read from the table of the folds over the smaller sets.
FoldRow(t, g, base, S) == IF S = {} THEN base ELSE g[<<t[S \ {Max(S)}], Max(S)>>]

IsFold(t, g, base, n) == \A S \in SUBSET (1..n) : t[S] = FoldRow(t, g, base, S)

\* There is such a table for every step that keeps to a set.
LEMMA FoldTableExists ==
  ASSUME NEW n \in Nat, NEW X, NEW base \in X, NEW g \in [X \X (1..n) -> X]
  PROVE  \E t \in [SUBSET (1..n) -> X] : IsFold(t, g, base, n)
<1> DEFINE I == 1..n
           Upto(t, k) == \A S \in SUBSET I : Cardinality(S) <= k => t[S] = FoldRow(t, g, base, S)
           T == {k \in Nat : \E t \in [SUBSET I -> X] : Upto(t, k)}
<1>0. IsFiniteSet(I) /\ \A S \in SUBSET I : S # {} => Max(S) \in S /\ Max(S) \in I
  <2>1. IsFiniteSet(I)
    BY FS_Interval
  <2>2. ASSUME NEW S \in SUBSET I, S # {} PROVE Max(S) \in S
    BY <2>2, MaxOf
  <2>3. QED
    BY <2>1, <2>2
<1> HIDE DEF I
<1>1. \A S \in SUBSET I : IsFiniteSet(S) /\ Cardinality(S) \in Nat /\ Cardinality(S) <= Cardinality(I)
  BY <1>0, FS_Subset, FS_CardinalityType
<1>2. 0 \in T
  <2> DEFINE z == [S \in SUBSET I |-> base]
  <2>1. \A S \in SUBSET I : Cardinality(S) <= 0 => S = {}
    BY <1>1, FS_EmptySet
  <2>2. Upto(z, 0) /\ z \in [SUBSET I -> X]
    BY <2>1 DEF FoldRow
  <2>3. QED
    BY <2>2
<1>3. ASSUME NEW k \in Nat, k \in T PROVE k + 1 \in T
  <2>1. PICK t \in [SUBSET I -> X] : Upto(t, k)
    BY <1>3
  <2> DEFINE h == [S \in SUBSET I |-> FoldRow(t, g, base, S)]
  <2>2. h \in [SUBSET I -> X]
    <3>1. ASSUME NEW S \in SUBSET I PROVE FoldRow(t, g, base, S) \in X
      <4>1. CASE S = {}
        BY <4>1 DEF FoldRow
      <4>2. CASE S # {}
        <5>1. <<t[S \ {Max(S)}], Max(S)>> \in X \X (1..n)
          BY <1>0, <4>2 DEF I
        <5>2. g[<<t[S \ {Max(S)}], Max(S)>>] \in X
          BY <5>1
        <5>3. QED
          BY <4>2, <5>2 DEF FoldRow
      <4>3. QED
        BY <4>1, <4>2
    <3>2. QED
      BY <3>1
  <2>3. ASSUME NEW S \in SUBSET I, Cardinality(S) <= k + 1, S # {}
        PROVE  h[S] = FoldRow(h, g, base, S)
    <3> DEFINE r == S \ {Max(S)}
    <3>1. Max(S) \in S /\ IsFiniteSet(S) /\ Cardinality(S) \in Nat
      BY <1>0, <1>1, <2>3
    <3>2. r \in SUBSET I /\ Cardinality(r) = Cardinality(S) - 1
      BY <3>1, FS_RemoveElement
    <3>3. Cardinality(r) <= k
      BY <2>3, <3>1, <3>2
    <3>4. h[r] = t[r]
      BY <2>1, <3>2, <3>3
    <3>5. QED
      BY <2>3, <3>2, <3>4 DEF FoldRow
  <2>4. h[{}] = FoldRow(h, g, base, {})
    BY DEF FoldRow
  <2> HIDE DEF h
  <2>5. Upto(h, k + 1)
    BY <2>3, <2>4
  <2>6. QED
    BY <2>2, <2>5
<1> HIDE DEF T
<1>4. Cardinality(I) \in T
  BY <1>0, <1>1, <1>2, <1>3, NatSetInduction
<1>5. PICK t \in [SUBSET I -> X] : Upto(t, Cardinality(I))
  BY <1>4 DEF T
<1>6. QED
  BY <1>1, <1>5 DEF I, IsFold

\* Two tables that go on alike are alike.
GoOnAlike(t, u, n) ==
    /\ t[{}] = u[{}]
    /\ \A S \in SUBSET (1..n) :
         S # {} /\ t[S \ {Max(S)}] = u[S \ {Max(S)}] => t[S] = u[S]

LEMMA FoldsAgree ==
  ASSUME NEW n \in Nat, NEW t, NEW u, GoOnAlike(t, u, n)
  PROVE  \A S \in SUBSET (1..n) : t[S] = u[S]
<1> DEFINE T == {S \in SUBSET (1..n) : t[S] # u[S]}
<1> SUFFICES ASSUME T # {} PROVE FALSE
  OBVIOUS
<1>1. PICK U \in T : \A V \in SUBSET U : V # U => V \notin T
  <2>1. IsFiniteSet(1..n) /\ T \subseteq SUBSET (1..n)
    BY FS_Interval
  <2> HIDE DEF T
  <2>2. QED
    BY <2>1, LeastSubset
<1>2. U # {} /\ U \in SUBSET (1..n)
  BY <1>1 DEF GoOnAlike
<1>3. Max(U) \in U
  BY <1>2, MaxOf
<1>4. t[U \ {Max(U)}] = u[U \ {Max(U)}]
  BY <1>1, <1>2, <1>3
<1>5. QED
  BY <1>1, <1>2, <1>4 DEF GoOnAlike
=============================================================================
