--------------------------- MODULE BackendsProofs ---------------------------
(***************************************************************************)
(* Proofs about module Backends: what a confirmed release leaves behind,   *)
(* how often a placement runs, and what a verdict is evidence of.          *)
(*                                                                         *)
(* The inductive invariant ties the adapter's handles to the provider's    *)
(* side, family by family: outside kaggle the one payload that may run is  *)
(* the one the job's directory names; on kaggle it is the last kernel; a   *)
(* rented machine is the one the handle holds.  Where the property holds   *)
(* only of calls that were heard, so does the conjunct.                    *)
(***************************************************************************)
EXTENDS Backends, FiniteSetTheorems, TLAPS

Running(w) == {i \in DOMAIN w.runs : w.runs[i].st \in Unsettled}
Standing(w) == {b \in DOMAIN w.boxes : w.boxes[b] # "gone"}

\* The families whose machine is rented.
Hosting == kind \in {"colab", "market"}
Heard == ~blurred /\ canStop

\* A market whose instances are found by the job's label.
Labelled == kind = "market" /\ labels

\* A family and a history in which at most one machine is ever up.
Single == Labelled \/ (Hosting /\ ~blurred)

Runs == [of : Nat, box : Nat, st : {"queued", "on", "ok", "dead"}]
Dirs == [there : BOOLEAN, pid : Nat, result : Nat]
Worlds == [runs : Seq(Runs), boxes : Seq({"warming", "up", "gone"}), dir : Dirs]

\* The bounds of TypeOK, of the provider's side.
Bounded(w) ==
    /\ w \in Worlds
    /\ \A i \in DOMAIN w.runs : w.runs[i].of \in 1..attempt /\ w.runs[i].box \in 0..Len(w.boxes)
    /\ w.dir.pid \in 0..Last(w) /\ w.dir.result \in 0..Last(w)

\* The job's directory is in a machine that stands, where there is one.
Homed(w) == w.dir = NoDir \/ (w.dir.pid # 0 /\ w.runs[w.dir.pid].box \in Standing(w))

\* A machine holds what was started in it, and the job's directory.
Housed(w) ==
    /\ ~Hosting => Standing(w) = {}
    /\ Hosting => \A i \in Running(w) : w.runs[i].box \in Standing(w)
    /\ Hosting => Homed(w)

Shape(w) == Bounded(w) /\ Housed(w)

\* What every move of the provider's side keeps.
Grows(w, v) ==
    /\ Last(v) \in Nat /\ Len(v.boxes) \in Nat
    /\ Last(w) <= Last(v) /\ Len(w.boxes) <= Len(v.boxes)
    /\ \A i \in DOMAIN w.runs : /\ i \in DOMAIN v.runs
                                /\ v.runs[i].of = w.runs[i].of /\ v.runs[i].box = w.runs[i].box

Outcomes == {"none", "ended", "lost", "cancelled", "unwound"}
Told == [what : Outcomes, of : Nat]

Fine(h) == h = None \/ (h \in Handles /\ h.run <= Last(world) /\ h.box <= Len(world.boxes))

Typed ==
    /\ kind \in Kinds /\ canStop \in BOOLEAN /\ labels \in BOOLEAN
    /\ kind # "kaggle" => canStop
    /\ stage \in {"idle", "rented", "ready", "launched", "live", "ending", "over"}
    /\ attempt \in 1..MaxAttempts
    /\ Fine(handle) /\ Fine(saved)
    /\ cached \in 0..Last(world)
    /\ told \in Told /\ told.of <= Last(world)
    /\ released \in BOOLEAN /\ blurred \in BOOLEAN /\ faults \in 0..MaxFaults

----------------------------------------------------------------------------
(***************************************************************************)
(* The provider's side under each of its moves.                            *)
(***************************************************************************)
\* A sequence with one entry replaced.
LEMMA SetAt ==
    ASSUME NEW S, NEW s \in Seq(S), NEW i \in DOMAIN s, NEW x \in S
    PROVE  LET t == [s EXCEPT ![i] = x]
           IN  /\ t \in Seq(S) /\ Len(t) = Len(s) /\ DOMAIN t = DOMAIN s
               /\ t[i] = x /\ \A j \in DOMAIN s : j # i => t[j] = s[j]
<1> DEFINE t == [s EXCEPT ![i] = x]
<1>1. s \in [1..Len(s) -> S] /\ Len(s) \in Nat
  OBVIOUS
<1>2. t \in [1..Len(s) -> S]
  BY <1>1
<1>3. t \in Seq(S) /\ Len(t) = Len(s)
  BY <1>1, <1>2
<1> QED
  BY <1>1, <1>2, <1>3

\* The platform moves a payload that has not ended: the others, the machines
\* and the directory stay.
LEMMA StatusShape ==
    ASSUME NEW w, Shape(w), NEW i \in Running(w), NEW st \in {"on", "ok", "dead"}
    PROVE  LET v == [w EXCEPT !.runs[i].st = st]
           IN  /\ Shape(v) /\ Grows(w, v)
               /\ Running(v) = IF st = "on" THEN Running(w) ELSE Running(w) \ {i}
               /\ Standing(v) = Standing(w)
               /\ Last(v) = Last(w) /\ v.boxes = w.boxes /\ v.dir = w.dir
<1> DEFINE v == [w EXCEPT !.runs[i].st = st]
           x == [w.runs[i] EXCEPT !.st = st]
           t == [w.runs EXCEPT ![i] = x]
<1>1. w \in Worlds /\ Len(w.boxes) \in Nat /\ Last(w) \in Nat /\ DOMAIN w.runs = 1..Last(w)
  BY DEF Shape, Bounded, Worlds, Last
<1>2. i \in DOMAIN w.runs /\ w.runs \in Seq(Runs) /\ w.runs[i] \in Runs
  BY <1>1 DEF Running, Worlds
<1>3. x \in Runs /\ x.of = w.runs[i].of /\ x.box = w.runs[i].box /\ x.st = st
  BY <1>2 DEF Runs
<1>4. v = [w EXCEPT !.runs = t]
  OBVIOUS
<1> HIDE DEF x
<1>5. /\ t \in Seq(Runs) /\ Len(t) = Len(w.runs) /\ DOMAIN t = DOMAIN w.runs
      /\ t[i] = x /\ \A j \in DOMAIN w.runs : j # i => t[j] = w.runs[j]
  BY <1>2, <1>3, SetAt
<1> HIDE DEF t, v
<1>6. v \in Worlds /\ v.runs = t /\ v.boxes = w.boxes /\ v.dir = w.dir
  BY <1>4, <1>5, <1>1 DEF Worlds
<1>7. \A j \in DOMAIN w.runs : t[j].of = w.runs[j].of /\ t[j].box = w.runs[j].box
  BY <1>3, <1>5
<1>8. Running(v) = IF st = "on" THEN Running(w) ELSE Running(w) \ {i}
  BY <1>3, <1>5, <1>6 DEF Running, Unsettled
<1>9. Standing(v) = Standing(w) /\ Last(v) = Last(w)
  BY <1>5, <1>6 DEF Standing, Last
<1>10. Grows(w, v)
  BY <1>5, <1>6, <1>7, <1>9, <1>1 DEF Grows
<1>11. Bounded(v)
  BY <1>5, <1>6, <1>7, <1>9 DEF Shape, Bounded
<1>12. Housed(v)
  <2>1. Homed(w) => Homed(v)
    <3>1. w.dir.pid \in 0..Last(w)
      BY DEF Shape, Bounded
    <3>2. w.dir.pid # 0 => t[w.dir.pid].box = w.runs[w.dir.pid].box
      BY <1>1, <1>7, <3>1
    <3> QED
      BY <1>6, <1>9, <3>2 DEF Homed
  <2> QED
    BY <2>1, <1>5, <1>6, <1>7, <1>8, <1>9 DEF Shape, Housed, Running
<1> QED
  BY <1>6, <1>8, <1>9, <1>10, <1>11, <1>12 DEF Shape, v

\* The provider's side as it stands is a move of itself.
LEMMA StillShape ==
    ASSUME NEW w, Shape(w)
    PROVE  Grows(w, w) /\ Last(w) \in Nat /\ Len(w.boxes) \in Nat /\ DOMAIN w.runs = 1..Last(w)
           /\ DOMAIN w.boxes = 1..Len(w.boxes) /\ w.dir \in Dirs
BY DEF Shape, Bounded, Worlds, Last, Grows

LEMMA GrowsTwice ==
    ASSUME NEW u, NEW v, NEW w, Grows(u, v), Grows(v, w), Last(u) \in Nat, Len(u.boxes) \in Nat
    PROVE  Grows(u, w)
BY DEF Grows

\* A payload is killed.
LEMMA KillShape ==
    ASSUME NEW w, Shape(w), NEW i
    PROVE  LET v == Kill(w, i)
           IN  /\ Shape(v) /\ Grows(w, v)
               /\ Running(v) = Running(w) \ {i} /\ Standing(v) = Standing(w)
               /\ Last(v) = Last(w) /\ v.boxes = w.boxes /\ v.dir = w.dir
<1>1. CASE ~Alive(w, i)
  <2>1. Kill(w, i) = w /\ i \notin Running(w)
    BY <1>1 DEF Kill, Alive, Running
  <2>2. Running(w) \ {i} = Running(w)
    BY <2>1
  <2> QED
    BY <2>1, <2>2, StillShape
<1>2. CASE Alive(w, i)
  <2>1. Kill(w, i) = [w EXCEPT !.runs[i].st = "dead"] /\ i \in Running(w)
    BY <1>2 DEF Kill, Alive, Running
  <2> QED
    <3> DEFINE v == [w EXCEPT !.runs[i].st = "dead"]
    <3>1. /\ Shape(v) /\ Grows(w, v)
          /\ Running(v) = IF "dead" = "on" THEN Running(w) ELSE Running(w) \ {i}
          /\ Standing(v) = Standing(w)
          /\ Last(v) = Last(w) /\ v.boxes = w.boxes /\ v.dir = w.dir
      BY <2>1, StatusShape
    <3>2. Running(v) = Running(w) \ {i}
      BY <3>1
    <3>3. Kill(w, i) = v
      BY <2>1
    <3> HIDE DEF v
    <3> QED
      BY <3>1, <3>2, <3>3
<1> QED
  BY <1>1, <1>2

\* A sequence of machines with one more, or one gone; a sequence of runs too.
LEMMA AppendAt ==
    ASSUME NEW S, NEW s \in Seq(S), NEW x \in S
    PROVE  LET t == Append(s, x)
           IN  /\ t \in Seq(S) /\ Len(t) = Len(s) + 1 /\ DOMAIN t = DOMAIN s \cup {Len(s) + 1}
               /\ Len(s) + 1 \notin DOMAIN s
               /\ t[Len(s) + 1] = x /\ \A j \in DOMAIN s : t[j] = s[j]
OBVIOUS

\* The machine b goes: what ran in it ends, and the directory goes with it.
LEMMA DestroyedShape ==
    ASSUME NEW w, Shape(w), Hosting, NEW b
    PROVE  LET v == Destroyed(w, b)
           IN  /\ Shape(v) /\ Grows(w, v) /\ Last(v) = Last(w)
               /\ Standing(v) = Standing(w) \ {b}
               /\ Running(v) \subseteq {i \in Running(w) : w.runs[i].box # b}
               /\ v.dir = NoDir \/ v.dir = w.dir
<1> DEFINE v == Destroyed(w, b)
<1>1. w \in Worlds /\ Len(w.boxes) \in Nat /\ Last(w) \in Nat /\ DOMAIN w.runs = 1..Last(w)
  BY DEF Shape, Bounded, Worlds, Last
<1>2. CASE ~Up(w, b)
  <2>1. v = w /\ b \notin Standing(w)
    BY <1>2 DEF Destroyed, Up, Standing
  <2>2. \A i \in Running(w) : w.runs[i].box # b
    BY <2>1 DEF Shape, Housed
  <2>3. Grows(w, w)
    BY <1>1 DEF Grows
  <2> HIDE DEF v
  <2> QED
    BY <2>1, <2>2, <2>3 DEF v
<1>3. CASE Up(w, b)
  <2> DEFINE End(i) == IF w.runs[i].box = b /\ w.runs[i].st \in Unsettled
                       THEN [w.runs[i] EXCEPT !.st = "dead"] ELSE w.runs[i]
             t == [i \in DOMAIN w.runs |-> End(i)]
             m == [w.boxes EXCEPT ![b] = "gone"]
             d == IF Holds(w, b) THEN NoDir ELSE w.dir
  <2>1. v = [w EXCEPT !.boxes = m, !.dir = d, !.runs = t]
    BY <1>1, <1>3 DEF Destroyed, Worlds
  <2>2. /\ b \in DOMAIN w.boxes /\ b \in Standing(w)
        /\ w.boxes \in Seq({"warming", "up", "gone"}) /\ w.runs \in Seq(Runs)
    BY <1>1, <1>3 DEF Up, Standing, Worlds
  <2>3. ASSUME NEW i \in DOMAIN w.runs
        PROVE  /\ End(i) \in Runs /\ End(i).of = w.runs[i].of /\ End(i).box = w.runs[i].box
               /\ End(i).st \in Unsettled => w.runs[i].st \in Unsettled /\ w.runs[i].box # b
    <3>1. w.runs[i] \in Runs
      BY <2>2
    <3> QED
      BY <3>1 DEF Runs, Unsettled
  <2> HIDE DEF End
  <2>4. t \in [1..Last(w) -> Runs]
    BY <1>1, <2>3
  <2>5. t \in Seq(Runs) /\ Len(t) = Last(w) /\ DOMAIN t = DOMAIN w.runs
    BY <1>1, <2>4
  <2>6. /\ m \in Seq({"warming", "up", "gone"}) /\ Len(m) = Len(w.boxes)
        /\ DOMAIN m = DOMAIN w.boxes
        /\ m[b] = "gone" /\ \A j \in DOMAIN w.boxes : j # b => m[j] = w.boxes[j]
    BY <2>2, SetAt
  <2>7. \A i \in DOMAIN w.runs : t[i] = End(i)
    OBVIOUS
  <2>14. d \in Dirs /\ d.pid \in 0..Last(w) /\ d.result \in 0..Last(w) /\ d \in {NoDir, w.dir}
    BY <1>1 DEF Shape, Bounded, Worlds, NoDir, Dirs
  <2>15. d # NoDir => ~Holds(w, b) /\ d = w.dir
    OBVIOUS
  <2> HIDE DEF t, m, v, d
  <2>8. v.boxes = m /\ v.dir = d /\ v.runs = t /\ v \in Worlds
    BY <2>1, <2>5, <2>6, <2>14, <1>1 DEF Worlds
  <2>9. Last(v) = Last(w) /\ Standing(v) = Standing(w) \ {b}
    BY <2>5, <2>6, <2>8 DEF Last, Standing
  <2>10. Running(v) \subseteq {i \in Running(w) : w.runs[i].box # b}
    BY <2>3, <2>5, <2>7, <2>8 DEF Running
  <2>11. Grows(w, v)
    BY <1>1, <2>3, <2>5, <2>6, <2>7, <2>8, <2>9 DEF Grows
  <2>12. Bounded(v)
    BY <1>1, <2>3, <2>5, <2>6, <2>7, <2>8, <2>9, <2>14, SMTT(40) DEF Shape, Bounded
  <2>13. Housed(v)
    <3>1. \A i \in Running(v) : w.runs[i].box \in Standing(w) \ {b}
      BY <2>10 DEF Shape, Housed
    <3>2. \A i \in Running(v) : v.runs[i].box = w.runs[i].box
      BY <2>3, <2>5, <2>7, <2>8 DEF Running
    <3>3. Homed(v)
      <4>1. CASE d = NoDir
        BY <2>8, <4>1 DEF Homed
      <4>2. CASE d # NoDir
        <5>1. d = w.dir /\ w.dir.pid # 0 /\ w.runs[w.dir.pid].box \in Standing(w)
              /\ w.runs[w.dir.pid].box # b
          BY <2>15, <4>2 DEF Shape, Housed, Homed, Holds
        <5>2. w.dir.pid \in DOMAIN w.runs
          BY <1>1, <2>14, <5>1
        <5>3. v.runs[w.dir.pid].box = w.runs[w.dir.pid].box
          BY <2>3, <2>7, <2>8, <5>2
        <5> QED
          BY <2>8, <2>9, <5>1, <5>3 DEF Homed
      <4> QED
        BY <4>1, <4>2
    <3> QED
      BY <3>1, <3>2, <3>3, <2>8, <2>9 DEF Housed
  <2> QED
    BY <2>8, <2>9, <2>10, <2>11, <2>12, <2>13, <2>14 DEF Shape, v
<1> QED
  BY <1>2, <1>3

\* A payload begins: the last one, of this attempt, named by the directory.
LEMMA StartedShape ==
    ASSUME NEW w, Shape(w), NEW b \in 0..Len(w.boxes), Hosting => b \in Standing(w),
           attempt \in Nat \ {0}
    PROVE  LET v == Started(w, b)
           IN  /\ Shape(v) /\ Grows(w, v) /\ Last(v) = Last(w) + 1
               /\ Standing(v) = Standing(w) /\ v.boxes = w.boxes
               /\ Running(v) = Running(w) \cup {Last(v)} /\ v.runs[Last(v)].of = attempt
               /\ kind = "kaggle" => v.dir = w.dir
               /\ kind # "kaggle" => /\ v.dir.there /\ v.dir.pid = Last(v)
                                     /\ v.dir.result = w.dir.result
<1> DEFINE v == Started(w, b)
           x == [of |-> attempt, box |-> b, st |-> "queued"]
           t == Append(w.runs, x)
           d == IF kind = "kaggle" THEN w.dir
                ELSE [w.dir EXCEPT !.there = TRUE, !.pid = Last(w) + 1]
<1>1. /\ w \in Worlds /\ Len(w.boxes) \in Nat /\ Last(w) \in Nat /\ DOMAIN w.runs = 1..Last(w)
      /\ w.runs \in Seq(Runs) /\ w.dir \in Dirs
  BY DEF Shape, Bounded, Worlds, Last
<1>2. x \in Runs /\ x.of = attempt /\ x.box = b /\ x.st = "queued"
  BY <1>1 DEF Runs
<1>3. v = [w EXCEPT !.runs = t, !.dir = d]
  BY DEF Started
<1>4. /\ d \in Dirs
      /\ kind = "kaggle" => d = w.dir
      /\ kind # "kaggle" => d.there /\ d.pid = Last(w) + 1 /\ d.result = w.dir.result
  <2>1. CASE kind = "kaggle"
    BY <2>1, <1>1
  <2>2. CASE kind # "kaggle"
    <3>1. d = [w.dir EXCEPT !.there = TRUE, !.pid = Last(w) + 1]
      BY <2>2
    <3>2. d = [there |-> TRUE, pid |-> Last(w) + 1, result |-> w.dir.result]
      BY <3>1, <1>1 DEF Dirs
    <3>3. w.dir.result \in Nat /\ Last(w) + 1 \in Nat
      BY <1>1 DEF Dirs
    <3> HIDE DEF d
    <3> QED
      BY <3>2, <3>3, <2>2 DEF Dirs
  <2> QED
    BY <2>1, <2>2
<1> HIDE DEF x, d
<1>5. /\ t \in Seq(Runs) /\ Len(t) = Last(w) + 1 /\ DOMAIN t = DOMAIN w.runs \cup {Last(w) + 1}
      /\ Last(w) + 1 \notin DOMAIN w.runs
      /\ t[Last(w) + 1] = x /\ \A j \in DOMAIN w.runs : t[j] = w.runs[j]
  BY <1>1, <1>2, AppendAt DEF Last
<1> HIDE DEF t, v
<1>6. v.runs = t /\ v.boxes = w.boxes /\ v.dir = d /\ v \in Worlds
  BY <1>1, <1>3, <1>4, <1>5 DEF Worlds
<1>7. Last(v) = Last(w) + 1 /\ Standing(v) = Standing(w)
  BY <1>5, <1>6 DEF Last, Standing
<1>8. Running(v) = Running(w) \cup {Last(v)}
  BY <1>2, <1>5, <1>6, <1>7 DEF Running, Unsettled
<1>9. Grows(w, v)
  BY <1>1, <1>5, <1>6, <1>7 DEF Grows
<1>10. Bounded(v)
  <2>1. \A i \in DOMAIN t : t[i].of \in 1..attempt /\ t[i].box \in 0..Len(w.boxes)
    BY <1>1, <1>2, <1>5 DEF Shape, Bounded
  <2>2. d.pid \in 0..(Last(w) + 1) /\ d.result \in 0..(Last(w) + 1)
    BY <1>1, <1>4 DEF Shape, Bounded
  <2> QED
    BY <2>1, <2>2, <1>6, <1>7 DEF Bounded
<1>11. Housed(v)
  <2>1. Hosting => Homed(v)
    <3>1. Hosting => kind # "kaggle"
      BY DEF Hosting
    <3>2. t[Last(w) + 1].box = b
      BY <1>2, <1>5
    <3>3. Last(w) + 1 # 0
      BY <1>1
    <3> QED
      BY <1>4, <1>6, <1>7, <3>1, <3>2, <3>3 DEF Homed
  <2>2. Hosting => \A i \in Running(v) : v.runs[i].box \in Standing(v)
    BY <1>2, <1>5, <1>6, <1>7, <1>8 DEF Shape, Housed, Running
  <2> QED
    BY <2>1, <2>2, <1>7 DEF Shape, Housed
<1>12. v.runs[Last(v)].of = attempt
  BY <1>2, <1>5, <1>6, <1>7
<1> QED
  BY <1>4, <1>6, <1>7, <1>8, <1>9, <1>10, <1>11, <1>12 DEF Shape, v

\* A machine is rented: the last one, and it stands.
LEMMA BoxedShape ==
    ASSUME NEW w, Shape(w), Hosting, NEW st \in {"warming", "up"}
    PROVE  LET v == Boxed(w, st)
           IN  /\ Shape(v) /\ Grows(w, v) /\ Last(v) = Last(w) /\ v.dir = NoDir
               /\ Len(v.boxes) = Len(w.boxes) + 1
               /\ Standing(v) = Standing(w) \cup {Len(v.boxes)} /\ Running(v) = Running(w)
<1> DEFINE v == Boxed(w, st)
           m == Append(w.boxes, st)
<1>1. /\ w \in Worlds /\ Len(w.boxes) \in Nat /\ Last(w) \in Nat /\ DOMAIN w.runs = 1..Last(w)
      /\ w.boxes \in Seq({"warming", "up", "gone"})
  BY DEF Shape, Bounded, Worlds, Last
<1>2. v = [w EXCEPT !.boxes = m, !.dir = NoDir]
  BY DEF Boxed
<1>10. NoDir \in Dirs /\ NoDir.pid = 0 /\ NoDir.result = 0
  BY DEF NoDir, Dirs
<1>3. /\ m \in Seq({"warming", "up", "gone"}) /\ Len(m) = Len(w.boxes) + 1
      /\ DOMAIN m = DOMAIN w.boxes \cup {Len(w.boxes) + 1}
      /\ m[Len(w.boxes) + 1] = st /\ \A j \in DOMAIN w.boxes : m[j] = w.boxes[j]
  BY <1>1, AppendAt
<1> HIDE DEF m, v
<1>4. v.runs = w.runs /\ v.boxes = m /\ v.dir = NoDir /\ v \in Worlds
  BY <1>1, <1>2, <1>3, <1>10 DEF Worlds
<1>5. Last(v) = Last(w) /\ Running(v) = Running(w)
  BY <1>4 DEF Last, Running
<1>6. Standing(v) = Standing(w) \cup {Len(v.boxes)}
  BY <1>1, <1>3, <1>4 DEF Standing
<1>7. Grows(w, v)
  BY <1>1, <1>3, <1>4, <1>5 DEF Grows
<1>8. Bounded(v)
  BY <1>1, <1>3, <1>4, <1>5, <1>10, SMTT(40) DEF Shape, Bounded
<1>9. Housed(v)
  BY <1>4, <1>5, <1>6 DEF Shape, Housed, Homed
<1> QED
  BY <1>3, <1>4, <1>5, <1>6, <1>7, <1>8, <1>9 DEF Shape, v

\* The job's directory is written, or removed on a host that stays.
LEMMA DirShape ==
    ASSUME NEW w, Shape(w), NEW d \in Dirs, Hosting => d \in {NoDir, w.dir} \/ (d.pid = w.dir.pid /\ d.pid # 0),
           d.pid \in 0..Last(w), d.result \in 0..Last(w)
    PROVE  LET v == [w EXCEPT !.dir = d]
           IN  /\ Shape(v) /\ Grows(w, v) /\ Last(v) = Last(w) /\ v.dir = d
               /\ Standing(v) = Standing(w) /\ Running(v) = Running(w)
<1> DEFINE v == [w EXCEPT !.dir = d]
<1>1. /\ w \in Worlds /\ Len(w.boxes) \in Nat /\ Last(w) \in Nat /\ DOMAIN w.runs = 1..Last(w)
  BY DEF Shape, Bounded, Worlds, Last
<1>2. v \in Worlds /\ v.runs = w.runs /\ v.boxes = w.boxes /\ v.dir = d
  BY <1>1 DEF Worlds
<1> HIDE DEF v
<1>3. Last(v) = Last(w) /\ Running(v) = Running(w) /\ Standing(v) = Standing(w)
  BY <1>2 DEF Last, Running, Standing
<1>4. Grows(w, v)
  BY <1>1, <1>2, <1>3 DEF Grows
<1>5. Hosting => Homed(v)
  BY <1>2, <1>3 DEF Shape, Housed, Homed, NoDir
<1>6. Shape(v)
  BY <1>1, <1>2, <1>3, <1>5 DEF Shape, Bounded, Housed
<1> QED
  BY <1>2, <1>3, <1>4, <1>6 DEF v

----------------------------------------------------------------------------
(***************************************************************************)
(* The inductive invariant.                                                *)
(***************************************************************************)
\* What each stage of a placement implies of the handles and of the verdict.
Phases ==
    /\ stage = "idle" => handle = None /\ saved = None
    /\ stage \in {"rented", "ready", "launched"} => saved = None
    /\ stage = "launched" => handle # None
    /\ stage = "live" => saved # None
    /\ stage \in {"rented", "ready", "launched", "live"} => told = Untold
    /\ released => stage \in {"idle", "over"}

\* Outside kaggle, as long as every call was heard: what runs is what the
\* directory names, of this attempt, and nothing once a result is there; a
\* placement that has not begun, or is over, left no directory.
DirFits ==
    (kind # "kaggle" /\ ~blurred) =>
        /\ Running(world) \subseteq {world.dir.pid}
        /\ world.dir.pid = 0 => world.dir = NoDir
        /\ world.dir.pid # 0 => world.dir.there /\ world.runs[world.dir.pid].of = attempt
        /\ world.dir.result # 0 => /\ Running(world) = {}
                                   /\ world.runs[world.dir.result].of = attempt
        /\ stage \in {"idle", "over"} => world.dir = NoDir

\* Kaggle, with a call to cancel: only the last kernel may run, and it is
\* the only one of its attempt; a remembered verdict is of one that ended.
KernelFits ==
    (kind = "kaggle" /\ Heard) =>
        /\ Running(world) \subseteq {Last(world)}
        /\ \A i \in DOMAIN world.runs :
               i < Last(world) \/ stage = "idle" => world.runs[i].of < attempt
        /\ stage \in {"idle", "over"} => Running(world) = {}
        /\ cached \notin Running(world)

\* At most one machine is up; none once the placement is over, and, without
\* labels, none that no handle remembers.
BoxesFit ==
    /\ Single => \A a, b \in Standing(world) : a = b
    /\ ~blurred /\ stage \in {"idle", "over"} => Standing(world) = {}
    /\ Labelled /\ released => Standing(world) = {}
    /\ ~blurred /\ kind = "market" /\ handle = None /\ saved = None /\ ~labels =>
           Standing(world) = {}

\* A handle reaches what its family would have to stop.
Fits(h) ==
    /\ kind = "ssh" /\ ~blurred /\ ~h.full => world.dir = NoDir
    /\ kind = "slurm" /\ ~blurred /\ stage # "over" =>
           h.full /\ h.run = world.dir.pid /\ h.run # 0
    /\ Single => Standing(world) \subseteq {h.box}

HandlesFit == (handle # None => Fits(handle)) /\ (saved # None => Fits(saved))

LostDead == told.what = "lost" => kind # "kaggle" /\ (~blurred => Running(world) = {})

EndedOwn ==
    (told.what = "ended" /\ ~blurred /\ kind \in {"ssh", "slurm", "market"}) =>
        told.of \in DOMAIN world.runs /\ world.runs[told.of].of = attempt

Placed == Phases /\ DirFits /\ KernelFits /\ BoxesFit /\ HandlesFit
Judged == LostDead /\ EndedOwn

Inv == Typed /\ Shape(world) /\ Placed /\ Judged

----------------------------------------------------------------------------
(***************************************************************************)
(* What is known of a placement.                                           *)
(***************************************************************************)
LEMMA Families ==
    ASSUME Typed
    PROVE  kind \in {"ssh", "slurm", "kaggle", "colab", "market"}
BY BackendsAssumption DEF Typed

\* The handle in memory, or the persisted one.
LEMMA KnownFits ==
    ASSUME Inv, Known # None
    PROVE  Known \in Handles /\ Fine(Known) /\ Fits(Known)
BY DEF Inv, Typed, Placed, HandlesFit, Known, Fine

LEMMA HandleFacts ==
    ASSUME NEW r \in Nat, NEW b \in Nat
    PROVE  Handle(r, b, TRUE) # None /\ Handle(r, b, FALSE) # None
<1>1. Handle(r, b, TRUE) \in Handles /\ Handle(r, b, FALSE) \in Handles
  BY DEF Handle, Handles
<1> QED
  BY <1>1, BackendsAssumption

\* What is found by the job's key is what is there.
LEMMA FoundFits ==
    ASSUME Inv, Found # None
    PROVE  Found \in Handles /\ Fine(Found) /\ Fits(Found)
<1> DEFINE W == Last(world)
<1>1. /\ W \in Nat /\ Len(world.boxes) \in Nat /\ DOMAIN world.runs = 1..W
      /\ DOMAIN world.boxes = 1..Len(world.boxes) /\ world.dir \in Dirs
  BY StillShape DEF Inv
<1>2. kind \in {"ssh", "slurm", "kaggle", "colab", "market"}
  BY Families DEF Inv
<1>3. CASE kind = "ssh"
  <2>1. Found = Handle(world.dir.pid, 0, TRUE) /\ world.dir.pid \in 0..W
    BY <1>3 DEF Found, HostFound, Inv, Shape, Bounded
  <2> HIDE DEF W
  <2> QED
    BY <1>1, <1>3, <2>1, BackendsAssumption DEF Handle, Handles, Fine, Fits, Single, Labelled, Hosting, W
<1>4. CASE kind = "slurm"
  <2> DEFINE mine == {i \in DOMAIN world.runs : Adoptable(world.runs[i].st)}
             j == CHOOSE i \in mine : TRUE
  <2>1. Found = Handle(j, 0, TRUE) /\ mine # {}
    BY <1>4 DEF Found, QueueFound
  <2>2. j \in mine
    BY <2>1
  <2>3. mine = Running(world)
    BY <1>4 DEF Adoptable, Running, Unsettled
  <2> HIDE DEF mine, j
  <2>4. j \in 1..W
    BY <2>2, <2>3, <1>1 DEF Running
  <2>5. ~blurred => j = world.dir.pid
    BY <2>2, <2>3, <1>4 DEF Inv, Placed, DirFits
  <2> HIDE DEF W
  <2>6. Found \in Handles /\ Found.run = j /\ Found.box = 0 /\ Found.full = TRUE
    BY <2>1, <2>4, <1>1, BackendsAssumption DEF Handle, Handles
  <2> QED
    BY <1>1, <1>4, <2>4, <2>5, <2>6 DEF Fine, Fits, Single, Labelled, Hosting, W
<1>5. CASE kind = "kaggle"
  <2>1. Found = Handle(W, 0, TRUE)
    BY <1>5 DEF Found, KernelFound
  <2> HIDE DEF W
  <2> QED
    BY <1>1, <1>5, <2>1, BackendsAssumption DEF Handle, Handles, Fine, Fits, Single, Labelled, Hosting, W
<1>6. CASE Hosting
  <2> DEFINE b == Named(world)
  <2>1. /\ Found = Handle(0, b, kind = "colab") /\ b # 0
    BY <1>6, HandleFacts DEF Found, SessionFound, InstanceFound, Hosting
  <2>2. b \in Standing(world)
    BY <2>1 DEF Named, Up, Standing
  <2> HIDE DEF b
  <2>3. b \in 1..Len(world.boxes)
    BY <2>2, <1>1 DEF Standing
  <2>4. Single => Standing(world) \subseteq {b}
    BY <2>2 DEF Inv, Placed, BoxesFit
  <2>5. Found \in Handles /\ Found.run = 0 /\ Found.box = b
    BY <2>1, <2>3, <1>1, BackendsAssumption DEF Handle, Handles
  <2> QED
    BY <1>1, <1>6, <2>3, <2>4, <2>5 DEF Fine, Fits, Hosting
<1> QED
  BY <1>2, <1>3, <1>4, <1>5, <1>6 DEF Hosting

\* An instance without a label, on a market where not every call was heard.
Hidden == kind = "market" /\ ~labels /\ blurred

\* What is neither known nor found is not there, as long as every call was
\* heard; a rented machine that is found by its key and is not does not stand.
LEMMA FoundNone ==
    ASSUME Inv, Known = None, Found = None
    PROVE  /\ ~Hidden => Standing(world) = {}
           /\ Heard => Running(world) = {}
           /\ (Hosting /\ ~Hidden) => world.dir = NoDir
           /\ kind = "ssh" => world.dir.pid = 0
<1> DEFINE W == Last(world)
<1>1. /\ W \in Nat /\ Len(world.boxes) \in Nat /\ DOMAIN world.runs = 1..W
      /\ DOMAIN world.boxes = 1..Len(world.boxes) /\ world.dir \in Dirs
  BY StillShape DEF Inv
<1>2. kind \in {"ssh", "slurm", "kaggle", "colab", "market"}
  BY Families DEF Inv
<1>3. CASE kind = "ssh"
  <2>1. world.dir.pid = 0
    BY <1>1, <1>3, HandleFacts DEF Found, HostFound, Dirs
  <2>2. Heard => Running(world) \subseteq {0} /\ Running(world) \subseteq 1..W
    BY <1>1, <1>3, <2>1 DEF Inv, Placed, DirFits, Heard, Running
  <2> QED
    BY <1>1, <1>3, <2>1, <2>2 DEF Inv, Shape, Housed, Hosting
<1>4. CASE kind = "slurm"
  <2> DEFINE mine == {i \in DOMAIN world.runs : Adoptable(world.runs[i].st)}
             j == CHOOSE i \in mine : TRUE
  <2>1. mine = Running(world)
    BY <1>4 DEF Adoptable, Running, Unsettled
  <2>2. mine # {} => Found = Handle(j, 0, TRUE) /\ j \in mine
    BY <1>4 DEF Found, QueueFound
  <2> HIDE DEF mine, j
  <2>3. mine \subseteq Nat
    BY <1>1, <2>1 DEF Running
  <2>4. mine = {}
    BY <2>2, <2>3, HandleFacts
  <2> QED
    BY <1>4, <2>1, <2>4 DEF Inv, Shape, Housed, Hosting
<1>5. CASE kind = "kaggle"
  <2>1. W = 0 \/ ~Adoptable(world.runs[W].st)
    BY <1>1, <1>5, HandleFacts DEF Found, KernelFound
  <2>2. W \notin Running(world)
    BY <1>1, <1>5, <2>1 DEF Adoptable, Running, Unsettled
  <2>3. Heard => Running(world) \subseteq {W}
    BY <1>5 DEF Inv, Placed, KernelFits
  <2> HIDE DEF W
  <2> QED
    BY <1>5, <2>2, <2>3 DEF Inv, Shape, Housed, Hosting
<1>6. CASE Hosting
  <2> DEFINE b == Named(world)
  <2>1. kind = "colab" \/ labels =>
            Found = IF b # 0 THEN Handle(0, b, kind = "colab") ELSE None
    BY <1>6 DEF Found, SessionFound, InstanceFound, Hosting
  <2>2. (\E c \in Standing(world) : TRUE) => b \in Standing(world)
    BY DEF Named, Up, Standing
  <2> HIDE DEF b
  <2>3. Standing(world) \subseteq 1..Len(world.boxes)
    BY <1>1 DEF Standing
  <2>4. CASE kind = "colab" \/ labels
    <3>1. Standing(world) = {}
      <4> SUFFICES ASSUME Standing(world) # {} PROVE FALSE
        OBVIOUS
      <4>1. b \in 1..Len(world.boxes)
        BY <2>2, <2>3
      <4>2. b \in Nat /\ b # 0
        BY <1>1, <4>1
      <4>3. Handle(0, b, kind = "colab") # None
        BY <4>2, HandleFacts
      <4> QED
        BY <2>1, <2>4, <4>2, <4>3
    <3> QED
      BY <1>6, <3>1 DEF Inv, Shape, Housed, Homed, Hosting
  <2>5. CASE kind = "market" /\ ~labels
    <3>1. handle = None /\ saved = None
      BY DEF Known
    <3>2. ~blurred => Standing(world) = {}
      BY <2>5, <3>1 DEF Inv, Placed, BoxesFit
    <3> QED
      BY <1>6, <2>5, <3>2 DEF Inv, Shape, Housed, Homed, Hosting, Heard, Hidden
  <2> QED
    BY <1>6, <2>4, <2>5 DEF Hosting
<1> QED
  BY <1>2, <1>3, <1>4, <1>5, <1>6 DEF Hosting

----------------------------------------------------------------------------
(***************************************************************************)
(* What a verdict is evidence of.                                          *)
(***************************************************************************)
\* What a verdict v, given now, may be believed for.
Believed(v) ==
    /\ v \in Told /\ v.of <= Last(world) /\ v.what \in {"lost", "ended"}
    /\ v.what = "lost" => kind # "kaggle" /\ (~blurred => Running(world) = {})
    /\ (v.what = "ended" /\ ~blurred /\ kind \in {"ssh", "slurm", "market"}) =>
           v.of \in DOMAIN world.runs /\ world.runs[v.of].of = attempt

LEMMA EndedFacts ==
    ASSUME NEW i \in 0..Last(world), Last(world) \in Nat
    PROVE  /\ Ended(i) \in Told /\ Ended(i).of = i /\ Ended(i).what = "ended"
           /\ Lost \in Told /\ Lost.of = 0 /\ Lost.what = "lost"
BY DEF Ended, Lost, Told, Outcomes

\* The job's directory: a result is of this attempt, and once there is one,
\* or the payload is gone, nothing runs.
LEMMA DirBelieved ==
    ASSUME Inv, kind # "kaggle", NEW v \in DirVerdicts
    PROVE  Believed(v) /\ (~blurred => Running(world) = {})
<1>1. /\ Last(world) \in Nat /\ DOMAIN world.runs = 1..Last(world)
      /\ world.dir.pid \in 0..Last(world) /\ world.dir.result \in 0..Last(world)
      /\ Running(world) \subseteq 1..Last(world)
  BY StillShape DEF Inv, Shape, Bounded, Running
<1>2. ~blurred =>
        /\ Running(world) \subseteq {world.dir.pid}
        /\ world.dir.pid # 0 => world.dir.there
        /\ world.dir.result # 0 => /\ Running(world) = {}
                                   /\ world.runs[world.dir.result].of = attempt
  BY DEF Inv, Placed, DirFits
<1>3. CASE v = Ended(world.dir.result) /\ world.dir.result # 0
  <2>1. v \in Told /\ v.of = world.dir.result /\ v.what = "ended"
    BY <1>1, <1>3, EndedFacts
  <2>2. world.dir.result \in DOMAIN world.runs
    BY <1>1, <1>3
  <2> QED
    BY <1>1, <1>2, <1>3, <2>1, <2>2 DEF Believed
<1>4. CASE v = Lost /\ (~world.dir.there \/ (world.dir.pid # 0 /\ ~Alive(world, world.dir.pid)))
  <2>1. v \in Told /\ v.of = 0 /\ v.what = "lost"
    BY <1>1, <1>4, EndedFacts
  <2>2. ~blurred => Running(world) = {}
    BY <1>1, <1>2, <1>4 DEF Alive, Running
  <2> QED
    BY <1>1, <2>1, <2>2 DEF Believed
<1> QED
  BY <1>3, <1>4 DEF DirVerdicts

\* A verdict that a query gave, whatever the family.
LEMMA VerdictBelieved ==
    ASSUME Inv, stage \in {"live", "ending"}, NEW h \in Handles, Fine(h), Fits(h),
           NEW v \in Verdicts(h)
    PROVE  /\ Believed(v)
           /\ (Heard /\ ~Stale /\ ~Hosting) => Running(world) = {}
           /\ (kind = "kaggle" /\ Heard) => v.of \notin Running(world)
<1>1. /\ Last(world) \in Nat /\ DOMAIN world.runs = 1..Last(world)
      /\ world.dir.pid \in 0..Last(world) /\ world.dir.result \in 0..Last(world)
      /\ Running(world) \subseteq 1..Last(world) /\ 0 \in 0..Last(world)
      /\ h.run \in 0..Last(world) /\ cached \in 0..Last(world)
  BY StillShape, BackendsAssumption DEF Inv, Shape, Bounded, Running, Fine, Handles, Typed
<1>2. kind \in {"ssh", "slurm", "kaggle", "colab", "market"}
  BY Families DEF Inv
<1>3. CASE kind = "ssh"
  <2>1. v \in DirVerdicts
    BY <1>3 DEF Verdicts
  <2> QED
    BY <1>3, <2>1, DirBelieved DEF Heard
<1>4. CASE kind = "slurm"
  <2> DEFINE i == h.run
  <2>1. ~blurred =>
          /\ i # 0 /\ Running(world) \subseteq {i} /\ world.runs[i].of = attempt
          /\ world.dir.result # 0 => /\ Running(world) = {}
                                     /\ world.runs[world.dir.result].of = attempt
    BY <1>4 DEF Inv, Placed, DirFits, Fits
  <2>2. v \in QueueVerdicts(i)
    BY <1>4 DEF Verdicts
  <2> HIDE DEF i
  <2>3. /\ i \in 0..Last(world)
        /\ i \in Running(world) => world.runs[i].st \in {"queued", "on"}
    BY <1>1 DEF i, Running, Unsettled
  <2>4. CASE v = Ended(world.dir.result) /\ world.dir.result # 0
    <3>1. v \in Told /\ v.of = world.dir.result /\ v.what = "ended"
      BY <1>1, <2>4, EndedFacts
    <3> QED
      BY <1>1, <1>4, <2>1, <2>4, <3>1 DEF Believed, Heard
  <2>5. CASE v = Ended(i) /\ i \notin Running(world)
    <3>1. v \in Told /\ v.of = i /\ v.what = "ended"
      BY <2>3, <1>1, <2>5, EndedFacts
    <3> QED
      BY <1>1, <1>4, <2>1, <2>3, <2>5, <3>1 DEF Believed, Heard
  <2>6. CASE v = Lost /\ i \notin Running(world)
    <3>1. v \in Told /\ v.of = 0 /\ v.what = "lost"
      BY <1>1, <2>6, EndedFacts
    <3> QED
      BY <1>1, <1>4, <2>1, <2>6, <3>1 DEF Believed, Heard
  <2> QED
    BY <2>2, <2>3, <2>4, <2>5, <2>6 DEF QueueVerdicts, Accounted, Unlisted
<1>5. CASE kind = "kaggle"
  <2>1. Heard =>
          /\ Running(world) \subseteq {Last(world)}
          /\ \A i \in DOMAIN world.runs : i < Last(world) => world.runs[i].of < attempt
          /\ cached \notin Running(world)
    BY <1>5 DEF Inv, Placed, KernelFits
  <2>2. v \in KernelVerdicts
    BY <1>5 DEF Verdicts
  <2>3. attempt \in Nat
    BY BackendsAssumption DEF Inv, Typed
  <2>4. CASE cached # 0 /\ v = Ended(cached)
    <3>1. v \in Told /\ v.of = cached /\ v.what = "ended"
      BY <1>1, <2>4, EndedFacts
    <3>2. (Heard /\ ~Stale) => cached = Last(world)
      BY <1>1, <2>1, <2>3, <2>4 DEF Stale
    <3> QED
      BY <1>1, <1>5, <2>1, <3>1, <3>2 DEF Believed
  <2>5. CASE ~Alive(world, Last(world)) /\ v = Ended(Last(world))
    <3>1. v \in Told /\ v.of = Last(world) /\ v.what = "ended"
      BY <1>1, <2>5, EndedFacts
    <3>2. Last(world) \notin Running(world)
      BY <2>5 DEF Alive, Running
    <3> QED
      BY <1>1, <1>5, <2>1, <3>1, <3>2 DEF Believed
  <2> QED
    BY <2>2, <2>4, <2>5 DEF KernelVerdicts
<1>6. CASE Hosting
  <2>1. CASE v \in DirVerdicts
    BY <1>6, <2>1, DirBelieved DEF Hosting
  <2>2. CASE v = Lost /\ h.box \notin Standing(world)
    <3>1. v \in Told /\ v.of = 0 /\ v.what = "lost"
      BY <1>1, <2>2, EndedFacts
    <3>2. ~blurred => Standing(world) = {}
      BY <1>6, <2>2 DEF Fits, Single, Labelled, Hosting
    <3>3. ~blurred => Running(world) = {}
      BY <1>6, <3>2 DEF Inv, Shape, Housed
    <3> QED
      BY <1>1, <1>6, <3>1, <3>3 DEF Believed, Hosting
  <2>3. CASE v = Ended(cached) /\ kind = "colab"
    <3>1. v \in Told /\ v.of = cached /\ v.what = "ended"
      BY <1>1, <2>3, EndedFacts
    <3> QED
      BY <1>1, <1>6, <2>3, <3>1 DEF Believed
  <2>4. kind = "colab" => v \in SessionVerdicts(h.box)
    BY DEF Verdicts
  <2>5. kind = "market" => v \in InstanceVerdicts(h)
    BY DEF Verdicts
  <2>6. Up(world, h.box) <=> h.box \in Standing(world)
    BY DEF Up, Standing
  <2> QED
    BY <1>6, <2>1, <2>2, <2>3, <2>4, <2>5, <2>6 DEF Hosting, SessionVerdicts, InstanceVerdicts
<1> QED
  BY <1>2, <1>3, <1>4, <1>5, <1>6 DEF Hosting

----------------------------------------------------------------------------
(***************************************************************************)
(* Stopping, sweeping, releasing.                                          *)
(***************************************************************************)
\* A stop only ends what runs; on a family with no machine it ends all of
\* it, when it reached the payload.
LEMMA StoppedFacts ==
    ASSUME Inv, stage \in {"live", "ending"}, NEW h \in Handles, Fine(h), Fits(h)
    PROVE  LET v == Stopped(h)
           IN  /\ Shape(v) /\ Grows(world, v) /\ Last(v) = Last(world)
               /\ Running(v) \subseteq Running(world)
               /\ v.dir = NoDir \/ v.dir = world.dir
               /\ ~Hosting => v.dir = world.dir
               /\ Standing(v) = IF Hosting THEN Standing(world) \ {h.box} ELSE {}
               /\ (~Hosting /\ Heard /\ ~Missed(h)) => Running(v) = {}
<1> DEFINE v == Stopped(h)
<1>1. /\ Last(world) \in Nat /\ DOMAIN world.runs = 1..Last(world)
      /\ Running(world) \subseteq 1..Last(world) /\ Shape(world) /\ Grows(world, world)
  BY StillShape DEF Inv, Running
<1>2. kind \in {"ssh", "slurm", "kaggle", "colab", "market"}
  BY Families DEF Inv
<1>3. ~Hosting => Standing(world) = {}
  BY <1>1 DEF Shape, Housed
<1>4. CASE kind = "ssh"
  <2>1. v = Kill(world, world.dir.pid) \/ v = world
    BY <1>4 DEF Stopped, HostStopped
  <2>2. /\ Shape(v) /\ Grows(world, v) /\ Last(v) = Last(world)
        /\ Running(v) \subseteq Running(world) /\ v.dir = world.dir /\ Standing(v) = Standing(world)
    BY <2>1, <1>1, KillShape
  <2>3. Heard => /\ Running(world) \subseteq {world.dir.pid}
                 /\ ~h.full => world.dir.pid = 0
    BY <1>4 DEF Inv, Placed, DirFits, Heard, Fits, NoDir
  <2>4. (Heard /\ ~Missed(h)) => Running(v) = {}
    <3> SUFFICES ASSUME Heard, ~Missed(h) PROVE Running(v) = {}
      OBVIOUS
    <3>1. ~h.full => Running(world) = {}
      BY <1>1, <2>3
    <3>2. h.full => world.dir.pid \notin Running(v)
      BY <1>4 DEF Missed, Alive, Running
    <3> HIDE DEF v
    <3> QED
      BY <2>2, <2>3, <3>1, <3>2
  <2> QED
    BY <1>3, <1>4, <2>2, <2>4 DEF Hosting
<1>5. CASE kind = "slurm"
  <2>1. v = Kill(world, h.run)
    BY <1>5 DEF Stopped, QueueStopped
  <2>2. Heard => Running(world) \subseteq {h.run}
    BY <1>5 DEF Inv, Placed, DirFits, Heard, Fits
  <2> QED
    BY <1>1, <1>3, <1>5, <2>1, <2>2, KillShape DEF Hosting
<1>6. CASE kind = "kaggle"
  <2>1. v = IF canStop THEN Kill(world, Last(world)) ELSE world
    BY <1>6 DEF Stopped, KernelStopped
  <2>2. Heard => Running(world) \subseteq {Last(world)} /\ canStop
    BY <1>6 DEF Inv, Placed, KernelFits, Heard
  <2> QED
    BY <1>1, <1>3, <1>6, <2>1, <2>2, KillShape DEF Hosting
<1>7. CASE Hosting
  <2>1. v = Destroyed(world, h.box)
    BY <1>7 DEF Stopped, SessionStopped, InstanceStopped, Hosting
  <2> QED
    BY <1>1, <1>7, <2>1, DestroyedShape
<1> QED
  BY <1>2, <1>4, <1>5, <1>6, <1>7 DEF Hosting

\* A sweep takes the directory of a handle that launched, or the machine.
LEMMA SweptFacts ==
    ASSUME Typed, NEW w, Shape(w), NEW h \in Handles
    PROVE  LET v == Swept(h, w)
           IN  /\ Shape(v) /\ Grows(w, v) /\ Last(v) = Last(w)
               /\ Running(v) \subseteq Running(w)
               /\ Standing(v) = IF Hosting THEN Standing(w) \ {h.box} ELSE {}
               /\ v.dir = NoDir \/ v.dir = w.dir
               /\ (kind \in {"ssh", "slurm"} /\ h.full) => v.dir = NoDir
<1> DEFINE v == Swept(h, w)
<1>1. Grows(w, w) /\ (~Hosting => Standing(w) = {}) /\ Last(w) \in Nat
  BY StillShape DEF Shape, Housed
<1>2. kind \in {"ssh", "slurm", "kaggle", "colab", "market"}
  BY Families
<1>3. CASE kind \in {"ssh", "slurm"}
  <2>1. NoDir \in Dirs /\ NoDir.pid \in 0..Last(w) /\ NoDir.result \in 0..Last(w)
    BY <1>1 DEF NoDir, Dirs
  <2>2. v = IF h.full THEN [w EXCEPT !.dir = NoDir] ELSE w
    BY <1>3 DEF Swept, DirSwept
  <2>3. ~Hosting
    BY <1>3 DEF Hosting
  <2> HIDE DEF v
  <2>4. CASE h.full
    <3> DEFINE u == [w EXCEPT !.dir = NoDir]
    <3>1. /\ Shape(u) /\ Grows(w, u) /\ Last(u) = Last(w) /\ u.dir = NoDir
          /\ Standing(u) = Standing(w) /\ Running(u) = Running(w)
      BY <2>1, <2>3, DirShape
    <3>2. v = u
      BY <2>2, <2>4
    <3> HIDE DEF u
    <3> QED
      BY <1>1, <2>3, <3>1, <3>2 DEF v
  <2>5. CASE ~h.full
    BY <1>1, <2>2, <2>3, <2>5 DEF v
  <2> QED
    BY <2>4, <2>5
<1>4. CASE kind = "kaggle"
  <2>1. v = w
    BY <1>4 DEF Swept
  <2> QED
    BY <1>1, <1>4, <2>1 DEF Hosting
<1>5. CASE Hosting
  <2>1. v = Destroyed(w, h.box)
    BY <1>5 DEF Swept, MachineSwept, Hosting
  <2>2. kind \notin {"ssh", "slurm"}
    BY <1>5 DEF Hosting
  <2> QED
    BY <1>5, <2>1, <2>2, DestroyedShape
<1> QED
  BY <1>2, <1>3, <1>4, <1>5 DEF Hosting

\* What a confirmed release has cleared.
Clears ==
    /\ Confirmed(world') /\ Shape(world') /\ Grows(world, world') /\ Last(world') = Last(world)
    /\ Labelled => Standing(world') = {}
    /\ (~blurred' /\ canStop) => /\ Running(world') = {} /\ Standing(world') = {}
                                 /\ kind # "kaggle" => world'.dir = NoDir
    /\ blurred' \in BOOLEAN /\ (blurred => blurred')
    /\ cached' \in 0..Last(world) /\ faults' \in 0..MaxFaults

LEMMA ReleaseClears ==
    ASSUME Inv, stage = "ending", NEW h \in Handles, Fine(h), Fits(h), ReleaseOf(h)
    PROVE  Clears
<1>1. /\ Last(world) \in Nat /\ Len(world.boxes) \in Nat /\ Shape(world) /\ Grows(world, world)
      /\ Typed /\ cached \in 0..Last(world) /\ blurred \in BOOLEAN /\ faults \in 0..MaxFaults
      /\ faults \in Nat /\ MaxFaults \in Nat
  BY StillShape, BackendsAssumption DEF Inv, Typed
<1>2. /\ Single => Standing(world) \subseteq {h.box}
      /\ (~Hosting => Standing(world) = {})
  BY <1>1 DEF Fits, Shape, Housed
<1>3. ASSUME NEW w, Shape(w), Grows(world, w), Last(w) = Last(world),
             Running(w) \subseteq Running(world), Standing(w) \subseteq Standing(world),
             w.dir = NoDir \/ w.dir = world.dir,
             Confirmed(Swept(h, w))
      PROVE  /\ Confirmed(world') /\ Shape(world') /\ Grows(world, world')
             /\ Last(world') = Last(world)
             /\ Running(world') \subseteq Running(w) /\ (Single => Standing(world') = {})
             /\ (~Hosting => Standing(world') = {})
             /\ (kind # "kaggle" /\ ~blurred /\ ~Hosting) => world'.dir = NoDir
  <2> DEFINE v == Swept(h, w)
  <2>1. /\ Shape(v) /\ Grows(w, v) /\ Last(v) = Last(w)
        /\ Running(v) \subseteq Running(w)
        /\ Standing(v) = IF Hosting THEN Standing(w) \ {h.box} ELSE {}
        /\ v.dir = NoDir \/ v.dir = w.dir
        /\ (kind \in {"ssh", "slurm"} /\ h.full) => v.dir = NoDir
    BY <1>1, <1>3, SweptFacts
  <2>2. world' = v /\ Confirmed(v)
    BY <1>3 DEF Confirmed
  <2> HIDE DEF v
  <2>3. Grows(world, v)
    BY <1>1, <1>3, <2>1, GrowsTwice
  <2>4. Single => Standing(v) = {}
    BY <1>2, <1>3, <2>1 DEF Single, Labelled, Hosting
  <2>5. (kind # "kaggle" /\ ~blurred /\ ~Hosting) => v.dir = NoDir
    <3> SUFFICES ASSUME kind # "kaggle", ~blurred, ~Hosting PROVE v.dir = NoDir
      OBVIOUS
    <3>1. kind \in {"ssh", "slurm"}
      BY <1>1, Families DEF Hosting
    <3>2. h.full \/ world.dir = NoDir
      BY <3>1 DEF Fits
    <3> QED
      BY <1>3, <2>1, <3>1, <3>2
  <2> QED
    BY <1>3, <2>1, <2>2, <2>3, <2>4, <2>5
<1>4. ASSUME Shape(world'), Standing(world') = {}, Hosting
      PROVE  Running(world') = {} /\ world'.dir = NoDir
  BY <1>4 DEF Shape, Housed, Homed
<1>5. CASE /\ Verdicts(h) # {} /\ \E v \in Verdicts(h) : cached' = Cache(v)
           /\ Confirmed(Swept(h, world))
           /\ blurred' = (blurred \/ Stale) /\ UNCHANGED faults
  <2>1. PICK v \in Verdicts(h) : cached' = Cache(v)
    BY <1>5
  <2>2. Believed(v) /\ ((Heard /\ ~Stale /\ ~Hosting) => Running(world) = {})
    BY <2>1, VerdictBelieved
  <2>3. cached' \in 0..Last(world)
    BY <1>1, <2>1, <2>2 DEF Cache, Believed, Told
  <2>4. /\ Confirmed(world') /\ Shape(world') /\ Grows(world, world')
        /\ Last(world') = Last(world)
        /\ Running(world') \subseteq Running(world) /\ (Single => Standing(world') = {})
        /\ (~Hosting => Standing(world') = {})
        /\ (kind # "kaggle" /\ ~blurred /\ ~Hosting) => world'.dir = NoDir
    BY <1>1, <1>3, <1>5
  <2>5. blurred' \in BOOLEAN /\ (blurred => blurred') /\ (~blurred' => ~blurred /\ ~Stale)
    BY <1>1, <1>5 DEF Stale
  <2> QED
    BY <1>1, <1>4, <1>5, <2>2, <2>3, <2>4, <2>5 DEF Clears, Heard, Single, Labelled, Hosting
<1>6. CASE /\ Verdicts(h) = {} /\ cached' = CacheStop
           /\ Confirmed(Swept(h, Stopped(h)))
           /\ blurred' = (blurred \/ Missed(h)) /\ UNCHANGED faults
  <2> DEFINE w == Stopped(h)
  <2>1. /\ Shape(w) /\ Grows(world, w) /\ Last(w) = Last(world)
        /\ Running(w) \subseteq Running(world)
        /\ w.dir = NoDir \/ w.dir = world.dir
        /\ Standing(w) = IF Hosting THEN Standing(world) \ {h.box} ELSE {}
        /\ (~Hosting /\ Heard /\ ~Missed(h)) => Running(w) = {}
    BY StoppedFacts
  <2>2. Confirmed(Swept(h, w))
    BY <1>6
  <2> HIDE DEF w
  <2>3. Standing(w) \subseteq Standing(world)
    BY <1>2, <2>1
  <2>4. /\ Confirmed(world') /\ Shape(world') /\ Grows(world, world')
        /\ Last(world') = Last(world)
        /\ Running(world') \subseteq Running(w) /\ (Single => Standing(world') = {})
        /\ (~Hosting => Standing(world') = {})
        /\ (kind # "kaggle" /\ ~blurred /\ ~Hosting) => world'.dir = NoDir
    BY <1>3, <2>1, <2>2, <2>3
  <2>5. cached' \in 0..Last(world)
    BY <1>1, <1>6 DEF CacheStop
  <2>6. blurred' \in BOOLEAN /\ (blurred => blurred') /\ (~blurred' => ~blurred /\ ~Missed(h))
    BY <1>1, <1>6 DEF Missed
  <2> QED
    BY <1>1, <1>4, <1>6, <2>1, <2>4, <2>5, <2>6 DEF Clears, Heard, Single, Labelled, Hosting
<1>7. CASE UNCHANGED cached /\ Confirmed(Swept(h, world)) /\ Faulty
  <2>1. /\ Confirmed(world') /\ Shape(world') /\ Grows(world, world')
        /\ Last(world') = Last(world)
        /\ Running(world') \subseteq Running(world) /\ (Single => Standing(world') = {})
        /\ (~Hosting => Standing(world') = {})
        /\ (kind # "kaggle" /\ ~blurred /\ ~Hosting) => world'.dir = NoDir
    BY <1>1, <1>3, <1>7
  <2>2. blurred' = TRUE /\ faults' \in 0..MaxFaults
    BY <1>1, <1>7 DEF Faulty, Cost
  <2> QED
    BY <1>1, <1>7, <2>1, <2>2 DEF Clears, Single, Labelled, Hosting
<1>8. CASE kind = "colab" /\ UNCHANGED cached /\ Confirmed(world) /\ Faulty
  <2>1. world' = world /\ Confirmed(world')
    BY <1>8 DEF Confirmed
  <2>2. blurred' = TRUE /\ faults' \in 0..MaxFaults
    BY <1>1, <1>8 DEF Faulty, Cost
  <2> QED
    BY <1>1, <1>8, <2>1, <2>2 DEF Clears, Labelled
<1> QED
  BY <1>5, <1>6, <1>7, <1>8 DEF ReleaseOf

----------------------------------------------------------------------------
(***************************************************************************)
(* Steps.                                                                  *)
(***************************************************************************)
\* The provider's side seen from a later attempt.
LEMMA ShapeNext ==
    ASSUME Shape(world'), kind' = kind, attempt \in Nat, attempt' \in Nat, attempt <= attempt'
    PROVE  Shape(world)'
BY DEF Shape, Bounded, Housed, Hosting

\* A handle that was fine still is.
LEMMA FineNext ==
    ASSUME Grows(world, world'), Last(world) \in Nat, Len(world.boxes) \in Nat, NEW h, Fine(h)
    PROVE  h = None \/ (h \in Handles /\ h.run <= Last(world') /\ h.box <= Len(world'.boxes))
BY DEF Fine, Grows, Handles

LEMMA InvFacts ==
    ASSUME Inv
    PROVE  /\ Typed /\ Shape(world) /\ Grows(world, world)
           /\ Last(world) \in Nat /\ Len(world.boxes) \in Nat /\ DOMAIN world.runs = 1..Last(world)
           /\ DOMAIN world.boxes = 1..Len(world.boxes) /\ world.dir \in Dirs
           /\ Running(world) \subseteq 1..Last(world)
           /\ kind \in {"ssh", "slurm", "kaggle", "colab", "market"}
           /\ attempt \in Nat \ {0} /\ MaxAttempts \in Nat /\ attempt <= MaxAttempts
           /\ faults \in Nat /\ MaxFaults \in Nat /\ faults <= MaxFaults
BY StillShape, Families, BackendsAssumption DEF Inv, Typed, Running

\* A confirmed release: the next attempt starts from nothing.
LEMMA ClearsStep ==
    ASSUME Inv, stage = "ending", Clears, UNCHANGED told, Setting
    PROVE  Inv'
<1>1. /\ Typed /\ Shape(world) /\ Grows(world, world)
      /\ Last(world) \in Nat /\ Len(world.boxes) \in Nat /\ DOMAIN world.runs = 1..Last(world)
      /\ kind \in {"ssh", "slurm", "kaggle", "colab", "market"}
      /\ attempt \in Nat \ {0} /\ MaxAttempts \in Nat /\ attempt <= MaxAttempts
  BY InvFacts
<1>2. /\ Shape(world') /\ Grows(world, world') /\ Last(world') = Last(world)
      /\ Labelled => Standing(world') = {}
      /\ (~blurred' /\ canStop) => /\ Running(world') = {} /\ Standing(world') = {}
                                   /\ kind # "kaggle" => world'.dir = NoDir
      /\ blurred' \in BOOLEAN /\ (blurred => blurred')
      /\ cached' \in 0..Last(world) /\ faults' \in 0..MaxFaults
      /\ kind' = kind /\ canStop' = canStop /\ labels' = labels /\ told' = told
      /\ handle' = None /\ released' = TRUE
      /\ \/ /\ told.what \in {"lost", "unwound"} /\ attempt < MaxAttempts
            /\ stage' = "idle" /\ attempt' = attempt + 1 /\ saved' = None
         \/ stage' = "over" /\ attempt' = attempt /\ saved' = saved
  BY DEF Clears, Confirmed, Setting
<1>3. kind # "kaggle" => canStop
  BY <1>1 DEF Typed
<1>4. attempt' \in 1..MaxAttempts /\ attempt' \in Nat /\ attempt <= attempt'
  BY <1>1, <1>2
<1>5. Shape(world)'
  BY <1>1, <1>2, <1>4, ShapeNext
<1>6. Typed'
  <2>1. Fine(saved)'
    <3>1. Fine(saved)
      BY <1>1 DEF Typed
    <3>2. saved = None \/ (saved \in Handles /\ saved.run <= Last(world')
                           /\ saved.box <= Len(world'.boxes))
      BY <1>1, <1>2, <3>1, FineNext
    <3> QED
      BY <1>2, <3>2 DEF Fine
  <2>2. Fine(handle)'
    BY <1>2 DEF Fine
  <2> QED
    BY <1>1, <1>2, <1>4, <2>1, <2>2 DEF Typed
<1>7. Phases'
  BY <1>2 DEF Phases
<1>8. DirFits'
  <2> SUFFICES ASSUME kind' # "kaggle", ~blurred' PROVE DirFits!2'
    BY DEF DirFits
  <2>1. Running(world') = {} /\ world'.dir = NoDir
    BY <1>2, <1>3
  <2> QED
    BY <2>1 DEF NoDir
<1>9. KernelFits'
  <2> SUFFICES ASSUME kind' = "kaggle", Heard' PROVE KernelFits!2'
    BY DEF KernelFits
  <2>1. Running(world') = {}
    BY <1>2 DEF Heard
  <2>2. \A i \in DOMAIN world'.runs :
            i < Last(world') \/ stage' = "idle" => world'.runs[i].of < attempt'
    <3> SUFFICES ASSUME NEW i \in DOMAIN world'.runs, i < Last(world') \/ stage' = "idle"
                 PROVE  world'.runs[i].of < attempt'
      OBVIOUS
    <3>1. i \in 1..Last(world) /\ i \in DOMAIN world.runs
      BY <1>1, <1>2, StillShape
    <3>2. world'.runs[i].of = world.runs[i].of /\ world.runs[i].of \in 1..attempt
      BY <1>1, <1>2, <3>1 DEF Grows, Shape, Bounded
    <3>3. CASE stage' = "idle"
      BY <1>1, <1>2, <3>2, <3>3
    <3>4. CASE i < Last(world)
      BY <1>1, <1>2, <1>4, <3>1, <3>2, <3>4 DEF Inv, Placed, KernelFits, Heard
    <3> QED
      BY <1>2, <3>3, <3>4
  <2> QED
    BY <2>1, <2>2
<1>10. BoxesFit'
  <2>1. ~blurred' => Standing(world') = {}
    BY <1>2, <1>3 DEF Shape, Housed, Hosting
  <2> QED
    BY <1>2, <2>1 DEF BoxesFit, Single, Labelled, Hosting
<1>11. HandlesFit'
  BY <1>2, <1>3 DEF HandlesFit, Fits, Single, Labelled, Hosting
<1>12. LostDead'
  BY <1>2, <1>3 DEF LostDead, Inv, Judged
<1>13. EndedOwn'
  BY <1>1, <1>2 DEF EndedOwn, Inv, Judged, Grows
<1> QED
  BY <1>5, <1>6, <1>7, <1>8, <1>9, <1>10, <1>11, <1>12, <1>13 DEF Inv, Placed, Judged

LEMMA ReleaseStep ==
    ASSUME Inv, Release
    PROVE  Inv'
<1>1. stage = "ending" /\ UNCHANGED told /\ Setting
  BY DEF Release
<1>2. /\ Typed /\ Shape(world) /\ Grows(world, world) /\ world.dir \in Dirs
      /\ Last(world) \in Nat /\ Running(world) \subseteq 1..Last(world)
      /\ kind \in {"ssh", "slurm", "kaggle", "colab", "market"}
      /\ faults \in Nat /\ MaxFaults \in Nat /\ faults <= MaxFaults
      /\ cached \in 0..Last(world) /\ blurred \in BOOLEAN
  BY InvFacts DEF Typed
<1>3. Clears
  <2>1. CASE Known # None /\ ReleaseOf(Known)
    BY <1>1, <2>1, KnownFits, ReleaseClears
  <2>2. CASE Known = None /\ Found # None /\ ReleaseOf(Found)
    BY <1>1, <2>2, FoundFits, ReleaseClears
  <2>3. CASE /\ Known = None /\ Found = None /\ Confirmed(world) /\ UNCHANGED cached
             /\ blurred' = (blurred \/ world.dir.there) /\ UNCHANGED faults
    <3>1. world' = world /\ Confirmed(world')
      BY <2>3 DEF Confirmed
    <3>2. /\ ~Hidden => Standing(world) = {}
          /\ Heard => Running(world) = {}
      BY <2>3, FoundNone
    <3>3. blurred' \in BOOLEAN /\ (blurred => blurred') /\ (~blurred' => ~blurred /\ ~world.dir.there)
      BY <1>2, <2>3 DEF Dirs
    <3>4. (~blurred' /\ kind # "kaggle") => world.dir = NoDir
      BY <1>2, <3>3 DEF Inv, Placed, DirFits, Dirs
    <3> QED
      BY <1>2, <2>3, <3>1, <3>2, <3>3, <3>4 DEF Clears, Heard, Hidden, Labelled
  <2>4. CASE Known = None /\ Gullible /\ Confirmed(world) /\ UNCHANGED cached /\ Faulty
    <3>1. world' = world /\ Confirmed(world') /\ kind # "market"
      BY <2>4 DEF Confirmed, Gullible
    <3> QED
      BY <1>2, <2>4, <3>1 DEF Clears, Faulty, Cost, Labelled
  <2> QED
    BY <2>1, <2>2, <2>3, <2>4 DEF Release
<1> QED
  BY <1>1, <1>3, ClearsStep

\* A payload that ends leaves its result in the directory, where there is one.
Results ==
    /\ world.dir.there /\ world'.dir.there /\ world'.dir.pid = world.dir.pid
    /\ world'.dir.result \in Running(world)
    /\ Running(world') = Running(world) \ {world'.dir.result}

\* A step that starts nothing and lets go of no placement: what it changes on
\* the provider's side only ends or removes.
Settles ==
    /\ Shape(world') /\ Grows(world, world') /\ Last(world') = Last(world)
    /\ Running(world') \subseteq Running(world) /\ Standing(world') \subseteq Standing(world)
    /\ \/ world'.dir = world.dir
       \/ Hosting /\ world'.dir = NoDir /\ (~blurred => Running(world') = {})
       \/ Results
    /\ kind' = kind /\ canStop' = canStop /\ labels' = labels /\ attempt' = attempt
    /\ blurred' \in BOOLEAN /\ (blurred => blurred') /\ faults' \in 0..MaxFaults
    /\ stage' \in {"idle", "rented", "ready", "launched", "live", "ending", "over"}
    /\ stage' \in {"idle", "over"} => stage \in {"idle", "over"}
    /\ stage' = "idle" => stage = "idle"
    /\ stage = "over" => stage' = "over"
    /\ released' = released \/ released' = FALSE
    /\ cached' \in 0..Last(world)
    /\ (kind = "kaggle" /\ ~blurred' /\ canStop) => cached' \notin Running(world')

\* The handle of an instance without a label is not forgotten unheard.
Recalls ==
    (~blurred' /\ kind = "market" /\ ~labels /\ handle' = None /\ saved' = None) =>
        handle = None /\ saved = None

\* The handle is kept, taken from memory or forgotten, learns its payload, or
\* is one that fits.
Keeps ==
    /\ Recalls
    /\ saved' \in {None, saved, handle}
    /\ \/ handle' \in {None, saved, handle}
       \/ /\ handle # None /\ handle' \in Handles /\ kind \in {"ssh", "market"}
          /\ handle'.run <= Last(world) /\ handle'.box = handle.box /\ handle'.full = TRUE
       \/ handle' \in Handles /\ Fine(handle') /\ Fits(handle')

\* The verdict is kept, or is none, or is borne out.
Tells ==
    /\ told' \in Told /\ told'.of <= Last(world)
    /\ told' = told \/ told'.what \in {"none", "cancelled", "unwound"}
       \/ (LostDead' /\ EndedOwn')

LEMMA SettlesStep ==
    ASSUME Inv, Settles, Keeps, Tells, Phases'
    PROVE  Inv'
<1>1. /\ Typed /\ Shape(world) /\ Grows(world, world)
      /\ Last(world) \in Nat /\ Len(world.boxes) \in Nat /\ DOMAIN world.runs = 1..Last(world)
      /\ world.dir \in Dirs /\ Running(world) \subseteq 1..Last(world)
      /\ kind \in {"ssh", "slurm", "kaggle", "colab", "market"}
      /\ attempt \in Nat \ {0}
  BY InvFacts
<1>2. /\ Shape(world') /\ Grows(world, world') /\ Last(world') = Last(world)
      /\ Running(world') \subseteq Running(world) /\ Standing(world') \subseteq Standing(world)
      /\ \/ world'.dir = world.dir
         \/ Hosting /\ world'.dir = NoDir /\ (~blurred => Running(world') = {})
         \/ Results
      /\ kind' = kind /\ canStop' = canStop /\ labels' = labels /\ attempt' = attempt
      /\ (~blurred' => ~blurred)
  BY DEF Settles
<1>3. /\ stage' \in {"idle", "over"} => stage \in {"idle", "over"}
      /\ stage' = "idle" => stage = "idle"
      /\ stage = "over" => stage' = "over"
      /\ released' = released \/ released' = FALSE
  BY DEF Settles
<1>4. \A i \in DOMAIN world.runs : i \in DOMAIN world'.runs /\ world'.runs[i].of = world.runs[i].of
  BY <1>2 DEF Grows
<1>5. Shape(world)'
  BY <1>1, <1>2, ShapeNext
<1>6. ASSUME NEW h, Fine(h)
      PROVE  h = None \/ (h \in Handles /\ h.run <= Last(world') /\ h.box <= Len(world'.boxes))
  BY <1>1, <1>2, <1>6, FineNext
<1>7. Fine(handle)' /\ Fine(saved)'
  <2>1. Fine(handle) /\ Fine(saved) /\ Fine(None)
    BY <1>1 DEF Typed, Fine
  <2>2. Fine(saved)'
    BY <1>6, <2>1 DEF Fine, Keeps
  <2>3. CASE handle' \in {None, saved, handle}
    BY <1>6, <2>1, <2>2, <2>3 DEF Fine
  <2>4. CASE /\ handle # None /\ handle' \in Handles /\ kind \in {"ssh", "market"}
             /\ handle'.run <= Last(world) /\ handle'.box = handle.box /\ handle'.full = TRUE
    <3>1. handle.box <= Len(world'.boxes)
      BY <1>6, <2>1, <2>4
    <3> QED
      BY <1>2, <2>2, <2>4, <3>1 DEF Fine
  <2>5. CASE Fine(handle')
    BY <1>6, <2>2, <2>5 DEF Fine
  <2> QED
    BY <2>2, <2>3, <2>4, <2>5 DEF Keeps, Recalls
<1>8. Typed'
  <2>1. released' \in BOOLEAN
    BY <1>1, <1>3 DEF Typed
  <2>2. cached' \in 0..Last(world') /\ told' \in Told /\ told'.of <= Last(world')
    BY <1>2 DEF Settles, Tells
  <2>3. /\ stage' \in {"idle", "rented", "ready", "launched", "live", "ending", "over"}
        /\ blurred' \in BOOLEAN /\ faults' \in 0..MaxFaults
    BY DEF Settles
  <2> QED
    BY <1>1, <1>2, <1>7, <2>1, <2>2, <2>3 DEF Typed
<1>9. DirFits'
  <2> SUFFICES ASSUME kind' # "kaggle", ~blurred' PROVE DirFits!2'
    BY DEF DirFits
  <2>1. /\ Running(world) \subseteq {world.dir.pid}
        /\ world.dir.pid = 0 => world.dir = NoDir
        /\ world.dir.pid # 0 => world.dir.there /\ world.runs[world.dir.pid].of = attempt
        /\ world.dir.result # 0 => /\ Running(world) = {}
                                   /\ world.runs[world.dir.result].of = attempt
        /\ stage \in {"idle", "over"} => world.dir = NoDir
    BY <1>2 DEF Inv, Placed, DirFits
  <2>2. world.dir.pid \in 0..Last(world) /\ world.dir.result \in 0..Last(world)
    BY <1>1 DEF Shape, Bounded
  <2>3. CASE world'.dir = world.dir
    <3>1. world.dir.pid # 0 => world'.runs[world.dir.pid].of = attempt
      BY <1>1, <1>4, <2>1, <2>2
    <3>2. world.dir.result # 0 => world'.runs[world.dir.result].of = attempt
      BY <1>1, <1>4, <2>1, <2>2
    <3> QED
      BY <1>2, <1>3, <2>1, <2>3, <3>1, <3>2
  <2>4. CASE world'.dir = NoDir /\ Running(world') = {}
    BY <2>4 DEF NoDir
  <2>5. CASE Results
    <3>1. /\ world'.dir.result = world.dir.pid /\ Running(world') = {} /\ world.dir.pid # 0
          /\ world'.dir.pid = world.dir.pid /\ world'.dir.there
      BY <1>1, <2>1, <2>5 DEF Results
    <3>2. world'.runs[world.dir.pid].of = attempt
      BY <1>1, <1>4, <2>1, <2>2, <3>1
    <3>3. stage' \notin {"idle", "over"}
      BY <1>3, <2>1, <3>1 DEF NoDir
    <3> QED
      BY <1>2, <3>1, <3>2, <3>3
  <2> QED
    BY <1>2, <2>3, <2>4, <2>5
<1>10. KernelFits'
  <2> SUFFICES ASSUME kind' = "kaggle", Heard' PROVE KernelFits!2'
    BY DEF KernelFits
  <2>1. /\ Running(world) \subseteq {Last(world)}
        /\ \A i \in DOMAIN world.runs :
               i < Last(world) \/ stage = "idle" => world.runs[i].of < attempt
        /\ stage \in {"idle", "over"} => Running(world) = {}
    BY <1>2 DEF Inv, Placed, KernelFits, Heard
  <2>2. DOMAIN world'.runs = DOMAIN world.runs
    BY <1>1, <1>2, StillShape
  <2>3. cached' \notin Running(world')
    BY <1>2 DEF Settles, Heard
  <2> QED
    BY <1>2, <1>3, <1>4, <2>1, <2>2, <2>3
<1>11. BoxesFit'
  <2>1. Single' => Single
    BY <1>2 DEF Single, Labelled, Hosting
  <2> QED
    BY <1>2, <1>3, <2>1 DEF BoxesFit, Inv, Placed, Keeps, Recalls, Labelled
<1>12. HandlesFit'
  <2>1. ASSUME NEW h, h # None => Fits(h), h # None
        PROVE  /\ kind = "ssh" /\ ~blurred' /\ ~h.full => world'.dir = NoDir
               /\ kind = "slurm" /\ ~blurred' /\ stage' # "over" =>
                      h.full /\ h.run = world'.dir.pid /\ h.run # 0
               /\ Single' => Standing(world') \subseteq {h.box}
    BY <1>2, <1>3, <2>1 DEF Fits, Single, Labelled, Hosting, Results, NoDir
  <2>2. (handle # None => Fits(handle)) /\ (saved # None => Fits(saved))
    BY DEF Inv, Placed, HandlesFit
  <2>3. saved' # None => Fits(saved)'
    BY <1>2, <2>1, <2>2 DEF Fits, Keeps
  <2>4. CASE handle' \in {None, saved, handle}
    BY <1>2, <2>1, <2>2, <2>3, <2>4 DEF Fits, HandlesFit
  <2>5. CASE /\ handle # None /\ handle' \in Handles /\ kind \in {"ssh", "market"}
             /\ handle'.box = handle.box /\ handle'.full = TRUE
    <3>1. Single' => Standing(world') \subseteq {handle.box}
      BY <2>1, <2>2, <2>5
    <3> QED
      BY <1>2, <2>3, <2>5, <3>1 DEF Fits, HandlesFit
  <2>6. CASE handle' # None /\ Fits(handle')
    BY <1>2, <2>1, <2>3, <2>6 DEF Fits, HandlesFit
  <2> QED
    BY <2>4, <2>5, <2>6, BackendsAssumption DEF Keeps, Recalls
<1>13. LostDead' /\ EndedOwn'
  <2>1. CASE told' = told
    BY <1>1, <1>2, <1>4, <2>1 DEF LostDead, EndedOwn, Inv, Judged
  <2>2. CASE told'.what \in {"none", "cancelled", "unwound"}
    BY <2>2 DEF LostDead, EndedOwn
  <2> QED
    BY <2>1, <2>2 DEF Tells
<1> QED
  BY <1>5, <1>8, <1>9, <1>10, <1>11, <1>12, <1>13 DEF Inv, Placed, Judged

\* A step that leaves the provider's side alone.
LEMMA StillStep ==
    ASSUME Inv, UNCHANGED <<world, attempt, cached>>, Setting,
           released' = released \/ released' = FALSE,
           blurred' \in BOOLEAN, blurred => blurred', faults' \in 0..MaxFaults,
           stage' \in {"idle", "rented", "ready", "launched", "live", "ending", "over"},
           stage' \in {"idle", "over"} => stage \in {"idle", "over"},
           stage' = "idle" => stage = "idle",
           stage = "over" => stage' = "over"
    PROVE  Settles
<1>1. /\ Typed /\ Shape(world) /\ Grows(world, world)
      /\ Running(world) \subseteq 1..Last(world)
  BY InvFacts
<1>2. cached \in 0..Last(world)
  BY <1>1 DEF Typed
<1>3. (kind = "kaggle" /\ ~blurred' /\ canStop) => cached \notin Running(world)
  BY DEF Inv, Placed, KernelFits, Heard
<1> QED
  BY <1>1, <1>2, <1>3 DEF Settles, Setting

\* Faults are counted up to their bound.
LEMMA CostFacts ==
    ASSUME Typed, NEW n \in Nat, Cost(n)
    PROVE  faults' \in 0..MaxFaults
BY BackendsAssumption DEF Typed, Cost

LEMMA UnwindTells ==
    ASSUME Typed, Last(world) \in Nat, Unwind
    PROVE  Tells
BY DEF Unwind, Tells, Told, Outcomes

LEMMA KeptTells ==
    ASSUME Typed, UNCHANGED told
    PROVE  Tells
BY DEF Typed, Tells

\* A machine goes, under a handle that holds it or by itself.
LEMMA DestroyedSettles ==
    ASSUME Inv, Hosting, NEW b, world' = Destroyed(world, b),
           Single => Standing(world) \subseteq {b}
    PROVE  /\ Shape(world') /\ Grows(world, world') /\ Last(world') = Last(world)
           /\ Running(world') \subseteq Running(world) /\ Standing(world') \subseteq Standing(world)
           /\ \/ world'.dir = world.dir
              \/ Hosting /\ world'.dir = NoDir /\ (~blurred => Running(world') = {})
<1>1. Shape(world)
  BY DEF Inv
<1>2. /\ Shape(world') /\ Grows(world, world') /\ Last(world') = Last(world)
      /\ Standing(world') = Standing(world) \ {b}
      /\ Running(world') \subseteq {i \in Running(world) : world.runs[i].box # b}
      /\ world'.dir = NoDir \/ world'.dir = world.dir
  BY <1>1, DestroyedShape
<1>3. ~blurred => Running(world') = {}
  BY <1>2 DEF Shape, Housed, Hosting, Single, Labelled
<1> QED
  BY <1>2, <1>3

LEMMA ReadyStep ==
    ASSUME Inv, Ready
    PROVE  Inv'
<1>1. /\ Typed /\ Last(world) \in Nat /\ faults \in Nat /\ MaxFaults \in Nat /\ faults <= MaxFaults
      /\ blurred \in BOOLEAN /\ cached \in 0..Last(world)
  BY InvFacts DEF Typed
<1>2. stage = "rented" /\ saved = None /\ told = Untold /\ ~released
  BY DEF Ready, Inv, Placed, Phases
<1>3. UNCHANGED <<attempt, handle, saved, cached, released, blurred>> /\ Setting
  BY DEF Ready
<1>4. Keeps
  BY <1>3 DEF Keeps, Recalls
<1>5. CASE stage' = "ready" /\ UNCHANGED <<world, told, faults>>
  <2>1. Phases'
    BY <1>2, <1>3, <1>5 DEF Phases
  <2>2. Settles /\ Tells
    BY <1>1, <1>2, <1>3, <1>5, StillStep, KeptTells
  <2> QED
    BY <1>4, <2>1, <2>2, SettlesStep
<1>6. CASE Unwind /\ UNCHANGED <<world, faults>>
  <2>1. Phases' /\ stage' = "ending"
    BY <1>2, <1>3, <1>6 DEF Phases, Unwind
  <2>2. Settles /\ Tells
    BY <1>1, <1>2, <1>3, <1>6, <2>1, StillStep, UnwindTells
  <2> QED
    BY <1>4, <2>1, <2>2, SettlesStep
<1>7. CASE kind = "market" /\ handle # None /\ GivesUp(handle.box) /\ Unwind
  <2>1. Phases' /\ stage' = "ending"
    BY <1>2, <1>3, <1>7 DEF Phases, Unwind
  <2>2. Tells
    BY <1>1, <1>7, UnwindTells
  <2>3. CASE UNCHANGED world /\ Cost(1)
    <3>1. faults' \in 0..MaxFaults
      BY <1>1, <2>3, CostFacts
    <3>2. Settles
      BY <1>1, <1>2, <1>3, <2>1, <2>3, <3>1, StillStep
    <3> QED
      BY <1>4, <2>1, <2>2, <3>2, SettlesStep
  <2>4. CASE world' = Destroyed(world, handle.box) /\ UNCHANGED faults
    <3>1. Hosting /\ (Single => Standing(world) \subseteq {handle.box})
      BY <1>7 DEF Hosting, Inv, Placed, HandlesFit, Fits
    <3>2. Settles
      BY <1>1, <1>2, <1>3, <1>7, <2>1, <2>4, <3>1, DestroyedSettles DEF Settles, Setting
    <3> QED
      BY <1>4, <2>1, <2>2, <3>2, SettlesStep
  <2> QED
    BY <1>7, <2>3, <2>4 DEF GivesUp
<1> QED
  BY <1>5, <1>6, <1>7 DEF Ready

LEMMA ActivateStep ==
    ASSUME Inv, Activate
    PROVE  Inv'
<1>1. /\ Typed /\ blurred \in BOOLEAN /\ faults \in 0..MaxFaults
  BY DEF Inv, Typed
<1>2. stage = "launched" /\ handle # None /\ told = Untold /\ ~released
  BY DEF Activate, Inv, Placed, Phases
<1>3. /\ UNCHANGED <<attempt, handle, cached, world, told, released, blurred, faults>> /\ Setting
      /\ stage' = "live" /\ saved' = handle
  BY DEF Activate
<1>4. Phases'
  BY <1>2, <1>3 DEF Phases
<1>5. Settles /\ Tells /\ Keeps
  BY <1>1, <1>2, <1>3, StillStep, KeptTells DEF Keeps, Recalls
<1> QED
  BY <1>4, <1>5, SettlesStep

LEMMA ReleaseFailsStep ==
    ASSUME Inv, ReleaseFails
    PROVE  Inv'
<1>1. Typed /\ blurred \in BOOLEAN
  BY DEF Inv, Typed
<1>2. /\ UNCHANGED <<stage, attempt, handle, saved, cached, world, told, released, blurred>>
      /\ Setting /\ Cost(1)
  BY DEF ReleaseFails
<1>3. faults' \in 0..MaxFaults
  BY <1>1, <1>2, CostFacts
<1>4. stage \in {"idle", "rented", "ready", "launched", "live", "ending", "over"}
  BY <1>1 DEF Typed
<1>5. Phases'
  BY <1>2 DEF Inv, Placed, Phases
<1>6. Settles /\ Tells /\ Keeps
  BY <1>1, <1>2, <1>3, <1>4, StillStep, KeptTells DEF Keeps, Recalls
<1> QED
  BY <1>5, <1>6, SettlesStep

LEMMA CrashStep ==
    ASSUME Inv, Crash
    PROVE  Inv'
<1>1. /\ Typed /\ Shape(world) /\ Grows(world, world) /\ Last(world) \in Nat
      /\ Running(world) \subseteq 1..Last(world)
  BY InvFacts
<1>2. /\ handle' = None /\ cached' = 0
      /\ stage' = IF stage = "launched" THEN "ready" ELSE stage
      /\ blurred' = (blurred \/ (~labels /\ handle # None /\ saved = None))
      /\ UNCHANGED <<attempt, saved, world, told, released>> /\ Setting /\ Cost(1)
  BY DEF Crash
<1>3. faults' \in 0..MaxFaults
  BY <1>1, <1>2, CostFacts
<1>4. Phases'
  BY <1>2 DEF Inv, Placed, Phases
<1>5. /\ stage' \in {"idle", "rented", "ready", "launched", "live", "ending", "over"}
      /\ stage' \in {"idle", "over"} => stage \in {"idle", "over"}
      /\ stage' = "idle" => stage = "idle"
      /\ stage = "over" => stage' = "over"
      /\ blurred' \in BOOLEAN /\ (blurred => blurred')
  BY <1>1, <1>2 DEF Typed
<1>6. Settles
  BY <1>1, <1>2, <1>3, <1>5 DEF Settles, Setting
<1>7. Tells /\ Keeps
  BY <1>1, <1>2, KeptTells DEF Keeps, Recalls
<1> QED
  BY <1>4, <1>6, <1>7, SettlesStep

LEMMA ObserveStep ==
    ASSUME Inv, Observe
    PROVE  Inv'
<1>1. /\ Typed /\ Shape(world) /\ Grows(world, world) /\ Last(world) \in Nat
      /\ world.dir.result \in 0..Last(world)
      /\ Running(world) \subseteq 1..Last(world)
      /\ cached \in 0..Last(world) /\ blurred \in BOOLEAN /\ faults \in 0..MaxFaults
  BY InvFacts DEF Typed, Shape, Bounded
<1>2. stage = "live" /\ saved # None /\ ~released
  BY DEF Observe, Inv, Placed, Phases
<1>3. /\ stage' = "ending" /\ handle' = Known
      /\ UNCHANGED <<attempt, saved, world, released>> /\ Setting
  BY DEF Observe
<1>4. Known # None /\ Known \in {handle, saved}
  BY <1>2 DEF Known
<1>5. Phases' /\ Keeps
  BY <1>2, <1>3, <1>4 DEF Phases, Keeps, Recalls
<1>6. Known \in Handles /\ Fine(Known) /\ Fits(Known)
  BY <1>4, KnownFits
<1>7. CASE /\ told' \in Verdicts(Known) /\ cached' = Cache(told')
           /\ blurred' = (blurred \/ Stale) /\ UNCHANGED faults
  <2>1. Believed(told') /\ ((kind = "kaggle" /\ Heard) => told'.of \notin Running(world))
    BY <1>2, <1>6, <1>7, VerdictBelieved
  <2>2. blurred' \in BOOLEAN /\ (blurred => blurred')
    BY <1>1, <1>7 DEF Stale
  <2>3. LostDead' /\ EndedOwn'
    BY <1>3, <2>1, <2>2 DEF LostDead, EndedOwn, Believed, Setting
  <2>4. Tells
    BY <2>1, <2>3 DEF Believed, Tells
  <2>5. cached' \in 0..Last(world)
    BY <1>1, <1>7, <2>1 DEF Cache, Believed, Told
  <2>6. (kind = "kaggle" /\ ~blurred' /\ canStop) => cached' \notin Running(world)
    BY <1>7, <2>1, <2>2 DEF Cache, Heard, Inv, Placed, KernelFits
  <2>7. Settles
    BY <1>1, <1>2, <1>3, <1>7, <2>2, <2>5, <2>6 DEF Settles, Setting
  <2> QED
    BY <1>5, <2>4, <2>7, SettlesStep
<1>8. CASE /\ told' \in BlindVerdicts
           /\ Cost(1) /\ blurred' = (blurred \/ Gullible) /\ UNCHANGED cached
  <2>1. blurred' = TRUE
    BY <1>8 DEF BlindVerdicts, Gullible
  <2>2. \/ told' = Lost /\ kind # "kaggle"
        \/ told' = Ended(world.dir.result)
    BY <1>8 DEF BlindVerdicts, Unlisted
  <2>3. /\ told' \in Told /\ told'.of <= Last(world)
        /\ told'.what = "lost" => kind # "kaggle"
    BY <1>1, <2>2, EndedFacts
  <2>4. LostDead' /\ EndedOwn'
    BY <1>3, <2>1, <2>3 DEF LostDead, EndedOwn, Setting
  <2>5. Tells
    BY <2>3, <2>4 DEF Tells
  <2>6. faults' \in 0..MaxFaults
    BY <1>1, <1>8, CostFacts
  <2>7. Settles
    BY <1>2, <1>3, <1>8, <2>1, <2>6, StillStep
  <2> QED
    BY <1>5, <2>5, <2>7, SettlesStep
<1> QED
  BY <1>7, <1>8 DEF Observe

LEMMA CancelStep ==
    ASSUME Inv, Cancel
    PROVE  Inv'
<1>1. /\ Typed /\ Last(world) \in Nat
      /\ Running(world) \subseteq 1..Last(world) /\ Shape(world)
      /\ cached \in 0..Last(world) /\ blurred \in BOOLEAN /\ faults \in 0..MaxFaults
  BY InvFacts DEF Typed
<1>2. /\ told' = [what |-> "cancelled", of |-> 0]
      /\ UNCHANGED <<attempt, saved, released>> /\ Setting
  BY DEF Cancel
<1>3. Tells
  BY <1>1, <1>2 DEF Tells, Told, Outcomes
<1>4. CASE /\ \/ stage = "idle" /\ stage' = "over"
              \/ stage \in {"rented", "ready", "launched"} /\ stage' = "ending"
           /\ UNCHANGED <<handle, cached, world, blurred, faults>>
  <2>1. Phases' /\ Keeps
    BY <1>2, <1>4 DEF Inv, Placed, Phases, Keeps, Recalls
  <2>2. Settles
    BY <1>1, <1>2, <1>4, StillStep
  <2> QED
    BY <1>3, <2>1, <2>2, SettlesStep
<1>5. CASE /\ stage = "live" /\ stage' = "ending" /\ handle' = Known
           /\ \/ /\ world' = Stopped(Known) /\ cached' = CacheStop
                 /\ blurred' = (blurred \/ Missed(Known)) /\ UNCHANGED faults
              \/ /\ Cost(1) /\ UNCHANGED <<world, cached, blurred>>
  <2>1. Known # None /\ Known \in {handle, saved} /\ ~released
    BY <1>5 DEF Known, Inv, Placed, Phases
  <2>2. Phases' /\ Keeps
    BY <1>2, <1>5, <2>1 DEF Phases, Keeps, Recalls
  <2>3. Known \in Handles /\ Fine(Known) /\ Fits(Known)
    BY <2>1, KnownFits
  <2>4. CASE Cost(1) /\ UNCHANGED <<world, cached, blurred>>
    <3>1. faults' \in 0..MaxFaults
      BY <1>1, <2>4, CostFacts
    <3>2. Settles
      BY <1>1, <1>2, <1>5, <2>4, <3>1, StillStep
    <3> QED
      BY <1>3, <2>2, <3>2, SettlesStep
  <2>5. CASE /\ world' = Stopped(Known) /\ cached' = CacheStop
             /\ blurred' = (blurred \/ Missed(Known)) /\ UNCHANGED faults
    <3>1. /\ Shape(world') /\ Grows(world, world') /\ Last(world') = Last(world)
          /\ Running(world') \subseteq Running(world)
          /\ world'.dir = NoDir \/ world'.dir = world.dir
          /\ ~Hosting => world'.dir = world.dir
          /\ Standing(world') = IF Hosting THEN Standing(world) \ {Known.box} ELSE {}
          /\ (~Hosting /\ Heard /\ ~Missed(Known)) => Running(world') = {}
      BY <1>5, <2>3, <2>5, StoppedFacts
    <3>2. /\ blurred' \in BOOLEAN /\ (blurred => blurred')
          /\ (~blurred' => ~blurred /\ ~Missed(Known))
      BY <1>1, <2>5 DEF Missed
    <3>3. (Hosting /\ ~blurred) => Running(world') = {}
      <4>1. (Hosting /\ ~blurred) => Standing(world') = {}
        BY <2>3, <3>1 DEF Fits, Single, Labelled, Hosting
      <4> QED
        BY <3>1, <4>1 DEF Shape, Housed
    <3>4. cached' \in 0..Last(world)
      BY <1>1, <2>5 DEF CacheStop
    <3>5. (kind = "kaggle" /\ ~blurred' /\ canStop) => cached' \notin Running(world')
      BY <3>1, <3>2 DEF Hosting, Heard
    <3>6. Standing(world') \subseteq Standing(world)
      BY <3>1
    <3>7. Settles
      BY <1>1, <1>2, <1>5, <2>5, <3>1, <3>2, <3>3, <3>4, <3>5, <3>6 DEF Settles, Setting
    <3> QED
      BY <1>3, <2>2, <3>7, SettlesStep
  <2> QED
    BY <1>5, <2>4, <2>5
<1> QED
  BY <1>4, <1>5 DEF Cancel

\* A machine comes up.
LEMMA UpShape ==
    ASSUME NEW w, Shape(w), NEW b \in Standing(w)
    PROVE  LET v == [w EXCEPT !.boxes[b] = "up"]
           IN  /\ Shape(v) /\ Grows(w, v) /\ Last(v) = Last(w) /\ v.dir = w.dir
               /\ Running(v) = Running(w) /\ Standing(v) = Standing(w)
<1> DEFINE v == [w EXCEPT !.boxes[b] = "up"]
           m == [w.boxes EXCEPT ![b] = "up"]
<1>1. /\ w \in Worlds /\ Len(w.boxes) \in Nat /\ Last(w) \in Nat /\ DOMAIN w.runs = 1..Last(w)
      /\ w.boxes \in Seq({"warming", "up", "gone"}) /\ b \in DOMAIN w.boxes /\ w.boxes[b] # "gone"
  BY DEF Shape, Bounded, Worlds, Last, Standing
<1>2. v = [w EXCEPT !.boxes = m]
  OBVIOUS
<1>3. /\ m \in Seq({"warming", "up", "gone"}) /\ Len(m) = Len(w.boxes)
      /\ DOMAIN m = DOMAIN w.boxes
      /\ m[b] = "up" /\ \A j \in DOMAIN w.boxes : j # b => m[j] = w.boxes[j]
  BY <1>1, SetAt
<1> HIDE DEF m, v
<1>4. v.runs = w.runs /\ v.boxes = m /\ v.dir = w.dir /\ v \in Worlds
  BY <1>1, <1>2, <1>3 DEF Worlds
<1>5. Last(v) = Last(w) /\ Running(v) = Running(w)
  BY <1>4 DEF Last, Running
<1>6. Standing(v) = Standing(w)
  BY <1>1, <1>3, <1>4 DEF Standing
<1>7. Grows(w, v)
  BY <1>1, <1>3, <1>4, <1>5 DEF Grows
<1>8. Shape(v)
  BY <1>1, <1>3, <1>4, <1>5, <1>6 DEF Shape, Bounded, Housed, Homed
<1> QED
  BY <1>4, <1>5, <1>6, <1>7, <1>8 DEF v

LEMMA MoveFacts ==
    ASSUME Inv, NEW v, Move(v)
    PROVE  /\ world' = v /\ Tells /\ Keeps /\ Phases'
           /\ kind' = kind /\ canStop' = canStop /\ labels' = labels /\ attempt' = attempt /\ stage' = stage
           /\ blurred' = blurred /\ blurred \in BOOLEAN /\ faults' \in 0..MaxFaults
           /\ stage \in {"idle", "rented", "ready", "launched", "live", "ending", "over"}
           /\ released' = released /\ cached' = cached /\ cached \in 0..Last(world)
           /\ (kind = "kaggle" /\ ~blurred /\ canStop) => cached \notin Running(world)
<1>1. /\ world' = v
      /\ UNCHANGED <<stage, attempt, handle, saved, cached, told, released, blurred, faults>>
      /\ kind' = kind /\ canStop' = canStop /\ labels' = labels
  BY DEF Move, Setting
<1>2. Tells /\ Keeps
  BY <1>1, KeptTells DEF Keeps, Recalls, Inv
<1>3. Phases'
  BY <1>1 DEF Inv, Placed, Phases
<1>4. (kind = "kaggle" /\ ~blurred /\ canStop) => cached \notin Running(world)
  BY DEF Inv, Placed, KernelFits, Heard
<1> QED
  BY <1>1, <1>2, <1>3, <1>4 DEF Inv, Typed

LEMMA PlatformStep ==
    ASSUME Inv, Platform
    PROVE  Inv'
<1>1. Shape(world) /\ world.dir \in Dirs /\ Running(world) \subseteq 1..Last(world)
      /\ Last(world) \in Nat
  BY InvFacts
<1>2. ASSUME NEW i \in DOMAIN world.runs, PlatformStart(i)
      PROVE  Inv'
  <2> DEFINE v == [world EXCEPT !.runs[i].st = "on"]
  <2>1. i \in Running(world) /\ Move(v)
    BY <1>2 DEF PlatformStart, Running, Unsettled
  <2>2. /\ Shape(v) /\ Grows(world, v) /\ Running(v) = Running(world)
        /\ Standing(v) = Standing(world) /\ Last(v) = Last(world) /\ v.dir = world.dir
    BY <1>1, <2>1, StatusShape
  <2> HIDE DEF v
  <2>3. Settles
    BY <2>1, <2>2, MoveFacts DEF Settles
  <2> QED
    BY <2>1, <2>3, MoveFacts, SettlesStep
<1>3. ASSUME NEW i \in DOMAIN world.runs, PlatformDie(i)
      PROVE  Inv'
  <2>1. Move(Kill(world, i))
    BY <1>3 DEF PlatformDie
  <2> DEFINE v == Kill(world, i)
  <2>2. /\ Shape(v) /\ Grows(world, v) /\ Running(v) = Running(world) \ {i}
        /\ Standing(v) = Standing(world) /\ Last(v) = Last(world) /\ v.dir = world.dir
    BY <1>1, KillShape
  <2> HIDE DEF v
  <2>3. Settles
    BY <2>1, <2>2, MoveFacts DEF Settles, v
  <2> QED
    BY <2>1, <2>3, MoveFacts, SettlesStep
<1>4. ASSUME NEW i \in DOMAIN world.runs, PlatformFinish(i)
      PROVE  Inv'
  <2> DEFINE u == [world EXCEPT !.runs[i].st = "ok"]
             writes == world.dir.there /\ Holds(world, world.runs[i].box)
             d == IF writes THEN [world.dir EXCEPT !.result = i] ELSE world.dir
             v == [u EXCEPT !.dir = d]
  <2>1. i \in Running(world)
    BY <1>4 DEF PlatformFinish, Running, Unsettled
  <2>2. Move(v)
    <3>1. world \in Worlds
      BY <1>1 DEF Shape, Bounded
    <3>2. v = [world EXCEPT !.runs[i].st = "ok",
                            !.dir = IF @.there /\ Holds(world, world.runs[i].box)
                                    THEN [@ EXCEPT !.result = i] ELSE @]
      BY <3>1 DEF Worlds
    <3> HIDE DEF v
    <3> QED
      BY <1>4, <3>2 DEF PlatformFinish
  <2>3. /\ Shape(u) /\ Grows(world, u)
        /\ Running(u) = IF "ok" = "on" THEN Running(world) ELSE Running(world) \ {i}
        /\ Standing(u) = Standing(world) /\ Last(u) = Last(world) /\ u.dir = world.dir
    BY <1>1, <2>1, StatusShape
  <2>4. Running(u) = Running(world) \ {i}
    BY <2>3
  <2>5. i \in 1..Last(world) /\ world.dir.pid \in 0..Last(world)
        /\ world.dir.result \in 0..Last(world)
    BY <1>1, <2>1 DEF Shape, Bounded
  <2>6. /\ d \in Dirs /\ d.pid = world.dir.pid /\ d.there = world.dir.there
        /\ writes => world.dir.there /\ world.dir.pid # 0 /\ d.result = i
        /\ ~writes => d = world.dir
    BY <1>1, <2>5 DEF Dirs, Holds
  <2> HIDE DEF u, d, writes
  <2>7. Hosting => d \in {NoDir, u.dir} \/ (d.pid = u.dir.pid /\ d.pid # 0)
    BY <2>3, <2>6
  <2>8. d.pid \in 0..Last(u) /\ d.result \in 0..Last(u)
    BY <2>3, <2>5, <2>6
  <2>9. /\ Shape(v) /\ Grows(u, v) /\ Last(v) = Last(u) /\ v.dir = d
        /\ Standing(v) = Standing(u) /\ Running(v) = Running(u)
    BY <2>3, <2>6, <2>7, <2>8, DirShape
  <2> HIDE DEF v
  <2>10. Grows(world, v)
    BY <1>1, <2>3, <2>9, GrowsTwice, StillShape
  <2>11. world' = v
    BY <2>2 DEF Move
  <2>12. world'.dir = world.dir \/ Results
    BY <2>1, <2>4, <2>6, <2>9, <2>11 DEF Results
  <2>13. Settles
    BY <2>2, <2>3, <2>4, <2>9, <2>10, <2>11, <2>12, MoveFacts DEF Settles
  <2> QED
    BY <2>2, <2>13, MoveFacts, SettlesStep
<1>5. ASSUME NEW b \in DOMAIN world.boxes, BoxUp(b)
      PROVE  Inv'
  <2> DEFINE v == [world EXCEPT !.boxes[b] = "up"]
  <2>1. b \in Standing(world) /\ Move(v)
    BY <1>5 DEF BoxUp, Standing
  <2>2. /\ Shape(v) /\ Grows(world, v) /\ Running(v) = Running(world)
        /\ Standing(v) = Standing(world) /\ Last(v) = Last(world) /\ v.dir = world.dir
    BY <1>1, <2>1, UpShape
  <2> HIDE DEF v
  <2>3. Settles
    BY <2>1, <2>2, MoveFacts DEF Settles
  <2> QED
    BY <2>1, <2>3, MoveFacts, SettlesStep
<1>6. ASSUME NEW b \in DOMAIN world.boxes, BoxGone(b)
      PROVE  Inv'
  <2>1. b \in Standing(world) /\ Move(Destroyed(world, b))
    BY <1>6 DEF BoxGone, Up, Standing
  <2>2. Hosting /\ world' = Destroyed(world, b)
    BY <1>1, <2>1 DEF Shape, Housed, Move
  <2>3. Single => Standing(world) \subseteq {b}
    BY <2>1 DEF Inv, Placed, BoxesFit
  <2>4. Settles
    BY <2>1, <2>2, <2>3, MoveFacts, DestroyedSettles DEF Settles
  <2> QED
    BY <2>1, <2>4, MoveFacts, SettlesStep
<1> QED
  BY <1>2, <1>3, <1>4, <1>5, <1>6 DEF Platform

\* A payload begins, where none ran and no directory was left, or unheard of.
Begins(w, b) ==
    /\ Shape(w) /\ Grows(world, w) /\ Last(w) = Last(world)
    /\ w.dir \in {NoDir, world.dir} /\ Running(w) = Running(world)
    /\ b \in 0..Len(w.boxes) /\ (Hosting => b \in Standing(w))
    /\ (Labelled \/ (Hosting /\ ~blurred')) => Standing(w) \subseteq {b}
    /\ (~blurred' /\ kind # "kaggle") => world.dir = NoDir
    /\ (~blurred' /\ kind = "kaggle") => stage = "idle"
    /\ world' = Started(w, b)
    /\ \/ handle' = Handle(Last(world) + 1, b, TRUE)
       \/ handle' = handle /\ blurred' /\ (handle # None => handle.box = b)
    /\ saved' = None
    /\ kind' = kind /\ canStop' = canStop /\ labels' = labels /\ attempt' = attempt
    /\ blurred' \in BOOLEAN /\ (blurred => blurred') /\ faults' \in 0..MaxFaults
    /\ stage' \in {"rented", "ready", "launched", "ending"}
    /\ released' = FALSE /\ cached' = cached
    /\ told' \in Told /\ told'.of <= Last(world) /\ told'.what \in {"none", "unwound"}

LEMMA BeginsStep ==
    ASSUME Inv, NEW w, NEW b, Begins(w, b), Phases'
    PROVE  Inv'
<1>1. /\ Typed /\ Shape(world) /\ Grows(world, world)
      /\ Last(world) \in Nat /\ Len(world.boxes) \in Nat /\ DOMAIN world.runs = 1..Last(world)
      /\ world.dir \in Dirs /\ Running(world) \subseteq 1..Last(world)
      /\ kind \in {"ssh", "slurm", "kaggle", "colab", "market"}
      /\ attempt \in Nat \ {0} /\ cached \in 0..Last(world)
  BY InvFacts DEF Typed
<1>2. /\ Shape(w) /\ Grows(world, w) /\ Last(w) = Last(world)
      /\ w.dir \in {NoDir, world.dir} /\ Running(w) = Running(world)
      /\ b \in 0..Len(w.boxes) /\ (Hosting => b \in Standing(w))
      /\ world' = Started(w, b) /\ attempt \in Nat \ {0}
      /\ kind' = kind /\ canStop' = canStop /\ labels' = labels /\ attempt' = attempt
      /\ (~blurred' => ~blurred)
  BY <1>1 DEF Begins
<1>3. stage' \in {"rented", "ready", "launched", "ending"} /\ released' = FALSE /\ cached' = cached
  BY DEF Begins
<1>4. /\ Shape(world') /\ Grows(w, world') /\ Last(world') = Last(w) + 1
      /\ Standing(world') = Standing(w) /\ world'.boxes = w.boxes
      /\ Running(world') = Running(w) \cup {Last(world')} /\ world'.runs[Last(world')].of = attempt
      /\ kind = "kaggle" => world'.dir = w.dir
      /\ kind # "kaggle" => /\ world'.dir.there /\ world'.dir.pid = Last(world')
                            /\ world'.dir.result = w.dir.result
  BY <1>2, StartedShape
<1>5. Grows(world, world')
  BY <1>1, <1>2, <1>4, GrowsTwice
<1>6. Shape(world)'
  BY <1>1, <1>2, <1>4, ShapeNext
<1>7. Len(w.boxes) \in Nat
  BY <1>2, StillShape
<1>8. Fine(handle)' /\ Fine(saved)'
  <2>1. Fine(saved)'
    BY DEF Begins, Fine
  <2>2. CASE handle' = Handle(Last(world) + 1, b, TRUE)
    BY <1>1, <1>2, <1>4, <1>7, <2>1, <2>2 DEF Handle, Handles, Fine
  <2>3. CASE handle' = handle
    <3>1. Fine(handle)
      BY <1>1 DEF Typed
    <3>2. handle = None \/ (handle \in Handles /\ handle.run <= Last(world')
                            /\ handle.box <= Len(world'.boxes))
      BY <1>1, <1>5, <3>1, FineNext
    <3> QED
      BY <2>1, <2>3, <3>2 DEF Fine
  <2> QED
    BY <2>2, <2>3 DEF Begins
<1>9. Typed'
  <2>1. cached' \in 0..Last(world') /\ told' \in Told /\ told'.of <= Last(world')
    BY <1>1, <1>2, <1>3, <1>4 DEF Begins, Told
  <2>2. blurred' \in BOOLEAN /\ faults' \in 0..MaxFaults
    BY DEF Begins
  <2> QED
    BY <1>1, <1>2, <1>3, <1>8, <2>1, <2>2 DEF Typed
<1>10. DirFits'
  <2> SUFFICES ASSUME kind' # "kaggle", ~blurred' PROVE DirFits!2'
    BY DEF DirFits
  <2>1. world.dir = NoDir /\ Running(world) \subseteq {world.dir.pid}
    BY <1>2 DEF Begins, Inv, Placed, DirFits
  <2>2. Running(world) = {} /\ w.dir.result = 0
    BY <1>1, <1>2, <2>1 DEF NoDir
  <2> QED
    BY <1>1, <1>2, <1>3, <1>4, <2>2
<1>11. KernelFits'
  <2> SUFFICES ASSUME kind' = "kaggle", Heard' PROVE KernelFits!2'
    BY DEF KernelFits
  <2>1. stage = "idle" /\ Heard /\ kind = "kaggle"
    BY <1>2 DEF Begins, Heard
  <2>2. Running(world) = {} /\ \A i \in DOMAIN world.runs : world.runs[i].of < attempt
    BY <2>1 DEF Inv, Placed, KernelFits
  <2>3. DOMAIN world'.runs = 1..(Last(world) + 1)
    BY <1>2, <1>4, StillShape
  <2>4. \A i \in DOMAIN world.runs : world'.runs[i].of = world.runs[i].of
    BY <1>5 DEF Grows
  <2>5. \A i \in DOMAIN world'.runs : i < Last(world') => world'.runs[i].of < attempt
    BY <1>1, <1>2, <1>4, <2>2, <2>3, <2>4, SMTT(40)
  <2> QED
    BY <1>1, <1>2, <1>3, <1>4, <2>2, <2>5
<1>12. Single' => Standing(world') \subseteq {b}
  BY <1>2, <1>4 DEF Begins, Single, Labelled, Hosting
<1>13. BoxesFit'
  <2>2. b \in Nat /\ Last(world) + 1 \in Nat
    BY <1>1, <1>2, <1>7
  <2>1. handle' = Handle(Last(world) + 1, b, TRUE) => handle' # None
    BY <2>2, HandleFacts
  <2> QED
    BY <1>3, <1>12, <2>1 DEF BoxesFit, Begins
<1>14. HandlesFit'
  <2>1. CASE handle' = Handle(Last(world) + 1, b, TRUE)
    BY <1>1, <1>2, <1>4, <1>12, <2>1 DEF HandlesFit, Fits, Handle, Begins
  <2>2. CASE handle' = handle /\ blurred' /\ (handle # None => handle.box = b)
    BY <1>2, <1>12, <2>2 DEF HandlesFit, Fits, Begins
  <2> QED
    BY <2>1, <2>2 DEF Begins
<1>15. LostDead' /\ EndedOwn'
  BY DEF LostDead, EndedOwn, Begins
<1> QED
  BY <1>6, <1>9, <1>10, <1>11, <1>13, <1>14, <1>15 DEF Inv, Placed, Judged

LEMMA PlaceStep ==
    ASSUME Inv, stage = "ready", handle # None, kind \in {"ssh", "market"}, world.dir.pid = 0,
           kind = "market" => Up(world, handle.box), Place(handle.box),
           UNCHANGED <<attempt, saved, cached, released>>, Setting
    PROVE  Inv'
<1> DEFINE b == handle.box
<1>1. /\ Typed /\ Shape(world) /\ Grows(world, world)
      /\ Last(world) \in Nat /\ Len(world.boxes) \in Nat
      /\ blurred \in BOOLEAN /\ faults \in 0..MaxFaults /\ told \in Told /\ told.of <= Last(world)
  BY InvFacts DEF Typed
<1>2. saved = None /\ told = Untold /\ ~released
  BY DEF Inv, Placed, Phases
<1>3. b \in 0..Len(world.boxes) /\ (Hosting => b \in Standing(world))
  BY <1>1 DEF Typed, Fine, Handles, Hosting, Up, Standing
<1>4. Single => Standing(world) \subseteq {b}
  BY DEF Inv, Placed, HandlesFit, Fits
<1>5. ~blurred => world.dir = NoDir
  BY DEF Inv, Placed, DirFits
<1>9. Labelled \/ (Hosting /\ ~blurred) => Standing(world) \subseteq {b}
  BY <1>4 DEF Single
<1> HIDE DEF b
<1>6. CASE Launched(Handle(Last(world) + 1, b, TRUE), Started(world, b))
  <2>1. Begins(world, b)
    BY <1>1, <1>2, <1>3, <1>5, <1>6, <1>9 DEF Begins, Launched, Setting, Untold
  <2>2. handle' # None
    <3>1. b \in Nat /\ Last(world) + 1 \in Nat
      BY <1>1, <1>3
    <3> QED
      BY <1>6, <3>1, HandleFacts DEF Launched
  <2>3. Phases'
    BY <1>2, <1>6, <2>2 DEF Phases, Launched
  <2> QED
    BY <2>1, <2>3, BeginsStep
<1>7. CASE /\ Cost(1) /\ world' = Started(world, b) /\ blurred' = TRUE /\ UNCHANGED handle
           /\ IF kind = "ssh" THEN UNCHANGED <<stage, told>> ELSE Unwind
  <2>1. faults' \in 0..MaxFaults
    BY <1>1, <1>7, CostFacts
  <2>2. /\ stage' \in {"ready", "ending"} /\ told' \in Told /\ told'.of <= Last(world)
        /\ told'.what \in {"none", "unwound"}
        /\ stage' = "ready" => told' = Untold
    BY <1>1, <1>2, <1>7 DEF Unwind, Untold, Told, Outcomes
  <2>3. Begins(world, b)
    BY <1>1, <1>2, <1>3, <1>7, <1>9, <2>1, <2>2 DEF Begins, Setting, b
  <2>4. Phases'
    BY <1>2, <2>2 DEF Phases
  <2> QED
    BY <2>3, <2>4, BeginsStep
<1>8. CASE Cost(1) /\ Unwind /\ UNCHANGED <<handle, world, blurred>>
  <2>1. faults' \in 0..MaxFaults
    BY <1>1, <1>8, CostFacts
  <2>2. Phases' /\ stage' = "ending"
    BY <1>2, <1>8 DEF Phases, Unwind
  <2>3. Settles /\ Tells /\ Keeps
    BY <1>1, <1>2, <1>8, <2>1, <2>2, StillStep, UnwindTells DEF Keeps, Recalls
  <2> QED
    BY <2>2, <2>3, SettlesStep
<1> QED
  BY <1>6, <1>7, <1>8 DEF Place, b

LEMMA LaunchStep ==
    ASSUME Inv, Launch
    PROVE  Inv'
<1>1. /\ Typed /\ Last(world) \in Nat /\ blurred \in BOOLEAN /\ faults \in 0..MaxFaults
      /\ kind \in {"ssh", "slurm", "kaggle", "colab", "market"}
      /\ world.dir.pid \in 0..Last(world)
  BY InvFacts DEF Typed, Shape, Bounded
<1>2. stage = "ready" /\ saved = None /\ told = Untold /\ ~released
  BY DEF Launch, Inv, Placed, Phases
<1>3. UNCHANGED <<attempt, saved, cached, released>> /\ Setting
  BY DEF Launch
<1>4. CASE Unwind /\ UNCHANGED <<handle, world, blurred, faults>>
  <2>1. Phases' /\ stage' = "ending"
    BY <1>2, <1>3, <1>4 DEF Phases, Unwind
  <2>2. Settles /\ Tells /\ Keeps
    BY <1>1, <1>2, <1>3, <1>4, <2>1, StillStep, UnwindTells DEF Keeps, Recalls
  <2> QED
    BY <2>1, <2>2, SettlesStep
<1>5. CASE handle # None /\ Launched(handle, world)
  <2>1. Phases' /\ stage' = "launched"
    BY <1>2, <1>3, <1>5 DEF Phases, Launched
  <2>2. Settles /\ Tells /\ Keeps
    BY <1>1, <1>2, <1>3, <1>5, <2>1, StillStep, KeptTells DEF Keeps, Recalls, Launched
  <2> QED
    BY <2>1, <2>2, SettlesStep
<1>6. CASE /\ handle # None /\ kind \in {"ssh", "market"} /\ world.dir.pid # 0
           /\ Launched([handle EXCEPT !.run = world.dir.pid, !.full = TRUE], world)
  <2>1. handle \in Handles
    BY <1>1, <1>6 DEF Typed, Fine
  <2>2. handle' = [run |-> world.dir.pid, box |-> handle.box, full |-> TRUE]
    BY <1>6, <2>1 DEF Launched, Handles
  <2>3. /\ handle' \in Handles /\ handle'.run <= Last(world) /\ handle'.box = handle.box
        /\ handle'.full = TRUE
    BY <1>1, <2>1, <2>2 DEF Handles
  <2>4. handle' # None
    BY <2>3, BackendsAssumption
  <2>5. Phases' /\ stage' = "launched"
    BY <1>2, <1>3, <1>6, <2>4 DEF Phases, Launched
  <2>6. Settles /\ Tells /\ Keeps
    BY <1>1, <1>2, <1>3, <1>6, <2>3, <2>4, <2>5, StillStep, KeptTells DEF Keeps, Recalls, Launched
  <2> QED
    BY <2>5, <2>6, SettlesStep
<1>7. CASE /\ handle # None /\ kind \in {"ssh", "market"} /\ world.dir.pid = 0
           /\ (kind = "market" => Up(world, handle.box)) /\ Place(handle.box)
  BY <1>2, <1>3, <1>7, PlaceStep
<1> QED
  BY <1>1, <1>4, <1>5, <1>6, <1>7 DEF Launch

\* An attempt fails with nothing recorded as rented: nothing was left, or
\* what was left is not heard of.
LEMMA FailsStep ==
    ASSUME Inv, stage = "idle", UNCHANGED <<handle, saved, cached>>, Setting,
           told' = Untold, released' = FALSE, faults' \in 0..MaxFaults,
           stage' \in {"idle", "over"}, attempt' \in {attempt, attempt + 1}, attempt' <= MaxAttempts,
           \/ world' = world /\ blurred' = blurred
           \/ /\ blurred' = TRUE /\ Shape(world') /\ Grows(world, world')
              /\ Labelled => \A a, b \in Standing(world') : a = b
    PROVE  Inv'
<1>1. /\ Typed /\ Shape(world) /\ Grows(world, world)
      /\ Last(world) \in Nat /\ Len(world.boxes) \in Nat /\ DOMAIN world.runs = 1..Last(world)
      /\ world.dir \in Dirs /\ attempt \in Nat \ {0} /\ MaxAttempts \in Nat
  BY InvFacts
<1>2. handle' = None /\ saved' = None /\ kind' = kind /\ canStop' = canStop /\ labels' = labels
  BY DEF Inv, Placed, Phases, Setting
<1>3. attempt' \in 1..MaxAttempts /\ attempt' \in Nat /\ attempt <= attempt'
  BY <1>1
<1>4. Shape(world') /\ Grows(world, world') /\ Last(world) <= Last(world') /\ Last(world') \in Nat
  BY <1>1 DEF Grows
<1>5. Shape(world)'
  BY <1>1, <1>2, <1>3, <1>4, ShapeNext
<1>6. Typed'
  <2>1. Fine(handle)' /\ Fine(saved)'
    BY <1>2 DEF Fine
  <2>2. told' \in Told /\ told'.of <= Last(world') /\ cached' \in 0..Last(world')
    BY <1>1, <1>4 DEF Untold, Told, Outcomes, Typed
  <2> QED
    BY <1>1, <1>2, <1>3, <2>1, <2>2 DEF Typed
<1>7. Phases' /\ HandlesFit' /\ LostDead' /\ EndedOwn'
  BY <1>2 DEF Phases, HandlesFit, LostDead, EndedOwn, Untold
<1>8. DirFits'
  BY <1>2 DEF DirFits, Inv, Placed, NoDir
<1>9. KernelFits'
  <2> SUFFICES ASSUME kind' = "kaggle", Heard' PROVE KernelFits!2'
    BY DEF KernelFits
  <2>1. world' = world /\ Heard /\ kind = "kaggle"
    BY <1>2 DEF Heard
  <2>2. /\ Running(world) = {} /\ \A i \in DOMAIN world.runs : world.runs[i].of < attempt
    BY <2>1 DEF Inv, Placed, KernelFits
  <2>3. \A i \in DOMAIN world.runs : world.runs[i].of < attempt'
    BY <1>1, <1>3, <2>2 DEF Shape, Bounded
  <2> QED
    BY <2>1, <2>2, <2>3
<1>10. BoxesFit'
  BY <1>2 DEF BoxesFit, Single, Labelled, Hosting, Inv, Placed, Phases
<1> QED
  BY <1>5, <1>6, <1>7, <1>8, <1>9, <1>10 DEF Inv, Placed, Judged

\* A machine of the market is rented, where none stood.
LEMMA MachineStep ==
    ASSUME Inv, stage = "idle", kind = "market", Found = None,
           Rented(Handle(0, Len(world.boxes) + 1, FALSE), Boxed(world, "warming")),
           UNCHANGED <<saved, cached, blurred>>, Setting,
           told' = Untold, released' = FALSE, faults' \in 0..MaxFaults
    PROVE  Inv'
<1> DEFINE n == Len(world.boxes) + 1
           w == Boxed(world, "warming")
<1>1. /\ Typed /\ Shape(world) /\ Last(world) \in Nat /\ Len(world.boxes) \in Nat
      /\ DOMAIN world.runs = 1..Last(world)
      /\ world.dir \in Dirs /\ attempt \in Nat \ {0} /\ MaxAttempts \in Nat /\ Hosting
  BY InvFacts DEF Hosting
<1>2. /\ handle' = Handle(0, n, FALSE) /\ world' = w /\ stage' = "rented" /\ attempt' = attempt
      /\ saved' = None /\ kind' = kind /\ canStop' = canStop /\ labels' = labels
  BY DEF Rented, Setting, Inv, Placed, Phases
<1>3. /\ Shape(w) /\ Grows(world, w) /\ Last(w) = Last(world) /\ w.dir = NoDir
      /\ Len(w.boxes) = Len(world.boxes) + 1
      /\ Standing(w) = Standing(world) \cup {Len(w.boxes)} /\ Running(w) = Running(world)
  BY <1>1, BoxedShape
<1> HIDE DEF w
<1>4. ~Hidden => Standing(world) = {}
  BY <1>1, FoundNone DEF Known, Inv, Placed, Phases
<1>5. ~Hidden => Running(world) = {}
  BY <1>1, <1>4 DEF Shape, Housed
<1>6. Shape(world)'
  BY <1>1, <1>2, <1>3, ShapeNext
<1>7. handle' \in Handles /\ handle'.run = 0 /\ handle'.box = n /\ handle' # None
  <2>1. n \in Nat
    BY <1>1
  <2> HIDE DEF n
  <2>2. handle' \in Handles /\ handle'.run = 0 /\ handle'.box = n
    BY <1>2, <2>1 DEF Handle, Handles
  <2> QED
    BY <2>2, BackendsAssumption
<1>8. Typed'
  <2>1. Fine(handle)' /\ Fine(saved)'
    <3>1. Last(world') = Last(world)
      BY <1>2, <1>3
    <3>4. handle'.run <= Last(world')
      BY <1>1, <1>7, <3>1
    <3>2. Len(world'.boxes) = n /\ n \in Nat
      BY <1>1, <1>2, <1>3
    <3>3. handle'.box <= Len(world'.boxes)
      BY <1>7, <3>2
    <3> QED
      BY <1>2, <1>7, <3>3, <3>4 DEF Fine
  <2>2. told' \in Told /\ told'.of <= Last(world') /\ cached' \in 0..Last(world')
    BY <1>1, <1>2, <1>3 DEF Untold, Told, Outcomes, Typed
  <2> QED
    BY <1>1, <1>2, <2>1, <2>2 DEF Typed
<1>9. Phases'
  BY <1>2, <1>7 DEF Phases
<1>10. DirFits' /\ KernelFits'
  BY <1>2, <1>3, <1>5 DEF DirFits, KernelFits, NoDir, Hidden
<1>11. ~Hidden => Standing(world') = {n}
  BY <1>2, <1>3, <1>4
<1>15. Single' => ~Hidden
  BY <1>2 DEF Single, Labelled, Hosting, Hidden
<1>12. BoxesFit'
  BY <1>2, <1>7, <1>11, <1>15 DEF BoxesFit
<1>13. HandlesFit'
  BY <1>2, <1>7, <1>11, <1>15 DEF HandlesFit, Fits
<1>14. LostDead' /\ EndedOwn'
  BY DEF LostDead, EndedOwn, Untold
<1> QED
  BY <1>6, <1>8, <1>9, <1>10, <1>12, <1>13, <1>14 DEF Inv, Placed, Judged

\* A failed call may have left a payload, or a machine with or without one.
LEMMA LeftoversShape ==
    ASSUME Inv, NEW w \in Leftovers, Labelled => Standing(world) = {}
    PROVE  /\ Shape(w) /\ Grows(world, w)
           /\ Labelled => \A a, b \in Standing(w) : a = b
<1>1. /\ Shape(world) /\ Grows(world, world) /\ Last(world) \in Nat /\ Len(world.boxes) \in Nat
      /\ attempt \in Nat \ {0} /\ kind \in {"ssh", "slurm", "kaggle", "colab", "market"}
  BY InvFacts
<1>2. CASE kind \in {"slurm", "kaggle"}
  <2>1. w = Started(world, 0) /\ ~Hosting
    BY <1>2 DEF Leftovers, Hosting
  <2>2. 0 \in 0..Len(world.boxes)
    BY <1>1
  <2> QED
    BY <1>1, <1>2, <2>1, <2>2, StartedShape
<1>3. CASE kind = "market"
  <2>1. w = Boxed(world, "warming") /\ Hosting
    BY <1>3 DEF Leftovers, Hosting
  <2>2. /\ Shape(w) /\ Grows(world, w) /\ Standing(w) = Standing(world) \cup {Len(w.boxes)}
    BY <1>1, <2>1, BoxedShape
  <2> QED
    BY <1>3, <2>2
<1>4. CASE kind = "colab"
  <2> DEFINE u == Boxed(world, "up")
  <2>1. Hosting /\ (w = u \/ w = Started(u, Len(world.boxes) + 1))
    BY <1>4 DEF Leftovers, SessionLeft, Hosting
  <2>2. /\ Shape(u) /\ Grows(world, u) /\ Len(u.boxes) = Len(world.boxes) + 1
        /\ Standing(u) = Standing(world) \cup {Len(u.boxes)}
    BY <1>1, <2>1, BoxedShape
  <2> HIDE DEF u
  <2>3. Len(u.boxes) \in 0..Len(u.boxes) /\ Len(u.boxes) \in Standing(u)
    BY <1>1, <2>2
  <2>4. CASE w = u
    BY <1>4, <2>2, <2>4 DEF Labelled
  <2>5. CASE w = Started(u, Len(u.boxes))
    <3>1. Shape(w) /\ Grows(u, w)
      BY <1>1, <2>2, <2>3, <2>5, StartedShape
    <3> QED
      BY <1>1, <1>4, <2>2, <3>1, GrowsTwice DEF Labelled
  <2> QED
    BY <2>1, <2>2, <2>4, <2>5
<1>5. kind # "ssh"
  BY DEF Leftovers
<1> QED
  BY <1>1, <1>2, <1>3, <1>4, <1>5

\* A submission that carries the payload.
LEMMA SubmitStep ==
    ASSUME Inv, stage = "idle", kind \in {"slurm", "kaggle"}, Found = None \/ blurred',
           Rented(Handle(Last(world) + 1, 0, TRUE), Started(world, 0)),
           UNCHANGED <<saved, cached>>, Setting, blurred' \in BOOLEAN, blurred => blurred',
           told' = Untold, released' = FALSE, faults' \in 0..MaxFaults
    PROVE  Inv'
<1>1. /\ Typed /\ Shape(world) /\ Grows(world, world)
      /\ Last(world) \in Nat /\ Len(world.boxes) \in Nat /\ ~Hosting /\ ~Single
  BY InvFacts DEF Hosting, Single, Labelled
<1>2. /\ handle' = Handle(Last(world) + 1, 0, TRUE) /\ stage' = "rented" /\ attempt' = attempt
      /\ world' = Started(world, 0) /\ saved' = None /\ kind' = kind /\ canStop' = canStop /\ labels' = labels
  BY DEF Rented, Setting, Inv, Placed, Phases
<1>3. (~blurred' /\ kind # "kaggle") => world.dir = NoDir
  BY DEF Inv, Placed, DirFits
<1>4. told' \in Told /\ told'.of <= Last(world) /\ told'.what = "none"
  BY <1>1 DEF Untold, Told, Outcomes
<1>5. 0 \in 0..Len(world.boxes)
  BY <1>1
<1>6. Begins(world, 0)
  BY <1>1, <1>2, <1>3, <1>4, <1>5 DEF Begins, Single
<1>7. Phases'
  BY <1>2 DEF Phases
<1> QED
  BY <1>6, <1>7, BeginsStep

\* A session, and the payload launched in it.
LEMMA SessionStep ==
    ASSUME Inv, stage = "idle", kind = "colab", Found = None \/ blurred', NewSession,
           UNCHANGED <<saved, cached>>, Setting, blurred' \in BOOLEAN, blurred => blurred',
           told' = Untold, released' = FALSE, faults' \in 0..MaxFaults
    PROVE  Inv'
<1> DEFINE b == Len(world.boxes) + 1
           w == Boxed(world, "up")
<1>1. /\ Typed /\ Shape(world) /\ Last(world) \in Nat /\ Len(world.boxes) \in Nat /\ Hosting
  BY InvFacts DEF Hosting
<1>2. /\ handle' = Handle(Last(world) + 1, b, TRUE) /\ stage' = "rented" /\ attempt' = attempt
      /\ world' = Started(w, b) /\ saved' = None /\ kind' = kind /\ canStop' = canStop /\ labels' = labels
  BY DEF NewSession, Rented, Setting, Inv, Placed, Phases
<1>3. /\ Shape(w) /\ Grows(world, w) /\ Last(w) = Last(world) /\ w.dir = NoDir
      /\ Len(w.boxes) = b
      /\ Standing(w) = Standing(world) \cup {b} /\ Running(w) = Running(world)
  BY <1>1, BoxedShape
<1>4. b \in Nat /\ b \in 0..b
  BY <1>1
<1> HIDE DEF w, b
<1>5. ~blurred' => Standing(world) = {} /\ world.dir = NoDir
  BY DEF Inv, Placed, BoxesFit, DirFits
<1>6. told' \in Told /\ told'.of <= Last(world) /\ told'.what = "none"
  BY <1>1 DEF Untold, Told, Outcomes
<1>7. Begins(w, b)
  BY <1>1, <1>2, <1>3, <1>4, <1>5, <1>6 DEF Begins, Labelled
<1>8. Phases'
  BY <1>2 DEF Phases
<1> QED
  BY <1>7, <1>8, BeginsStep

\* A host is just there.
LEMMA HostStep ==
    ASSUME Inv, stage = "idle", kind = "ssh", Found = None,
           Rented(Handle(0, 0, FALSE), world),
           UNCHANGED <<saved, cached, blurred>>, Setting,
           told' = Untold, released' = FALSE, faults' \in 0..MaxFaults
    PROVE  Inv'
<1>1. /\ Typed /\ Shape(world) /\ Last(world) \in Nat /\ Len(world.boxes) \in Nat
      /\ blurred \in BOOLEAN
  BY InvFacts DEF Typed
<1>2. /\ handle' = Handle(0, 0, FALSE) /\ world' = world /\ stage' = "rented" /\ attempt' = attempt
      /\ saved = None
  BY DEF Rented, Inv, Placed, Phases
<1>3. ~blurred => world.dir = NoDir
  BY DEF Inv, Placed, DirFits
<1>4. handle' \in Handles /\ Fine(handle') /\ Fits(handle')
  BY <1>1, <1>2, <1>3 DEF Handle, Handles, Fine, Fits, Single, Labelled, Hosting
<1>5. Keeps /\ Tells
  BY <1>1, <1>4 DEF Keeps, Recalls, Tells, Untold, Told, Outcomes
<1>6. Settles
  BY <1>1, <1>2, StillStep
<1>7. Phases'
  BY <1>2 DEF Phases
<1> QED
  BY <1>5, <1>6, <1>7, SettlesStep

LEMMA EnsureStep ==
    ASSUME Inv, Ensure
    PROVE  Inv'
<1>1. /\ Typed /\ Shape(world) /\ Last(world) \in Nat /\ Len(world.boxes) \in Nat
      /\ blurred \in BOOLEAN /\ faults \in 0..MaxFaults
      /\ kind \in {"ssh", "slurm", "kaggle", "colab", "market"}
      /\ attempt \in Nat \ {0} /\ MaxAttempts \in Nat /\ attempt <= MaxAttempts
  BY InvFacts DEF Typed
<1>2. /\ stage = "idle" /\ handle = None /\ saved = None
      /\ told' = Untold /\ released' = FALSE /\ UNCHANGED <<saved, cached>> /\ Setting
  BY DEF Ensure, Inv, Placed, Phases
<1>3. PICK blind \in IF Gullible THEN {0, 1} ELSE {0} :
        IF handle # None \/ (Found # None /\ blind = 0)
        THEN /\ Rented(IF handle # None THEN handle ELSE Found, world)
             /\ Cost(blind) /\ UNCHANGED blurred
        ELSE \/ /\ RentOk /\ blurred' = (blurred \/ blind = 1)
                /\ Cost(blind) \/ (kind = "slurm" /\ Cost(blind + 1))
             \/ /\ kind # "ssh" /\ Cost(blind + 1)
                /\ RentFails(world) /\ UNCHANGED blurred
             \/ /\ Cost(blind + 1)
                /\ \E w \in Leftovers : RentFails(w)
                /\ blurred' = TRUE
  BY DEF Ensure
<1>4. blind \in {0, 1} /\ (blind = 1 => Gullible) /\ blind \in Nat /\ blind + 1 \in Nat
  BY <1>3
<1>5. CASE Found # None /\ Rented(Found, world) /\ Cost(blind) /\ UNCHANGED blurred
  <2>1. handle' = Found /\ world' = world /\ stage' = "rented" /\ attempt' = attempt
    BY <1>5 DEF Rented
  <2>2. Found \in Handles /\ Fine(Found) /\ Fits(Found)
    BY <1>5, FoundFits
  <2>3. Keeps
    BY <1>2, <2>1, <2>2 DEF Keeps, Recalls
  <2>4. Tells
    BY <1>1, <1>2 DEF Tells, Untold, Told, Outcomes
  <2>5. faults' \in 0..MaxFaults
    BY <1>1, <1>4, <1>5, CostFacts
  <2>6. Settles
    BY <1>1, <1>2, <1>5, <2>1, <2>5, StillStep
  <2>7. Phases'
    BY <1>2, <2>1 DEF Phases
  <2> QED
    BY <2>3, <2>4, <2>6, <2>7, SettlesStep
<1>6. CASE /\ RentOk /\ blurred' = (blurred \/ blind = 1)
           /\ Cost(blind) \/ (kind = "slurm" /\ Cost(blind + 1))
           /\ Found = None \/ blind = 1
  <2>1. faults' \in 0..MaxFaults
    BY <1>1, <1>4, <1>6, CostFacts
  <2>2. /\ blurred' \in BOOLEAN /\ (blurred => blurred') /\ (Found = None \/ blurred')
        /\ kind \in {"ssh", "market"} => Found = None /\ blurred' = blurred
    BY <1>1, <1>4, <1>6 DEF Gullible
  <2>3. CASE kind = "ssh" /\ Rented(Handle(0, 0, FALSE), world)
    BY <1>2, <2>1, <2>2, <2>3, HostStep
  <2>4. CASE kind \in {"slurm", "kaggle"} /\ Rented(Handle(Last(world) + 1, 0, TRUE), Started(world, 0))
    BY <1>2, <2>1, <2>2, <2>4, SubmitStep
  <2>5. CASE kind = "colab" /\ NewSession
    BY <1>2, <2>1, <2>2, <2>5, SessionStep
  <2>6. CASE kind = "market" /\ RentInstance
    BY <1>2, <2>1, <2>2, <2>6, MachineStep DEF RentInstance
  <2> QED
    BY <1>6, <2>3, <2>4, <2>5, <2>6 DEF RentOk, Sbatch, Push
<1>7. ASSUME NEW w, RentFails(w)
      PROVE  /\ world' = w /\ UNCHANGED handle
             /\ stage' \in {"idle", "over"} /\ attempt' \in {attempt, attempt + 1}
             /\ attempt' <= MaxAttempts
  BY <1>1, <1>2, <1>7 DEF RentFails, Counted
<1>8. CASE Cost(blind + 1) /\ RentFails(world) /\ UNCHANGED blurred
  <2>1. faults' \in 0..MaxFaults
    BY <1>1, <1>4, <1>8, CostFacts
  <2> QED
    BY <1>2, <1>7, <1>8, <2>1, FailsStep
<1>9. CASE /\ Cost(blind + 1) /\ (\E w \in Leftovers : RentFails(w)) /\ blurred' = TRUE
           /\ Found = None \/ blind = 1
  <2>1. faults' \in 0..MaxFaults
    BY <1>1, <1>4, <1>9, CostFacts
  <2>2. PICK w \in Leftovers : RentFails(w)
    BY <1>9
  <2>3. Labelled => Standing(world) = {}
    BY <1>2, <1>4, <1>9, FoundNone DEF Gullible, Labelled, Hidden, Known
  <2>4. /\ Shape(w) /\ Grows(world, w)
        /\ Labelled => \A a, b \in Standing(w) : a = b
    BY <2>3, LeftoversShape
  <2>5. world' = w
    BY <1>7, <2>2
  <2> QED
    BY <1>2, <1>7, <1>9, <2>1, <2>2, <2>4, <2>5, FailsStep
<1> QED
  BY <1>2, <1>3, <1>4, <1>5, <1>6, <1>8, <1>9

----------------------------------------------------------------------------
(***************************************************************************)
(* The invariant holds, and the properties follow.                         *)
(***************************************************************************)
LEMMA InitInv == Init => Inv
<1> SUFFICES ASSUME Init PROVE Inv
  OBVIOUS
<1>1. /\ kind \in Kinds /\ canStop \in BOOLEAN /\ labels \in BOOLEAN /\ (kind # "kaggle" => canStop)
      /\ stage = "idle" /\ attempt = 1 /\ handle = None /\ saved = None /\ cached = 0
      /\ world = Nothing /\ told = Untold
      /\ released = FALSE /\ blurred = FALSE /\ faults = 0
  BY DEF Init
<1>2. /\ world.runs = << >> /\ world.boxes = << >> /\ world.dir = NoDir
      /\ DOMAIN world.runs = {} /\ DOMAIN world.boxes = {}
      /\ Last(world) = 0 /\ Len(world.boxes) = 0 /\ world \in Worlds
  BY <1>1 DEF Nothing, Last, Worlds, NoDir, Dirs
<1>3. Running(world) = {} /\ Standing(world) = {}
  BY <1>2 DEF Running, Standing
<1>4. Shape(world)
  BY <1>2, <1>3 DEF Shape, Bounded, Housed, Homed, NoDir
<1>5. Typed
  <2>1. MaxAttempts \in Nat \ {0} /\ MaxFaults \in Nat
    BY BackendsAssumption
  <2>2. attempt \in 1..MaxAttempts /\ faults \in 0..MaxFaults /\ cached \in 0..Last(world)
    BY <1>1, <1>2, <2>1
  <2>3. told \in Told /\ told.of <= Last(world)
    BY <1>1, <1>2 DEF Untold, Told, Outcomes
  <2> QED
    BY <1>1, <2>2, <2>3 DEF Typed, Fine
<1>6. Phases /\ HandlesFit /\ LostDead /\ EndedOwn
  BY <1>1 DEF Phases, HandlesFit, LostDead, EndedOwn, Untold
<1>7. DirFits /\ KernelFits /\ BoxesFit
  BY <1>1, <1>2, <1>3 DEF DirFits, KernelFits, BoxesFit, NoDir
<1> QED
  BY <1>4, <1>5, <1>6, <1>7 DEF Inv, Placed, Judged

LEMMA NextInv == Inv /\ [Next]_vars => Inv'
<1> SUFFICES ASSUME Inv, [Next]_vars PROVE Inv'
  OBVIOUS
<1>1. CASE UNCHANGED vars
  <2>1. UNCHANGED <<kind, canStop, labels, stage, attempt, handle, saved, cached, world, told, released,
                    blurred, faults>>
    BY <1>1 DEF vars
  <2> QED
    BY <2>1 DEF Inv, Typed, Fine, Shape, Bounded, Housed, Hosting, Placed, Phases, DirFits,
                KernelFits, Heard, BoxesFit, Single, Labelled, HandlesFit, Fits, Judged, LostDead, EndedOwn
<1>2. CASE Ensure
  BY <1>2, EnsureStep
<1>3. CASE Ready
  BY <1>3, ReadyStep
<1>4. CASE Launch
  BY <1>4, LaunchStep
<1>5. CASE Activate
  BY <1>5, ActivateStep
<1>6. CASE Observe
  BY <1>6, ObserveStep
<1>7. CASE Cancel
  BY <1>7, CancelStep
<1>8. CASE Release
  BY <1>8, ReleaseStep
<1>9. CASE ReleaseFails
  BY <1>9, ReleaseFailsStep
<1>10. CASE Crash
  BY <1>10, CrashStep
<1>11. CASE Platform
  BY <1>11, PlatformStep
<1> QED
  BY <1>1, <1>2, <1>3, <1>4, <1>5, <1>6, <1>7, <1>8, <1>9, <1>10, <1>11 DEF Next, Engine, Done

LEMMA InvHolds == Spec => []Inv
BY InitInv, NextInv, PTL DEF Spec

\* Once release has returned, nothing of the placement runs or bills: on a
\* market whose instances carry the job's label whatever call was lost;
\* elsewhere, thunder's unlabelled instances included, as long as every call
\* was heard and no handle forgotten; on kaggle with a client that can cancel
\* (asyncadapter.py release, the backends' find_resource, cancel and gc).
THEOREM ReleasedGoneCorrect == Spec => []ReleasedGone
<1>1. Inv => ReleasedGone
  <2> SUFFICES ASSUME Inv, released, Labelled \/ Heard
               PROVE  Running(world) = {} /\ Standing(world) = {}
    BY DEF ReleasedGone, Running, Standing, Alive, Up, Heard, Labelled
  <2>1. stage \in {"idle", "over"} /\ Shape(world) /\ Typed
    BY DEF Inv, Placed, Phases
  <2>2. Standing(world) = {}
    BY <2>1 DEF Inv, Placed, BoxesFit, Heard, Labelled
  <2>3. CASE Hosting
    BY <2>1, <2>2, <2>3 DEF Shape, Housed
  <2>4. CASE kind = "kaggle"
    BY <2>1, <2>2, <2>4 DEF Inv, Placed, KernelFits, Labelled
  <2>5. CASE ~Hosting /\ kind # "kaggle"
    <3>1. Running(world) \subseteq {0} /\ Running(world) \subseteq 1..Last(world)
      BY <2>1, <2>5, InvFacts DEF Inv, Placed, DirFits, Heard, NoDir, Hosting, Labelled
    <3> QED
      BY <2>2, <3>1
  <2> QED
    BY <2>3, <2>4, <2>5
<1> QED
  BY <1>1, InvHolds, PTL

\* However often a placement is retried, adopted or replayed, the job does not
\* run twice, as long as no call took effect unheard (the deterministic key of
\* find_resource).
THEOREM OncePerAttemptCorrect == Spec => []OncePerAttempt
<1>1. Inv => OncePerAttempt
  <2> SUFFICES ASSUME Inv, Heard PROVE Cardinality(Running(world)) <= 1
    BY DEF OncePerAttempt, Running, Alive, Heard
  <2>1. \E i : Running(world) \subseteq {i}
    BY DEF Inv, Placed, DirFits, KernelFits, Heard
  <2>2. Running(world) = {} \/ \E i : Running(world) = {i}
    BY <2>1
  <2> QED
    <3>1. CASE Running(world) = {}
      BY <3>1, FS_EmptySet
    <3>2. CASE \E i : Running(world) = {i}
      <4>1. PICK i : Running(world) = {i}
        BY <3>2
      <4>2. Cardinality({i}) = 1
        BY FS_Singleton
      <4> QED
        BY <4>1, <4>2
    <3> QED
      BY <2>2, <3>1, <3>2
<1> QED
  BY <1>1, InvHolds, PTL

\* What the engine is told of a placement holds of it: a placement given up
\* as lost does not run any more, and a result is of the attempt it ends.
THEOREM VerdictsHoldCorrect == Spec => []VerdictsHold
<1>1. Inv => TypeOK
  <2> SUFFICES ASSUME Inv PROVE TypeOK
    OBVIOUS
  <2>1. /\ Typed /\ Bounded(world) /\ Last(world) \in Nat /\ Len(world.boxes) \in Nat
    BY InvFacts DEF Shape
  <2>2. \A h \in {handle, saved} :
           h = None \/ /\ h.run \in 0..Last(world) /\ h.box \in 0..Len(world.boxes)
                       /\ h.full \in BOOLEAN
    BY <2>1 DEF Typed, Fine, Handles
  <2>3. /\ \A i \in DOMAIN world.runs : world.runs[i].st \in Unsettled \cup {"ok", "dead"}
        /\ \A b \in DOMAIN world.boxes : world.boxes[b] \in {"warming", "up", "gone"}
    <3>1. world.runs \in Seq(Runs) /\ world.boxes \in Seq({"warming", "up", "gone"})
      BY <2>1 DEF Bounded, Worlds
    <3>2. \A i \in DOMAIN world.runs : world.runs[i] \in Runs
      BY <3>1
    <3> QED
      BY <3>1, <3>2 DEF Runs, Unsettled
  <2>4. told.what \in {"none", "ended", "lost", "cancelled", "unwound"} /\ told.of \in 0..Last(world)
    BY <2>1 DEF Typed, Told, Outcomes
  <2> QED
    BY <2>1, <2>2, <2>3, <2>4 DEF TypeOK, Typed, Bounded
<1>2. Inv => LostIsEvidence
  BY DEF Inv, Judged, LostDead, LostIsEvidence, Alive, Running
<1>3. Inv => VerdictIsOwn
  BY DEF Inv, Judged, EndedOwn, VerdictIsOwn
<1> QED
  BY <1>1, <1>2, <1>3, InvHolds, PTL DEF VerdictsHold
=============================================================================
