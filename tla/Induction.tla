------------------------------ MODULE Induction ------------------------------
(***************************************************************************)
(* Induction and recursion over the natural numbers, without operators as  *)
(* parameters: what holds of every number is a set of numbers, and what a  *)
(* recursive definition does to the value before is a function.  All of it *)
(* comes from the least element of a set of numbers.                       *)
(***************************************************************************)
EXTENDS Integers, WellFoundedInduction, TLAPS

\* A set of numbers has a least element.
LEMMA LeastElement ==
  ASSUME NEW T \in SUBSET Nat, T # {}
  PROVE  \E n \in T : \A m \in T : n <= m
<1> DEFINE R == OpToRel(<, Nat)
<1>1. IsWellFoundedOn(R, Nat)
  BY NatLessThanWellFounded
<1>2. \A x, y \in Nat : y < x => <<y, x>> \in R
  BY DEF OpToRel
<1> HIDE DEF R
<1>3. PICK n \in T : \A m \in T : <<m, n>> \notin R
  BY <1>1, WFMin
<1>4. \A m \in T : ~(m < n)
  BY <1>2, <1>3
<1> QED
  BY <1>3, <1>4

\* What holds of zero and passes from a number to the next holds of all.
LEMMA UpToEvery ==
  ASSUME NEW T, 0 \in T, \A n \in Nat : n \in T => n + 1 \in T
  PROVE  \A n \in Nat : n \in T
<1> DEFINE Others == Nat \ T
<1> SUFFICES ASSUME Others # {} PROVE FALSE
  OBVIOUS
<1>1. PICK n \in Others : \A m \in Others : n <= m
  BY LeastElement
<1>2. n # 0 /\ n - 1 \in Nat
  BY <1>1
<1>3. n - 1 \in T
  BY <1>1, <1>2
<1>4. (n - 1) + 1 \in T
  BY <1>2, <1>3
<1> QED
  BY <1>1, <1>4

\* The same up to a bound.
LEMMA UpToBound ==
  ASSUME NEW bound \in Nat, NEW T, 0 \in T,
         \A n \in 0 .. bound - 1 : n \in T => n + 1 \in T
  PROVE  \A n \in 0 .. bound : n \in T
<1> DEFINE Good == {n \in Nat : n <= bound => n \in T}
<1>1. 0 \in Good
  OBVIOUS
<1>2. \A n \in Nat : n \in Good => n + 1 \in Good
  OBVIOUS
<1>3. \A n \in Nat : n \in Good
  <2> HIDE DEF Good
  <2> QED
    BY <1>1, <1>2, UpToEvery
<1> QED
  BY <1>3

\* A value of V is made from each, up to the bound or for ever.
AreSteps(step, V, S) == \A i \in S \ {0} : step[i] \in [V -> V]

\* From a first value on, each is made from the one before.
IsRun(g, V, base, step, S) ==
  /\ g \in [S -> V]
  /\ g[0] = base
  /\ \A i \in S \ {0} : g[i] = step[i][g[i - 1]]

\* There is a run to any bound,
LEMMA RunToBound ==
  ASSUME NEW V, NEW base \in V, NEW bound \in Nat, NEW step, AreSteps(step, V, 0 .. bound)
  PROVE  \E g : IsRun(g, V, base, step, 0 .. bound)
<1> DEFINE Good == {n \in 0 .. bound : \E g : IsRun(g, V, base, step, 0 .. n)}
<1>1. 0 \in Good
  <2> DEFINE g == [i \in 0 .. 0 |-> base]
  <2>1. IsRun(g, V, base, step, 0 .. 0)
    BY DEF IsRun
  <2> HIDE DEF g
  <2> QED
    BY <2>1
<1>2. ASSUME NEW n \in 0 .. bound - 1, n \in Good
      PROVE  n + 1 \in Good
  <2>1. PICK g : IsRun(g, V, base, step, 0 .. n)
    BY <1>2
  <2> DEFINE h == [i \in 0 .. n + 1 |-> IF i = n + 1 THEN step[i][g[n]] ELSE g[i]]
  <2>2. step[n + 1] \in [V -> V] /\ g[n] \in V
    BY <2>1 DEF AreSteps, IsRun
  <2>3. h \in [0 .. n + 1 -> V]
    BY <2>1, <2>2 DEF IsRun
  <2>4. h[0] = base /\ \A i \in (0 .. n + 1) \ {0} : h[i] = step[i][h[i - 1]]
    BY <2>1 DEF IsRun
  <2>5. n + 1 \in 0 .. bound
    OBVIOUS
  <2>6. IsRun(h, V, base, step, 0 .. n + 1)
    BY <2>3, <2>4 DEF IsRun
  <2> HIDE DEF h
  <2> QED
    BY <2>5, <2>6
<1>3. \A n \in 0 .. bound : n \in Good
  <2> HIDE DEF Good
  <2> QED
    BY <1>1, <1>2, UpToBound
<1> QED
  BY <1>3

\* only one,
LEMMA RunUnique ==
  ASSUME NEW V, NEW base, NEW step, NEW bound \in Nat, NEW longer \in Nat, bound <= longer,
         NEW g, IsRun(g, V, base, step, 0 .. bound),
         NEW h, IsRun(h, V, base, step, 0 .. longer)
  PROVE  \A n \in 0 .. bound : g[n] = h[n]
<1> DEFINE Same == {n \in 0 .. bound : g[n] = h[n]}
<1>1. 0 \in Same
  BY DEF IsRun
<1>2. ASSUME NEW n \in 0 .. bound - 1, n \in Same
      PROVE  n + 1 \in Same
  <2>1. n + 1 \in (0 .. bound) \ {0} /\ n + 1 \in (0 .. longer) \ {0}
    OBVIOUS
  <2>2. g[n + 1] = step[n + 1][g[n]] /\ h[n + 1] = step[n + 1][h[n]]
    BY <2>1 DEF IsRun
  <2> QED
    BY <1>2, <2>2
<1>3. \A n \in 0 .. bound : n \in Same
  <2> HIDE DEF Same
  <2> QED
    BY <1>1, <1>2, UpToBound
<1> QED
  BY <1>3

\* and one without a bound.
LEMMA RunForEver ==
  ASSUME NEW V, NEW base \in V, NEW step, AreSteps(step, V, Nat)
  PROVE  \E g : IsRun(g, V, base, step, Nat)
<1> DEFINE run == [n \in Nat |-> CHOOSE g : IsRun(g, V, base, step, 0 .. n)]
           all == [n \in Nat |-> run[n][n]]
<1>1. ASSUME NEW n \in Nat PROVE IsRun(run[n], V, base, step, 0 .. n)
  <2>1. AreSteps(step, V, 0 .. n)
    BY DEF AreSteps
  <2>2. \E g : IsRun(g, V, base, step, 0 .. n)
    BY <2>1, RunToBound
  <2> QED
    BY <2>2
<1>2. ASSUME NEW n \in Nat PROVE all[n] = run[n][n]
  OBVIOUS
<1> HIDE DEF run
<1>3. ASSUME NEW n \in Nat PROVE all[n] \in V
  BY <1>1 DEF IsRun
<1>4. all[0] = base
  BY <1>1 DEF IsRun
<1>5. ASSUME NEW n \in Nat \ {0} PROVE all[n] = step[n][all[n - 1]]
  <2>1. n - 1 \in Nat /\ n - 1 <= n /\ n - 1 \in 0 .. n - 1
    OBVIOUS
  <2>2. IsRun(run[n], V, base, step, 0 .. n) /\ IsRun(run[n - 1], V, base, step, 0 .. n - 1)
    BY <1>1, <2>1
  <2>3. run[n - 1][n - 1] = run[n][n - 1]
    <3> DEFINE k == n - 1
               short == run[k]
               long == run[n]
    <3>1. k \in Nat /\ k <= n /\ k \in 0 .. k
      BY <2>1
    <3>2. IsRun(short, V, base, step, 0 .. k) /\ IsRun(long, V, base, step, 0 .. n)
      BY <2>2
    <3> HIDE DEF k, short, long
    <3>3. \A i \in 0 .. k : short[i] = long[i]
      BY <3>1, <3>2, RunUnique
    <3>4. short[k] = long[k]
      BY <3>1, <3>3
    <3> QED
      BY <3>4 DEF k, short, long
  <2>4. run[n][n] = step[n][run[n][n - 1]]
    BY <2>2 DEF IsRun
  <2> QED
    BY <1>2, <2>1, <2>3, <2>4
<1>6. all \in [Nat -> V]
  BY <1>3
<1> HIDE DEF all
<1>7. IsRun(all, V, base, step, Nat)
  BY <1>4, <1>5, <1>6 DEF IsRun
<1> QED
  BY <1>7

=============================================================================
