---------------------- MODULE ProfileAllocationProofs ----------------------
(***************************************************************************)
(* Proofs about ProfileAllocation, for every number of blocks, profiles    *)
(* and units, all weights and all distortions.                             *)
(***************************************************************************)
EXTENDS ProfileAllocation, Induction, TLAPS

Columns == [Units -> Profiles \cup {-1}]

Typed ==
  /\ TypeOK
  /\ index \in Nat /\ Len(choices) <= N
  /\ pc = "try" => Len(choices) < N
  /\ pc = "argmin" => index = N + 1
  /\ pc = "backtrack" => index <= N

\* The profile recorded for c units leads to a number of units that the blocks
\* before can have used.
Chain ==
  \A i \in 1 .. Len(choices) : \A c \in Units :
    choices[i][c] # -1 =>
      /\ c - Weights[i] * choices[i][c] \in Units
      /\ IF i = 1 THEN c - Weights[i] * choices[i][c] = 0
                  ELSE choices[i - 1][c - Weights[i] * choices[i][c]] # -1

\* What dp calls reachable was recorded, and nothing spent is reachable.
Reached ==
  /\ dp[0] # Infinite
  /\ \A c \in Units :
       dp[c] # Infinite => IF choices = <<>> THEN c = 0 ELSE choices[Len(choices)][c] # -1

\* The same of the block that is being tried.
Trial ==
  pc = "try" =>
    /\ q > 0 => new[0] # Infinite
    /\ \A c \in Units :
         /\ new[c] # Infinite => picked[c] # -1
         /\ picked[c] # -1 =>
              /\ c - Weights[index] * picked[c] \in Units
              /\ dp[c - Weights[index] * picked[c]] # Infinite

\* The walk back is where a choice was recorded.
OnTrack ==
  pc = "backtrack" => IF index = 0 THEN cursor = 0 ELSE choices[index][cursor] # -1

Inv == Typed /\ Chain /\ Reached /\ Trial /\ OnTrack /\ NeverRaises

\* A number that is no more than the bound is its own remainder.
LEMMA OwnRemainder ==
  ASSUME NEW b \in Nat, NEW c \in 0 .. b
  PROVE  c % (b + 1) = c
<1>1. c \in Nat /\ b + 1 \in Nat /\ c < b + 1
  OBVIOUS
<1>2. \A n, m \in Nat : n < m => n % m = n
  BY SMT
<1> QED
  BY <1>1, <1>2

LEMMA ConstantsTyped ==
  /\ N \in Nat /\ N >= 1 /\ Levels \in Nat /\ Levels >= 1 /\ Budget \in Nat
  /\ 0 \in Units /\ 1 \in Blocks
  /\ \A i \in Blocks : Weights[i] \in Nat /\ Weights[i] >= 1
  /\ \A c \in Units : c \in Nat
  /\ \A t \in Tables, i \in Blocks, p \in Profiles : t[i][p] \in Nat
  /\ Infinite \notin Nat
BY AllocationAssumption DEF Units, Blocks, Profiles

LEMMA InvInit == Init => Inv
<1> SUFFICES ASSUME Init PROVE Inv
  OBVIOUS
<1>1. /\ dp \in [Units -> Nat \cup {Infinite}] /\ dp[0] = 0
      /\ \A c \in Units : dp[c] # Infinite => c = 0
  BY ConstantsTyped DEF Init, Unreached
<1>2. new \in [Units -> Nat \cup {Infinite}] /\ picked \in [Units -> Profiles \cup {-1}]
  BY DEF Init, Unreached, Unpicked
<1>3. Typed
  BY <1>1, <1>2, ConstantsTyped DEF Init, Typed, TypeOK
<1>4. Chain /\ Reached
  BY <1>1, ConstantsTyped DEF Init, Chain, Reached
<1>5. Trial
  BY ConstantsTyped DEF Init, Trial, Unreached, Unpicked
<1>6. OnTrack /\ NeverRaises
  BY DEF Init, OnTrack, NeverRaises
<1> QED BY <1>3, <1>4, <1>5, <1>6 DEF Inv

LEMMA InvTry == Inv /\ TryProfile => Inv'
<1> SUFFICES ASSUME Inv, TryProfile PROVE Inv'
  OBVIOUS
<1>1. /\ pc = "try" /\ pc' = "try" /\ q \in Profiles /\ q' = q + 1 /\ index \in Blocks
      /\ UNCHANGED <<table, index, dp, choices, terminal, cursor, profiles>>
  BY ConstantsTyped
  DEF Inv, Typed, TypeOK, TryProfile, Tried, Blocks, Profiles, result
<1>2. /\ Cost = Weights[index] * q /\ Weights[index] \in Nat /\ Cost \in Nat /\ Cost <= Budget
      /\ table[index][q] \in Nat
  BY <1>1, ConstantsTyped DEF Cost, TryProfile, Tried, Inv, Typed, TypeOK, Profiles
<1>3. ASSUME NEW c \in Units, c >= Cost
      PROVE  /\ c - Cost \in Units
             /\ Plus(dp[c - Cost], table[index][q]) \in Nat \cup {Infinite}
             /\ Plus(dp[c - Cost], table[index][q]) # Infinite <=> dp[c - Cost] # Infinite
  <2>1. c - Cost \in Units
    BY <1>2, <1>3, ConstantsTyped DEF Units
  <2>2. dp[c - Cost] \in Nat \cup {Infinite}
    BY <2>1 DEF Inv, Typed, TypeOK
  <2> QED BY <1>2, <2>1, <2>2, ConstantsTyped DEF Plus
<1>4. ASSUME NEW c \in Units
      PROVE  /\ Improves(c) =>
                  /\ c >= Cost /\ new'[c] = Plus(dp[c - Cost], table[index][q]) /\ new'[c] # Infinite
                  /\ picked'[c] = q
             /\ ~Improves(c) => new'[c] = new[c] /\ picked'[c] = picked[c]
  BY <1>4 DEF TryProfile, Improves, Less
<1>5. Typed'
  <2>1. new' \in [Units -> Nat \cup {Infinite}]
    BY <1>1, <1>3 DEF TryProfile, Improves, Inv, Typed, TypeOK
  <2>2. picked' \in [Units -> Profiles \cup {-1}]
    BY <1>1 DEF TryProfile, Inv, Typed, TypeOK
  <2>3. q' \in 0 .. Levels
    BY <1>1, ConstantsTyped DEF Profiles
  <2> QED BY <1>1, <2>1, <2>2, <2>3 DEF Inv, Typed, TypeOK
<1>6. Chain' /\ Reached' /\ OnTrack' /\ NeverRaises'
  BY <1>1 DEF Inv, Chain, Reached, OnTrack, NeverRaises
<1>7. Trial'
  <2>1. new'[0] # Infinite
    <3>1. CASE q = 0
      <4>1. Cost = 0 /\ 0 \in Units /\ 0 - Cost = 0
        BY <1>2, <3>1, ConstantsTyped
      <4>2. dp[0] # Infinite /\ Plus(dp[0 - Cost], table[index][q]) # Infinite
        BY <1>3, <4>1 DEF Inv, Reached
      <4>3. CASE Improves(0)
        BY <1>4, <4>1, <4>3
      <4>4. CASE ~Improves(0)
        <5>1. ~Less(Plus(dp[0 - Cost], table[index][q]), new[0])
          BY <4>1, <4>4 DEF Improves
        <5> QED BY <1>4, <4>1, <4>2, <4>4, <5>1 DEF Less
      <4> QED BY <4>3, <4>4
    <3>2. CASE q > 0
      <4>1. new[0] # Infinite
        BY <1>1, <3>2 DEF Inv, Trial
      <4> QED BY <1>4, <4>1, ConstantsTyped
    <3> QED BY <1>1, <3>1, <3>2, ConstantsTyped DEF Profiles
  <2>2. ASSUME NEW c \in Units
        PROVE  /\ new'[c] # Infinite => picked'[c] # -1
               /\ picked'[c] # -1 =>
                    /\ c - Weights[index] * picked'[c] \in Units
                    /\ dp[c - Weights[index] * picked'[c]] # Infinite
    <3>1. CASE Improves(c)
      <4>1. c - Cost \in Units /\ dp[c - Cost] # Infinite
        BY <1>3, <1>4, <3>1
      <4>2. picked'[c] = q /\ q # -1
        BY <1>1, <1>4, <3>1 DEF Profiles
      <4> QED BY <1>2, <4>1, <4>2
    <3>2. CASE ~Improves(c)
      BY <1>1, <1>4, <3>2 DEF Inv, Trial
    <3> QED BY <3>1, <3>2
  <2> QED BY <1>1, <2>1, <2>2 DEF Trial
<1> QED BY <1>5, <1>6, <1>7 DEF Inv

LEMMA InvClose == Inv /\ CloseBlock => Inv'
<1> SUFFICES ASSUME Inv, CloseBlock PROVE Inv'
  OBVIOUS
<1>1. pc = "try" /\ index \in Blocks /\ index = Len(choices) + 1 /\ Len(choices) \in Nat
      /\ choices \in Seq(Columns) /\ picked \in Columns
  BY ConstantsTyped DEF Inv, Typed, TypeOK, CloseBlock, Blocks, Columns
<1>2. q > 0
  <2>1. q = 0 => Weights[index] * q = 0
    BY <1>1, ConstantsTyped
  <2> QED BY <2>1, ConstantsTyped DEF CloseBlock, Tried, Cost, Inv, Typed, TypeOK
<1>3. new[0] # Infinite /\ new # Unreached
  BY <1>1, <1>2, ConstantsTyped DEF Inv, Trial, Unreached
<1>4. /\ pc' = IF index = N THEN "argmin" ELSE "try"
      /\ index' = index + 1 /\ dp' = new /\ choices' = Append(choices, picked)
      /\ q' = 0 /\ new' = Unreached /\ picked' = Unpicked
      /\ UNCHANGED <<table, terminal, cursor, profiles>>
  BY <1>3 DEF CloseBlock, Recorded, result
<1>5. /\ choices' \in Seq(Columns) /\ Len(choices') = index /\ choices'[index] = picked
      /\ \A i \in 1 .. Len(choices) : choices'[i] = choices[i]
      /\ choices' # <<>>
  BY <1>1, <1>4
<1>6. Typed'
  <2>1. new' \in [Units -> Nat \cup {Infinite}] /\ picked' \in [Units -> Profiles \cup {-1}]
    BY <1>4 DEF Unreached, Unpicked
  <2>2. /\ pc' \in {"try", "argmin", "backtrack", "done", "raised"}
        /\ index' \in 0 .. N + 1 /\ q' \in 0 .. Levels /\ index' \in Nat
        /\ pc' = "try" => Len(choices') < N
        /\ pc' # "try" => Len(choices') = N /\ pc' = "argmin" /\ index' = N + 1
        /\ index' = Len(choices') + 1 /\ Len(choices') <= N
    BY <1>1, <1>4, <1>5, ConstantsTyped DEF Blocks
  <2> QED BY <1>4, <1>5, <2>1, <2>2 DEF Inv, Typed, TypeOK, Columns
<1>7. Chain'
  <2> SUFFICES ASSUME NEW i \in 1 .. Len(choices'), NEW c \in Units, choices'[i][c] # -1
               PROVE  LET b == c - Weights[i] * choices'[i][c]
                      IN  b \in Units /\ IF i = 1 THEN b = 0 ELSE choices'[i - 1][b] # -1
    BY DEF Chain
  <2>1. CASE i \in 1 .. Len(choices)
    <3>1. choices'[i] = choices[i] /\ (i # 1 => choices'[i - 1] = choices[i - 1])
      BY <1>5, <2>1
    <3> QED BY <2>1, <3>1 DEF Inv, Chain
  <2>2. CASE i = index
    <3>1. choices'[i][c] = picked[c] /\ picked[c] # -1
      BY <1>5, <2>2
    <3> DEFINE b == c - Weights[index] * picked[c]
    <3>2. b \in Units /\ dp[b] # Infinite
      BY <1>1, <3>1 DEF Inv, Trial
    <3>3. IF choices = <<>> THEN b = 0 ELSE choices[Len(choices)][b] # -1
      BY <3>2 DEF Inv, Reached
    <3>4. CASE choices = <<>>
      BY <1>1, <2>2, <3>1, <3>2, <3>3, <3>4
    <3>5. CASE choices # <<>>
      <4>1. i # 1 /\ i - 1 = Len(choices) /\ choices'[i - 1] = choices[Len(choices)]
        BY <1>1, <1>5, <2>2, <3>5
      <4> QED BY <2>2, <3>1, <3>2, <3>3, <3>5, <4>1
    <3> QED BY <3>4, <3>5
  <2> QED BY <1>1, <1>5, <2>1, <2>2
<1>8. Reached'
  BY <1>1, <1>3, <1>4, <1>5 DEF Inv, Reached, Trial
<1>9. Trial'
  BY <1>4 DEF Trial, Unreached, Unpicked
<1>10. OnTrack' /\ NeverRaises'
  BY <1>4 DEF OnTrack, NeverRaises
<1> QED BY <1>6, <1>7, <1>8, <1>9, <1>10 DEF Inv

LEMMA InvBack == Inv /\ (ArgMin \/ Backtrack \/ Return) => Inv'
<1> SUFFICES ASSUME Inv, ArgMin \/ Backtrack \/ Return PROVE Inv'
  OBVIOUS
<1>1. /\ pc # "try" /\ UNCHANGED <<table, dp, choices, q, new, picked>> /\ Len(choices) = N
      /\ choices # <<>> /\ pc # "raised"
  BY ConstantsTyped DEF Inv, Typed, TypeOK, NeverRaises, ArgMin, Backtrack, Return, trial
<1>2. Chain' /\ Reached'
  BY <1>1 DEF Inv, Chain, Reached
<1>3. CASE ArgMin
  <2>1. PICK c \in Units : Least(c) /\ terminal' = c /\ cursor' = c
    BY <1>3 DEF ArgMin
  <2>2. /\ pc' = "backtrack" /\ index' = N /\ UNCHANGED profiles
    BY <1>3 DEF ArgMin
  <2>3. dp[c] # Infinite
    BY <2>1, ConstantsTyped DEF Least, Less, Inv, Reached
  <2>4. choices[N][c] # -1
    BY <1>1, <2>3 DEF Inv, Reached
  <2>5. Typed'
    BY <1>1, <2>1, <2>2, ConstantsTyped DEF Inv, Typed, TypeOK
  <2>6. OnTrack' /\ Trial' /\ NeverRaises'
    BY <1>1, <2>1, <2>2, <2>4, ConstantsTyped DEF OnTrack, Trial, NeverRaises
  <2> QED BY <1>2, <2>5, <2>6 DEF Inv
<1>4. CASE Backtrack
  <2>1. /\ pc = "backtrack" /\ index \in Blocks /\ cursor \in Units
        /\ choices[index][cursor] # -1 /\ choices[index] \in Columns
    BY <1>1, <1>4, ConstantsTyped
    DEF Backtrack, Inv, Typed, TypeOK, OnTrack, Blocks, Columns
  <2>2. cursor % (Budget + 1) = cursor
    BY <2>1, ConstantsTyped, OwnRemainder DEF Units
  <2> DEFINE chosen == choices[index][cursor]
  <2>3. chosen \in Profiles /\ chosen >= 0 /\ ~(chosen < 0)
    BY <2>1 DEF Columns, Profiles
  <2>4. /\ profiles' = [profiles EXCEPT ![index] = chosen]
        /\ cursor' = cursor - Weights[index] * chosen
        /\ index' = index - 1 /\ pc' = pc /\ UNCHANGED terminal
    BY <1>4, <2>2, <2>3 DEF Backtrack, Charge
  <2>5. /\ cursor' \in Units
        /\ IF index = 1 THEN cursor' = 0 ELSE choices[index - 1][cursor'] # -1
    BY <1>1, <2>1, <2>4 DEF Inv, Chain, Blocks
  <2>6. profiles' \in [Blocks -> Profiles \cup {-1}]
    BY <2>1, <2>3, <2>4 DEF Inv, Typed, TypeOK
  <2>7. Typed'
    BY <1>1, <2>1, <2>4, <2>5, <2>6, ConstantsTyped DEF Inv, Typed, TypeOK, Blocks
  <2>8. OnTrack' /\ Trial' /\ NeverRaises'
    BY <1>1, <2>1, <2>4, <2>5, ConstantsTyped DEF OnTrack, Trial, NeverRaises, Blocks
  <2> QED BY <1>2, <2>7, <2>8 DEF Inv
<1>5. CASE Return
  <2>1. cursor = 0 /\ pc' = "done" /\ UNCHANGED <<index, terminal, cursor, profiles>>
    BY <1>5 DEF Return, Inv, OnTrack, result
  <2>2. Typed'
    BY <1>1, <2>1 DEF Inv, Typed, TypeOK
  <2>3. OnTrack' /\ Trial' /\ NeverRaises'
    BY <2>1 DEF OnTrack, Trial, NeverRaises
  <2> QED BY <1>2, <2>2, <2>3 DEF Inv
<1> QED BY <1>3, <1>4, <1>5

LEMMA InvNext == Inv /\ [Next]_vars => Inv'
<1>1. Inv /\ UNCHANGED vars => Inv'
  BY DEF vars, trial, result, Inv, Typed, TypeOK, Chain, Reached, Trial, OnTrack, NeverRaises
<1> QED BY <1>1, InvTry, InvClose, InvBack DEF Next

LEMMA InvAlways == Spec => []Inv
  BY InvInit, InvNext, PTL DEF Spec

-----------------------------------------------------------------------------
(* Sums                                                                    *)

Assignments == [Blocks -> Profiles]

CostTerms(p) == [i \in Blocks |-> Weights[i] * p[i]]
LossTerms(t, p) == [i \in Blocks |-> t[i][p[i]]]
Costs(p) == Sums(CostTerms(p))
Losses(t, p) == Sums(LossTerms(t, p))

LEMMA SumsOf ==
  ASSUME NEW share \in [Blocks -> Nat]
  PROVE  /\ Sums(share) \in [0 .. N -> Nat]
         /\ Sums(share)[0] = 0
         /\ \A i \in Blocks : Sums(share)[i] = Sums(share)[i - 1] + share[i]
<1> DEFINE step == [i \in Blocks |-> [v \in Nat |-> v + share[i]]]
           Eqn(s) == s = [i \in 0 .. N |-> IF i = 0 THEN 0 ELSE s[i - 1] + share[i]]
           sums == CHOOSE s : Eqn(s)
<1>1. N \in Nat /\ 0 \in Nat /\ \A i \in Blocks : i \in (0 .. N) \ {0} /\ i - 1 \in 0 .. N
  BY ConstantsTyped DEF Blocks
<1>2. \A i \in (0 .. N) \ {0} : i \in Blocks
  BY <1>1 DEF Blocks
<1>3. ASSUME NEW i \in Blocks, NEW v \in Nat
      PROVE  step[i][v] = v + share[i] /\ v + share[i] \in Nat
  OBVIOUS
<1>4. \A i \in Blocks : step[i] \in [Nat -> Nat]
  OBVIOUS
<1> HIDE DEF step
<1>5. AreSteps(step, Nat, 0 .. N)
  BY <1>2, <1>4 DEF AreSteps
<1>6. PICK g : IsRun(g, Nat, 0, step, 0 .. N)
  BY <1>1, <1>5, RunToBound
<1>7. g \in [0 .. N -> Nat] /\ g[0] = 0 /\ \A i \in (0 .. N) \ {0} : g[i] = step[i][g[i - 1]]
  BY <1>6 DEF IsRun
<1>8. \A i \in Blocks : g[i - 1] \in Nat /\ g[i] = g[i - 1] + share[i]
  <2> TAKE i \in Blocks
  <2>1. g[i - 1] \in Nat /\ g[i] = step[i][g[i - 1]]
    BY <1>1, <1>7
  <2> QED
    BY <1>3, <2>1
<1>9. Eqn(g)
  BY <1>2, <1>7, <1>8
<1>10. Eqn(sums)
  <2> HIDE DEF Eqn
  <2> QED
    BY <1>9
<1>11. Sums(share) = sums
  BY DEF Sums
<1> HIDE DEF sums
<1>12. sums[0] = 0
  BY <1>1, <1>10
<1>13. \A i \in Blocks : sums[i] = sums[i - 1] + share[i]
  BY <1>1, <1>10
<1> DEFINE Good == {i \in 0 .. N : sums[i] \in Nat}
<1>14. 0 \in Good
  BY <1>1, <1>12
<1>15. ASSUME NEW i \in 0 .. N - 1, i \in Good PROVE i + 1 \in Good
  <2>1. i + 1 \in Blocks /\ (i + 1) - 1 = i /\ i + 1 \in 0 .. N
    BY <1>1 DEF Blocks
  <2>2. sums[i + 1] = sums[i] + share[i + 1]
    BY <1>13, <2>1
  <2> QED
    BY <1>15, <2>1, <2>2
<1>16. \A i \in 0 .. N : i \in Good
  <2> HIDE DEF Good
  <2> QED
    BY <1>1, <1>14, <1>15, UpToBound
<1>17. DOMAIN sums = 0 .. N /\ sums = [i \in 0 .. N |-> sums[i]]
  BY <1>10
<1>18. sums \in [0 .. N -> Nat]
  BY <1>16, <1>17
<1> QED
  BY <1>11, <1>12, <1>13, <1>18

\* Sums differ by as much at the end of a stretch on which the shares are equal
\* as at its beginning.
LEMMA SameGrowth ==
  ASSUME NEW one \in [Blocks -> Nat], NEW two \in [Blocks -> Nat],
         NEW i \in 0 .. N, NEW n \in i .. N,
         \A j \in i + 1 .. n : one[j] = two[j]
  PROVE  Sums(one)[n] + Sums(two)[i] = Sums(two)[n] + Sums(one)[i]
<1> DEFINE f == Sums(one)
           g == Sums(two)
           Good == {k \in 0 .. n - i : f[i + k] + g[i] = g[i + k] + f[i]}
<1>1. /\ f \in [0 .. N -> Nat] /\ \A j \in Blocks : f[j] = f[j - 1] + one[j]
      /\ g \in [0 .. N -> Nat] /\ \A j \in Blocks : g[j] = g[j - 1] + two[j]
  BY SumsOf
<1>2. N \in Nat /\ i \in Nat /\ n \in Nat /\ n - i \in Nat
  BY ConstantsTyped
<1> HIDE DEF f, g
<1>3. 0 \in Good
  BY <1>1, <1>2
<1>4. ASSUME NEW k \in 0 .. n - i - 1, k \in Good PROVE k + 1 \in Good
  <2> DEFINE j == i + k + 1
  <2>1. j \in Blocks /\ j \in i + 1 .. n /\ j - 1 = i + k /\ i + k \in 0 .. N /\ k + 1 \in 0 .. n - i
    BY <1>2 DEF Blocks
  <2>2. f[j] = f[i + k] + one[j] /\ g[j] = g[i + k] + two[j] /\ one[j] = two[j]
    BY <1>1, <2>1
  <2>3. f[i + k] \in Nat /\ g[i + k] \in Nat /\ f[i] \in Nat /\ g[i] \in Nat /\ one[j] \in Nat
    BY <1>1, <2>1
  <2>4. f[i + k] + g[i] = g[i + k] + f[i]
    BY <1>4
  <2>5. f[j] + g[i] = g[j] + f[i]
    BY <2>2, <2>3, <2>4
  <2>6. i + (k + 1) = j
    BY <1>2
  <2> QED
    BY <2>1, <2>5, <2>6
<1>5. \A k \in 0 .. n - i : k \in Good
  <2> HIDE DEF Good
  <2> QED
    BY <1>2, <1>3, <1>4, UpToBound
<1>6. n - i \in Good /\ i + (n - i) = n
  BY <1>2, <1>5
<1> QED
  BY <1>6 DEF f, g

LEMMA TermsTyped ==
  ASSUME NEW t \in Tables, NEW p \in Assignments
  PROVE  CostTerms(p) \in [Blocks -> Nat] /\ LossTerms(t, p) \in [Blocks -> Nat]
<1>1. \A i \in Blocks : p[i] \in Profiles /\ p[i] \in Nat
  BY DEF Assignments, Profiles
<1>2. \A i \in Blocks : Weights[i] * p[i] \in Nat /\ t[i][p[i]] \in Nat
  BY <1>1, ConstantsTyped
<1> QED
  BY <1>2 DEF CostTerms, LossTerms

LEMMA CostsOf ==
  ASSUME NEW t \in Tables, NEW p \in Assignments
  PROVE  /\ \A i \in 0 .. N : Costs(p)[i] \in Nat /\ Losses(t, p)[i] \in Nat
         /\ Costs(p)[0] = 0 /\ Losses(t, p)[0] = 0
         /\ \A i \in Blocks : /\ Costs(p)[i] = Costs(p)[i - 1] + Weights[i] * p[i]
                              /\ Losses(t, p)[i] = Losses(t, p)[i - 1] + t[i][p[i]]
<1>1. CostTerms(p) \in [Blocks -> Nat] /\ LossTerms(t, p) \in [Blocks -> Nat]
  BY TermsTyped
<1>2. /\ Costs(p) \in [0 .. N -> Nat] /\ Costs(p)[0] = 0
      /\ \A i \in Blocks : Costs(p)[i] = Costs(p)[i - 1] + CostTerms(p)[i]
  BY <1>1, SumsOf DEF Costs
<1>3. /\ Losses(t, p) \in [0 .. N -> Nat] /\ Losses(t, p)[0] = 0
      /\ \A i \in Blocks : Losses(t, p)[i] = Losses(t, p)[i - 1] + LossTerms(t, p)[i]
  BY <1>1, SumsOf DEF Losses
<1>4. \A i \in Blocks : CostTerms(p)[i] = Weights[i] * p[i] /\ LossTerms(t, p)[i] = t[i][p[i]]
  BY DEF CostTerms, LossTerms
<1> QED
  BY <1>2, <1>3, <1>4

\* What the blocks up to n, or from i + 1 on, cost and leave, depends on their
\* profiles only.
LEMMA SameCosts ==
  ASSUME NEW t \in Tables, NEW p \in Assignments, NEW r \in Assignments,
         NEW i \in 0 .. N, NEW n \in i .. N,
         \A j \in i + 1 .. n : p[j] = r[j]
  PROVE  /\ Costs(p)[n] + Costs(r)[i] = Costs(r)[n] + Costs(p)[i]
         /\ Losses(t, p)[n] + Losses(t, r)[i] = Losses(t, r)[n] + Losses(t, p)[i]
<1>1. \A j \in i + 1 .. n : j \in Blocks
  BY ConstantsTyped DEF Blocks
<1>2. \A j \in i + 1 .. n : /\ CostTerms(p)[j] = CostTerms(r)[j]
                            /\ LossTerms(t, p)[j] = LossTerms(t, r)[j]
  BY <1>1 DEF CostTerms, LossTerms
<1> QED
  BY <1>2, TermsTyped, SameGrowth DEF Costs, Losses

LEMMA SamePrefix ==
  ASSUME NEW t \in Tables, NEW p \in Assignments, NEW r \in Assignments,
         NEW n \in 0 .. N,
         \A j \in 1 .. n : p[j] = r[j]
  PROVE  Costs(p)[n] = Costs(r)[n] /\ Losses(t, p)[n] = Losses(t, r)[n]
<1>1. 0 \in 0 .. N /\ n \in 0 .. N /\ 0 + 1 = 1 /\ n \in 0 .. N
  BY ConstantsTyped
<1>2. \A j \in 0 + 1 .. n : p[j] = r[j]
  BY <1>1
<1>3. /\ Costs(p)[n] + Costs(r)[0] = Costs(r)[n] + Costs(p)[0]
      /\ Losses(t, p)[n] + Losses(t, r)[0] = Losses(t, r)[n] + Losses(t, p)[0]
  BY <1>1, <1>2, SameCosts
<1> QED
  BY <1>1, <1>3, CostsOf

\* The same blocks with another profile for one of them.
LEMMA OneChanged ==
  ASSUME NEW t \in Tables, NEW p \in Assignments, NEW r \in Assignments, NEW i \in Blocks,
         \A j \in Blocks \ {i} : r[j] = p[j]
  PROVE  /\ Costs(r)[i] = Costs(p)[i - 1] + Weights[i] * r[i]
         /\ Losses(t, r)[i] = Losses(t, p)[i - 1] + t[i][r[i]]
<1>1. i - 1 \in 0 .. N /\ \A j \in 1 .. i - 1 : j \in Blocks \ {i}
  BY ConstantsTyped DEF Blocks
<1>2. \A j \in 1 .. i - 1 : r[j] = p[j]
  BY <1>1
<1>3. Costs(r)[i - 1] = Costs(p)[i - 1] /\ Losses(t, r)[i - 1] = Losses(t, p)[i - 1]
  BY <1>1, <1>2, SamePrefix
<1>4. /\ Costs(r)[i] = Costs(r)[i - 1] + Weights[i] * r[i]
      /\ Losses(t, r)[i] = Losses(t, r)[i - 1] + t[i][r[i]]
  BY CostsOf
<1> QED
  BY <1>3, <1>4

-----------------------------------------------------------------------------
(* The best assignments                                                    *)

\* No other assignment with the same costs up to block i leaves less there.
BestPrefix(i, p) ==
  \A r \in Assignments : Costs(r)[i] = Costs(p)[i] => Losses(table, p)[i] <= Losses(table, r)[i]

\* dp has the least distortion of the blocks before, and where they reach it.
Forward ==
  /\ \A p \in Assignments :
       LET c == Costs(p)[Len(choices)]
       IN  c \in Units => dp[c] # Infinite /\ dp[c] <= Losses(table, p)[Len(choices)]
  /\ \A c \in Units : dp[c] # Infinite =>
       \E p \in Assignments : Costs(p)[Len(choices)] = c /\ Losses(table, p)[Len(choices)] = dp[c]

\* new has it of the profiles that were tried, picked the first that reaches it.
Trying ==
  pc = "try" =>
    /\ \A p \in Assignments :
         LET c == Costs(p)[index]
         IN  c \in Units /\ p[index] < q =>
               /\ new[c] # Infinite /\ new[c] <= Losses(table, p)[index]
               /\ new[c] = Losses(table, p)[index] => picked[c] <= p[index]
    /\ \A c \in Units : picked[c] < q /\ (picked[c] # -1 => new[c] # Infinite)
    /\ \A c \in Units : new[c] # Infinite =>
         \E p \in Assignments :
           Costs(p)[index] = c /\ Losses(table, p)[index] = new[c] /\ p[index] = picked[c]

\* A column of choices has the lowest profile of its block that the best have.
PicksOf(i) ==
  \A c \in Units : choices[i][c] # -1 =>
    /\ \E p \in Assignments : Costs(p)[i] = c /\ BestPrefix(i, p) /\ p[i] = choices[i][c]
    /\ \A p \in Assignments : Costs(p)[i] = c /\ BestPrefix(i, p) => choices[i][c] <= p[i]

Picks == \A i \in 1 .. Len(choices) : PicksOf(i)

\* The best assignment, and with the fewest units among the best.
Winner(p) ==
  /\ p \in Assignments /\ Costs(p)[N] \in Units
  /\ \A r \in Assignments : Costs(r)[N] \in Units =>
       /\ Losses(table, p)[N] <= Losses(table, r)[N]
       /\ Losses(table, p)[N] = Losses(table, r)[N] => Costs(p)[N] <= Costs(r)[N]

AgreesAbove(i, p) == \A j \in i + 1 .. N : p[j] = profiles[j]

LaterAbove(i, p) ==
  \E k \in i + 1 .. N : profiles[k] < p[k] /\ \A j \in k + 1 .. N : p[j] = profiles[j]

\* The walk back follows the winners with the lowest profiles, and what is left
\* of the units is what those have used by then.
Backward ==
  pc \in {"backtrack", "done"} =>
    /\ pc = "done" => index = 0
    /\ \E p \in Assignments : Winner(p) /\ AgreesAbove(index, p)
    /\ \A p \in Assignments : Winner(p) =>
         /\ Costs(p)[N] = terminal
         /\ AgreesAbove(index, p) \/ LaterAbove(index, p)
         /\ AgreesAbove(index, p) => Costs(p)[index] = cursor /\ BestPrefix(index, p)

BestInv == Inv /\ Forward /\ Trying /\ Picks /\ Backward

LEMMA BestInit ==
  ASSUME Init
  PROVE  BestInv
<1>1. Inv /\ table \in Tables
  BY InvInit DEF Init
<1>2. /\ choices = <<>> /\ Len(choices) = 0 /\ q = 0 /\ new = Unreached /\ picked = Unpicked
      /\ dp \in [Units -> Nat \cup {Infinite}]
      /\ dp[0] = 0 /\ \A c \in Units : dp[c] # Infinite => c = 0
      /\ pc = "try" /\ index = 1
  BY ConstantsTyped DEF Init, Unreached
<1>3. \A p \in Assignments : Costs(p)[0] = 0 /\ Losses(table, p)[0] = 0
  BY <1>1, CostsOf
<1>4. \E p : p \in Assignments
  <2>1. [i \in Blocks |-> 0] \in Assignments
    BY ConstantsTyped DEF Assignments, Profiles
  <2> QED
    BY <2>1
<1>5. Forward
  <2>1. 0 # Infinite
    BY ConstantsTyped
  <2> QED
    BY <1>2, <1>3, <1>4, <2>1 DEF Forward
<1>6. Trying
  <2>1. \A p \in Assignments : ~(p[1] < 0)
    BY ConstantsTyped DEF Assignments, Profiles
  <2>2. \A c \in Units : picked[c] = -1 /\ new[c] = Infinite
    BY <1>2 DEF Unreached, Unpicked
  <2> QED
    BY <1>2, <2>1, <2>2 DEF Trying
<1>7. Picks /\ Backward
  BY <1>2 DEF Picks, Backward
<1> QED
  BY <1>1, <1>5, <1>6, <1>7 DEF BestInv

\* What the profile that is tried adds to a prefix.
LEMMA BestTry ==
  ASSUME BestInv, TryProfile
  PROVE  Trying'
<1>1. /\ pc = "try" /\ pc' = "try" /\ q \in Profiles /\ q' = q + 1 /\ index \in Blocks
      /\ UNCHANGED <<table, index, dp, choices>>
      /\ table \in Tables /\ index - 1 = Len(choices) /\ index - 1 \in 0 .. N
  BY ConstantsTyped
  DEF BestInv, Inv, Typed, TypeOK, TryProfile, Tried, Blocks, Profiles, result
<1>2. /\ Cost = Weights[index] * q /\ Cost \in Nat /\ table[index][q] \in Nat
  BY <1>1, ConstantsTyped DEF Cost, Profiles
<1>3. /\ dp \in [Units -> Nat \cup {Infinite}] /\ new \in [Units -> Nat \cup {Infinite}]
      /\ picked \in [Units -> Profiles \cup {-1}]
  BY DEF BestInv, Inv, Typed, TypeOK
<1> DEFINE loss(c) == Plus(dp[c - Cost], table[index][q])
<1>4. ASSUME NEW c \in Units
      PROVE  /\ Improves(c) =>
                  /\ c >= Cost /\ new'[c] = loss(c) /\ new'[c] # Infinite
                  /\ new[c] = Infinite \/ loss(c) < new[c]
                  /\ picked'[c] = q
             /\ ~Improves(c) => new'[c] = new[c] /\ picked'[c] = picked[c]
             /\ ~Improves(c) /\ c >= Cost /\ loss(c) # Infinite =>
                  new[c] # Infinite /\ ~(loss(c) < new[c])
  BY <1>4 DEF TryProfile, Improves, Less
<1>5. ASSUME NEW c \in Units, c >= Cost
      PROVE  /\ c - Cost \in Units /\ dp[c - Cost] \in Nat \cup {Infinite}
             /\ loss(c) # Infinite <=> dp[c - Cost] # Infinite
             /\ loss(c) # Infinite => loss(c) = dp[c - Cost] + table[index][q] /\ loss(c) \in Nat
  <2>1. c - Cost \in Units
    BY <1>2, <1>5, ConstantsTyped DEF Units
  <2>2. dp[c - Cost] \in Nat \cup {Infinite}
    BY <1>3, <2>1
  <2> QED
    BY <1>2, <2>1, <2>2, ConstantsTyped DEF Plus
<1> HIDE DEF loss
<1>6. ASSUME NEW p \in Assignments, Costs(p)[index] \in Units
      PROVE  LET c == Costs(p)[index]
             IN  p[index] < q' =>
                   /\ new'[c] # Infinite /\ new'[c] <= Losses(table, p)[index]
                   /\ new'[c] = Losses(table, p)[index] => picked'[c] <= p[index]
  <2> DEFINE c == Costs(p)[index]
             l == Losses(table, p)[index]
  <2>1. c \in Units /\ l \in Nat /\ p[index] \in Profiles /\ p[index] \in Nat /\ q \in Nat
    BY <1>1, <1>6, CostsOf DEF Assignments, Blocks, Profiles
  <2>2. new[c] \in Nat \cup {Infinite} /\ picked[c] \in Int /\ Infinite \notin Nat
    BY <1>3, <2>1, ConstantsTyped DEF Profiles
  <2>3. CASE p[index] = q
    <3>1. /\ c = Costs(p)[index - 1] + Cost
          /\ l = Losses(table, p)[index - 1] + table[index][q]
          /\ Costs(p)[index - 1] \in Nat /\ Losses(table, p)[index - 1] \in Nat
      BY <1>1, <1>2, <2>3, CostsOf
    <3>2. c >= Cost /\ c - Cost = Costs(p)[index - 1]
      BY <1>2, <3>1
    <3>3. c - Cost \in Units
      BY <1>5, <2>1, <3>2
    <3>4. dp[c - Cost] # Infinite /\ dp[c - Cost] <= Losses(table, p)[index - 1]
      BY <1>1, <3>2, <3>3 DEF BestInv, Forward
    <3>5. loss(c) \in Nat /\ loss(c) <= l /\ loss(c) # Infinite
      BY <1>2, <1>5, <2>1, <2>2, <3>1, <3>2, <3>4
    <3>6. CASE Improves(c)
      BY <1>4, <2>1, <2>3, <3>5, <3>6
    <3>7. CASE ~Improves(c)
      <4>1. new'[c] = new[c] /\ picked'[c] = picked[c] /\ new[c] # Infinite /\ ~(loss(c) < new[c])
        BY <1>4, <2>1, <3>2, <3>5, <3>7
      <4>2. picked[c] < q
        BY <1>1, <2>1 DEF BestInv, Trying
      <4> QED
        BY <2>1, <2>2, <2>3, <3>5, <4>1, <4>2
    <3> QED
      BY <3>6, <3>7
  <2>4. CASE p[index] < q
    <3>1. /\ new[c] # Infinite /\ new[c] <= l
          /\ new[c] = l => picked[c] <= p[index]
      BY <1>1, <2>1, <2>4 DEF BestInv, Trying
    <3>2. CASE Improves(c)
      <4>1. c >= Cost /\ new'[c] = loss(c) /\ loss(c) # Infinite /\ loss(c) < new[c]
        BY <1>4, <2>1, <3>1, <3>2
      <4>2. loss(c) \in Nat
        BY <1>5, <2>1, <4>1
      <4>3. new'[c] # Infinite /\ new'[c] < l
        BY <2>1, <2>2, <3>1, <4>1, <4>2
      <4> QED
        BY <2>1, <4>1, <4>2, <4>3
    <3>3. CASE ~Improves(c)
      BY <1>4, <2>1, <3>1, <3>3
    <3> QED
      BY <3>2, <3>3
  <2>5. p[index] < q' => p[index] = q \/ p[index] < q
    BY <1>1, <2>1
  <2> QED
    BY <2>3, <2>4, <2>5
<1>7. ASSUME NEW c \in Units
      PROVE  picked'[c] < q' /\ (picked'[c] # -1 => new'[c] # Infinite)
  <2>1. q \in Nat /\ picked[c] \in Int /\ picked[c] < q
    BY <1>1, <1>3 DEF BestInv, Trying, Profiles
  <2>2. CASE Improves(c)
    BY <1>1, <1>4, <2>1, <2>2
  <2>3. CASE ~Improves(c)
    <3>1. picked[c] # -1 => new[c] # Infinite
      BY <1>1 DEF BestInv, Trying
    <3> QED
      BY <1>1, <1>4, <2>1, <2>3, <3>1
  <2> QED
    BY <2>2, <2>3
<1>8. ASSUME NEW c \in Units, new'[c] # Infinite
      PROVE  \E p \in Assignments :
               Costs(p)[index] = c /\ Losses(table, p)[index] = new'[c] /\ p[index] = picked'[c]
  <2>1. CASE Improves(c)
    <3>1. c >= Cost /\ new'[c] = loss(c) /\ loss(c) # Infinite /\ picked'[c] = q
      BY <1>4, <2>1
    <3>2. /\ c - Cost \in Units /\ dp[c - Cost] # Infinite
          /\ loss(c) = dp[c - Cost] + table[index][q]
      BY <1>5, <3>1
    <3>3. PICK p \in Assignments : /\ Costs(p)[index - 1] = c - Cost
                                   /\ Losses(table, p)[index - 1] = dp[c - Cost]
      BY <1>1, <3>2 DEF BestInv, Forward
    <3>4. PICK r : r = [p EXCEPT ![index] = q]
      OBVIOUS
    <3>5. r \in Assignments /\ r[index] = q /\ \A j \in Blocks \ {index} : r[j] = p[j]
      BY <1>1, <3>4 DEF Assignments
    <3>6. /\ Costs(r)[index] = Costs(p)[index - 1] + Weights[index] * q
          /\ Losses(table, r)[index] = Losses(table, p)[index - 1] + table[index][q]
      BY <1>1, <3>5, OneChanged
    <3>7. Costs(r)[index] = c
      <4>1. c \in Nat
        BY ConstantsTyped
      <4> QED
        BY <1>2, <3>3, <3>6, <4>1
    <3> QED
      BY <3>1, <3>2, <3>3, <3>5, <3>6, <3>7
  <2>2. CASE ~Improves(c)
    BY <1>1, <1>4, <1>8, <2>2 DEF BestInv, Trying
  <2> QED
    BY <2>1, <2>2
<1> QED
  BY <1>1, <1>6, <1>7, <1>8 DEF Trying

LEMMA BestClose ==
  ASSUME BestInv, CloseBlock
  PROVE  Forward' /\ Trying' /\ Picks' /\ Backward'
<1>1. /\ pc = "try" /\ index \in Blocks /\ index = Len(choices) + 1 /\ Len(choices) \in Nat
      /\ choices \in Seq(Columns) /\ picked \in Columns /\ table \in Tables
      /\ q \in Nat /\ index - 1 \in 0 .. N /\ index \in 0 .. N
      /\ new \in [Units -> Nat \cup {Infinite}]
  BY ConstantsTyped DEF BestInv, Inv, Typed, TypeOK, CloseBlock, Blocks, Columns
<1>2. new # Unreached
  <2>1. q > 0
    <3>1. q = 0 => Weights[index] * q = 0
      BY <1>1, ConstantsTyped
    <3> QED
      BY <1>1, <3>1, ConstantsTyped DEF CloseBlock, Tried, Cost
  <2> QED
    BY <1>1, <2>1, ConstantsTyped DEF BestInv, Inv, Trial, Unreached
<1>3. /\ pc' = IF index = N THEN "argmin" ELSE "try"
      /\ index' = index + 1 /\ dp' = new /\ choices' = Append(choices, picked)
      /\ q' = 0 /\ new' = Unreached /\ picked' = Unpicked
      /\ UNCHANGED <<table, terminal, cursor, profiles>>
  BY <1>2 DEF CloseBlock, Recorded, result
<1>4. /\ Len(choices') = index /\ choices'[index] = picked
      /\ \A i \in 1 .. Len(choices) : choices'[i] = choices[i]
  BY <1>1, <1>3
\* Profiles that were not tried cost too much.
<1>5. ASSUME NEW p \in Assignments, Costs(p)[index] \in Units
      PROVE  p[index] < q
  <2>1. /\ Costs(p)[index] = Costs(p)[index - 1] + Weights[index] * p[index]
        /\ Costs(p)[index - 1] \in Nat
    BY <1>1, CostsOf
  <2>2. p[index] \in Nat /\ p[index] < Levels /\ Weights[index] \in Nat
        /\ Costs(p)[index] <= Budget /\ Budget \in Nat
    BY <1>1, <1>5, ConstantsTyped DEF Assignments, Profiles, Units
  <2>3. CASE q = Levels
    BY <2>2, <2>3
  <2>4. CASE Weights[index] * q > Budget
    <3> DEFINE w == Weights[index]
               k == p[index]
               b == Costs(p)[index - 1]
    <3>1. w \in Nat /\ k \in Nat /\ b \in Nat /\ b + w * k <= Budget /\ w * q > Budget
      BY <2>1, <2>2, <2>4
    <3> HIDE DEF w, k, b
    <3>2. q <= k => w * q <= w * k
      BY <1>1, <3>1
    <3>3. w * k \in Nat /\ w * q \in Nat
      BY <1>1, <3>1
    <3>4. k < q
      BY <1>1, <2>2, <3>1, <3>2, <3>3
    <3> QED
      BY <3>4 DEF k
  <2> QED
    BY <2>3, <2>4 DEF CloseBlock, Tried, Cost
<1>6. ASSUME NEW p \in Assignments, Costs(p)[index] \in Units
      PROVE  LET c == Costs(p)[index]
             IN  /\ new[c] # Infinite /\ new[c] <= Losses(table, p)[index]
                 /\ new[c] = Losses(table, p)[index] => picked[c] <= p[index]
  BY <1>1, <1>5, <1>6 DEF BestInv, Trying
<1>7. ASSUME NEW c \in Units, new[c] # Infinite
      PROVE  \E p \in Assignments :
               Costs(p)[index] = c /\ Losses(table, p)[index] = new[c] /\ p[index] = picked[c]
  BY <1>1, <1>7 DEF BestInv, Trying
<1>8. Forward'
  <2>1. \A p \in Assignments :
          LET c == Costs(p)[index]
          IN  c \in Units => new[c] # Infinite /\ new[c] <= Losses(table, p)[index]
    BY <1>6
  <2>2. \A c \in Units : new[c] # Infinite =>
          \E p \in Assignments : Costs(p)[index] = c /\ Losses(table, p)[index] = new[c]
    BY <1>7
  <2> QED
    BY <1>3, <1>4, <2>1, <2>2 DEF Forward
<1>9. Trying'
  <2>1. ASSUME NEW p \in Assignments, index' \in Blocks
        PROVE  ~(p[index'] < 0)
    BY <2>1, ConstantsTyped DEF Assignments, Profiles
  <2>2. pc' = "try" => index' \in Blocks
    BY <1>1, <1>3, ConstantsTyped DEF Blocks
  <2>3. \A c \in Units : picked'[c] = -1 /\ new'[c] = Infinite
    BY <1>3 DEF Unreached, Unpicked
  <2> QED
    BY <1>3, <2>1, <2>2, <2>3 DEF Trying
<1>10. ASSUME NEW p \in Assignments, Costs(p)[index] \in Units
       PROVE  BestPrefix(index, p) <=> Losses(table, p)[index] = new[Costs(p)[index]]
  <2> DEFINE c == Costs(p)[index]
             l == Losses(table, p)[index]
  <2>1. c \in Units /\ l \in Nat /\ new[c] # Infinite /\ new[c] \in Nat /\ new[c] <= l
    BY <1>1, <1>6, <1>10, CostsOf
  <2>2. PICK r \in Assignments : Costs(r)[index] = c /\ Losses(table, r)[index] = new[c]
    BY <1>7, <2>1
  <2>3. ASSUME BestPrefix(index, p) PROVE l = new[c]
    <3>1. l <= Losses(table, r)[index]
      BY <2>2, <2>3 DEF BestPrefix
    <3> QED
      BY <2>1, <2>2, <3>1
  <2>4. ASSUME l = new[c] PROVE BestPrefix(index, p)
    <3>1. ASSUME NEW s \in Assignments, Costs(s)[index] = Costs(p)[index]
          PROVE  l <= Losses(table, s)[index]
      BY <1>6, <2>1, <2>4, <3>1
    <3> QED
      BY <3>1 DEF BestPrefix
  <2> QED
    BY <2>3, <2>4
<1>11. Picks'
  <2> SUFFICES ASSUME NEW i \in 1 .. Len(choices')
               PROVE  PicksOf(i)'
    BY DEF Picks
  <2>1. CASE i \in 1 .. Len(choices)
    <3>1. PicksOf(i) /\ choices'[i] = choices[i]
      BY <1>4, <2>1 DEF BestInv, Picks
    <3> QED
      BY <1>3, <3>1 DEF PicksOf, BestPrefix
  <2>2. CASE i = index
    <3> SUFFICES ASSUME NEW c \in Units, picked[c] # -1
                 PROVE  /\ \E p \in Assignments :
                             Costs(p)[index] = c /\ BestPrefix(index, p) /\ p[index] = picked[c]
                        /\ \A p \in Assignments :
                             Costs(p)[index] = c /\ BestPrefix(index, p) => picked[c] <= p[index]
      BY <1>3, <1>4, <2>2 DEF PicksOf, BestPrefix
    <3>1. new[c] # Infinite
      BY <1>1 DEF BestInv, Trying
    <3>2. PICK p \in Assignments :
            Costs(p)[index] = c /\ Losses(table, p)[index] = new[c] /\ p[index] = picked[c]
      BY <1>7, <3>1
    <3>3. BestPrefix(index, p)
      BY <1>10, <3>2
    <3>4. ASSUME NEW r \in Assignments, Costs(r)[index] = c, BestPrefix(index, r)
          PROVE  picked[c] <= r[index]
      BY <1>6, <1>10, <3>4
    <3> QED
      BY <3>2, <3>3, <3>4
  <2> QED
    BY <1>1, <1>4, <2>1, <2>2
<1>12. Backward'
  BY <1>3 DEF Backward
<1> QED
  BY <1>8, <1>9, <1>11, <1>12

LEMMA BestArgMin ==
  ASSUME BestInv, ArgMin
  PROVE  Backward'
<1>1. /\ pc = "argmin" /\ pc' = "backtrack" /\ index' = N
      /\ UNCHANGED <<table, dp, choices, profiles>> /\ Len(choices) = N
      /\ table \in Tables /\ dp \in [Units -> Nat \cup {Infinite}] /\ N \in 0 .. N
  BY ConstantsTyped DEF BestInv, Inv, Typed, TypeOK, ArgMin
<1>2. PICK c \in Units : /\ Least(c) /\ \A d \in Units : d < c => ~Least(d)
                         /\ terminal' = c /\ cursor' = c
  BY DEF ArgMin
<1>3. dp[c] # Infinite /\ dp[c] \in Nat /\ Infinite \notin Nat /\ c \in Nat
  <2>1. dp[c] # Infinite
    BY <1>2, ConstantsTyped DEF Least, Less, BestInv, Inv, Reached
  <2> QED
    BY <1>1, <2>1, ConstantsTyped
<1>4. ASSUME NEW p \in Assignments, Costs(p)[N] \in Units
      PROVE  /\ dp[c] <= Losses(table, p)[N]
             /\ dp[c] = Losses(table, p)[N] => c <= Costs(p)[N]
             /\ Losses(table, p)[N] \in Nat
  <2> DEFINE d == Costs(p)[N]
  <2>1. d \in Units /\ d \in Nat /\ dp[d] # Infinite /\ dp[d] <= Losses(table, p)[N]
    BY <1>1, <1>4, ConstantsTyped DEF BestInv, Forward
  <2>2. dp[d] \in Nat /\ Losses(table, p)[N] \in Nat
    BY <1>1, <2>1, CostsOf
  <2>3. dp[c] <= dp[d]
    BY <1>2, <1>3, <2>1, <2>2 DEF Least, Less
  <2>4. ASSUME dp[c] = Losses(table, p)[N] PROVE c <= d
    <3>1. dp[d] = dp[c]
      BY <1>3, <2>1, <2>2, <2>3, <2>4
    <3>2. Least(d)
      BY <1>2, <3>1 DEF Least
    <3> QED
      BY <1>2, <1>3, <2>1, <3>2
  <2> QED
    BY <1>3, <2>1, <2>2, <2>3, <2>4
<1>5. PICK w \in Assignments : Costs(w)[N] = c /\ Losses(table, w)[N] = dp[c]
  BY <1>1, <1>3 DEF BestInv, Forward
<1>6. Winner(w)
  BY <1>4, <1>5 DEF Winner
<1>7. ASSUME NEW p \in Assignments, Winner(p)
      PROVE  Costs(p)[N] = c /\ BestPrefix(N, p)
  <2>1. /\ Costs(p)[N] \in Units /\ Costs(p)[N] \in Nat
        /\ Losses(table, p)[N] <= dp[c] /\ (Losses(table, p)[N] = dp[c] => Costs(p)[N] <= c)
    BY <1>5, <1>7, ConstantsTyped DEF Winner
  <2>2. Losses(table, p)[N] = dp[c]
    BY <1>3, <1>4, <2>1
  <2>3. Costs(p)[N] = c
    BY <1>3, <1>4, <2>1, <2>2
  <2>4. BestPrefix(N, p)
    BY <1>4, <2>1, <2>2 DEF BestPrefix
  <2> QED
    BY <2>3, <2>4
<1>8. \A p : AgreesAbove(N, p)'
  BY ConstantsTyped DEF AgreesAbove
<1>9. \A p \in Assignments : (Winner(p)' <=> Winner(p)) /\ (BestPrefix(N, p)' <=> BestPrefix(N, p))
  BY <1>1 DEF Winner, BestPrefix
<1>10. \A p : AgreesAbove(index, p)'
  BY <1>1, <1>8 DEF AgreesAbove
<1>11. \A p \in Assignments : BestPrefix(index, p)' <=> BestPrefix(N, p)
  BY <1>1 DEF BestPrefix
<1> QED
  BY <1>1, <1>2, <1>5, <1>6, <1>7, <1>9, <1>10, <1>11 DEF Backward

LEMMA BestBacktrack ==
  ASSUME BestInv, Backtrack, Inv'
  PROVE  Backward'
<1>1. /\ pc = "backtrack" /\ index \in Blocks /\ cursor \in Units
      /\ choices[index] \in Columns /\ choices[index][cursor] # -1
      /\ UNCHANGED <<table, dp, choices, terminal>> /\ Len(choices) = N
      /\ table \in Tables /\ profiles \in [Blocks -> Profiles \cup {-1}]
      /\ index \in 0 .. N /\ index - 1 \in 0 .. N /\ N \in index .. N
  BY ConstantsTyped
  DEF Backtrack, BestInv, Inv, Typed, TypeOK, OnTrack, Blocks, Columns
<1> DEFINE chosen == choices[index][cursor]
<1>2. cursor % (Budget + 1) = cursor /\ chosen \in Profiles /\ ~(chosen < 0)
  <2>1. cursor % (Budget + 1) = cursor
    BY <1>1, ConstantsTyped, OwnRemainder DEF Units
  <2>2. chosen \in Profiles /\ ~(chosen < 0)
    BY <1>1 DEF Columns, Profiles
  <2> QED
    BY <2>1, <2>2
<1>3. /\ profiles' = [profiles EXCEPT ![index] = chosen]
      /\ cursor' = cursor - Weights[index] * chosen
      /\ index' = index - 1 /\ pc' = "backtrack"
  BY <1>1, <1>2 DEF Backtrack, Charge
<1>4. /\ profiles'[index] = chosen
      /\ \A j \in Blocks \ {index} : profiles'[j] = profiles[j]
  BY <1>1, <1>3
<1>5. PicksOf(index)
  BY <1>1 DEF BestInv, Picks, Blocks
<1> HIDE DEF chosen
<1>6. PICK w \in Assignments : Winner(w) /\ AgreesAbove(index, w)
  BY <1>1 DEF BestInv, Backward
<1>7. ASSUME NEW p \in Assignments, Winner(p)
      PROVE  /\ Costs(p)[N] = terminal
             /\ AgreesAbove(index, p) \/ LaterAbove(index, p)
             /\ AgreesAbove(index, p) => Costs(p)[index] = cursor /\ BestPrefix(index, p)
  BY <1>1, <1>7 DEF BestInv, Backward
<1>8. PICK p \in Assignments : Costs(p)[index] = cursor /\ BestPrefix(index, p) /\ p[index] = chosen
  BY <1>1, <1>5 DEF PicksOf, chosen
<1>9. ASSUME NEW r \in Assignments
      PROVE  AgreesAbove(index, r) /\ r[index] = chosen <=> AgreesAbove(index, r)'
  <2>1. \A j \in (index - 1) + 1 .. N : j \in Blocks /\ (j = index \/ j \in index + 1 .. N)
    BY <1>1, ConstantsTyped DEF Blocks
  <2>2. \A j \in index + 1 .. N : j \in Blocks \ {index} /\ j \in (index - 1) + 1 .. N
    BY <1>1, ConstantsTyped DEF Blocks
  <2>3. index \in (index - 1) + 1 .. N
    BY <1>1, ConstantsTyped DEF Blocks
  <2> QED
    BY <1>3, <1>4, <2>1, <2>2, <2>3 DEF AgreesAbove
\* The winner with the recorded profile: p up to the block, w above it.
<1>10. \E r \in Assignments : Winner(r) /\ AgreesAbove(index, r) /\ r[index] = chosen
  <2>1. PICK r : r = [j \in Blocks |-> IF j <= index THEN p[j] ELSE w[j]]
    OBVIOUS
  <2>2. r \in Assignments /\ r[index] = chosen
    BY <1>1, <1>8, <2>1 DEF Assignments, Blocks
  <2>3. \A j \in 1 .. index : r[j] = p[j]
    BY <1>1, <2>1 DEF Blocks
  <2>4. \A j \in index + 1 .. N : r[j] = w[j]
    BY <1>1, <2>1 DEF Blocks
  <2>5. Costs(r)[index] = Costs(p)[index] /\ Losses(table, r)[index] = Losses(table, p)[index]
    BY <1>1, <2>2, <2>3, SamePrefix
  <2>6. /\ Costs(r)[N] + Costs(w)[index] = Costs(w)[N] + Costs(r)[index]
        /\ Losses(table, r)[N] + Losses(table, w)[index]
             = Losses(table, w)[N] + Losses(table, r)[index]
    BY <1>1, <2>2, <2>4, SameCosts
  <2>7. Costs(w)[index] = cursor /\ BestPrefix(index, w)
    BY <1>6, <1>7
  <2>8. Losses(table, w)[index] = Losses(table, p)[index]
    <3>1. Losses(table, w)[index] <= Losses(table, p)[index]
          /\ Losses(table, p)[index] <= Losses(table, w)[index]
      BY <1>8, <2>7 DEF BestPrefix
    <3>2. Losses(table, w)[index] \in Nat /\ Losses(table, p)[index] \in Nat
      BY <1>1, CostsOf
    <3> QED
      BY <3>1, <3>2
  <2>9. Costs(r)[N] = Costs(w)[N] /\ Losses(table, r)[N] = Losses(table, w)[N]
    <3>1. /\ Costs(r)[N] \in Nat /\ Costs(w)[N] \in Nat /\ Costs(w)[index] \in Nat
          /\ Losses(table, r)[N] \in Nat /\ Losses(table, w)[N] \in Nat
          /\ Losses(table, w)[index] \in Nat
      BY <1>1, <2>2, CostsOf, ConstantsTyped
    <3> QED
      BY <1>8, <2>5, <2>6, <2>7, <2>8, <3>1
  <2>10. Winner(r)
    BY <1>6, <2>2, <2>9 DEF Winner
  <2>11. AgreesAbove(index, r)
    BY <1>6, <2>4 DEF AgreesAbove
  <2> QED
    BY <2>2, <2>10, <2>11
<1>11. ASSUME NEW r \in Assignments, Winner(r)
       PROVE  AgreesAbove(index, r)' \/ LaterAbove(index, r)'
  <2>1. \A j \in index + 1 .. N : j \in (index - 1) + 1 .. N /\ profiles'[j] = profiles[j]
    BY <1>1, <1>4, ConstantsTyped DEF Blocks
  <2>2. index \in (index - 1) + 1 .. N /\ index \in Nat /\ N \in Nat
    BY <1>1, ConstantsTyped DEF Blocks
  <2>3. CASE LaterAbove(index, r)
    <3>1. PICK k \in index + 1 .. N : profiles[k] < r[k] /\ \A j \in k + 1 .. N : r[j] = profiles[j]
      BY <2>3 DEF LaterAbove
    <3>2. \A j \in k + 1 .. N : j \in index + 1 .. N
      BY <2>2
    <3>3. LaterAbove(index, r)'
      BY <1>3, <2>1, <3>1, <3>2 DEF LaterAbove
    <3> QED
      BY <3>3
  <2>4. CASE AgreesAbove(index, r)
    <3>1. chosen <= r[index]
      BY <1>1, <1>5, <1>7, <1>11, <2>4 DEF PicksOf, chosen
    <3>2. CASE chosen = r[index]
      BY <1>9, <2>4, <3>2
    <3>3. CASE chosen < r[index]
      <4>1. \A j \in index + 1 .. N : r[j] = profiles'[j]
        BY <2>1, <2>4 DEF AgreesAbove
      <4>2. LaterAbove(index, r)'
        BY <1>3, <1>4, <2>2, <3>3, <4>1 DEF LaterAbove
      <4> QED
        BY <4>2
    <3>4. chosen \in Int /\ r[index] \in Int
      BY <1>1, <1>2 DEF Assignments, Profiles
    <3> QED
      BY <3>1, <3>2, <3>3, <3>4
  <2> QED
    BY <1>7, <1>11, <2>3, <2>4
<1>12. ASSUME NEW r \in Assignments, Winner(r), AgreesAbove(index, r), r[index] = chosen
       PROVE  Costs(r)[index - 1] = cursor' /\ BestPrefix(index - 1, r)
  <2>1. Costs(r)[index] = cursor /\ BestPrefix(index, r)
    BY <1>7, <1>12
  <2>2. /\ Costs(r)[index] = Costs(r)[index - 1] + Weights[index] * chosen
        /\ Losses(table, r)[index] = Losses(table, r)[index - 1] + table[index][chosen]
        /\ Costs(r)[index - 1] \in Nat /\ Losses(table, r)[index - 1] \in Nat
    BY <1>1, <1>12, CostsOf
  <2>3. Weights[index] * chosen \in Nat /\ table[index][chosen] \in Nat
    BY <1>1, <1>2, ConstantsTyped DEF Profiles
  <2>4. Costs(r)[index - 1] = cursor'
    BY <1>3, <2>1, <2>2, <2>3
  <2>5. ASSUME NEW s \in Assignments, Costs(s)[index - 1] = Costs(r)[index - 1]
        PROVE  Losses(table, r)[index - 1] <= Losses(table, s)[index - 1]
    <3>1. PICK z : z = [s EXCEPT ![index] = chosen]
      OBVIOUS
    <3>2. z \in Assignments /\ z[index] = chosen /\ \A j \in Blocks \ {index} : z[j] = s[j]
      BY <1>1, <1>2, <3>1 DEF Assignments
    <3>3. /\ Costs(z)[index] = Costs(s)[index - 1] + Weights[index] * chosen
          /\ Losses(table, z)[index] = Losses(table, s)[index - 1] + table[index][chosen]
      BY <1>1, <3>2, OneChanged
    <3>4. Losses(table, r)[index] <= Losses(table, z)[index]
      BY <2>1, <2>2, <2>5, <3>2, <3>3 DEF BestPrefix
    <3>5. Losses(table, s)[index - 1] \in Nat
      BY <1>1, CostsOf
    <3> QED
      BY <2>2, <2>3, <3>3, <3>4, <3>5
  <2>6. BestPrefix(index - 1, r)
    BY <2>5 DEF BestPrefix
  <2> QED
    BY <2>4, <2>6
<1>13. ASSUME NEW r \in Assignments
       PROVE  (Winner(r)' <=> Winner(r)) /\ (BestPrefix(index, r)' <=> BestPrefix(index - 1, r))
  BY <1>1, <1>3 DEF Winner, BestPrefix
<1>14. \E r \in Assignments : Winner(r)' /\ AgreesAbove(index, r)'
  BY <1>9, <1>10, <1>13
<1>15. ASSUME NEW r \in Assignments, Winner(r)'
       PROVE  /\ Costs(r)[N] = terminal'
              /\ AgreesAbove(index, r)' \/ LaterAbove(index, r)'
              /\ AgreesAbove(index, r)' => Costs(r)[index'] = cursor' /\ BestPrefix(index, r)'
  <2>1. Winner(r)
    BY <1>13, <1>15
  <2>2. Costs(r)[N] = terminal'
    BY <1>1, <1>7, <2>1
  <2>3. ASSUME AgreesAbove(index, r)' PROVE Costs(r)[index'] = cursor' /\ BestPrefix(index, r)'
    BY <1>3, <1>9, <1>12, <1>13, <2>1, <2>3
  <2> QED
    BY <1>11, <2>1, <2>2, <2>3
<1>16. pc' # "done"
  BY <1>3
<1> QED
  BY <1>14, <1>15, <1>16 DEF Backward

LEMMA BestReturn ==
  ASSUME BestInv, Return
  PROVE  Backward'
<1>1. pc = "backtrack" /\ index = 0 /\ UNCHANGED <<table, index, terminal, cursor, profiles>>
  BY DEF Return, result
<1> QED
  BY <1>1 DEF BestInv, Backward, Winner, AgreesAbove, LaterAbove, BestPrefix

LEMMA BestNext ==
  ASSUME BestInv, [Next]_vars
  PROVE  BestInv'
<1>1. Inv'
  BY InvNext DEF BestInv
<1>2. CASE TryProfile
  <2>1. pc' = "try" /\ UNCHANGED <<table, dp, choices>>
    BY <1>2 DEF TryProfile
  <2>2. Forward' /\ Picks' /\ Backward'
    BY <2>1 DEF BestInv, Forward, Picks, PicksOf, BestPrefix, Backward
  <2> QED
    BY <1>1, <1>2, <2>2, BestTry DEF BestInv
<1>3. CASE CloseBlock
  BY <1>1, <1>3, BestClose DEF BestInv
<1>4. CASE ArgMin \/ Backtrack \/ Return
  <2>1. UNCHANGED <<table, dp, choices>> /\ pc' # "try"
    BY <1>4 DEF ArgMin, Backtrack, Return, BestInv, Inv, NeverRaises
  <2>2. Forward' /\ Picks' /\ Trying'
    BY <2>1 DEF BestInv, Forward, Picks, PicksOf, BestPrefix, Trying
  <2> QED
    BY <1>1, <1>4, <2>2, BestArgMin, BestBacktrack, BestReturn DEF BestInv
<1>5. CASE UNCHANGED vars
  <2>1. UNCHANGED <<table, pc, index, q, dp, new, picked, choices, terminal, cursor, profiles>>
    BY <1>5 DEF vars, trial, result
  <2> QED
    BY <1>1, <2>1 DEF BestInv, Forward, Trying, Picks, PicksOf, BestPrefix, Backward, Winner,
                      AgreesAbove, LaterAbove
<1> QED
  BY <1>2, <1>3, <1>4, <1>5 DEF Next

LEMMA ReturnsWinner ==
  ASSUME BestInv
  PROVE  Optimal
<1> SUFFICES ASSUME pc = "done" PROVE Optimal
  BY DEF Optimal
<1>1. index = 0 /\ table \in Tables /\ profiles \in [Blocks -> Profiles \cup {-1}]
  BY DEF BestInv, Backward, Inv, Typed, TypeOK
<1>2. PICK w \in Assignments : Winner(w) /\ AgreesAbove(0, w)
  BY <1>1 DEF BestInv, Backward
<1>3. w = profiles
  <2>1. \A j \in Blocks : w[j] = profiles[j]
    BY <1>2 DEF AgreesAbove, Blocks
  <2> QED
    BY <1>1, <2>1 DEF Assignments
<1>4. \A p : Spent(p) = Costs(p)[N] /\ Distortion(p) = Losses(table, p)[N]
  BY DEF Spent, Distortion, Costs, Losses, CostTerms, LossTerms
<1>5. \A p \in Assignments : /\ Costs(p)[N] \in Nat /\ Losses(table, p)[N] \in Nat
                             /\ Costs(p)[N] \in Units <=> Costs(p)[N] <= Budget
  BY <1>1, CostsOf, ConstantsTyped DEF Units
<1>6. profiles \in Affordable /\ Spent(profiles) = terminal
  BY <1>2, <1>3, <1>4, <1>5 DEF Affordable, Assignments, Winner, BestInv, Backward
<1>7. ASSUME NEW p \in Affordable \ {profiles}
      PROVE  Before(profiles, p)
  <2>1. p \in Assignments /\ Costs(p)[N] \in Units /\ p # profiles
    BY <1>4, <1>5 DEF Affordable, Assignments
  <2>2. /\ Losses(table, profiles)[N] <= Losses(table, p)[N]
        /\ Losses(table, profiles)[N] = Losses(table, p)[N] => Costs(profiles)[N] <= Costs(p)[N]
    BY <1>2, <1>3, <2>1 DEF Winner
  <2>3. CASE Losses(table, profiles)[N] = Losses(table, p)[N] /\ Costs(profiles)[N] = Costs(p)[N]
    <3>1. Winner(p)
      BY <1>2, <1>3, <2>1, <2>3 DEF Winner
    <3>2. ~AgreesAbove(0, p)
      <4>1. ASSUME AgreesAbove(0, p) PROVE FALSE
        <5>1. \A j \in Blocks : p[j] = profiles[j]
          BY <4>1 DEF AgreesAbove, Blocks
        <5> QED
          BY <1>1, <2>1, <5>1 DEF Assignments
      <4> QED
        BY <4>1
    <3>3. LaterAbove(0, p)
      BY <1>1, <2>1, <3>1, <3>2 DEF BestInv, Backward
    <3>4. \E k \in Blocks : profiles[k] < p[k] /\ \A j \in k + 1 .. N : profiles[j] = p[j]
      BY <3>3 DEF LaterAbove, Blocks
    <3> QED
      BY <1>4, <2>3, <3>4 DEF Before
  <2>4. CASE ~(Losses(table, profiles)[N] = Losses(table, p)[N] /\ Costs(profiles)[N] = Costs(p)[N])
    <3>1. profiles \in Assignments
      BY <1>3
    <3>2. /\ Losses(table, profiles)[N] \in Nat /\ Losses(table, p)[N] \in Nat
          /\ Costs(profiles)[N] \in Nat /\ Costs(p)[N] \in Nat
      BY <1>5, <2>1, <3>1
    <3> QED
      BY <1>4, <2>2, <2>4, <3>2 DEF Before
  <2> QED
    BY <2>3, <2>4
<1> QED
  BY <1>6, <1>7 DEF Optimal

-----------------------------------------------------------------------------
(* Theorems                                                                *)

\* Every block behind the loop has its column of choices, and the walk back
\* through them stays within the columns, for all weights and distortions.
THEOREM TypeCorrect == Spec => []TypeOK
<1>1. Inv => TypeOK
  BY DEF Inv, Typed
<1> QED BY <1>1, InvAlways, PTL

\* None of the three assertions of allocate_profiles can fail: there is always
\* a reachable number of units, and the walk back ends at none.
THEOREM NoneRaised == Spec => []NeverRaises
<1>1. Inv => NeverRaises
  BY DEF Inv
<1> QED BY <1>1, InvAlways, PTL

\* What allocate_profiles returns has, of all assignments that the budget has
\* room for, the least distortion, then the fewest units, then the lowest
\* profile of the last block, and so on: nobody who recomputes it differs.
THEOREM OptimalReturned == Spec => []Optimal
  BY BestInit, BestNext, ReturnsWinner, PTL DEF Spec

=============================================================================
