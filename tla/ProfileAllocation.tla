------------------------- MODULE ProfileAllocation -------------------------
(***************************************************************************)
(* allocate_profiles of strata_v2_codec/common.py, which decides how many  *)
(* bits every block gets: a dynamic program over the units of rate that    *)
(* the first blocks have used, block by block and profile by profile, and  *)
(* the walk back through the choices it recorded.  The expert-local codec  *)
(* and the independent auditor have the same loops.                        *)
(*                                                                         *)
(* The distortion of a block at a profile is a number of a table.  Sums    *)
(* are exact: the rounding of the code's doubles is left out.              *)
(***************************************************************************)
EXTENDS Integers, Sequences

CONSTANTS
  N,         \* blocks
  Levels,    \* profiles of a block (256 in the code)
  Weights,   \* units that one step of a block's profile costs
  Budget,    \* budget_units
  Tables,    \* distortions that the blocks may have, at each profile
  Infinite   \* the distortion of what cannot be reached

Blocks == 1 .. N
Profiles == 0 .. Levels - 1
Units == 0 .. Budget

ASSUME AllocationAssumption ==
  /\ N \in Nat \ {0} /\ Levels \in Nat \ {0} /\ Budget \in Nat
  /\ Weights \in [Blocks -> Nat \ {0}]
  /\ \A t \in Tables : t \in [Blocks -> [Profiles -> Nat]]
  /\ Infinite \notin Nat

VARIABLES
  table,
  pc,
  index,      \* the block of either loop
  q,          \* the profile that is tried next
  dp,         \* least distortion of the blocks before, by units used
  new,        \* the same with this block, as far as its profiles were tried
  picked,     \* the profile behind each entry of new, or -1
  choices,    \* picked of the blocks before
  terminal,   \* units used by all blocks together
  cursor,     \* units used by the blocks that have no profile yet
  profiles    \* the result, from the last block to the first

trial == <<q, new, picked>>
result == <<terminal, cursor, profiles>>
vars == <<table, pc, index, dp, choices, trial, result>>

Unreached == [c \in Units |-> Infinite]
Unpicked == [c \in Units |-> -1]

Plus(sum, distortion) == IF sum = Infinite THEN Infinite ELSE sum + distortion
Less(a, b) == a # Infinite /\ (b = Infinite \/ a < b)

Init ==
  /\ table \in Tables
  /\ pc = "try"
  /\ index = 1
  /\ dp = [Unreached EXCEPT ![0] = 0]
  /\ choices = <<>>
  /\ q = 0 /\ new = Unreached /\ picked = Unpicked
  /\ terminal = 0 /\ cursor = 0
  /\ profiles = [i \in Blocks |-> -1]

-----------------------------------------------------------------------------
(* The dynamic program                                                     *)

Cost == Weights[index] * q

\* range(256) is exhausted, or the budget is.
Tried == q = Levels \/ Cost > Budget

\* An update that prefers the later profile among equals.
ImprovesOrEquals(c) == c >= Cost /\ ~Less(new[c], Plus(dp[c - Cost], table[index][q]))

\* candidate < target
Improves(c) == c >= Cost /\ Less(Plus(dp[c - Cost], table[index][q]), new[c])

TryProfile ==
  /\ pc = "try"
  /\ ~Tried
  /\ new' = [c \in Units |-> IF Improves(c) THEN Plus(dp[c - Cost], table[index][q]) ELSE new[c]]
  /\ picked' = [c \in Units |-> IF Improves(c) THEN q ELSE picked[c]]
  /\ q' = q + 1
  /\ UNCHANGED <<table, pc, index, dp, choices, result>>

\* A list that holds the last block's choices only.
LastRecorded == <<picked>>
Recorded == Append(choices, picked)

\* A block after which nothing is reachable raises.
CloseBlock ==
  /\ pc = "try"
  /\ Tried
  /\ \/ /\ new = Unreached
        /\ pc' = "raised"
        /\ UNCHANGED <<index, dp, choices, trial>>
     \/ /\ new # Unreached
        /\ pc' = IF index = N THEN "argmin" ELSE "try"
        /\ index' = index + 1
        /\ dp' = new
        /\ choices' = Recorded
        /\ q' = 0 /\ new' = Unreached /\ picked' = Unpicked
  /\ UNCHANGED <<table, result>>

-----------------------------------------------------------------------------
(* The way back                                                            *)

Least(c) == \A d \in Units : ~Less(dp[d], dp[c])

\* np.argmin: the first of them.
ArgMin ==
  /\ pc = "argmin"
  /\ pc' = "backtrack"
  /\ index' = N
  /\ \E c \in Units :
       /\ Least(c) /\ \A d \in Units : d < c => ~Least(d)
       /\ terminal' = c /\ cursor' = c
  /\ UNCHANGED <<table, dp, choices, trial, profiles>>

\* A walk back that forgets the block's weight.
ChargeUnweighted(i, chosen) == chosen

\* What a block's profile has cost, as the forward loop counted it.
Charge(i, chosen) == Weights[i] * chosen

\* A negative subscript would count from the end of the array.
Backtrack ==
  /\ pc = "backtrack"
  /\ index >= 1
  /\ LET chosen == choices[index][cursor % (Budget + 1)]
     IN  \/ /\ chosen < 0
            /\ pc' = "raised"
            /\ UNCHANGED <<index, cursor, profiles>>
         \/ /\ chosen >= 0
            /\ profiles' = [profiles EXCEPT ![index] = chosen]
            /\ cursor' = cursor - Charge(index, chosen)
            /\ index' = index - 1
            /\ UNCHANGED pc
  /\ UNCHANGED <<table, dp, choices, trial, terminal>>

Return ==
  /\ pc = "backtrack"
  /\ index = 0
  /\ pc' = IF cursor = 0 THEN "done" ELSE "raised"
  /\ UNCHANGED <<table, index, dp, choices, trial, result>>

Next == TryProfile \/ CloseBlock \/ ArgMin \/ Backtrack \/ Return

Spec == Init /\ [][Next]_vars

-----------------------------------------------------------------------------
(* Properties                                                              *)

\* Every block that is behind the loop has its column of choices, and the walk
\* back stays within the columns.
TypeOK ==
  /\ table \in Tables
  /\ pc \in {"try", "argmin", "backtrack", "done", "raised"}
  /\ index \in 0 .. N + 1 /\ q \in 0 .. Levels
  /\ dp \in [Units -> Nat \cup {Infinite}] /\ new \in [Units -> Nat \cup {Infinite}]
  /\ picked \in [Units -> Profiles \cup {-1}]
  /\ choices \in Seq([Units -> Profiles \cup {-1}])
  /\ pc = "try" => index = Len(choices) + 1
  /\ pc # "try" /\ pc # "raised" => Len(choices) = N
  /\ terminal \in Units /\ cursor \in Units
  /\ profiles \in [Blocks -> Profiles \cup {-1}]

\* The sums of what the first blocks have.
Sums(share) ==
  LET sums[i \in 0 .. N] == IF i = 0 THEN 0 ELSE sums[i - 1] + share[i] IN sums

\* What an assignment of profiles costs and what it leaves of distortion: the
\* reference is every assignment that the budget has room for.
Spent(p) == Sums([i \in Blocks |-> Weights[i] * p[i]])[N]
Distortion(p) == Sums([i \in Blocks |-> table[i][p[i]]])[N]
Affordable == {p \in [Blocks -> Profiles] : Spent(p) <= Budget}

\* strata_v2_codec/FORMAT.md: the program minimizes the distortion "subject to
\* at most 60,759,864 nominal profile bits", with "strict-less updates;
\* ascending q; lowest terminal index": of the best assignments the one with
\* the fewest units, then with the lowest profile of the last block, then of
\* the one before, so that who recomputes it gets the same.
Before(p, r) ==
  \/ Distortion(p) < Distortion(r)
  \/ Distortion(p) = Distortion(r) /\ Spent(p) < Spent(r)
  \/ /\ Distortion(p) = Distortion(r) /\ Spent(p) = Spent(r)
     /\ \E i \in Blocks : p[i] < r[i] /\ \A j \in i + 1 .. N : p[j] = r[j]

Optimal ==
  pc = "done" =>
    /\ profiles \in Affordable /\ Spent(profiles) = terminal
    /\ \A p \in Affordable \ {profiles} : Before(profiles, p)

\* None of the three assertions fails, for any distortions.
NeverRaises == pc # "raised"

=============================================================================
