------------------------ MODULE MCProfileAllocation ------------------------
(***************************************************************************)
(* ProfileAllocation for TLC: two large blocks and a small one, as at the  *)
(* end of the code's list, with four profiles each and every distortion    *)
(* that decreases from profile to profile.                                 *)
(***************************************************************************)
EXTENDS ProfileAllocation

MCWeights == <<2, 2, 1>>

Decreasing == {d \in [Profiles -> 0 .. 5] : \A k \in 1 .. Levels - 1 : d[k] < d[k - 1]}
MCTables == [Blocks -> Decreasing]

=============================================================================
