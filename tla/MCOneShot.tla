----------------------------- MODULE MCOneShot -----------------------------
(***************************************************************************)
(* OneShot for TLC: two launches, so that a restart after a crash and a    *)
(* race for the output directory both occur, and blocks of one or two      *)
(* bytes, so that a reservoir of 2N - 1 bytes overflows only when every    *)
(* block is large.                                                         *)
(***************************************************************************)
EXTENDS OneShot, TLC

CONSTANTS r1, r2

MCRunners == {r1, r2}
MCSizes == {1, 2}
MCReservoir == 2 * N - 1
LaunchSymmetry == Permutations(MCRunners)

=============================================================================
