--------------------------- MODULE MCMaterializer ---------------------------
(***************************************************************************)
(* Materializer for TLC: two launches, so that one can still arrive after  *)
(* the other was killed or refused, and two ranges.                        *)
(***************************************************************************)
EXTENDS Materializer

CONSTANTS l1, l2

MCLaunches == {l1, l2}

=============================================================================
