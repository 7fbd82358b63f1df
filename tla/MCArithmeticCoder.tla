------------------------- MODULE MCArithmeticCoder -------------------------
(***************************************************************************)
(* ArithmeticCoder for TLC: words of five bits, frequencies in quarters.   *)
(* Five symbols are the fewest after which an interval that is not shifted *)
(* out of the middle is narrower than the total, and as many as keep       *)
(* RateBound within TLC's integers.                                        *)
(***************************************************************************)
EXTENDS ArithmeticCoder

=============================================================================
