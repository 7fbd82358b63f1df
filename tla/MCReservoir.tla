---------------------------- MODULE MCReservoir ----------------------------
(***************************************************************************)
(* Reservoir for TLC: two blocks, bytes of two bits, and a budget of four  *)
(* bits a block, so that blocks straddle bytes, one block may use what the *)
(* other saves, and a checkpoint may overflow.                             *)
(***************************************************************************)
EXTENDS Reservoir

CONSTANTS u1, u2

MCUnpackers == {u1, u2}

LegacyOf(bits, scale) ==
  [bits |-> Len(bits), scale |-> scale, payload |-> bits \o Zeros(RoundUp(Len(bits)) - Len(bits))]

\* Two checkpoints, one that overflows, one with a message that is longer than
\* its length field says, one whose padding is not zero, and one whose scale
\* vanishes in binary16.
RaceJobs ==
  {<<LegacyOf(<<1, 0, 1>>, "one"), LegacyOf(<<1, 1, 0, 1, 1>>, "two")>>,
   <<LegacyOf(<<1>>, "two"), LegacyOf(<<0, 1, 1>>, "one")>>,
   <<LegacyOf(<<1, 1, 1, 1, 1>>, "one"), LegacyOf(<<1, 1, 1, 1>>, "one")>>,
   <<[bits |-> 1, scale |-> "one", payload |-> <<1, 0, 0, 0>>], LegacyOf(<<1>>, "one")>>,
   <<LegacyOf(<<1>>, "one"), [bits |-> 1, scale |-> "one", payload |-> <<1, 1>>]>>,
   <<LegacyOf(<<1>>, "tiny"), LegacyOf(<<1>>, "one")>>}

=============================================================================
