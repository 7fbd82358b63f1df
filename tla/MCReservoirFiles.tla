------------------------- MODULE MCReservoirFiles -------------------------
(***************************************************************************)
(* Reservoir for TLC, with every small file before one unpacker: packed    *)
(* from two messages of any bits, or presented as a reservoir, whatever    *)
(* its header claims.                                                      *)
(***************************************************************************)
EXTENDS Reservoir

CONSTANT u1

LoneUnpacker == {u1}

\* Every pair of messages of up to four bits, and some that overflow.
BitStrings(n) == UNION {[1 .. k -> {0, 1}] : k \in 0 .. n}
LegacyOf(bits, scale) ==
  [bits |-> Len(bits), scale |-> scale, payload |-> bits \o Zeros(RoundUp(Len(bits)) - Len(bits))]

BitJobs ==
  {<<LegacyOf(a, "one"), LegacyOf(b, "two")>> : a \in BitStrings(4), b \in BitStrings(4)} \cup
  {<<LegacyOf(<<1, 0, 1, 1, 0>>, "one"), LegacyOf(b, "two")>> : b \in BitStrings(4)} \cup
  {<<LegacyOf(<<1>>, "one"), LegacyOf(<<0>>, "huge")>>}

\* The header may lie about the length of the payload, or about one thing
\* else: the block count, the size of the directory, a digest, or everything.
Payloads == [1 .. Capacity -> {0, 1}]
SmallDirectories ==
  {<<[bits |-> a, scale |-> s], [bits |-> b, scale |-> "one"]>> :
     a \in 0 .. 3, b \in 0 .. 3, s \in {"one", "zero"}}

Header(logical, d, p) ==
  [blocks |-> 2, entries |-> 2, logical |-> logical, directory |-> d, payload |-> p]
Honest(d, p) == Header(d[1].bits + d[2].bits, d, p)

HeadersOf(d, p) ==
  {Header(logical, d, p) : logical \in 0 .. 5} \cup
  {[Honest(d, p) EXCEPT !.blocks = 0], [Honest(d, p) EXCEPT !.entries = 1],
   [Honest(d, p) EXCEPT !.directory = <<>>], [Honest(d, p) EXCEPT !.payload = <<>>], Blank}

AllForgeries ==
  UNION {{[header |-> h, directory |-> d, payload |-> p] : h \in HeadersOf(d, p)} :
           d \in SmallDirectories, p \in Payloads}

=============================================================================
