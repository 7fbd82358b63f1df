---------------------------- MODULE MCLocalRun ----------------------------
(***************************************************************************)
(* LocalRun for TLC: two launches on one plan directory, an auditor and    *)
(* two publishers with one output directory.  An edited encoder makes      *)
(* longer payloads, of which the container holds one but not two.          *)
(***************************************************************************)
EXTENDS LocalRun, TLC

CONSTANTS l1, l2, a1, p1, p2

MCLaunches == {l1, l2}
MCAuditors == {a1}
MCPublishers == {p1, p2}
ProcessSymmetry == Permutations(MCLaunches) \cup Permutations(MCPublishers)

MCBits == [p \in Blocks \X Contents |-> IF p[2] = Altered THEN 2 ELSE 1]

=============================================================================
