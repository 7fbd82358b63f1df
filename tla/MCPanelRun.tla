---------------------------- MODULE MCPanelRun ----------------------------
(***************************************************************************)
(* PanelRun for TLC: two launches that execute the panel and two that      *)
(* aggregate again, of both variants and with manifests of two revisions.  *)
(* A block takes one or two bits, and one more if an edited encoder makes  *)
(* it, which the reservoir may not hold.                                   *)
(***************************************************************************)
EXTENDS PanelRun

CONSTANTS r1, r2, a1, a2

MCLaunches == {r1, r2, a1, a2}
MCAggregators == {a1, a2}
MCRevision == "2025"
MCOther == "2026"

\* An execution and an aggregation of either variant, all with one manifest or
\* those of the second with different ones.
TwoVariants == [r \in MCLaunches |-> IF r \in {r2, a2} THEN "exact" ELSE "rht"]
OneVariant == [r \in MCLaunches |-> "rht"]
TwoManifests == [r \in MCLaunches |-> IF r = r2 THEN MCOther ELSE MCRevision]
OneManifest == [r \in MCLaunches |-> MCRevision]

MCBits == [p \in Blocks \X Variants \X Contents |->
  (IF p[2] = "exact" \/ p[1] = 0 THEN 2 ELSE 1) + (IF p[3] = Altered THEN 1 ELSE 0)]
MCCapacity == 2 * N

=============================================================================
