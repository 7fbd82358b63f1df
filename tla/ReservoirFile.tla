--------------------------- MODULE ReservoirFile ---------------------------
(***************************************************************************)
(* What the shared-bit reservoir is to its readers, without bits, bytes    *)
(* or directories: one register.  It holds nothing, the messages of a      *)
(* whole checkpoint, or something unreadable while it is being rewritten   *)
(* and after a rewrite was cut short.  A rewrite starts only with a        *)
(* checkpoint that fits, and ends with that one.  Reservoir implements     *)
(* this.                                                                   *)
(***************************************************************************)
CONSTANTS
  Checkpoints,  \* the messages of all blocks, in order, that fit the capacity
  Nothing,
  Unreadable

VARIABLES
  register,
  writing    \* the checkpoint being written, or Nothing

vars == <<register, writing>>

Init ==
  /\ register = Nothing
  /\ writing = Nothing

Begin(c) ==
  /\ writing = Nothing
  /\ writing' = c
  /\ register' = Unreadable

Commit ==
  /\ writing # Nothing
  /\ register' = writing
  /\ writing' = Nothing

Abandon ==
  /\ writing # Nothing
  /\ writing' = Nothing
  /\ UNCHANGED register

Next ==
  \/ \E c \in Checkpoints : Begin(c)
  \/ Commit
  \/ Abandon

Spec == Init /\ [][Next]_vars

=============================================================================
