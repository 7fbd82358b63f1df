----------------------------- MODULE SealedRun -----------------------------
(***************************************************************************)
(* What a one-shot encoding run promises, without files, threads, digests  *)
(* or several launches: the decisions are sealed once, after that every    *)
(* block is handed to its encoder at most once, a verdict is reached only  *)
(* while no encoder is running, a published result has every block         *)
(* encoded, and a verdict is never revised.  OneShot implements this.      *)
(***************************************************************************)
CONSTANT Blocks

VARIABLES
  sealed,   \* the intent has been written
  status,   \* per block: "unused", "running", "encoded" or "rejected"
  verdict   \* "open", "published" or "negative"

vars == <<sealed, status, verdict>>

Init ==
  /\ sealed = FALSE
  /\ status = [b \in Blocks |-> "unused"]
  /\ verdict = "open"

Seal ==
  /\ ~sealed
  /\ sealed' = TRUE
  /\ UNCHANGED <<status, verdict>>

Encode(b) ==
  /\ sealed
  /\ verdict = "open"
  /\ status[b] = "unused"
  /\ status' = [status EXCEPT ![b] = "running"]
  /\ UNCHANGED <<sealed, verdict>>

Finish(b) ==
  /\ status[b] = "running"
  /\ status' = [status EXCEPT ![b] = "encoded"]
  /\ UNCHANGED <<sealed, verdict>>

\* A block may be given up before, during or after its only encoding.
Reject(b) ==
  /\ sealed
  /\ verdict = "open"
  /\ status' = [status EXCEPT ![b] = "rejected"]
  /\ UNCHANGED <<sealed, verdict>>

Publish ==
  /\ sealed
  /\ verdict = "open"
  /\ \A b \in Blocks : status[b] = "encoded"
  /\ verdict' = "published"
  /\ UNCHANGED <<sealed, status>>

Decline ==
  /\ sealed
  /\ verdict = "open"
  /\ \A b \in Blocks : status[b] # "running"
  /\ verdict' = "negative"
  /\ UNCHANGED <<sealed, status>>

Next ==
  \/ Seal
  \/ \E b \in Blocks : Encode(b) \/ Finish(b) \/ Reject(b)
  \/ Publish
  \/ Decline

Spec == Init /\ [][Next]_vars

=============================================================================
