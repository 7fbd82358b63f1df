---------------------------- MODULE Materializer ----------------------------
(***************************************************************************)
(* The one-shot materializer of the blind panel                            *)
(* (blind_protocol_v2/materialize_full_tensors_v2.py): it downloads the    *)
(* sealed ranges into a private staging directory, seals a source lock     *)
(* over them and publishes the directory as blind_protocol_v2/unblinded by *)
(* one rename that replaces nothing.                                       *)
(*                                                                         *)
(* Several launches may run, each may be killed or interrupted, requests   *)
(* and the clearing up may fail, and control documents, the script, the    *)
(* staging directory and the final path may be changed behind the          *)
(* program's back, MaxDrift times in all.  A SHA-256 digest is modelled by *)
(* the content it is the digest of.  A change never restores the bytes it  *)
(* replaced.                                                               *)
(***************************************************************************)
EXTENDS Integers, Sequences

CONSTANTS
  Launches,
  Matrices,   \* number of sealed ranges (eighteen in the code)
  Bodies,     \* bodies of the right length the server may send
  MaxDrift,   \* bound: number of changes made from outside
  None

\* Every change makes another control chain, which may be valid again.
Controls == [version : Nat, valid : BOOLEAN]
Broken == [version |-> 0, valid |-> FALSE]
Altered == "altered"

\* The control chain and the version of the materializer's own file.
Readings == [control : Controls, script : Nat]

\* What the server may send for a range; fetch_exact_range takes only a body of
\* the exact length.
Truncated == "truncated"
Answers == Bodies \cup {Truncated}
Exact(answer) == answer # Truncated

\* A staging directory: whether it is still the one that the launch made, its
\* files in the order of the ranges, the source lock, and any other entry.
Trees == [root : {"own", "foreign"}, files : Seq(Bodies \cup {Altered}),
          sourceLock : [control : Controls, script : Nat, bodies : Seq(Bodies)] \cup {None},
          stray : BOOLEAN]

ASSUME MaterializerAssumption ==
  /\ Matrices \in Nat \ {0}
  /\ MaxDrift \in Nat
  /\ None \notin Launches \cup Trees
  /\ "foreign" \notin Launches
  /\ Truncated \notin Bodies

VARIABLES
  control,    \* selection, freeze and validation receipt, as one version
  script,     \* the materializer's own file, as a version
  lock,       \* .materialize_v2.publish.lock: None or the launch that made it
  final,      \* unblinded/: None, "foreign", or the launch whose staging it was
  tree,       \* per launch, None or its staging directory
  (* memory of each launch *)
  pc,
  seen,       \* control chain and script hash taken before the lock
  rows,       \* digests of the bodies received, in order
  (* observation *)
  under,      \* per launch, controls and script on disk when it requested each range
  late,       \* launches whose tree was changed after it was revalidated
  faults,     \* whose "lock" or "staging" could not be cleared: a failure, an
              \* interrupt of the clearing up, or one before it was prepared
  drifts

observed == <<under, late, faults, drifts>>
disk == <<control, script, lock, final, tree>>
vars == <<disk, pc, seen, rows, observed>>

Init ==
  /\ control = [version |-> 0, valid |-> TRUE] /\ script = 0
  /\ lock = None /\ final = None
  /\ tree = [r \in Launches |-> None]
  /\ pc = [r \in Launches |-> "start"]
  /\ seen = [r \in Launches |-> None]
  /\ rows = [r \in Launches |-> <<>>]
  /\ under = [r \in Launches |-> <<>>]
  /\ late = {} /\ faults = {}
  /\ drifts = 0

Goto(r, from, to) ==
  /\ pc[r] = from
  /\ pc' = [pc EXCEPT ![r] = to]

-----------------------------------------------------------------------------
(* Before the source is accessed                                           *)

\* validate_control_chain and validate_pre_materialization_state.
ControlHolds == control.valid

Check(r) ==
  /\ \/ /\ Goto(r, "start", "checked")
        /\ ControlHolds
        /\ final = None
        /\ seen' = [seen EXCEPT ![r] = [control |-> control, script |-> script]]
     \/ /\ Goto(r, "start", "failed")
        /\ ~ControlHolds \/ final # None
        /\ UNCHANGED seen
  /\ UNCHANGED <<disk, rows, observed>>

\* open() without O_EXCL takes over a lock that is there.
LockIgnored == FALSE

\* O_CREAT | O_EXCL: a lock left by a killed launch refuses every later one.
LockHeld == lock # None

\* A launch that waits for the lock instead.
TakeLockWaiting(r) ==
  /\ Goto(r, "checked", "opened")
  /\ ~LockHeld
  /\ lock' = r
  /\ UNCHANGED <<control, script, final, tree, seen, rows, observed>>

TakeLock(r) ==
  /\ \/ /\ Goto(r, "checked", "opened")
        /\ script = seen[r].script
        /\ ~LockHeld
        /\ lock' = r
     \/ /\ Goto(r, "checked", "failed")
        /\ LockHeld \/ script # seen[r].script
        /\ UNCHANGED lock
  /\ UNCHANGED <<control, script, final, tree, seen, rows, observed>>

\* The descriptor's identity is taken and the try statement entered; until then
\* nothing removes the lock.
EnterTry(r) ==
  /\ Goto(r, "opened", "locked")
  /\ UNCHANGED <<disk, seen, rows, observed>>

MakeStaging(r) ==
  /\ Goto(r, "locked", "made")
  /\ tree' = [tree EXCEPT ![r] =
       [root |-> "own", files |-> <<>>, sourceLock |-> None, stray |-> FALSE]]
  /\ UNCHANGED <<control, script, lock, final, seen, rows, observed>>

\* Whatever directory stands there by now is the launch's own from here on;
\* anything else raises, and as no identity was taken it is not cleared.
CaptureIdentity(r) ==
  /\ \/ /\ Goto(r, "made", "fetching")
        /\ tree' = [tree EXCEPT ![r].root = "own"]
     \/ /\ Goto(r, "made", "dropping")
        /\ tree[r].root = "foreign"
        /\ UNCHANGED tree
  /\ UNCHANGED <<control, script, lock, final, seen, rows, observed>>

-----------------------------------------------------------------------------
(* The source, and the source lock                                         *)

\* A loop that runs one range too far.
FetchOneMore(r) ==
  /\ pc[r] = "fetching"
  /\ Len(rows[r]) <= Matrices
  /\ \E answer \in Answers :
       /\ Exact(answer)
       /\ tree' = [tree EXCEPT ![r].files = Append(@, answer)]
       /\ rows' = [rows EXCEPT ![r] = Append(@, answer)]
  /\ under' = [under EXCEPT ![r] = Append(@, [control |-> control, script |-> script])]
  /\ UNCHANGED <<control, script, lock, final, pc, seen, late, faults, drifts>>

\* fetch_exact_range for the next range; the body is saved create-only and the
\* saved file hashed against it.
Fetch(r) ==
  /\ pc[r] = "fetching"
  /\ Len(rows[r]) < Matrices
  /\ \E answer \in Answers :
       /\ Exact(answer)
       /\ tree' = [tree EXCEPT ![r].files = Append(@, answer)]
       /\ rows' = [rows EXCEPT ![r] = Append(@, answer)]
  /\ under' = [under EXCEPT ![r] = Append(@, [control |-> control, script |-> script])]
  /\ UNCHANGED <<control, script, lock, final, pc, seen, late, faults, drifts>>

\* Any answer but the exact 206, or a saved file that reads back differently.
FetchFails(r) ==
  /\ Goto(r, "fetching", "failing")
  /\ Len(rows[r]) < Matrices
  /\ UNCHANGED <<disk, seen, rows, observed>>

\* It names the freeze and the script that were read before the lock.
SourceLock(r) ==
  [control |-> seen[r].control, script |-> seen[r].script, bodies |-> rows[r]]

SealSourceLock(r) ==
  /\ Goto(r, "fetching", "sealed")
  /\ Len(rows[r]) = Matrices
  /\ tree' = [tree EXCEPT ![r].sourceLock = SourceLock(r)]
  /\ UNCHANGED <<control, script, lock, final, seen, rows, observed>>

\* A recheck that accepts any valid control chain.
ControlStillValid(r) == ControlHolds /\ script = seen[r].script

\* Controls and script are the ones that authorized the access.
ControlUnchanged(r) ==
  /\ ControlHolds
  /\ control = seen[r].control
  /\ script = seen[r].script

RecheckControl(r) ==
  /\ \/ Goto(r, "sealed", "rechecked") /\ ControlUnchanged(r)
     \/ Goto(r, "sealed", "failing") /\ ~ControlUnchanged(r)
  /\ UNCHANGED <<disk, seen, rows, observed>>

\* revalidate_staged_tree: the directory itself, the source lock, every file
\* it names, and no other file.
Genuine(r) ==
  /\ tree[r].root = "own"
  /\ tree[r].sourceLock = SourceLock(r)
  /\ tree[r].files = rows[r]
  /\ ~tree[r].stray

Revalidate(r) ==
  /\ \/ Goto(r, "rechecked", "revalidated") /\ Genuine(r)
     \/ Goto(r, "rechecked", "failing") /\ ~Genuine(r)
  /\ UNCHANGED <<disk, seen, rows, observed>>

-----------------------------------------------------------------------------
(* Publication                                                             *)

\* path_lexists(final_root), once more.
FindAbsent(r) ==
  /\ \/ Goto(r, "revalidated", "publishing") /\ final = None
     \/ Goto(r, "revalidated", "failing") /\ final # None
  /\ UNCHANGED <<disk, seen, rows, observed>>

Landing(r) == IF tree[r].root = "own" THEN r ELSE "foreign"

\* A publisher that clears the destination first.
RenameOver(r) ==
  /\ Goto(r, "publishing", "renamed")
  /\ final' = Landing(r)
  /\ UNCHANGED <<control, script, lock, tree, seen, rows, observed>>

\* renameat2 with RENAME_NOREPLACE.
Rename(r) ==
  /\ \/ Goto(r, "publishing", "renamed") /\ final = None /\ final' = Landing(r)
     \/ Goto(r, "publishing", "failing") /\ final # None /\ UNCHANGED final
  /\ UNCHANGED <<control, script, lock, tree, seen, rows, observed>>

\* A receipt for whatever stands at the final path.
ReceiptUnchecked(r) ==
  /\ Goto(r, "renamed", "releasing")
  /\ UNCHANGED <<disk, seen, rows, observed>>

\* The entry at the final path must be the staging directory.
Receipt(r) ==
  /\ \/ Goto(r, "renamed", "releasing") /\ final = r
     \/ Goto(r, "renamed", "failing") /\ final # r
  /\ UNCHANGED <<disk, seen, rows, observed>>

\* A failed launch that leaves its directory for a post-mortem.
CleanupSkipped(r) ==
  /\ Goto(r, "failing", "dropping")
  /\ UNCHANGED <<disk, seen, rows, observed>>

Fault(r, what) == faults' = faults \cup {<<r, what>>}

\* What safe_cleanup_directory removes: a staging directory that is still the
\* launch's own and still where it was.
Removable(r) == tree[r] # None /\ tree[r].root = "own" /\ final # r

\* It swallows every failure and interrupt, leaving the directory in whole or
\* in part.
Cleanup(r) ==
  /\ Goto(r, "failing", "dropping")
  /\ \/ ~Removable(r) /\ UNCHANGED <<tree, faults>>
     \/ Removable(r) /\ tree' = [tree EXCEPT ![r] = None] /\ UNCHANGED faults
     \/ Removable(r) /\ Fault(r, "staging") /\ UNCHANGED tree
  /\ UNCHANGED <<control, script, lock, final, seen, rows, under, late, drifts>>

\* safe_remove_lock removes the lock if it is the launch's own; it swallows
\* every failure as well.
Release(r) ==
  /\ \/ Goto(r, "releasing", "published")
     \/ Goto(r, "dropping", "failed")
  /\ \/ lock' = (IF lock = r THEN None ELSE lock) /\ UNCHANGED faults
     \/ Fault(r, "lock") /\ UNCHANGED lock
  /\ UNCHANGED <<control, script, final, tree, seen, rows, under, late, drifts>>

-----------------------------------------------------------------------------
(* What happens from outside                                               *)

Ended == {"failed", "published", "killed"}

Kill(r) ==
  /\ pc[r] \notin Ended \cup {"start"}
  /\ pc' = [pc EXCEPT ![r] = "killed"]
  /\ UNCHANGED <<disk, seen, rows, observed>>

\* Ctrl-C, or any error the steps above do not name.  Inside the try statement
\* the except and finally clauses run; the except clause clears the directory
\* only once its identity was taken, and before the try statement and within
\* the finally clause nothing removes the lock.
Interrupt(r) ==
  /\ \/ Goto(r, "checked", "failed") /\ UNCHANGED faults
     \/ Goto(r, "opened", "failed") /\ Fault(r, "lock")
     \/ Goto(r, "locked", "dropping") /\ UNCHANGED faults
     \/ Goto(r, "made", "dropping") /\ Fault(r, "staging")
     \/ /\ \E step \in {"fetching", "sealed", "rechecked", "revalidated", "publishing", "renamed"} :
             Goto(r, step, "failing")
        /\ UNCHANGED faults
     \/ \E step \in {"releasing", "dropping"} : Goto(r, step, "failed") /\ Fault(r, "lock")
  /\ UNCHANGED <<disk, seen, rows, under, late, drifts>>

Drift ==
  /\ drifts < MaxDrift
  /\ drifts' = drifts + 1
  /\ UNCHANGED <<lock, pc, seen, rows, under, faults>>

DriftControl ==
  /\ Drift
  /\ \E valid \in BOOLEAN : control' = [version |-> control.version + 1, valid |-> valid]
  /\ UNCHANGED <<script, final, tree, late>>

DriftScript ==
  /\ Drift
  /\ script' = script + 1
  /\ UNCHANGED <<control, final, tree, late>>

\* Somebody else makes an entry at the final path.
Occupy ==
  /\ Drift
  /\ final = None
  /\ final' = "foreign"
  /\ UNCHANGED <<control, script, tree, late>>

\* A staged file, the staged source lock or the directory itself is changed.
Tamper(r) ==
  /\ Drift
  /\ tree[r] # None
  /\ \/ \E m \in DOMAIN tree[r].files : tree' = [tree EXCEPT ![r].files[m] = Altered]
     \/ tree[r].sourceLock # None /\ tree' = [tree EXCEPT ![r].sourceLock.control = Broken]
     \/ tree' = [tree EXCEPT ![r].stray = TRUE]
  /\ late' = IF pc[r] \in {"revalidated", "publishing", "renamed", "releasing", "published"}
             THEN late \cup {r} ELSE late
  /\ UNCHANGED <<control, script, final>>

\* The staging directory is moved away and another put in its place.
Swap(r) ==
  /\ Drift
  /\ tree[r] # None
  /\ final # r
  /\ \E stray \in BOOLEAN : tree' = [tree EXCEPT ![r].root = "foreign", ![r].stray = stray]
  /\ UNCHANGED <<control, script, final, late>>

-----------------------------------------------------------------------------
Launch(r) ==
  \/ Check(r) \/ TakeLock(r) \/ EnterTry(r) \/ MakeStaging(r) \/ CaptureIdentity(r)
  \/ Fetch(r) \/ FetchFails(r) \/ SealSourceLock(r)
  \/ RecheckControl(r) \/ Revalidate(r) \/ FindAbsent(r) \/ Rename(r) \/ Receipt(r)
  \/ Cleanup(r) \/ Release(r)

Next ==
  \/ \E r \in Launches : Launch(r) \/ Kill(r) \/ Interrupt(r) \/ Tamper(r) \/ Swap(r)
  \/ DriftControl \/ DriftScript \/ Occupy

Spec == Init /\ [][Next]_vars

\* A started launch goes on; every request has a timeout.
FairSpec == Spec /\ \A r \in Launches : WF_vars(pc[r] # "start" /\ Launch(r))

-----------------------------------------------------------------------------
(* Properties                                                              *)

\* Every variable holds what its comment says, and no launch requests more
\* ranges than are sealed.
TypeOK ==
  /\ control \in Controls /\ script \in Nat
  /\ lock \in Launches \cup {None}
  /\ final \in Launches \cup {None, "foreign"}
  /\ tree \in [Launches -> Trees \cup {None}]
  /\ pc \in [Launches -> Ended \cup {"start", "checked", "opened", "locked", "made", "fetching",
                                    "sealed", "rechecked", "revalidated", "publishing", "renamed",
                                    "releasing", "failing", "dropping"}]
  /\ seen \in [Launches -> Readings \cup {None}]
  /\ rows \in [Launches -> Seq(Bodies)]
  /\ under \in [Launches -> Seq(Readings)]
  /\ \A r \in Launches : Len(rows[r]) <= Matrices /\ Len(under[r]) = Len(rows[r])
  /\ late \subseteq Launches /\ faults \subseteq Launches \X {"lock", "staging"}
  /\ drifts \in 0 .. MaxDrift

\* A launch that gave a receipt has published its own directory, with all the
\* bodies it received, each of the exact length, and the source lock it sealed
\* over them, unless the directory was changed after it was revalidated.
PublishedWhole ==
  \A r \in Launches :
    pc[r] \in {"releasing", "published"} =>
      /\ final = r
      /\ r \notin late =>
           /\ Genuine(r)
           /\ Len(tree[r].files) = Matrices
           /\ \A m \in 1 .. Matrices : Exact(tree[r].files[m])

\* Every published body was requested under the freeze, and with the script on
\* disk, that the receipt and the source lock name.
FetchedUnderFreeze ==
  \A r \in Launches :
    pc[r] \in {"releasing", "published"} =>
      \A m \in 1 .. Matrices : under[r][m] = seen[r]

\* The source is accessed by one launch at a time, and by none after a killed
\* one has left its lock.
AccessAlone ==
  \A r, s \in Launches :
    /\ pc[r] \notin Ended \cup {"start", "checked"}
    /\ r = s \/ pc[s] \notin Ended \cup {"start", "checked"}
    => r = s /\ lock = r

\* A launch that ends leaves no lock, and one that fails no staging directory,
\* unless another has been put in its place or it is published already, or the
\* clearing up was struck itself: it failed, was interrupted, or the interrupt
\* came while what it needs was not there yet.
NothingLeftBehind ==
  \A r \in Launches :
    /\ pc[r] \in {"failed", "published"} => lock # r \/ <<r, "lock">> \in faults
    /\ pc[r] = "failed" /\ tree[r] # None =>
         tree[r].root = "foreign" \/ final = r \/ <<r, "staging">> \in faults

\* What stands at the final path is never replaced or removed.
FinalOnce == [][final # None => final' = final]_vars

\* A started launch ends.
Terminates == \A r \in Launches : pc[r] # "start" ~> pc[r] \in Ended

=============================================================================
