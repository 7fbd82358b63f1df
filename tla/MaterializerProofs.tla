------------------------- MODULE MaterializerProofs -------------------------
(***************************************************************************)
(* Proofs about Materializer, for every number of launches and ranges and  *)
(* any number of changes from outside.                                     *)
(***************************************************************************)
EXTENDS Materializer, SequenceTheorems, TLAPS

Before == Ended \cup {"start", "checked"}
Preparing == {"opened", "locked", "made"}
Fetching == {"fetching", "sealed"}
Beyond == {"rechecked", "revalidated", "publishing", "renamed", "releasing"}
PCs == Before \cup Preparing \cup Fetching \cup Beyond \cup {"failing", "dropping"}

-----------------------------------------------------------------------------
(* One launch at a time                                                    *)

\* A launch that is past the lock owns it.
Locked ==
  /\ pc \in [Launches -> PCs]
  /\ \A r \in Launches : pc[r] \notin Before => lock = r

LEMMA LockedInit == Init => Locked
BY DEF Init, Locked, Before, PCs

\* A launch goes on without touching the lock, from inside the lock or not
\* into it.
LEMMA LockedMove ==
  ASSUME Locked, NEW r \in Launches, NEW to \in PCs,
         pc' = [pc EXCEPT ![r] = to], lock' = lock,
         pc[r] \notin Before \/ to \in Before
  PROVE  Locked'
BY DEF Locked

LEMMA LockedNext == Locked /\ [Next]_vars => Locked'
<1> SUFFICES ASSUME Locked, [Next]_vars PROVE Locked'
  OBVIOUS
<1> USE DEF disk
<1>1. ASSUME NEW r \in Launches, Launch(r) PROVE Locked'
  <2>1. CASE Check(r)
    <3>1. \E to \in Before : pc' = [pc EXCEPT ![r] = to]
      BY <2>1 DEF Check, Goto, Before, Ended
    <3> QED BY <2>1, <3>1, LockedMove DEF Check, PCs
  <2>2. CASE TakeLock(r)
    <3>1. CASE Goto(r, "checked", "opened") /\ ~LockHeld /\ lock' = r
      <4>1. \A s \in Launches : pc[s] \in Before
        BY <3>1, MaterializerAssumption DEF Locked, LockHeld
      <4> QED BY <3>1, <4>1 DEF Locked, Goto, PCs, Preparing
    <3>2. CASE Goto(r, "checked", "failed") /\ UNCHANGED lock
      BY <3>2, LockedMove DEF Goto, PCs, Before, Ended
    <3> QED BY <2>2, <3>1, <3>2 DEF TakeLock
  <2>3. CASE \/ EnterTry(r) \/ MakeStaging(r) \/ CaptureIdentity(r) \/ FetchFails(r)
             \/ SealSourceLock(r) \/ RecheckControl(r) \/ Revalidate(r) \/ FindAbsent(r)
             \/ Rename(r) \/ Receipt(r) \/ Cleanup(r)
    <3> DEFINE past == Preparing \cup Fetching \cup Beyond \cup {"failing", "dropping"}
    <3>1. \E from \in past, to \in past : Goto(r, from, to)
      BY <2>3 DEF EnterTry, MakeStaging, CaptureIdentity, FetchFails, SealSourceLock, RecheckControl,
         Revalidate, FindAbsent, Rename, Receipt, Cleanup, Preparing, Fetching, Beyond
    <3>2. lock' = lock
      BY <2>3 DEF EnterTry, MakeStaging, CaptureIdentity, FetchFails, SealSourceLock, RecheckControl,
         Revalidate, FindAbsent, Rename, Receipt, Cleanup
    <3>3. past \subseteq PCs /\ \A x \in past : x \notin Before
      BY DEF PCs, Before, Ended, Preparing, Fetching, Beyond
    <3> HIDE DEF past
    <3> QED BY <3>1, <3>2, <3>3, LockedMove DEF Goto
  <2>4. CASE Fetch(r)
    BY <2>4 DEF Fetch, Locked
  <2>5. CASE Release(r)
    <3>1. /\ pc[r] \notin Before
          /\ \E to \in {"published", "failed"} : pc' = [pc EXCEPT ![r] = to]
          /\ {"published", "failed"} \subseteq Before \cap PCs
      BY <2>5 DEF Release, Goto, Before, Ended, PCs
    <3>2. \A s \in Launches \ {r} : pc[s] \in Before
      BY <3>1 DEF Locked
    <3> QED BY <3>1, <3>2 DEF Locked
  <2> QED BY <1>1, <2>1, <2>2, <2>3, <2>4, <2>5 DEF Launch
<1>2. ASSUME NEW r \in Launches, Kill(r) \/ Interrupt(r) PROVE Locked'
  <2>1. PICK to \in {"killed", "failed", "dropping", "failing"} :
          /\ pc' = [pc EXCEPT ![r] = to] /\ lock' = lock
          /\ to \in {"killed", "failed"} \/ pc[r] \notin Before
    BY <1>2 DEF Kill, Interrupt, Goto, Before, Ended
  <2>2. {"killed", "failed"} \subseteq Before /\ to \in PCs
    BY DEF Before, PCs, Ended
  <2> QED BY <2>1, <2>2, LockedMove
<1>3. CASE UNCHANGED <<lock, pc>>
  BY <1>3 DEF Locked
<1>4. Next => (\E r \in Launches : Launch(r) \/ Kill(r) \/ Interrupt(r)) \/ UNCHANGED <<lock, pc>>
  BY DEF Next, Tamper, Swap, DriftControl, DriftScript, Occupy, Drift
<1> QED BY <1>1, <1>2, <1>3, <1>4 DEF vars

LEMMA LockedAlways == Spec => []Locked
BY LockedInit, LockedNext, PTL DEF Spec

\* However many launches there are, one at a time is past the lock.
THEOREM OneAccess == Spec => []AccessAlone
<1>1. Locked => AccessAlone
  BY DEF Locked, AccessAlone, Before
<1> QED BY <1>1, LockedAlways, PTL

-----------------------------------------------------------------------------
(* The freeze that authorized the access                                   *)

\* The steps after the recheck of the control chain.
Confirmed == Beyond \cup {"published"}

\* Each version of the control chain is one content, and versions only grow:
\* what was read is not newer than what is there, and the same if as new.
NotNewer(x) ==
  /\ x \in Readings
  /\ x.control.version <= control.version
  /\ x.control.version = control.version => x.control = control
  /\ x.script <= script

Typed ==
  /\ pc \in [Launches -> PCs]
  /\ control \in Controls /\ script \in Nat
  /\ seen \in [Launches -> Readings \cup {None}]
  /\ under \in [Launches -> Seq(Readings)]
  /\ rows \in [Launches -> Seq(Bodies)]

\* A launch's requests were made under versions from the ones it read to the
\* present ones; once the recheck found the former still there, under those.
Accounted(r) ==
  /\ Len(rows[r]) = Len(under[r])
  /\ pc[r] \in {"checked"} \cup Preparing \cup Fetching \cup Confirmed => NotNewer(seen[r])
  /\ pc[r] \in {"start", "checked"} \cup Preparing => Len(under[r]) = 0
  /\ pc[r] \in Fetching =>
       \A m \in 1 .. Len(under[r]) :
         /\ NotNewer(under[r][m])
         /\ seen[r].control.version <= under[r][m].control.version
         /\ seen[r].script <= under[r][m].script
  /\ pc[r] \in {"sealed"} \cup Confirmed => Len(under[r]) = Matrices
  /\ pc[r] \in Confirmed => \A m \in 1 .. Len(under[r]) : under[r][m] = seen[r]

Authorized == Typed /\ \A r \in Launches : Accounted(r)

LEMMA AuthorizedInit == Init => Authorized
<1> SUFFICES ASSUME Init PROVE Authorized
  OBVIOUS
<1>1. Typed
  BY DEF Init, Typed, Controls, PCs, Before, Ended
<1>2. ASSUME NEW r \in Launches PROVE Accounted(r)
  BY DEF Init, Accounted, Preparing, Fetching, Confirmed, Beyond
<1> QED BY <1>1, <1>2 DEF Authorized

\* The account of a launch that does not move stays in order, as long as the
\* control chain and the script do.
LEMMA AccountKept ==
  ASSUME NEW s \in Launches, Accounted(s), control' = control, script' = script, pc'[s] = pc[s],
         seen'[s] = seen[s], under'[s] = under[s], rows'[s] = rows[s]
  PROVE  Accounted(s)'
BY DEF Accounted, NotNewer

\* A step of one launch is only about that launch's account.
LEMMA AuthorizedStep ==
  ASSUME Authorized, NEW r \in Launches, NEW to \in PCs,
         UNCHANGED <<control, script>>, pc' = [pc EXCEPT ![r] = to],
         \/ UNCHANGED seen
         \/ \E reading \in Readings : seen' = [seen EXCEPT ![r] = reading],
         \/ UNCHANGED <<rows, under>>
         \/ \E body \in Bodies :
              /\ rows' = [rows EXCEPT ![r] = Append(@, body)]
              /\ under' = [under EXCEPT ![r] = Append(@, [control |-> control, script |-> script])],
         Accounted(r)'
  PROVE  Authorized'
<1>1. Typed
  BY DEF Authorized
<1>2. pc' \in [Launches -> PCs] /\ seen' \in [Launches -> Readings \cup {None}]
  BY <1>1 DEF Typed
<1>3. under' \in [Launches -> Seq(Readings)] /\ rows' \in [Launches -> Seq(Bodies)]
  <2>1. CASE UNCHANGED <<rows, under>>
    BY <1>1, <2>1 DEF Typed
  <2>2. ASSUME NEW body \in Bodies, rows' = [rows EXCEPT ![r] = Append(@, body)],
               under' = [under EXCEPT ![r] = Append(@, [control |-> control, script |-> script])]
        PROVE  under' \in [Launches -> Seq(Readings)] /\ rows' \in [Launches -> Seq(Bodies)]
    <3>1. [control |-> control, script |-> script] \in Readings
      BY <1>1 DEF Typed, Readings
    <3>2. /\ Append(rows[r], body) \in Seq(Bodies)
          /\ Append(under[r], [control |-> control, script |-> script]) \in Seq(Readings)
      BY <1>1, <3>1 DEF Typed
    <3> QED BY <1>1, <2>2, <3>2 DEF Typed
  <2> QED BY <2>1, <2>2
<1>4. Typed'
  BY <1>1, <1>2, <1>3 DEF Typed
<1>5. ASSUME NEW s \in Launches \ {r} PROVE Accounted(s)'
  <2>1. pc'[s] = pc[s] /\ seen'[s] = seen[s] /\ under'[s] = under[s] /\ rows'[s] = rows[s]
    BY <1>1 DEF Typed
  <2>2. Accounted(s)
    BY DEF Authorized
  <2> QED BY <2>1, <2>2, AccountKept
<1> QED BY <1>4, <1>5 DEF Authorized

\* A step that only moves a launch, to a place that demands no more.
LEMMA AuthorizedMove ==
  ASSUME Authorized, NEW r \in Launches, NEW to \in PCs,
         pc' = [pc EXCEPT ![r] = to],
         UNCHANGED <<control, script, seen, rows, under>>,
         \/ to \in {"failing", "dropping", "failed", "killed"}
         \/ pc[r] \in {"checked"} \cup Preparing /\ to \in Preparing \cup {"fetching"}
         \/ pc[r] \in Confirmed /\ to \in Confirmed
  PROVE  Authorized'
<1>1. Accounted(r) /\ pc'[r] = to
  BY DEF Authorized, Typed
<1>2. Accounted(r)'
  <2>1. CASE to \in {"failing", "dropping", "failed", "killed"}
    BY <1>1, <2>1 DEF Accounted, Preparing, Fetching, Confirmed, Beyond
  <2>2. CASE pc[r] \in {"checked"} \cup Preparing /\ to \in Preparing \cup {"fetching"}
    BY <1>1, <2>2 DEF Accounted, NotNewer, Preparing, Fetching, Confirmed, Beyond
  <2>3. CASE pc[r] \in Confirmed /\ to \in Confirmed
    <3>1. \A x \in Confirmed : x \notin Fetching /\ x \notin {"start", "checked"} \cup Preparing
      BY DEF Confirmed, Beyond, Preparing, Fetching
    <3> QED BY <1>1, <2>3, <3>1 DEF Accounted, NotNewer
  <2> QED BY <2>1, <2>2, <2>3
<1> QED BY <1>2, AuthorizedStep

LEMMA AuthorizedCheck ==
  ASSUME Authorized, NEW r \in Launches, Check(r)
  PROVE  Authorized'
<1> USE DEF disk, observed
<1>1. CASE Goto(r, "start", "failed") /\ UNCHANGED seen
  BY <1>1, AuthorizedMove DEF Check, Goto, Ended, PCs, Before
<1>2. CASE /\ Goto(r, "start", "checked")
           /\ seen' = [seen EXCEPT ![r] = [control |-> control, script |-> script]]
  <2> DEFINE reading == [control |-> control, script |-> script]
  <2>1. UNCHANGED <<control, script, rows, under>> /\ pc[r] = "start"
        /\ pc' = [pc EXCEPT ![r] = "checked"]
    BY <1>2 DEF Check, Goto, observed
  <2>2. reading \in Readings /\ NotNewer(reading)
    BY DEF NotNewer, Authorized, Typed, Readings, Controls
  <2>3. pc'[r] = "checked" /\ seen'[r] = reading
    BY <1>2, <2>1 DEF Authorized, Typed
  <2>4. Accounted(r)
    BY DEF Authorized
  <2>5. NotNewer(seen[r])'
    <3> HIDE DEF reading
    <3> QED BY <2>1, <2>2, <2>3 DEF NotNewer
  <2>6. Accounted(r)'
    BY <2>1, <2>3, <2>4, <2>5 DEF Accounted, Preparing, Fetching, Confirmed, Beyond
  <2> QED BY <1>2, <2>1, <2>2, <2>6, AuthorizedStep DEF PCs, Before
<1> QED BY <1>1, <1>2 DEF Check

LEMMA AuthorizedFetch ==
  ASSUME Authorized, NEW r \in Launches, Fetch(r)
  PROVE  Authorized'
<1> DEFINE reading == [control |-> control, script |-> script]
<1>1. PICK body \in Bodies : rows' = [rows EXCEPT ![r] = Append(@, body)]
  BY DEF Fetch, Answers, Exact
<1>2. /\ UNCHANGED <<control, script, seen, pc>>
      /\ under' = [under EXCEPT ![r] = Append(@, reading)]
      /\ pc[r] = "fetching"
  BY DEF Fetch
<1>3. Typed /\ Accounted(r)
  BY DEF Authorized
<1>4. /\ under[r] \in Seq(Readings) /\ rows[r] \in Seq(Bodies)
      /\ reading \in Readings /\ NotNewer(reading)
  BY <1>3 DEF Typed, Readings, NotNewer, Controls
<1>5. NotNewer(seen[r])
  BY <1>2, <1>3 DEF Accounted, Fetching
<1>6. seen[r].control.version <= reading.control.version /\ seen[r].script <= reading.script
  BY <1>5 DEF NotNewer
<1> HIDE DEF reading
<1>7. under'[r] = Append(under[r], reading) /\ rows'[r] = Append(rows[r], body)
  BY <1>1, <1>2, <1>3 DEF Typed
<1>8. Len(rows'[r]) = Len(under'[r])
  BY <1>3, <1>4, <1>7 DEF Accounted
<1>9. \A m \in 1 .. Len(under'[r]) :
        /\ NotNewer(under'[r][m])
        /\ seen[r].control.version <= under'[r][m].control.version
        /\ seen[r].script <= under'[r][m].script
  <2>1. \A m \in 1 .. Len(under[r]) :
          /\ NotNewer(under[r][m])
          /\ seen[r].control.version <= under[r][m].control.version
          /\ seen[r].script <= under[r][m].script
    BY <1>2, <1>3 DEF Accounted, Fetching
  <2>2. \A m \in 1 .. Len(under'[r]) :
          under'[r][m] = reading \/ (m \in 1 .. Len(under[r]) /\ under'[r][m] = under[r][m])
    BY <1>4, <1>7
  <2> QED BY <1>4, <1>6, <2>1, <2>2
<1>10. "fetching" \notin {"start", "checked"} \cup Preparing /\ "fetching" \notin Confirmed
       /\ "fetching" \in PCs /\ "fetching" # "sealed"
  BY DEF Confirmed, Beyond, PCs, Preparing, Fetching
<1>11. Accounted(r)'
  BY <1>2, <1>5, <1>8, <1>9, <1>10 DEF Accounted, NotNewer
<1>12. pc' = [pc EXCEPT ![r] = "fetching"]
  BY <1>2, <1>3 DEF Typed
<1> QED BY <1>1, <1>2, <1>10, <1>11, <1>12, AuthorizedStep DEF reading

LEMMA AuthorizedSeal ==
  ASSUME Authorized, NEW r \in Launches, SealSourceLock(r)
  PROVE  Authorized'
<1>1. /\ UNCHANGED <<control, script, seen, rows, under>>
      /\ pc[r] = "fetching" /\ pc' = [pc EXCEPT ![r] = "sealed"]
      /\ Len(rows[r]) = Matrices
  BY DEF SealSourceLock, Goto, observed
<1>2. Accounted(r) /\ pc'[r] = "sealed"
  BY <1>1 DEF Authorized, Typed
<1>3. Accounted(r)'
  BY <1>1, <1>2 DEF Accounted, NotNewer, Preparing, Fetching, Confirmed, Beyond
<1> QED BY <1>1, <1>3, AuthorizedStep DEF PCs, Fetching

\* The recheck: between the freeze that was seen and the same freeze found
\* again, no request can have been made under another one.
LEMMA AuthorizedRecheck ==
  ASSUME Authorized, NEW r \in Launches, RecheckControl(r)
  PROVE  Authorized'
<1>1. UNCHANGED <<control, script, seen, rows, under>>
  BY DEF RecheckControl, disk, observed
<1>2. CASE Goto(r, "sealed", "failing")
  BY <1>1, <1>2, AuthorizedMove DEF Goto, PCs
<1>3. CASE Goto(r, "sealed", "rechecked") /\ ControlUnchanged(r)
  <2>1. /\ pc[r] = "sealed" /\ pc' = [pc EXCEPT ![r] = "rechecked"]
        /\ control = seen[r].control /\ script = seen[r].script
    BY <1>3 DEF Goto, ControlUnchanged
  <2>2. Typed /\ Accounted(r) /\ seen[r] \in Readings
    BY <2>1 DEF Authorized, Accounted, NotNewer, Fetching
  <2>3. \A m \in 1 .. Len(under[r]) : under[r][m] = seen[r]
    <3>1. \A m \in 1 .. Len(under[r]) :
            /\ NotNewer(under[r][m])
            /\ control.version <= under[r][m].control.version /\ script <= under[r][m].script
      BY <2>1, <2>2 DEF Accounted, Fetching
    <3>2. ASSUME NEW x, NotNewer(x), control.version <= x.control.version, script <= x.script
          PROVE  x = seen[r]
      <4>1. x.control = seen[r].control /\ x.script = seen[r].script
        BY <2>1, <2>2, <3>2 DEF NotNewer, Typed, Readings, Controls
      <4> QED BY <2>2, <3>2, <4>1 DEF NotNewer, Readings
    <3> QED BY <3>1, <3>2
  <2>4. pc'[r] = "rechecked"
    BY <2>1, <2>2 DEF Typed
  <2>5. Accounted(r)'
    BY <1>1, <2>1, <2>2, <2>3, <2>4 DEF Accounted, NotNewer, Preparing, Fetching, Confirmed, Beyond
  <2> QED BY <1>1, <2>1, <2>5, AuthorizedStep DEF PCs, Beyond
<1> QED BY <1>2, <1>3 DEF RecheckControl

LEMMA AuthorizedDrift ==
  ASSUME Authorized, DriftControl \/ DriftScript
  PROVE  Authorized'
<1>1. /\ UNCHANGED <<seen, rows, under, pc>>
      /\ control' \in Controls /\ script' \in Nat
      /\ \/ control'.version = control.version + 1 /\ script' = script
         \/ control' = control /\ script' = script + 1
  BY DEF DriftControl, DriftScript, Drift, Authorized, Typed, Controls
<1>2. \A x : NotNewer(x) => NotNewer(x)'
  BY <1>1 DEF NotNewer, Authorized, Typed, Readings, Controls
<1>3. ASSUME NEW r \in Launches PROVE Accounted(r)'
  <2>1. Accounted(r)
    BY DEF Authorized
  <2> QED BY <1>1, <1>2, <2>1 DEF Accounted
<1>4. Typed'
  BY <1>1 DEF Authorized, Typed
<1> QED BY <1>3, <1>4 DEF Authorized

LEMMA AuthorizedNext == Authorized /\ [Next]_vars => Authorized'
<1> SUFFICES ASSUME Authorized, [Next]_vars PROVE Authorized'
  OBVIOUS
<1>1. ASSUME NEW r \in Launches, Launch(r) PROVE Authorized'
  <2>1. CASE \/ TakeLock(r) \/ EnterTry(r) \/ MakeStaging(r) \/ CaptureIdentity(r)
             \/ FetchFails(r) \/ Revalidate(r) \/ FindAbsent(r)
             \/ Rename(r) \/ Receipt(r) \/ Cleanup(r) \/ Release(r)
    <3>1. UNCHANGED <<control, script, seen, rows, under>>
      BY <2>1 DEF TakeLock, EnterTry, MakeStaging, CaptureIdentity, FetchFails, Revalidate,
         FindAbsent, Rename, Receipt, Cleanup, Release, disk, observed
    <3>2. \E from \in PCs, to \in PCs :
            /\ pc[r] = from /\ pc' = [pc EXCEPT ![r] = to]
            /\ \/ to \in {"failing", "dropping", "failed", "killed"}
               \/ from \in {"checked"} \cup Preparing /\ to \in Preparing \cup {"fetching"}
               \/ from \in Confirmed /\ to \in Confirmed
      BY <2>1 DEF TakeLock, EnterTry, MakeStaging, CaptureIdentity, FetchFails, Revalidate,
         FindAbsent, Rename, Receipt, Cleanup, Release, Goto, Confirmed, Beyond, Preparing,
         Fetching, Ended, PCs, Before
    <3> QED BY <3>1, <3>2, AuthorizedMove
  <2> QED
    BY <1>1, <2>1, AuthorizedCheck, AuthorizedFetch, AuthorizedSeal, AuthorizedRecheck DEF Launch
<1>2. ASSUME NEW r \in Launches, Kill(r) \/ Interrupt(r) PROVE Authorized'
  <2>1. /\ UNCHANGED <<control, script, seen, rows, under>>
        /\ \E to \in {"killed", "failed", "dropping", "failing"} : pc' = [pc EXCEPT ![r] = to]
    BY <1>2 DEF Kill, Interrupt, Goto, disk, observed
  <2> QED BY <2>1, AuthorizedMove DEF Ended, PCs, Before
<1>3. CASE UNCHANGED <<control, script, seen, rows, under, pc>>
  <2>1. ASSUME NEW r \in Launches PROVE Accounted(r)'
    BY <1>3, AccountKept DEF Authorized
  <2> QED BY <1>3, <2>1 DEF Authorized, Typed
<1>4. Next => \/ \E r \in Launches : Launch(r) \/ Kill(r) \/ Interrupt(r)
              \/ DriftControl \/ DriftScript
              \/ UNCHANGED <<control, script, seen, rows, under, pc>>
  BY DEF Next, Tamper, Swap, Occupy, Drift
<1> QED BY <1>1, <1>2, <1>3, <1>4, AuthorizedDrift DEF vars, disk, observed

\* Every published body was requested under the freeze, and with the script on
\* disk, that the receipt and the source lock name.
THEOREM OneFreeze == Spec => []FetchedUnderFreeze
<1>1. Spec => []Authorized
  BY AuthorizedInit, AuthorizedNext, PTL DEF Spec
<1>2. Authorized => FetchedUnderFreeze
  BY DEF Authorized, Accounted, FetchedUnderFreeze, Confirmed, Beyond
<1> QED BY <1>1, <1>2, PTL

-----------------------------------------------------------------------------
(* What is published, and what is left behind                              *)

\* The parts of the type invariant that Typed leaves out.
Shape ==
  /\ lock \in Launches \cup {None}
  /\ final \in Launches \cup {None, "foreign"}
  /\ tree \in [Launches -> Trees \cup {None}]
  /\ \A r \in Launches : Len(rows[r]) <= Matrices
  /\ late \subseteq Launches /\ faults \subseteq Launches \X {"lock", "staging"}
  /\ drifts \in 0 .. MaxDrift

LEMMA TypeParts == Authorized /\ Shape => TypeOK
BY DEF Authorized, Typed, Accounted, Shape, TypeOK, PCs, Before, Preparing, Fetching, Beyond, Ended

\* From the revalidation on, a directory nobody changed is as it was sealed.
Validated == {"revalidated", "publishing", "renamed", "releasing", "published"}
Sound(r) ==
  /\ tree[r].sourceLock = SourceLock(r)
  /\ tree[r].files = rows[r]
  /\ ~tree[r].stray

\* Where a launch is tells what it has on disk.
Kept(r) ==
  /\ pc[r] \in {"start", "checked", "opened", "locked"} => tree[r] = None
  /\ pc[r] \in {"made"} \cup Fetching \cup Confirmed => tree[r] # None
  /\ final = r => tree[r] # None /\ tree[r].root = "own"
  /\ pc[r] \in Validated /\ r \notin late /\ tree[r].root = "own" => Sound(r)
  /\ pc[r] \in {"releasing", "published"} => final = r
  /\ pc[r] \in {"dropping", "failed"} =>
       tree[r] = None \/ tree[r].root = "foreign" \/ final = r \/ <<r, "staging">> \in faults
  /\ lock = r => pc[r] \notin {"start", "checked"}
  /\ lock = r /\ pc[r] \in {"published", "failed"} => <<r, "lock">> \in faults

Whole == Shape /\ \A r \in Launches : Kept(r)

LEMMA WholeInit == Init => Whole
<1> SUFFICES ASSUME Init PROVE Whole
  OBVIOUS
<1>1. Shape
  BY MaterializerAssumption DEF Init, Shape
<1>2. ASSUME NEW r \in Launches PROVE Kept(r)
  BY MaterializerAssumption DEF Init, Kept, Fetching, Confirmed, Beyond, Validated
<1> QED BY <1>1, <1>2 DEF Whole

\* A launch whose own state and directory stay as they are.
LEMMA KeptStill ==
  ASSUME NEW s \in Launches, Kept(s),
         UNCHANGED <<pc[s], tree[s], seen[s], rows[s]>>,
         s \in late => s \in late', faults \subseteq faults',
         final' = final \/ (final = None /\ final' # s),
         lock' = lock \/ lock' # s
  PROVE  Kept(s)'
<1>1. final = s <=> final' = s
  BY MaterializerAssumption
<1> QED BY <1>1 DEF Kept, Sound, SourceLock

\* A step of one launch that leaves its directory alone.
LEMMA KeptMove ==
  ASSUME Authorized, Whole, NEW r \in Launches, NEW to \in PCs,
         pc' = [pc EXCEPT ![r] = to],
         UNCHANGED <<tree, rows, final, late, drifts>>,
         faults' = faults \/ (\E what \in {"lock", "staging"} : Fault(r, what)),
         \A s \in Launches \ {r} : seen'[s] = seen[s],
         lock' = lock \/ lock' = r \/ lock' = None,
         Kept(r)'
  PROVE  Whole'
<1>1. faults \subseteq faults' /\ faults' \subseteq Launches \X {"lock", "staging"}
  BY DEF Fault, Whole, Shape
<1>2. ASSUME NEW s \in Launches \ {r} PROVE Kept(s)'
  <2>1. pc'[s] = pc[s]
    BY DEF Authorized, Typed
  <2>2. lock' = lock \/ lock' # s
    BY MaterializerAssumption
  <2> QED BY <1>1, <2>1, <2>2, KeptStill DEF Whole
<1>3. Shape'
  BY <1>1 DEF Whole, Shape
<1> QED BY <1>2, <1>3 DEF Whole

\* A step of one launch within its directory.
LEMMA KeptWork ==
  ASSUME Authorized, Whole, NEW r \in Launches, NEW to \in PCs, NEW new \in Trees \cup {None},
         pc' = [pc EXCEPT ![r] = to], tree' = [tree EXCEPT ![r] = new],
         UNCHANGED <<lock, final, late, faults, drifts, seen>>,
         \A s \in Launches \ {r} : rows'[s] = rows[s],
         Len(rows'[r]) <= Matrices,
         Kept(r)'
  PROVE  Whole'
<1>1. ASSUME NEW s \in Launches \ {r} PROVE Kept(s)'
  <2>1. pc'[s] = pc[s] /\ tree'[s] = tree[s]
    BY DEF Authorized, Typed, Whole, Shape
  <2> QED BY <2>1, KeptStill DEF Whole
<1>2. Shape'
  <2>1. \A s \in Launches : Len(rows'[s]) <= Matrices
    BY DEF Whole, Shape
  <2>2. tree' \in [Launches -> Trees \cup {None}]
    BY DEF Whole, Shape
  <2> QED BY <2>1, <2>2 DEF Whole, Shape
<1> QED BY <1>1, <1>2 DEF Whole

LEMMA WholeLaunch ==
  ASSUME Authorized, Whole, NEW r \in Launches, Launch(r)
  PROVE  Whole'
<1> USE DEF disk, observed
<1>0. Kept(r) /\ pc \in [Launches -> PCs] /\ tree[r] \in Trees \cup {None}
  BY DEF Authorized, Typed, Whole, Shape
<1>1. CASE Check(r)
  <2>1. PICK to \in {"checked", "failed"} : Goto(r, "start", to)
    BY <1>1 DEF Check
  <2>2. Kept(r)'
    BY <1>0, <1>1, <2>1 DEF Check, Goto, Kept, Fetching, Confirmed, Beyond, Validated
  <2>3. \A s \in Launches \ {r} : seen'[s] = seen[s]
    BY <1>1 DEF Check, Authorized, Typed
  <2> QED BY <1>1, <2>1, <2>2, <2>3, KeptMove DEF Check, Goto, PCs, Before, Ended
<1>2. CASE TakeLock(r)
  <2>1. PICK to \in {"opened", "failed"} : Goto(r, "checked", to)
    BY <1>2 DEF TakeLock
  <2>2. Kept(r)'
    BY <1>0, <1>2, <2>1 DEF TakeLock, Goto, Kept, Fetching, Confirmed, Beyond, Validated
  <2> QED BY <1>2, <2>1, <2>2, KeptMove DEF TakeLock, Goto, PCs, Before, Ended, Preparing
<1>3. CASE MakeStaging(r)
  <2> DEFINE new == [root |-> "own", files |-> <<>>, sourceLock |-> None, stray |-> FALSE]
  <2>1. new \in Trees
    BY DEF Trees
  <2>2. pc'[r] = "made" /\ tree'[r] = new /\ new # None
    BY <1>0, <1>3, <2>1, MaterializerAssumption DEF MakeStaging, Goto, Whole, Shape
  <2>3. Kept(r)'
    BY <1>0, <1>3, <2>2 DEF MakeStaging, Goto, Kept, Fetching, Confirmed, Beyond, Validated
  <2>4. Len(rows'[r]) <= Matrices
    BY <1>3 DEF MakeStaging, Whole, Shape
  <2> QED BY <1>3, <2>1, <2>3, <2>4, KeptWork DEF MakeStaging, Goto, PCs, Preparing
<1>4. CASE Fetch(r)
  <2>1. PICK body \in Bodies : /\ tree' = [tree EXCEPT ![r].files = Append(@, body)]
                               /\ rows' = [rows EXCEPT ![r] = Append(@, body)]
    BY <1>4 DEF Fetch, Answers, Exact
  <2> DEFINE new == [tree[r] EXCEPT !.files = Append(@, body)]
  <2>2. tree[r] \in Trees
    BY <1>0, <1>4 DEF Fetch, Kept, Fetching
  <2>3. new \in Trees /\ new.root = tree[r].root
    <3>1. /\ tree[r].root \in {"own", "foreign"} /\ tree[r].stray \in BOOLEAN
          /\ tree[r].files \in Seq(Bodies \cup {Altered})
      BY <2>2 DEF Trees
    <3>2. Append(tree[r].files, body) \in Seq(Bodies \cup {Altered})
      BY <3>1
    <3> QED BY <2>2, <3>1, <3>2 DEF Trees
  <2>4. pc' = [pc EXCEPT ![r] = "fetching"] /\ pc[r] = "fetching"
    BY <1>0, <1>4 DEF Fetch
  <2>5. tree' = [tree EXCEPT ![r] = new] /\ tree'[r] = new /\ new # None
    BY <1>0, <2>1, <2>3, MaterializerAssumption DEF Whole, Shape
  <2>6. rows'[r] = Append(rows[r], body) /\ \A s \in Launches \ {r} : rows'[s] = rows[s]
    BY <2>1 DEF Authorized, Typed
  <2>7. Len(rows'[r]) <= Matrices
    BY <1>4, <2>6, MaterializerAssumption DEF Fetch, Authorized, Typed
  <2>8. Kept(r)'
    BY <1>0, <1>4, <2>3, <2>4, <2>5 DEF Fetch, Kept, Fetching, Confirmed, Beyond, Validated
  <2> QED BY <1>4, <2>3, <2>4, <2>5, <2>6, <2>7, <2>8, KeptWork DEF Fetch, PCs, Fetching
<1>5. CASE SealSourceLock(r)
  <2> DEFINE new == [tree[r] EXCEPT !.sourceLock = SourceLock(r)]
  <2>1. tree[r] \in Trees
    BY <1>0, <1>5 DEF SealSourceLock, Goto, Kept, Fetching
  <2>2. SourceLock(r) \in [control : Controls, script : Nat, bodies : Seq(Bodies)]
    <3>1. seen[r] \in Readings /\ rows[r] \in Seq(Bodies)
      BY <1>5 DEF SealSourceLock, Goto, Authorized, Typed, Accounted, NotNewer, Fetching
    <3> QED BY <3>1 DEF SourceLock, Readings
  <2>3. new \in Trees /\ new.root = tree[r].root
    BY <2>1, <2>2 DEF Trees
  <2>4. /\ pc' = [pc EXCEPT ![r] = "sealed"] /\ pc[r] = "fetching" /\ pc'[r] = "sealed"
        /\ tree' = [tree EXCEPT ![r] = new] /\ tree'[r] = new /\ new # None
    BY <1>0, <1>5, <2>3, MaterializerAssumption DEF SealSourceLock, Goto, Whole, Shape
  <2>5. Kept(r)'
    BY <1>0, <1>5, <2>3, <2>4 DEF SealSourceLock, Kept, Fetching, Confirmed, Beyond, Validated
  <2>6. Len(rows'[r]) <= Matrices
    BY <1>5 DEF SealSourceLock, Whole, Shape
  <2> QED BY <1>5, <2>3, <2>4, <2>5, <2>6, KeptWork DEF SealSourceLock, PCs, Fetching
<1>6. CASE FetchFails(r) \/ RecheckControl(r) \/ Revalidate(r) \/ FindAbsent(r) \/ Receipt(r)
  <2>1. UNCHANGED <<lock, tree, rows, final, late, faults, drifts, seen>>
    BY <1>6 DEF FetchFails, RecheckControl, Revalidate, FindAbsent, Receipt
  <2>2. PICK from \in Fetching \cup Confirmed, to \in {"rechecked", "revalidated", "publishing", "releasing", "failing"} :
          Goto(r, from, to)
    BY <1>6 DEF FetchFails, RecheckControl, Revalidate, FindAbsent, Receipt, Fetching, Confirmed, Beyond
  <2>3. to = "revalidated" => Genuine(r) /\ from = "rechecked"
    BY <1>0, <1>6, <2>2 DEF FetchFails, RecheckControl, Revalidate, FindAbsent, Receipt, Goto
  <2>4. to = "publishing" => from = "revalidated"
    BY <1>0, <1>6, <2>2 DEF FetchFails, RecheckControl, Revalidate, FindAbsent, Receipt, Goto
  <2>5. to = "releasing" => from = "renamed" /\ final = r
    BY <1>0, <1>6, <2>2 DEF FetchFails, RecheckControl, Revalidate, FindAbsent, Receipt, Goto
  <2>6. pc[r] = from /\ pc'[r] = to /\ pc' = [pc EXCEPT ![r] = to] /\ to \in PCs
    BY <1>0, <2>2 DEF Goto, PCs, Beyond
  <2>7. Kept(r)'
    BY <1>0, <2>1, <2>3, <2>4, <2>5, <2>6
    DEF Kept, Sound, SourceLock, Genuine, Fetching, Confirmed, Beyond, Validated
  <2> QED BY <2>1, <2>6, <2>7, KeptMove
<1>7. CASE Rename(r)
  <2>1. CASE Goto(r, "publishing", "failing") /\ UNCHANGED final
    <3>1. Kept(r)'
      BY <1>0, <1>7, <2>1 DEF Rename, Goto, Kept, Fetching, Confirmed, Beyond, Validated
    <3> QED BY <1>7, <2>1, <3>1, KeptMove DEF Rename, Goto, PCs
  <2>2. CASE Goto(r, "publishing", "renamed") /\ final = None /\ final' = Landing(r)
    <3>1. /\ pc[r] = "publishing" /\ pc'[r] = "renamed"
          /\ \A s \in Launches \ {r} : pc'[s] = pc[s]
          /\ UNCHANGED <<tree, seen, rows, late, faults, lock, drifts>>
      BY <1>0, <1>7, <2>2 DEF Rename, Goto
    <3>2. final' \in {r, "foreign"} /\ (final' = r => tree[r].root = "own")
      BY <2>2, MaterializerAssumption DEF Landing
    <3>3. Kept(r)'
      BY <1>0, <3>1, <3>2 DEF Kept, Sound, SourceLock, Fetching, Confirmed, Beyond, Validated
    <3>4. ASSUME NEW s \in Launches \ {r} PROVE Kept(s)'
      BY <2>2, <3>1, <3>2, KeptStill, MaterializerAssumption DEF Whole
    <3>5. Shape'
      BY <3>1, <3>2 DEF Whole, Shape
    <3> QED BY <3>3, <3>4, <3>5 DEF Whole
  <2> QED BY <1>7, <2>1, <2>2 DEF Rename
<1>8. CASE Cleanup(r)
  <2>1. /\ pc[r] = "failing" /\ pc'[r] = "dropping" /\ pc' = [pc EXCEPT ![r] = "dropping"]
        /\ UNCHANGED <<lock, rows, final, late, drifts, seen>>
    BY <1>0, <1>8 DEF Cleanup, Goto
  <2>2. CASE tree' = [tree EXCEPT ![r] = None] /\ UNCHANGED faults /\ Removable(r)
    <3>1. tree'[r] = None /\ final # r
      BY <2>2 DEF Removable, Whole, Shape
    <3>2. Kept(r)'
      BY <1>0, <2>1, <2>2, <3>1 DEF Kept, Fetching, Confirmed, Beyond, Validated
    <3>3. Len(rows'[r]) <= Matrices
      BY <2>1 DEF Whole, Shape
    <3> QED BY <2>1, <2>2, <3>2, <3>3, KeptWork DEF PCs
  <2>3. CASE UNCHANGED tree /\ (Fault(r, "staging") \/ (~Removable(r) /\ UNCHANGED faults))
    <3>1. \/ tree[r] = None \/ tree[r].root = "foreign" \/ final = r
          \/ <<r, "staging">> \in faults'
      BY <1>0, <2>3 DEF Trees, Removable, Fault
    <3>2. Kept(r)'
      BY <1>0, <2>1, <2>3, <3>1 DEF Kept, Fetching, Confirmed, Beyond, Validated
    <3> QED BY <2>1, <2>3, <3>2, KeptMove DEF PCs
  <2> QED BY <1>8, <2>2, <2>3 DEF Cleanup
<1>9. CASE Release(r)
  <2>1. /\ UNCHANGED <<tree, rows, final, late, drifts, seen>>
        /\ lock' = lock \/ lock' = None
        /\ (lock' # r /\ UNCHANGED faults) \/ Fault(r, "lock")
    BY <1>9, MaterializerAssumption DEF Release
  <2>2. PICK from \in {"releasing", "dropping"}, to \in {"published", "failed"} :
          /\ Goto(r, from, to)
          /\ from = "releasing" <=> to = "published"
    BY <1>9 DEF Release
  <2>3. pc[r] = from /\ pc'[r] = to /\ pc' = [pc EXCEPT ![r] = to]
    BY <1>0, <2>2 DEF Goto
  <2>4. Kept(r)'
    BY <1>0, <2>1, <2>2, <2>3
    DEF Kept, Fault, Sound, SourceLock, Fetching, Confirmed, Beyond, Validated
  <2> QED BY <2>1, <2>3, <2>4, KeptMove DEF PCs, Before, Ended
<1>10. CASE EnterTry(r)
  <2>1. /\ UNCHANGED <<lock, tree, rows, final, late, faults, drifts, seen>>
        /\ pc[r] = "opened" /\ pc' = [pc EXCEPT ![r] = "locked"] /\ pc'[r] = "locked"
    BY <1>0, <1>10 DEF EnterTry, Goto
  <2>2. Kept(r)'
    BY <1>0, <2>1 DEF Kept, Fetching, Confirmed, Beyond, Validated
  <2> QED BY <2>1, <2>2, KeptMove DEF PCs, Preparing
<1>11. CASE CaptureIdentity(r)
  <2>1. UNCHANGED <<lock, rows, final, late, faults, drifts, seen>> /\ pc[r] = "made"
    BY <1>11 DEF CaptureIdentity, Goto
  <2>2. CASE Goto(r, "made", "fetching") /\ tree' = [tree EXCEPT ![r].root = "own"]
    <3> DEFINE new == [tree[r] EXCEPT !.root = "own"]
    <3>1. tree[r] \in Trees
      BY <1>0, <2>1 DEF Kept
    <3>2. new \in Trees /\ new # None /\ new.root = "own"
      BY <3>1, MaterializerAssumption DEF Trees
    <3>3. /\ tree' = [tree EXCEPT ![r] = new] /\ tree'[r] = new
          /\ pc' = [pc EXCEPT ![r] = "fetching"] /\ pc'[r] = "fetching"
      BY <1>0, <2>2 DEF Goto, Whole, Shape
    <3>4. Kept(r)'
      BY <1>0, <2>1, <3>2, <3>3 DEF Kept, Fetching, Confirmed, Beyond, Validated
    <3>5. Len(rows'[r]) <= Matrices
      BY <2>1 DEF Whole, Shape
    <3> QED BY <2>1, <3>2, <3>3, <3>4, <3>5, KeptWork DEF PCs, Fetching
  <2>3. CASE Goto(r, "made", "dropping") /\ tree[r].root = "foreign" /\ UNCHANGED tree
    <3>1. pc' = [pc EXCEPT ![r] = "dropping"] /\ pc'[r] = "dropping"
      BY <1>0, <2>3 DEF Goto
    <3>2. Kept(r)'
      BY <1>0, <2>1, <2>3, <3>1 DEF Kept, Fetching, Confirmed, Beyond, Validated
    <3> QED BY <2>1, <2>3, <3>1, <3>2, KeptMove DEF PCs
  <2> QED BY <1>11, <2>2, <2>3 DEF CaptureIdentity
<1> QED BY <1>1, <1>2, <1>3, <1>4, <1>5, <1>6, <1>7, <1>8, <1>9, <1>10, <1>11 DEF Launch

LEMMA WholeOutside ==
  ASSUME Authorized, Whole,
         \/ \E r \in Launches : Kill(r) \/ Interrupt(r) \/ Tamper(r) \/ Swap(r)
         \/ DriftControl \/ DriftScript \/ Occupy
         \/ UNCHANGED vars
  PROVE  Whole'
<1> USE DEF disk, observed
<1>1. ASSUME NEW r \in Launches, Kill(r) \/ Interrupt(r) PROVE Whole'
  <2>1. /\ Kept(r) /\ UNCHANGED <<lock, tree, rows, final, late, drifts, seen>>
        /\ faults' = faults \/ (\E what \in {"lock", "staging"} : Fault(r, what))
    BY <1>1 DEF Kill, Interrupt, Whole
  <2>2. PICK to \in {"killed", "failed", "dropping", "failing"} :
          /\ pc' = [pc EXCEPT ![r] = to]
          /\ to = "failed" =>
               \/ pc[r] = "checked" /\ UNCHANGED faults
               \/ pc[r] \in {"opened", "releasing", "dropping"} /\ Fault(r, "lock")
          /\ to = "dropping" =>
               pc[r] = "locked" \/ (pc[r] = "made" /\ Fault(r, "staging"))
    BY <1>1 DEF Kill, Interrupt, Goto
  <2>3. to \in PCs /\ pc'[r] = to
    BY <2>2 DEF PCs, Before, Ended, Authorized, Typed
  <2>4. CASE to \in {"killed", "failing"}
    BY <2>1, <2>2, <2>3, <2>4, KeptMove DEF Kept, Fetching, Confirmed, Beyond, Validated
  <2>5. CASE to = "failed"
    <3>1. Kept(r)'
      BY <2>1, <2>2, <2>3, <2>5 DEF Kept, Fault, Fetching, Confirmed, Beyond, Validated
    <3> QED BY <2>1, <2>2, <2>3, <3>1, KeptMove
  <2>6. CASE to = "dropping"
    <3>1. Kept(r)'
      BY <2>1, <2>2, <2>3, <2>6 DEF Kept, Fault, Fetching, Confirmed, Beyond, Validated
    <3> QED BY <2>1, <2>2, <2>3, <3>1, KeptMove
  <2> QED BY <2>4, <2>5, <2>6
<1>2. ASSUME NEW r \in Launches, NEW new \in Trees,
             UNCHANGED <<lock, pc, seen, rows, final, faults>>, drifts' \in 0 .. MaxDrift,
             tree' = [tree EXCEPT ![r] = new], late' \in {late, late \cup {r}},
             Kept(r)'
      PROVE  Whole'
  <2>1. ASSUME NEW s \in Launches \ {r} PROVE Kept(s)'
    <3>1. tree'[s] = tree[s]
      BY <1>2 DEF Whole, Shape
    <3> QED BY <1>2, <3>1, KeptStill DEF Whole
  <2>2. Shape'
    BY <1>2 DEF Whole, Shape
  <2> QED BY <1>2, <2>1, <2>2 DEF Whole
<1>3. ASSUME NEW r \in Launches, Swap(r) PROVE Whole'
  <2>1. tree[r] \in Trees /\ Kept(r) /\ tree[r] # None /\ final # r
    BY <1>3 DEF Swap, Whole, Shape
  <2>2. PICK stray \in BOOLEAN :
          tree' = [tree EXCEPT ![r].root = "foreign", ![r].stray = stray]
    BY <1>3 DEF Swap
  <2> DEFINE new == [tree[r] EXCEPT !.root = "foreign", !.stray = stray]
  <2>3. new \in Trees /\ new # None /\ new.root = "foreign"
    BY <2>1, MaterializerAssumption DEF Trees
  <2>4. UNCHANGED <<lock, pc, seen, rows, final, late, faults>> /\ drifts' \in 0 .. MaxDrift
    BY <1>3, MaterializerAssumption DEF Swap, Drift, Whole, Shape
  <2>5. tree' = [tree EXCEPT ![r] = new]
    BY <2>2
  <2>6. tree'[r] = new
    BY <2>5 DEF Whole, Shape
  <2>7. Kept(r)'
    <3> HIDE DEF new
    <3> QED BY <2>1, <2>3, <2>4, <2>6 DEF Kept
  <2> QED BY <1>2, <2>3, <2>4, <2>5, <2>7
<1>4. ASSUME NEW r \in Launches, Tamper(r) PROVE Whole'
  <2>1. tree[r] \in Trees /\ Kept(r) /\ tree[r] # None
    BY <1>4 DEF Tamper, Whole, Shape
  <2>2. PICK new \in Trees : tree' = [tree EXCEPT ![r] = new] /\ new.root = tree[r].root
    <3>1. CASE \E m \in DOMAIN tree[r].files : tree' = [tree EXCEPT ![r].files[m] = Altered]
      <4>1. PICK m \in DOMAIN tree[r].files : tree' = [tree EXCEPT ![r].files[m] = Altered]
        BY <3>1
      <4> DEFINE new == [tree[r] EXCEPT !.files[m] = Altered]
      <4>2. tree[r].files \in Seq(Bodies \cup {Altered})
        BY <2>1 DEF Trees
      <4>3. [tree[r].files EXCEPT ![m] = Altered] \in Seq(Bodies \cup {Altered})
        BY <4>1, <4>2, ExceptSeq
      <4>4. new \in Trees /\ new.root = tree[r].root
        BY <2>1, <4>3 DEF Trees
      <4> QED BY <4>1, <4>4
    <3>2. CASE tree[r].sourceLock # None /\ tree' = [tree EXCEPT ![r].sourceLock.control = Broken]
      <4> DEFINE new == [tree[r] EXCEPT !.sourceLock.control = Broken]
      <4>1. tree[r].sourceLock \in [control : Controls, script : Nat, bodies : Seq(Bodies)]
        BY <2>1, <3>2 DEF Trees
      <4>2. [tree[r].sourceLock EXCEPT !.control = Broken]
              \in [control : Controls, script : Nat, bodies : Seq(Bodies)]
        BY <4>1 DEF Controls, Broken
      <4>3. new \in Trees /\ new.root = tree[r].root
        BY <2>1, <4>2 DEF Trees
      <4> QED BY <3>2, <4>3
    <3>3. CASE tree' = [tree EXCEPT ![r].stray = TRUE]
      <4> DEFINE new == [tree[r] EXCEPT !.stray = TRUE]
      <4>1. new \in Trees /\ new.root = tree[r].root
        BY <2>1 DEF Trees
      <4> QED BY <3>3, <4>1
    <3> QED BY <1>4, <3>1, <3>2, <3>3 DEF Tamper
  <2>3. /\ UNCHANGED <<lock, pc, seen, rows, final, faults>> /\ drifts' \in 0 .. MaxDrift
        /\ late' \in {late, late \cup {r}}
        /\ pc[r] \in Validated => r \in late'
    BY <1>4, MaterializerAssumption DEF Tamper, Drift, Whole, Shape, Validated
  <2>4. tree'[r] = new /\ new # None
    BY <2>2, MaterializerAssumption DEF Whole, Shape
  <2>5. Kept(r)'
    BY <2>1, <2>2, <2>3, <2>4 DEF Kept
  <2> QED BY <1>2, <2>2, <2>3, <2>5
<1>5. ASSUME DriftControl \/ DriftScript \/ Occupy PROVE Whole'
  <2>1. /\ UNCHANGED <<pc, tree, seen, rows, late, faults, lock>>
        /\ drifts' \in 0 .. MaxDrift
        /\ final' = final \/ (final = None /\ final' = "foreign")
    BY <1>5, MaterializerAssumption DEF DriftControl, DriftScript, Occupy, Drift, Whole, Shape
  <2>2. ASSUME NEW s \in Launches PROVE Kept(s)'
    BY <2>1, KeptStill, MaterializerAssumption DEF Whole
  <2>3. Shape'
    BY <2>1 DEF Whole, Shape
  <2> QED BY <2>2, <2>3 DEF Whole
<1>6. CASE UNCHANGED vars
  <2>1. ASSUME NEW s \in Launches PROVE Kept(s)'
    BY <1>6, KeptStill DEF Whole, vars
  <2>2. Shape'
    BY <1>6 DEF Whole, Shape, vars
  <2> QED BY <2>1, <2>2 DEF Whole
<1> QED BY <1>1, <1>3, <1>4, <1>5, <1>6

LEMMA WholeAlways == Spec => [](Authorized /\ Whole)
<1>1. Authorized /\ Whole /\ [Next]_vars => Whole'
  BY WholeLaunch, WholeOutside DEF Next
<1> QED BY <1>1, WholeInit, AuthorizedInit, AuthorizedNext, PTL DEF Spec

\* Every variable keeps its kind, and no launch requests more ranges than are
\* sealed.
THEOREM TypeCorrect == Spec => []TypeOK
BY TypeParts, WholeAlways, PTL DEF Whole

\* What a launch gave a receipt for is its own directory, with all it received,
\* each body of the exact length, and sealed.
THEOREM ReceiptWhole == Spec => []PublishedWhole
<1>1. Authorized /\ Whole => PublishedWhole
  <2> SUFFICES ASSUME Authorized, Whole, NEW r \in Launches, pc[r] \in {"releasing", "published"}
               PROVE  /\ final = r
                      /\ r \notin late =>
                           /\ Genuine(r)
                           /\ Len(tree[r].files) = Matrices
                           /\ \A m \in 1 .. Matrices : Exact(tree[r].files[m])
    BY DEF PublishedWhole
  <2>1. Kept(r) /\ Accounted(r)
    BY DEF Authorized, Whole
  <2>2. final = r /\ tree[r].root = "own"
    BY <2>1 DEF Kept
  <2>3. r \notin late => Sound(r)
    BY <2>1, <2>2 DEF Kept, Validated
  <2>4. Len(rows[r]) = Matrices
    BY <2>1 DEF Accounted, Confirmed, Beyond
  <2>5. \A m \in 1 .. Matrices : Exact(rows[r][m])
    BY <2>4, MaterializerAssumption DEF Exact, Authorized, Typed
  <2> QED BY <2>2, <2>3, <2>4, <2>5 DEF Sound, Genuine
<1> QED BY <1>1, WholeAlways, PTL

\* A launch that failed has given up its lock and its directory, unless its
\* clearing up was struck: by a failure, by an interrupt, or by one that came
\* before the try statement or before the directory's identity was taken.
THEOREM NothingLeft == Spec => []NothingLeftBehind
<1>1. Whole => NothingLeftBehind
  BY DEF Whole, Kept, NothingLeftBehind
<1> QED BY <1>1, WholeAlways, PTL

\* Whoever publishes, and whatever stands at the final path: it is not
\* replaced.
THEOREM FinalKept == Spec => FinalOnce
<1>1. ASSUME NEW r \in Launches, Launch(r), final # None PROVE final' = final
  BY <1>1 DEF Launch, Check, TakeLock, EnterTry, MakeStaging, CaptureIdentity, Fetch, FetchFails,
     SealSourceLock, RecheckControl, Revalidate, FindAbsent, Rename, Receipt, Cleanup, Release, disk
<1>2. ASSUME final # None, [Next]_vars PROVE final' = final
  BY <1>1, <1>2 DEF Next, Kill, Interrupt, Tamper, Swap, DriftControl, DriftScript, Occupy, Drift,
     vars, disk
<1>3. [Next]_vars => [final # None => final' = final]_vars
  BY <1>2
<1> QED BY <1>3, PTL DEF Spec, FinalOnce

=============================================================================
