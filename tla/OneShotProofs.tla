--------------------------- MODULE OneShotProofs ---------------------------
(***************************************************************************)
(* Proofs about OneShot, for every number of launches, blocks and threads  *)
(* and any number of edits: an encoder runs once per block, what is        *)
(* published is what was sealed, and the runner implements SealedRun.      *)
(***************************************************************************)
EXTENDS OneShot, TLAPS

\* The steps of main after its mkdir of the output directory, and suffixes.
Claimed == {"claimed", "staged", "manifested", "locked", "verified", "intended", "pool",
            "draining", "encoded", "packing", "packed"}
Staged == Claimed \ {"claimed"}
Manifested == Staged \ {"staged"}
Locked == Manifested \ {"manifested"}
Verified == Locked \ {"locked"}
Intended == Verified \ {"verified"}
Pooled == Intended \ {"intended"}

-----------------------------------------------------------------------------
(* Ownership of the output directory                                       *)

ControlType ==
  /\ dirs \in [Directories -> Runners \cup {None}]
  /\ pc \in [Runners -> Steps]
  /\ task \in [Runners -> [Blocks -> TaskStates]]
  /\ invoked \in [Blocks -> Nat]

\* Only the launch that made the directory goes past its mkdir, has futures,
\* and has none before the pool opens; a started encoder belongs to it.
Ownership ==
  /\ \A r \in Runners : pc[r] \in Claimed \cup {"declined", "published"} => Owner = r
  /\ \A r \in Runners : Owner # r => \A b \in Blocks : task[r][b] = "idle"
  /\ \A r \in Runners : pc[r] \in Claimed \ Pooled => \A b \in Blocks : task[r][b] = "idle"

Started == {"spawned", "exited", "audited", "done", "failed"}
OnceStarted ==
  \A b \in Blocks :
    invoked[b] # 0 => invoked[b] = 1 /\ Owner # None /\ task[Owner][b] \in Started

ControlInv == ControlType /\ Ownership /\ OnceStarted

LEMMA ControlInit == Init => ControlInv
BY RunAssumption DEF Init, ControlInv, ControlType, Ownership, OnceStarted, Owner, Steps, Claimed,
   Directories, TaskStates

\* A step of main that changes pc within the claimed steps and no future.
LEMMA ControlMove ==
  ASSUME ControlInv, NEW r \in Runners, NEW from \in Claimed,
         NEW to \in Claimed \cup {"aborted", "declined", "published"},
         from \in Pooled => to \notin Claimed \ Pooled, Goto(r, from, to),
         dirs'["output"] = dirs["output"], dirs' \in [Directories -> Runners \cup {None}],
         task' = task, invoked' = invoked
  PROVE  ControlInv'
BY DEF ControlInv, ControlType, Ownership, OnceStarted, Owner, Goto, Steps, Terminal, Claimed,
   Pooled, Intended, Verified, Locked, Manifested, Staged

\* A step that moves one future along.
LEMMA ControlAdvance ==
  ASSUME ControlInv, NEW r \in Runners, NEW b \in Blocks,
         NEW from \in TaskStates \ {"idle"}, NEW to \in TaskStates \ {"idle"},
         Advance(r, b, from, to),
         pc' = pc, dirs' = dirs,
         \/ invoked' = invoked /\ (from \in Started => to \in Started)
         \/ /\ invoked' = [invoked EXCEPT ![b] = @ + 1]
            /\ from \notin Started /\ to \in Started
  PROVE  ControlInv'
<1> USE DEF ControlInv, ControlType
<1>1. Owner = r
  BY DEF Advance, Ownership
<1>2. task' \in [Runners -> [Blocks -> TaskStates]] /\ invoked' \in [Blocks -> Nat]
  BY DEF Advance
<1>3. /\ Owner' = r
      /\ task'[r][b] = to
      /\ \A s \in Runners, c \in Blocks : s # r \/ c # b => task'[s][c] = task[s][c]
  BY <1>1 DEF Advance, Owner
<1>4. Ownership'
  <2>1. pc[r] \notin Claimed \ Pooled
    BY DEF Ownership, Advance
  <2> QED BY <1>1, <1>3, <2>1 DEF Ownership
<1>5. OnceStarted'
  <2> SUFFICES ASSUME NEW c \in Blocks, invoked'[c] # 0
               PROVE  invoked'[c] = 1 /\ Owner' # None /\ task'[Owner'][c] \in Started
    BY DEF OnceStarted
  <2>1. Owner' # None
    BY <1>3, RunAssumption
  <2>2. CASE c # b
    BY <1>1, <1>3, <2>1, <2>2 DEF OnceStarted
  <2>3. CASE c = b
    BY <1>1, <1>3, <2>1, <2>3 DEF OnceStarted, Advance
  <2> QED BY <2>2, <2>3
<1> QED BY <1>2, <1>4, <1>5

LEMMA ControlNext == ControlInv /\ [Next]_vars => ControlInv'
<1> SUFFICES ASSUME ControlInv, [Next]_vars PROVE ControlInv'
  OBVIOUS
<1> USE DEF disk, documents, outcome, environment, gate, pool
<1>1. ASSUME NEW r \in Runners, Main(r) PROVE ControlInv'
  <2>1. CASE Gate(r) \/ Refuse(r)
    <3>1. /\ dirs' = dirs /\ task' = task /\ invoked' = invoked
          /\ \E to \in {"gated", "refused"} : pc' = [pc EXCEPT ![r] = to]
      BY <2>1 DEF Gate, Refuse, Goto
    <3>2. ControlType'
      BY <3>1 DEF ControlInv, ControlType, Steps, Terminal
    <3>3. Ownership'
      BY <3>1 DEF ControlInv, ControlType, Ownership, Owner, Claimed
    <3>4. OnceStarted'
      BY <3>1 DEF ControlInv, OnceStarted, Owner
    <3> QED BY <3>2, <3>3, <3>4 DEF ControlInv
  <2>2. CASE ClaimDir(r)
    <3>1. CASE Goto(r, "gated", "claimed") /\ Mkdir(r, "output")
      <4>1. /\ task' = task /\ invoked' = invoked
            /\ pc' = [pc EXCEPT ![r] = "claimed"]
            /\ Owner = None
            /\ dirs' = [dirs EXCEPT !["output"] = r]
        BY <2>2, <3>1 DEF ClaimDir, Goto, Mkdir, MkdirRaises, Owner
      <4>2. ControlType' /\ Owner' = r
        BY <4>1 DEF ControlInv, ControlType, Steps, Terminal, Directories, Owner
      <4>3. \A s \in Runners, b \in Blocks : task[s][b] = "idle" /\ invoked[b] = 0
        BY <4>1, RunAssumption DEF ControlInv, Ownership, OnceStarted
      <4>4. \A s \in Runners : pc[s] \notin Claimed \cup {"declined", "published"}
        BY <4>1, RunAssumption DEF ControlInv, Ownership
      <4>5. Ownership'
        BY <4>1, <4>2, <4>3, <4>4 DEF ControlInv, ControlType, Ownership
      <4>6. OnceStarted'
        BY <4>1, <4>3 DEF OnceStarted
      <4> QED BY <4>2, <4>5, <4>6 DEF ControlInv
    <3>2. CASE Goto(r, "gated", "refused") /\ UNCHANGED dirs
      <4>1. /\ dirs' = dirs /\ task' = task /\ invoked' = invoked
            /\ pc' = [pc EXCEPT ![r] = "refused"]
        BY <2>2, <3>2 DEF ClaimDir, Goto
      <4>2. ControlType'
        BY <4>1 DEF ControlInv, ControlType, Steps, Terminal
      <4>3. Ownership' /\ OnceStarted'
        BY <4>1 DEF ControlInv, ControlType, Ownership, OnceStarted, Owner, Claimed
      <4> QED BY <4>2, <4>3 DEF ControlInv
    <3> QED BY <2>2, <3>1, <3>2 DEF ClaimDir
  <2>3. CASE Stage(r)
    <3>1. dirs' = [dirs EXCEPT !["staging"] = r]
      BY <2>3 DEF Stage, Mkdir
    <3>2. dirs'["output"] = dirs["output"] /\ dirs' \in [Directories -> Runners \cup {None}]
      BY <3>1 DEF ControlInv, ControlType, Directories
    <3> QED
      BY <2>3, <3>2, ControlMove DEF Stage, Claimed, Pooled, Intended, Verified, Locked,
         Manifested, Staged
  <2>4. CASE StageFails(r) \/ SealManifest(r) \/ SealLock(r) \/ VerifySeal(r) \/ WriteIntent(r)
    <3> DEFINE early == {"claimed", "staged", "manifested", "locked", "verified"}
               moved == {"manifested", "locked", "verified", "intended", "aborted"}
    <3>1. \E from \in early, to \in moved : Goto(r, from, to)
      BY <2>4 DEF StageFails, SealManifest, SealLock, VerifySeal, WriteIntent
    <3>2. dirs' = dirs /\ task' = task /\ invoked' = invoked
      BY <2>4 DEF StageFails, SealManifest, SealLock, VerifySeal, WriteIntent
    <3>3. /\ early \subseteq Claimed
          /\ moved \subseteq Claimed \cup {"aborted", "declined", "published"}
          /\ \A from \in early : from \notin Pooled
      BY DEF Claimed, Pooled, Intended, Verified, Locked, Manifested, Staged
    <3> HIDE DEF early, moved
    <3> QED
      BY <3>1, <3>2, <3>3, ControlMove DEF ControlInv, ControlType
  <2>5. CASE OpenPool(r)
    <3>1. dirs' = [dirs EXCEPT !["encoded"] = r]
      BY <2>5 DEF OpenPool, Mkdir
    <3>2. dirs'["output"] = dirs["output"] /\ dirs' \in [Directories -> Runners \cup {None}]
      BY <3>1 DEF ControlInv, ControlType, Directories
    <3>3. CASE Goto(r, "intended", "aborted") /\ UNCHANGED task
      BY <2>5, <3>2, <3>3, ControlMove DEF OpenPool, Claimed, Pooled, Intended, Verified, Locked,
         Manifested, Staged
    <3>4. CASE /\ Goto(r, "intended", "pool")
               /\ task' = [task EXCEPT ![r] = [b \in Blocks |-> "queued"]]
      <4>1. Owner = r /\ \A b \in Blocks : task[r][b] = "idle"
        BY <3>4 DEF Goto, ControlInv, Ownership, Claimed, Pooled, Intended, Verified, Locked,
           Manifested, Staged
      <4>2. invoked' = invoked /\ \A b \in Blocks : invoked[b] = 0
        BY <2>5, <4>1 DEF OpenPool, ControlInv, OnceStarted, Started
      <4> QED
        BY <3>2, <3>4, <4>1, <4>2 DEF Goto, ControlInv, ControlType, Ownership, OnceStarted, Owner,
           Steps, Claimed, Pooled, Intended, Verified, Locked, Manifested, Staged, TaskStates
    <3> QED
      BY <2>5, <3>3, <3>4 DEF OpenPool
  <2>6. CASE \/ \E b \in Blocks : Collect(r, b)
             \/ RecordFailure(r) \/ ClosePool(r) \/ Recheck(r)
             \/ Pack(r) \/ Overflow(r) \/ PackFails(r) \/ WriteSummary(r)
    <3>1. dirs' = dirs /\ task' = task /\ invoked' = invoked
      BY <2>6 DEF Collect, RecordFailure, ClosePool, Recheck, Pack, Overflow, PackFails, WriteSummary
    <3>2. CASE pc' = pc
      BY <3>1, <3>2 DEF ControlInv, ControlType, Ownership, OnceStarted, Owner
    <3>3. CASE pc' # pc
      <4> DEFINE from == {"pool", "draining", "encoded", "packing", "packed"}
                 to == from \cup {"aborted", "declined", "published"}
      <4>1. \E x \in from, y \in to : Goto(r, x, y)
        BY <2>6, <3>3 DEF Collect, RecordFailure, ClosePool, Recheck, Pack, Overflow, PackFails,
           WriteSummary, Goto
      <4>2. from \subseteq Claimed /\ \A y \in to : y \notin Claimed \ Pooled
        BY DEF Claimed, Pooled, Intended, Verified, Locked, Manifested, Staged
      <4>3. to \subseteq Claimed \cup {"aborted", "declined", "published"}
        BY <4>2
      <4> HIDE DEF from, to
      <4> QED
        BY <3>1, <4>1, <4>2, <4>3, ControlMove DEF ControlInv, ControlType
    <3> QED BY <3>2, <3>3
  <2> QED
    BY <1>1, <2>1, <2>2, <2>3, <2>4, <2>5, <2>6 DEF Main
<1>2. ASSUME NEW r \in Runners, NEW b \in Blocks, Worker(r, b) PROVE ControlInv'
  <2> USE DEF TaskStates, Busy, Finished, Started
  <2>1. CASE Take(r, b)
    BY <2>1, ControlAdvance DEF Take
  <2>2. CASE Spawn(r, b)
    BY <2>2, ControlAdvance DEF Spawn
  <2>3. CASE EncoderExits(r, b) \/ EncoderFails(r, b)
    BY <2>3, ControlAdvance DEF EncoderExits, EncoderFails
  <2>4. CASE Audit(r, b) \/ Capture(r, b)
    BY <2>4, ControlAdvance DEF Audit, Capture
  <2> QED
    BY <1>2, <2>1, <2>2, <2>3, <2>4 DEF Worker
<1>3. ASSUME NEW r \in Runners, Crash(r) PROVE ControlInv'
  BY <1>3 DEF Crash, ControlInv, ControlType, Ownership, OnceStarted, Owner, Steps, Terminal, Claimed
<1>4. CASE UNCHANGED <<dirs, pc, task, invoked>>
  BY <1>4 DEF ControlInv, ControlType, Ownership, OnceStarted, Owner
<1>5. Outside => UNCHANGED <<dirs, pc, task, invoked>> \/ \E r \in Runners : Crash(r)
  BY DEF Outside, Edit, DriftRuntime, DriftFile, DriftManifest, DriftLock, Reseal, DriftEncoded
<1> QED
  BY <1>1, <1>2, <1>3, <1>4, <1>5 DEF Next, vars

LEMMA Control == Spec => []ControlInv
BY ControlInit, ControlNext, PTL DEF Spec

\* No block's encoder is started twice, whatever launches race or are killed.
THEOREM AtMostOnce == Spec => []EncodeAtMostOnce
<1>1. ControlInv => EncodeAtMostOnce
  BY DEF ControlInv, ControlType, OnceStarted, EncodeAtMostOnce
<1> QED
  BY <1>1, Control, PTL

-----------------------------------------------------------------------------
(* Type correctness                                                        *)

\* What is on disk, and held in memory, by the time main gets to a step: the
\* encoder reads a block's content, and the lock repeats the manifest's digest,
\* without asking whether they exist.
Present ==
  /\ dirs["staging"] # None => \A b \in Blocks : files[b] \in Contents
  /\ lock # None => files \in Digests
  /\ \A r \in Runners, b \in Blocks : task[r][b] # "idle" => dirs["staging"] # None
  /\ \A r \in Runners :
       /\ pc[r] \in Staged => dirs["staging"] # None
       /\ pc[r] \in Manifested =>
            /\ manifest \in Manifests
            /\ files \in Digests
            /\ held[r] \in [manifest : Manifests, lock : Locks \cup {None}]
       /\ pc[r] \in Locked => lock \in Locks

Typed == TypeOK /\ Present

LEMMA TypedInit == Init => Typed
<1>1. Init => late \in BOOLEAN
  BY DEF Init
<1> QED BY <1>1, RunAssumption DEF Init, Typed, TypeOK, Present, Steps, TaskStates, Directories,
   Parts, SnapshotParts, ImmutableParts, Staged, Manifested, Locked, Claimed

\* Main moves within its steps and leaves files, documents and futures alone.
LEMMA TypedMove ==
  ASSUME Typed, NEW r \in Runners, NEW from \in Steps, NEW to \in Steps,
         to \in Staged => from \in Staged,
         to \in Manifested => from \in Manifested,
         to \in Locked => from \in Locked,
         pc' = [pc EXCEPT ![r] = to], pc[r] = from,
         UNCHANGED <<runtime, drifts, late, dirs, files, manifest, lock, encoded, loaded, held, task,
                     row, invoked>>,
         frozen' \in [Runners -> [SnapshotParts -> {Original, Altered}] \cup {None}],
         rows' \in [Runners -> SUBSET Blocks]
  PROVE  Typed'
BY DEF Typed, TypeOK, Present

\* A future moves along and nothing but its row, its container or its
\* invocation count changes.
LEMMA TypedAdvance ==
  ASSUME Typed, NEW r \in Runners, NEW b \in Blocks,
         NEW from \in TaskStates \ {"idle"}, NEW to \in TaskStates,
         Advance(r, b, from, to),
         UNCHANGED <<runtime, drifts, late, dirs, files, manifest, lock, pc, frozen, loaded, held,
                     rows>>,
         encoded' \in [Blocks -> Outputs \cup {None}],
         row' \in [Runners -> [Blocks -> Outputs \cup {None}]],
         invoked' \in [Blocks -> Nat]
  PROVE  Typed'
<1>1. task' \in [Runners -> [Blocks -> TaskStates]]
  BY DEF Typed, TypeOK, Advance
<1>2. \A s \in Runners, c \in Blocks : task'[s][c] # "idle" => dirs["staging"] # None
  BY DEF Typed, TypeOK, Present, Advance
<1>3. TypeOK'
  BY <1>1 DEF Typed, TypeOK
<1>4. Present'
  BY <1>2 DEF Typed, Present
<1> QED BY <1>3, <1>4 DEF Typed

LEMMA TypedMain == ASSUME Typed, NEW r \in Runners, Main(r) PROVE Typed'
<1> USE DEF disk, documents, outcome, environment, gate, pool
<1> DEFINE early == {"start", "gated", "claimed", "refused", "aborted"}
           later == {"pool", "draining", "encoded", "packing", "packed"}
           last == {"aborted", "declined", "published"}
<1>0. /\ early \subseteq Steps /\ later \subseteq Steps /\ last \subseteq Steps
      /\ \A x \in early : x \notin Staged /\ x \notin Manifested /\ x \notin Locked
      /\ \A x \in later : x \in Staged /\ x \in Manifested /\ x \in Locked
      /\ \A x \in last : x \notin Staged /\ x \notin Manifested /\ x \notin Locked
  BY DEF Steps, Terminal, Staged, Manifested, Locked, Claimed
<1>1. CASE Gate(r) \/ Refuse(r) \/ StageFails(r)
  <2>1. frozen' \in [Runners -> [SnapshotParts -> {Original, Altered}] \cup {None}]
    <3> DEFINE snapshot == [p \in SnapshotParts |-> runtime[p]]
    <3>1. snapshot \in [SnapshotParts -> {Original, Altered}]
      BY DEF Typed, TypeOK, Parts
    <3>2. frozen' = [frozen EXCEPT ![r] = snapshot] \/ frozen' = frozen
      BY <1>1 DEF Gate, Refuse, StageFails
    <3> HIDE DEF snapshot
    <3> QED BY <3>1, <3>2 DEF Typed, TypeOK
  <2>2. \E from \in early, to \in early : pc[r] = from /\ pc' = [pc EXCEPT ![r] = to]
    BY <1>1 DEF Gate, Refuse, StageFails, Goto
  <2>3. UNCHANGED <<runtime, drifts, late, dirs, files, manifest, lock, encoded, loaded, held, task,
                    row, invoked, rows>>
    BY <1>1 DEF Gate, Refuse, StageFails
  <2>4. rows' \in [Runners -> SUBSET Blocks]
    BY <2>3 DEF Typed, TypeOK
  <2> HIDE DEF early
  <2> QED BY <1>0, <2>1, <2>2, <2>3, <2>4, TypedMove
<1>2. CASE ClaimDir(r)
  <2>1. \E to \in early : pc' = [pc EXCEPT ![r] = to]
    BY <1>2 DEF ClaimDir, Goto
  <2>2. dirs' \in [Directories -> Runners \cup {None}] /\ dirs'["staging"] = dirs["staging"]
    BY <1>2 DEF ClaimDir, Mkdir, Typed, TypeOK, Directories
  <2>3. TypeOK'
    BY <1>0, <1>2, <2>1, <2>2 DEF ClaimDir, Typed, TypeOK
  <2>4. Present'
    BY <1>0, <1>2, <2>1, <2>2 DEF ClaimDir, Typed, TypeOK, Present
  <2> QED BY <2>3, <2>4 DEF Typed
<1>3. CASE Stage(r)
  <2>1. dirs' \in [Directories -> Runners \cup {None}] /\ dirs'["staging"] # None
    BY <1>3, RunAssumption DEF Stage, Mkdir, Typed, TypeOK, Directories
  <2>2. /\ files' \in [Sealable -> Contents \cup {None}]
        /\ \A b \in Blocks : files'[b] \in Contents
        /\ files \in Digests => files' \in Digests
    BY <1>3 DEF Stage, Typed, TypeOK, Sealable, Contents, Digests
  <2>3. loaded' \in [Runners -> [ImmutableParts -> {Original, Altered}] \cup {None}]
    BY <1>3 DEF Stage, Typed, TypeOK, Parts
  <2>4. /\ pc' = [pc EXCEPT ![r] = "staged"] /\ "staged" \in Steps
        /\ "staged" \notin Manifested /\ "staged" \notin Locked
    BY <1>3 DEF Stage, Goto, Steps, Manifested, Locked, Staged
  <2>5. TypeOK'
    BY <1>3, <2>1, <2>2, <2>3, <2>4 DEF Stage, Typed, TypeOK
  <2>6. Present'
    BY <1>3, <2>1, <2>2, <2>4 DEF Stage, Typed, TypeOK, Present
  <2> QED BY <2>5, <2>6 DEF Typed
<1>4. CASE SealManifest(r)
  <2>1. CASE pc' = [pc EXCEPT ![r] = "aborted"] /\ UNCHANGED <<files, manifest, held>>
    <3>1. TypeOK'
      BY <1>0, <1>4, <2>1 DEF SealManifest, Typed, TypeOK
    <3>2. Present'
      BY <1>0, <1>4, <2>1 DEF SealManifest, Typed, TypeOK, Present
    <3> QED BY <3>1, <3>2 DEF Typed
  <2>2. CASE /\ Goto(r, "staged", "manifested")
             /\ files' = [files EXCEPT ![Assets] = Original]
             /\ manifest' = ManifestOf(files')
             /\ held' = [held EXCEPT ![r] = [manifest |-> manifest', lock |-> None]]
    <3>1. \A b \in Blocks : files[b] \in Contents
      BY <2>2 DEF Goto, Typed, Present, Staged, Claimed
    <3>2. files' \in Digests
      BY <2>2, <3>1 DEF Typed, TypeOK, Sealable, Contents, Digests
    <3>3. manifest' \in Manifests
      BY <2>2, <3>2 DEF ManifestOf, Manifests, Contents
    <3>4. held' \in [Runners -> [manifest : Manifests, lock : Locks \cup {None}] \cup {None}]
      BY <2>2, <3>3 DEF Typed, TypeOK
    <3>5. held'[r] \in [manifest : Manifests, lock : Locks \cup {None}]
      BY <2>2, <3>3 DEF Typed, TypeOK
    <3>6. /\ pc' = [pc EXCEPT ![r] = "manifested"] /\ "manifested" \in Steps
          /\ "manifested" \notin Locked
          /\ pc[r] = "staged" /\ "staged" \in Staged
      BY <2>2 DEF Goto, Steps, Locked, Staged, Manifested, Claimed
    <3>7. TypeOK'
      BY <1>4, <3>2, <3>3, <3>4, <3>6 DEF SealManifest, Typed, TypeOK, Digests
    <3>8. \A s \in Runners : s # r => held'[s] = held[s] /\ pc'[s] = pc[s]
      BY <2>2, <3>6 DEF Typed, TypeOK
    <3>9. \A b \in Blocks : files'[b] \in Contents
      BY <3>2 DEF Digests, Sealable
    <3>10. dirs' = dirs /\ lock' = lock /\ task' = task /\ pc'[r] = "manifested"
      BY <1>4, <3>6 DEF SealManifest, Typed, TypeOK
    <3>11. Present'
      BY <3>2, <3>3, <3>5, <3>6, <3>8, <3>9, <3>10 DEF Typed, Present
    <3> QED BY <3>7, <3>11 DEF Typed
  <2> QED BY <1>4, <2>1, <2>2 DEF SealManifest, Goto
<1>5. CASE SealLock(r)
  <2>1. /\ pc' = [pc EXCEPT ![r] = "locked"] /\ pc[r] \in Manifested /\ "locked" \in Steps
        /\ pc[r] \in Staged
    BY <1>5 DEF SealLock, Goto, Steps, Manifested, Staged, Claimed
  <2>2. /\ manifest \in Manifests /\ files \in Digests
        /\ held[r] \in [manifest : Manifests, lock : Locks \cup {None}]
    BY <2>1 DEF Typed, Present
  <2>3. held[r].manifest.digest \in Digests
    BY <2>2 DEF Manifests
  <2>4. lock' \in Locks
    BY <1>5, <2>2, <2>3 DEF SealLock, Locks, Contents
  <2>5. TypeOK'
    BY <1>5, <2>1, <2>4 DEF SealLock, Typed, TypeOK
  <2>6. Present'
    BY <1>5, <2>1, <2>2, <2>4 DEF SealLock, Typed, TypeOK, Present
  <2> QED BY <2>5, <2>6 DEF Typed
<1>6. CASE VerifySeal(r) \/ Recheck(r)
  <2>1. /\ pc[r] \in Locked /\ pc[r] \in Manifested /\ pc[r] \in Staged
        /\ \E to \in {"verified", "packing", "aborted"} : pc' = [pc EXCEPT ![r] = to]
        /\ {"verified", "packing", "aborted"} \subseteq Steps
    BY <1>6 DEF VerifySeal, Recheck, Goto, Steps, Terminal, Locked, Manifested, Staged, Claimed
  <2>2. /\ manifest \in Manifests /\ lock \in Locks
        /\ held[r] \in [manifest : Manifests, lock : Locks \cup {None}]
    BY <2>1 DEF Typed, Present
  <2>3. /\ held'[r] \in [manifest : Manifests, lock : Locks \cup {None}]
        /\ held' = [held EXCEPT ![r] = held'[r]]
    BY <1>6, <2>2 DEF VerifySeal, Recheck, Typed, TypeOK
  <2>4. TypeOK'
    <3>1. UNCHANGED <<runtime, drifts, late, dirs, files, manifest, lock, encoded, frozen, loaded,
                      task, row, rows, invoked>>
      BY <1>6 DEF VerifySeal, Recheck
    <3>2. PICK new \in [manifest : Manifests, lock : Locks \cup {None}] :
            held' = [held EXCEPT ![r] = new]
      BY <2>3
    <3>3. held' \in [Runners -> [manifest : Manifests, lock : Locks \cup {None}] \cup {None}]
      BY <3>2 DEF Typed, TypeOK
    <3>4. pc' \in [Runners -> Steps]
      BY <2>1 DEF Typed, TypeOK
    <3> QED BY <3>1, <3>3, <3>4 DEF Typed, TypeOK
  <2>5. \A s \in Runners : s # r => held'[s] = held[s] /\ pc'[s] = pc[s]
    BY <2>1, <2>3 DEF Typed, TypeOK
  <2>6. UNCHANGED <<dirs, files, manifest, lock, task>>
    BY <1>6 DEF VerifySeal, Recheck
  <2>7. Present'
    BY <2>1, <2>3, <2>5, <2>6 DEF Typed, Present
  <2> QED BY <2>4, <2>7 DEF Typed
<1>7. CASE WriteIntent(r)
  <2>1. /\ pc[r] \in Locked /\ pc[r] \in Manifested /\ pc[r] \in Staged
        /\ pc' = [pc EXCEPT ![r] = "intended"] /\ "intended" \in Steps
    BY <1>7 DEF WriteIntent, Goto, Steps, Locked, Manifested, Staged, Claimed
  <2>2. TypeOK'
    BY <1>7, <2>1 DEF WriteIntent, Typed, TypeOK
  <2>3. Present'
    BY <1>7, <2>1 DEF WriteIntent, Typed, TypeOK, Present
  <2> QED BY <2>2, <2>3 DEF Typed
<1>8. CASE OpenPool(r)
  <2>1. /\ pc[r] \in Locked /\ pc[r] \in Manifested /\ pc[r] \in Staged
        /\ \E to \in {"pool", "aborted"} : pc' = [pc EXCEPT ![r] = to]
        /\ {"pool", "aborted"} \subseteq Steps
    BY <1>8 DEF OpenPool, Goto, Steps, Terminal, Locked, Manifested, Staged, Claimed
  <2>2. dirs["staging"] # None
    BY <2>1 DEF Typed, Present
  <2>3. dirs' \in [Directories -> Runners \cup {None}] /\ dirs'["staging"] = dirs["staging"]
    BY <1>8 DEF OpenPool, Mkdir, Typed, TypeOK, Directories
  <2>4. task' \in [Runners -> [Blocks -> TaskStates]]
    <3> DEFINE submitted == [b \in Blocks |-> "queued"]
    <3>1. submitted \in [Blocks -> TaskStates]
      BY DEF TaskStates
    <3>2. task' = [task EXCEPT ![r] = submitted] \/ task' = task
      BY <1>8 DEF OpenPool
    <3> HIDE DEF submitted
    <3> QED BY <3>1, <3>2 DEF Typed, TypeOK
  <2>5. TypeOK'
    BY <1>8, <2>1, <2>3, <2>4 DEF OpenPool, Typed, TypeOK
  <2>6. Present'
    BY <1>8, <2>1, <2>2, <2>3 DEF OpenPool, Typed, TypeOK, Present
  <2> QED BY <2>5, <2>6 DEF Typed
<1>9. CASE \/ \E b \in Blocks : Collect(r, b)
           \/ RecordFailure(r) \/ ClosePool(r)
           \/ Pack(r) \/ Overflow(r) \/ PackFails(r) \/ WriteSummary(r)
  <2>1. /\ pc[r] \in later
        /\ \E to \in later \cup last : pc' = [pc EXCEPT ![r] = to]
    BY <1>9 DEF Collect, RecordFailure, ClosePool, Pack, Overflow, PackFails, WriteSummary, Goto,
       Typed, TypeOK
  <2>2. /\ UNCHANGED <<runtime, drifts, late, dirs, files, manifest, lock, encoded, loaded, held, task,
                       row, invoked, frozen>>
        /\ rows' \in [Runners -> SUBSET Blocks]
    BY <1>9 DEF Collect, RecordFailure, ClosePool, Pack, Overflow, PackFails, WriteSummary, Typed,
       TypeOK
  <2>3. frozen' \in [Runners -> [SnapshotParts -> {Original, Altered}] \cup {None}]
    BY <2>2 DEF Typed, TypeOK
  <2> HIDE DEF later, last
  <2> QED BY <1>0, <2>1, <2>2, <2>3, TypedMove
<1> QED BY <1>1, <1>2, <1>3, <1>4, <1>5, <1>6, <1>7, <1>8, <1>9 DEF Main

LEMMA TypedWorker ==
  ASSUME Typed, NEW r \in Runners, NEW b \in Blocks, Worker(r, b) PROVE Typed'
<1> USE DEF disk, documents, outcome, environment, gate, pool
<1>0. /\ \A t \in Busy \cup Finished \cup {"queued"} : t \in TaskStates \ {"idle"}
      /\ encoded \in [Blocks -> Outputs \cup {None}]
      /\ row \in [Runners -> [Blocks -> Outputs \cup {None}]]
      /\ invoked \in [Blocks -> Nat]
  BY DEF Typed, TypeOK, TaskStates, Busy, Finished
<1>1. CASE Take(r, b) \/ EncoderFails(r, b) \/ Audit(r, b)
  <2>1. \E from, to \in Busy \cup Finished \cup {"queued"} : Advance(r, b, from, to)
    BY <1>1 DEF Take, EncoderFails, Audit, Busy, Finished
  <2>2. UNCHANGED <<runtime, drifts, late, dirs, files, manifest, lock, pc, frozen, loaded, held, rows,
                    encoded, row, invoked>>
    BY <1>1 DEF Take, EncoderFails, Audit
  <2> QED BY <1>0, <2>1, <2>2, TypedAdvance
<1>2. CASE Spawn(r, b)
  <2>1. invoked' \in [Blocks -> Nat]
    BY <1>0, <1>2 DEF Spawn
  <2> QED BY <1>0, <1>2, <2>1, TypedAdvance DEF Spawn, Busy
<1>3. CASE EncoderExits(r, b)
  <2>1. files[b] \in Contents
    BY <1>3 DEF EncoderExits, Advance, Typed, Present
  <2>2. runtime["engine"] \in Contents
    BY DEF Typed, TypeOK, Parts, SnapshotParts, Contents
  <2>3. PICK bytes \in Sizes :
          LET container == Payload(b, files[b], runtime["engine"], bytes)
          IN  encoded' = [encoded EXCEPT ![b] =
                [meta |-> [source |-> files[b], literal |-> container, ver |-> Original],
                 container |-> container]]
    BY <1>3 DEF EncoderExits
  <2> DEFINE container == Payload(b, files[b], runtime["engine"], bytes)
             output == [meta |-> [source |-> files[b], literal |-> container, ver |-> Original],
                        container |-> container]
  <2>4. container \in Containers
    BY <2>1, <2>2 DEF Payload, Containers, Contents
  <2>5. output \in Outputs
    <3> HIDE DEF container
    <3> QED BY <2>1, <2>4 DEF Outputs, Contents
  <2>6. encoded' = [encoded EXCEPT ![b] = output]
    BY <2>3
  <2>7. encoded' \in [Blocks -> Outputs \cup {None}]
    <3> HIDE DEF output
    <3> QED BY <1>0, <2>5, <2>6
  <2> QED BY <1>0, <1>3, <2>7, TypedAdvance DEF EncoderExits, Busy
<1>4. CASE Capture(r, b)
  <2>1. row' \in [Runners -> [Blocks -> Outputs \cup {None}]]
    BY <1>0, <1>4 DEF Capture
  <2> QED BY <1>0, <1>4, <2>1, TypedAdvance DEF Capture, Busy, Finished
<1> QED BY <1>1, <1>2, <1>3, <1>4 DEF Worker

LEMMA TypedOutside == ASSUME Typed, Outside PROVE Typed'
<1> USE DEF disk, documents, outcome, environment, gate, pool
<1>1. ASSUME NEW r \in Runners, Crash(r) PROVE Typed'
  BY <1>1, TypedMove DEF Crash, Steps, Terminal, Staged, Manifested, Locked, Claimed, Typed, TypeOK
<1>2. Edit => drifts' \in 0 .. MaxDrift
  BY RunAssumption DEF Edit, Typed, TypeOK
<1>3. ASSUME NEW p \in Parts, DriftRuntime(p) PROVE Typed'
  <2>1. TypeOK'
    BY <1>2, <1>3 DEF DriftRuntime, Edit, Typed, TypeOK
  <2>2. Present'
    BY <1>3 DEF DriftRuntime, Edit, Typed, Present
  <2> QED BY <2>1, <2>2 DEF Typed
<1>4. ASSUME NEW f \in Sealable, DriftFile(f) PROVE Typed'
  <2>1. /\ files' \in [Sealable -> Contents \cup {None}]
        /\ \A b \in Blocks : files[b] \in Contents => files'[b] \in Contents
        /\ files \in Digests => files' \in Digests
        /\ late' \in BOOLEAN
    BY <1>4 DEF DriftFile, Typed, TypeOK, Contents, Digests, Sealable
  <2>2. TypeOK'
    BY <1>2, <1>4, <2>1 DEF DriftFile, Edit, Typed, TypeOK
  <2>3. Present'
    BY <1>4, <2>1 DEF DriftFile, Edit, Typed, Present
  <2> QED BY <2>2, <2>3 DEF Typed
<1>5. ASSUME DriftManifest PROVE Typed'
  <2>1. manifest' \in Manifests
    BY <1>5 DEF DriftManifest, Typed, TypeOK, Manifests, Contents
  <2>2. TypeOK'
    BY <1>2, <1>5, <2>1 DEF DriftManifest, Edit, Typed, TypeOK
  <2>3. Present'
    BY <1>5, <2>1 DEF DriftManifest, Edit, Typed, Present
  <2> QED BY <2>2, <2>3 DEF Typed
<1>6. ASSUME DriftLock PROVE Typed'
  <2>1. lock' \in Locks
    BY <1>6 DEF DriftLock, Typed, TypeOK, Locks, Contents
  <2>2. TypeOK'
    BY <1>2, <1>6, <2>1 DEF DriftLock, Edit, Typed, TypeOK
  <2>3. Present'
    BY <1>6, <2>1 DEF DriftLock, Edit, Typed, Present
  <2> QED BY <2>2, <2>3 DEF Typed
<1>7. ASSUME Reseal PROVE Typed'
  <2>1. files \in Digests
    BY <1>7 DEF Reseal, Typed, Present
  <2>2. manifest' \in Manifests
    BY <1>7, <2>1 DEF Reseal, Manifests, Contents
  <2>3. lock' \in Locks
    BY <1>7, <2>1, <2>2 DEF Reseal, Locks, Contents
  <2>4. TypeOK'
    BY <1>2, <1>7, <2>2, <2>3 DEF Reseal, Edit, Typed, TypeOK
  <2>5. Present'
    BY <1>7, <2>1, <2>2, <2>3 DEF Reseal, Edit, Typed, Present
  <2> QED BY <2>4, <2>5 DEF Typed
<1>8. ASSUME NEW b \in Blocks, NEW part \in {"meta", "container"}, DriftEncoded(b, part)
      PROVE  Typed'
  <2>1. encoded[b] \in Outputs
    BY <1>8 DEF DriftEncoded, Typed, TypeOK
  <2>2. [encoded[b] EXCEPT ![part].ver = Altered] \in Outputs
    BY <2>1 DEF Outputs, Containers, Contents
  <2>3. encoded' \in [Blocks -> Outputs \cup {None}]
    BY <1>8, <2>2 DEF DriftEncoded, Typed, TypeOK
  <2>4. TypeOK'
    BY <1>2, <1>8, <2>3 DEF DriftEncoded, Edit, Typed, TypeOK
  <2>5. Present'
    BY <1>8 DEF DriftEncoded, Edit, Typed, Present
  <2> QED BY <2>4, <2>5 DEF Typed
<1> QED
  BY <1>1, <1>3, <1>4, <1>5, <1>6, <1>7, <1>8 DEF Outside

LEMMA TypedAlways == Spec => []Typed
<1>1. ASSUME Typed, UNCHANGED vars PROVE Typed'
  BY <1>1 DEF vars, disk, documents, outcome, environment, gate, pool, Typed, TypeOK, Present
<1>2. Typed /\ [Next]_vars => Typed'
  BY <1>1, TypedMain, TypedWorker, TypedOutside DEF Next
<1> QED BY TypedInit, <1>2, PTL DEF Spec

\* Every file, document, thread and future stays in its type.
THEOREM TypeCorrect == Spec => []TypeOK
<1>1. Typed => TypeOK
  BY DEF Typed
<1> QED BY <1>1, TypedAlways, PTL

-----------------------------------------------------------------------------
(* The verdict                                                             *)

\* Nothing has been decided while a launch is still in its claimed steps, nor
\* before there is an output directory; a row is collected from a future that
\* is done, and beyond the pool every row is there.
Undecided ==
  /\ \A r \in Runners : pc[r] \in Claimed =>
       /\ summary = None
       /\ failure = None
       /\ pc[r] # "packed" => artifact = None
  /\ Owner = None => summary = None /\ failure = None /\ artifact = None
Collected ==
  /\ rows \in [Runners -> SUBSET Blocks]
  /\ \A r \in Runners : \A b \in rows[r] : task[r][b] = "done"
  /\ \A r \in Runners : pc[r] \in {"encoded", "packing", "packed"} => rows[r] = Blocks

VerdictInv == ControlInv /\ Undecided /\ Collected /\ QuietVerdict /\ OneVerdict

LEMMA VerdictInit == Init => VerdictInv
BY ControlInit DEF Init, VerdictInv, Undecided, Collected, QuietVerdict, OneVerdict, Owner, Claimed,
   Directories

\* A launch in its claimed steps is the only one there, and no other has
\* futures.
LEMMA Alone ==
  ASSUME ControlInv, NEW r \in Runners, pc[r] \in Claimed
  PROVE  /\ Owner = r
         /\ \A s \in Runners \ {r} : pc[s] \notin Claimed
         /\ \A s \in Runners \ {r}, b \in Blocks : task[s][b] = "idle"
BY DEF ControlInv, Ownership

LEMMA VerdictMain == ASSUME VerdictInv, NEW r \in Runners, Main(r), ControlInv' PROVE VerdictInv'
<1> USE DEF disk, documents, outcome, environment, gate, pool, VerdictInv
<1> DEFINE beyond == {"encoded", "packing", "packed"}
<1>1. CASE Gate(r) \/ Refuse(r) \/ ClaimDir(r)
  <2>1. /\ UNCHANGED <<outcome, task, rows>>
        /\ \E to \in {"gated", "refused", "claimed"} : pc' = [pc EXCEPT ![r] = to]
        /\ pc'[r] = "claimed" => Owner = None
        /\ Owner' = None => Owner = None
    BY <1>1, RunAssumption
       DEF Gate, Refuse, ClaimDir, Goto, Mkdir, MkdirRaises, Owner, ControlInv, ControlType,
           Directories
  <2>2. Undecided'
    BY <2>1 DEF Undecided, ControlInv, ControlType, Claimed
  <2>3. Collected'
    BY <2>1 DEF Collected, ControlInv, ControlType
  <2> QED BY <2>1, <2>2, <2>3 DEF QuietVerdict, OneVerdict
<1>2. CASE \/ Stage(r) \/ StageFails(r) \/ SealManifest(r) \/ SealLock(r) \/ VerifySeal(r)
           \/ WriteIntent(r)
  <2> DEFINE to == {"staged", "manifested", "locked", "verified", "intended", "aborted"}
  <2>1. /\ UNCHANGED <<outcome, task, rows>>
        /\ \E x \in to : pc' = [pc EXCEPT ![r] = x]
        /\ pc[r] \in Claimed \ {"packed"}
    BY <1>2 DEF Stage, StageFails, SealManifest, SealLock, VerifySeal, WriteIntent, Goto, Claimed
  <2>2. Owner = r /\ Owner' = r
    BY <1>2, <2>1, Alone DEF Stage, StageFails, SealManifest, SealLock, VerifySeal, WriteIntent,
       Mkdir, Owner, ControlInv, ControlType, Directories
  <2>3. Undecided'
    BY <2>1, <2>2, RunAssumption DEF Undecided, ControlInv, ControlType
  <2>4. Collected'
    BY <2>1 DEF Collected, ControlInv, ControlType
  <2> QED BY <2>1, <2>3, <2>4 DEF QuietVerdict, OneVerdict
<1>3. CASE OpenPool(r)
  <2>1. /\ UNCHANGED <<outcome, rows>>
        /\ pc[r] = "intended" /\ \E x \in {"pool", "aborted"} : pc' = [pc EXCEPT ![r] = x]
        /\ pc[r] \in Claimed \ Pooled
        /\ \A s \in Runners : s # r => task'[s] = task[s]
    BY <1>3 DEF OpenPool, Goto, Claimed, Pooled, Intended, Verified, Locked, Manifested, Staged,
       ControlInv, ControlType
  <2>2. Owner = r /\ Owner' = r
    BY <1>3, <2>1, Alone DEF OpenPool, Mkdir, Owner, ControlInv, ControlType, Directories
  <2>3. summary = None /\ failure = None
    BY <2>1 DEF Undecided
  <2>4. rows[r] = {}
    BY <2>1 DEF Collected, ControlInv, Ownership
  <2>5. Undecided'
    BY <2>1, <2>2, RunAssumption DEF Undecided, ControlInv, ControlType
  <2>6. Collected'
    BY <2>1, <2>4 DEF Collected, ControlInv, ControlType
  <2> QED BY <2>1, <2>3, <2>5, <2>6 DEF QuietVerdict, OneVerdict
<1>4. CASE \/ \E b \in Blocks : Collect(r, b)
           \/ ClosePool(r) \/ Recheck(r) \/ PackFails(r)
  <2>1. /\ UNCHANGED <<dirs, outcome, task>>
        /\ \E x \in {"pool", "draining", "encoded", "packing", "aborted"} :
             pc' = [pc EXCEPT ![r] = x]
        /\ pc[r] \in {"pool", "encoded", "packing"}
    BY <1>4 DEF Collect, ClosePool, Recheck, PackFails, Goto, ControlInv, ControlType
  <2>2. pc[r] \in Claimed \ {"packed"}
    BY <2>1 DEF Claimed
  <2>3. Undecided'
    BY <2>1, <2>2 DEF Undecided, ControlInv, ControlType, Owner
  <2>4. /\ rows' \in [Runners -> SUBSET Blocks]
        /\ \A s \in Runners : \A b \in rows'[s] : task[s][b] = "done"
    BY <1>4 DEF Collect, ClosePool, Recheck, PackFails, Collected
  <2>5. /\ pc'[r] \in beyond => rows'[r] = Blocks
        /\ \A s \in Runners \ {r} : rows'[s] = rows[s] /\ pc'[s] = pc[s]
    BY <1>4, <2>1 DEF Collect, ClosePool, Recheck, PackFails, Goto, Collected, ControlInv,
       ControlType
  <2>6. Collected'
    BY <2>1, <2>4, <2>5 DEF Collected
  <2> QED BY <2>1, <2>3, <2>6 DEF QuietVerdict, OneVerdict
<1>5. CASE RecordFailure(r) \/ Overflow(r)
  <2>1. /\ UNCHANGED <<dirs, artifact, summary, task, rows>>
        /\ pc' = [pc EXCEPT ![r] = "declined"]
        /\ pc[r] \in {"draining", "packing"}
    BY <1>5 DEF RecordFailure, Overflow, Goto
  <2>2. pc[r] \in Claimed \ {"packed"}
    BY <2>1 DEF Claimed
  <2>3. summary = None /\ artifact = None
    BY <2>2 DEF Undecided
  <2>4. \A b \in Blocks : task[r][b] \in Finished
    BY <1>5 DEF RecordFailure, Overflow, Goto, Collected, Finished
  <2>5. /\ \A s \in Runners : pc'[s] \notin Claimed
        /\ \A s \in Runners, b \in Blocks : task[s][b] \in Finished \cup {"idle"}
    BY <2>1, <2>2, <2>4, Alone DEF ControlInv, ControlType, Claimed
  <2>6. Undecided'
    BY <2>1, <2>2, <2>5, Alone, RunAssumption DEF Undecided, Owner
  <2>7. Collected'
    BY <2>1 DEF Collected, ControlInv, ControlType
  <2> QED BY <2>1, <2>3, <2>5, <2>6, <2>7 DEF QuietVerdict, OneVerdict
<1>6. CASE Pack(r)
  <2>1. /\ UNCHANGED <<dirs, summary, failure, task, rows>>
        /\ pc[r] = "packing" /\ pc' = [pc EXCEPT ![r] = "packed"]
    BY <1>6 DEF Pack, Goto
  <2>2. pc[r] \in Claimed
    BY <2>1 DEF Claimed
  <2>3. summary = None /\ failure = None
    BY <2>2 DEF Undecided
  <2>4. \A s \in Runners : pc'[s] \in Claimed => pc'[s] = "packed"
    BY <2>1, <2>2, Alone DEF ControlInv, ControlType
  <2>5. Undecided'
    BY <2>1, <2>2, <2>3, <2>4, Alone, RunAssumption DEF Undecided, Owner
  <2>6. Collected'
    BY <2>1 DEF Collected, ControlInv, ControlType
  <2> QED BY <2>1, <2>3, <2>5, <2>6 DEF QuietVerdict, OneVerdict
<1>7. CASE WriteSummary(r)
  <2>1. /\ UNCHANGED <<dirs, artifact, failure, task, rows>>
        /\ pc[r] = "packed" /\ pc' = [pc EXCEPT ![r] = "published"]
    BY <1>7 DEF WriteSummary, Goto
  <2>2. pc[r] \in Claimed
    BY <2>1 DEF Claimed
  <2>3. failure = None
    BY <2>2 DEF Undecided
  <2>4. \A b \in Blocks : task[r][b] = "done"
    BY <2>1 DEF Collected
  <2>5. /\ \A s \in Runners : pc'[s] \notin Claimed
        /\ \A s \in Runners, b \in Blocks : task[s][b] \in Finished \cup {"idle"}
    BY <2>1, <2>2, <2>4, Alone DEF ControlInv, ControlType, Claimed, Finished
  <2>6. Undecided'
    BY <2>1, <2>2, <2>5, Alone, RunAssumption DEF Undecided, Owner
  <2>7. Collected'
    BY <2>1 DEF Collected, ControlInv, ControlType
  <2> QED BY <2>1, <2>3, <2>5, <2>6, <2>7 DEF QuietVerdict, OneVerdict
<1> QED BY <1>1, <1>2, <1>3, <1>4, <1>5, <1>6, <1>7 DEF Main

LEMMA VerdictWorker ==
  ASSUME VerdictInv, NEW r \in Runners, NEW b \in Blocks, Worker(r, b), ControlInv'
  PROVE  VerdictInv'
<1> USE DEF disk, documents, outcome, environment, gate, pool, VerdictInv
<1>1. /\ UNCHANGED <<dirs, outcome, pc, rows>>
      /\ \E from \in Busy \cup {"queued"}, to \in TaskStates : Advance(r, b, from, to)
  BY DEF Worker, Take, Spawn, EncoderExits, EncoderFails, Audit, Capture, Busy, TaskStates, Finished
<1>2. /\ task[r][b] \in Busy \cup {"queued"}
      /\ \A s \in Runners, c \in Blocks : task[s][c] = "done" => task'[s][c] = "done"
  BY <1>1 DEF Advance, ControlInv, ControlType, Busy
<1>3. summary = None /\ failure = None
  BY <1>2 DEF QuietVerdict, Busy, Finished
<1>4. Undecided'
  BY <1>1 DEF Undecided, Owner
<1>5. Collected'
  BY <1>1, <1>2 DEF Collected
<1> QED BY <1>1, <1>3, <1>4, <1>5 DEF QuietVerdict, OneVerdict

LEMMA VerdictOutside == ASSUME VerdictInv, Outside, ControlInv' PROVE VerdictInv'
<1> USE DEF disk, documents, outcome, environment, gate, pool, VerdictInv
<1>1. /\ UNCHANGED <<dirs, outcome, task, rows>>
      /\ pc' = pc \/ \E r \in Runners : pc' = [pc EXCEPT ![r] = "crashed"]
  BY DEF Outside, Crash, Edit, DriftRuntime, DriftFile, DriftManifest, DriftLock, Reseal,
     DriftEncoded
<1>2. \A r \in Runners : pc'[r] = pc[r] \/ pc'[r] = "crashed"
  BY <1>1 DEF ControlInv, ControlType
<1>3. Undecided' /\ Collected'
  BY <1>1, <1>2 DEF Undecided, Collected, Owner, Claimed
<1> QED BY <1>1, <1>3 DEF QuietVerdict, OneVerdict

LEMMA Verdict == Spec => []VerdictInv
<1>1. ASSUME VerdictInv, UNCHANGED vars PROVE VerdictInv'
  BY <1>1, ControlNext DEF vars, disk, documents, outcome, environment, gate, pool, VerdictInv,
     Undecided, Collected, QuietVerdict, OneVerdict, Owner
<1>2. VerdictInv /\ [Next]_vars => VerdictInv'
  BY <1>1, ControlNext, VerdictMain, VerdictWorker, VerdictOutside DEF Next, VerdictInv
<1> QED BY VerdictInit, <1>2, PTL DEF Spec

\* No summary or failure record is written while an encoder is running or queued.
THEOREM VerdictIsQuiet == Spec => []QuietVerdict
<1>1. VerdictInv => QuietVerdict
  BY DEF VerdictInv
<1> QED BY <1>1, Verdict, PTL

\* A failure record never stands beside a summary or an artifact.
THEOREM VerdictIsOne == Spec => []OneVerdict
<1>1. VerdictInv => OneVerdict
  BY DEF VerdictInv
<1> QED BY <1>1, Verdict, PTL

-----------------------------------------------------------------------------
(* What is known of the published artifact                                 *)

\* A launch that is to pack finds the assets of its lock, unless they were
\* replaced after it looked.
Rechecked ==
  \A r \in Runners : pc[r] = "packing" => late \/ files[Assets] = held[r].lock.digest[Assets]

\* An artifact of what r was verified to encode.
ArtifactOf(r) ==
  /\ artifact.assets # Altered
  /\ late \/ artifact.assets = held[r].lock.digest[Assets]
  /\ \A b \in Blocks :
       /\ artifact.payload[b].ver = Original
       /\ artifact.payload[b].block = b
       /\ artifact.payload[b].source = held[r].lock.digest[b]
       /\ artifact.payload[b].engine = frozen[r]["engine"]

\* The launch remembers the lock it verified and the installation it started
\* on, and from a certain step on the intent repeats them.
Remembered(r) ==
  /\ frozen[r] # None /\ frozen[r]["engine"] = Altered => runtime["engine"] = Altered
  /\ pc[r] \in Claimed \cup {"gated"} => frozen[r] # None
  /\ pc[r] \in Verified =>
       /\ held[r] \in [manifest : Manifests, lock : Locks]
       /\ pc[r] \notin {"packing", "packed"} => held[r].manifest.digest = held[r].lock.digest
  /\ pc[r] \in Intended =>
       intent \in Intents /\ intent.lock = held[r].lock /\ intent.runtime = frozen[r]
  /\ pc[r] \in Claimed \ Intended => intent = None
  /\ pc[r] = "packed" => ArtifactOf(r)

\* The container that the metadata names is the encoder's, whatever became of
\* the files.
Made(b) ==
  encoded[b] # None =>
    LET literal == encoded[b].meta.literal
    IN  /\ literal.block = b /\ literal.ver = Original
        /\ literal.source = encoded[b].meta.source
        /\ literal.engine \in {Original, Altered}
        /\ literal.engine = Altered => runtime["engine"] = Altered

\* An engine that was altered at the start is the one that encodes; one that is
\* still the original at the audit was the original when the block was encoded.
Delivered(r, b) ==
  /\ task[r][b] # "idle" => intent # None /\ frozen[r] # None
  /\ task[r][b] \in {"exited", "audited", "done"} =>
       /\ encoded[b] # None
       /\ frozen[r]["engine"] = Altered => encoded[b].meta.literal.engine = Altered
  /\ pc[r] \in Claimed /\ task[r][b] \in {"audited", "done"} =>
       /\ encoded[b].meta.source = held[r].lock.digest[b]
       /\ encoded[b].meta.literal.engine = frozen[r]["engine"]

Genuine ==
  /\ Owner = None => intent = None
  /\ \A r \in Runners : Remembered(r)
  /\ \A b \in Blocks : Made(b)
  /\ \A r \in Runners, b \in Blocks : Delivered(r, b)
  /\ PublishedGenuine

Base == Typed /\ VerdictInv

LEMMA BaseAlways == Spec => []Base
BY TypedAlways, Verdict, PTL DEF Base

LEMMA GenuineInit == Init => Genuine
<1> SUFFICES ASSUME Init PROVE Genuine
  OBVIOUS
<1>1. \A r \in Runners : Remembered(r)
  BY DEF Init, Remembered, Claimed, Verified, Locked, Manifested, Staged, Intended
<1>2. \A b \in Blocks : Made(b)
  BY DEF Init, Made
<1>3. \A r \in Runners, b \in Blocks : Delivered(r, b)
  BY DEF Init, Delivered
<1> QED BY <1>1, <1>2, <1>3 DEF Init, Genuine, PublishedGenuine

\* Only the re-verification leads to the packing, and only an edit changes the
\* assets before the packing is done.
LEMMA RecheckedMain ==
  ASSUME Base, Rechecked, NEW r \in Runners, Main(r)
  PROVE  Rechecked'
<1> USE DEF disk, documents, outcome, environment, gate, pool
<1>0. pc \in [Runners -> Steps] /\ held \in [Runners -> [manifest : Manifests,
                                                      lock : Locks \cup {None}] \cup {None}]
  BY DEF Base, Typed, TypeOK
<1>1. CASE Recheck(r) /\ pc'[r] = "packing"
  <2>1. /\ pc[r] = "encoded" /\ pc' = [pc EXCEPT ![r] = "packing"]
        /\ SealHolds /\ lock = held[r].lock /\ held' = [held EXCEPT ![r].manifest = manifest]
        /\ UNCHANGED <<files, late>>
    BY <1>0, <1>1 DEF Recheck, Goto
  <2>2. held[r] \in [manifest : Manifests, lock : Locks \cup {None}]
    BY <2>1 DEF Base, Typed, Present, Manifested, Locked, Staged, Claimed
  <2> DEFINE new == [held[r] EXCEPT !.manifest = manifest]
  <2>3. new.lock = held[r].lock
    BY <2>2
  <2>4. held'[r] = new /\ \A s \in Runners \ {r} : held'[s] = held[s]
    BY <1>0, <2>1
  <2> HIDE DEF new
  <2>5. files[Assets] = held'[r].lock.digest[Assets]
    BY <2>1, <2>3, <2>4 DEF SealHolds, Sealable
  <2> QED BY <1>0, <2>1, <2>4, <2>5 DEF Rechecked
<1>2. CASE Stage(r) \/ SealManifest(r)
  <2>1. /\ pc[r] \in Claimed /\ pc'[r] # "packing"
        /\ \A s \in Runners \ {r} : pc'[s] = pc[s]
    BY <1>0, <1>2 DEF Stage, SealManifest, Goto, Claimed, Staged
  <2>2. \A s \in Runners \ {r} : pc[s] # "packing"
    BY <2>1, Alone DEF Base, VerdictInv, Claimed
  <2> QED BY <2>1, <2>2 DEF Rechecked
<1>3. ASSUME UNCHANGED <<files, late>>, pc'[r] # "packing",
             \A s \in Runners \ {r} : UNCHANGED <<pc[s], held[s]>>
      PROVE  Rechecked'
  BY <1>3 DEF Rechecked
<1>4. CASE \/ Gate(r) \/ Refuse(r) \/ ClaimDir(r) \/ StageFails(r) \/ SealLock(r)
           \/ WriteIntent(r) \/ OpenPool(r)
  BY <1>0, <1>3, <1>4 DEF Gate, Refuse, ClaimDir, StageFails, SealLock, WriteIntent, OpenPool, Goto
<1>5. CASE VerifySeal(r)
  BY <1>0, <1>3, <1>5 DEF VerifySeal, Goto
<1>6. CASE \/ \E b \in Blocks : Collect(r, b)
           \/ RecordFailure(r) \/ ClosePool(r)
           \/ Pack(r) \/ Overflow(r) \/ PackFails(r) \/ WriteSummary(r)
  BY <1>0, <1>3, <1>6 DEF Collect, RecordFailure, ClosePool, Pack, Overflow, PackFails,
     WriteSummary, Goto
<1>7. CASE Recheck(r) /\ pc'[r] # "packing"
  BY <1>0, <1>3, <1>7 DEF Recheck, Goto
<1> QED BY <1>1, <1>2, <1>4, <1>5, <1>6, <1>7 DEF Main

\* An edit of the assets under a launch that is to pack is recorded.
LEMMA RecheckedOutside ==
  ASSUME Base, Rechecked, Outside \/ UNCHANGED vars
  PROVE  Rechecked'
<1> USE DEF disk, documents, outcome, environment, gate, pool
<1>0. pc \in [Runners -> Steps] /\ files \in [Sealable -> Contents \cup {None}]
  BY DEF Base, Typed, TypeOK
<1>1. ASSUME NEW f \in Sealable, DriftFile(f) PROVE Rechecked'
  <2>1. UNCHANGED <<pc, held>>
    BY <1>1 DEF DriftFile, Edit
  <2>2. CASE f = Assets
    BY <1>1, <2>1, <2>2 DEF DriftFile, Rechecked
  <2>3. CASE f # Assets
    BY <1>0, <1>1, <2>1, <2>3 DEF DriftFile, Rechecked, Sealable
  <2> QED BY <2>2, <2>3
<1>2. CASE UNCHANGED <<late, files, held>> /\ \A r \in Runners : pc'[r] \in {pc[r], "crashed"}
  BY <1>2 DEF Rechecked
<1>3. ASSUME NEW r \in Runners, Crash(r) PROVE Rechecked'
  BY <1>0, <1>2, <1>3 DEF Crash
<1>4. CASE \/ \E p \in Parts : DriftRuntime(p)
           \/ DriftManifest \/ DriftLock \/ Reseal \/ UNCHANGED vars
           \/ \E b \in Blocks, part \in {"meta", "container"} : DriftEncoded(b, part)
  BY <1>2, <1>4 DEF DriftRuntime, DriftManifest, DriftLock, Reseal, DriftEncoded, Edit, vars
<1> QED BY <1>1, <1>3, <1>4 DEF Outside

LEMMA RecheckedAlways == Spec => [](Base /\ Rechecked)
<1>1. Init => Rechecked
  BY DEF Init, Rechecked
<1>2. ASSUME Rechecked, NEW r \in Runners, NEW b \in Blocks, Worker(r, b) PROVE Rechecked'
  BY <1>2 DEF Worker, Take, Spawn, EncoderExits, EncoderFails, Audit, Capture, Rechecked,
     environment, disk, gate
<1>3. Base /\ Rechecked /\ [Next]_vars => Rechecked'
  BY <1>2, RecheckedMain, RecheckedOutside DEF Next
<1> QED BY <1>1, <1>3, BaseAlways, PTL DEF Spec

\* A step of main leaves the others' parts of the invariant.
LEMMA GenuineStep ==
  ASSUME Base, Genuine, NEW r \in Runners, NEW to \in Steps,
         pc' = [pc EXCEPT ![r] = to],
         UNCHANGED <<runtime, late, encoded, summary>>,
         \A s \in Runners \ {r} : UNCHANGED <<frozen[s], held[s], task[s]>>,
         \/ Owner = r /\ pc[r] \in Claimed
         \/ Owner = None /\ UNCHANGED <<intent, artifact>>
         \/ UNCHANGED <<intent, artifact>>,
         summary = None \/ UNCHANGED <<intent, artifact>>,
         Owner' = None => intent' = None,
         Remembered(r)', \A b \in Blocks : Delivered(r, b)'
  PROVE  Genuine'
<1>1. ASSUME NEW s \in Runners \ {r} PROVE Remembered(s)' /\ \A b \in Blocks : Delivered(s, b)'
  <2>1. /\ UNCHANGED <<pc[s], frozen[s], held[s], task[s], runtime, encoded>>
        /\ Remembered(s) /\ \A b \in Blocks : Delivered(s, b)
    BY DEF Base, VerdictInv, ControlInv, ControlType, Genuine
  <2>2. CASE UNCHANGED <<intent, artifact>>
    BY <2>1, <2>2 DEF Remembered, Delivered, ArtifactOf
  <2>3. CASE Owner = r /\ pc[r] \in Claimed
    <3>1. pc[s] \notin Claimed /\ \A b \in Blocks : task[s][b] = "idle"
      BY <2>3, Alone DEF Base, VerdictInv
    <3>2. \A x : x \in Verified \/ x \in Intended \/ x = "packed" => x \in Claimed
      BY DEF Claimed, Staged, Manifested, Locked, Verified, Intended
    <3> QED BY <2>1, <3>1, <3>2 DEF Remembered, Delivered
  <2> QED BY <2>2, <2>3
<1>2. \A b \in Blocks : Made(b)'
  BY DEF Genuine, Made
<1>3. PublishedGenuine'
  BY DEF Genuine, PublishedGenuine
<1> QED BY <1>1, <1>2, <1>3 DEF Genuine

\* A launch gives up.
LEMMA GenuineLeave ==
  ASSUME Base, Genuine, NEW r \in Runners, NEW to \in Terminal,
         pc' = [pc EXCEPT ![r] = to],
         UNCHANGED <<runtime, late, encoded, summary, frozen, held, task, intent, artifact>>,
         Owner' = None => Owner = None
  PROVE  Genuine'
<1>1. pc'[r] = to /\ to \in Steps /\ Remembered(r) /\ \A b \in Blocks : Delivered(r, b)
  BY DEF Base, VerdictInv, ControlInv, ControlType, Genuine, Steps
<1>2. to \notin Claimed \cup {"gated"}
  BY DEF Terminal, Claimed
<1>3. Remembered(r)'
  BY <1>1, <1>2 DEF Remembered, Verified, Locked, Manifested, Staged, Intended, Claimed
<1>4. \A b \in Blocks : Delivered(r, b)'
  BY <1>1, <1>2 DEF Delivered
<1> QED BY <1>1, <1>3, <1>4, GenuineStep DEF Genuine

\* A launch that has its directory goes on and remembers what it did.
LEMMA GenuineMove ==
  ASSUME Base, Genuine, NEW r \in Runners, NEW from \in Claimed, NEW to \in Claimed,
         Goto(r, from, to), to # "packed",
         to \in {"packing", "packed"} \/ from \notin {"packing", "packed"},
         to \in Verified => from \in Verified,
         to \in Intended <=> from \in Intended,
         UNCHANGED <<runtime, late, encoded, summary, frozen, held, task, intent, artifact>>,
         Owner' = None => Owner = None
  PROVE  Genuine'
<1>1. /\ pc'[r] = to /\ pc[r] = from /\ to \in Steps /\ pc' = [pc EXCEPT ![r] = to]
      /\ Remembered(r) /\ \A b \in Blocks : Delivered(r, b)
  BY DEF Base, VerdictInv, ControlInv, ControlType, Genuine, Steps, Goto, Claimed
<1>2. Remembered(r)'
  BY <1>1 DEF Remembered
<1>3. \A b \in Blocks : Delivered(r, b)'
  BY <1>1 DEF Delivered
<1> QED BY <1>1, <1>2, <1>3, GenuineStep DEF Genuine

\* Up to the intent no block has been encoded.
LEMMA NotYet ==
  ASSUME Base, NEW r \in Runners, pc[r] \in Claimed \ Pooled
  PROVE  Owner = r /\ \A b \in Blocks : task[r][b] = "idle"
BY DEF Base, VerdictInv, ControlInv, Ownership

\* The steps before the pool.
LEMMA GenuineEarly ==
  ASSUME Base, Genuine, NEW r \in Runners,
         \/ Gate(r) \/ Refuse(r) \/ ClaimDir(r) \/ Stage(r) \/ StageFails(r)
         \/ SealManifest(r) \/ SealLock(r) \/ VerifySeal(r) \/ WriteIntent(r) \/ OpenPool(r)
  PROVE  Genuine'
<1> USE DEF disk, documents, outcome, environment, gate, pool
<1>0. /\ Remembered(r) /\ \A b \in Blocks : Delivered(r, b)
      /\ pc \in [Runners -> Steps] /\ dirs \in [Directories -> Runners \cup {None}]
      /\ Owner = None => intent = None
      /\ Owner # r => \A b \in Blocks : task[r][b] = "idle"
      /\ runtime \in [Parts -> {Original, Altered}]
  BY DEF Base, Typed, TypeOK, VerdictInv, ControlInv, ControlType, Ownership, Genuine
<1>1. CASE Gate(r)
  <2> DEFINE snapshot == [p \in SnapshotParts |-> runtime[p]]
  <2>1. snapshot \in Snapshots /\ snapshot["engine"] = runtime["engine"]
    BY <1>0 DEF Snapshots, Parts, SnapshotParts
  <2>2. /\ pc' = [pc EXCEPT ![r] = "gated"] /\ pc'[r] = "gated" /\ "gated" \in Steps
        /\ frozen' = [frozen EXCEPT ![r] = snapshot] /\ Owner = None
        /\ UNCHANGED <<runtime, late, encoded, summary, held, task, intent, artifact, dirs>>
    BY <1>0, <1>1 DEF Gate, Goto, Steps, Owner
  <2>3. frozen'[r] = snapshot /\ snapshot # None /\ \A s \in Runners \ {r} : frozen'[s] = frozen[s]
    BY <2>1, <2>2, NoneAssumption DEF Base, Typed, TypeOK
  <2> HIDE DEF snapshot
  <2>4. Remembered(r)'
    BY <2>1, <2>2, <2>3
    DEF Remembered, Claimed, Staged, Manifested, Locked, Verified, Intended
  <2>5. \A b \in Blocks : Delivered(r, b)'
    BY <1>0, <2>2, RunAssumption DEF Delivered
  <2>6. Owner' = None => intent' = None
    BY <1>0, <2>2 DEF Owner
  <2> QED BY <2>2, <2>3, <2>4, <2>5, <2>6, GenuineStep
<1>2. CASE Refuse(r) \/ StageFails(r)
  <2>1. \E to \in Terminal : pc' = [pc EXCEPT ![r] = to]
    BY <1>2 DEF Refuse, StageFails, Goto, Terminal
  <2> QED BY <1>2, <2>1, GenuineLeave DEF Refuse, StageFails, Owner
<1>3. CASE ClaimDir(r)
  <2>1. UNCHANGED <<runtime, late, encoded, summary, frozen, held, task, intent, artifact>>
    BY <1>3 DEF ClaimDir
  <2>2. CASE Goto(r, "gated", "refused") /\ UNCHANGED dirs
    BY <2>1, <2>2, GenuineLeave DEF Goto, Terminal, Owner
  <2>3. CASE Goto(r, "gated", "claimed") /\ Mkdir(r, "output")
    <3>1. Owner = None /\ Owner' = r /\ r # None
      BY <1>0, <2>3, RunAssumption DEF Mkdir, MkdirRaises, Owner, Directories
    <3>2. /\ pc[r] = "gated" /\ pc' = [pc EXCEPT ![r] = "claimed"] /\ pc'[r] = "claimed"
          /\ "claimed" \in Steps
      BY <1>0, <2>3 DEF Goto, Steps
    <3>3. Remembered(r)'
      BY <1>0, <2>1, <3>1, <3>2
      DEF Remembered, Claimed, Staged, Manifested, Locked, Verified, Intended
    <3>4. \A b \in Blocks : Delivered(r, b)'
      BY <1>0, <2>1, <3>1, <3>2 DEF Delivered
    <3> QED BY <2>1, <3>1, <3>2, <3>3, <3>4, GenuineStep
  <2> QED BY <1>3, <2>2, <2>3 DEF ClaimDir
<1>4. CASE Stage(r) \/ SealLock(r)
  <2>1. \/ Goto(r, "claimed", "staged")
        \/ Goto(r, "manifested", "locked")
    BY <1>4 DEF Stage, SealLock
  <2>2. UNCHANGED <<runtime, late, encoded, summary, frozen, held, task, intent, artifact>>
    BY <1>4 DEF Stage, SealLock
  <2>3. Owner' = Owner
    BY <1>0, <1>4 DEF Stage, SealLock, Mkdir, Owner, Directories
  <2> QED BY <2>1, <2>2, <2>3, GenuineMove
      DEF Claimed, Staged, Manifested, Locked, Verified, Intended
<1>5. CASE SealManifest(r) \/ VerifySeal(r)
  <2>1. UNCHANGED <<runtime, late, encoded, summary, frozen, task, intent, artifact, dirs>>
    BY <1>5 DEF SealManifest, VerifySeal
  <2>2. CASE UNCHANGED held /\ \E from \in Steps : Goto(r, from, "aborted")
    BY <2>1, <2>2, GenuineLeave DEF Goto, Terminal, Owner
  <2>3. ASSUME NEW from \in {"staged", "locked"}, NEW to \in {"manifested", "verified"},
               Goto(r, from, to), \A s \in Runners \ {r} : held'[s] = held[s],
               to = "verified" =>
                 /\ held'[r] \in [manifest : Manifests, lock : Locks]
                 /\ held'[r].manifest.digest = held'[r].lock.digest
        PROVE  Genuine'
    <3>1. /\ pc[r] = from /\ pc' = [pc EXCEPT ![r] = to] /\ pc'[r] = to /\ to \in Steps
          /\ from \in Claimed \ Pooled /\ from \notin Intended
          /\ to \in Claimed \ Intended /\ to # "packed" /\ (to \in Verified => to = "verified")
      BY <1>0, <2>3
      DEF Goto, Steps, Claimed, Staged, Manifested, Locked, Verified, Intended, Pooled
    <3>2. Owner = r /\ \A b \in Blocks : task[r][b] = "idle"
      BY <3>1, NotYet
    <3>3. Remembered(r)'
      BY <1>0, <2>1, <2>3, <3>1 DEF Remembered
    <3>4. \A b \in Blocks : Delivered(r, b)'
      BY <1>0, <2>1, <3>2 DEF Delivered
    <3> QED BY <1>0, <2>1, <2>3, <3>1, <3>2, <3>3, <3>4, GenuineStep DEF Owner
  <2>4. CASE SealManifest(r)
    <3>1. CASE Goto(r, "staged", "aborted") /\ UNCHANGED held
      BY <2>2, <3>1 DEF Steps
    <3>2. CASE /\ Goto(r, "staged", "manifested")
               /\ held' = [held EXCEPT ![r] = [manifest |-> manifest', lock |-> None]]
      BY <2>3, <3>2 DEF Base, Typed, TypeOK
    <3> QED BY <2>4, <3>1, <3>2 DEF SealManifest
  <2>5. CASE VerifySeal(r)
    <3>1. CASE /\ Goto(r, "locked", "verified") /\ SealHolds
               /\ held' = [held EXCEPT ![r] = [manifest |-> manifest, lock |-> lock]]
      <4>1. pc[r] = "locked" /\ lock \in Locks /\ manifest \in Manifests
        BY <3>1 DEF Goto, Base, Typed, Present, Manifested, Locked, Staged, Claimed
      <4>2. /\ held'[r] = [manifest |-> manifest, lock |-> lock]
            /\ \A s \in Runners \ {r} : held'[s] = held[s]
        BY <3>1 DEF Base, Typed, TypeOK
      <4>3. manifest.digest = lock.digest
        BY <3>1 DEF SealHolds
      <4> QED BY <2>3, <3>1, <4>1, <4>2, <4>3
    <3>2. CASE Goto(r, "locked", "aborted") /\ UNCHANGED held
      BY <2>2, <3>2 DEF Steps
    <3> QED BY <2>5, <3>1, <3>2 DEF VerifySeal
  <2> QED BY <1>5, <2>4, <2>5
<1>6. CASE WriteIntent(r)
  <2>1. /\ pc[r] = "verified" /\ pc' = [pc EXCEPT ![r] = "intended"] /\ pc'[r] = "intended"
        /\ "intended" \in Steps
        /\ UNCHANGED <<runtime, late, encoded, summary, frozen, held, task, artifact, dirs>>
        /\ intent' = [lockFile |-> lock, lock |-> held[r].lock, manifest |-> manifest,
                      runtime |-> frozen[r]]
    BY <1>0, <1>6 DEF WriteIntent, Goto, Steps
  <2>2. lock \in Locks /\ manifest \in Manifests
    BY <2>1 DEF Base, Typed, Present, Manifested, Locked, Staged, Claimed
  <2>3. frozen[r] \in Snapshots /\ held[r] \in [manifest : Manifests, lock : Locks]
        /\ held[r].manifest.digest = held[r].lock.digest
        /\ frozen[r] # None
    BY <1>0, <2>1
    DEF Remembered, Base, Typed, TypeOK, Snapshots, Verified, Locked, Manifested, Staged, Claimed
  <2>4. intent' \in Intents /\ intent' # None
    <3>1. held[r].lock \in Locks
      BY <2>3
    <3> DEFINE sealed == [lockFile |-> lock, lock |-> held[r].lock, manifest |-> manifest,
                          runtime |-> frozen[r]]
    <3>2. sealed \in Intents
      BY <2>2, <2>3, <3>1 DEF Intents
    <3>3. intent' = sealed
      BY <2>1
    <3> HIDE DEF sealed
    <3> QED BY <3>2, <3>3, NoneAssumption
  <2>5. Remembered(r)'
    <3>1. "intended" \in Intended /\ "intended" # "packed"
      BY DEF Intended, Verified, Locked, Manifested, Staged, Claimed
    <3>2. intent'.lock = held[r].lock /\ intent'.runtime = frozen[r]
      BY <2>1
    <3> QED BY <1>0, <2>1, <2>3, <2>4, <3>1, <3>2 DEF Remembered
  <2>6. \A b \in Blocks : task[r][b] = "idle" /\ Owner = r
    BY <2>1, NotYet DEF Claimed, Pooled, Intended, Verified, Locked, Manifested, Staged
  <2>7. \A b \in Blocks : Delivered(r, b)'
    BY <2>1, <2>6 DEF Delivered
  <2>8. summary = None /\ pc[r] \in Claimed
    BY <2>1 DEF Base, VerdictInv, Undecided, Claimed
  <2>9. Owner = r /\ Owner' = r /\ r # None
    BY <2>1, <2>8, Alone, RunAssumption DEF Owner, Base, VerdictInv
  <2> QED BY <2>1, <2>5, <2>7, <2>8, <2>9, GenuineStep
<1>7. CASE OpenPool(r)
  <2>1. /\ UNCHANGED <<runtime, late, encoded, summary, frozen, held, intent, artifact>>
        /\ Owner' = Owner
    BY <1>0, <1>7 DEF OpenPool, Mkdir, Owner, Directories
  <2>2. CASE Goto(r, "intended", "aborted") /\ UNCHANGED task
    BY <2>1, <2>2, GenuineLeave DEF Goto, Terminal
  <2>3. CASE /\ Goto(r, "intended", "pool")
             /\ task' = [task EXCEPT ![r] = [b \in Blocks |-> "queued"]]
    <3>1. /\ pc[r] = "intended" /\ pc' = [pc EXCEPT ![r] = "pool"] /\ pc'[r] = "pool"
          /\ "pool" \in Steps
          /\ \A b \in Blocks : task'[r][b] = "queued"
          /\ \A s \in Runners \ {r} : task'[s] = task[s]
      BY <1>0, <2>3 DEF Goto, Steps, Base, VerdictInv, ControlInv, ControlType
    <3>2. /\ {"intended", "pool"} \subseteq Intended
          /\ Intended \subseteq Verified /\ Intended \subseteq Claimed
      BY DEF Intended, Verified, Locked, Manifested, Staged, Claimed
    <3>3. Remembered(r)'
      BY <1>0, <2>1, <3>1, <3>2 DEF Remembered
    <3>4. intent # None /\ frozen[r] # None
      BY <1>0, <3>1, <3>2, NoneAssumption DEF Remembered
    <3>5. \A b \in Blocks : Delivered(r, b)'
      BY <2>1, <3>1, <3>4 DEF Delivered
    <3> QED BY <1>0, <2>1, <3>1, <3>3, <3>5, GenuineStep
  <2> QED BY <1>7, <2>2, <2>3 DEF OpenPool
<1> QED BY <1>1, <1>2, <1>3, <1>4, <1>5, <1>6, <1>7

\* The steps from the pool on.
LEMMA GenuineLate ==
  ASSUME Base, Rechecked, Genuine, NEW r \in Runners,
         \/ \E b \in Blocks : Collect(r, b)
         \/ RecordFailure(r) \/ ClosePool(r) \/ Recheck(r)
         \/ Pack(r) \/ Overflow(r) \/ PackFails(r) \/ WriteSummary(r)
  PROVE  Genuine'
<1> USE DEF disk, documents, outcome, environment, gate, pool
<1>0. /\ Remembered(r) /\ \A b \in Blocks : Delivered(r, b) /\ Made(b)
      /\ pc \in [Runners -> Steps]
      /\ Owner = None => intent = None
  BY DEF Base, Typed, TypeOK, Genuine
<1>1. /\ {"pool", "draining", "encoded", "packing", "packed"} \subseteq Intended
      /\ Intended \subseteq Verified /\ Intended \subseteq Claimed
  BY DEF Intended, Verified, Locked, Manifested, Staged, Claimed
<1>2. /\ dirs' = dirs /\ Owner' = Owner
      /\ UNCHANGED <<runtime, late, encoded, frozen, task, intent>>
  BY DEF Collect, RecordFailure, ClosePool, Recheck, Pack, Overflow, PackFails, WriteSummary, Owner
<1>3. CASE (\E b \in Blocks : Collect(r, b)) \/ ClosePool(r)
  <2>1. UNCHANGED <<summary, held, artifact>>
    BY <1>3 DEF Collect, ClosePool
  <2>2. \E to \in {"pool", "draining", "encoded"} : Goto(r, "pool", to)
    BY <1>0, <1>3 DEF Collect, ClosePool, Goto
  <2> QED BY <1>1, <1>2, <2>1, <2>2, GenuineMove
<1>4. CASE RecordFailure(r) \/ Overflow(r) \/ PackFails(r)
  <2>1. UNCHANGED <<summary, held, artifact>>
    BY <1>4 DEF RecordFailure, Overflow, PackFails
  <2>2. \E to \in Terminal : pc' = [pc EXCEPT ![r] = to]
    BY <1>4 DEF RecordFailure, Overflow, PackFails, Goto, Terminal
  <2> QED BY <1>2, <2>1, <2>2, GenuineLeave
<1>5. CASE Recheck(r)
  <2>1. UNCHANGED <<summary, artifact>>
    BY <1>5 DEF Recheck
  <2>2. CASE Goto(r, "encoded", "aborted") /\ UNCHANGED held
    BY <1>2, <2>1, <2>2, GenuineLeave DEF Goto, Terminal
  <2>3. CASE Goto(r, "encoded", "packing") /\ held' = [held EXCEPT ![r].manifest = manifest]
    <3>1. /\ pc[r] = "encoded" /\ pc' = [pc EXCEPT ![r] = "packing"] /\ pc'[r] = "packing"
          /\ "packing" \in Steps
      BY <1>0, <2>3 DEF Goto, Steps
    <3>2. held[r] \in [manifest : Manifests, lock : Locks]
      BY <1>0, <1>1, <3>1 DEF Remembered
    <3>3. manifest \in Manifests
      BY <3>1 DEF Base, Typed, Present, Manifested, Staged, Claimed
    <3> DEFINE new == [held[r] EXCEPT !.manifest = manifest]
    <3>4. new \in [manifest : Manifests, lock : Locks] /\ new.lock = held[r].lock
      BY <3>2, <3>3
    <3>5. held'[r] = new /\ \A s \in Runners \ {r} : held'[s] = held[s]
      BY <2>3 DEF Base, Typed, TypeOK
    <3> HIDE DEF new
    <3>6. Remembered(r)'
      BY <1>0, <1>1, <1>2, <3>1, <3>2, <3>4, <3>5 DEF Remembered
    <3>7. \A b \in Blocks : Delivered(r, b)'
      BY <1>0, <1>1, <1>2, <3>1, <3>4, <3>5 DEF Delivered
    <3> QED BY <1>0, <1>2, <2>1, <3>1, <3>5, <3>6, <3>7, GenuineStep
  <2> QED BY <1>5, <2>2, <2>3 DEF Recheck
<1>6. CASE Pack(r)
  <2>1. /\ UNCHANGED <<summary, held>> /\ pc[r] = "packing" /\ pc' = [pc EXCEPT ![r] = "packed"]
        /\ pc'[r] = "packed" /\ "packed" \in Steps
        /\ artifact' = [payload |-> [b \in Blocks |-> encoded[b].container],
                        assets |-> files[Assets]]
        /\ \A b \in Blocks : Packable(r, b)
        /\ files[Assets] # Altered
        /\ late \/ files[Assets] = held[r].lock.digest[Assets]
    BY <1>0, <1>6 DEF Pack, Goto, Steps, HeaderValid, Rechecked
  <2>2. \A b \in Blocks : task[r][b] = "done"
    BY <2>1 DEF Base, VerdictInv, Collected
  <2>3. \A b \in Blocks : /\ encoded[b] # None
                          /\ encoded[b].meta.source = held[r].lock.digest[b]
                          /\ encoded[b].meta.literal.engine = frozen[r]["engine"]
    BY <1>0, <1>1, <2>1, <2>2 DEF Delivered
  <2>4. \A b \in Blocks : encoded[b].container = encoded[b].meta.literal
    BY <2>1 DEF Packable
  <2>5. \A b \in Blocks : artifact'.payload[b] = encoded[b].meta.literal
    BY <2>1, <2>4
  <2>6. ArtifactOf(r)'
    BY <1>0, <1>1, <1>2, <2>1, <2>3, <2>5 DEF ArtifactOf, Made, Remembered
  <2>7. Remembered(r)'
    BY <1>0, <1>1, <1>2, <2>1, <2>6 DEF Remembered
  <2>8. \A b \in Blocks : Delivered(r, b)'
    BY <1>0, <1>1, <1>2, <2>1 DEF Delivered
  <2>9. Owner = r /\ pc[r] \in Claimed /\ summary = None
    BY <1>1, <2>1, Alone DEF Base, VerdictInv, Undecided
  <2> QED BY <1>0, <1>2, <2>1, <2>7, <2>8, <2>9, GenuineStep
<1>7. CASE WriteSummary(r)
  <2>1. /\ UNCHANGED <<held, artifact>> /\ pc[r] = "packed"
        /\ pc'[r] = "published" /\ \A s \in Runners \ {r} : pc'[s] = pc[s]
        /\ summary' = [lockFile |-> lock, lock |-> held[r].lock, intent |-> intent,
                       rows |-> row[r]]
    BY <1>0, <1>7 DEF WriteSummary, Goto
  <2>2. intent.lock = held[r].lock /\ intent.runtime = frozen[r] /\ ArtifactOf(r)
    BY <1>0, <1>1, <2>1 DEF Remembered
  <2>3. PublishedGenuine'
    BY <1>2, <2>1, <2>2 DEF PublishedGenuine, ArtifactOf
  <2>4. \A s \in Runners : pc'[s] \in Claimed \cup {"gated"} => pc'[s] = pc[s]
    BY <2>1 DEF Claimed
  <2>5. \A s \in Runners : Remembered(s)'
    <3>1. \A x : x \in Verified \/ x \in Intended \/ x = "packed" => x \in Claimed
      BY DEF Claimed, Staged, Manifested, Locked, Verified, Intended
    <3> QED BY <1>2, <2>1, <2>4, <3>1 DEF Genuine, Remembered, ArtifactOf
  <2>6. \A s \in Runners, b \in Blocks : Delivered(s, b)'
    BY <1>2, <2>1, <2>4 DEF Genuine, Delivered
  <2>7. \A b \in Blocks : Made(b)'
    BY <1>2 DEF Genuine, Made
  <2> QED BY <1>0, <1>2, <2>3, <2>5, <2>6, <2>7 DEF Genuine
<1> QED BY <1>3, <1>4, <1>5, <1>6, <1>7

\* The futures and the encoders.
LEMMA GenuineWorker ==
  ASSUME Base, Genuine, NEW r \in Runners, NEW b \in Blocks, Worker(r, b)
  PROVE  Genuine'
<1> USE DEF disk, documents, outcome, environment, gate, pool
<1>0. /\ Remembered(r) /\ Delivered(r, b) /\ Made(b)
      /\ task \in [Runners -> [Blocks -> TaskStates]]
      /\ encoded \in [Blocks -> Outputs \cup {None}]
      /\ runtime \in [Parts -> {Original, Altered}]
      /\ frozen[r] \in Snapshots \cup {None}
  BY DEF Base, Typed, TypeOK, Genuine, Snapshots
<1>1. /\ UNCHANGED <<runtime, late, intent, summary, artifact, pc, frozen, held, dirs>>
      /\ \E from \in Busy \cup {"queued"}, to \in TaskStates : Advance(r, b, from, to)
      /\ task[r][b] # "idle"
  BY DEF Worker, Take, Spawn, EncoderExits, EncoderFails, Audit, Capture, Busy, TaskStates,
     Finished, Advance
<1>2. Owner = r
  BY <1>1 DEF Base, VerdictInv, ControlInv, Ownership
<1>3. \A s \in Runners, c \in Blocks : s # r \/ c # b => task'[s][c] = task[s][c]
  BY <1>0, <1>1 DEF Advance
<1>4. \A s \in Runners \ {r}, c \in Blocks : task[s][c] = "idle"
  BY <1>2 DEF Base, VerdictInv, ControlInv, Ownership
<1>5. \A s \in Runners : Remembered(s)'
  BY <1>1 DEF Genuine, Remembered, ArtifactOf
<1>6. ASSUME \A c \in Blocks \ {b} : encoded'[c] = encoded[c], Made(b)', Delivered(r, b)'
      PROVE  Genuine'
  <2>1. \A c \in Blocks : Made(c)'
    BY <1>1, <1>6 DEF Genuine, Made
  <2>2. ASSUME NEW s \in Runners, NEW c \in Blocks PROVE Delivered(s, c)'
    <3>1. CASE s # r
      BY <1>1, <1>3, <1>4, <3>1 DEF Genuine, Delivered
    <3>2. CASE s = r /\ c # b
      BY <1>1, <1>3, <1>6, <3>2 DEF Genuine, Delivered
    <3> QED BY <1>6, <3>1, <3>2
  <2> QED BY <1>1, <1>5, <2>1, <2>2 DEF Genuine, PublishedGenuine, Owner
<1>7. CASE Take(r, b) \/ Spawn(r, b) \/ EncoderFails(r, b)
  <2>1. encoded' = encoded /\ task'[r][b] \in {"checked", "failed", "spawned"}
    BY <1>0, <1>7 DEF Take, Spawn, EncoderFails, Advance
  <2>2. Made(b)' /\ Delivered(r, b)'
    BY <1>0, <1>1, <2>1 DEF Made, Delivered
  <2> QED BY <1>6, <2>1, <2>2
<1>8. CASE EncoderExits(r, b)
  <2>1. PICK bytes \in Sizes :
          LET container == Payload(b, files[b], runtime["engine"], bytes)
          IN  encoded' = [encoded EXCEPT ![b] =
                [meta |-> [source |-> files[b], literal |-> container, ver |-> Original],
                 container |-> container]]
    BY <1>8 DEF EncoderExits
  <2>2. /\ encoded'[b].meta.literal = Payload(b, files[b], runtime["engine"], bytes)
        /\ encoded'[b].meta.source = files[b]
        /\ \A c \in Blocks \ {b} : encoded'[c] = encoded[c]
    BY <1>0, <2>1
  <2>3. task'[r][b] = "exited"
    BY <1>0, <1>8 DEF EncoderExits, Advance
  <2>4. encoded'[b] # None
    <3>1. files[b] \in Contents /\ runtime["engine"] \in Contents
      BY <1>0, <1>1 DEF Base, Typed, Present, Parts, SnapshotParts, Contents
    <3> DEFINE container == Payload(b, files[b], runtime["engine"], bytes)
               output == [meta |-> [source |-> files[b], literal |-> container, ver |-> Original],
                          container |-> container]
    <3>2. container \in Containers
      BY <3>1 DEF Payload, Containers, Contents
    <3>3. output \in Outputs
      BY <3>1, <3>2 DEF Outputs, Contents
    <3>4. encoded'[b] = output
      BY <1>0, <2>1
    <3> HIDE DEF output
    <3> QED BY <3>3, <3>4, NoneAssumption
  <2>5. Made(b)'
    <3>1. runtime["engine"] \in {Original, Altered}
      BY <1>0 DEF Parts, SnapshotParts
    <3> QED BY <1>1, <2>2, <3>1 DEF Made, Payload
  <2>6. frozen[r]["engine"] = Altered => encoded'[b].meta.literal.engine = Altered
    BY <1>0, <1>1, <2>2 DEF Delivered, Remembered, Payload
  <2>7. Delivered(r, b)'
    BY <1>0, <1>1, <2>3, <2>4, <2>6 DEF Delivered
  <2> QED BY <1>6, <2>2, <2>5, <2>7
<1>9. CASE Audit(r, b)
  <2>1. encoded' = encoded /\ task[r][b] = "exited" /\ pc[r] \in {"pool", "draining"}
    BY <1>9 DEF Audit, Advance, PoolLives
  <2>2. CASE task'[r][b] = "failed"
    <3>1. Made(b)' /\ Delivered(r, b)'
      BY <1>0, <1>1, <2>1, <2>2 DEF Made, Delivered
    <3> QED BY <1>6, <2>1, <3>1
  <2>3. CASE /\ task'[r][b] = "audited" /\ SnapshotHolds(r)
             /\ encoded[b].meta.source = held[r].manifest.digest[b]
    <3>1. runtime["engine"] = frozen[r]["engine"] /\ encoded[b] # None /\ frozen[r] # None
      BY <1>0, <2>1, <2>3 DEF SnapshotHolds, SnapshotParts, Delivered
    <3>2. frozen[r]["engine"] \in {Original, Altered}
      BY <1>0, <3>1 DEF Snapshots, SnapshotParts
    <3>3. encoded[b].meta.literal.engine \in {Original, Altered}
      BY <1>0, <3>1 DEF Made
    <3>4. held[r].manifest.digest = held[r].lock.digest
      BY <1>0, <2>1 DEF Remembered, Verified, Locked, Manifested, Staged, Claimed
    <3>5. /\ frozen[r]["engine"] = Altered => encoded[b].meta.literal.engine = Altered
          /\ encoded[b].meta.literal.engine = Altered => runtime["engine"] = Altered
      BY <1>0, <2>1, <3>1 DEF Delivered, Made
    <3>6. encoded[b].meta.literal.engine = frozen[r]["engine"]
      BY <3>1, <3>2, <3>3, <3>5
    <3>7. Made(b)' /\ Delivered(r, b)'
      BY <1>0, <1>1, <2>1, <2>3, <3>1, <3>4, <3>6 DEF Made, Delivered
    <3> QED BY <1>6, <2>1, <3>7
  <2> QED BY <1>0, <1>9, <2>2, <2>3 DEF Audit, Advance
<1>10. CASE Capture(r, b)
  <2>1. encoded' = encoded /\ task[r][b] = "audited" /\ task'[r][b] = "done"
    BY <1>0, <1>10 DEF Capture, Advance
  <2>2. Made(b)' /\ Delivered(r, b)'
    BY <1>0, <1>1, <2>1 DEF Made, Delivered
  <2> QED BY <1>6, <2>1, <2>2
<1> QED BY <1>7, <1>8, <1>9, <1>10 DEF Worker

\* Kills and edits.
LEMMA GenuineOutside ==
  ASSUME Base, Genuine, Outside \/ UNCHANGED vars
  PROVE  Genuine'
<1> USE DEF disk, documents, outcome, environment, gate, pool
<1>0. /\ pc \in [Runners -> Steps] /\ runtime \in [Parts -> {Original, Altered}]
      /\ encoded \in [Blocks -> Outputs \cup {None}]
      /\ Owner = None => intent = None
  BY DEF Base, Typed, TypeOK, Genuine
<1>1. CASE \E r \in Runners : Crash(r)
  <2>1. PICK r \in Runners : Crash(r)
    BY <1>1
  <2> QED BY <2>1, GenuineLeave DEF Crash, Terminal, Owner
<1>2. ASSUME UNCHANGED <<intent, summary, artifact, pc, frozen, held, task, dirs>>,
             late => late',
             runtime["engine"] = Altered => runtime'["engine"] = Altered,
             \A b \in Blocks : encoded[b] # None => encoded'[b] # None,
             \A b \in Blocks : encoded'[b] # None =>
               /\ encoded[b] # None
               /\ encoded'[b].meta.literal = encoded[b].meta.literal
               /\ encoded'[b].meta.source = encoded[b].meta.source
      PROVE  Genuine'
  <2>1. \A b \in Blocks : Made(b)'
    BY <1>2 DEF Genuine, Made
  <2>2. \A r \in Runners : Remembered(r)'
    BY <1>2 DEF Genuine, Remembered, ArtifactOf
  <2>3. \A r \in Runners, b \in Blocks : Delivered(r, b)'
    <3>1. ASSUME NEW r \in Runners, NEW b \in Blocks, task[r][b] \in {"audited", "done"}
          PROVE  encoded[b] # None
      BY <3>1 DEF Genuine, Delivered
    <3> QED BY <1>2, <3>1 DEF Genuine, Delivered
  <2>4. PublishedGenuine'
    BY <1>2 DEF Genuine, PublishedGenuine
  <2> QED BY <1>0, <1>2, <2>1, <2>2, <2>3, <2>4 DEF Genuine, Owner
<1>3. CASE \E p \in Parts : DriftRuntime(p)
  <2>1. runtime["engine"] = Altered => runtime'["engine"] = Altered
    BY <1>0, <1>3 DEF DriftRuntime, Parts, SnapshotParts
  <2> QED BY <1>2, <1>3, <2>1 DEF DriftRuntime, Edit
<1>4. CASE DriftManifest \/ DriftLock \/ Reseal \/ UNCHANGED vars
  BY <1>2, <1>4 DEF DriftManifest, DriftLock, Reseal, Edit, vars
<1>5. ASSUME NEW f \in Sealable, DriftFile(f) PROVE Genuine'
  <2>1. late => late'
    BY <1>5 DEF DriftFile
  <2>2. UNCHANGED <<intent, summary, artifact, pc, frozen, held, task, dirs, runtime, encoded>>
    BY <1>5 DEF DriftFile, Edit
  <2> QED BY <1>2, <2>1, <2>2
<1>6. ASSUME NEW b \in Blocks, NEW part \in {"meta", "container"}, DriftEncoded(b, part)
      PROVE  Genuine'
  <2>1. /\ UNCHANGED <<intent, summary, artifact, pc, frozen, held, task, dirs, runtime, late>>
        /\ encoded[b] # None /\ encoded' = [encoded EXCEPT ![b][part].ver = Altered]
    BY <1>6 DEF DriftEncoded, Edit
  <2>2. encoded[b] \in Outputs
    BY <1>0, <2>1
  <2>3. PICK new \in Outputs : /\ encoded' = [encoded EXCEPT ![b] = new]
                               /\ new.meta.literal = encoded[b].meta.literal
                               /\ new.meta.source = encoded[b].meta.source
    <3>1. CASE part = "meta"
      <4> DEFINE new == [encoded[b] EXCEPT !.meta.ver = Altered]
      <4>1. new \in Outputs /\ new.meta.literal = encoded[b].meta.literal
            /\ new.meta.source = encoded[b].meta.source
        BY <2>2 DEF Outputs, Contents
      <4>2. encoded' = [encoded EXCEPT ![b] = new]
        BY <2>1, <3>1
      <4> QED BY <4>1, <4>2
    <3>2. CASE part = "container"
      <4> DEFINE new == [encoded[b] EXCEPT !.container.ver = Altered]
      <4>1. new \in Outputs /\ new.meta = encoded[b].meta
        BY <2>2 DEF Outputs, Containers, Contents
      <4>2. encoded' = [encoded EXCEPT ![b] = new]
        BY <2>1, <3>2
      <4> QED BY <4>1, <4>2
    <3> QED BY <3>1, <3>2
  <2>4. encoded'[b] = new /\ new # None /\ \A c \in Blocks \ {b} : encoded'[c] = encoded[c]
    BY <1>0, <2>3, NoneAssumption
  <2> QED BY <1>2, <2>1, <2>3, <2>4
<1> QED BY <1>1, <1>3, <1>4, <1>5, <1>6 DEF Outside

LEMMA GenuineAlways == Spec => [](Base /\ Genuine)
<1>1. Base /\ Rechecked /\ Genuine /\ [Next]_vars => Genuine'
  BY GenuineEarly, GenuineLate, GenuineWorker, GenuineOutside DEF Next, Main
<1> QED BY <1>1, GenuineInit, RecheckedAlways, PTL DEF Spec

\* What a run publishes was encoded from the blocks that its intent's lock seals,
\* on the installation that its intent names.  Its header, route and labels are
\* consistent, and those of that lock if no edit came between the
\* re-verification and their reading.
THEOREM Published == Spec => []PublishedGenuine
<1>1. Genuine => PublishedGenuine
  BY DEF Genuine
<1> QED BY <1>1, GenuineAlways, PTL

-----------------------------------------------------------------------------
(* OneShot implements SealedRun                                            *)

\* What SealedRun sees.
Statuses == [b \in Blocks |-> BlockStatus(b)]
Decision == IF summary # None THEN "published" ELSE IF failure # None THEN "negative" ELSE "open"

LEMMA StatusOf ==
  ASSUME Base, NEW b \in Blocks, Owner # None
  PROVE  /\ task[Owner][b] \in {"idle", "queued", "checked"} => BlockStatus(b) = "unused"
         /\ task[Owner][b] = "spawned" => BlockStatus(b) = "running"
         /\ task[Owner][b] \in {"exited", "audited", "done"} => BlockStatus(b) = "encoded"
         /\ task[Owner][b] = "failed" => BlockStatus(b) = "rejected"
BY DEF BlockStatus

LEMMA StatusOfNext ==
  ASSUME Base', NEW b \in Blocks, Owner' # None
  PROVE  /\ task'[Owner'][b] \in {"idle", "queued", "checked"} => BlockStatus(b)' = "unused"
         /\ task'[Owner'][b] = "spawned" => BlockStatus(b)' = "running"
         /\ task'[Owner'][b] \in {"exited", "audited", "done"} => BlockStatus(b)' = "encoded"
         /\ task'[Owner'][b] = "failed" => BlockStatus(b)' = "rejected"
BY DEF BlockStatus

LEMMA Unclaimed ==
  ASSUME Owner = None, NEW b \in Blocks
  PROVE  BlockStatus(b) = "unused"
BY DEF BlockStatus

LEMMA ImplementsInit == Init => Abstract!Init
<1> SUFFICES ASSUME Init PROVE Abstract!Init
  OBVIOUS
<1>1. Statuses = [b \in Blocks |-> "unused"]
  BY Unclaimed DEF Init, Statuses, Owner, Directories
<1> QED BY <1>1 DEF Init, Abstract!Init, Statuses

\* A step that neither seals, nor decides, nor moves a future between statuses.
LEMMA Stutter ==
  ASSUME UNCHANGED <<intent, summary, failure>>, Statuses' = Statuses
  PROVE  [Abstract!Next]_(Abstract!vars)
BY DEF Abstract!vars, Statuses

LEMMA SameStatuses ==
  ASSUME UNCHANGED <<dirs, task>>
  PROVE  Statuses' = Statuses
BY DEF Statuses, BlockStatus, Owner

\* A launch that moves a future owns the directory, has sealed its intent and
\* not yet decided.
LEMMA Deciding ==
  ASSUME Base, Genuine, NEW r \in Runners,
         pc[r] \in Intended \/ \E b \in Blocks : task[r][b] \in Busy \cup {"queued"}
  PROVE  Owner = r /\ Owner # None /\ intent # None /\ summary = None /\ failure = None
<1>1. CASE pc[r] \in Intended
  <2>1. pc[r] \in Claimed
    BY <1>1 DEF Intended, Verified, Locked, Manifested, Staged, Claimed
  <2>2. Owner = r /\ summary = None /\ failure = None
    BY <2>1, Alone DEF Base, VerdictInv, Undecided
  <2>3. intent # None
    BY <1>1, NoneAssumption DEF Genuine, Remembered
  <2> QED BY <2>2, <2>3, RunAssumption
<1>2. CASE \E b \in Blocks : task[r][b] \in Busy \cup {"queued"}
  <2>1. PICK b \in Blocks : task[r][b] \in Busy \cup {"queued"}
    BY <1>2
  <2>2. task[r][b] \notin Finished \cup {"idle"}
    BY <2>1 DEF Busy, Finished
  <2>3. Owner = r /\ summary = None /\ failure = None
    BY <2>2 DEF Base, VerdictInv, ControlInv, Ownership, QuietVerdict
  <2>4. intent # None
    BY <2>2 DEF Genuine, Delivered
  <2> QED BY <2>3, <2>4, RunAssumption
<1> QED BY <1>1, <1>2

\* The steps of one future.
LEMMA ImplementsWorker ==
  ASSUME Base, Genuine, Base', NEW r \in Runners, NEW b \in Blocks, Worker(r, b)
  PROVE  [Abstract!Next]_(Abstract!vars)
<1> USE DEF disk, documents, outcome, environment, gate, pool
<1>0. /\ UNCHANGED <<dirs, intent, summary, failure>> /\ Owner' = Owner
      /\ task[r][b] \in Busy \cup {"queued"}
      /\ task \in [Runners -> [Blocks -> TaskStates]]
  BY DEF Worker, Take, Spawn, EncoderExits, EncoderFails, Audit, Capture, Busy, Advance, Owner,
     Base, Typed, TypeOK
<1>1. Owner = r /\ Owner # None /\ intent # None /\ summary = None /\ failure = None
  BY <1>0, Deciding
<1>2. Decision = "open" /\ Decision' = "open"
  BY <1>0, <1>1 DEF Decision
<1>3. ASSUME NEW from, NEW to, Advance(r, b, from, to)
      PROVE  /\ task[r][b] = from /\ task'[r][b] = to
             /\ \A c \in Blocks \ {b} : BlockStatus(c)' = BlockStatus(c)
  <2>1. /\ task[r][b] = from /\ task'[r][b] = to
        /\ \A c \in Blocks \ {b} : task'[r][c] = task[r][c]
    BY <1>0, <1>3 DEF Advance
  <2>2. ASSUME NEW c \in Blocks \ {b} PROVE BlockStatus(c)' = BlockStatus(c)
    <3>1. task[r][c] \in TaskStates /\ task'[r][c] = task[r][c]
      BY <1>0, <2>1, <2>2
    <3> QED BY <1>0, <1>1, <2>2, <3>1, StatusOf, StatusOfNext DEF TaskStates, Busy, Finished
  <2> QED BY <2>1, <2>2
<1>4. ASSUME NEW status, \A c \in Blocks \ {b} : BlockStatus(c)' = BlockStatus(c),
             BlockStatus(b)' = status
      PROVE  Statuses' = [Statuses EXCEPT ![b] = status]
  BY <1>4 DEF Statuses
<1>5. CASE \/ Take(r, b) /\ Advance(r, b, "queued", "checked")
           \/ Audit(r, b) /\ Advance(r, b, "exited", "audited")
           \/ Capture(r, b)
  <2>1. BlockStatus(b)' = BlockStatus(b) /\ \A c \in Blocks \ {b} : BlockStatus(c)' = BlockStatus(c)
    BY <1>0, <1>1, <1>3, <1>5, StatusOf, StatusOfNext DEF Capture
  <2>2. Statuses' = Statuses
    BY <2>1 DEF Statuses
  <2> QED BY <1>0, <2>2, Stutter
<1>6. CASE \/ Advance(r, b, "queued", "failed")
           \/ Advance(r, b, "exited", "failed")
           \/ EncoderFails(r, b)
  <2>1. BlockStatus(b)' = "rejected" /\ \A c \in Blocks \ {b} : BlockStatus(c)' = BlockStatus(c)
    BY <1>0, <1>1, <1>3, <1>6, StatusOfNext DEF EncoderFails
  <2>2. Statuses' = [Statuses EXCEPT ![b] = "rejected"]
    BY <1>4, <2>1
  <2>3. Abstract!Reject(b)
    BY <1>0, <1>1, <1>2, <2>2 DEF Abstract!Reject, Statuses, Decision
  <2> QED BY <2>3 DEF Abstract!Next
<1>7. CASE Spawn(r, b)
  <2>1. /\ BlockStatus(b) = "unused" /\ BlockStatus(b)' = "running"
        /\ \A c \in Blocks \ {b} : BlockStatus(c)' = BlockStatus(c)
    BY <1>0, <1>1, <1>3, <1>7, StatusOf, StatusOfNext DEF Spawn
  <2>2. Statuses' = [Statuses EXCEPT ![b] = "running"] /\ Statuses[b] = "unused"
    BY <1>4, <2>1 DEF Statuses
  <2>3. Abstract!Encode(b)
    BY <1>0, <1>1, <1>2, <2>2 DEF Abstract!Encode, Statuses, Decision
  <2> QED BY <2>3 DEF Abstract!Next
<1>8. CASE EncoderExits(r, b)
  <2>1. /\ BlockStatus(b) = "running" /\ BlockStatus(b)' = "encoded"
        /\ \A c \in Blocks \ {b} : BlockStatus(c)' = BlockStatus(c)
    BY <1>0, <1>1, <1>3, <1>8, StatusOf, StatusOfNext DEF EncoderExits
  <2>2. Statuses' = [Statuses EXCEPT ![b] = "encoded"] /\ Statuses[b] = "running"
    BY <1>4, <2>1 DEF Statuses
  <2>3. Abstract!Finish(b)
    BY <1>0, <1>1, <1>2, <2>2 DEF Abstract!Finish, Statuses, Decision
  <2> QED BY <2>3 DEF Abstract!Next
<1> QED BY <1>5, <1>6, <1>7, <1>8 DEF Worker, Take, Audit

\* The steps of main.
LEMMA ImplementsMain ==
  ASSUME Base, Genuine, Base', Genuine', NEW r \in Runners, Main(r)
  PROVE  [Abstract!Next]_(Abstract!vars)
<1> USE DEF disk, documents, outcome, environment, gate, pool
<1>0. /\ pc \in [Runners -> Steps] /\ task \in [Runners -> [Blocks -> TaskStates]]
      /\ dirs \in [Directories -> Runners \cup {None}]
  BY DEF Base, Typed, TypeOK
<1>1. CASE \/ Gate(r) \/ Refuse(r) \/ Stage(r) \/ StageFails(r) \/ SealManifest(r) \/ SealLock(r)
           \/ VerifySeal(r) \/ (\E b \in Blocks : Collect(r, b)) \/ ClosePool(r) \/ Recheck(r)
           \/ Pack(r) \/ PackFails(r)
  <2>1. UNCHANGED <<task, intent, summary, failure>> /\ Owner' = Owner
    BY <1>0, <1>1
    DEF Gate, Refuse, Stage, StageFails, SealManifest, SealLock, VerifySeal, Collect, ClosePool,
        Recheck, Pack, PackFails, Mkdir, Owner, Directories
  <2>2. Statuses' = Statuses
    BY <2>1 DEF Statuses, BlockStatus
  <2> QED BY <2>1, <2>2, Stutter
<1>2. CASE ClaimDir(r)
  <2>1. UNCHANGED <<task, intent, summary, failure>>
    BY <1>2 DEF ClaimDir
  <2>2. CASE UNCHANGED dirs
    BY <2>1, <2>2, SameStatuses, Stutter
  <2>3. CASE Mkdir(r, "output")
    <3>1. Owner = None /\ Owner' = r /\ r # None
      BY <1>0, <2>3, RunAssumption DEF Mkdir, MkdirRaises, Owner, Directories
    <3>2. \A b \in Blocks : task'[r][b] = "idle"
      BY <2>1, <3>1 DEF Base, VerdictInv, ControlInv, Ownership
    <3>3. \A b \in Blocks : BlockStatus(b)' = BlockStatus(b)
      BY <3>1, <3>2, Unclaimed, StatusOfNext
    <3> QED BY <2>1, <3>3, Stutter DEF Statuses
  <2> QED BY <1>2, <2>2, <2>3 DEF ClaimDir
<1>3. CASE WriteIntent(r)
  <2>1. /\ UNCHANGED <<dirs, task, summary, failure>>
        /\ pc[r] = "verified" /\ pc'[r] = "intended"
    BY <1>0, <1>3 DEF WriteIntent, Goto
  <2>2. intent = None
    BY <2>1
    DEF Genuine, Remembered, Claimed, Staged, Manifested, Locked, Verified, Intended
  <2>3. "intended" \in Intended
    BY DEF Claimed, Staged, Manifested, Locked, Verified, Intended
  <2>4. intent' # None
    BY <2>1, <2>3, NoneAssumption DEF Genuine, Remembered
  <2>5. Statuses' = Statuses
    BY <2>1, SameStatuses
  <2>6. Abstract!Seal
    BY <2>1, <2>2, <2>4, <2>5 DEF Abstract!Seal, Statuses
  <2> QED BY <2>6 DEF Abstract!Next
<1>4. CASE OpenPool(r)
  <2>1. UNCHANGED <<intent, summary, failure>> /\ pc[r] = "intended"
    BY <1>4 DEF OpenPool, Goto
  <2>2. Owner' = Owner
    BY <1>0, <1>4 DEF OpenPool, Mkdir, Owner, Directories
  <2>3. "intended" \in Intended /\ "intended" \in Claimed \ Pooled
    BY DEF Claimed, Staged, Manifested, Locked, Verified, Intended, Pooled
  <2>4. Owner = r /\ Owner # None /\ \A b \in Blocks : task[r][b] = "idle"
    BY <2>1, <2>3, NotYet, Deciding
  <2>5. \A b \in Blocks : task'[r][b] \in {"idle", "queued"}
    BY <1>0, <1>4, <2>4 DEF OpenPool
  <2>6. \A b \in Blocks : BlockStatus(b)' = BlockStatus(b)
    BY <2>2, <2>4, <2>5, StatusOf, StatusOfNext
  <2> QED BY <2>1, <2>6, Stutter DEF Statuses
<1>5. CASE RecordFailure(r) \/ Overflow(r)
  <2>1. /\ UNCHANGED <<dirs, task, intent, summary>>
        /\ pc[r] \in {"draining", "packing"}
        /\ \E phase \in {"encoder", "pack"} : failure' = [phase |-> phase, completed |-> rows[r]]
    BY <1>5 DEF RecordFailure, Overflow, Goto
  <2>2. {"draining", "packing"} \subseteq Intended
    BY DEF Claimed, Staged, Manifested, Locked, Verified, Intended
  <2>3. Owner = r /\ Owner # None /\ intent # None /\ summary = None /\ failure = None
    BY <2>1, <2>2, Deciding
  <2>4. failure' # None
    <3>1. rows[r] \in SUBSET Blocks
      BY DEF Base, Typed, TypeOK
    <3>2. failure' \in Failures
      BY <2>1, <3>1 DEF Failures
    <3> QED BY <3>2, NoneAssumption
  <2>5. \A b \in Blocks : task[r][b] \in Finished \cup {"idle"}
    BY <2>1, <2>4 DEF Base, VerdictInv, QuietVerdict
  <2>6. \A b \in Blocks : BlockStatus(b) # "running"
    BY <2>3, <2>5, StatusOf DEF Finished
  <2>7. Statuses' = Statuses
    BY <2>1, SameStatuses
  <2>8. Abstract!Decline
    BY <2>1, <2>3, <2>4, <2>6, <2>7 DEF Abstract!Decline, Statuses
  <2> QED BY <2>8 DEF Abstract!Next
<1>6. CASE WriteSummary(r)
  <2>1. /\ UNCHANGED <<dirs, task, intent, failure>> /\ pc[r] = "packed"
        /\ summary' = [lockFile |-> lock, lock |-> held[r].lock, intent |-> intent,
                       rows |-> row[r]]
    BY <1>6 DEF WriteSummary, Goto
  <2>2. "packed" \in Intended /\ "packed" \in Verified /\ "packed" \in Locked
    BY DEF Claimed, Staged, Manifested, Locked, Verified, Intended
  <2>3. Owner = r /\ Owner # None /\ intent # None /\ summary = None /\ failure = None
    BY <2>1, <2>2, Deciding
  <2>4. summary' # None
    <3>1. lock \in Locks
      BY <2>1, <2>2 DEF Base, Typed, Present
    <3>2. intent \in Intents /\ held[r].lock \in Locks
      BY <2>1, <2>2 DEF Genuine, Remembered
    <3>3. row[r] \in [Blocks -> Outputs \cup {None}]
      BY DEF Base, Typed, TypeOK
    <3>4. summary' \in Summaries
      BY <2>1, <3>1, <3>2, <3>3 DEF Summaries
    <3> QED BY <3>4, NoneAssumption
  <2>5. \A b \in Blocks : task[r][b] = "done"
    BY <2>1 DEF Base, VerdictInv, Collected
  <2>6. \A b \in Blocks : BlockStatus(b) = "encoded"
    BY <2>3, <2>5, StatusOf
  <2>7. Statuses' = Statuses
    BY <2>1, SameStatuses
  <2>8. Abstract!Publish
    BY <2>1, <2>3, <2>4, <2>6, <2>7 DEF Abstract!Publish, Statuses
  <2> QED BY <2>8 DEF Abstract!Next
<1> QED BY <1>1, <1>2, <1>3, <1>4, <1>5, <1>6 DEF Main

LEMMA ImplementsOutside ==
  ASSUME Outside \/ UNCHANGED vars
  PROVE  [Abstract!Next]_(Abstract!vars)
<1>1. UNCHANGED <<dirs, task, intent, summary, failure>>
  BY DEF Outside, Crash, Edit, DriftRuntime, DriftFile, DriftManifest, DriftLock, Reseal,
     DriftEncoded, vars, disk, documents, outcome, environment, gate, pool
<1> QED BY <1>1, SameStatuses, Stutter

\* Every run of the one-shot runner, with its launches, threads, kills and edits,
\* is a run of SealedRun.
THEOREM Implements == Spec => ImplementsSealedRun
<1>1. Base /\ Genuine /\ Base' /\ Genuine' /\ [Next]_vars => [Abstract!Next]_(Abstract!vars)
  BY ImplementsMain, ImplementsWorker, ImplementsOutside DEF Next
<1> QED BY <1>1, ImplementsInit, GenuineAlways, PTL DEF Spec, ImplementsSealedRun, Abstract!Spec

=============================================================================
