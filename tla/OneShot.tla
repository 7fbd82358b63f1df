------------------------------ MODULE OneShot ------------------------------
(***************************************************************************)
(* The STRATA-v2 one-shot runner (strata_v2_codec/run_one_shot.py) with    *)
(* the sealing half of the emitter it calls (emit_and_lock.py) and the     *)
(* encoder subprocesses it starts, all working on one output directory.    *)
(*                                                                         *)
(* Several launches name the same directory, a launch may be killed at any *)
(* point, and files may be edited behind the program's back, MaxDrift      *)
(* times in all.  A SHA-256 digest is modelled by the content it is the    *)
(* digest of.  An edit never restores the bytes it replaced.               *)
(***************************************************************************)
EXTENDS Integers, FiniteSets, Functions

CONSTANTS
  Runners,     \* launches of run_one_shot.py with one --output-dir
  N,           \* number of blocks (fourteen in the code)
  MaxWorkers,  \* --workers
  Blind,       \* --protocol-mode is "blind" rather than "development"
  Sizes,       \* payload byte counts an encoder may produce
  Reservoir,   \* RESERVOIR_BYTES
  MaxDrift,    \* bound: number of edits made from outside
  None

Blocks == 0 .. N - 1

ASSUME RunAssumption ==
  /\ N \in Nat \ {0}
  /\ MaxWorkers \in 1 .. N
  /\ Blind \in BOOLEAN
  /\ Sizes \subseteq Nat /\ Sizes # {}
  /\ Reservoir \in Nat
  /\ MaxDrift \in Nat
  /\ None \notin Runners

Original == "original"
Altered == "altered"
Resealed == "resealed"

\* What the emitter seals besides the staging blocks: header, route, labels.
Assets == N
Sealable == Blocks \cup {Assets}

\* Path.mkdir() with exist_ok=False makes the output directory, staging/ in it
\* and encoded/ in it.
Directories == {"output", "staging", "encoded"}

\* The installation: "inputs" are the selection lock, source lock and route;
\* "control" is the codec freeze, the format, emitter and common modules;
\* "engine" is the interpreter, encoder, packages and CUDA identity.
SnapshotParts == {"control", "engine"}    \* rehashed by verify_runtime_snapshot
ImmutableParts == {"inputs", "control"}   \* rehashed by the emitter before it seals
Parts == SnapshotParts \cup ImmutableParts

\* The documents and what the encoders make; none of them is the absent one.
Contents == {Original, Altered, Resealed}
Snapshots == [SnapshotParts -> {Original, Altered}]
Digests == [Sealable -> Contents]
Manifests == [digest : Digests, ver : Contents]
Containers == [block : Blocks, source : Contents, engine : Contents, bytes : Sizes, ver : Contents]
Outputs == [meta : [source : Contents, literal : Containers, ver : Contents],
            container : Containers]
Locks == [manifest : Manifests, digest : Digests, ver : Contents]
Intents == [lockFile : Locks, lock : Locks, manifest : Manifests, runtime : Snapshots]
Summaries == [lockFile : Locks, lock : Locks, intent : Intents,
              rows : [Blocks -> Outputs \cup {None}]]
Failures == [phase : {"encoder", "pack"}, completed : SUBSET Blocks]

ASSUME NoneAssumption ==
  /\ None \notin Manifests /\ None \notin Locks /\ None \notin Outputs /\ None \notin Snapshots
  /\ None \notin Intents /\ None \notin Summaries /\ None \notin Failures

VARIABLES
  (* the installation and the output directory *)
  runtime,    \* content of every part of the installation
  dirs,       \* per directory, None or the launch whose mkdir created it
  files,      \* staging blocks and assets on disk
  manifest, lock, intent,          \* the three sealed documents, None when absent
  encoded,    \* per block, None or what the encoder left: metadata and container
  artifact, summary, failure,      \* what a run ends with, None when absent
  (* memory of each launch *)
  pc,         \* where its main thread is
  frozen,     \* runtime_freeze: what the gate hashed
  loaded,     \* _immutability_checks: what load_documents hashed
  held,       \* the manifest and lock it goes by
  task,       \* state of the future of each block
  row,        \* result of each future
  rows,       \* blocks whose row as_completed has delivered
  (* observation *)
  invoked,    \* how often each block's encoder was started
  drifts,     \* edits made so far
  late        \* whether the assets were replaced between the re-verification and the packing

environment == <<runtime, drifts, late>>
documents == <<manifest, lock, intent>>
outcome == <<artifact, summary, failure>>
disk == <<dirs, files, documents, encoded, outcome>>
gate == <<frozen, loaded>>
pool == <<task, row, rows>>
vars == <<environment, disk, pc, gate, held, pool, invoked>>

Payload(b, source, engine, bytes) ==
  [block |-> b, source |-> source, engine |-> engine, bytes |-> bytes, ver |-> Original]

Init ==
  /\ runtime = [p \in Parts |-> Original]
  /\ dirs = [d \in Directories |-> None]
  /\ files = [f \in Sealable |-> None]
  /\ manifest = None /\ lock = None /\ intent = None
  /\ encoded = [b \in Blocks |-> None]
  /\ artifact = None /\ summary = None /\ failure = None
  /\ pc = [r \in Runners |-> "start"]
  /\ frozen = [r \in Runners |-> None]
  /\ loaded = [r \in Runners |-> None]
  /\ held = [r \in Runners |-> None]
  /\ task = [r \in Runners |-> [b \in Blocks |-> "idle"]]
  /\ row = [r \in Runners |-> [b \in Blocks |-> None]]
  /\ rows = [r \in Runners |-> {}]
  /\ invoked = [b \in Blocks |-> 0]
  /\ drifts = 0
  /\ late = FALSE

Goto(r, from, to) ==
  /\ pc[r] = from
  /\ pc' = [pc EXCEPT ![r] = to]

-----------------------------------------------------------------------------
(* The gate, and the emitter's half of the run                             *)

\* verify_runtime_snapshot: nothing the gate hashed has changed.
SnapshotHolds(r) == \A p \in SnapshotParts : runtime[p] = frozen[r][p]

\* mkdir(exist_ok=False) raises on a directory that is there; with
\* exist_ok=True it would not.
MkdirExistOk(d) == FALSE
MkdirRaises(d) == dirs[d] # None

Mkdir(r, d) ==
  /\ ~MkdirRaises(d)
  /\ dirs' = [dirs EXCEPT ![d] = r]

\* main refuses a directory that exists, then verify_blind_runtime_freeze
\* hashes the installation; in blind mode the hashes must be the frozen ones.
Gate(r) ==
  /\ Goto(r, "start", "gated")
  /\ dirs["output"] = None
  /\ Blind => \A p \in SnapshotParts : runtime[p] = Original
  /\ frozen' = [frozen EXCEPT ![r] = [p \in SnapshotParts |-> runtime[p]]]
  /\ UNCHANGED <<environment, disk, loaded, held, pool, invoked>>

Refuse(r) ==
  /\ Goto(r, "start", "refused")
  /\ \/ dirs["output"] # None
     \/ Blind /\ \E p \in SnapshotParts : runtime[p] # Original
  /\ UNCHANGED <<environment, disk, gate, held, pool, invoked>>

\* emit_candidate opens with mkdir: the loser of a race that both launches'
\* exists() let through stops here.
ClaimDir(r) ==
  /\ \/ Goto(r, "gated", "claimed") /\ Mkdir(r, "output")
     \/ Goto(r, "gated", "refused") /\ MkdirRaises("output") /\ UNCHANGED dirs
  /\ UNCHANGED <<environment, files, documents, encoded, outcome, gate, held, pool, invoked>>

\* load_documents hashes the control files, then build_staging makes staging/
\* and writes the blocks.
Stage(r) ==
  /\ Goto(r, "claimed", "staged")
  /\ Mkdir(r, "staging")
  /\ Blind => \A p \in ImmutableParts : runtime[p] = Original
  /\ loaded' = [loaded EXCEPT ![r] = [p \in ImmutableParts |-> runtime[p]]]
  /\ files' = [f \in Sealable |-> IF f \in Blocks THEN Original ELSE files[f]]
  /\ UNCHANGED <<environment, documents, encoded, outcome, frozen, held, pool, invoked>>

\* Invalid control documents, a source tensor that does not match its lock,
\* or a CPU/GPU parity failure.
StageFails(r) ==
  /\ Goto(r, "claimed", "aborted")
  /\ UNCHANGED <<environment, disk, gate, held, pool, invoked>>

\* The manifest records the digests of the sealed files; hashing them before
\* the assets are written would seal what is not there yet.
ManifestTooEarly(sealed) == [digest |-> files, ver |-> Original]
ManifestOf(sealed) == [digest |-> sealed, ver |-> Original]

\* The staging files are hashed as they lie on disk, the assets written and
\* hashed, the control files hashed again, and the manifest written.
SealManifest(r) ==
  /\ \/ /\ Goto(r, "staged", "manifested")
        /\ \A p \in ImmutableParts : runtime[p] = loaded[r][p]
        /\ files' = [files EXCEPT ![Assets] = Original]
        /\ manifest' = ManifestOf(files')
        /\ held' = [held EXCEPT ![r] = [manifest |-> manifest', lock |-> None]]
     \/ /\ Goto(r, "staged", "aborted")
        /\ \E p \in ImmutableParts : runtime[p] # loaded[r][p]
        /\ UNCHANGED <<files, manifest, held>>
  /\ UNCHANGED <<environment, dirs, lock, intent, encoded, outcome, gate, pool, invoked>>

\* The lock repeats the block rows from memory and hashes the manifest file.
SealLock(r) ==
  /\ Goto(r, "manifested", "locked")
  /\ lock' = [manifest |-> manifest, digest |-> held[r].manifest.digest, ver |-> Original]
  /\ UNCHANGED <<environment, dirs, files, manifest, intent, encoded, outcome, gate, held, pool,
                 invoked>>

\* validate_header: constants, coefficients against angle codes, the header's
\* own SHA-256 of route and labels, its CRC.  Any header, route and labels that
\* are consistent in themselves pass, whether sealed or not.
HeaderValid == files[Assets] \notin {None, Altered}

\* verify_preencoding: the lock's own seal, its hash of the manifest, its copy
\* of the decisions, and every sealed file on disk.
SealHolds ==
  /\ lock.ver # Altered
  /\ lock.manifest = manifest
  /\ lock.digest = manifest.digest
  /\ \A f \in Sealable : files[f] = manifest.digest[f]
  /\ HeaderValid

VerifySeal(r) ==
  /\ \/ /\ Goto(r, "locked", "verified")
        /\ SealHolds
        /\ held' = [held EXCEPT ![r] = [manifest |-> manifest, lock |-> lock]]
     \/ /\ Goto(r, "locked", "aborted")
        /\ ~SealHolds
        /\ UNCHANGED held
  /\ UNCHANGED <<environment, disk, gate, pool, invoked>>

WriteIntent(r) ==
  /\ Goto(r, "verified", "intended")
  /\ intent' = [lockFile |-> lock, lock |-> held[r].lock, manifest |-> manifest,
                runtime |-> frozen[r]]
  /\ UNCHANGED <<environment, dirs, files, manifest, lock, encoded, outcome, gate, held, pool,
                 invoked>>

\* encoded/ is made, the snapshot verified, the pool opened and every block
\* submitted.  A snapshot that fails here raises outside the try block.
OpenPool(r) ==
  /\ Mkdir(r, "encoded")
  /\ \/ /\ Goto(r, "intended", "pool")
        /\ SnapshotHolds(r)
        /\ task' = [task EXCEPT ![r] = [b \in Blocks |-> "queued"]]
     \/ /\ Goto(r, "intended", "aborted")
        /\ ~SnapshotHolds(r)
        /\ UNCHANGED task
  /\ UNCHANGED <<environment, files, documents, encoded, outcome, gate, held, row, rows, invoked>>

-----------------------------------------------------------------------------
(* encode_one on the pool's threads, and the encoder subprocess            *)

Busy == {"checked", "spawned", "exited", "audited"}
Finished == {"done", "failed"}
TaskStates == Busy \cup Finished \cup {"idle", "queued"}

\* A pool that drops its queue once a future has failed (cancel_futures).
PoolCancelled(r) == pc[r] = "pool"

\* The threads live while main is inside the with block.
PoolLives(r) == pc[r] \in {"pool", "draining"}

Advance(r, b, from, to) ==
  /\ task[r][b] = from
  /\ task' = [task EXCEPT ![r][b] = to]

\* A free thread takes the oldest submission: snapshot and source are hashed.
Take(r, b) ==
  /\ PoolLives(r)
  /\ \A c \in 0 .. b - 1 : task[r][c] # "queued"
  /\ Cardinality({c \in Blocks : task[r][c] \in Busy}) < MaxWorkers
  /\ LET clean == SnapshotHolds(r) /\ files[b] = held[r].manifest.digest[b]
     IN  \/ Advance(r, b, "queued", "checked") /\ clean
         \/ Advance(r, b, "queued", "failed") /\ ~clean
  /\ UNCHANGED <<environment, disk, pc, gate, held, row, rows, invoked>>

Spawn(r, b) ==
  /\ PoolLives(r)
  /\ Advance(r, b, "checked", "spawned")
  /\ invoked' = [invoked EXCEPT ![b] = @ + 1]
  /\ UNCHANGED <<environment, disk, pc, gate, held, row, rows>>

\* The subprocess copies its input once, and encodes and hashes that copy.
\* It writes the metadata, then the container.  It outlives a killed runner.
EncoderExits(r, b) ==
  /\ Advance(r, b, "spawned", "exited")
  /\ \E bytes \in Sizes :
       LET container == Payload(b, files[b], runtime["engine"], bytes)
       IN  encoded' = [encoded EXCEPT ![b] =
             [meta |-> [source |-> files[b], literal |-> container, ver |-> Original],
              container |-> container]]
  /\ UNCHANGED <<environment, dirs, files, documents, outcome, pc, gate, held, row, rows, invoked>>

\* A runner that tries again.
EncoderRetried(r, b) ==
  /\ Advance(r, b, "spawned", "checked")
  /\ UNCHANGED <<environment, disk, pc, gate, held, row, rows, invoked>>

\* A nonzero return code makes encode_one raise "no retry".
EncoderFails(r, b) ==
  /\ Advance(r, b, "spawned", "failed")
  /\ UNCHANGED <<environment, disk, pc, gate, held, row, rows, invoked>>

\* The snapshot again, and the encoder's own report of what it read.
Audit(r, b) ==
  /\ PoolLives(r)
  /\ LET clean == /\ SnapshotHolds(r)
                  /\ encoded[b].meta.source = held[r].manifest.digest[b]
     IN  \/ Advance(r, b, "exited", "audited") /\ clean
         \/ Advance(r, b, "exited", "failed") /\ ~clean
  /\ UNCHANGED <<environment, disk, pc, gate, held, row, rows, invoked>>

\* Metadata and container are hashed from disk into the returned row, after
\* the metadata was read for the audit.
Capture(r, b) ==
  /\ PoolLives(r)
  /\ Advance(r, b, "audited", "done")
  /\ row' = [row EXCEPT ![r][b] = encoded[b]]
  /\ UNCHANGED <<environment, disk, pc, gate, held, rows, invoked>>

-----------------------------------------------------------------------------
(* main: collecting, checking again, packing                               *)

\* A loop that skips failed futures.
CollectGood(r, b) ==
  /\ pc[r] = "pool"
  /\ task[r][b] = "done"
  /\ b \notin rows[r]
  /\ rows' = [rows EXCEPT ![r] = @ \cup {b}]
  /\ UNCHANGED <<environment, disk, pc, gate, held, task, row, invoked>>

\* as_completed delivers a finished future; result() raises if it failed, and
\* leaving the with block then waits for every other future.
Collect(r, b) ==
  /\ pc[r] = "pool"
  /\ \/ /\ task[r][b] = "done"
        /\ b \notin rows[r]
        /\ rows' = [rows EXCEPT ![r] = @ \cup {b}]
        /\ UNCHANGED pc
     \/ /\ task[r][b] = "failed"
        /\ pc' = [pc EXCEPT ![r] = "draining"]
        /\ UNCHANGED rows
  /\ UNCHANGED <<environment, disk, gate, held, task, row, invoked>>

\* shutdown(wait=False): the record is written while threads still run.
RecordWithoutWaiting(r) ==
  /\ Goto(r, "draining", "declined")
  /\ failure' = [phase |-> "encoder", completed |-> rows[r]]
  /\ UNCHANGED <<environment, dirs, files, documents, encoded, artifact, summary, gate, held, pool,
                 invoked>>

RecordFailure(r) ==
  /\ \A b \in Blocks : task[r][b] \in Finished
  /\ Goto(r, "draining", "declined")
  /\ failure' = [phase |-> "encoder", completed |-> rows[r]]
  /\ UNCHANGED <<environment, dirs, files, documents, encoded, artifact, summary, gate, held, pool,
                 invoked>>

ClosePool(r) ==
  /\ rows[r] = Blocks
  /\ Goto(r, "pool", "encoded")
  /\ UNCHANGED <<environment, disk, gate, held, pool, invoked>>

\* Snapshot and seal are verified once more and the lock must be the one that
\* was verified before encoding.  Packing goes by the manifest read here.
Recheck(r) ==
  /\ LET clean == SnapshotHolds(r) /\ SealHolds /\ lock = held[r].lock
     IN  \/ /\ Goto(r, "encoded", "packing")
            /\ clean
            /\ held' = [held EXCEPT ![r].manifest = manifest]
         \/ /\ Goto(r, "encoded", "aborted")
            /\ ~clean
            /\ UNCHANGED held
  /\ UNCHANGED <<environment, disk, gate, pool, invoked>>

\* A packer that trusts the row's digests alone.
PackableByRow(r, b) == encoded[b] = row[r][b]

\* Both files still have the digests of the row, and the metadata names the
\* container it was written with.
Packable(r, b) ==
  /\ encoded[b].meta = row[r][b].meta
  /\ encoded[b].meta.literal = row[r][b].container
  /\ encoded[b].container = row[r][b].container

PayloadBytes == SumFunction([b \in Blocks |-> encoded[b].container.bytes])

Pack(r) ==
  /\ Goto(r, "packing", "packed")
  /\ \A b \in Blocks : Packable(r, b)
  /\ PayloadBytes <= Reservoir
  /\ HeaderValid
  /\ artifact' = [payload |-> [b \in Blocks |-> encoded[b].container], assets |-> files[Assets]]
  /\ UNCHANGED <<environment, dirs, files, documents, encoded, summary, failure, gate, held, pool,
                 invoked>>

\* The overflow is recorded but not raised.
OverflowGoesOn(r) ==
  /\ Goto(r, "packing", "packed")
  /\ \A b \in Blocks : Packable(r, b)
  /\ PayloadBytes > Reservoir
  /\ failure' = [phase |-> "pack", completed |-> rows[r]]
  /\ UNCHANGED <<environment, dirs, files, documents, encoded, artifact, summary, gate, held, pool,
                 invoked>>

Overflow(r) ==
  /\ Goto(r, "packing", "declined")
  /\ \A b \in Blocks : Packable(r, b)
  /\ PayloadBytes > Reservoir
  /\ failure' = [phase |-> "pack", completed |-> rows[r]]
  /\ UNCHANGED <<environment, dirs, files, documents, encoded, artifact, summary, gate, held, pool,
                 invoked>>

\* A changed file, or an FP16 scale that is zero or infinite.
PackFails(r) ==
  /\ Goto(r, "packing", "aborted")
  /\ UNCHANGED <<environment, disk, gate, held, pool, invoked>>

WriteSummary(r) ==
  /\ Goto(r, "packed", "published")
  /\ summary' = [lockFile |-> lock, lock |-> held[r].lock, intent |-> intent,
                 rows |-> row[r]]
  /\ UNCHANGED <<environment, dirs, files, documents, encoded, artifact, failure, gate, held, pool,
                 invoked>>

-----------------------------------------------------------------------------
(* What happens from outside                                               *)

Terminal == {"refused", "aborted", "declined", "published", "crashed"}

\* The runner is killed; its threads die with it.
Crash(r) ==
  /\ pc[r] \notin Terminal \cup {"start"}
  /\ pc' = [pc EXCEPT ![r] = "crashed"]
  /\ UNCHANGED <<environment, disk, gate, held, pool, invoked>>

Edit ==
  /\ drifts < MaxDrift
  /\ drifts' = drifts + 1
  /\ UNCHANGED <<dirs, intent, outcome, pc, gate, held, pool, invoked>>

DriftRuntime(p) ==
  /\ Edit
  /\ runtime' = [runtime EXCEPT ![p] = Altered]
  /\ UNCHANGED <<files, manifest, lock, encoded, late>>

\* Edited assets may be consistent in themselves, header and route and labels
\* replaced together; an edited block is just another tensor.
DriftFile(f) ==
  /\ Edit
  /\ files[f] # None
  /\ \E content \in {Altered, Resealed} :
       /\ content = Resealed => f = Assets
       /\ files' = [files EXCEPT ![f] = content]
  /\ late' = (late \/ (f = Assets /\ \E r \in Runners : pc[r] = "packing"))
  /\ UNCHANGED <<runtime, manifest, lock, encoded>>

DriftManifest ==
  /\ Edit
  /\ manifest # None
  /\ manifest' = [manifest EXCEPT !.ver = Altered]
  /\ UNCHANGED <<runtime, files, lock, encoded, late>>

DriftLock ==
  /\ Edit
  /\ lock # None
  /\ lock' = [lock EXCEPT !.ver = Altered]
  /\ UNCHANGED <<runtime, files, manifest, encoded, late>>

\* Manifest and lock are replaced by a pair that is valid for the files on disk.
Reseal ==
  /\ Edit
  /\ lock # None
  /\ manifest' = [digest |-> files, ver |-> Resealed]
  /\ lock' = [manifest |-> manifest', digest |-> files, ver |-> Resealed]
  /\ UNCHANGED <<runtime, files, encoded, late>>

DriftEncoded(b, part) ==
  /\ Edit
  /\ encoded[b] # None
  /\ encoded' = [encoded EXCEPT ![b][part].ver = Altered]
  /\ UNCHANGED <<runtime, files, manifest, lock, late>>

-----------------------------------------------------------------------------
Main(r) ==
  \/ Gate(r) \/ Refuse(r) \/ ClaimDir(r) \/ Stage(r) \/ StageFails(r)
  \/ SealManifest(r) \/ SealLock(r) \/ VerifySeal(r) \/ WriteIntent(r) \/ OpenPool(r)
  \/ \E b \in Blocks : Collect(r, b)
  \/ RecordFailure(r) \/ ClosePool(r) \/ Recheck(r)
  \/ Pack(r) \/ Overflow(r) \/ PackFails(r) \/ WriteSummary(r)

Worker(r, b) ==
  \/ Take(r, b) \/ Spawn(r, b) \/ EncoderExits(r, b) \/ EncoderFails(r, b)
  \/ Audit(r, b) \/ Capture(r, b)

Outside ==
  \/ \E r \in Runners : Crash(r)
  \/ \E p \in Parts : DriftRuntime(p)
  \/ \E f \in Sealable : DriftFile(f)
  \/ DriftManifest \/ DriftLock \/ Reseal
  \/ \E b \in Blocks, part \in {"meta", "container"} : DriftEncoded(b, part)

Next ==
  \/ \E r \in Runners : Main(r) \/ \E b \in Blocks : Worker(r, b)
  \/ Outside

Spec == Init /\ [][Next]_vars

\* Once started, the interpreter runs main and its pool threads on, and an
\* encoder subprocess returns.  Nobody has to launch a runner, and nothing
\* from outside has to happen.
Fairness ==
  \A r \in Runners :
    /\ WF_vars(pc[r] # "start" /\ Main(r))
    /\ \A b \in Blocks : WF_vars(Worker(r, b))

FairSpec == Spec /\ Fairness

-----------------------------------------------------------------------------
(* Properties                                                              *)

Steps == Terminal \cup {"start", "gated", "claimed", "staged", "manifested", "locked",
                       "verified", "intended", "pool", "draining", "encoded", "packing", "packed"}

\* A file or document is absent or has one of its contents, a thread is at one
\* of its steps; what a run ends with is PublishedGenuine's and QuietVerdict's.
TypeOK ==
  /\ runtime \in [Parts -> {Original, Altered}]
  /\ dirs \in [Directories -> Runners \cup {None}]
  /\ files \in [Sealable -> Contents \cup {None}]
  /\ manifest \in Manifests \cup {None}
  /\ lock \in Locks \cup {None}
  /\ held \in [Runners -> [manifest : Manifests, lock : Locks \cup {None}] \cup {None}]
  /\ encoded \in [Blocks -> Outputs \cup {None}]
  /\ pc \in [Runners -> Steps]
  /\ frozen \in [Runners -> [SnapshotParts -> {Original, Altered}] \cup {None}]
  /\ loaded \in [Runners -> [ImmutableParts -> {Original, Altered}] \cup {None}]
  /\ task \in [Runners -> [Blocks -> TaskStates]]
  /\ row \in [Runners -> [Blocks -> Outputs \cup {None}]]
  /\ rows \in [Runners -> SUBSET Blocks]
  /\ invoked \in [Blocks -> Nat]
  /\ drifts \in 0 .. MaxDrift
  /\ late \in BOOLEAN

\* "invokes each of fourteen stateless block encoders exactly once": whatever
\* launches race for the directory, and whichever are killed, no block's
\* encoder is started a second time.
EncodeAtMostOnce == \A b \in Blocks : invoked[b] <= 1

\* A published artifact consists of the containers that the encoders of the
\* intent's installation wrote from the staging blocks of the intent's lock.
\* Its header, route and labels are consistent, and those of the lock unless
\* they were replaced after the re-verification, which the packer does not see.
PublishedGenuine ==
  summary # None =>
    /\ summary.lock = intent.lock
    /\ artifact.assets # Altered
    /\ late \/ artifact.assets = intent.lock.digest[Assets]
    /\ \A b \in Blocks :
         /\ artifact.payload[b].ver = Original
         /\ artifact.payload[b].block = b
         /\ artifact.payload[b].source = intent.lock.digest[b]
         /\ artifact.payload[b].engine = intent.runtime["engine"]

\* The pool is left only when every future is finished: once a summary or a
\* failure record is on disk, no block is queued and no encoder is running.
QuietVerdict ==
  summary # None \/ failure # None =>
    \A r \in Runners, b \in Blocks : task[r][b] \in Finished \cup {"idle"}

\* A run never leaves both verdicts, nor a failure record beside an artifact.
OneVerdict == failure # None => summary = None /\ artifact = None

\* The run implements the abstract one-shot run.
Owner == dirs["output"]
BlockStatus(b) ==
  IF Owner = None THEN "unused"
  ELSE CASE task[Owner][b] \in {"idle", "queued", "checked"} -> "unused"
         [] task[Owner][b] = "spawned" -> "running"
         [] task[Owner][b] \in {"exited", "audited", "done"} -> "encoded"
         [] task[Owner][b] = "failed" -> "rejected"

Abstract == INSTANCE SealedRun WITH
  sealed <- intent # None,
  status <- [b \in Blocks |-> BlockStatus(b)],
  verdict <- IF summary # None THEN "published"
             ELSE IF failure # None THEN "negative" ELSE "open"

ImplementsSealedRun == Abstract!Spec

\* A launch that was started comes to an end.
Terminates == \A r \in Runners : pc[r] # "start" ~> pc[r] \in Terminal

\* A failing block does not keep the others from being attempted: unless the
\* runner is killed, every submitted block is finished.
EveryBlockAttempted ==
  \A r \in Runners :
    pc[r] = "pool" ~> pc[r] = "crashed" \/ \A b \in Blocks : task[r][b] \in Finished

\* docs/STRATA_V2_BLIND_PROTOCOL.md: the runner "writes either a completed
\* summary or an explicit failure record".  A run that got as far as its
\* intent and then raised has written one of them.
EndsOnRecord ==
  \A r \in Runners :
    pc[r] = "aborted" /\ r = Owner /\ intent # None => summary # None \/ failure # None

=============================================================================
