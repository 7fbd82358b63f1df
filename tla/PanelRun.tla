------------------------------ MODULE PanelRun ------------------------------
(***************************************************************************)
(* The Qwen panel runner (tools/run_qwen_panel.py): launches that name one *)
(* work directory and encode a panel of blocks in a pool of threads, pack  *)
(* the containers into a reservoir, unpack it, decode the records in a     *)
(* second pool, and aggregate; or that only aggregate again what an        *)
(* earlier launch left.  With them the encoder, packer, unpacker and       *)
(* decoder subprocesses they start, and the paired audit that judges the   *)
(* directory (tools/audit_qwen_paired.py).                                 *)
(*                                                                         *)
(* A launch may be killed at any point; its subprocess lives on.  Sources  *)
(* and programs may be edited from outside, MaxDrift times in all.  A      *)
(* SHA-256 digest is modelled by the content it is the digest of.  An edit *)
(* never restores the bytes it replaced.                                   *)
(***************************************************************************)
EXTENDS Integers, FiniteSets, Functions

CONSTANTS
  Launches,    \* launches of run_qwen_panel.py with one --workdir
  Aggregators, \* those of them with --aggregate-only
  Variant,     \* per launch, "exact" or "rht"
  Manifest,    \* per launch, the revision of the manifest it names
  Published,   \* the revision of the published manifest
  N,           \* number of blocks of the panel
  MaxWorkers,  \* --workers
  Bits,        \* arithmetic bits of a block that one variant of an encoder makes
  Capacity,    \* PAYLOAD_CAPACITY_BITS_PER_BLOCK * N
  Overlap,     \* two launches may both be between the look for the lock and its writing
  MaxDrift,    \* bound: number of edits made from outside
  None

Blocks == 0 .. N - 1
Variants == {"exact", "rht"}
Revisions == Range(Manifest)

\* The pinned bytes, and what an edit makes of them.
Original == "original"
Altered == "altered"
Contents == {Original, Altered}

ASSUME PanelAssumption ==
  /\ Aggregators \subseteq Launches
  /\ Variant \in [Launches -> Variants]
  /\ Manifest \in [Launches -> Revisions]
  /\ N \in Nat \ {0}
  /\ MaxWorkers \in Nat \ {0}
  /\ Bits \in [Blocks \X Variants \X Contents -> Nat]
  /\ Capacity \in Nat
  /\ Overlap \in BOOLEAN
  /\ MaxDrift \in Nat

\* The programs whose digests are pinned; the decoder's entry stands for the
\* decoder and its map.
Programs == {"encoder", "packer", "unpacker", "decoder"}

\* What a launch is asked to do; a block's seeds follow from the revision.
Job(r) == [variant |-> Variant[r], revision |-> Manifest[r]]
Jobs == [variant : Variants, revision : Revisions]

\* What encoders make: see Encoding below.
Encodings == [block : Blocks, job : Jobs, source : Contents, encoder : Contents]

ASSUME NoneAssumption == None \notin Launches /\ None \notin Jobs /\ None \notin Encodings

VARIABLES
  (* what lies outside the work directory *)
  source,     \* BF16 block files
  program,    \* the pinned programs
  (* the work directory *)
  lock,       \* execution_lock.json: a job, or None
  meta,       \* encoded/block_b.encoder.json
  bin,        \* encoded/block_b.encoder.polar.bin
  reservoir,  \* panel.plrsv2.bin
  packed,     \* pack.audit.json: the reservoir it names
  unpacked,   \* unpacked/: the records of a reservoir, or None
  checked,    \* unpack.audit.json: the reservoir it names
  decoded,    \* decoded/block_b.decode.json
  summary,    \* summary.json
  (* each launch *)
  pc,         \* where its main thread is
  task,       \* state of the future of each block in the pool that is open
  proc,       \* per block, the subprocess its thread waits for
  got,        \* blocks whose row as_completed has delivered
  read,       \* what a packer, or an aggregation, has read so far
  (* observation *)
  started,    \* how often an encoder was started for each block
  drifts      \* edits made so far

outside == <<source, program, drifts>>
encodings == <<meta, bin>>
serialized == <<reservoir, packed, unpacked, checked>>
disk == <<lock, encodings, serialized, decoded, summary>>
threads == <<task, proc, got>>
vars == <<outside, disk, pc, threads, read, started>>

\* What an encoder makes of a block: its metadata and its container agree in
\* all of this.
Encoding(b, job, src, prog) ==
  [block |-> b, job |-> job, source |-> src, encoder |-> prog]
LogicalBits(e) == Bits[e.block, e.job.variant, e.encoder]

\* A reservoir on disk: the containers it was packed from, and whether it is
\* whole; one that is being written has a blank header, and a header that is
\* written without seeking back leaves it so.
WholeUnsought(containers) == [state |-> "torn", blocks |-> containers, by |-> None]
Whole(containers) == [state |-> "whole", blocks |-> containers, by |-> None]
Torn(r) == [state |-> "torn", blocks |-> <<>>, by |-> r]

Fits(containers) ==
  SumFunction([b \in Blocks |-> LogicalBits(containers[b])]) <= Capacity

\* decode.json of a block: the record that was decoded, against which source.
Report(record, src, prog) == [record |-> record, source |-> src, decoder |-> prog]

Summary(job, hashes, file, metas, reports) ==
  [job |-> job, hashes |-> hashes, reservoir |-> file, metas |-> metas, reports |-> reports]

Init ==
  /\ source = [b \in Blocks |-> Original]
  /\ program = [p \in Programs |-> Original]
  /\ lock = None
  /\ meta = [b \in Blocks |-> None] /\ bin = [b \in Blocks |-> None]
  /\ reservoir = None /\ packed = None
  /\ unpacked = None /\ checked = None
  /\ decoded = [b \in Blocks |-> None]
  /\ summary = None
  /\ pc = [r \in Launches |-> "start"]
  /\ task = [r \in Launches |-> [b \in Blocks |-> "idle"]]
  /\ proc = [r \in Launches |-> [b \in Blocks |-> None]]
  /\ got = [r \in Launches |-> {}]
  /\ read = [r \in Launches |-> None]
  /\ started = [b \in Blocks |-> 0]
  /\ drifts = 0

Goto(r, from, to) ==
  /\ pc[r] = from
  /\ pc' = [pc EXCEPT ![r] = to]

-----------------------------------------------------------------------------
(* Admission and the execution lock                                        *)

Pinned == \A p \in Programs : program[p] = Original
SourcesMatch == \A b \in Blocks : source[b] = Original

\* assert_pinned_implementations, then validate_manifest, which hashes every
\* source block.  Any manifest that is consistent in itself is accepted.
Admit(r) ==
  /\ \/ /\ Pinned /\ SourcesMatch
        /\ Goto(r, "start", IF r \in Aggregators THEN "again" ELSE "admitted")
     \/ /\ ~(Pinned /\ SourcesMatch)
        /\ Goto(r, "start", "refused")
  /\ UNCHANGED <<outside, disk, threads, read, started>>

\* A launch that does not look for a lock.
NoLook(r) ==
  /\ Goto(r, "admitted", "unlocked")
  /\ UNCHANGED <<outside, disk, threads, read, started>>

\* lock_path.exists(), and the refusal to reuse a lock.  Unless Overlap, no
\* other launch is about to write one: each directory is given to one launch
\* at a time.
LookForLock(r) ==
  /\ Overlap \/ \A s \in Launches : pc[s] # "unlocked"
  /\ Goto(r, "admitted", IF lock = None THEN "unlocked" ELSE "refused")
  /\ UNCHANGED <<outside, disk, threads, read, started>>

\* Every block is submitted: to be encoded, or to be decoded.
OpenPool(r, work) ==
  /\ task' = [task EXCEPT ![r] = [b \in Blocks |-> work]]
  /\ got' = [got EXCEPT ![r] = {}]

\* write_json replaces whatever is there; then the pool of encoders opens.
WriteLock(r) ==
  /\ Goto(r, "unlocked", "encoding")
  /\ lock' = Job(r)
  /\ OpenPool(r, "to encode")
  /\ UNCHANGED <<outside, encodings, serialized, decoded, summary, proc, read, started>>

-----------------------------------------------------------------------------
(* The pools                                                               *)

Pools == {"encoding", "decoding"}
PoolLives(r) == pc[r] \in Pools \cup {"draining"}
Finished == {"done", "failed"}
Busy == {"encode", "decode"}

\* execute_parallel's pool has one thread per worker and a queue that is
\* first in, first out.
IsNext(r, b, work) ==
  /\ PoolLives(r)
  /\ task[r][b] = work
  /\ \A c \in Blocks : c < b => task[r][c] # work
  /\ Cardinality({c \in Blocks : task[r][c] \in Busy}) < MaxWorkers

Subprocess(kind) == [kind |-> kind, at |-> "running", out |-> None]

\* encode_one hashes the source block and starts the encoder.
BeginEncode(r, b) ==
  /\ IsNext(r, b, "to encode")
  /\ \/ /\ source[b] = Original
        /\ task' = [task EXCEPT ![r][b] = "encode"]
        /\ proc' = [proc EXCEPT ![r][b] = Subprocess("encode")]
        /\ started' = [started EXCEPT ![b] = @ + 1]
     \/ /\ source[b] # Original
        /\ task' = [task EXCEPT ![r][b] = "failed"]
        /\ UNCHANGED <<proc, started>>
  /\ UNCHANGED <<outside, disk, pc, got, read>>

\* decode_one starts the decoder.
BeginDecode(r, b) ==
  /\ IsNext(r, b, "to decode")
  /\ task' = [task EXCEPT ![r][b] = "decode"]
  /\ proc' = [proc EXCEPT ![r][b] = Subprocess("decode")]
  /\ UNCHANGED <<outside, disk, pc, got, read, started>>

ProcAt(r, b, kind, at) ==
  /\ proc[r][b] # None
  /\ proc[r][b].kind = kind
  /\ proc[r][b].at = at

\* The encoder reads the block, and writes the metadata when it is done ...
EncoderWritesMeta(r, b) ==
  /\ ProcAt(r, b, "encode", "running")
  /\ meta' = [meta EXCEPT ![b] = Encoding(b, Job(r), source[b], program["encoder"])]
  /\ proc' = [proc EXCEPT ![r][b].at = "half", ![r][b].out = meta'[b]]
  /\ UNCHANGED <<outside, lock, bin, serialized, decoded, summary, pc, task, got, read, started>>

\* ... and then the container beside it.
EncoderWritesBin(r, b) ==
  /\ ProcAt(r, b, "encode", "half")
  /\ bin' = [bin EXCEPT ![b] = proc[r][b].out]
  /\ proc' = [proc EXCEPT ![r][b].at = "exited"]
  /\ UNCHANGED <<outside, lock, meta, serialized, decoded, summary, pc, task, got, read, started>>

\* The decoder's checks of a record against metadata and source: the payload
\* is the one of the metadata; the block's digest, where it is recorded, and
\* its RMS are those of the source.
Decodable(b) ==
  /\ meta[b] # None /\ unpacked # None
  /\ unpacked[b] = meta[b]
  /\ source[b] = meta[b].source

DecoderWrites(r, b) ==
  /\ ProcAt(r, b, "decode", "running")
  /\ Decodable(b)
  /\ decoded' = [decoded EXCEPT ![b] = Report(unpacked[b], source[b], program["decoder"])]
  /\ proc' = [proc EXCEPT ![r][b].at = "exited"]
  /\ UNCHANGED <<outside, lock, encodings, serialized, summary, pc, task, got, read, started>>

\* A subprocess may fail before it has written all it writes, and a decoder
\* does if a check fails.
SubprocessFails(r, b) ==
  /\ proc[r][b] # None
  /\ proc[r][b].at \in {"running", "half"}
  /\ proc' = [proc EXCEPT ![r][b].at = "dead"]
  /\ UNCHANGED <<outside, disk, pc, task, got, read, started>>

\* encode_one after the encoder's return: the source must not have changed and
\* the metadata must be that of this job.  Of the exact encoder no digest of
\* the block is recorded, and nothing says that the other variant's is absent.
EncodingAccepted(r, b) ==
  /\ source[b] = Original
  /\ meta[b].job.revision = Manifest[r]
  /\ Variant[r] = "rht" => meta[b].job = Job(r) /\ meta[b].source = Original

\* run_logged raises on a bad exit status; the thread of a decoder finds the
\* report passed if the decoder returned success.
Return(r, b) ==
  /\ PoolLives(r)
  /\ task[r][b] \in Busy
  /\ proc[r][b].at \in {"exited", "dead"}
  /\ LET good == /\ proc[r][b].at = "exited"
                 /\ task[r][b] = "encode" => EncodingAccepted(r, b)
     IN task' = [task EXCEPT ![r][b] = IF good THEN "done" ELSE "failed"]
  /\ proc' = [proc EXCEPT ![r][b] = None]
  /\ UNCHANGED <<outside, disk, pc, got, read, started>>

\* as_completed delivers a finished future; result() raises if it failed.
Collect(r, b) ==
  /\ pc[r] \in Pools
  /\ \/ /\ task[r][b] = "done"
        /\ b \notin got[r]
        /\ got' = [got EXCEPT ![r] = @ \cup {b}]
        /\ UNCHANGED pc
     \/ /\ task[r][b] = "failed"
        /\ pc' = [pc EXCEPT ![r] = "draining"]
        /\ UNCHANGED got
  /\ UNCHANGED <<outside, disk, task, proc, read, started>>

\* Leaving the with block waits for every future, those in the queue included.
Drain(r) ==
  /\ Goto(r, "draining", "failed")
  /\ \A b \in Blocks : task[r][b] \in Finished
  /\ UNCHANGED <<outside, disk, threads, read, started>>

\* A pool that is left once every block has begun.
CloseBegun(r) ==
  /\ \A b \in Blocks : task[r][b] \notin {"to encode", "to decode"}
  /\ \/ Goto(r, "encoding", "packing")
     \/ Goto(r, "decoding", "aggregating")
  /\ UNCHANGED <<outside, disk, threads, read, started>>

ClosePool(r) ==
  /\ got[r] = Blocks
  /\ \/ Goto(r, "encoding", "packing")
     \/ Goto(r, "decoding", "aggregating")
  /\ UNCHANGED <<outside, disk, threads, read, started>>

-----------------------------------------------------------------------------
(* Serialization                                                           *)

\* The packer reads every container, then opens the output with "w+b", which
\* empties it, and writes a blank header.
OpenReservoir(r) ==
  /\ Goto(r, "packing", "writing")
  /\ Fits(bin)
  /\ read' = [read EXCEPT ![r] = bin]
  /\ reservoir' = Torn(r)
  /\ UNCHANGED <<outside, lock, encodings, packed, unpacked, checked, decoded, summary, threads,
                 started>>

Overflow(r) ==
  /\ Goto(r, "packing", "failed")
  /\ ~Fits(bin)
  /\ UNCHANGED <<outside, disk, threads, read, started>>

\* The header is written last.  Where another packer has opened the file in
\* between, both write into it and anything may be left.
FinishReservoir(r) ==
  /\ Goto(r, "writing", "unpacking")
  /\ reservoir' \in {Whole(read[r])} \cup IF reservoir.by = r THEN {} ELSE {Torn(None)}
  /\ packed' = reservoir'
  /\ UNCHANGED <<outside, lock, encodings, unpacked, checked, decoded, summary, threads, read,
                 started>>

\* The unpacker validates the reservoir and publishes its records by renaming
\* a staging directory, which a directory in the way prevents.  The pool of
\* decoders opens.  An unpacker may fail for other reasons too.
Unpack(r) ==
  /\ Goto(r, "unpacking", "decoding")
  /\ reservoir.state = "whole"
  /\ unpacked = None
  /\ unpacked' = reservoir.blocks
  /\ checked' = reservoir
  /\ OpenPool(r, "to decode")
  /\ UNCHANGED <<outside, lock, encodings, reservoir, packed, decoded, summary, proc, read,
                 started>>

UnpackFails(r) ==
  /\ Goto(r, "unpacking", "failed")
  /\ UNCHANGED <<outside, disk, threads, read, started>>

-----------------------------------------------------------------------------
(* Aggregation                                                             *)

\* --aggregate-only needs a summary, and an execution lock that is this job's;
\* where there is no lock, as older versions left none, the summary must bind
\* job, programs, reservoir and order of the blocks.
LegacyBound(r) ==
  /\ summary.job = Job(r)
  /\ \A p \in Programs : summary.hashes[p] = Original
  /\ summary.reservoir = reservoir

\* A binding that goes by the files alone.
BoundByFiles(r) == summary.reservoir = reservoir

Bound(r) == IF lock # None THEN lock = Job(r) ELSE LegacyBound(r)

AggregateAgain(r) ==
  /\ \/ /\ Goto(r, "again", "aggregating")
        /\ summary # None /\ Bound(r)
     \/ /\ Goto(r, "again", "refused")
        /\ ~(summary # None /\ Bound(r))
  /\ UNCHANGED <<outside, disk, threads, read, started>>

\* What aggregate demands of a block: the report's source is the manifest's
\* and the present one, and the preconditioner it reports is the variant's.
Aggregable(r, b) ==
  /\ meta[b] # None /\ decoded[b] # None
  /\ decoded[b].source = Original
  /\ source[b] = Original
  /\ decoded[b].record.job.variant = Variant[r]
  /\ Variant[r] = "rht" =>
       /\ meta[b].job.variant = "rht"
       /\ decoded[b].record.job.revision = Manifest[r]

\* A summary that names the programs the launch had pinned.
AggregateWithPins(r) ==
  /\ Goto(r, "aggregating", "summing")
  /\ \A b \in Blocks : Aggregable(r, b)
  /\ packed # None /\ checked # None
  /\ read' = [read EXCEPT ![r] =
       Summary(Job(r), [p \in Programs |-> Original], reservoir, meta, decoded)]
  /\ UNCHANGED <<outside, disk, threads, started>>

\* The audits must have passed, and the reservoir has its fixed size, which
\* one that is being written need not have.  The programs and the reservoir
\* are hashed as they are now.
Aggregate(r) ==
  /\ Goto(r, "aggregating", "summing")
  /\ \A b \in Blocks : Aggregable(r, b)
  /\ packed # None /\ checked # None
  /\ read' = [read EXCEPT ![r] = Summary(Job(r), program, reservoir, meta, decoded)]
  /\ UNCHANGED <<outside, disk, threads, started>>

AggregateFails(r) ==
  /\ Goto(r, "aggregating", "failed")
  /\ ~ /\ \A b \in Blocks : Aggregable(r, b)
       /\ packed # None /\ checked # None
       /\ reservoir.state = "whole"
  /\ UNCHANGED <<outside, disk, threads, read, started>>

\* Exit status zero if rate and distortion pass the gate, else two.
WriteSummary(r) ==
  /\ \/ Goto(r, "summing", "passed")
     \/ Goto(r, "summing", "gated")
  /\ summary' = read[r]
  /\ UNCHANGED <<outside, lock, encodings, serialized, decoded, threads, read, started>>

-----------------------------------------------------------------------------
(* What happens from outside                                               *)

Terminal == {"refused", "failed", "passed", "gated", "killed"}

\* The runner is killed and its threads die; their subprocesses go on.
Kill(r) ==
  /\ pc[r] \notin Terminal \cup {"start"}
  /\ pc' = [pc EXCEPT ![r] = "killed"]
  /\ UNCHANGED <<outside, disk, threads, read, started>>

DriftSource(b) ==
  /\ drifts < MaxDrift
  /\ drifts' = drifts + 1
  /\ source' = [source EXCEPT ![b] = Altered]
  /\ UNCHANGED <<program, disk, pc, threads, read, started>>

DriftProgram(p) ==
  /\ drifts < MaxDrift
  /\ drifts' = drifts + 1
  /\ program' = [program EXCEPT ![p] = Altered]
  /\ UNCHANGED <<source, disk, pc, threads, read, started>>

-----------------------------------------------------------------------------
Main(r) ==
  \/ Admit(r) \/ LookForLock(r) \/ WriteLock(r)
  \/ \E b \in Blocks : Collect(r, b)
  \/ Drain(r) \/ ClosePool(r)
  \/ OpenReservoir(r) \/ Overflow(r) \/ FinishReservoir(r) \/ Unpack(r) \/ UnpackFails(r)
  \/ AggregateAgain(r) \/ Aggregate(r) \/ AggregateFails(r) \/ WriteSummary(r)

Worker(r, b) ==
  \/ BeginEncode(r, b) \/ BeginDecode(r, b)
  \/ EncoderWritesMeta(r, b) \/ EncoderWritesBin(r, b) \/ DecoderWrites(r, b)
  \/ SubprocessFails(r, b) \/ Return(r, b)

FromOutside ==
  \/ \E r \in Launches : Kill(r)
  \/ \E b \in Blocks : DriftSource(b)
  \/ \E p \in Programs : DriftProgram(p)

Next ==
  \/ \E r \in Launches : Main(r) \/ \E b \in Blocks : Worker(r, b)
  \/ FromOutside

Spec == Init /\ [][Next]_vars

-----------------------------------------------------------------------------
(* Properties                                                              *)

Files == [state : {"whole"}, blocks : [Blocks -> Encodings], by : {None}]
           \cup [state : {"torn"}, blocks : {<<>>}, by : Launches \cup {None}]
Reports == [record : Encodings, source : Contents, decoder : Contents]
Summaries == [job : Jobs, hashes : [Programs -> Contents], reservoir : Files,
              metas : [Blocks -> Encodings], reports : [Blocks -> Reports]]
OrNone(S) == S \cup {None}
Steps == Terminal \cup {"start", "again", "admitted", "unlocked", "encoding", "draining",
                       "packing", "writing", "unpacking", "decoding", "aggregating", "summing"}

\* Every variable holds what its comment says; what the packer reads are
\* containers of all blocks, and a summary is only written with all its parts.
TypeOK ==
  /\ source \in [Blocks -> Contents]
  /\ program \in [Programs -> Contents]
  /\ lock \in OrNone(Jobs)
  /\ meta \in [Blocks -> OrNone(Encodings)]
  /\ bin \in [Blocks -> OrNone(Encodings)]
  /\ reservoir \in OrNone(Files) /\ packed \in OrNone(Files) /\ checked \in OrNone(Files)
  /\ unpacked \in OrNone([Blocks -> Encodings])
  /\ decoded \in [Blocks -> OrNone(Reports)]
  /\ summary \in OrNone(Summaries)
  /\ pc \in [Launches -> Steps]
  /\ task \in [Launches -> [Blocks -> {"idle", "to encode", "to decode"} \cup Busy \cup Finished]]
  /\ proc \in [Launches -> [Blocks -> OrNone(
       [kind : Busy, at : {"running", "half", "exited", "dead"}, out : OrNone(Encodings)])]]
  /\ got \in [Launches -> SUBSET Blocks]
  /\ read \in [Launches -> OrNone([Blocks -> Encodings] \cup Summaries)]
  /\ started \in [Blocks -> Nat]
  /\ drifts \in 0 .. MaxDrift

\* docs/REPRODUCIBILITY.md: "Each block is encoded once."  A killed launch
\* leaves its lock, and a failed one too, so that no other encodes again.
EncodedOnce == \A b \in Blocks : started[b] <= 1

\* A summary describes one run: its rows' metadata are those of its job's
\* encoders over the manifest's sources, the reports are of those very
\* containers, and the reservoir whose digest it gives holds them and nothing
\* else.  Where it names the pinned programs, those did the work.
SummaryGenuine ==
  summary # None =>
    /\ summary.reservoir = Whole(summary.metas)
    /\ \A b \in Blocks :
         /\ summary.metas[b].block = b
         /\ summary.metas[b].job = summary.job
         /\ summary.metas[b].source = Original
         /\ summary.reports[b].record = summary.metas[b]
         /\ summary.reports[b].source = Original
         /\ summary.hashes["encoder"] = Original => summary.metas[b].encoder = Original
         /\ summary.hashes["decoder"] = Original => summary.reports[b].decoder = Original

\* The summary's job is the one that the lock reserved the directory for, also
\* after any number of aggregations.
SummaryUnderLock == summary # None => lock = summary.job

AfterEncoding == {"packing", "writing", "unpacking", "decoding", "aggregating", "summing"}

\* While a launch packs, unpacks or aggregates, no encoder writes: all of
\* them, also those of launches that were killed, are gone.
QuietAfterEncoding ==
  \A r \in Launches, s \in Launches, b \in Blocks :
    pc[r] \in AfterEncoding /\ proc[s][b] # None =>
      proc[s][b].kind = "decode" \/ proc[s][b].at \in {"exited", "dead"}

\* audit_variant of tools/audit_qwen_paired.py: what the paired audit demands
\* of the directory before it believes its summary.
LogicalSum(containers) == SumFunction([b \in Blocks |-> LogicalBits(containers[b])])

AuditAccepts(variant) ==
  /\ \A b \in Blocks :
       /\ meta[b] # None /\ decoded[b] # None
       /\ decoded[b].source = Original
       /\ decoded[b].record = meta[b]
       /\ decoded[b].record.job.variant = variant
       /\ variant = "rht" => decoded[b].record.job.revision = Published
  /\ packed # None /\ checked # None /\ summary # None
  /\ packed.state = "whole" => LogicalSum(packed.blocks) = LogicalSum(meta)
  /\ summary.reports = decoded
  /\ LogicalSum(summary.metas) = LogicalSum(meta)
  /\ \A p \in Programs : summary.hashes[p] = Original
  /\ summary.reservoir = reservoir

\* A directory that the paired audit accepts is what it looks like, whatever
\* was edited, killed or aggregated again: the pinned encoder's work on the
\* published sources, decoded by the pinned decoder from the reservoir that
\* lies beside it.
AuditedGenuine ==
  \A v \in Variants : AuditAccepts(v) =>
    /\ reservoir = Whole(meta)
    /\ \A b \in Blocks :
         /\ meta[b].source = Original /\ meta[b].encoder = Original
         /\ decoded[b].decoder = Original

=============================================================================
