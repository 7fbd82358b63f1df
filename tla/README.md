# Verification of the STRATA / POLARIS codec repository

This directory holds TLA+ models of the programs that make, pack, publish and
read the repository's compressed checkpoints, the TLC configurations that check
them on small instances, and proofs, checked by TLAPS, of the properties that
matter most for every value of the constants. Paths below are relative to the
root of the repository.

## Contents

1. The system: components, state, interaction, what is hard
2. The modules, and how they correspond to the code
3. The runs: questions, bounds, fairness
4. What is proved, and by which argument
5. What is only model-checked, and what is not modelled
6. Plan

## 1. The system

The repository compresses the expert weights of a language model with a polar
lattice quantizer ("POLARIS", "STRATA v2") under a protocol that is meant to
make the published figures trustworthy: choices are sealed before data is seen,
every block is encoded exactly once, and a negative result is recorded like a
positive one. The pieces are Python programs that share no memory. They meet in
the file system, through documents that name each other by SHA-256.

    selection and freeze          materializer                 one-shot runner
    (blind_protocol_v2/*)  --->   materialize_full_  --->      run_one_shot.py
    control documents             tensors_v2.py                 | emit_and_lock.py (seal)
                                  unblinded/, source lock       | polar_encoder.py x 14 (pool)
                                                                v
    panel runner                  reservoir_pack_v2.py         artifact, summary
    tools/run_qwen_panel.py --->  reservoir_unpack_v2.py       or failure record
      encoders, decoders           one shared bit reservoir

### Components

| component | state it keeps | operations | interacts with |
|---|---|---|---|
| One-shot runner, `strata_v2_codec/run_one_shot.py` | output directory: intent, encodings, artifact, summary or failure record; in memory: the frozen runtime hashes, the verified manifest and lock, a thread pool of futures | gate, emit (a call), verify, intent, pool, collect, recheck, pack | calls the emitter, starts one encoder process per block, is guarded only by `mkdir` against another launch |
| v2 emitter, `emit_and_lock.py` | staging blocks, header, route, labels, manifest, allocation lock | load and pin control documents, build staging, write manifest, seal lock | called by the runner; reads what the materializer published |
| Single-block encoder, `polar_encoder.py` | none; writes metadata and container | encode once | subprocess of the runner |
| Format primitives, `strata_v2_codec/common.py` | none | header, route, profile allocation, seals | used by all of the above |
| Materializer, `blind_protocol_v2/materialize_full_tensors_v2.py` | publish lock, private staging directory, `unblinded/` | check control chain, lock, fetch ranges, source lock, recheck, revalidate, rename without replacing, clean up | HTTP range server; control documents |
| Selection and freeze, `prepare_selection_proposal.py`, `validate_proposal.py`, `build_codec_freeze_v2.py`, `validate_codec_freeze_v2.py`, `audit_v1_result.py` | one document each | build, validate | the materializer and runner go by the documents |
| Reservoir packer, `src/reservoir_pack_v2.py` | the reservoir file, its audit; a bit sink with pending bits | parse, append, finish, header, audit | the panel runner starts it |
| Reservoir unpacker, `src/reservoir_unpack_v2.py` | a staging directory, the directory of records, its audit | validate, extract by chunks, rename, audit | reads the packer's file |
| Record decoders, `src/qwen_reservoir_decode.py`, `src/reservoir_block_decode_v2.py` | none | decode a record, write a report | read the unpacker's records |
| Polar codec, `src/polaris_sc_v2_rht_encoder.py`, `src/polaris_sc_v2_encoder.py`, `src/independent_decoder_v1.py`, `bg_codec_bec_encoder.py` | the coder's interval, pending bits, code window | arithmetic coding, successive cancellation, Hadamard transform | the encoder's payload is the decoder's input |
| Panel runner, `tools/run_qwen_panel.py` | work directory: execution lock, encodings, reservoir, audits, records, decode reports, summary; in memory: two thread pools, one after the other | admit, lock, encode, pack, unpack, decode, aggregate; aggregate again | starts encoders, packer, unpacker and decoders; the paired audit `tools/audit_qwen_paired.py` judges the directory |
| Panel preparation and release checks, other `tools/*` | one output each | fetch, build, recompute | write or read published files |
| Expert-local codec, `strata_expert_local_codec/*` | plan directory: plan, staging, encodings, container, summary; an audit directory; a release | build plan, encode and pack, audit, publish, verify | a relative of the one-shot runner that encodes block by block, and has no lock |
| Auditors, `strata_v2_klt_*_v1.py`, `tools/verify_*.py` | none | recompute | read published files |
| `research/`, `release/`, `frozen/`, `results/`, `docs/` | data and exploratory scripts | - | - |

### What makes each component correct

* Runner: a block's encoder is started at most once, whoever launches, races
  and is killed; what is published was made from what the intent names, by the
  installation it names; a verdict is final, single, and written when no
  encoder runs; a failing block does not keep the others from being attempted;
  a launch ends.
* Reservoir: what was packed comes out, bit for bit and block by block; the file
  is the only one with those blocks; an unfinished file is not accepted;
  published records are never replaced, and the audit describes them.
* Materializer: one launch at a time has access to the source; what is published
  was requested under one freeze and is complete; nothing is replaced; a failed
  launch clears up after itself, unless its clearing up is struck itself.
* Arithmetic coder: the interval is never emptied, the decoder recovers the
  message, the payload is not longer than it should be.
* Panel runner: a block is encoded once per work directory; nothing is packed,
  unpacked or aggregated under a running encoder; a summary describes one run, of
  the job that reserved the directory, and no aggregation makes it one of another
  job; a directory that the paired audit accepts is what it looks like.
* Expert-local codec: what the verifier accepts is genuine and was audited; honest
  work is not rejected; an accepted release is not changed; a block is encoded
  once.

### What is hard to test here

Races of two launches for a directory or a lock; edits between the moment a file
is hashed and the moment it is used; a launch killed between any two steps, and
encoders that outlive it; one future failing while others run; exceptions
raised outside the block that records them; bits that straddle bytes and chunk
edges; an interval that hovers around its middle. `PROJECT.json` lists each at
its line under `hazards`, with the properties that watch it.

## 2. The modules

In every module a SHA-256 digest is modelled by the content it is the digest of,
and a JSON document by the fields that are compared with something. An edit
from outside never restores the bytes it replaced, so that equality of contents
is what equality of digests is in the code.

### `SealedRun` and `OneShot`

`SealedRun` is the abstract one-shot run: seal once, hand each block to its
encoder at most once, give a verdict when nothing runs, never revise it.
`OneShot` is the program: several launches (`Runners`) that name one output
directory, each with a main thread (`pc`), a pool of `MaxWorkers` threads and the
futures of its blocks (`task`), the emitter it calls, and the encoder processes.

| action | code |
|---|---|
| `Gate`, `Refuse` | `main` up to and including `verify_blind_runtime_freeze` |
| `ClaimDir` | `emit_candidate`'s `mkdir`, where the loser of a race stops |
| `Stage`, `StageFails`, `SealManifest`, `SealLock` | `load_documents`, `build_staging`, manifest and lock |
| `VerifySeal`, `WriteIntent`, `OpenPool` | `verify_preencoding`, the intent, the `encoded/` directory and `submit` |
| `Take`, `Spawn`, `EncoderExits`, `EncoderFails`, `Audit`, `Capture` | `encode_one` on a pool thread, and the subprocess |
| `Collect`, `RecordFailure`, `ClosePool` | the `as_completed` loop, the `except` clause, leaving the `with` block |
| `Recheck`, `Pack`, `Overflow`, `PackFails`, `WriteSummary` | the re-verification, `pack_artifact` and the summary |
| `Crash`, `DriftRuntime`, `DriftFile`, `DriftManifest`, `DriftLock`, `Reseal`, `DriftEncoded` | from outside |

Abstractions: the queue of the pool is first in, first out, and submitting is one
step; `as_completed` delivers any finished future; the encoder's read of its
input and of the engine is one step, at its exit; header, route and labels are
one asset, which an edit leaves inconsistent (`Altered`) or replaces by another
consistent set (`Resealed`); every write is atomic. `validate_header` compares
header, route and labels with each other, by the header's own SHA-256 and CRC,
and with constants, but with no sealed digest, so that `HeaderValid` refuses only
the former. `late` remembers whether the asset was edited after the last rehash
and before it was packed. A torn document can only be left by a crash, and
nothing reads it afterwards, as there is no resumption. An interrupt from the
keyboard, and a failing disk at a step the model does not let fail, count as a
crash; in the code an interrupt would wait for running encoders first.
Edits between a staging file's write and its hash are not modelled. The encoder
that the wrapper loads at run time is not part of the repository; what the wrapper
demands of it is in `polar_encoder.py`, and the equivalent published encoder is
`src/polaris_sc_v2_rht_encoder.py`.

### `ReservoirFile` and `Reservoir`

`ReservoirFile` is what the file is to its readers: one register that is empty,
unreadable or holds a whole checkpoint, rewritten only with a checkpoint that
fits. `Reservoir` is packer and unpackers, down to bits: a byte is a group of
`ByteBits` bits, most significant first, and the sink's and the repacker's
shifts and masks are operators on bit sequences (`AppendBlock`, `Finish`,
`Take`, `Slice`, `Repacked`). The packer writes a blank header, directory and
payload, and the header last; the unpacker takes the file's times, validates,
takes them again (`touched` remembers writes in between), opens it again and
extracts chunk by chunk into a staging directory that one rename publishes.

Abstractions: FP16 scales are classes (those that round to zero or infinity are
told apart); every file has `BlockCount` blocks; validation reads the file at the
moment of the second `stat`, and a write since the first makes it refuse. A
killed packer leaves any prefix of the payload and a blank header. A foreign
file is put in place only while no packer has it open.

### `Materializer`

Launches with one publish lock and one final path.

| action | code |
|---|---|
| `Check` | up to `validate_pre_materialization_state` |
| `TakeLock`, `EnterTry` | the script's hash and `os.open` with `O_EXCL`; the lock's identity and the `try` |
| `MakeStaging`, `CaptureIdentity` | `mkdtemp`; `lstat` and the identity that the clearing up goes by |
| `Fetch`, `FetchFails`, `SealSourceLock` | the ranges, and the source lock over them |
| `RecheckControl`, `Revalidate`, `FindAbsent`, `Rename`, `Receipt` | from the second `validate_control_chain` to the returned receipt |
| `Cleanup`, `Release` | `safe_cleanup_directory` and `safe_remove_lock`, each of which may fail without saying so |
| `Interrupt`, `Kill` | an exception at any step, which runs the `except` and `finally` clauses where they are in force; and a launch that runs neither |
| `DriftControl`, `DriftScript`, `Occupy`, `Tamper`, `Swap` | from outside: control documents (possibly to ones that are valid again), the script itself, the final path, the contents of the staging directory, the directory as a whole |

What is left behind depends on where an interrupt arrives. Between `os.open` and the
`try` nothing removes the lock; between `mkdtemp` and the capture of its identity
nothing removes the directory; and what interrupts or fails the clearing up is
swallowed by it. `faults` remembers these, and `NothingLeftBehind` says that there is no
other way. `Truncated` stands for a body of another length than was asked for, which
`fetch_exact_range` refuses (`Exact`); one of the right length is accepted whatever it
says, and only sealed from then on.

Abstractions: control chain and script are hashed at one moment; checks of the
legacy outputs and full shards are folded into `ControlHolds`; the window between
`lstat` and the removal in `safe_cleanup_directory` and `safe_remove_lock`, and
reused inode numbers, are left out; a directory that was removed in part counts as one
that is there. A launch killed inside the lock leaves it
behind, and all later ones are refused: this is what the code does, and why
`Terminates` is about launches and not about success.

### `ArithmeticCoder`

`arithmetic_encode_binary` followed by `ArithmeticBinaryDecoder`, with the width
of the word, the frequency total and the message as parameters. One step is one
symbol or one turn of the renormalisation loop. The frequencies, which in the
code are a function of the symbols so far, are arbitrary; the decoder is given
those of the encoder, as it would compute the same ones from the same prefix.
Past the end of the payload the decoder reads zeros, as `_read` does.

### `ProfileAllocation`

`allocate_profiles`, with the state of its loops as variables: `TryProfile` is one pass of
the inner loop, with its comparison entry by entry (`Improves`), `CloseBlock` what
follows it, `ArgMin`, `Backtrack` and `Return` the way back with its assertions. A negative
subscript counts from the end of a column, as numpy's does. Distortions are numbers of
a table that decreases from profile to profile, as `factor * e * 2^(-2 r)` does; sums are
exact, where the code's are rounded doubles: assignments that tie exactly, as blocks
with equal distortions make them, may differ by a rounding there, and the tie rule is
then not what decides. What the result should be is said by
enumeration of all assignments (`Affordable`, `Distortion`, `Before`). The expert-local codec
(`strata_expert_local_codec/common.py`) and the independent auditor repeat these loops,
the former without the assertion in the middle; the tie rule is what makes them agree.

### `PanelRun`

Launches of `tools/run_qwen_panel.py` that name one `--workdir`. Some execute the
panel, some (`Aggregators`) are given `--aggregate-only`; each has a variant and a
manifest. State: what lies in the directory, a `pc` for each main thread, the
futures (`task`) of the pool that is open and the subprocess that each pool thread
waits for (`proc`), which outlives a killed launch.

| action | code |
|---|---|
| `Admit` | `assert_pinned_implementations`, `validate_manifest` |
| `LookForLock`, `WriteLock` | `lock_path.exists()` and the `write_json` after it |
| `BeginEncode`, `Return`, `BeginDecode` | `encode_one` and `decode_one` on a pool thread, before and after their subprocess |
| `EncoderWritesMeta`, `EncoderWritesBin`, `DecoderWrites`, `SubprocessFails` | the subprocesses |
| `Collect`, `Drain`, `ClosePool` | the `as_completed` loop of `execute_parallel`, and leaving its `with` block with or without an exception |
| `OpenReservoir`, `Overflow`, `FinishReservoir`, `Unpack`, `UnpackFails` | packer and unpacker, as the runner starts them |
| `AggregateAgain` | the conditions of `--aggregate-only` |
| `Aggregate`, `AggregateFails`, `WriteSummary` | `aggregate` |
| `Kill`, `DriftSource`, `DriftProgram` | from outside |

A container is the record of what made it (block, job, source, encoder); metadata
and container of one encoding agree in it. The reservoir is whole or torn; what
happens inside its file is `Reservoir`'s subject. `AuditAccepts` is
`audit_variant` of `tools/audit_qwen_paired.py`, as a condition on the directory.
Abstractions: a launch admits programs and sources at one moment; a file is hashed
and used at one moment; the unpacker's staging is one step; the two passes of a
pool use the same `task`. Directories of older versions, which hold a summary and
no lock, are not started from: `LegacyBound` is reached only through states that
hold no summary, and so always refuses.

`docs/REPRODUCIBILITY.md` says (lines 319 to 321) that `--manifest` is for "the
byte-identical published manifest at another location; the runner will reject a
different hash". Neither the wrapper nor the runner compares the manifest with a
published digest. The exact encoder records no digest of the manifest either, and
`aggregate` compares sources rather than manifests: what keeps a work directory to
one manifest is the execution lock.

### `LocalRun`

The programs of `strata_expert_local_codec/` around one plan directory: launches
of `run_and_pack.py`, auditors, and publishers with one release directory.

| action | code |
|---|---|
| `BuildPlan` | `build_from_v2.py`, whose plan is the last thing it writes |
| `VerifyPlan`, `FindAbsent`, `StartEncoder`, `ReadMetadata`, `HashOutputs` | `verify_plan` and `run_block`; blocks one after the other |
| `EncoderWritesMeta`, `EncoderWritesBin`, `EncoderFails` | the encoder process, which outlives its launch |
| `Pack`, `Overflow`, `PackFails`, `WriteSummary` | `pack` |
| `Parse`, `DecodeBlock`, `Report` | `independent_audit.py`: the parent parses, each worker reads the container again, the report hashes it at the end |
| `FindNoRelease`, `MakeRelease`, `CheckRun`, `CopyDocuments`, `CopyContainer`, `CopyMetadata`, `WriteManifest`, `VerifyRelease` | `publish_checkpoint.py`, copy by copy |
| `Kill`, `Drift` | from outside |

`Accepted` is `verify_checkpoint.py`, as a condition on a release: `ManifestHolds`,
`AssetsHold`, `SummaryHolds`, `MetadataHold`, `AuditHolds` are its parts. Abstractions:
header, route, labels and profiles are one asset; copies of one kind are one step;
a report of an audit is written at once; a killed auditor or publisher is one that
takes no more steps, as it holds nothing that others wait for. Edits reach
encoder, matrices, staging, assets, container and the release's container; a
release that is edited in all its files at once is a different release, which
the model does not judge.

`*Proofs` modules hold the proofs, `Induction` the lemmas several of them use. `MC*` modules give TLC its constants.

## 3. The runs

| run | instance | question |
|---|---|---|
| `one_shot_safe` | 2 launches, 2 blocks, 2 threads, 2 edits, blind mode, reservoir one byte short of two large blocks | type invariant; `EncodeAtMostOnce`, `PublishedGenuine`, `QuietVerdict`, `OneVerdict` |
| `one_shot_live` | 2 launches, 2 blocks, 1 thread, 1 edit, development mode | `ImplementsSealedRun`, `Terminates`, `EveryBlockAttempted` |
| `one_shot_record` | as above, blind mode | `EndsOnRecord`, which the code violates |
| `reservoir_race` | 2 unpackers, 2 runs of the packer over 6 jobs, chunks of 2 bytes | `RoundTrip`, `AuditDescribesOutput`, `OutputOnce`, `ImplementsReservoirFile` |
| `reservoir_files` | 1 unpacker, and one file of 2 blocks and 4 payload bits: packed from any messages, or any that a header may claim to describe | `RoundTrip`, `Canonical` |
| `materializer_safe` | 2 launches, 2 ranges, 1 body, 2 changes | `PublishedWhole`, `FetchedUnderFreeze`, `AccessAlone`, `NothingLeftBehind`, `FinalOnce`, `Terminates` |
| `arithmetic_coder` | words of 5 bits, total 4, every message of up to 5 symbols | `Separable`, `CodeInside`, `RoundTrip`, `RateBound` |
| `profile_allocation` | 3 blocks of weights 2, 2 and 1, 4 profiles, 5 units, 3375 tables of distortions | `Optimal`, `NeverRaises` |
| `panel_safe` | an execution and an aggregation of either variant, the second execution with another manifest, 2 blocks, 2 workers, 1 edit | `EncodedOnce`, `SummaryGenuine`, `SummaryUnderLock`, `QuietAfterEncoding`, `AuditedGenuine` |
| `panel_race` | two executions of one job that overlap at the lock, no edit | `EncodedOnce`, which the code violates |
| `local_safe` | 2 launches, 1 auditor, 2 publishers, 2 blocks, 1 edit | `AcceptedGenuine`, `HonestAccepted`, `ReleaseOnce` |
| `local_once` | the same without edits | `EncodedOnceAndPacked`, which the code violates |

Why the bounds are enough. Two launches are what a race for a directory, a
restart after a crash and an orphaned encoder need; in `panel_safe` two further
ones aggregate, before, between and after them. Two blocks are what "one fails
while another runs" and "one uses what the other saves" need. Two edits let a
change be covered up by a second one (`Reseal` after `DriftFile`). The materializer
compares a body with nothing but what it saved of it, so that one body, a truncated and an
altered one are all there is to tell apart. Bytes of two
bits with budgets of four make every alignment of a record's begin and end
occur. In the coder, five symbols are the fewest after which an interval that is
not shifted out of the middle becomes narrower than the total, and as many as
keep `RateBound` within TLC's integers. In the allocation, two weights make unreachable
units, and five units stop the inner loop early for the large blocks and not for the
small one. In `panel_safe` and `local_safe` an edited
encoder makes longer payloads, so that a container may overflow for it alone.
`panel_safe` has `Overlap = FALSE`, two launches are never both between the look for
the lock and its writing; `panel_race` drops that, and shows what depends on it. The constants named in comments as bounds
(`MaxDrift`, `MaxFiles`, `MaxSymbols`) limit the environment or the
length of the input, not the program. Symmetry of launches is used only in
`one_shot_safe` and `local_safe`, which have no liveness property.

Deadlock is not checked: every program here is started a bounded number of times
and comes to an end, after which nothing has to happen.

Fairness. `OneShot!FairSpec` has weak fairness of each started launch's main
thread, and of each block's chain of steps, the encoder process included. Main
and pool threads are run by the operating system. The encoder has no timeout
(`run_process` waits without one): that it returns, with success or failure, is
an assumption, and `Terminates` shows that nothing else is needed. `Materializer`
has weak fairness of each started launch; every request carries a timeout of 180
seconds, so that a fetch ends. Starting a launch and everything from outside are
never fair. No liveness is claimed of `PanelRun`, whose pool is that of the one-shot
runner, nor of `LocalRun`, which is sequential.

Mutants. For every property of a passing run, `PROJECT.json` names a plausible
bug (`mkdir` with `exist_ok`, a pool that cancels its queue, a rename that
replaces, a shift that forgets its offset, ...) for which TLC finds the property
violated. The mutated definitions stand in the modules next to the ones they
stand in for.

### The findings

*A run that ends on no record* (`one_shot_record`).
`docs/STRATA_V2_BLIND_PROTOCOL.md` line 176 says of the runner that it "writes
either a completed summary or an explicit failure record". The `try` block that
writes the record covers only the loop over the futures. The runtime check that
precedes the pool (`run_one_shot.py` line 502), the re-verification after it (lines 523
to 530) and the assertions of `pack_artifact` (363 to 409) raise outside of it: a
run that has sealed its intent, or encoded every block, then ends with neither
document. `one_shot_record` shows the shortest such run. Nothing wrong is
published this way (`PublishedGenuine`), and the directory is not used again.

*Two panel runs in one directory* (`panel_race`). `docs/REPRODUCIBILITY.md` says "Each
block is encoded once." (line 324) under "an irreversible execution lock" (284).
`run_qwen_panel.py` looks for the lock with `exists()` (line 605) and then writes it with
`write_text`, which replaces what is there. Two launches that both look first both
go on, and encode every block into one directory. `os.open` with `O_EXCL`, as the
materializer has it, or a rename that does not replace, would close the gap; the
theorems of `PanelRunProofs` show that nothing else is missing for a block to be
encoded once.

*A block encoded twice under "encoded_once_and_packed"* (`local_once`).
`run_and_pack.py` finds out by a block's outputs whether it was encoded (line 67),
and the encoder writes them at its end. Two launches that both look in time, or a
launch that is repeated after an encoder failed or was killed before it wrote, encode the
block again, against "no retry" (line 103); the summary gives the same status. What is
published is genuine all the same (`AcceptedGenuine`): a second encoding of the same
staged block is as good as the first, and a mixture of two is refused.

### The exception of `PublishedGenuine`

Before it packs, the runner is to "close the encode-to-pack TOCTOU window: every
allocation-locked source and asset is rehashed after all encoders finish and before
packing" (`run_one_shot.py` lines 525 to 526). `pack_artifact` then reads header, route
and labels once more (lines 403 to 405) and only asks `validate_header` whether they are
consistent in themselves. A consistent set that takes their place in between is packed
and published under the lock of the old one: this is the exception `late` of
`PublishedGenuine`, which fails without it. The blocks have no such window: a container is
read once, hashed and packed from the same bytes. Comparing the three files with the
lock's digests where they are read would close it.

## 4. What is proved

All theorems hold for every number of launches, blocks, ranges, edits and every
word length. They rest on the named assumptions of each module only
(`RunAssumption`, `MaterializerAssumption`, `CoderAssumption`, `WordAssumption`,
`PanelAssumption`, `LocalAssumption`, `AllocationAssumption`, `ReservoirAssumption`,
`FilesAssumption`, and the `NoneAssumption` of `OneShot`, `PanelRun` and `LocalRun`: the
absent document is none of the documents), which TLC evaluates on every run.
`WordAssumption` says that a word has as many bits as the decoder reads before its
first symbol, 32 in the code.

`Induction` is what the proofs about sums, payloads and offsets share. A property that
holds of every number is a set of numbers (`UpToEvery`, `UpToBound`), shown to be all
of them from a least element that is missing (`LeastElement`). A recursive function is
a run: a first value, and for each number the function that makes the next value of the
one before; `RunToBound`, `RunUnique` and `RunForEver` say that there is one such run. The
recursive definitions of the models (`Power`, `Shares`, `Sums`, `Offsets`, and `FlattenSeq` of
the library) are shown to be runs once, and only their equations are used after that.

`OneShotProofs`:

* `AtMostOnce` (`EncodeAtMostOnce`). The count of encoder starts is not inductive
  alone. `ControlInv` adds that only the launch that made the output directory is
  past its `mkdir` and has futures, that it has none before the pool opens, and
  that a started encoder belongs to a future of the owner that is beyond
  `checked`. Since a directory never loses its owner, and `Spawn` leaves `checked`
  for good, no second start is possible.
* `TypeCorrect` (`TypeOK`). `Typed` adds to the types what the readers of documents
  rely on: that a launch past a given step holds a manifest, a lock and the
  captured hashes, and that a future past its encoder has an output on disk.
* `VerdictIsQuiet`, `VerdictIsOne` (`QuietVerdict`, `OneVerdict`). `VerdictInv` says
  at which steps of the owner each of artifact, summary and failure record may
  exist, and that the owner's futures are finished wherever it may write one; the
  launches that do not own the directory have no futures by `ControlInv`.
* `Published` (`PublishedGenuine`). What a published artifact consists of was hashed,
  checked and copied at a dozen places, by processes that see different states of
  the files. The invariant follows the digests. `Remembered`: the launch holds the
  lock it verified and the installation it started on, and the intent repeats both.
  `Made`: the container that a block's metadata names is the encoder's, of the
  source it read, whatever became of the files since. `Delivered`: an engine
  altered at the start stays altered and is the one that encodes, one still the
  original at the audit was the original when it encoded, so that the row of an
  audited block is of the intent's source and engine. `ArtifactOf`: what was packed
  has the digests of those rows. For header, route and labels, which are read
  again, `Rechecked` says that from the re-verification to the packing they are the
  lock's, unless they were edited there (`late`), and the packing that they passed the
  consistency check.
* `Implements` (`ImplementsSealedRun`). `OneShot`'s every step is a step of `SealedRun`
  or a stutter: `WriteIntent` is its `Seal`, `Spawn` its `Encode`, `EncoderExits` its
  `Finish`, a future that fails its `Reject`, `WriteSummary` its `Publish`, `RecordFailure`
  and `Overflow` its `Decline`. `SealedRun` asks of a verdict that no block is running and
  of publication that every block is encoded, which `VerdictInv` provides, and of
  the summary that it was not there, which is again why only one launch may own the
  directory. Edits and kills are stutters.

`MaterializerProofs`:

* `OneAccess` (`AccessAlone`). `Locked`: a launch past the lock owns it. A lock is
  taken only when there is none and given up only by its owner.
* `OneFreeze` (`FetchedUnderFreeze`), of freeze and script. `Authorized` relates the control
  chain and the script that each range was requested under to the present ones:
  both are numbered by their changes, those of a range are not newer than the present
  ones and not older than those the launch has seen; when the recheck finds the latter
  two equal, all of them are, and after that nothing is requested any more. The source
  lock names those the launch has seen (`SourceLock`).
* `TypeCorrect`, `ReceiptWhole`, `NothingLeft` (`TypeOK`, `PublishedWhole`,
  `NothingLeftBehind`). `Kept` reads off a launch's place what it has on disk: nothing
  before the lock, a directory from then on to its end; at the final path only a
  directory that was its own when it was renamed; and from revalidation on, unless
  somebody changed it since, what was received and sealed (`Sound`). For
  `NothingLeftBehind` it says of a failed launch that its directory is gone, was exchanged,
  published, or that clearing it up was struck, and the same of the lock; nothing weaker
  holds, as `safe_cleanup_directory` is best-effort and an interrupt may come before
  there is an identity to go by.
  `Authorized` contributes that the ranges received are all there are, and the types
  of the rows that each body has the exact length.
* `FinalKept` (`FinalOnce`) needs no invariant: it is the rename that does not replace.

`ArithmeticCoderProofs`:

* `WordsHold` (`TypeOK`), `NeverEmpty` (`Separable`), `CodeHeld` (`CodeInside`). The
  invariant adds `Settled`: between symbols no end can be shifted out, so that
  the interval straddles the middle and one of the quarters and is wider than
  `Quarter`, hence than `Total`. `ShareInside` then bounds the split strictly
  inside the interval, `ScaledBelow` turns the decoder's comparison of the scaled
  code into the comparison of the code with the split, and `ShiftInside` shows
  that each branch of the loop takes ends and code down by an offset that makes
  the mask of the doubling lose nothing.
* `RateKept` (`RateBound`), the length of the payload. `Rate` relates the width of the
  interval to what was encoded: `Full * 2^bits * shares * (Quarter - Total)^n`, with the bits
  written and pending and the product of the shares of the n symbols, is at most
  `Width * Total^n * Quarter^n`. A symbol takes at least its share of the width less one unit,
  which costs at most the factor `(Quarter - Total) / Quarter`, as the width exceeds `Quarter`
  and a frequency is at least one; a shift doubles the width and adds a bit.
* `DecodesTheMessage` (`RoundTrip`), that the decoder recovers the message. The encoder's
  intervals are kept as a `trail`: each is scaled by the bits shifted out so far, with
  a `base` that adds up what they were worth, so that the later ones lie `Within` the
  earlier ones. `Encoding`: the bits written, with the pending ones as either choice, are
  worth the base of the present interval. The flushed bits therefore lie in the last
  interval, hence in all (`Holds`, `Complete`). `Decoding`: the decoder is always at one
  interval of that trail, and base plus code is the value of the bits it has read. So the
  code is on the side of the split that the message's symbol took, the decoder chooses
  that symbol, and shifts when the encoder did.

`ReservoirProofs`, from `FilesAssumption` (what is packed or presented has the
fields that the reader unpacks, and `BlockCount` entries):

* `TypeCorrect` (`TypeOK`). `Packing`: what was parsed is legal, so that the slice the sink
  takes of a container is as long as its length field says; and whole bytes written after
  whole bytes are whole bytes (`WholeBytes`). `Extracting`: an unpacker keeps to the
  entries of the directory it validated, and cuts within the bytes it read
  (`SliceTyped`, `RepackedTyped`, `TakeWithin`), though the file may have changed since.
* `AuditDescribed` (`AuditDescribesOutput`), `PublishedOnce` (`OutputOnce`). `Described`: whoever
  has renamed but not yet written its audit owns the records in place. Whoever
  renames finds none there, so nobody else is between rename and audit.
* `PackedComesOut` (`RoundTrip`) and `OneFilePerMessages` (`Canonical`), down to bits. Of the
  packer, `Filling`: the bits written and those pending, one after the other, are
  the messages appended so far, each at its offset (`Placed`), and from the end of the
  last to the capacity there are zeros (`Filled`); so the padding of the last byte and the
  reservoir's filling add nothing but zeros, and `Audited` carries this to the audit. Of
  an unpacker, `Following`: as long as nobody wrote the file since its first
  stat, it is the one that was validated, the records staged are its blocks, and the one
  being cut has whole bytes of its block up to the cursor (`Within`). `RepackedIs` is the
  arithmetic of that step: the bytes read, shifted and masked, are the bits asked for,
  padded with zeros. `RoundTrip` follows, since what was packed was padded with zeros too
  (`Legal`), and `Canonical`, since pieces that lie at their offsets in a stream
  are, joined, the stream (`Assembled`), and validation demands zeros behind it.
* `ImplementsRegister` (`ImplementsReservoirFile`), as long as no foreign file takes the
  reservoir's place (`Forgeries = {}`; with forgeries the register could change without a
  rewrite). `OpenOutput` is `Begin` of messages that fit, which is what `Fits` sums up before;
  the sink's steps keep the header blank and the register unreadable, so that they are
  stutters and a killed packer's last step is `Abandon`; `WriteHeader` is `Commit`, as cutting
  a filled payload at the directory's offsets gives the job's messages (`CutIsMessages`).

`ProfileAllocationProofs`:

* `TypeCorrect` (`TypeOK`), `NoneRaised` (`NeverRaises`). `Chain`: the profile recorded for a number
  of units leads to a number for which the block before has one, and the first block's
  to none. `Reached` and `Trial` say that exactly what is recorded is reachable, and that
  spending nothing always is; so `np.argmin` finds a recorded number, and the walk back
  (`OnTrack`) meets a record at every block and ends at zero.
* `OptimalReturned` (`Optimal`): of all assignments within the budget the one returned has the
  least distortion, then the fewest units, then the lowest profiles from the last block
  down. `Forward`: `dp` has, for each number of units, the least distortion that the
  blocks so far reach with it, and one assignment that reaches it. `Trying` says
  the same of the column in the making, over the profiles tried so far. `Picks`: what was
  recorded is the lowest profile of its block among the assignments whose prefix is
  best for that number of units (`BestPrefix`). `Backward`: every winner of the whole table
  has spent `terminal`, and either agrees with the profiles walked back so far or has a
  later one at the last block where it differs. The steps exchange prefixes: replacing
  the first blocks of an assignment by better ones of the same cost improves the whole,
  for any table of distortions, also one that does not decrease.

`PanelRunProofs`:

* `TypeCorrect` (`TypeOK`). `Written` adds that a future past its encoder has a
  container on disk, that a launch past its pool has one for every block, and
  what a launch has read where it stands; without it neither the packer's input
  nor a summary could be shown to be complete.
* `UnderLock` (`SummaryUnderLock`), so that no aggregation relabels a summary. `Reserved` says that
  at most one launch is about to write the lock, and only while there is none;
  that a launch beyond it has the lock's job; and that a summary, written or about
  to be, is of that job. An aggregation gets past the lock only with the lock's job.
* `Once` (`EncodedOnce`). `Single` says that as long as there is no lock nothing was
  encoded and no pool is open; that only one launch ever opens a pool; and
  that a block which waits for its encoder has not been encoded.
* `Quiet` (`QuietAfterEncoding`). `Past` says that an encoder which may still write is
  awaited by its block's future, also when its launch was killed, and that from
  packing on, and once there is a summary, no future is encoding or about to. It
  is here that leaving the pool waits for every future.

* `GenuineSummary`, `GenuineAudited` (`SummaryGenuine`, `AuditedGenuine`). `Matched`
  follows the digests: the metadata under a block's name are of one encoder of the
  lock's job and nothing overwrites them; a container that is unaltered still was
  unaltered when they were made; and once there is an unpack audit and no launch is
  between its encoders and the unpacker, the reservoir is the one packed from exactly
  the containers that those metadata are of.

All but the first assume `~Overlap`, and `panel_race` shows that `Once` fails without.

`LocalRunProofs`:

* `TypeCorrect` (`TypeOK`). `Stored` adds to the types that every output on disk, also one
  written by a second launch over the first, is an output of its block, and so is
  every slice of the container; `Launched`, `Audited` and `Publishing` say what a process
  past a check holds, and that what it saw on disk is still there (`Grows`).
* `Genuine` (`AcceptedGenuine`). The verifier recomputes slices and hashes itself, except
  for the two things it takes on trust: that a slice is of the block whose place it
  has, which is `Stored`, and that the audit it reads was written by an auditor,
  which is `Released`. The edits are those of the plan's inputs and of the payloads of a
  copied container; one who could also write audits would break `Released`.
* `Once` (`ReleaseOnce`). `Publishing`: only the publisher that made the release directory
  copies into it, and it stops once the manifest, without which nothing is accepted,
  is there.
* `HonestPublished` (`HonestAccepted`). `Honest`: as long as one launch only has begun and
  nobody edited (`Alone`), what is on disk, what a process holds and what a release has
  is a function of that launch (`Encoded`, `Collected`, `Decoded`, `Copies`), and once there is
  a summary neither it nor the metadata change (`Steady`): files that are copied one after
  the other therefore fit, and the verifier accepts whatever has a manifest
  (`Complete`).

## 5. What is only model-checked, and what is not modelled

Liveness under fairness (`Terminates` of the one-shot runner and of the
materializer, `EveryBlockAttempted`) needs ENABLED, which is out of the prover's
reach: these three stay with TLC. Every safety property, action property and
refinement that a passing run checks is proved as well; `ImplementsReservoirFile` without
foreign files, the properties of `PanelRun` other than `TypeOK` without the overlap
that `panel_race` is about. No module that holds or uses a theorem declares a RECURSIVE
operator.

Not modelled:

* floating-point code (lattice quantization, likelihood recursions, Hadamard
  transform, KLT, the rounding of the allocation's sums), which TLC has no numbers for;
* programs that only read and recompute (`strata_v2_klt_*_v1.py`,
  `tools/verify_*.py`, `residual_marginal_audit.py`), beyond the two that decide
  what is believed, which are conditions in `PanelRun` and `LocalRun`;
* the freeze builder and its validators: each reads documents and writes one, alone;
  their outcome is the control state of `Materializer`;
* panel preparation, which downloads and builds tables once;
* `research/`, which nothing calls; `release/`, `frozen/`, `results/`, which are data.

## 6. Plan

Done, in this order: `SealedRun`, `OneShot`, `OneShotProofs` (the protocol's
core); `ReservoirFile`, `Reservoir`, `ReservoirProofs` (the file format everything ends in);
`Materializer`, `MaterializerProofs` (the source of the data);
`ArithmeticCoder`, `ArithmeticCoderProofs` (the payload); `PanelRun`,
`PanelRunProofs` (the other runner, its lock and its aggregation); `LocalRun`,
`LocalRunProofs` (the expert-local codec, from plan to accepted release);
the runner's artifact and its refinement; `ProfileAllocation`,
`ProfileAllocationProofs` (the rate each block gets); `Induction`, and with it the
coder's round trip and rate, the allocation's optimum, the reservoir's round trip,
canonical form and refinement.

What could follow:

1. `CodecFreeze` (`build_codec_freeze_v2.py`, `validate_codec_freeze_v2.py`): the chain of
   documents and what each validation adds.
2. A composition of materializer and runner over `unblinded/`.
