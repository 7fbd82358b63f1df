------------------------------ MODULE LocalRun ------------------------------
(***************************************************************************)
(* The expert-local codec (strata_expert_local_codec/*.py) around one plan *)
(* directory: the builder seals a plan, launches of run_and_pack encode    *)
(* its blocks one after the other and pack them, auditors decode and score *)
(* the container, publishers copy what lies there into a release, and      *)
(* verify_checkpoint judges it.  There is no lock: a launch finds out by   *)
(* the files that another one was there.                                   *)
(*                                                                         *)
(* A launch may be killed at any point; its encoder lives on.  A digest is *)
(* modelled by the content it is the digest of, and MaxDrift edits from    *)
(* outside never restore the bytes they replace.                           *)
(***************************************************************************)
EXTENDS Integers, FiniteSets, Functions

CONSTANTS
  Launches,    \* launches of run_and_pack.py with one --plan-dir
  Auditors,    \* launches of independent_audit.py on it, each with an output directory
  Publishers,  \* launches of publish_checkpoint.py with one --output-dir
  N,           \* number of blocks
  Bits,        \* length of a block's payload, by the encoder that makes it
  Capacity,    \* RESERVOIR_BYTES
  MaxDrift,    \* bound: number of edits made from outside
  None

Blocks == 0 .. N - 1

\* What the plan was sealed over, and what an edit makes of it.
Original == "original"
Altered == "altered"
Contents == {Original, Altered}

ASSUME LocalAssumption ==
  /\ N \in Nat \ {0}
  /\ Bits \in [Blocks \X Contents -> Nat]
  /\ Capacity \in Nat /\ MaxDrift \in Nat
  /\ Launches \cap Auditors = {} /\ Launches \cap Publishers = {} /\ Auditors \cap Publishers = {}

\* The documents, the payloads and the files, and a running encoder.
OrNone(S) == S \cup {None}
Payloads == [block : Blocks, staged : Contents, encoder : Contents]
Metadatas == [payload : Payloads, by : Launches]
Containers == [asset : Contents, payload : [Blocks -> Payloads]]
Rows == [meta : Metadatas, bin : OrNone(Payloads)]
Summaries ==
  [rows : [Blocks -> [meta : Metadatas, bin : Payloads]], lengths : [Blocks -> Nat],
   artifact : Containers]
Audits == [decoded : [Blocks -> Payloads], container : Containers, passed : BOOLEAN]
Procs == [block : Blocks, at : {"running", "half", "exited", "dead"}, out : OrNone(Payloads)]
ReleaseFiles ==
  [summary : OrNone(Summaries), artifact : OrNone(Containers), audit : OrNone(Audits),
   asset : OrNone(Contents), metas : OrNone([Blocks -> OrNone(Metadatas)])]
AuditorViews == [lengths : [Blocks -> Nat], decoded : [Blocks -> OrNone(Payloads)]]
PublisherViews == [container : Containers, audit : Audits, copied : ReleaseFiles]
Manifests == [files : ReleaseFiles, container : Containers]
Releases == [by : Publishers, files : ReleaseFiles, manifest : OrNone(Manifests)]

ASSUME NoneAssumption ==
  /\ None \notin Payloads /\ None \notin Metadatas /\ None \notin Rows /\ None \notin Procs
  /\ None \notin Containers /\ None \notin Summaries /\ None \notin Audits
  /\ None \notin Releases /\ None \notin Manifests

VARIABLES
  (* outside the plan directory *)
  encoder,   \* the encoder program, which no document pins
  source,    \* the BF16 matrices
  (* the plan directory *)
  plan,      \* plan.lock.json: "absent", "unsealed" or "sealed"
  staging,   \* the staged blocks
  asset,     \* header, route, labels and profiles, consistent with each other
  meta,      \* encoded/block_b.json
  bin,       \* encoded/block_b.polar.bin
  artifact,  \* the container
  summary,   \* summary.json
  rateFailure, \* whether there is a RATE_FAILURE.json
  (* each auditor's directory, and the release *)
  audit,     \* independent_audit.json
  release,   \* the release directory
  (* the processes *)
  pc,        \* where each launch, auditor and publisher is
  block,     \* the block that a launch is at
  row,       \* the rows that a launch has collected
  proc,      \* the encoder that a launch has started
  view,      \* what an auditor or a publisher has read
  (* observation *)
  started,   \* how often an encoder was started for each block
  drifts     \* edits made so far

outside == <<encoder, source, drifts>>
inputs == <<plan, staging, asset>>
encodings == <<meta, bin>>
results == <<artifact, summary, rateFailure>>
judged == <<audit, release>>
running == <<block, row, proc, started>>
vars == <<outside, inputs, encodings, results, judged, pc, running, view>>

Payload(b, staged, program) == [block |-> b, staged |-> staged, encoder |-> program]
Length(p) == Bits[p.block, p.encoder]
Lengths(container) == [b \in Blocks |-> Length(container.payload[b])]

\* An encoder's metadata names the block it read and its payload; the time it
\* took tells the metadata of two runs apart.
Metadata(payload, r) == [payload |-> payload, by |-> r]

Container(assets, payloads) == [asset |-> assets, payload |-> payloads]
Fits(payloads) == SumFunction([b \in Blocks |-> Length(payloads[b])]) <= Capacity

\* The files of a release, and its directory, with the manifest.
NoFiles == [summary |-> None, artifact |-> None, audit |-> None, asset |-> None, metas |-> None]
EmptyRelease(p) == [by |-> p, files |-> NoFiles, manifest |-> None]

Processes == Launches \cup Auditors \cup Publishers

Init ==
  /\ encoder = Original /\ source = Original
  /\ plan = "absent"
  /\ staging = [b \in Blocks |-> Original] /\ asset = Original
  /\ meta = [b \in Blocks |-> None] /\ bin = [b \in Blocks |-> None]
  /\ artifact = None /\ summary = None /\ rateFailure = FALSE
  /\ audit = [a \in Auditors |-> None]
  /\ release = None
  /\ pc = [x \in Processes |-> "start"]
  /\ block = [r \in Launches |-> 0]
  /\ row = [r \in Launches |-> [b \in Blocks |-> None]]
  /\ proc = [r \in Launches |-> None]
  /\ view = [x \in Auditors \cup Publishers |-> None]
  /\ started = [b \in Blocks |-> 0]
  /\ drifts = 0

Goto(x, from, to) ==
  /\ pc[x] = from
  /\ pc' = [pc EXCEPT ![x] = to]

-----------------------------------------------------------------------------
(* The plan                                                                *)

\* build_from_v2: staging, assets and allocation first, the sealed plan last,
\* in a directory that must not exist.
BuildPlan ==
  /\ plan = "absent"
  /\ \/ source = Original /\ plan' = "sealed"
     \/ plan' = "unsealed"
  /\ UNCHANGED <<outside, staging, asset, encodings, results, judged, pc, running, view>>

-----------------------------------------------------------------------------
(* run_and_pack: encoding                                                  *)

PlanHolds == plan = "sealed" /\ asset = Original /\ \A b \in Blocks : staging[b] = Original

VerifyPlan(r) ==
  /\ \/ PlanHolds /\ Goto(r, "start", "looking")
     \/ ~PlanHolds /\ Goto(r, "start", "refused")
  /\ UNCHANGED <<outside, inputs, encodings, results, judged, running, view>>

\* "one-shot output already exists"
FindAbsent(r) ==
  LET b == block[r]
      absent == meta[b] = None /\ bin[b] = None
  IN  /\ Goto(r, "looking", IF absent THEN "absent" ELSE "refused")
      /\ UNCHANGED <<outside, inputs, encodings, results, judged, running, view>>

StartEncoder(r) ==
  /\ Goto(r, "absent", "waiting")
  /\ proc' = [proc EXCEPT ![r] = [block |-> block[r], at |-> "running", out |-> None]]
  /\ started' = [started EXCEPT ![block[r]] = @ + 1]
  /\ UNCHANGED <<outside, inputs, encodings, results, judged, block, row, view>>

EncoderAt(r, at) == proc[r] # None /\ proc[r].at = at

\* The encoder writes the metadata when it is done, and then the container.
EncoderWritesMeta(r) ==
  /\ EncoderAt(r, "running")
  /\ LET b == proc[r].block
         payload == Payload(b, staging[b], encoder)
     IN  /\ meta' = [meta EXCEPT ![b] = Metadata(payload, r)]
         /\ proc' = [proc EXCEPT ![r].at = "half", ![r].out = payload]
  /\ UNCHANGED <<outside, inputs, bin, results, judged, pc, block, row, started, view>>

EncoderWritesBin(r) ==
  /\ EncoderAt(r, "half")
  /\ bin' = [bin EXCEPT ![proc[r].block] = proc[r].out]
  /\ proc' = [proc EXCEPT ![r].at = "exited"]
  /\ UNCHANGED <<outside, inputs, meta, results, judged, pc, block, row, started, view>>

EncoderFails(r) ==
  /\ EncoderAt(r, "running") \/ EncoderAt(r, "half")
  /\ proc' = [proc EXCEPT ![r].at = "dead"]
  /\ UNCHANGED <<outside, inputs, encodings, results, judged, pc, block, row, started, view>>

\* run_block on the encoder's return: exit status, then the metadata, which
\* must be of the staged block that the plan names.
ReadMetadata(r) ==
  LET b == block[r]
      good == /\ proc[r].at = "exited"
              /\ meta[b].payload.staged = Original
  IN  /\ proc[r] # None /\ proc[r].at \in {"exited", "dead"}
      /\ Goto(r, "waiting", IF good THEN "hashing" ELSE "failed")
      /\ proc' = [proc EXCEPT ![r] = None]
      /\ row' = IF good THEN [row EXCEPT ![r][b] = [meta |-> meta[b], bin |-> None]] ELSE row
      /\ UNCHANGED <<outside, inputs, encodings, results, judged, block, started, view>>

\* The row gives the digest of the metadata as it is by now.
RowOf(r, b) == [row[r] EXCEPT ![b] = [meta |-> meta[b], bin |-> bin[b]]]

\* The container must be the one that the metadata just read names; then the
\* next block, or packing.
HashOutputs(r) ==
  LET b == block[r]
      good == bin[b] = row[r][b].meta.payload
      last == b = N - 1
  IN  /\ Goto(r, "hashing", IF ~good THEN "failed" ELSE IF last THEN "packing" ELSE "looking")
      /\ row' = IF good THEN [row EXCEPT ![r] = RowOf(r, b)] ELSE row
      /\ block' = IF good /\ ~last THEN [block EXCEPT ![r] = b + 1] ELSE block
      /\ UNCHANGED <<outside, inputs, encodings, results, judged, proc, started, view>>

-----------------------------------------------------------------------------
(* run_and_pack: packing                                                   *)

\* Metadata and container are as in the row, and each other's.
Packable(r) ==
  \A b \in Blocks :
    /\ row[r][b] # None
    /\ meta[b] = row[r][b].meta
    /\ bin[b] = row[r][b].bin
    /\ bin[b] = meta[b].payload

\* The assets are read again; that they are consistent is checked, not that
\* they are the plan's.
Pack(r) ==
  /\ Packable(r) /\ Fits(bin)
  /\ Goto(r, "packing", "packed")
  /\ artifact' = Container(asset, bin)
  /\ UNCHANGED <<outside, inputs, encodings, summary, rateFailure, judged, running, view>>

Overflow(r) ==
  /\ Packable(r) /\ ~Fits(bin)
  /\ Goto(r, "packing", "failed")
  /\ rateFailure' = TRUE
  /\ UNCHANGED <<outside, inputs, encodings, artifact, summary, judged, running, view>>

PackFails(r) ==
  /\ ~Packable(r)
  /\ Goto(r, "packing", "failed")
  /\ UNCHANGED <<outside, inputs, encodings, results, judged, running, view>>

\* Rows and lengths come from memory, the container's digest from the disk.
WriteSummary(r) ==
  /\ Goto(r, "packed", "done")
  /\ summary' = [rows |-> row[r],
                 lengths |-> [b \in Blocks |-> Length(row[r][b].bin)],
                 artifact |-> artifact]
  /\ UNCHANGED <<outside, inputs, encodings, artifact, rateFailure, judged, running, view>>

-----------------------------------------------------------------------------
(* independent_audit                                                       *)

\* The summary's container, with the plan's seeds, which follow from the
\* assets, and the lengths that the summary gives.
Auditable ==
  /\ plan = "sealed" /\ summary # None
  /\ artifact = summary.artifact
  /\ artifact.asset = Original
  /\ summary.lengths = Lengths(artifact)

Parse(a) ==
  /\ \/ /\ Auditable
        /\ Goto(a, "start", "decoding")
        /\ view' = [view EXCEPT ![a] = [lengths |-> Lengths(artifact),
                                        decoded |-> [b \in Blocks |-> None]]]
     \/ /\ ~Auditable
        /\ Goto(a, "start", "failed")
        /\ UNCHANGED view
  /\ UNCHANGED <<outside, inputs, encodings, results, judged, running>>

\* A worker reads the container again, at the place it was told; what it finds
\* there must encode to itself.
DecodeBlock(a, b) ==
  /\ pc[a] = "decoding"
  /\ view[a].decoded[b] = None
  /\ \/ /\ Lengths(artifact) = view[a].lengths
        /\ view' = [view EXCEPT ![a].decoded[b] = artifact.payload[b]]
        /\ UNCHANGED pc
     \/ /\ Lengths(artifact) # view[a].lengths
        /\ pc' = [pc EXCEPT ![a] = "failed"]
        /\ UNCHANGED view
  /\ UNCHANGED <<outside, inputs, encodings, results, judged, running>>

\* A report that does not wait for every worker.
ReportEarly(a) ==
  /\ source = Original
  /\ Goto(a, "decoding", "done")
  /\ audit' = [audit EXCEPT ![a] = [decoded |-> view[a].decoded, container |-> artifact,
                                    passed |-> TRUE]]
  /\ UNCHANGED <<outside, inputs, encodings, results, release, running, view>>

\* The score is taken against matrices whose digests are the plan's, and the
\* report gives the container's digest as it is then.  The gate may fail.
Report(a) ==
  /\ pc[a] = "decoding"
  /\ \A b \in Blocks : view[a].decoded[b] # None
  /\ \/ /\ source = Original
        /\ Goto(a, "decoding", "done")
        /\ \E passed \in BOOLEAN :
             audit' = [audit EXCEPT ![a] = [decoded |-> view[a].decoded,
                                            container |-> artifact, passed |-> passed]]
     \/ /\ source # Original
        /\ Goto(a, "decoding", "failed")
        /\ UNCHANGED audit
  /\ UNCHANGED <<outside, inputs, encodings, results, release, running, view>>

-----------------------------------------------------------------------------
(* verify_checkpoint, on a release                                         *)

\* verify_manifest: every file is there, and as the manifest has it.
ManifestHolds(rel) == rel.manifest # None /\ rel.manifest.files = rel.files

\* parse_container and the assets: the pinned route and labels, the header of
\* the plan.
AssetsHold(rel) == rel.files.artifact.asset = Original /\ rel.files.asset = Original

SummaryHolds(rel) ==
  /\ rel.files.summary.artifact = rel.files.artifact
  /\ rel.files.summary.lengths = Lengths(rel.files.artifact)

\* verify_encoder_metadata: the summary's metadata, of the plan's staged
\* block, for the container's slice.
MetadataHold(rel) ==
  \A b \in Blocks :
    /\ rel.files.summary.rows[b].meta = rel.files.metas[b]
    /\ rel.files.metas[b].payload.staged = Original
    /\ rel.files.metas[b].payload = rel.files.artifact.payload[b]
    /\ rel.files.summary.rows[b].bin = rel.files.artifact.payload[b]

\* An audit that is taken at its word for the container's slices.
AuditPassed(rel) ==
  /\ rel.files.audit.passed
  /\ rel.files.audit.container = rel.files.artifact

AuditHolds(rel) ==
  /\ rel.files.audit.passed
  /\ rel.files.audit.container = rel.files.artifact
  /\ rel.files.audit.decoded = rel.files.artifact.payload

Accepted(rel) ==
  /\ rel # None
  /\ ManifestHolds(rel) /\ AssetsHold(rel) /\ SummaryHolds(rel)
  /\ MetadataHold(rel) /\ AuditHolds(rel)
  /\ rel.manifest.container = rel.files.artifact

-----------------------------------------------------------------------------
(* publish_checkpoint                                                      *)

FindNoRelease(p) ==
  /\ Goto(p, "start", IF release = None THEN "claiming" ELSE "refused")
  /\ UNCHANGED <<outside, inputs, encodings, results, judged, running, view>>

\* A directory that may exist already.
MakeReleaseExistOk(p) ==
  /\ Goto(p, "claiming", "checking")
  /\ release' = IF release = None THEN EmptyRelease(p) ELSE release
  /\ UNCHANGED <<outside, inputs, encodings, results, audit, running, view>>

\* mkdir raises if the directory exists by now.
MakeRelease(p) ==
  /\ Goto(p, "claiming", IF release = None THEN "checking" ELSE "refused")
  /\ release' = IF release = None THEN EmptyRelease(p) ELSE release
  /\ UNCHANGED <<outside, inputs, encodings, results, audit, running, view>>

\* Plan, summary, audit and container must be each other's.
Fit(a) ==
  /\ plan = "sealed" /\ summary # None /\ audit[a] # None
  /\ audit[a].passed
  /\ artifact = summary.artifact
  /\ audit[a].container = summary.artifact

CheckRun(p) ==
  /\ \E a \in Auditors :
       \/ /\ Fit(a)
          /\ Goto(p, "checking", "documents")
          /\ view' = [view EXCEPT ![p] = [container |-> summary.artifact,
                                              audit |-> audit[a], copied |-> NoFiles]]
       \/ /\ ~Fit(a)
          /\ Goto(p, "checking", "failed")
          /\ UNCHANGED view
  /\ UNCHANGED <<outside, inputs, encodings, results, judged, running>>

\* A copy, and the row that the manifest is to have of it.
Copy(p, files, copied) ==
  /\ release' = [release EXCEPT !.files = files]
  /\ view' = [view EXCEPT ![p].copied = copied]
  /\ UNCHANGED <<outside, inputs, encodings, results, audit, running>>

\* The files are copied one after the other as they are by then: plan and
\* summary, ...
CopyDocuments(p) ==
  /\ Goto(p, "documents", "container")
  /\ Copy(p, [release.files EXCEPT !.summary = summary],
             [view[p].copied EXCEPT !.summary = summary])

\* ... the container, the audit and the assets, ...
CopyContainer(p) ==
  /\ Goto(p, "container", "metadata")
  /\ LET WithContainer(files) ==
           [files EXCEPT !.artifact = artifact, !.audit = view[p].audit, !.asset = asset]
     IN  Copy(p, WithContainer(release.files), WithContainer(view[p].copied))

\* A copy that numbers the metadata from the other end.
CopyMetadataReversed(p) ==
  /\ Goto(p, "metadata", "manifest")
  /\ LET reversed == [b \in Blocks |-> meta[N - 1 - b]]
     IN  Copy(p, [release.files EXCEPT !.metas = reversed],
                 [view[p].copied EXCEPT !.metas = reversed])

\* ... and the encoders' metadata.
CopyMetadata(p) ==
  /\ Goto(p, "metadata", "manifest")
  /\ Copy(p, [release.files EXCEPT !.metas = meta], [view[p].copied EXCEPT !.metas = meta])

WriteManifest(p) ==
  /\ Goto(p, "manifest", "verifying")
  /\ release' = [release EXCEPT !.manifest =
       [files |-> view[p].copied, container |-> view[p].container]]
  /\ UNCHANGED <<outside, inputs, encodings, results, audit, running, view>>

\* The publisher ends with the verifier's own verdict.
VerifyRelease(p) ==
  /\ Goto(p, "verifying", IF Accepted(release) THEN "published" ELSE "rejected")
  /\ UNCHANGED <<outside, inputs, encodings, results, judged, running, view>>

-----------------------------------------------------------------------------
(* What happens from outside                                               *)

Terminal == {"refused", "failed", "done", "published", "rejected", "killed"}

\* The launch dies and its encoder goes on.  A killed auditor or publisher is
\* one that takes no more steps.
Kill(r) ==
  /\ pc[r] \notin Terminal \cup {"start"}
  /\ pc' = [pc EXCEPT ![r] = "killed"]
  /\ UNCHANGED <<outside, inputs, encodings, results, judged, running, view>>

EditPayload(container, b) == [container EXCEPT !.payload[b].staged = Altered]

Drift ==
  /\ drifts < MaxDrift
  /\ drifts' = drifts + 1
  /\ \/ /\ encoder' = Altered
        /\ UNCHANGED <<source, staging, asset, artifact, release>>
     \/ /\ source' = Altered
        /\ UNCHANGED <<encoder, staging, asset, artifact, release>>
     \/ /\ \E b \in Blocks : staging' = [staging EXCEPT ![b] = Altered]
        /\ UNCHANGED <<encoder, source, asset, artifact, release>>
     \/ /\ asset' = Altered
        /\ UNCHANGED <<encoder, source, staging, artifact, release>>
     \/ /\ artifact # None
        /\ \E b \in Blocks : artifact' = EditPayload(artifact, b)
        /\ UNCHANGED <<encoder, source, staging, asset, release>>
     \/ /\ release # None /\ release.files.artifact # None
        /\ \E b \in Blocks :
             release' = [release EXCEPT !.files.artifact = EditPayload(@, b)]
        /\ UNCHANGED <<encoder, source, staging, asset, artifact>>
  /\ UNCHANGED <<plan, encodings, summary, rateFailure, audit, pc, running, view>>

-----------------------------------------------------------------------------
Launch(r) ==
  \/ VerifyPlan(r) \/ FindAbsent(r) \/ StartEncoder(r) \/ ReadMetadata(r) \/ HashOutputs(r)
  \/ Pack(r) \/ Overflow(r) \/ PackFails(r) \/ WriteSummary(r)

Encoder(r) == EncoderWritesMeta(r) \/ EncoderWritesBin(r) \/ EncoderFails(r)

Auditor(a) == Parse(a) \/ (\E b \in Blocks : DecodeBlock(a, b)) \/ Report(a)

Publisher(p) ==
  \/ FindNoRelease(p) \/ MakeRelease(p) \/ CheckRun(p)
  \/ CopyDocuments(p) \/ CopyContainer(p) \/ CopyMetadata(p)
  \/ WriteManifest(p) \/ VerifyRelease(p)

Next ==
  \/ BuildPlan
  \/ \E r \in Launches : Launch(r) \/ Encoder(r)
  \/ \E a \in Auditors : Auditor(a)
  \/ \E p \in Publishers : Publisher(p)
  \/ \E r \in Launches : Kill(r)
  \/ Drift

Spec == Init /\ [][Next]_vars

-----------------------------------------------------------------------------
(* Properties                                                              *)

Steps == Terminal \cup {"start", "looking", "absent", "waiting", "hashing", "packing", "packed",
                       "decoding", "claiming", "checking", "documents", "container", "metadata",
                       "manifest", "verifying"}

\* Every variable holds what its comment says; a summary and an audit report
\* are only written with all their parts.
TypeOK ==
  /\ encoder \in Contents /\ source \in Contents
  /\ plan \in {"absent", "unsealed", "sealed"}
  /\ staging \in [Blocks -> Contents] /\ asset \in Contents
  /\ meta \in [Blocks -> OrNone(Metadatas)]
  /\ bin \in [Blocks -> OrNone(Payloads)]
  /\ artifact \in OrNone(Containers)
  /\ summary \in OrNone(Summaries)
  /\ rateFailure \in BOOLEAN
  /\ audit \in [Auditors -> OrNone(Audits)]
  /\ release \in OrNone(Releases)
  /\ pc \in [Processes -> Steps]
  /\ block \in [Launches -> Blocks]
  /\ row \in [Launches -> [Blocks -> OrNone(Rows)]]
  /\ proc \in [Launches -> OrNone(Procs)]
  /\ view \in [Auditors \cup Publishers -> OrNone(AuditorViews \cup PublisherViews)]
  /\ started \in [Blocks -> Nat]
  /\ drifts \in 0 .. MaxDrift

\* What the verifier accepts is what it says, whatever ran at the same time, was
\* killed or edited: every slice of the container is the payload of that block
\* of the plan, and an audit that passed has decoded these very slices.
AcceptedGenuine ==
  Accepted(release) =>
    /\ release.files.artifact.asset = Original
    /\ \A b \in Blocks :
         /\ release.files.artifact.payload[b].block = b
         /\ release.files.artifact.payload[b].staged = Original
    /\ \E a \in Auditors :
         /\ audit[a] # None
         /\ audit[a].passed
         /\ audit[a].decoded = release.files.artifact.payload

\* The verifier does not refuse honest work: what a launch that was alone has
\* made, and nobody edited, is not rejected once a publisher has copied it.
HonestAccepted ==
  \A p \in Publishers :
    pc[p] = "rejected" => drifts > 0 \/ \E r, s \in Launches :
                                        r # s /\ "start" \notin {pc[r], pc[s]}

\* Once the verifier accepts a release, no publisher changes it.
ReleaseOnce == [][Accepted(release) /\ drifts' = drifts => release' = release]_release

\* The summary's status, "encoded_once_and_packed".
EncodedOnceAndPacked == summary # None => \A b \in Blocks : started[b] = 1

=============================================================================
