--------------------------- MODULE LocalRunProofs ---------------------------
(***************************************************************************)
(* Proofs about LocalRun, for every number of blocks, launches, auditors,  *)
(* publishers and edits, every capacity and all lengths of payloads.       *)
(***************************************************************************)
EXTENDS LocalRun, TLAPS

Copying == {"documents", "container", "metadata", "manifest"}
Placed == {c \in Containers : \A b \in Blocks : c.payload[b].block = b}

-----------------------------------------------------------------------------
(* The invariant                                                           *)

\* What is on disk is of its kind, and every block's output is of that block.
Stored ==
  /\ encoder \in Contents /\ source \in Contents
  /\ plan \in {"absent", "unsealed", "sealed"}
  /\ staging \in [Blocks -> Contents] /\ asset \in Contents
  /\ meta \in [Blocks -> OrNone(Metadatas)]
  /\ bin \in [Blocks -> OrNone(Payloads)]
  /\ \A b \in Blocks : /\ meta[b] # None => meta[b].payload.block = b
                       /\ bin[b] # None => bin[b].block = b
  /\ artifact \in OrNone(Placed)
  /\ summary \in OrNone(Summaries)
  /\ summary # None => artifact # None
  /\ rateFailure \in BOOLEAN
  /\ started \in [Blocks -> Nat]
  /\ drifts \in 0 .. MaxDrift

\* A release has audits that auditors wrote, and a manifest only when it is
\* complete.
Released ==
  /\ release \in OrNone(Releases)
  /\ release # None =>
       /\ release.files.artifact \in OrNone(Placed)
       /\ release.files.audit # None => \E a \in Auditors : audit[a] = release.files.audit
       /\ release.manifest # None => release.files.artifact # None /\ release.files.audit # None

\* The memory of the processes.
Held ==
  /\ pc \in [Processes -> Steps]
  /\ block \in [Launches -> Blocks]
  /\ row \in [Launches -> [Blocks -> OrNone(Rows)]]
  /\ proc \in [Launches -> OrNone(Procs)]
  /\ view \in [Auditors \cup Publishers -> OrNone(AuditorViews \cup PublisherViews)]
  /\ audit \in [Auditors -> OrNone(Audits)]

\* An encoder that has written has a payload of its block; a launch that waits
\* has an encoder, and from there on what the encoder returned.
Launched(r) ==
  /\ proc[r] # None /\ proc[r].at \in {"half", "exited"} =>
       /\ proc[r].out \in Payloads /\ proc[r].out.block = proc[r].block
       /\ meta[proc[r].block] # None
  /\ pc[r] = "waiting" => proc[r] # None /\ proc[r].block = block[r]
  /\ pc[r] = "hashing" => row[r][block[r]] # None /\ meta[block[r]] # None
  /\ pc[r] = "packed" => /\ artifact # None
                         /\ \A b \in Blocks : row[r][b] # None /\ row[r][b].bin # None

\* An auditor decodes a container that is there, and reports when it is done.
Audited(a) ==
  /\ pc[a] = "decoding" => artifact # None /\ view[a] \in AuditorViews
  /\ audit[a] # None => pc[a] = "done"

\* A publisher fills its own directory, with an audit that some auditor wrote.
Publishing(p) ==
  /\ pc[p] \in {"checking"} \cup Copying =>
       release # None /\ release.by = p /\ release.manifest = None
  /\ pc[p] \in Copying =>
       /\ view[p] \in PublisherViews
       /\ summary # None
       /\ \E a \in Auditors : audit[a] = view[p].audit
  /\ pc[p] \in {"metadata", "manifest"} =>
       release.files.artifact # None /\ release.files.audit # None

Progress ==
  /\ \A r \in Launches : Launched(r)
  /\ \A a \in Auditors : Audited(a)
  /\ \A p \in Publishers : Publishing(p)

Inv == Stored /\ Held /\ Released /\ Progress

\* A payload has a length.
LEMMA LengthNat == ASSUME NEW p \in Payloads PROVE Length(p) \in Nat
<1>1. p.block \in Blocks /\ p.encoder \in Contents
  BY DEF Payloads
<1>2. Bits[p.block, p.encoder] \in Nat
  BY <1>1, LocalAssumption
<1> QED BY <1>2 DEF Length

LEMMA InvInit == Init => Inv
<1> SUFFICES ASSUME Init PROVE Inv
  OBVIOUS
<1>1. Stored
  <2>1. meta \in [Blocks -> OrNone(Metadatas)] /\ bin \in [Blocks -> OrNone(Payloads)]
    BY DEF Init, OrNone
  <2>2. started \in [Blocks -> Nat] /\ drifts \in 0 .. MaxDrift
    BY LocalAssumption DEF Init
  <2>3. staging \in [Blocks -> Contents]
    BY DEF Init, Contents
  <2>4. \A b \in Blocks : meta[b] = None /\ bin[b] = None
    BY DEF Init
  <2> QED BY <2>1, <2>2, <2>3, <2>4 DEF Init, Stored, OrNone, Contents
<1>2. Held
  BY LocalAssumption DEF Init, Held, OrNone, Blocks, Steps
<1>3. Released
  BY DEF Init, Released, OrNone
<1>4. Progress
  BY DEF Init, Progress, Launched, Audited, Publishing, Copying, Processes
<1> QED BY <1>1, <1>2, <1>3, <1>4 DEF Inv

-----------------------------------------------------------------------------
(* What a step of one process leaves of the others                         *)

\* Nothing that is there goes away, and no report is replaced.
Grows ==
  /\ \A b \in Blocks : meta[b] # None => meta'[b] # None
  /\ artifact # None => artifact' # None
  /\ summary # None => summary' # None
  /\ \A a \in Auditors : audit[a] # None => audit'[a] = audit[a]

\* The release stays the same publisher's, with the same manifest.
SameRelease ==
  release # None =>
    /\ release' # None /\ release'.by = release.by /\ release'.manifest = release.manifest
    /\ release.files.artifact # None => release'.files.artifact # None
    /\ release'.files.audit = release.files.audit

LEMMA LaunchedStill ==
  ASSUME NEW r \in Launches, Held, Launched(r), Grows,
         UNCHANGED <<pc[r], block[r], row[r], proc[r]>>
  PROVE  Launched(r)'
BY DEF Launched, Grows, Held, OrNone, Procs

LEMMA AuditedStill ==
  ASSUME NEW a \in Auditors, Audited(a), Grows,
         UNCHANGED <<pc[a], view[a], audit[a]>>
  PROVE  Audited(a)'
BY DEF Audited, Grows

LEMMA PublishingStill ==
  ASSUME NEW p \in Publishers, Publishing(p), Grows,
         UNCHANGED <<pc[p], view[p]>>,
         SameRelease \/ pc[p] \notin {"checking"} \cup Copying
  PROVE  Publishing(p)'
<1>1. ASSUME NEW a \in Auditors, view[p] \in PublisherViews, audit[a] = view[p].audit
      PROVE  audit'[a] = view'[p].audit
  BY <1>1, NoneAssumption DEF Grows, PublisherViews
<1> QED BY <1>1 DEF Publishing, Grows, SameRelease, Copying

\* A step of one process that keeps the rest of the invariant.
LEMMA Others ==
  ASSUME Inv, NEW x \in Processes,
         \A y \in Processes \ {x} : pc'[y] = pc[y],
         \A r \in Launches \ {x} : UNCHANGED <<block[r], row[r], proc[r]>>,
         \A y \in (Auditors \cup Publishers) \ {x} : view'[y] = view[y],
         \A a \in Auditors \ {x} : audit'[a] = audit[a],
         Grows,
         SameRelease \/ (x \in Publishers /\ (release = None \/ release.by = x)),
         x \in Launches => Launched(x)',
         x \in Auditors => Audited(x)',
         x \in Publishers => Publishing(x)'
  PROVE  Progress'
<1>1. ASSUME NEW r \in Launches PROVE Launched(r)'
  <2>1. CASE r # x
    BY <2>1, LaunchedStill DEF Inv, Progress, Processes
  <2> QED BY <2>1
<1>2. ASSUME NEW a \in Auditors PROVE Audited(a)'
  <2>1. CASE a # x
    BY <2>1, AuditedStill DEF Inv, Progress, Processes
  <2> QED BY <2>1
<1>3. ASSUME NEW p \in Publishers PROVE Publishing(p)'
  <2>1. CASE p # x
    <3>1. SameRelease \/ pc[p] \notin {"checking"} \cup Copying
      BY <2>1 DEF Inv, Progress, Publishing
    <3> QED BY <2>1, <3>1, PublishingStill DEF Inv, Progress, Processes
  <2> QED BY <2>1
<1> QED BY <1>1, <1>2, <1>3 DEF Progress

-----------------------------------------------------------------------------
(* Launches and their encoders                                             *)

LEMMA StoredStill ==
  ASSUME Stored, UNCHANGED <<outside, inputs, encodings, results, started>>
  PROVE  Stored'
BY DEF Stored, outside, inputs, encodings, results

LEMMA GrowsStill ==
  ASSUME UNCHANGED <<encodings, results, audit>>
  PROVE  Grows
BY DEF Grows, encodings, results

\* A step of a launch or of its encoder.
LEMMA LaunchMove ==
  ASSUME Inv, NEW r \in Launches, NEW to \in Steps,
         pc' = [pc EXCEPT ![r] = to],
         UNCHANGED <<judged, view>>,
         NEW b \in Blocks, block' = [block EXCEPT ![r] = b],
         NEW collected \in [Blocks -> OrNone(Rows)], row' = [row EXCEPT ![r] = collected],
         NEW process \in OrNone(Procs), proc' = [proc EXCEPT ![r] = process],
         Stored', Grows, Launched(r)'
  PROVE  Inv'
<1> USE DEF judged
<1>1. Held'
  BY DEF Inv, Held
<1>2. Released'
  BY DEF Inv, Released
<1>3. \A y \in Processes \ {r} : pc'[y] = pc[y]
  BY DEF Inv, Held
<1>4. \A s \in Launches \ {r} : UNCHANGED <<block[s], row[s], proc[s]>>
  BY DEF Inv, Held
<1>5. r \in Processes /\ r \notin Auditors /\ r \notin Publishers
  BY LocalAssumption DEF Processes
<1>6. SameRelease
  BY DEF SameRelease
<1>7. Progress'
  BY <1>3, <1>4, <1>5, <1>6, Others
<1> QED BY <1>1, <1>2, <1>7 DEF Inv

\* A launch whose rows, block and encoder stay as they are.
LEMMA LaunchGoes ==
  ASSUME Inv, NEW r \in Launches, NEW from, NEW to \in Steps, Goto(r, from, to),
         UNCHANGED <<judged, view, block, row, proc>>,
         Stored', Grows, Launched(r)'
  PROVE  Inv'
<1>1. /\ block' = [block EXCEPT ![r] = block[r]] /\ block[r] \in Blocks
      /\ row' = [row EXCEPT ![r] = row[r]] /\ row[r] \in [Blocks -> OrNone(Rows)]
      /\ proc' = [proc EXCEPT ![r] = proc[r]] /\ proc[r] \in OrNone(Procs)
  BY DEF Inv, Held
<1> QED BY <1>1, LaunchMove DEF Goto

LEMMA LaunchStep ==
  ASSUME Inv, NEW r \in Launches, Launch(r)
  PROVE  Inv'
<1> USE DEF running
<1>0. /\ Stored /\ Launched(r) /\ pc \in [Processes -> Steps] /\ r \in Processes
      /\ block[r] \in Blocks /\ row[r] \in [Blocks -> OrNone(Rows)] /\ proc[r] \in OrNone(Procs)
      /\ block \in [Launches -> Blocks]
      /\ row \in [Launches -> [Blocks -> OrNone(Rows)]]
      /\ proc \in [Launches -> OrNone(Procs)]
  BY DEF Inv, Held, Progress, Processes
<1>1. CASE VerifyPlan(r) \/ FindAbsent(r) \/ PackFails(r)
  <2>1. PICK from \in Steps, to \in {"looking", "absent", "refused", "failed"} : Goto(r, from, to)
    BY <1>1 DEF VerifyPlan, FindAbsent, PackFails, Steps
  <2>2. UNCHANGED <<outside, inputs, encodings, results, judged, running, view>>
    BY <1>1 DEF VerifyPlan, FindAbsent, PackFails
  <2>3. pc'[r] = to /\ to \in Steps
    BY <1>0, <2>1 DEF Goto, Steps, Terminal
  <2>4. Launched(r)'
    BY <1>0, <2>2, <2>3 DEF Launched, encodings
  <2> QED BY <1>0, <2>1, <2>2, <2>3, <2>4, LaunchGoes, StoredStill, GrowsStill DEF judged
<1>2. CASE StartEncoder(r)
  <2> DEFINE process == [block |-> block[r], at |-> "running", out |-> None]
  <2>1. process \in Procs
    BY <1>0 DEF Procs, OrNone
  <2>2. proc'[r] = process /\ pc'[r] = "waiting" /\ process # None
    BY <1>0, <1>2, <2>1, NoneAssumption DEF StartEncoder, Goto
  <2>3. Launched(r)'
    BY <1>0, <1>2, <2>1, <2>2 DEF StartEncoder, Launched, encodings, results
  <2>4. Stored'
    BY <1>0, <1>2 DEF StartEncoder, Stored, outside, inputs, encodings, results
  <2>5. block' = [block EXCEPT ![r] = block[r]] /\ row' = [row EXCEPT ![r] = row[r]]
    BY <1>0, <1>2 DEF StartEncoder
  <2>6. Grows
    BY <1>2, GrowsStill DEF StartEncoder, judged
  <2>7. pc' = [pc EXCEPT ![r] = "waiting"] /\ "waiting" \in Steps
    BY <1>2 DEF StartEncoder, Goto, Steps
  <2>8. process \in OrNone(Procs) /\ proc' = [proc EXCEPT ![r] = process] /\ UNCHANGED <<judged, view>>
    BY <1>2, <2>1 DEF StartEncoder, OrNone
  <2> QED BY <1>0, <2>3, <2>4, <2>5, <2>6, <2>7, <2>8, LaunchMove
<1>3. CASE ReadMetadata(r)
  <2> DEFINE b == block[r]
             good == proc[r].at = "exited" /\ meta[b].payload.staged = Original
             next == IF good THEN "hashing" ELSE "failed"
             read == [meta |-> meta[b], bin |-> None]
             collected == IF good THEN [row[r] EXCEPT ![b] = read] ELSE row[r]
  <2>1. /\ pc[r] = "waiting" /\ proc[r] # None
        /\ pc' = [pc EXCEPT ![r] = next] /\ pc'[r] = next /\ next \in Steps
    BY <1>0, <1>3 DEF ReadMetadata, Goto, Steps, Terminal
  <2>2. proc[r].block = b /\ (good => meta[b] # None)
    BY <1>0, <2>1 DEF Launched
  <2>3. good => read \in Rows /\ read # None
    BY <1>0, <2>2, NoneAssumption DEF Rows, OrNone, Stored
  <2>4. collected \in [Blocks -> OrNone(Rows)] /\ (good => collected[b] # None)
    BY <1>0, <2>3 DEF OrNone
  <2>5. row' = [row EXCEPT ![r] = collected] /\ row'[r] = collected
    BY <1>0, <1>3 DEF ReadMetadata
  <2>6. proc' = [proc EXCEPT ![r] = None] /\ None \in OrNone(Procs) /\ proc'[r] = None
    BY <1>0, <1>3 DEF ReadMetadata, OrNone
  <2>7. block' = [block EXCEPT ![r] = b] /\ UNCHANGED <<meta, block, judged, view>>
    BY <1>0, <1>3 DEF ReadMetadata, encodings
  <2>8. Launched(r)'
    BY <1>0, <2>1, <2>2, <2>4, <2>5, <2>6, <2>7 DEF Launched
  <2>9. Stored' /\ Grows
    BY <1>0, <1>3, StoredStill, GrowsStill DEF ReadMetadata, judged
  <2> QED BY <1>0, <2>1, <2>4, <2>5, <2>6, <2>7, <2>8, <2>9, LaunchMove
<1>4. CASE HashOutputs(r)
  <2> DEFINE b == block[r]
             good == bin[b] = row[r][b].meta.payload
             last == b = N - 1
             next == IF ~good THEN "failed" ELSE IF last THEN "packing" ELSE "looking"
             collected == IF good THEN RowOf(r, b) ELSE row[r]
             following == IF good /\ ~last THEN b + 1 ELSE b
  <2>1. pc[r] = "hashing" /\ pc' = [pc EXCEPT ![r] = next] /\ pc'[r] = next /\ next \in Steps
    BY <1>0, <1>4 DEF HashOutputs, Goto, Steps, Terminal
  <2>2. row[r][b] \in Rows /\ meta[b] \in Metadatas
    BY <1>0, <2>1 DEF Launched, OrNone, Stored
  <2>3. bin[b] \in OrNone(Payloads)
    BY <1>0 DEF Stored
  <2>4. collected \in [Blocks -> OrNone(Rows)]
    <3>1. [meta |-> meta[b], bin |-> bin[b]] \in Rows
      BY <2>2, <2>3 DEF Rows
    <3> QED BY <1>0, <3>1 DEF RowOf, OrNone
  <2>5. row' = [row EXCEPT ![r] = collected]
    BY <1>0, <1>4 DEF HashOutputs
  <2>6. following \in Blocks /\ block' = [block EXCEPT ![r] = following]
    <3>1. following \in Blocks
      BY <1>0, LocalAssumption DEF Blocks
    <3>2. block = [block EXCEPT ![r] = b]
      BY <1>0
    <3>3. block' = IF good /\ ~last THEN [block EXCEPT ![r] = b + 1] ELSE block
      BY <1>4 DEF HashOutputs
    <3> QED BY <3>1, <3>2, <3>3
  <2>7. proc' = [proc EXCEPT ![r] = proc[r]] /\ proc' = proc /\ UNCHANGED <<encodings, judged, view>>
    BY <1>0, <1>4 DEF HashOutputs
  <2>8. Launched(r)'
    BY <1>0, <2>1, <2>7 DEF Launched, encodings
  <2>9. Stored' /\ Grows
    BY <1>0, <1>4, StoredStill, GrowsStill DEF HashOutputs, judged
  <2> HIDE DEF b, good, last, next, collected, following
  <2> QED BY <1>0, <2>1, <2>4, <2>5, <2>6, <2>7, <2>8, <2>9, LaunchMove
<1>5. CASE Pack(r)
  <2>1. /\ Goto(r, "packing", "packed") /\ pc'[r] = "packed" /\ "packed" \in Steps
        /\ UNCHANGED <<outside, inputs, encodings, summary, rateFailure, judged, running, view>>
    BY <1>0, <1>5 DEF Pack, Goto, Steps
  <2>2. \A b \in Blocks : /\ row[r][b] # None /\ row[r][b] \in Rows
                          /\ meta[b] = row[r][b].meta /\ bin[b] = row[r][b].bin
                          /\ bin[b] = meta[b].payload
    BY <1>0, <1>5 DEF Pack, Packable, OrNone
  <2>3. \A b \in Blocks : meta[b] \in Metadatas /\ bin[b] \in Payloads
    BY <2>2 DEF Rows, Metadatas
  <2>4. \A b \in Blocks : bin[b] # None /\ bin[b].block = b
    BY <1>0, <2>3, NoneAssumption DEF Stored
  <2>5. bin \in [Blocks -> Payloads]
    BY <1>0, <2>3 DEF Stored
  <2>6. artifact' = [asset |-> asset, payload |-> bin] /\ artifact' \in Placed /\ artifact' # None
    BY <1>0, <1>5, <2>4, <2>5, NoneAssumption DEF Pack, Container, Placed, Containers, Stored
  <2>7. Stored'
    BY <1>0, <2>1, <2>6 DEF Stored, outside, inputs, encodings, OrNone
  <2>8. Launched(r)'
    BY <1>0, <2>1, <2>2, <2>4, <2>6 DEF Launched, encodings
  <2>9. Grows
    BY <2>1, <2>6 DEF Grows, encodings, judged
  <2> QED BY <1>0, <2>1, <2>7, <2>8, <2>9, LaunchGoes
<1>6. CASE Overflow(r)
  <2>1. /\ Goto(r, "packing", "failed") /\ pc'[r] = "failed" /\ "failed" \in Steps
        /\ UNCHANGED <<outside, inputs, encodings, artifact, summary, judged, running, view>>
        /\ rateFailure' = TRUE
    BY <1>0, <1>6 DEF Overflow, Goto, Steps, Terminal
  <2>2. Stored'
    BY <1>0, <2>1 DEF Stored, outside, inputs, encodings
  <2>3. Launched(r)'
    BY <1>0, <2>1 DEF Launched, encodings
  <2>4. Grows
    BY <2>1 DEF Grows, encodings, judged
  <2> QED BY <1>0, <2>1, <2>2, <2>3, <2>4, LaunchGoes
<1>7. CASE WriteSummary(r)
  <2>1. /\ Goto(r, "packed", "done") /\ pc[r] = "packed" /\ pc'[r] = "done" /\ "done" \in Steps
        /\ UNCHANGED <<outside, inputs, encodings, artifact, rateFailure, judged, running, view>>
    BY <1>0, <1>7 DEF WriteSummary, Goto, Steps, Terminal
  <2>2. artifact \in Containers /\ artifact # None
    BY <1>0, <2>1 DEF Launched, Stored, OrNone, Placed
  <2>3. \A b \in Blocks : row[r][b] \in [meta : Metadatas, bin : Payloads]
    <3>1. ASSUME NEW b \in Blocks PROVE row[r][b] \in Rows /\ row[r][b].bin \in Payloads
      BY <1>0, <2>1 DEF Launched, OrNone, Rows
    <3> QED BY <3>1 DEF Rows
  <2>4. \A b \in Blocks : Length(row[r][b].bin) \in Nat
    BY <2>3, LengthNat
  <2>5. summary' \in Summaries
    BY <1>0, <1>7, <2>2, <2>3, <2>4 DEF WriteSummary, Summaries
  <2>6. Stored'
    BY <1>0, <2>1, <2>2, <2>5 DEF Stored, outside, inputs, encodings, OrNone
  <2>7. Launched(r)'
    BY <1>0, <2>1 DEF Launched, encodings
  <2>8. Grows
    BY <2>1, <2>5, NoneAssumption DEF Grows, encodings, judged
  <2> QED BY <1>0, <2>1, <2>6, <2>7, <2>8, LaunchGoes
<1> QED BY <1>1, <1>2, <1>3, <1>4, <1>5, <1>6, <1>7 DEF Launch

LEMMA EncoderStep ==
  ASSUME Inv, NEW r \in Launches, Encoder(r)
  PROVE  Inv'
<1>0. /\ Stored /\ Launched(r) /\ pc \in [Processes -> Steps] /\ r \in Processes
      /\ block[r] \in Blocks /\ row[r] \in [Blocks -> OrNone(Rows)] /\ proc[r] \in Procs
      /\ proc \in [Launches -> OrNone(Procs)] /\ proc[r] # None
  BY DEF Inv, Held, Progress, Processes, OrNone, Encoder, EncoderWritesMeta, EncoderWritesBin,
     EncoderFails, EncoderAt
<1>1. /\ pc' = [pc EXCEPT ![r] = pc[r]] /\ pc[r] \in Steps
      /\ block' = [block EXCEPT ![r] = block[r]] /\ row' = [row EXCEPT ![r] = row[r]]
      /\ UNCHANGED <<pc, block, row, judged, view, artifact, summary>>
  BY <1>0 DEF Inv, Held, Encoder, EncoderWritesMeta, EncoderWritesBin, EncoderFails, results
<1>2. ASSUME NEW new \in Procs, proc' = [proc EXCEPT ![r] = new], new.block = proc[r].block,
             new.at \in {"half", "exited"} =>
               /\ new.out \in Payloads /\ new.out.block = new.block /\ meta'[new.block] # None,
             Stored', Grows
      PROVE  Inv'
  <2>1. proc'[r] = new /\ new \in OrNone(Procs) /\ new # None
    BY <1>0, <1>2, NoneAssumption DEF OrNone
  <2>2. pc[r] = "hashing" => meta'[block[r]] # None
    BY <1>0, <1>2 DEF Launched, Grows
  <2>3. Launched(r)'
    BY <1>0, <1>1, <1>2, <2>1, <2>2 DEF Launched
  <2> QED BY <1>0, <1>1, <1>2, <2>1, <2>3, LaunchMove
<1>3. CASE EncoderWritesMeta(r)
  <2> DEFINE b == proc[r].block
             payload == Payload(b, staging[b], encoder)
             new == [proc[r] EXCEPT !.at = "half", !.out = payload]
  <2>1. b \in Blocks /\ payload \in Payloads /\ payload.block = b
    BY <1>0 DEF Procs, Stored, Payload, Payloads
  <2>2. new \in Procs /\ new.block = b /\ new.at = "half" /\ new.out = payload
    BY <1>0, <2>1 DEF Procs, OrNone
  <2>3. proc' = [proc EXCEPT ![r] = new]
    BY <1>0, <1>3 DEF EncoderWritesMeta
  <2>4. Metadata(payload, r) \in Metadatas /\ Metadata(payload, r).payload = payload
    BY <2>1 DEF Metadata, Metadatas
  <2>5. meta' = [meta EXCEPT ![b] = Metadata(payload, r)]
    BY <1>3 DEF EncoderWritesMeta
  <2>6. meta' \in [Blocks -> OrNone(Metadatas)] /\ meta'[b] = Metadata(payload, r) /\ meta'[b] # None
    BY <1>0, <2>1, <2>4, <2>5, NoneAssumption DEF Stored, OrNone
  <2>7. \A c \in Blocks \ {b} : meta'[c] = meta[c]
    BY <1>0, <2>5 DEF Stored
  <2>8. UNCHANGED <<outside, inputs, bin, results, started, judged>>
    BY <1>3 DEF EncoderWritesMeta
  <2>9. \A c \in Blocks : meta'[c] # None => meta'[c].payload.block = c
    BY <1>0, <2>1, <2>4, <2>6, <2>7 DEF Stored
  <2>10. Stored'
    BY <1>0, <2>6, <2>8, <2>9 DEF Stored, outside, inputs, results
  <2>11. Grows
    BY <2>6, <2>7, <2>8 DEF Grows, results, judged
  <2> QED BY <1>2, <2>1, <2>2, <2>3, <2>6, <2>10, <2>11
<1>4. CASE EncoderWritesBin(r)
  <2> DEFINE b == proc[r].block
             new == [proc[r] EXCEPT !.at = "exited"]
  <2>1. /\ b \in Blocks /\ proc[r].out \in Payloads /\ proc[r].out.block = b
        /\ meta[b] # None
    BY <1>0, <1>4 DEF EncoderWritesBin, EncoderAt, Launched, Procs
  <2>2. new \in Procs /\ new.block = b /\ new.out = proc[r].out
    BY <1>0 DEF Procs
  <2>3. proc' = [proc EXCEPT ![r] = new] /\ UNCHANGED meta
    BY <1>0, <1>4 DEF EncoderWritesBin
  <2>4. bin' = [bin EXCEPT ![b] = proc[r].out]
    BY <1>4 DEF EncoderWritesBin
  <2>5. bin' \in [Blocks -> OrNone(Payloads)]
    BY <1>0, <2>1, <2>4 DEF Stored, OrNone
  <2>6. \A c \in Blocks : bin'[c] # None => bin'[c].block = c
    BY <1>0, <2>1, <2>4 DEF Stored
  <2>7. UNCHANGED <<outside, inputs, meta, results, started, judged>>
    BY <1>4 DEF EncoderWritesBin
  <2>8. Stored'
    BY <1>0, <2>5, <2>6, <2>7 DEF Stored, outside, inputs, results
  <2>9. Grows
    BY <2>7 DEF Grows, results, judged
  <2> QED BY <1>2, <2>1, <2>2, <2>3, <2>8, <2>9
<1>5. CASE EncoderFails(r)
  <2> DEFINE new == [proc[r] EXCEPT !.at = "dead"]
  <2>1. new \in Procs /\ new.block = proc[r].block /\ new.at = "dead"
    BY <1>0 DEF Procs
  <2>2. proc' = [proc EXCEPT ![r] = new]
    BY <1>0, <1>5 DEF EncoderFails
  <2>3. Stored' /\ Grows
    BY <1>0, <1>5, StoredStill, GrowsStill DEF EncoderFails, judged
  <2> QED BY <1>2, <2>1, <2>2, <2>3
<1> QED BY <1>3, <1>4, <1>5 DEF Encoder

-----------------------------------------------------------------------------
(* Auditors                                                                *)

LEMMA AuditorMove ==
  ASSUME Inv, NEW a \in Auditors, NEW to \in Steps,
         pc' = [pc EXCEPT ![a] = to],
         UNCHANGED <<outside, inputs, encodings, results, release, running>>,
         NEW seen \in OrNone(AuditorViews \cup PublisherViews), view' = [view EXCEPT ![a] = seen],
         NEW report \in OrNone(Audits), audit' = [audit EXCEPT ![a] = report],
         audit[a] # None => audit'[a] = audit[a],
         Audited(a)'
  PROVE  Inv'
<1> USE DEF running
<1>1. Held'
  BY DEF Inv, Held
<1>2. \A c \in Auditors \ {a} : audit'[c] = audit[c]
  BY DEF Inv, Held
<1>3. Grows
  BY <1>2 DEF Grows, encodings, results
<1>4. Released'
  <2>1. ASSUME release # None, release.files.audit # None
        PROVE  \E c \in Auditors : audit'[c] = release.files.audit
    BY <1>3, <2>1 DEF Inv, Released, Grows
  <2> QED BY <2>1 DEF Inv, Released
<1>5. Stored'
  BY StoredStill DEF Inv
<1>6. /\ \A y \in Processes \ {a} : pc'[y] = pc[y]
      /\ \A y \in (Auditors \cup Publishers) \ {a} : view'[y] = view[y]
  BY DEF Inv, Held
<1>7. a \in Processes /\ a \notin Launches /\ a \notin Publishers
  BY LocalAssumption DEF Processes
<1>8. SameRelease
  BY DEF SameRelease
<1>9. Progress'
  BY <1>2, <1>3, <1>6, <1>7, <1>8, Others
<1> QED BY <1>1, <1>4, <1>5, <1>9 DEF Inv

LEMMA AuditorStep ==
  ASSUME Inv, NEW a \in Auditors, Auditor(a)
  PROVE  Inv'
<1>0. /\ Stored /\ Audited(a) /\ pc \in [Processes -> Steps] /\ a \in Processes
      /\ view[a] \in OrNone(AuditorViews \cup PublisherViews) /\ audit[a] \in OrNone(Audits)
      /\ view \in [Auditors \cup Publishers -> OrNone(AuditorViews \cup PublisherViews)]
      /\ audit \in [Auditors -> OrNone(Audits)]
  BY DEF Inv, Held, Progress, Processes
<1>1. /\ view = [view EXCEPT ![a] = view[a]] /\ audit = [audit EXCEPT ![a] = audit[a]]
      /\ pc = [pc EXCEPT ![a] = pc[a]]
  BY <1>0
<1>2. UNCHANGED <<outside, inputs, encodings, results, release, running>>
  BY DEF Auditor, Parse, DecodeBlock, Report, judged
<1>3. {"decoding", "failed", "done"} \subseteq Steps
  BY DEF Steps, Terminal
<1>4. CASE Parse(a)
  <2>1. pc[a] = "start" /\ audit' = audit /\ audit[a] = None
    BY <1>0, <1>4 DEF Parse, Goto, Audited, judged
  <2>2. CASE Auditable /\ Goto(a, "start", "decoding")
             /\ view' = [view EXCEPT ![a] = [lengths |-> Lengths(artifact),
                                             decoded |-> [b \in Blocks |-> None]]]
    <3> DEFINE seen == [lengths |-> Lengths(artifact), decoded |-> [b \in Blocks |-> None]]
    <3>1. artifact \in Containers /\ artifact # None
      <4>1. summary # None
        BY <2>2 DEF Auditable
      <4> QED BY <1>0, <4>1 DEF Stored, OrNone, Placed
    <3>2. \A b \in Blocks : Length(artifact.payload[b]) \in Nat
      BY <3>1, LengthNat DEF Containers
    <3>3. seen \in AuditorViews
      BY <3>2 DEF Lengths, AuditorViews, OrNone
    <3>4. view'[a] = seen /\ pc'[a] = "decoding" /\ pc' = [pc EXCEPT ![a] = "decoding"]
      BY <1>0, <2>2 DEF Goto
    <3>5. Audited(a)'
      BY <1>0, <1>2, <2>1, <3>1, <3>3, <3>4 DEF Audited, results
    <3>6. seen \in OrNone(AuditorViews \cup PublisherViews)
      BY <3>3 DEF OrNone
    <3> HIDE DEF seen
    <3> QED BY <1>0, <1>1, <1>2, <1>3, <2>1, <2>2, <3>4, <3>5, <3>6, AuditorMove DEF seen
  <2>3. CASE Goto(a, "start", "failed") /\ UNCHANGED view
    <3>1. Audited(a)'
      BY <1>0, <2>1, <2>3 DEF Audited, Goto
    <3> QED BY <1>0, <1>1, <1>2, <1>3, <2>1, <2>3, <3>1, AuditorMove DEF Goto
  <2> QED BY <1>4, <2>2, <2>3 DEF Parse
<1>5. ASSUME NEW b \in Blocks, DecodeBlock(a, b) PROVE Inv'
  <2>1. pc[a] = "decoding" /\ audit' = audit /\ audit[a] = None
    BY <1>0, <1>5 DEF DecodeBlock, Audited, judged
  <2>2. artifact # None /\ artifact \in Containers /\ view[a] \in AuditorViews
    BY <1>0, <2>1 DEF Audited, Stored, OrNone, Placed
  <2>3. CASE view' = [view EXCEPT ![a].decoded[b] = artifact.payload[b]] /\ UNCHANGED pc
    <3> DEFINE decoded == [view[a].decoded EXCEPT ![b] = artifact.payload[b]]
               seen == [view[a] EXCEPT !.decoded = decoded]
    <3>1. decoded \in [Blocks -> OrNone(Payloads)]
      BY <2>2 DEF AuditorViews, Containers, OrNone
    <3>2. seen \in AuditorViews
      BY <2>2, <3>1 DEF AuditorViews
    <3>3. view' = [view EXCEPT ![a] = seen] /\ view'[a] = seen
      BY <1>0, <2>3
    <3>4. Audited(a)'
      BY <1>2, <2>1, <2>2, <2>3, <3>2, <3>3 DEF Audited, results
    <3>5. seen \in OrNone(AuditorViews \cup PublisherViews)
      BY <3>2 DEF OrNone
    <3> HIDE DEF seen
    <3> QED BY <1>0, <1>1, <1>2, <1>3, <2>1, <2>3, <3>3, <3>4, <3>5, AuditorMove
  <2>4. CASE pc' = [pc EXCEPT ![a] = "failed"] /\ UNCHANGED view
    <3>1. Audited(a)'
      BY <1>0, <2>1, <2>4 DEF Audited
    <3> QED BY <1>0, <1>1, <1>2, <1>3, <2>1, <2>4, <3>1, AuditorMove
  <2> QED BY <1>5, <2>3, <2>4 DEF DecodeBlock
<1>6. CASE Report(a)
  <2>1. pc[a] = "decoding" /\ view' = view /\ audit[a] = None
    BY <1>0, <1>6 DEF Report, Audited
  <2>2. artifact # None /\ artifact \in Containers /\ view[a] \in AuditorViews
    BY <1>0, <2>1 DEF Audited, Stored, OrNone, Placed
  <2>3. view[a].decoded \in [Blocks -> Payloads]
    BY <1>6, <2>2 DEF Report, AuditorViews, OrNone
  <2>4. ASSUME NEW passed \in BOOLEAN, Goto(a, "decoding", "done"),
               audit' = [audit EXCEPT ![a] = [decoded |-> view[a].decoded, container |-> artifact,
                                              passed |-> passed]]
        PROVE  Inv'
    <3> DEFINE report == [decoded |-> view[a].decoded, container |-> artifact, passed |-> passed]
    <3>1. report \in OrNone(Audits)
      BY <2>2, <2>3 DEF Audits, OrNone
    <3>2. Audited(a)' /\ pc' = [pc EXCEPT ![a] = "done"]
      BY <1>0, <2>4 DEF Audited, Goto
    <3> HIDE DEF report
    <3> QED BY <1>0, <1>1, <1>2, <1>3, <2>1, <2>4, <3>1, <3>2, AuditorMove DEF report
  <2>5. CASE Goto(a, "decoding", "failed") /\ UNCHANGED audit
    <3>1. Audited(a)'
      BY <1>0, <2>1, <2>5 DEF Audited, Goto
    <3> QED BY <1>0, <1>1, <1>2, <1>3, <2>1, <2>5, <3>1, AuditorMove DEF Goto
  <2> QED BY <1>6, <2>4, <2>5 DEF Report
<1> QED BY <1>4, <1>5, <1>6 DEF Auditor

-----------------------------------------------------------------------------
(* Publishers                                                              *)

LEMMA PublisherMove ==
  ASSUME Inv, NEW p \in Publishers, NEW to \in Steps,
         pc' = [pc EXCEPT ![p] = to],
         UNCHANGED <<outside, inputs, encodings, results, audit, running>>,
         NEW seen \in OrNone(AuditorViews \cup PublisherViews), view' = [view EXCEPT ![p] = seen],
         release' = release \/ release = None \/ release.by = p,
         Released', Publishing(p)'
  PROVE  Inv'
<1> USE DEF running
<1>1. Held'
  BY DEF Inv, Held
<1>2. Grows /\ Stored'
  BY StoredStill, GrowsStill DEF Inv
<1>3. /\ \A y \in Processes \ {p} : pc'[y] = pc[y]
      /\ \A y \in (Auditors \cup Publishers) \ {p} : view'[y] = view[y]
  BY DEF Inv, Held
<1>4. p \in Processes /\ p \notin Launches /\ p \notin Auditors
  BY LocalAssumption DEF Processes
<1>5. SameRelease \/ release = None \/ release.by = p
  BY DEF SameRelease
<1>6. Progress'
  BY <1>2, <1>3, <1>4, <1>5, Others
<1> QED BY <1>1, <1>2, <1>6 DEF Inv

\* A copy leaves the release's publisher and manifest, and the view's container
\* and audit.
LEMMA Copied ==
  ASSUME Inv, NEW p \in Publishers, pc[p] \in Copying, NEW to \in Steps, Goto(p, pc[p], to),
         UNCHANGED <<outside, inputs, encodings, results, audit, running>>,
         NEW new \in ReleaseFiles, release' = [release EXCEPT !.files = new],
         NEW listed \in ReleaseFiles, view' = [view EXCEPT ![p].copied = listed],
         new.artifact \in OrNone(Placed),
         new.audit # None => \E a \in Auditors : audit[a] = new.audit,
         to \in {"metadata", "manifest"} => new.artifact # None /\ new.audit # None
  PROVE  Inv'
<1>1. /\ Publishing(p) /\ release \in Releases /\ release # None
      /\ release.by = p /\ release.manifest = None
      /\ view[p] \in PublisherViews /\ p \in Processes /\ pc \in [Processes -> Steps]
      /\ view \in [Auditors \cup Publishers -> OrNone(AuditorViews \cup PublisherViews)]
  BY DEF Inv, Progress, Publishing, Released, OrNone, Held, Processes
<1>2. /\ release' \in Releases /\ release'.files = new /\ release'.by = p
      /\ release'.manifest = None
  BY <1>1 DEF Releases
<1>3. release' # None
  BY <1>2, NoneAssumption
<1>4. Released'
  BY <1>2, <1>3 DEF Released, OrNone
<1> DEFINE seen == [view[p] EXCEPT !.copied = listed]
<1>5. /\ seen \in PublisherViews /\ seen.audit = view[p].audit
      /\ view' = [view EXCEPT ![p] = seen] /\ view'[p] = seen
  BY <1>1 DEF PublisherViews
<1>6. pc' = [pc EXCEPT ![p] = to] /\ pc'[p] = to
  BY <1>1 DEF Goto
<1>7. Publishing(p)'
  BY <1>1, <1>2, <1>3, <1>5, <1>6 DEF Publishing, results
<1>8. seen \in OrNone(AuditorViews \cup PublisherViews)
  BY <1>5 DEF OrNone
<1> HIDE DEF seen
<1> QED BY <1>1, <1>4, <1>5, <1>6, <1>7, <1>8, PublisherMove

LEMMA PublisherStep ==
  ASSUME Inv, NEW p \in Publishers, Publisher(p)
  PROVE  Inv'
<1>0. /\ Stored /\ Publishing(p) /\ pc \in [Processes -> Steps] /\ p \in Processes
      /\ view[p] \in OrNone(AuditorViews \cup PublisherViews)
      /\ view \in [Auditors \cup Publishers -> OrNone(AuditorViews \cup PublisherViews)]
      /\ view = [view EXCEPT ![p] = view[p]]
  BY DEF Inv, Held, Progress, Processes
<1>1. UNCHANGED <<outside, inputs, encodings, results, audit, running>>
  BY DEF Publisher, FindNoRelease, MakeRelease, CheckRun, CopyDocuments, CopyContainer,
     CopyMetadata, Copy, WriteManifest, VerifyRelease, judged
<1>2. {"claiming", "refused", "checking", "documents", "failed", "container", "metadata",
       "manifest", "verifying", "published", "rejected"} \subseteq Steps
  BY DEF Steps, Terminal
<1>3. CASE FindNoRelease(p) \/ VerifyRelease(p)
  <2>1. PICK from \in Steps, to \in {"claiming", "refused", "published", "rejected"} : Goto(p, from, to)
    BY <1>3 DEF FindNoRelease, VerifyRelease, Steps
  <2>2. UNCHANGED <<release, view>>
    BY <1>3 DEF FindNoRelease, VerifyRelease, judged
  <2>3. pc' = [pc EXCEPT ![p] = to] /\ pc'[p] = to
    BY <1>0, <2>1 DEF Goto
  <2>4. Publishing(p)' /\ Released'
    BY <1>1, <2>2, <2>3 DEF Publishing, Copying, Inv, Released
  <2> QED BY <1>0, <1>1, <1>2, <2>2, <2>3, <2>4, PublisherMove
<1>4. CASE MakeRelease(p)
  <2>1. CASE release = None
    <3>1. /\ pc' = [pc EXCEPT ![p] = "checking"] /\ pc'[p] = "checking"
          /\ release' = EmptyRelease(p) /\ view' = view
      BY <1>0, <1>4, <2>1 DEF MakeRelease, Goto
    <3>2. EmptyRelease(p) \in Releases /\ EmptyRelease(p) # None
      BY NoneAssumption DEF EmptyRelease, NoFiles, Releases, ReleaseFiles, OrNone
    <3>3. Released' /\ Publishing(p)'
      BY <3>1, <3>2 DEF Released, Publishing, Copying, EmptyRelease, NoFiles, OrNone
    <3> QED BY <1>0, <1>1, <1>2, <2>1, <3>1, <3>3, PublisherMove
  <2>2. CASE release # None
    <3>1. /\ pc' = [pc EXCEPT ![p] = "refused"] /\ pc'[p] = "refused"
          /\ UNCHANGED <<release, view>>
      BY <1>0, <1>4, <2>2 DEF MakeRelease, Goto
    <3>2. Released' /\ Publishing(p)'
      BY <1>1, <3>1 DEF Released, Publishing, Copying, Inv
    <3> QED BY <1>0, <1>1, <1>2, <3>1, <3>2, PublisherMove
  <2> QED BY <2>1, <2>2
<1>5. CASE CheckRun(p)
  <2>1. PICK a \in Auditors :
          \/ /\ Fit(a) /\ Goto(p, "checking", "documents")
             /\ view' = [view EXCEPT ![p] = [container |-> summary.artifact,
                                             audit |-> audit[a], copied |-> NoFiles]]
          \/ Goto(p, "checking", "failed") /\ UNCHANGED view
    BY <1>5 DEF CheckRun
  <2>2. pc[p] = "checking" /\ release' = release /\ Released'
    BY <1>0, <1>1, <1>5, <2>1 DEF CheckRun, Goto, judged, Inv, Released
  <2>3. CASE /\ Fit(a) /\ Goto(p, "checking", "documents")
             /\ view' = [view EXCEPT ![p] = [container |-> summary.artifact,
                                             audit |-> audit[a], copied |-> NoFiles]]
    <3> DEFINE seen == [container |-> summary.artifact, audit |-> audit[a], copied |-> NoFiles]
    <3>1. summary # None /\ audit[a] # None
      BY <2>3 DEF Fit
    <3>2. summary.artifact \in Containers /\ audit[a] \in Audits
      BY <1>0, <3>1 DEF Stored, Summaries, OrNone, Inv, Held
    <3>3. seen \in PublisherViews /\ seen.audit = audit[a]
      BY <3>2 DEF PublisherViews, NoFiles, ReleaseFiles, OrNone
    <3>4. view'[p] = seen /\ pc' = [pc EXCEPT ![p] = "documents"] /\ pc'[p] = "documents"
      BY <1>0, <2>3 DEF Goto
    <3>5. Publishing(p)'
      BY <1>0, <1>1, <2>2, <3>1, <3>3, <3>4 DEF Publishing, Copying, results
    <3>6. seen \in OrNone(AuditorViews \cup PublisherViews) /\ view' = [view EXCEPT ![p] = seen]
      BY <2>3, <3>3 DEF OrNone
    <3> HIDE DEF seen
    <3> QED BY <1>0, <1>1, <1>2, <2>2, <3>4, <3>5, <3>6, PublisherMove
  <2>4. CASE Goto(p, "checking", "failed") /\ UNCHANGED view
    <3>1. pc' = [pc EXCEPT ![p] = "failed"] /\ pc'[p] = "failed"
      BY <1>0, <2>4 DEF Goto
    <3>2. Publishing(p)'
      BY <3>1 DEF Publishing, Copying
    <3> QED BY <1>0, <1>1, <1>2, <2>2, <2>4, <3>1, <3>2, PublisherMove
  <2> QED BY <2>1, <2>3, <2>4
<1>6. ASSUME pc[p] \in Copying
      PROVE  /\ release.files \in ReleaseFiles /\ release.files.artifact \in OrNone(Placed)
             /\ release.files.audit # None => \E a \in Auditors : audit[a] = release.files.audit
             /\ view[p].copied \in ReleaseFiles /\ view[p].audit \in Audits
             /\ \E a \in Auditors : audit[a] = view[p].audit
             /\ summary \in Summaries /\ artifact \in Placed /\ artifact # None
             /\ pc[p] \in {"metadata", "manifest"} =>
                  release.files.artifact # None /\ release.files.audit # None
  BY <1>0, <1>6 DEF Publishing, Inv, Released, Releases, OrNone, PublisherViews, Stored
<1>7. CASE CopyDocuments(p)
  <2> DEFINE Put(files) == [files EXCEPT !.summary = summary]
  <2>1. Goto(p, "documents", "container") /\ pc[p] = "documents"
    BY <1>7 DEF CopyDocuments, Goto
  <2>2. /\ release' = [release EXCEPT !.files = Put(release.files)]
        /\ view' = [view EXCEPT ![p].copied = Put(view[p].copied)]
    BY <1>7 DEF CopyDocuments, Copy
  <2>3. ASSUME NEW files \in ReleaseFiles
        PROVE  /\ Put(files) \in ReleaseFiles /\ Put(files).artifact = files.artifact
               /\ Put(files).audit = files.audit
    BY <1>6, <2>1 DEF Copying, ReleaseFiles, OrNone
  <2>4. pc[p] \in Copying
    BY <2>1 DEF Copying
  <2> DEFINE new == Put(release.files)
             listed == Put(view[p].copied)
  <2>5. /\ new \in ReleaseFiles /\ new.artifact = release.files.artifact
        /\ new.audit = release.files.audit /\ listed \in ReleaseFiles
    BY <1>6, <2>3, <2>4
  <2> HIDE DEF Put, new, listed
  <2>6. release' = [release EXCEPT !.files = new] /\ view' = [view EXCEPT ![p].copied = listed]
    BY <2>2 DEF new, listed
  <2> QED BY <1>1, <1>2, <1>6, <2>1, <2>4, <2>5, <2>6, Copied, ZenonT(40)
<1>8. CASE CopyContainer(p)
  <2> DEFINE Put(files) == [files EXCEPT !.artifact = artifact, !.audit = view[p].audit,
                                         !.asset = asset]
  <2>1. Goto(p, "container", "metadata") /\ pc[p] = "container"
    BY <1>8 DEF CopyContainer, Goto
  <2>2. /\ release' = [release EXCEPT !.files = Put(release.files)]
        /\ view' = [view EXCEPT ![p].copied = Put(view[p].copied)]
    BY <1>8 DEF CopyContainer, Copy
  <2>3. pc[p] \in Copying
    BY <2>1 DEF Copying
  <2>4. ASSUME NEW files \in ReleaseFiles
        PROVE  /\ Put(files) \in ReleaseFiles /\ Put(files).artifact = artifact
               /\ Put(files).audit = view[p].audit
    BY <1>0, <1>6, <2>3 DEF ReleaseFiles, OrNone, Stored, Placed
  <2>5. view[p].audit # None /\ artifact \in OrNone(Placed) /\ artifact # None
    BY <1>6, <2>3, NoneAssumption DEF OrNone
  <2> DEFINE new == Put(release.files)
             listed == Put(view[p].copied)
  <2>6. /\ new \in ReleaseFiles /\ new.artifact = artifact /\ new.audit = view[p].audit
        /\ listed \in ReleaseFiles
    BY <1>6, <2>3, <2>4
  <2> HIDE DEF Put, new, listed
  <2>7. release' = [release EXCEPT !.files = new] /\ view' = [view EXCEPT ![p].copied = listed]
    BY <2>2 DEF new, listed
  <2> QED BY <1>1, <1>2, <1>6, <2>1, <2>3, <2>5, <2>6, <2>7, Copied
<1>9. CASE CopyMetadata(p)
  <2> DEFINE Put(files) == [files EXCEPT !.metas = meta]
  <2>1. Goto(p, "metadata", "manifest") /\ pc[p] = "metadata"
    BY <1>9 DEF CopyMetadata, Goto
  <2>2. /\ release' = [release EXCEPT !.files = Put(release.files)]
        /\ view' = [view EXCEPT ![p].copied = Put(view[p].copied)]
    BY <1>9 DEF CopyMetadata, Copy
  <2>3. ASSUME NEW files \in ReleaseFiles
        PROVE  /\ Put(files) \in ReleaseFiles /\ Put(files).artifact = files.artifact
               /\ Put(files).audit = files.audit
    BY <1>0 DEF ReleaseFiles, OrNone, Stored
  <2>4. pc[p] \in Copying
    BY <2>1 DEF Copying
  <2> DEFINE new == Put(release.files)
             listed == Put(view[p].copied)
  <2>5. /\ new \in ReleaseFiles /\ new.artifact = release.files.artifact
        /\ new.audit = release.files.audit /\ listed \in ReleaseFiles
    BY <1>6, <2>3, <2>4
  <2> HIDE DEF Put, new, listed
  <2>6. release' = [release EXCEPT !.files = new] /\ view' = [view EXCEPT ![p].copied = listed]
    BY <2>2 DEF new, listed
  <2> QED BY <1>1, <1>2, <1>6, <2>1, <2>4, <2>5, <2>6, Copied
<1>10. CASE WriteManifest(p)
  <2> DEFINE manifest == [files |-> view[p].copied, container |-> view[p].container]
  <2>1. /\ pc[p] = "manifest" /\ pc'[p] = "verifying" /\ pc' = [pc EXCEPT ![p] = "verifying"]
        /\ pc[p] \in Copying /\ view' = view
    BY <1>0, <1>10 DEF WriteManifest, Goto, Copying
  <2>2. release \in Releases /\ release # None /\ release.by = p /\ view[p] \in PublisherViews
    BY <1>0, <2>1 DEF Publishing, Inv, Released, OrNone
  <2>3. manifest \in OrNone(Manifests)
    BY <2>2 DEF PublisherViews, Manifests, OrNone
  <2>4. release' \in Releases /\ release'.files = release.files
    BY <1>10, <2>2, <2>3 DEF WriteManifest, Releases
  <2>5. Released'
    BY <1>1, <1>6, <2>1, <2>4 DEF Released, OrNone
  <2>6. Publishing(p)'
    BY <2>1 DEF Publishing, Copying
  <2> QED BY <1>0, <1>1, <1>2, <2>1, <2>2, <2>5, <2>6, PublisherMove
<1> QED BY <1>3, <1>4, <1>5, <1>7, <1>8, <1>9, <1>10 DEF Publisher

-----------------------------------------------------------------------------
(* What happens from outside                                               *)

LEMMA Still ==
  ASSUME Inv, UNCHANGED <<pc, block, row, proc, view, audit>>,
         Stored', Released', Grows, SameRelease
  PROVE  Inv'
<1>1. Held'
  BY DEF Inv, Held
<1>2. \A r \in Launches : Launched(r)'
  BY LaunchedStill DEF Inv, Progress
<1>3. \A a \in Auditors : Audited(a)'
  BY AuditedStill DEF Inv, Progress
<1>4. \A p \in Publishers : Publishing(p)'
  BY PublishingStill DEF Inv, Progress
<1> QED BY <1>1, <1>2, <1>3, <1>4 DEF Inv, Progress

\* An edit of a container leaves every payload in its place.
LEMMA EditPlaced ==
  ASSUME NEW container \in Placed, NEW b \in Blocks
  PROVE  EditPayload(container, b) \in Placed
<1> DEFINE payload == [container.payload[b] EXCEPT !.staged = Altered]
           payloads == [container.payload EXCEPT ![b] = payload]
           edited == [container EXCEPT !.payload = payloads]
<1>1. container \in Containers /\ container.payload \in [Blocks -> Payloads]
  BY DEF Placed, Containers
<1>2. payload \in Payloads /\ payload.block = b
  BY <1>1 DEF Payloads, Contents, Placed
<1>3. payloads \in [Blocks -> Payloads] /\ \A c \in Blocks : payloads[c].block = c
  BY <1>1, <1>2 DEF Placed
<1>4. edited \in Containers /\ edited.payload = payloads
  BY <1>1, <1>3 DEF Containers
<1>5. edited \in Placed
  BY <1>3, <1>4 DEF Placed
<1>6. EditPayload(container, b) = edited
  BY DEF EditPayload
<1> QED BY <1>5, <1>6

LEMMA OutsideStep ==
  ASSUME Inv, BuildPlan \/ Drift \/ UNCHANGED vars
  PROVE  Inv'
<1>1. UNCHANGED <<pc, block, row, proc, view, audit, meta, bin, summary, rateFailure, started>>
  BY DEF BuildPlan, Drift, vars, encodings, results, judged, running
<1>2. artifact' = artifact \/ (artifact # None /\ \E b \in Blocks : artifact' = EditPayload(artifact, b))
  BY DEF BuildPlan, Drift, vars, results
<1>3. /\ artifact' \in OrNone(Placed)
      /\ artifact # None => artifact' # None
  <2>1. None \notin Placed
    BY NoneAssumption DEF Placed
  <2> QED BY <1>2, <2>1, EditPlaced DEF Inv, Stored, OrNone
<1>4. Grows
  BY <1>1, <1>3 DEF Grows
<1>5. Stored'
  <2>1. /\ encoder' \in Contents /\ source' \in Contents /\ asset' \in Contents
        /\ staging' \in [Blocks -> Contents]
    BY DEF BuildPlan, Drift, vars, outside, inputs, Inv, Stored, Contents
  <2>2. plan' \in {"absent", "unsealed", "sealed"}
    BY DEF BuildPlan, Drift, vars, inputs, Inv, Stored
  <2>3. drifts' \in 0 .. MaxDrift
    BY LocalAssumption DEF BuildPlan, Drift, vars, outside, Inv, Stored
  <2> QED BY <1>1, <1>3, <2>1, <2>2, <2>3 DEF Inv, Stored
<1>6. CASE release' = release
  <2>1. Released' /\ SameRelease
    BY <1>1, <1>6 DEF Inv, Released, SameRelease
  <2> QED BY <1>1, <1>4, <1>5, <2>1, Still
<1>7. CASE /\ release # None /\ release.files.artifact # None
           /\ \E b \in Blocks :
                release' = [release EXCEPT !.files.artifact = EditPayload(@, b)]
  <2>1. PICK b \in Blocks : release' = [release EXCEPT !.files.artifact = EditPayload(@, b)]
    BY <1>7
  <2> DEFINE edited == EditPayload(release.files.artifact, b)
             files == [release.files EXCEPT !.artifact = edited]
  <2>2. /\ release \in Releases /\ release.files.artifact \in Placed
        /\ release.files \in ReleaseFiles
    BY <1>7 DEF Inv, Released, OrNone, Releases
  <2>3. edited \in Placed /\ edited \in Containers /\ edited # None
    BY <2>2, EditPlaced, NoneAssumption DEF Placed
  <2>4. files \in ReleaseFiles /\ files.artifact = edited /\ files.audit = release.files.audit
    BY <2>2, <2>3 DEF ReleaseFiles, OrNone
  <2>5. release' = [release EXCEPT !.files = files]
    BY <2>1
  <2>6. /\ release' \in Releases /\ release'.files = files
        /\ release'.by = release.by /\ release'.manifest = release.manifest
    BY <2>2, <2>4, <2>5 DEF Releases
  <2>7. release' # None
    BY <2>6, NoneAssumption
  <2>8. Released'
    BY <1>1, <1>7, <2>3, <2>4, <2>6 DEF Inv, Released, OrNone
  <2>9. SameRelease
    BY <2>3, <2>4, <2>6, <2>7 DEF SameRelease
  <2> QED BY <1>1, <1>4, <1>5, <2>8, <2>9, Still
<1> QED BY <1>6, <1>7 DEF BuildPlan, Drift, vars, judged

LEMMA KillStep ==
  ASSUME Inv, NEW r \in Launches, Kill(r)
  PROVE  Inv'
<1>1. /\ UNCHANGED <<outside, inputs, encodings, results, judged, running, view>>
      /\ pc' = [pc EXCEPT ![r] = "killed"] /\ "killed" \in Steps
  BY DEF Kill, Steps, Terminal
<1>2. /\ pc'[r] = "killed" /\ Launched(r)
      /\ block' = [block EXCEPT ![r] = block[r]] /\ block[r] \in Blocks
      /\ row' = [row EXCEPT ![r] = row[r]] /\ row[r] \in [Blocks -> OrNone(Rows)]
      /\ proc' = [proc EXCEPT ![r] = proc[r]] /\ proc[r] \in OrNone(Procs)
  BY <1>1 DEF Inv, Held, Progress, Processes, running
<1>3. Launched(r)'
  BY <1>1, <1>2 DEF Launched, encodings, running
<1>4. Stored' /\ Grows
  BY <1>1, StoredStill, GrowsStill DEF Inv, judged, running
<1> QED BY <1>1, <1>2, <1>3, <1>4, LaunchMove

LEMMA InvNext == Inv /\ [Next]_vars => Inv'
BY LaunchStep, EncoderStep, AuditorStep, PublisherStep, KillStep, OutsideStep DEF Next

LEMMA InvAlways == Spec => []Inv
BY InvInit, InvNext, PTL DEF Spec

-----------------------------------------------------------------------------
(* What follows                                                            *)

\* Every variable keeps its kind; summaries, audits and containers are
\* complete whenever they are there.
THEOREM TypeCorrect == Spec => []TypeOK
<1>1. Inv => TypeOK
  BY DEF Inv, Stored, Held, Released, TypeOK, OrNone, Placed
<1> QED BY <1>1, InvAlways, PTL

\* The verifier accepts nothing but the plan's blocks, each in its place, as an
\* auditor decoded them.
THEOREM Genuine == Spec => []AcceptedGenuine
<1>1. Inv => AcceptedGenuine
  <2> SUFFICES ASSUME Inv, Accepted(release) PROVE AcceptedGenuine
    BY DEF AcceptedGenuine
  <2>1. release # None /\ release.manifest # None
    BY DEF Accepted, ManifestHolds
  <2>2. release.files.artifact \in Placed /\ release.files.audit # None
    BY <2>1 DEF Inv, Released, OrNone
  <2>3. release.files.artifact.asset = Original
    BY DEF Accepted, AssetsHold
  <2>4. \A b \in Blocks : release.files.artifact.payload[b].staged = Original
    BY DEF Accepted, MetadataHold
  <2>5. PICK a \in Auditors : audit[a] = release.files.audit
    BY <2>1, <2>2 DEF Inv, Released
  <2>6. audit[a] # None /\ audit[a].passed /\ audit[a].decoded = release.files.artifact.payload
    BY <2>2, <2>5 DEF Accepted, AuditHolds
  <2> QED BY <2>2, <2>3, <2>4, <2>6 DEF AcceptedGenuine, Placed
<1> QED BY <1>1, InvAlways, PTL

\* Only edits from outside touch a release that the verifier accepts.
THEOREM Once == Spec => ReleaseOnce
<1>1. ASSUME Inv, Accepted(release), drifts' = drifts, [Next]_vars PROVE release' = release
  <2>1. release # None /\ release.manifest # None
    BY <1>1 DEF Accepted, ManifestHolds
  <2>2. ASSUME NEW p \in Publishers PROVE pc[p] \notin {"checking"} \cup Copying
    BY <1>1, <2>1 DEF Inv, Progress, Publishing
  <2>3. ASSUME NEW p \in Publishers, Publisher(p) PROVE release' = release
    BY <2>1, <2>2, <2>3 DEF Publisher, FindNoRelease, MakeRelease, CheckRun, CopyDocuments,
       CopyContainer, CopyMetadata, WriteManifest, VerifyRelease, Goto, Copying, judged
  <2>4. ~Drift
    BY <1>1 DEF Drift, Inv, Stored
  <2>5. ASSUME NEW r \in Launches, Launch(r) \/ Encoder(r) \/ Kill(r) PROVE release' = release
    BY <2>5 DEF Launch, VerifyPlan, FindAbsent, StartEncoder, ReadMetadata, HashOutputs, Pack,
       Overflow, PackFails, WriteSummary, Encoder, EncoderWritesMeta, EncoderWritesBin,
       EncoderFails, Kill, judged
  <2>6. ASSUME NEW a \in Auditors, Auditor(a) PROVE release' = release
    BY <2>6 DEF Auditor, Parse, DecodeBlock, Report, judged
  <2>7. CASE BuildPlan \/ UNCHANGED vars
    BY <2>7 DEF BuildPlan, vars, judged
  <2> QED BY <1>1, <2>3, <2>4, <2>5, <2>6, <2>7 DEF Next
<1>2. Inv /\ [Next]_vars => [Accepted(release) /\ drifts' = drifts => release' = release]_release
  BY <1>1
<1> QED BY <1>2, InvAlways, PTL DEF Spec, ReleaseOnce

-----------------------------------------------------------------------------
(* Honest work                                                             *)

\* What the encoder makes of a block of the plan, and all of it, packed.
Own(b) == Payload(b, Original, Original)
Whole == Container(Original, [b \in Blocks |-> Own(b)])

\* The rows and the summary of a launch that made it all.
OwnRow(r, b) == [meta |-> Metadata(Own(b), r), bin |-> Own(b)]
SummaryBy(r) ==
  [rows |-> [b \in Blocks |-> OwnRow(r, b)], lengths |-> Lengths(Whole), artifact |-> Whole]

\* Nobody edited, and of two launches one has not begun.
Alone == drifts = 0 /\ \A r, s \in Launches : r # s => "start" \in {pc[r], pc[s]}

\* What is on disk is the one launch's.
Encoded ==
  /\ encoder = Original /\ source = Original /\ asset = Original
  /\ \A b \in Blocks :
       /\ staging[b] = Original
       /\ bin[b] # None => bin[b] = Own(b)
       /\ meta[b] # None => \E r \in Launches : pc[r] # "start" /\ meta[b] = Metadata(Own(b), r)
  /\ artifact # None => artifact = Whole
  /\ summary # None =>
       \E r \in Launches : /\ pc[r] # "start" /\ summary = SummaryBy(r)
                           /\ \A b \in Blocks : meta[b] = Metadata(Own(b), r)

\* So is what it holds itself.
Collected(r) ==
  /\ pc[r] = "start" => proc[r] = None
  /\ proc[r] # None /\ proc[r].at \in {"half", "exited"} => proc[r].out = Own(proc[r].block)
  /\ \A b \in Blocks :
       row[r][b] # None => /\ row[r][b].meta = Metadata(Own(b), r)
                           /\ row[r][b].bin \in {None, Own(b)}
  /\ pc[r] = "packed" => \A b \in Blocks : meta[b] # None

\* An auditor decodes nothing else, ...
Decoded(a) ==
  /\ pc[a] = "decoding" => \A b \in Blocks : view[a].decoded[b] \in {None, Own(b)}
  /\ audit[a] # None => audit[a].decoded = Whole.payload /\ audit[a].container = Whole

\* ... and a publisher copies nothing else.
Copies(p) ==
  /\ pc[p] = "checking" => release.files = NoFiles
  /\ pc[p] \in Copying =>
       /\ view[p].container = Whole /\ view[p].audit.passed
       /\ view[p].copied = release.files
  /\ pc[p] \in Copying \ {"documents"} => release.files.summary = summary
  /\ pc[p] \in {"metadata", "manifest"} =>
       /\ release.files.artifact = Whole /\ release.files.asset = Original
       /\ release.files.audit = view[p].audit
  /\ pc[p] = "manifest" => release.files.metas = meta
  /\ pc[p] = "verifying" => release # None /\ release.manifest # None
  /\ pc[p] # "rejected"

Complete == release # None /\ release.manifest # None => Accepted(release)

Honest ==
  /\ Encoded
  /\ \A r \in Launches : Collected(r)
  /\ \A a \in Auditors : Decoded(a)
  /\ \A p \in Publishers : Copies(p)
  /\ Complete

LEMMA HonestInit == Init => Honest
<1> SUFFICES ASSUME Init PROVE Honest
  OBVIOUS
<1>1. Encoded
  BY DEF Init, Encoded
<1>2. ASSUME NEW r \in Launches PROVE Collected(r)
  <2>1. pc[r] = "start" /\ proc[r] = None /\ \A b \in Blocks : row[r][b] = None
    BY DEF Init, Processes
  <2> QED BY <2>1 DEF Collected
<1>3. ASSUME NEW a \in Auditors PROVE Decoded(a)
  <2>1. pc[a] = "start" /\ audit[a] = None
    BY DEF Init, Processes
  <2> QED BY <2>1 DEF Decoded
<1>4. ASSUME NEW p \in Publishers PROVE Copies(p)
  <2>1. pc[p] = "start"
    BY DEF Init, Processes
  <2> QED BY <2>1 DEF Copies, Copying
<1>5. Complete
  BY DEF Init, Complete
<1> QED BY <1>1, <1>2, <1>3, <1>4, <1>5 DEF Honest

-----------------------------------------------------------------------------
(* What a step of one process leaves of the others' honest work            *)

\* Once there is a summary, neither it nor the metadata change.
Steady == summary # None => summary' = summary /\ meta' = meta

\* Nobody who has begun begins again.
Begun == \A r \in Launches : pc[r] # "start" => pc'[r] # "start"

LEMMA EncodedStill ==
  ASSUME Encoded, Begun, UNCHANGED <<outside, staging, asset, encodings, artifact, summary>>
  PROVE  Encoded'
BY DEF Encoded, Begun, outside, encodings

LEMMA CollectedStill ==
  ASSUME NEW r \in Launches, Collected(r), UNCHANGED <<pc[r], row[r], proc[r]>>,
         \A b \in Blocks : meta[b] # None => meta'[b] # None
  PROVE  Collected(r)'
BY DEF Collected

LEMMA DecodedStill ==
  ASSUME NEW a \in Auditors, Decoded(a), UNCHANGED <<pc[a], view[a], audit[a]>>
  PROVE  Decoded(a)'
BY DEF Decoded

LEMMA CopiesStill ==
  ASSUME NEW p \in Publishers, Copies(p), Publishing(p), Steady, UNCHANGED <<pc[p], view[p]>>,
         UNCHANGED release \/ pc[p] \notin {"checking", "verifying"} \cup Copying
  PROVE  Copies(p)'
<1>1. pc[p] \in Copying => summary' = summary /\ meta' = meta
  BY DEF Publishing, Steady
<1> QED BY <1>1 DEF Copies, Copying, NoFiles

LEMMA CompleteStill ==
  ASSUME Complete, UNCHANGED release
  PROVE  Complete'
BY DEF Complete, Accepted, ManifestHolds, AssetsHold, SummaryHolds, MetadataHold, AuditHolds

\* Of two launches that have begun there is one.
LEMMA TheOne ==
  ASSUME Alone, NEW r \in Launches, NEW s \in Launches, pc[r] # "start", pc[s] # "start"
  PROVE  r = s
BY DEF Alone

-----------------------------------------------------------------------------
(* Launches                                                                *)

LEMMA LaunchHonest ==
  ASSUME Inv, Honest, NEW r \in Launches,
         UNCHANGED <<judged, view>>,
         \A y \in Processes \ {r} : pc'[y] = pc[y],
         \A s \in Launches \ {r} : UNCHANGED <<row[s], proc[s]>>,
         \A b \in Blocks : meta[b] # None => meta'[b] # None,
         Steady, Encoded', Collected(r)'
  PROVE  Honest'
<1> USE DEF judged
<1>1. ASSUME NEW s \in Launches PROVE Collected(s)'
  BY CollectedStill DEF Honest, Processes
<1>2. ASSUME NEW a \in Auditors PROVE Decoded(a)'
  BY DecodedStill, LocalAssumption DEF Honest, Processes
<1>3. ASSUME NEW p \in Publishers PROVE Copies(p)'
  BY CopiesStill, LocalAssumption DEF Honest, Processes, Inv, Progress
<1>4. Complete'
  BY CompleteStill DEF Honest
<1> QED BY <1>1, <1>2, <1>3, <1>4 DEF Honest

LEMMA LaunchStepHonest ==
  ASSUME Inv, Honest, Alone, NEW r \in Launches, Launch(r)
  PROVE  Honest'
<1> USE DEF running
<1>1. /\ Encoded /\ Collected(r) /\ Launched(r) /\ Stored
      /\ pc \in [Processes -> Steps] /\ r \in Processes
      /\ row \in [Launches -> [Blocks -> OrNone(Rows)]] /\ proc \in [Launches -> OrNone(Procs)]
      /\ block[r] \in Blocks
  BY DEF Inv, Held, Honest, Progress, Processes
<1>2. /\ UNCHANGED <<outside, staging, asset, encodings, judged, view>>
      /\ \A y \in Processes \ {r} : pc'[y] = pc[y]
      /\ \A s \in Launches \ {r} : UNCHANGED <<row[s], proc[s]>>
      /\ pc'[r] # "start"
  BY <1>1 DEF Launch, VerifyPlan, FindAbsent, StartEncoder, ReadMetadata, HashOutputs, Pack,
     Overflow, PackFails, WriteSummary, Goto, inputs
<1>3. Begun /\ \A b \in Blocks : meta[b] # None => meta'[b] # None
  BY <1>2 DEF Begun, Processes, encodings
<1>4. ASSUME artifact' = artifact, summary' = summary, Collected(r)' PROVE Honest'
  <2>1. Steady
    BY <1>2, <1>4 DEF Steady, encodings
  <2>2. Encoded'
    BY <1>1, <1>2, <1>3, <1>4, EncodedStill
  <2> QED BY <1>2, <1>3, <1>4, <2>1, <2>2, LaunchHonest
<1>5. CASE VerifyPlan(r) \/ FindAbsent(r) \/ PackFails(r) \/ Overflow(r)
  <2>1. /\ artifact' = artifact /\ summary' = summary /\ UNCHANGED <<row, proc>>
        /\ pc'[r] # "packed"
    BY <1>1, <1>5 DEF VerifyPlan, FindAbsent, PackFails, Overflow, Goto, results
  <2>2. Collected(r)'
    BY <1>1, <1>2, <2>1 DEF Collected
  <2> QED BY <1>4, <2>1, <2>2
<1>6. CASE StartEncoder(r)
  <2>1. /\ artifact' = artifact /\ summary' = summary /\ UNCHANGED row
        /\ pc'[r] # "packed" /\ proc'[r].at = "running"
    BY <1>1, <1>6 DEF StartEncoder, Goto, results
  <2>2. Collected(r)'
    BY <1>1, <1>2, <2>1 DEF Collected
  <2> QED BY <1>4, <2>1, <2>2
<1>7. CASE ReadMetadata(r)
  <2> DEFINE b == block[r]
             read == [meta |-> meta[b], bin |-> None]
  <2>1. /\ artifact' = artifact /\ summary' = summary /\ pc[r] = "waiting" /\ pc'[r] # "packed"
        /\ proc'[r] = None
        /\ \/ row' = row
           \/ row' = [row EXCEPT ![r][b] = read] /\ proc[r].at = "exited"
    BY <1>1, <1>7 DEF ReadMetadata, Goto, results
  <2>2. CASE row' = row
    <3>1. Collected(r)'
      BY <1>1, <1>2, <2>1, <2>2 DEF Collected
    <3> QED BY <1>4, <2>1, <3>1
  <2>3. CASE row' = [row EXCEPT ![r][b] = read] /\ proc[r].at = "exited"
    <3>1. meta[b] # None
      BY <1>1, <2>1, <2>3 DEF Launched
    <3>2. meta[b] = Metadata(Own(b), r)
      BY <1>1, <2>1, <3>1, TheOne DEF Encoded
    <3>3. row'[r] = [row[r] EXCEPT ![b] = read]
      BY <1>1, <2>3
    <3>4. ASSUME NEW c \in Blocks, row'[r][c] # None
          PROVE  row'[r][c].meta = Metadata(Own(c), r) /\ row'[r][c].bin \in {None, Own(c)}
      BY <1>1, <3>2, <3>3, <3>4 DEF Collected
    <3>5. Collected(r)'
      BY <1>2, <2>1, <3>4 DEF Collected
    <3> QED BY <1>4, <2>1, <3>5
  <2> QED BY <2>1, <2>2, <2>3
<1>8. CASE HashOutputs(r)
  <2> DEFINE b == block[r]
             hashed == [meta |-> meta[b], bin |-> bin[b]]
  <2>1. /\ artifact' = artifact /\ summary' = summary /\ pc[r] = "hashing" /\ pc'[r] # "packed"
        /\ UNCHANGED proc
        /\ \/ row' = row
           \/ row' = [row EXCEPT ![r] = RowOf(r, b)]
    BY <1>1, <1>8 DEF HashOutputs, Goto, results
  <2>2. CASE row' = row
    <3>1. Collected(r)'
      BY <1>1, <1>2, <2>1, <2>2 DEF Collected
    <3> QED BY <1>4, <2>1, <3>1
  <2>3. CASE row' = [row EXCEPT ![r] = RowOf(r, b)]
    <3>1. meta[b] # None
      BY <1>1, <2>1 DEF Launched
    <3>2. meta[b] = Metadata(Own(b), r) /\ bin[b] \in {None, Own(b)}
      BY <1>1, <2>1, <3>1, TheOne DEF Encoded
    <3>3. row'[r] = [row[r] EXCEPT ![b] = hashed]
      BY <1>1, <2>3 DEF RowOf
    <3>4. ASSUME NEW c \in Blocks, row'[r][c] # None
          PROVE  row'[r][c].meta = Metadata(Own(c), r) /\ row'[r][c].bin \in {None, Own(c)}
      BY <1>1, <3>2, <3>3, <3>4 DEF Collected
    <3>5. Collected(r)'
      BY <1>1, <1>2, <2>1, <3>4 DEF Collected
    <3> QED BY <1>4, <2>1, <3>5
  <2> QED BY <2>1, <2>2, <2>3
<1>9. CASE Pack(r)
  <2>1. /\ summary' = summary /\ UNCHANGED <<row, proc>> /\ Packable(r)
        /\ artifact' = Container(asset, bin)
    BY <1>9 DEF Pack
  <2>2. \A b \in Blocks : /\ meta[b] # None /\ bin[b] = Own(b)
    <3> SUFFICES ASSUME NEW b \in Blocks PROVE meta[b] # None /\ bin[b] = Own(b)
      OBVIOUS
    <3>1. row[r][b] # None /\ meta[b] = row[r][b].meta /\ bin[b] = meta[b].payload
      BY <2>1 DEF Packable
    <3>2. meta[b] = Metadata(Own(b), r)
      BY <1>1, <3>1 DEF Collected
    <3>3. bin[b] = Own(b)
      BY <3>1, <3>2 DEF Metadata
    <3>4. row[r][b] \in Rows
      BY <1>1, <3>1 DEF OrNone
    <3>5. meta[b] \in Metadatas
      BY <3>1, <3>4 DEF Rows
    <3> QED BY <3>3, <3>5, NoneAssumption
  <2>3. bin = [b \in Blocks |-> Own(b)]
    BY <1>1, <2>2 DEF Stored
  <2>4. artifact' = Whole
    BY <1>1, <2>1, <2>3 DEF Encoded, Whole
  <2>5. Encoded'
    BY <1>1, <1>2, <1>3, <2>1, <2>4 DEF Encoded, Begun, outside, encodings
  <2>6. Collected(r)'
    BY <1>1, <1>2, <2>1, <2>2 DEF Collected, encodings
  <2>7. Steady
    BY <1>2, <2>1 DEF Steady, encodings
  <2> QED BY <1>2, <1>3, <2>5, <2>6, <2>7, LaunchHonest
<1>10. CASE WriteSummary(r)
  <2>1. /\ pc[r] = "packed" /\ pc'[r] = "done" /\ artifact' = artifact /\ UNCHANGED <<row, proc>>
        /\ summary' = [rows |-> row[r], lengths |-> [b \in Blocks |-> Length(row[r][b].bin)],
                       artifact |-> artifact]
    BY <1>1, <1>10 DEF WriteSummary, Goto
  <2>2. artifact = Whole
    BY <1>1, <2>1 DEF Launched, Encoded
  <2>3. \A b \in Blocks : row[r][b] = OwnRow(r, b)
    <3> SUFFICES ASSUME NEW b \in Blocks PROVE row[r][b] = OwnRow(r, b)
      OBVIOUS
    <3>1. row[r][b] # None /\ row[r][b].bin # None /\ row[r][b] \in Rows
      BY <1>1, <2>1 DEF Launched, OrNone
    <3>2. row[r][b].meta = Metadata(Own(b), r) /\ row[r][b].bin = Own(b)
      BY <1>1, <3>1 DEF Collected
    <3>3. row[r][b] = [meta |-> row[r][b].meta, bin |-> row[r][b].bin]
      BY <3>1 DEF Rows
    <3> QED BY <3>2, <3>3 DEF OwnRow
  <2>4. row[r] = [b \in Blocks |-> OwnRow(r, b)]
    BY <1>1, <2>3
  <2>5. [b \in Blocks |-> Length(row[r][b].bin)] = Lengths(Whole)
    <3>1. \A b \in Blocks : row[r][b].bin = Own(b)
      <4>1. \A b \in Blocks : OwnRow(r, b).bin = Own(b)
        BY DEF OwnRow
      <4> QED BY <2>3, <4>1
    <3>2. \A b \in Blocks : Whole.payload[b] = Own(b)
      BY DEF Whole, Container
    <3>3. \A b \in Blocks : Length(row[r][b].bin) = Length(Whole.payload[b])
      BY <3>1, <3>2
    <3> QED BY <3>3 DEF Lengths
  <2>6. summary' = SummaryBy(r)
    BY <2>1, <2>2, <2>4, <2>5 DEF SummaryBy
  <2>7. \A b \in Blocks : meta[b] = Metadata(Own(b), r)
    BY <1>1, <2>1, TheOne DEF Encoded, Collected
  <2>8. Steady
    <3>1. ASSUME summary # None PROVE summary = SummaryBy(r)
      BY <1>1, <2>1, <3>1, TheOne DEF Encoded
    <3> QED BY <1>2, <2>6, <3>1 DEF Steady, encodings
  <2>9. Encoded'
    BY <1>1, <1>2, <1>3, <2>1, <2>6, <2>7 DEF Encoded, Begun, outside, encodings
  <2>10. Collected(r)'
    BY <1>1, <1>2, <2>1 DEF Collected
  <2> QED BY <1>2, <1>3, <2>8, <2>9, <2>10, LaunchHonest
<1> QED BY <1>5, <1>6, <1>7, <1>8, <1>9, <1>10 DEF Launch

LEMMA EncoderStepHonest ==
  ASSUME Inv, Honest, Alone, NEW r \in Launches, Encoder(r)
  PROVE  Honest'
<1> USE DEF running
<1>1. /\ Encoded /\ Collected(r) /\ Stored /\ Launched(r)
      /\ proc \in [Launches -> OrNone(Procs)] /\ proc[r] # None /\ proc[r] \in Procs
      /\ proc[r].block \in Blocks
  <2>1. proc[r] # None
    BY DEF Encoder, EncoderWritesMeta, EncoderWritesBin, EncoderFails, EncoderAt
  <2> QED BY <2>1 DEF Inv, Held, Honest, Progress, OrNone, Procs
<1>2. /\ UNCHANGED <<outside, staging, asset, artifact, summary, judged, view, pc, row>>
      /\ \A s \in Launches \ {r} : UNCHANGED <<row[s], proc[s]>>
  BY <1>1 DEF Encoder, EncoderWritesMeta, EncoderWritesBin, EncoderFails, inputs, results
<1>3. pc[r] # "start" /\ Begun
  BY <1>1, <1>2 DEF Collected, Begun
<1>4. CASE EncoderWritesMeta(r)
  <2> DEFINE b == proc[r].block
  <2>1. Payload(b, staging[b], encoder) = Own(b)
    BY <1>1 DEF Encoded, Own
  <2>2. /\ meta' = [meta EXCEPT ![b] = Metadata(Own(b), r)] /\ UNCHANGED bin
        /\ proc'[r].out = Own(b) /\ proc'[r].block = b
    <3>1. proc' = [proc EXCEPT ![r] = [proc[r] EXCEPT !.at = "half", !.out = Own(b)]]
      BY <1>1, <1>4, <2>1 DEF EncoderWritesMeta
    <3>2. proc'[r] = [proc[r] EXCEPT !.at = "half", !.out = Own(b)]
      BY <1>1, <3>1
    <3> QED BY <1>1, <1>4, <2>1, <3>2 DEF EncoderWritesMeta, Procs
  <2>3. meta'[b] = Metadata(Own(b), r) /\ \A c \in Blocks \ {b} : meta'[c] = meta[c]
    BY <1>1, <2>2 DEF Stored
  <2>4. meta'[b] # None
    <3>1. Metadata(Own(b), r) \in Metadatas
      BY <1>1 DEF Own, Metadata, Payload, Metadatas, Payloads, Contents
    <3> QED BY <2>3, <3>1, NoneAssumption
  <2>5. \A c \in Blocks : meta[c] # None => meta'[c] # None
    BY <2>3, <2>4
  <2>6. summary # None => meta' = meta
    <3>1. ASSUME summary # None PROVE meta[b] = Metadata(Own(b), r)
      BY <1>1, <1>3, <3>1, TheOne DEF Encoded
    <3> QED BY <1>1, <2>2, <3>1 DEF Stored
  <2>7. Steady
    BY <1>2, <2>6 DEF Steady
  <2>8. \A c \in Blocks : meta'[c] # None =>
          \E s \in Launches : pc[s] # "start" /\ meta'[c] = Metadata(Own(c), s)
    BY <1>1, <1>3, <2>3 DEF Encoded
  <2>9. Encoded'
    BY <1>1, <1>2, <2>2, <2>6, <2>8 DEF Encoded, outside
  <2>10. Collected(r)'
    BY <1>1, <1>2, <1>3, <2>2, <2>5 DEF Collected
  <2> QED BY <1>2, <2>5, <2>7, <2>9, <2>10, LaunchHonest
<1>5. CASE EncoderWritesBin(r) \/ EncoderFails(r)
  <2> DEFINE b == proc[r].block
  <2>1. /\ UNCHANGED meta
        /\ bin' = bin \/ (proc[r].at = "half" /\ bin' = [bin EXCEPT ![b] = proc[r].out])
        /\ \/ proc'[r].at = "dead"
           \/ proc[r].at = "half" /\ proc'[r].out = proc[r].out /\ proc'[r].block = b
    <3>1. CASE EncoderWritesBin(r)
      <4>1. proc' = [proc EXCEPT ![r] = [proc[r] EXCEPT !.at = "exited"]]
        BY <1>1, <3>1 DEF EncoderWritesBin
      <4>2. proc'[r] = [proc[r] EXCEPT !.at = "exited"]
        BY <1>1, <4>1
      <4> QED BY <1>1, <3>1, <4>2 DEF EncoderWritesBin, EncoderAt, Procs
    <3>2. CASE EncoderFails(r)
      <4>1. proc' = [proc EXCEPT ![r] = [proc[r] EXCEPT !.at = "dead"]]
        BY <1>1, <3>2 DEF EncoderFails
      <4>2. proc'[r] = [proc[r] EXCEPT !.at = "dead"]
        BY <1>1, <4>1
      <4> QED BY <1>1, <3>2, <4>2 DEF EncoderFails, Procs, encodings
    <3> QED BY <1>5, <3>1, <3>2
  <2>2. proc[r].at = "half" => proc[r].out = Own(b)
    BY <1>1 DEF Collected
  <2>3. \A c \in Blocks : bin'[c] # None => bin'[c] = Own(c)
    BY <1>1, <2>1, <2>2 DEF Encoded, Stored
  <2>4. Encoded'
    BY <1>1, <1>2, <2>1, <2>3 DEF Encoded, outside
  <2>5. Collected(r)'
    BY <1>1, <1>2, <1>3, <2>1, <2>2 DEF Collected
  <2>6. Steady
    BY <1>2, <2>1 DEF Steady
  <2> QED BY <1>2, <2>1, <2>4, <2>5, <2>6, LaunchHonest
<1> QED BY <1>4, <1>5 DEF Encoder

LEMMA KillHonest ==
  ASSUME Inv, Honest, NEW r \in Launches, Kill(r)
  PROVE  Honest'
<1> USE DEF running
<1>1. /\ UNCHANGED <<outside, inputs, encodings, results, judged, running, view>>
      /\ pc'[r] = "killed" /\ pc[r] # "start"
      /\ \A y \in Processes \ {r} : pc'[y] = pc[y]
  BY DEF Kill, Inv, Held, Processes
<1>2. Begun
  BY <1>1 DEF Begun, Processes
<1>3. Encoded'
  BY <1>1, <1>2, EncodedStill DEF Honest, inputs, results
<1>4. Collected(r)'
  BY <1>1 DEF Honest, Collected
<1> QED BY <1>1, <1>3, <1>4, LaunchHonest DEF Steady, encodings, results

-----------------------------------------------------------------------------
(* Auditors                                                                *)

LEMMA AuditorStepHonest ==
  ASSUME Inv, Honest, NEW a \in Auditors, Auditor(a)
  PROVE  Honest'
<1> USE DEF running
<1>1. /\ Encoded /\ Decoded(a) /\ Audited(a) /\ Stored
      /\ pc \in [Processes -> Steps] /\ a \in Processes
      /\ view \in [Auditors \cup Publishers -> OrNone(AuditorViews \cup PublisherViews)]
      /\ audit \in [Auditors -> OrNone(Audits)]
  BY DEF Inv, Held, Honest, Progress, Processes
<1>2. /\ UNCHANGED <<outside, inputs, encodings, results, release, running>>
      /\ \A y \in Processes \ {a} : pc'[y] = pc[y]
      /\ \A y \in (Auditors \cup Publishers) \ {a} : view'[y] = view[y]
      /\ \A c \in Auditors \ {a} : audit'[c] = audit[c]
  BY <1>1 DEF Auditor, Parse, DecodeBlock, Report, Goto, judged
<1>3. a \notin Launches /\ a \notin Publishers
  BY LocalAssumption
<1>4. Encoded'
  <2>1. Begun
    BY <1>2, <1>3 DEF Begun, Processes
  <2> QED BY <1>1, <1>2, <2>1, EncodedStill DEF inputs, results
<1>5. ASSUME NEW r \in Launches PROVE Collected(r)'
  BY <1>2, <1>3, CollectedStill DEF Honest, Processes, encodings
<1>6. ASSUME NEW p \in Publishers PROVE Copies(p)'
  <2>1. Steady
    BY <1>2 DEF Steady, encodings, results
  <2> QED BY <1>2, <1>3, <2>1, CopiesStill DEF Honest, Processes, Inv, Progress
<1>7. Complete'
  BY <1>2, CompleteStill DEF Honest
<1>8. Decoded(a)'
  <2>1. artifact # None => artifact = Whole /\ \A b \in Blocks : artifact.payload[b] = Own(b)
    BY <1>1 DEF Encoded, Whole, Container
  <2>2. CASE Parse(a)
    <3>1. audit' = audit
      BY <2>2 DEF Parse, judged
    <3>2. CASE Goto(a, "start", "failed")
      <4>1. pc'[a] # "decoding"
        BY <1>1, <3>2 DEF Goto
      <4> QED BY <1>1, <3>1, <4>1 DEF Decoded
    <3>3. CASE view' = [view EXCEPT ![a] = [lengths |-> Lengths(artifact),
                                            decoded |-> [b \in Blocks |-> None]]]
      <4>1. view'[a] = [lengths |-> Lengths(artifact), decoded |-> [b \in Blocks |-> None]]
        BY <1>1, <3>3
      <4>2. \A b \in Blocks : view'[a].decoded[b] = None
        BY <4>1
      <4> QED BY <1>1, <3>1, <4>2 DEF Decoded
    <3> QED BY <2>2, <3>2, <3>3 DEF Parse
  <2>3. ASSUME NEW b \in Blocks, DecodeBlock(a, b) PROVE Decoded(a)'
    <3>1. audit' = audit /\ pc[a] = "decoding"
      BY <2>3 DEF DecodeBlock, judged
    <3>2. artifact # None /\ view[a] \in AuditorViews
      BY <1>1, <3>1 DEF Audited
    <3>3. CASE view' = view /\ pc' = [pc EXCEPT ![a] = "failed"]
      BY <1>1, <3>1, <3>3 DEF Decoded
    <3>4. CASE view' = [view EXCEPT ![a].decoded[b] = artifact.payload[b]]
      <4> DEFINE decoded == [view[a].decoded EXCEPT ![b] = artifact.payload[b]]
      <4>1. view' = [view EXCEPT ![a] = [view[a] EXCEPT !.decoded = decoded]]
        BY <1>1, <3>4
      <4>2. view'[a] = [view[a] EXCEPT !.decoded = decoded]
        BY <1>1, <4>1
      <4>3. view'[a].decoded = decoded
        BY <3>2, <4>2 DEF AuditorViews
      <4>4. \A c \in Blocks : decoded[c] \in {None, Own(c)}
        BY <1>1, <2>1, <3>1, <3>2 DEF Decoded, AuditorViews
      <4> QED BY <1>1, <3>1, <4>3, <4>4 DEF Decoded
    <3> QED BY <2>3, <3>3, <3>4 DEF DecodeBlock
  <2>4. CASE Report(a)
    <3>1. pc[a] = "decoding" /\ view' = view
      BY <2>4 DEF Report
    <3>2. artifact # None /\ view[a] \in AuditorViews
      BY <1>1, <3>1 DEF Audited
    <3>3. pc'[a] # "decoding"
      BY <1>1, <2>4 DEF Report, Goto
    <3>4. view[a].decoded = Whole.payload
      <4>1. \A b \in Blocks : view[a].decoded[b] = Own(b)
        BY <1>1, <2>4, <3>1 DEF Report, Decoded
      <4>2. Whole.payload = [b \in Blocks |-> Own(b)]
        BY DEF Whole, Container
      <4> QED BY <3>2, <4>1, <4>2 DEF AuditorViews
    <3>5. CASE audit' = audit
      BY <1>1, <3>3, <3>5 DEF Decoded
    <3>6. ASSUME NEW passed \in BOOLEAN,
                 audit' = [audit EXCEPT ![a] = [decoded |-> view[a].decoded,
                                                container |-> artifact, passed |-> passed]]
          PROVE  Decoded(a)'
      <4>1. audit'[a] = [decoded |-> view[a].decoded, container |-> artifact, passed |-> passed]
        BY <1>1, <3>6
      <4>2. audit'[a].decoded = Whole.payload /\ audit'[a].container = Whole
        BY <2>1, <3>2, <3>4, <4>1
      <4> QED BY <3>3, <4>2 DEF Decoded
    <3> QED BY <2>4, <3>5, <3>6 DEF Report
  <2> QED BY <2>2, <2>3, <2>4 DEF Auditor
<1>9. ASSUME NEW c \in Auditors PROVE Decoded(c)'
  <2>1. CASE c # a
    BY <1>2, <2>1, DecodedStill DEF Honest, Processes
  <2> QED BY <1>8, <2>1
<1> QED BY <1>4, <1>5, <1>6, <1>7, <1>9 DEF Honest

-----------------------------------------------------------------------------
(* Publishers                                                              *)

\* While one publisher fills its directory, no other is at it.
LEMMA PublisherHonest ==
  ASSUME Inv, Honest, NEW p \in Publishers,
         UNCHANGED <<outside, inputs, encodings, results, audit, running>>,
         \A y \in Processes \ {p} : pc'[y] = pc[y],
         \A y \in (Auditors \cup Publishers) \ {p} : view'[y] = view[y],
         \/ UNCHANGED release
         \/ release = None
         \/ pc[p] \in {"checking"} \cup Copying,
         Copies(p)', Complete'
  PROVE  Honest'
<1> USE DEF running
<1>1. p \notin Launches /\ p \notin Auditors
  BY LocalAssumption
<1>2. Encoded'
  <2>1. Begun
    BY <1>1 DEF Begun, Processes
  <2> QED BY <2>1, EncodedStill DEF Honest, inputs, results
<1>3. ASSUME NEW r \in Launches PROVE Collected(r)'
  BY <1>1, CollectedStill DEF Honest, Processes, encodings
<1>4. ASSUME NEW a \in Auditors PROVE Decoded(a)'
  BY <1>1, DecodedStill DEF Honest, Processes
<1>5. ASSUME NEW q \in Publishers PROVE Copies(q)'
  <2>1. CASE q # p
    <3>1. Steady
      BY DEF Steady, encodings, results
    <3>2. UNCHANGED release \/ pc[q] \notin {"checking", "verifying"} \cup Copying
      <4>1. Publishing(p) /\ Publishing(q) /\ Copies(q)
        BY DEF Inv, Progress, Honest
      <4> QED BY <2>1, <4>1 DEF Publishing, Copies
    <3> QED BY <2>1, <3>1, <3>2, CopiesStill DEF Honest, Processes, Inv, Progress
  <2> QED BY <2>1
<1> QED BY <1>2, <1>3, <1>4, <1>5 DEF Honest

\* The copy of one more file.
LEMMA CopyHonest ==
  ASSUME Inv, Honest, NEW p \in Publishers, NEW from \in Copying, NEW to \in Copying,
         Goto(p, from, to),
         NEW new, release' = [release EXCEPT !.files = new],
         view' = [view EXCEPT ![p].copied = new],
         UNCHANGED <<outside, inputs, encodings, results, audit, running>>,
         to \in Copying \ {"documents"} => new.summary = summary,
         to \in {"metadata", "manifest"} =>
           /\ new.artifact = Whole /\ new.asset = Original /\ new.audit = view[p].audit,
         to = "manifest" => new.metas = meta
  PROVE  Honest'
<1> USE DEF running
<1>1. /\ Publishing(p) /\ Copies(p) /\ pc[p] \in Copying
      /\ pc \in [Processes -> Steps] /\ p \in Processes
      /\ view \in [Auditors \cup Publishers -> OrNone(AuditorViews \cup PublisherViews)]
  BY DEF Inv, Held, Honest, Progress, Processes, Goto
<1>2. /\ release \in Releases /\ release.manifest = None
      /\ view[p] \in PublisherViews
  BY <1>1 DEF Publishing, Inv, Released, OrNone
<1>3. /\ pc'[p] = to /\ \A y \in Processes \ {p} : pc'[y] = pc[y]
      /\ \A y \in (Auditors \cup Publishers) \ {p} : view'[y] = view[y]
  BY <1>1 DEF Goto
<1>4. /\ release'.files = new /\ release'.manifest = None
  BY <1>2 DEF Releases
<1>5. view'[p] = [view[p] EXCEPT !.copied = new]
  BY <1>1
<1>6. view'[p].container = view[p].container /\ view'[p].audit = view[p].audit /\ view'[p].copied = new
  BY <1>2, <1>5 DEF PublisherViews
<1>7. Copies(p)'
  BY <1>1, <1>3, <1>4, <1>6 DEF Copies, Copying, encodings, results
<1>8. Complete'
  BY <1>4 DEF Complete
<1> QED BY <1>1, <1>3, <1>7, <1>8, PublisherHonest

\* A publisher's files are what the verifier asks for.
LEMMA Sound ==
  ASSUME Inv, Honest, Alone, NEW p \in Publishers, pc[p] = "manifest", NEW rel,
         rel # None, rel.files = release.files,
         rel.manifest = [files |-> view[p].copied, container |-> view[p].container]
  PROVE  Accepted(rel)
<1>1. Publishing(p) /\ Copies(p) /\ Encoded /\ pc[p] \in Copying
  BY DEF Inv, Progress, Honest, Copying
<1>2. rel.manifest # None
  <2>1. release.files \in ReleaseFiles /\ view[p] \in PublisherViews
    BY <1>1 DEF Publishing, Inv, Released, OrNone, Releases
  <2>2. rel.manifest \in Manifests
    BY <2>1 DEF PublisherViews, Manifests
  <2> QED BY <2>2, NoneAssumption
<1>3. /\ rel.manifest.files = rel.files /\ rel.manifest.container = Whole
      /\ rel.files.summary = summary /\ summary # None
      /\ rel.files.artifact = Whole /\ rel.files.asset = Original
      /\ rel.files.audit = view[p].audit /\ rel.files.metas = meta
  BY <1>1 DEF Copies, Copying, Publishing
<1>4. PICK r \in Launches : /\ summary = SummaryBy(r)
                            /\ \A b \in Blocks : meta[b] = Metadata(Own(b), r)
  BY <1>1, <1>3 DEF Encoded
<1>5. \A b \in Blocks : /\ Whole.payload[b] = Own(b) /\ Own(b).staged = Original
                        /\ summary.rows[b].meta = Metadata(Own(b), r)
                        /\ summary.rows[b].bin = Own(b)
                        /\ Metadata(Own(b), r).payload = Own(b)
  BY <1>4 DEF Whole, Container, Own, Payload, SummaryBy, OwnRow, Metadata
<1>6. MetadataHold(rel)
  BY <1>3, <1>4, <1>5 DEF MetadataHold
<1>7. SummaryHolds(rel)
  BY <1>3, <1>4 DEF SummaryHolds, SummaryBy
<1>8. AssetsHold(rel)
  BY <1>3 DEF AssetsHold, Whole, Container
<1>9. AuditHolds(rel)
  <2>1. PICK a \in Auditors : audit[a] = view[p].audit
    BY <1>1 DEF Publishing
  <2>2. audit[a] # None
    <3>1. view[p].audit \in Audits
      BY <1>1 DEF Publishing, PublisherViews
    <3> QED BY <2>1, <3>1, NoneAssumption
  <2>3. view[p].audit.decoded = Whole.payload /\ view[p].audit.container = Whole
    BY <2>1, <2>2 DEF Honest, Decoded
  <2>4. view[p].audit.passed
    BY <1>1 DEF Copies
  <2> QED BY <1>3, <2>3, <2>4 DEF AuditHolds
<1> QED BY <1>2, <1>3, <1>6, <1>7, <1>8, <1>9 DEF Accepted, ManifestHolds

LEMMA PublisherStepHonest ==
  ASSUME Inv, Honest, Alone, NEW p \in Publishers, Publisher(p)
  PROVE  Honest'
<1> USE DEF running
<1>1. /\ Encoded /\ Copies(p) /\ Publishing(p) /\ Stored /\ Complete
      /\ pc \in [Processes -> Steps] /\ p \in Processes
      /\ view \in [Auditors \cup Publishers -> OrNone(AuditorViews \cup PublisherViews)]
  BY DEF Inv, Held, Honest, Progress, Processes
<1>2. /\ UNCHANGED <<outside, inputs, encodings, results, audit, running>>
      /\ \A y \in Processes \ {p} : pc'[y] = pc[y]
      /\ \A y \in (Auditors \cup Publishers) \ {p} : view'[y] = view[y]
  BY <1>1 DEF Publisher, FindNoRelease, MakeRelease, CheckRun, CopyDocuments, CopyContainer,
     CopyMetadata, Copy, WriteManifest, VerifyRelease, Goto, judged
<1>3. CASE FindNoRelease(p)
  <2>1. release' = release /\ pc'[p] \in {"claiming", "refused"}
    BY <1>1, <1>3 DEF FindNoRelease, Goto, judged
  <2>2. Copies(p)'
    BY <2>1 DEF Copies, Copying
  <2>3. Complete'
    BY <1>1, <2>1, CompleteStill
  <2> QED BY <1>2, <2>1, <2>2, <2>3, PublisherHonest
<1>4. CASE MakeRelease(p)
  <2>1. CASE release = None
    <3>1. pc'[p] = "checking" /\ release' = EmptyRelease(p)
      BY <1>1, <1>4, <2>1 DEF MakeRelease, Goto
    <3>2. release'.files = NoFiles /\ release'.manifest = None
      BY <3>1 DEF EmptyRelease
    <3>3. Copies(p)'
      BY <3>1, <3>2 DEF Copies, Copying
    <3>4. Complete'
      BY <3>2 DEF Complete
    <3> QED BY <1>2, <2>1, <3>3, <3>4, PublisherHonest
  <2>2. CASE release # None
    <3>1. pc'[p] = "refused" /\ release' = release
      BY <1>1, <1>4, <2>2 DEF MakeRelease, Goto
    <3>2. Copies(p)'
      BY <3>1 DEF Copies, Copying
    <3>3. Complete'
      BY <1>1, <3>1, CompleteStill
    <3> QED BY <1>2, <3>1, <3>2, <3>3, PublisherHonest
  <2> QED BY <2>1, <2>2
<1>5. CASE CheckRun(p)
  <2>1. release' = release /\ pc[p] = "checking"
    BY <1>5 DEF CheckRun, Goto, judged
  <2>2. Complete'
    BY <1>1, <2>1, CompleteStill
  <2>3. ASSUME NEW a \in Auditors, Fit(a), Goto(p, "checking", "documents"),
               view' = [view EXCEPT ![p] = [container |-> summary.artifact,
                                            audit |-> audit[a], copied |-> NoFiles]]
        PROVE  Copies(p)'
    <3>1. pc'[p] = "documents"
      BY <1>1, <2>3 DEF Goto
    <3>2. view'[p] = [container |-> summary.artifact, audit |-> audit[a], copied |-> NoFiles]
      BY <1>1, <2>3
    <3>3. summary.artifact = Whole
      BY <1>1, <2>3 DEF Fit, Encoded, SummaryBy
    <3>4. view'[p].container = Whole /\ view'[p].audit.passed /\ view'[p].copied = NoFiles
      BY <2>3, <3>2, <3>3 DEF Fit
    <3>5. release'.files = NoFiles
      BY <1>1, <2>1 DEF Copies
    <3> QED BY <3>1, <3>4, <3>5 DEF Copies, Copying
  <2>4. ASSUME Goto(p, "checking", "failed") PROVE Copies(p)'
    <3>1. pc'[p] \notin {"checking", "verifying", "rejected"} \cup Copying
      BY <1>1, <2>4 DEF Goto, Copying
    <3> QED BY <3>1 DEF Copies, Copying
  <2>5. Copies(p)'
    <3>1. PICK a \in Auditors :
            \/ /\ Fit(a)
               /\ Goto(p, "checking", "documents")
               /\ view' = [view EXCEPT ![p] = [container |-> summary.artifact,
                                               audit |-> audit[a], copied |-> NoFiles]]
            \/ Goto(p, "checking", "failed")
      BY <1>5 DEF CheckRun
    <3> QED BY <2>3, <2>4, <3>1
  <2> QED BY <1>2, <2>1, <2>2, <2>5, PublisherHonest
<1>6. pc[p] \in Copying =>
        /\ view[p].copied = release.files
        /\ release.files \in ReleaseFiles /\ view[p] \in PublisherViews /\ summary # None
        /\ artifact # None
  BY <1>1 DEF Copies, Publishing, Inv, Released, Releases, OrNone, Stored
<1>7. CASE CopyDocuments(p)
  <2> DEFINE new == [release.files EXCEPT !.summary = summary]
  <2>1. Goto(p, "documents", "container") /\ pc[p] = "documents" /\ pc[p] \in Copying
    BY <1>7 DEF CopyDocuments, Goto, Copying
  <2>2. release' = [release EXCEPT !.files = new] /\ view' = [view EXCEPT ![p].copied = new]
    BY <1>6, <1>7, <2>1 DEF CopyDocuments, Copy
  <2>3. new.summary = summary
    BY <1>6, <2>1 DEF ReleaseFiles
  <2> HIDE DEF new
  <2> QED BY <1>2, <2>1, <2>2, <2>3, CopyHonest DEF Copying
<1>8. CASE CopyContainer(p)
  <2> DEFINE new == [release.files EXCEPT !.artifact = artifact, !.audit = view[p].audit,
                                          !.asset = asset]
  <2>1. Goto(p, "container", "metadata") /\ pc[p] = "container" /\ pc[p] \in Copying
    BY <1>8 DEF CopyContainer, Goto, Copying
  <2>2. release' = [release EXCEPT !.files = new] /\ view' = [view EXCEPT ![p].copied = new]
    BY <1>6, <1>8, <2>1 DEF CopyContainer, Copy
  <2>3. /\ new.summary = release.files.summary /\ new.artifact = artifact
        /\ new.audit = view[p].audit /\ new.asset = asset
    BY <1>6, <2>1 DEF ReleaseFiles
  <2>4. new.summary = summary /\ new.artifact = Whole /\ new.asset = Original
    BY <1>1, <1>6, <2>1, <2>3 DEF Copies, Copying, Encoded
  <2> HIDE DEF new
  <2> QED BY <1>2, <2>1, <2>2, <2>3, <2>4, CopyHonest DEF Copying
<1>9. CASE CopyMetadata(p)
  <2> DEFINE new == [release.files EXCEPT !.metas = meta]
  <2>1. Goto(p, "metadata", "manifest") /\ pc[p] = "metadata" /\ pc[p] \in Copying
    BY <1>9 DEF CopyMetadata, Goto, Copying
  <2>2. release' = [release EXCEPT !.files = new] /\ view' = [view EXCEPT ![p].copied = new]
    BY <1>6, <1>9, <2>1 DEF CopyMetadata, Copy
  <2>3. /\ new.summary = release.files.summary /\ new.artifact = release.files.artifact
        /\ new.audit = release.files.audit /\ new.asset = release.files.asset
        /\ new.metas = meta
    BY <1>6, <2>1 DEF ReleaseFiles
  <2>4. /\ new.summary = summary /\ new.artifact = Whole /\ new.asset = Original
        /\ new.audit = view[p].audit
    BY <1>1, <2>1, <2>3 DEF Copies, Copying
  <2> HIDE DEF new
  <2> QED BY <1>2, <2>1, <2>2, <2>3, <2>4, CopyHonest DEF Copying
<1>10. CASE WriteManifest(p)
  <2> DEFINE manifest == [files |-> view[p].copied, container |-> view[p].container]
  <2>1. pc[p] = "manifest" /\ pc'[p] = "verifying" /\ pc[p] \in Copying
    BY <1>1, <1>10 DEF WriteManifest, Goto, Copying
  <2>2. release \in Releases
    BY <1>1, <2>1 DEF Publishing, Inv, Released, OrNone
  <2>3. release' = [release EXCEPT !.manifest = manifest]
    BY <1>10 DEF WriteManifest
  <2> HIDE DEF manifest
  <2>4. release'.files = release.files /\ release'.manifest = manifest
    BY <2>2, <2>3 DEF Releases
  <2>5. manifest \in Manifests /\ manifest # None
    BY <1>6, <2>1, NoneAssumption DEF PublisherViews, Manifests, manifest
  <2>6. release' \in Releases /\ release' # None
    BY <2>2, <2>3, <2>5, NoneAssumption DEF Releases, OrNone
  <2>7. Accepted(release')
    BY <2>1, <2>4, <2>6, Sound DEF manifest
  <2>8. Complete'
    BY <2>7 DEF Complete
  <2>9. Copies(p)'
    BY <2>1, <2>4, <2>5, <2>6 DEF Copies, Copying
  <2> QED BY <1>2, <2>1, <2>8, <2>9, PublisherHonest
<1>11. CASE VerifyRelease(p)
  <2>1. release' = release /\ pc[p] = "verifying"
    BY <1>11 DEF VerifyRelease, Goto, judged
  <2>2. Accepted(release)
    BY <1>1, <2>1 DEF Copies, Complete
  <2>3. pc'[p] = "published"
    BY <1>1, <1>11, <2>2 DEF VerifyRelease, Goto
  <2>4. Copies(p)'
    BY <2>3 DEF Copies, Copying
  <2>5. Complete'
    BY <1>1, <2>1, CompleteStill
  <2> QED BY <1>2, <2>1, <2>4, <2>5, PublisherHonest
<1> QED BY <1>3, <1>4, <1>5, <1>7, <1>8, <1>9, <1>10, <1>11 DEF Publisher

-----------------------------------------------------------------------------
(* Every step                                                              *)

\* Who is alone was alone before.
LEMMA AloneBefore ==
  ASSUME Inv, [Next]_vars, Alone'
  PROVE  Alone /\ drifts' = drifts
<1>1. drifts' = drifts
  <2>1. CASE Drift
    BY <2>1 DEF Drift, Alone, Inv, Stored
  <2>2. ASSUME NEW s \in Launches, Launch(s) \/ Encoder(s) \/ Kill(s) PROVE drifts' = drifts
    BY <2>2 DEF Launch, VerifyPlan, FindAbsent, StartEncoder, ReadMetadata, HashOutputs, Pack,
       Overflow, PackFails, WriteSummary, Encoder, EncoderWritesMeta, EncoderWritesBin,
       EncoderFails, Kill, outside
  <2>3. ASSUME NEW a \in Auditors, Auditor(a) PROVE drifts' = drifts
    BY <2>3 DEF Auditor, Parse, DecodeBlock, Report, outside
  <2>4. ASSUME NEW p \in Publishers, Publisher(p) PROVE drifts' = drifts
    BY <2>4 DEF Publisher, FindNoRelease, MakeRelease, CheckRun, CopyDocuments, CopyContainer,
       CopyMetadata, Copy, WriteManifest, VerifyRelease, outside
  <2>5. CASE BuildPlan \/ UNCHANGED vars
    BY <2>5 DEF BuildPlan, vars, outside
  <2> QED BY <2>1, <2>2, <2>3, <2>4, <2>5 DEF Next
<1>2. ASSUME NEW r \in Launches, pc'[r] = "start" PROVE pc[r] = "start"
  <2>1. pc \in [Processes -> Steps] /\ r \in Processes
    BY DEF Inv, Held, Processes
  <2>2. ASSUME NEW s \in Launches, Launch(s) PROVE pc[r] = "start"
    BY <1>2, <2>1, <2>2 DEF Launch, VerifyPlan, FindAbsent, StartEncoder, ReadMetadata, HashOutputs,
       Pack, Overflow, PackFails, WriteSummary, Goto
  <2>3. ASSUME NEW s \in Launches, Encoder(s) \/ Kill(s) PROVE pc[r] = "start"
    BY <1>2, <2>1, <2>3 DEF Encoder, EncoderWritesMeta, EncoderWritesBin, EncoderFails, Kill
  <2>4. ASSUME NEW a \in Auditors, Auditor(a) PROVE pc[r] = "start"
    BY <1>2, <2>1, <2>4 DEF Auditor, Parse, DecodeBlock, Report, Goto
  <2>5. ASSUME NEW p \in Publishers, Publisher(p) PROVE pc[r] = "start"
    BY <1>2, <2>1, <2>5 DEF Publisher, FindNoRelease, MakeRelease, CheckRun, CopyDocuments,
       CopyContainer, CopyMetadata, Copy, WriteManifest, VerifyRelease, Goto
  <2>6. CASE BuildPlan \/ Drift \/ UNCHANGED vars
    BY <1>2, <2>6 DEF BuildPlan, Drift, vars
  <2> QED BY <2>2, <2>3, <2>4, <2>5, <2>6 DEF Next
<1> QED BY <1>1, <1>2 DEF Alone

LEMMA HonestNext == Inv /\ (Alone => Honest) /\ [Next]_vars => (Alone => Honest)'
<1> SUFFICES ASSUME Inv, Alone => Honest, [Next]_vars, Alone' PROVE Honest'
  OBVIOUS
<1>1. Alone /\ Honest /\ drifts' = drifts
  BY AloneBefore
<1>2. CASE BuildPlan \/ UNCHANGED vars
  <2>1. /\ UNCHANGED <<outside, staging, asset, encodings, results, judged, pc, running, view>>
    BY <1>2 DEF BuildPlan, vars, inputs
  <2>2. Encoded'
    BY <1>1, <2>1, EncodedStill DEF Honest, Begun, results
  <2>3. ASSUME NEW r \in Launches PROVE Collected(r)'
    BY <1>1, <2>1, CollectedStill DEF Honest, encodings, running
  <2>4. ASSUME NEW a \in Auditors PROVE Decoded(a)'
    BY <1>1, <2>1, DecodedStill DEF Honest, judged
  <2>5. ASSUME NEW p \in Publishers PROVE Copies(p)'
    BY <1>1, <2>1, CopiesStill DEF Honest, Inv, Progress, Steady, encodings, results, judged
  <2>6. Complete'
    BY <1>1, <2>1, CompleteStill DEF Honest, judged
  <2> QED BY <2>2, <2>3, <2>4, <2>5, <2>6 DEF Honest
<1>3. ~Drift
  BY <1>1 DEF Drift, Inv, Stored
<1> QED
  BY <1>1, <1>2, <1>3, LaunchStepHonest, EncoderStepHonest, KillHonest, AuditorStepHonest,
     PublisherStepHonest DEF Next

\* What one launch made of an unedited plan, and nobody edited, the verifier
\* accepts, for every number of blocks, auditors and publishers: no order of their
\* reads and copies makes it refuse.
THEOREM HonestPublished == Spec => []HonestAccepted
<1>1. Inv /\ (Alone => Honest) => HonestAccepted
  <2> SUFFICES ASSUME Inv, Alone => Honest, NEW p \in Publishers, pc[p] = "rejected"
               PROVE  drifts > 0 \/ \E r, s \in Launches : r # s /\ "start" \notin {pc[r], pc[s]}
    BY DEF HonestAccepted
  <2>1. ~Honest
    BY DEF Honest, Copies
  <2>2. drifts > 0 \/ drifts = 0
    BY LocalAssumption DEF Inv, Stored
  <2> QED BY <2>1, <2>2 DEF Alone
<1>2. Init => (Alone => Honest)
  BY HonestInit
<1> QED BY <1>1, <1>2, HonestNext, InvAlways, PTL DEF Spec

=============================================================================
