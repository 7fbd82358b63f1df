--------------------------- MODULE PanelRunProofs ---------------------------
(***************************************************************************)
(* Proofs about PanelRun, for every number of launches, blocks, workers    *)
(* and edits.                                                              *)
(***************************************************************************)
EXTENDS PanelRun, TLAPS

Tasks == {"idle", "to encode", "to decode"} \cup Busy \cup Finished
Procs == [kind : Busy, at : {"running", "half", "exited", "dead"}, out : OrNone(Encodings)]

-----------------------------------------------------------------------------
(* What is on disk, and what the processes hold, is of the right kind      *)

\* A container is there once its encoder has returned, and a decoder is only
\* started for one that is there; an encoder that is half done holds one.
Encoded(r, b) ==
  /\ task[r][b] \in {"to decode", "decode", "done"} => bin[b] # None
  /\ task[r][b] \in Busy => proc[r][b] \in Procs /\ proc[r][b].kind = task[r][b]
  /\ task[r][b] = "encode" /\ proc[r][b].at = "exited" => bin[b] # None
  /\ proc[r][b] # None /\ proc[r][b].at = "half" => proc[r][b].out \in Encodings

\* Where a launch is tells what it has read, and what it finds.
Ready(r) ==
  /\ pc[r] = "encoding" => \A b \in got[r] : bin[b] # None
  /\ pc[r] \in {"packing", "writing", "unpacking"} => \A b \in Blocks : bin[b] # None
  /\ pc[r] = "writing" => read[r] \in [Blocks -> Encodings]
  /\ pc[r] \in {"writing", "unpacking"} => reservoir \in Files
  /\ pc[r] = "summing" => read[r] \in Summaries

Written ==
  /\ packed # None => reservoir \in Files
  /\ \A r \in Launches : Ready(r)
  /\ \A r \in Launches, b \in Blocks : Encoded(r, b)

LEMMA JobTyped == \A r \in Launches : Job(r) \in Jobs
BY PanelAssumption DEF Job, Jobs

LEMMA WrittenInit == Init => TypeOK /\ Written
BY PanelAssumption
DEF Init, TypeOK, Written, Ready, Encoded, Contents, OrNone, Steps, Busy, Programs

\* The parts of the state that a step of a process may disturb.
Store ==
  /\ source \in [Blocks -> Contents]
  /\ program \in [Programs -> Contents]
  /\ lock \in OrNone(Jobs)
  /\ meta \in [Blocks -> OrNone(Encodings)]
  /\ bin \in [Blocks -> OrNone(Encodings)]
  /\ reservoir \in OrNone(Files) /\ packed \in OrNone(Files) /\ checked \in OrNone(Files)
  /\ unpacked \in OrNone([Blocks -> Encodings])
  /\ decoded \in [Blocks -> OrNone(Reports)]
  /\ summary \in OrNone(Summaries)
  /\ started \in [Blocks -> Nat]
  /\ drifts \in 0 .. MaxDrift

Threads ==
  /\ pc \in [Launches -> Steps]
  /\ task \in [Launches -> [Blocks -> Tasks]]
  /\ proc \in [Launches -> [Blocks -> OrNone(Procs)]]
  /\ got \in [Launches -> SUBSET Blocks]
  /\ read \in [Launches -> OrNone([Blocks -> Encodings] \cup Summaries)]

LEMMA TypeParts == (TypeOK <=> Store /\ Threads) /\ (TypeOK' <=> Store' /\ Threads')
BY DEF TypeOK, Store, Threads, Tasks, Procs

\* A step of one launch's main thread that leaves the disk alone, or adds to
\* it without taking a container away.
LEMMA MainMove ==
  ASSUME Store, Threads, Written, Store',
         NEW r \in Launches, NEW to \in Steps,
         pc' = [pc EXCEPT ![r] = to],
         UNCHANGED <<bin, reservoir, packed, task, proc, got, read>>,
         to \notin {"encoding", "writing", "unpacking", "summing"},
         to = "packing" => \A b \in Blocks : bin[b] # None
  PROVE  Threads' /\ Written'
<1>1. Threads'
  BY DEF Threads
<1>2. Written'
  BY DEF Threads, Written, Ready, Encoded
<1> QED BY <1>1, <1>2

LEMMA ReadyKept ==
  ASSUME NEW s \in Launches, Ready(s),
         UNCHANGED <<pc[s], got[s], read[s]>>,
         reservoir' \in {reservoir} \cup Files,
         \A c \in Blocks : bin[c] # None => bin'[c] # None,
         got[s] \subseteq Blocks
  PROVE  Ready(s)'
BY DEF Ready

LEMMA EncodedKept ==
  ASSUME NEW s \in Launches, NEW c \in Blocks, Encoded(s, c),
         UNCHANGED <<task[s][c], proc[s][c]>>,
         bin[c] # None => bin'[c] # None
  PROVE  Encoded(s, c)'
BY DEF Encoded

\* A step that concerns one block of one launch.
LEMMA BlockMove ==
  ASSUME Threads, Written, NEW r \in Launches, NEW b \in Blocks,
         UNCHANGED <<pc, got, read, reservoir, packed>>,
         \A c \in Blocks : bin[c] # None => bin'[c] # None,
         \A s \in Launches, c \in Blocks :
           <<s, c>> # <<r, b>> => UNCHANGED <<task[s][c], proc[s][c]>>,
         Encoded(r, b)'
  PROVE  Written'
<1>1. ASSUME NEW s \in Launches PROVE Ready(s)'
  BY ReadyKept DEF Written, Threads
<1>2. ASSUME NEW s \in Launches, NEW c \in Blocks PROVE Encoded(s, c)'
  BY EncodedKept DEF Written
<1> QED BY <1>1, <1>2 DEF Written

\* A step that concerns one launch.
LEMMA LaunchMove ==
  ASSUME Threads, Written, NEW r \in Launches,
         packed' # None => reservoir' \in Files,
         reservoir' \in {reservoir} \cup Files,
         UNCHANGED <<bin, proc>>,
         \A s \in Launches \ {r} : UNCHANGED <<pc[s], got[s], read[s], task[s]>>,
         Ready(r)',
         \A b \in Blocks : Encoded(r, b)'
  PROVE  Written'
<1>1. ASSUME NEW s \in Launches \ {r} PROVE Ready(s)'
  BY ReadyKept DEF Written, Threads
<1>2. ASSUME NEW s \in Launches \ {r}, NEW c \in Blocks PROVE Encoded(s, c)'
  BY EncodedKept DEF Written
<1> QED BY <1>1, <1>2 DEF Written

LEMMA TypeMain ==
  ASSUME TypeOK, Written, NEW r \in Launches, Main(r)
  PROVE  TypeOK' /\ Written'
<1> USE TypeParts
<1> USE DEF outside, encodings, serialized, disk, threads
<1>1. CASE Admit(r)
  BY <1>1, MainMove DEF Admit, Goto, Steps, Terminal, Store
<1>2. CASE LookForLock(r)
  BY <1>2, MainMove DEF LookForLock, Goto, Steps, Terminal, Store
<1>3. CASE WriteLock(r)
  <2>1. Store'
    BY <1>3, JobTyped DEF WriteLock, Store, OrNone
  <2>2. Threads'
    BY <1>3 DEF WriteLock, Goto, OpenPool, Threads, Tasks, Steps
  <2>3. Ready(r)' /\ \A b \in Blocks : Encoded(r, b)'
    BY <1>3 DEF WriteLock, Goto, OpenPool, Threads, Written, Ready, Encoded, Busy
  <2>4. \A s \in Launches \ {r} : UNCHANGED <<pc[s], got[s], read[s], task[s]>>
    BY <1>3 DEF WriteLock, Goto, OpenPool, Threads
  <2>5. Written'
    BY <1>3, <2>3, <2>4, LaunchMove DEF WriteLock, Written
  <2> QED BY <2>1, <2>2, <2>5
<1>4. ASSUME NEW b \in Blocks, Collect(r, b) PROVE TypeOK' /\ Written'
  <2>1. Store'
    BY <1>4 DEF Collect, Store
  <2>2. CASE task[r][b] = "done"
    <3>1. /\ pc' = pc /\ got' = [got EXCEPT ![r] = @ \cup {b}]
          /\ bin[b] # None
      BY <1>4, <2>2 DEF Collect, Written, Encoded
    <3>2. Threads'
      BY <1>4, <3>1 DEF Collect, Threads
    <3>3. Ready(r)'
      BY <1>4, <3>1 DEF Collect, Threads, Written, Ready
    <3>4. \A c \in Blocks : Encoded(r, c)'
      BY <1>4, EncodedKept DEF Collect, Written
    <3>5. \A s \in Launches \ {r} : UNCHANGED <<pc[s], got[s], read[s], task[s]>>
      BY <1>4, <3>1 DEF Collect, Threads
    <3> QED BY <1>4, <2>1, <3>2, <3>3, <3>4, <3>5, LaunchMove DEF Collect, Written
  <2>3. CASE task[r][b] = "failed"
    BY <1>4, <2>1, <2>3, MainMove DEF Collect, Steps
  <2> QED BY <1>4, <2>2, <2>3 DEF Collect
<1>5. CASE Drain(r)
  BY <1>5, MainMove DEF Drain, Goto, Steps, Terminal, Store
<1>6. CASE ClosePool(r)
  <2>1. CASE Goto(r, "encoding", "packing")
    <3>1. \A b \in Blocks : bin[b] # None
      BY <1>6, <2>1 DEF ClosePool, Goto, Written, Ready
    <3> QED BY <1>6, <2>1, <3>1, MainMove DEF ClosePool, Goto, Steps, Store
  <2>2. CASE Goto(r, "decoding", "aggregating")
    BY <1>6, <2>2, MainMove DEF ClosePool, Goto, Steps, Store
  <2> QED BY <1>6, <2>1, <2>2 DEF ClosePool
<1>7. CASE OpenReservoir(r)
  <2>1. Torn(r) \in Files
    BY DEF Torn, Files
  <2>2. bin \in [Blocks -> Encodings]
    BY <1>7 DEF OpenReservoir, Goto, Written, Ready, Store, OrNone
  <2>3. Store'
    BY <1>7, <2>1 DEF OpenReservoir, Store, OrNone
  <2>4. Threads'
    BY <1>7, <2>2 DEF OpenReservoir, Goto, Threads, Steps, OrNone
  <2>5. Written'
    BY <1>7, <2>1, <2>2 DEF OpenReservoir, Goto, Threads, Written, Ready, Encoded
  <2> QED BY <2>3, <2>4, <2>5
<1>8. CASE Overflow(r) \/ UnpackFails(r) \/ AggregateFails(r)
  BY <1>8, MainMove DEF Overflow, UnpackFails, AggregateFails, Goto, Steps, Terminal, Store
<1>9. CASE FinishReservoir(r)
  <2>1. reservoir' \in Files
    BY <1>9 DEF FinishReservoir, Goto, Written, Ready, Whole, Torn, Files
  <2>2. Store'
    BY <1>9, <2>1 DEF FinishReservoir, Store, OrNone
  <2>3. Threads'
    BY <1>9 DEF FinishReservoir, Goto, Threads, Steps
  <2>4. Written'
    BY <1>9, <2>1 DEF FinishReservoir, Goto, Threads, Written, Ready, Encoded
  <2> QED BY <2>2, <2>3, <2>4
<1>10. CASE Unpack(r)
  <2>1. reservoir.blocks \in [Blocks -> Encodings]
    BY <1>10 DEF Unpack, Goto, Written, Ready, Files
  <2>2. Store'
    BY <1>10, <2>1 DEF Unpack, Goto, Written, Ready, Store, OrNone
  <2>3. Threads'
    BY <1>10 DEF Unpack, Goto, OpenPool, Threads, Tasks, Steps
  <2>4. Ready(r)' /\ \A b \in Blocks : Encoded(r, b)'
    BY <1>10 DEF Unpack, Goto, OpenPool, Threads, Written, Ready, Encoded, Busy
  <2>5. \A s \in Launches \ {r} : UNCHANGED <<pc[s], got[s], read[s], task[s]>>
    BY <1>10 DEF Unpack, Goto, OpenPool, Threads
  <2>6. Written'
    BY <1>10, <2>4, <2>5, LaunchMove DEF Unpack, Written
  <2> QED BY <2>2, <2>3, <2>6
<1>11. CASE AggregateAgain(r)
  BY <1>11, MainMove DEF AggregateAgain, Goto, Steps, Terminal, Store
<1>12. CASE Aggregate(r)
  <2>1. meta \in [Blocks -> Encodings] /\ decoded \in [Blocks -> Reports]
    BY <1>12 DEF Aggregate, Aggregable, Store, OrNone
  <2>2. read'[r] \in Summaries
    BY <1>12, <2>1, JobTyped DEF Aggregate, Summary, Summaries, Written, Store, Threads
  <2>3. Store'
    BY <1>12 DEF Aggregate, Store
  <2>4. Threads'
    BY <1>12, <2>2 DEF Aggregate, Goto, Threads, Steps, OrNone
  <2>5. Written'
    BY <1>12, <2>2 DEF Aggregate, Goto, Threads, Written, Ready, Encoded
  <2> QED BY <2>3, <2>4, <2>5
<1>13. CASE WriteSummary(r)
  <2>1. Store'
    BY <1>13 DEF WriteSummary, Goto, Written, Ready, Store, OrNone
  <2> QED BY <1>13, <2>1, MainMove DEF WriteSummary, Goto, Steps, Terminal
<1> QED
  BY <1>1, <1>2, <1>3, <1>4, <1>5, <1>6, <1>7, <1>8, <1>9, <1>10, <1>11, <1>12, <1>13 DEF Main

LEMMA TypeWorker ==
  ASSUME TypeOK, Written, NEW r \in Launches, NEW b \in Blocks, Worker(r, b)
  PROVE  TypeOK' /\ Written'
<1> USE TypeParts
<1> USE DEF outside, encodings, serialized, disk, threads
<1> DEFINE Others == \A s \in Launches, c \in Blocks :
             <<s, c>> # <<r, b>> => UNCHANGED <<task[s][c], proc[s][c]>>
<1>0. Encoded(r, b)
  BY DEF Written
<1>1. CASE BeginEncode(r, b)
  <2>1. Store'
    <3>1. started' = started \/ started' = [started EXCEPT ![b] = started[b] + 1]
      BY <1>1 DEF BeginEncode
    <3>2. started \in [Blocks -> Nat] /\ started[b] + 1 \in Nat
      BY DEF Store
    <3>3. started' \in [Blocks -> Nat]
      BY <3>1, <3>2
    <3> QED BY <1>1, <3>3 DEF BeginEncode, Store
  <2>2. CASE source[b] = Original
    <3>1. /\ task' = [task EXCEPT ![r][b] = "encode"]
          /\ proc' = [proc EXCEPT ![r][b] = Subprocess("encode")]
          /\ UNCHANGED <<pc, got, read>>
      BY <1>1, <2>2 DEF BeginEncode
    <3>2. Subprocess("encode") \in Procs
      BY DEF Subprocess, Procs, Busy, OrNone
    <3>3. Threads' /\ Others
      BY <3>1, <3>2 DEF Threads, Tasks, Busy, OrNone
    <3>4. Encoded(r, b)'
      BY <3>1, <3>2 DEF Threads, Encoded, Subprocess, Busy
    <3> QED BY <1>1, <2>1, <3>3, <3>4, BlockMove DEF BeginEncode
  <2>3. CASE source[b] # Original
    <3>1. /\ task' = [task EXCEPT ![r][b] = "failed"]
          /\ UNCHANGED <<pc, got, read, proc, bin>>
      BY <1>1, <2>3 DEF BeginEncode
    <3>2. Threads' /\ Others
      BY <3>1 DEF Threads, Tasks, Finished
    <3>3. Encoded(r, b)'
      BY <3>1 DEF Threads, Written, Encoded, Busy
    <3> QED BY <1>1, <2>1, <3>2, <3>3, BlockMove DEF BeginEncode
  <2> QED BY <2>2, <2>3
<1>2. CASE BeginDecode(r, b)
  <2>1. Store'
    BY <1>2 DEF BeginDecode, Store
  <2>2. Subprocess("decode") \in Procs
    BY DEF Subprocess, Procs, Busy, OrNone
  <2>3. Threads' /\ Others
    BY <1>2, <2>2 DEF BeginDecode, Threads, Tasks, Busy, OrNone
  <2>4. Encoded(r, b)'
    BY <1>2, <2>2 DEF BeginDecode, IsNext, Threads, Written, Encoded, Subprocess, Busy
  <2> QED BY <1>2, <2>1, <2>3, <2>4, BlockMove DEF BeginDecode
<1>3. CASE EncoderWritesMeta(r, b)
  <2>1. proc[r][b] \in Procs
    BY <1>3 DEF EncoderWritesMeta, ProcAt, Threads, OrNone
  <2>2. meta'[b] \in Encodings
    BY <1>3, JobTyped DEF EncoderWritesMeta, Encoding, Encodings, Store, Programs
  <2>3. Store'
    BY <1>3, <2>2 DEF EncoderWritesMeta, Store, OrNone
  <2>4. /\ proc'[r][b] \in Procs /\ proc'[r][b].out \in Encodings
        /\ proc'[r][b].at = "half" /\ proc'[r][b].kind = proc[r][b].kind
        /\ \A s \in Launches, c \in Blocks : <<s, c>> # <<r, b>> => proc'[s][c] = proc[s][c]
        /\ proc' \in [Launches -> [Blocks -> OrNone(Procs)]]
    BY <1>3, <2>1, <2>2 DEF EncoderWritesMeta, Threads, Procs, OrNone
  <2>5. Threads'
    BY <1>3, <2>4 DEF EncoderWritesMeta, Threads
  <2>6. Encoded(r, b)' /\ Others
    BY <1>0, <1>3, <2>1, <2>4 DEF EncoderWritesMeta, Encoded
  <2>7. Written'
    BY <1>3, <2>6, BlockMove DEF EncoderWritesMeta
  <2> QED BY <2>3, <2>5, <2>7
<1>4. CASE EncoderWritesBin(r, b)
  <2>0. proc[r][b] # None /\ proc[r][b].at = "half"
    BY <1>4 DEF EncoderWritesBin, ProcAt
  <2>1. proc[r][b] \in Procs /\ proc[r][b].out \in Encodings
    <3>1. proc[r][b] \in Procs
      BY <2>0 DEF Threads, OrNone
    <3>2. proc[r][b].out \in Encodings
      BY <1>0, <2>0 DEF Encoded
    <3> QED BY <3>1, <3>2
  <2>2. /\ bin' \in [Blocks -> OrNone(Encodings)]
        /\ bin'[b] # None
        /\ \A c \in Blocks : bin[c] # None => bin'[c] # None
    BY <1>4, <2>1, NoneAssumption DEF EncoderWritesBin, Store, OrNone
  <2>3. Store'
    BY <1>4, <2>2 DEF EncoderWritesBin, Store
  <2>4. /\ proc'[r][b] \in Procs /\ proc'[r][b].out \in Encodings
        /\ proc'[r][b].at = "exited" /\ proc'[r][b].kind = proc[r][b].kind
        /\ \A s \in Launches, c \in Blocks : <<s, c>> # <<r, b>> => proc'[s][c] = proc[s][c]
        /\ proc' \in [Launches -> [Blocks -> OrNone(Procs)]]
    BY <1>4, <2>1 DEF EncoderWritesBin, Threads, Procs, OrNone
  <2>5. Threads'
    BY <1>4, <2>4 DEF EncoderWritesBin, Threads
  <2>6. Encoded(r, b)' /\ Others
    BY <1>0, <1>4, <2>1, <2>2, <2>4 DEF EncoderWritesBin, Encoded
  <2>7. Written'
    BY <1>4, <2>2, <2>6, BlockMove DEF EncoderWritesBin
  <2> QED BY <2>3, <2>5, <2>7
<1>5. CASE DecoderWrites(r, b)
  <2>1. proc[r][b] \in Procs /\ proc[r][b].kind = "decode"
    BY <1>5 DEF DecoderWrites, ProcAt, Threads, OrNone
  <2>2. decoded'[b] \in Reports
    BY <1>5 DEF DecoderWrites, Decodable, Report, Reports, Store, OrNone, Programs
  <2>3. Store'
    BY <1>5, <2>2 DEF DecoderWrites, Store, OrNone
  <2>4. /\ proc'[r][b] \in Procs
        /\ proc'[r][b].at = "exited" /\ proc'[r][b].kind = "decode"
        /\ \A s \in Launches, c \in Blocks : <<s, c>> # <<r, b>> => proc'[s][c] = proc[s][c]
        /\ proc' \in [Launches -> [Blocks -> OrNone(Procs)]]
    BY <1>5, <2>1 DEF DecoderWrites, Threads, Procs, OrNone
  <2>5. Threads'
    BY <1>5, <2>4 DEF DecoderWrites, Threads
  <2>6. Others /\ UNCHANGED <<task, bin>>
    BY <1>5, <2>4 DEF DecoderWrites
  <2>7. Encoded(r, b)'
    BY <1>0, <2>1, <2>4, <2>6 DEF Encoded, Busy
  <2>8. Written'
    BY <1>5, <2>6, <2>7, BlockMove DEF DecoderWrites
  <2> QED BY <2>3, <2>5, <2>8
<1>6. CASE SubprocessFails(r, b)
  <2>1. proc[r][b] \in Procs
    BY <1>6 DEF SubprocessFails, Threads, OrNone
  <2>2. /\ proc'[r][b] \in Procs
        /\ proc'[r][b].at = "dead" /\ proc'[r][b].kind = proc[r][b].kind
        /\ \A s \in Launches, c \in Blocks : <<s, c>> # <<r, b>> => proc'[s][c] = proc[s][c]
        /\ proc' \in [Launches -> [Blocks -> OrNone(Procs)]]
    BY <1>6, <2>1 DEF SubprocessFails, Threads, Procs, OrNone
  <2>3. Store'
    BY <1>6 DEF SubprocessFails, Store
  <2>4. Threads'
    BY <1>6, <2>2 DEF SubprocessFails, Threads
  <2>5. Encoded(r, b)' /\ Others
    BY <1>0, <1>6, <2>1, <2>2 DEF SubprocessFails, Encoded
  <2>6. Written'
    BY <1>6, <2>5, BlockMove DEF SubprocessFails
  <2> QED BY <2>3, <2>4, <2>6
<1>7. CASE Return(r, b)
  <2>1. Store'
    BY <1>7 DEF Return, Store
  <2>2. Threads'
    BY <1>7 DEF Return, Threads, Tasks, OrNone, Finished
  <2>3. Others /\ proc'[r][b] = None
    BY <1>7 DEF Return, Threads
  <2>4. task'[r][b] = "done" => task[r][b] = "decode" \/ proc[r][b].at = "exited"
    BY <1>7 DEF Return, Threads
  <2>5. task'[r][b] \in Finished /\ task[r][b] \in Busy
    BY <1>7 DEF Return, Threads, Finished
  <2>6. Encoded(r, b)'
    BY <1>7, <2>3, <2>4, <2>5 DEF Return, Written, Encoded, Busy, Finished
  <2>7. Written'
    BY <1>7, <2>3, <2>6, BlockMove DEF Return
  <2> QED BY <2>1, <2>2, <2>7
<1> QED BY <1>1, <1>2, <1>3, <1>4, <1>5, <1>6, <1>7 DEF Worker

LEMMA TypeNext == TypeOK /\ Written /\ [Next]_vars => TypeOK' /\ Written'
<1> SUFFICES ASSUME TypeOK, Written, [Next]_vars PROVE TypeOK' /\ Written'
  OBVIOUS
<1> USE TypeParts
<1> USE DEF outside, encodings, serialized, disk, threads
<1>1. ASSUME NEW r \in Launches, Kill(r) PROVE TypeOK' /\ Written'
  BY <1>1, MainMove DEF Kill, Steps, Terminal, Store
<1>2. ASSUME NEW b \in Blocks, DriftSource(b) PROVE TypeOK' /\ Written'
  <2>1. Store'
    BY <1>2, PanelAssumption DEF DriftSource, Store, Contents
  <2> QED BY <1>2, <2>1 DEF DriftSource, Threads, Written, Ready, Encoded
<1>3. ASSUME NEW p \in Programs, DriftProgram(p) PROVE TypeOK' /\ Written'
  <2>1. Store'
    BY <1>3, PanelAssumption DEF DriftProgram, Store, Contents
  <2> QED BY <1>3, <2>1 DEF DriftProgram, Threads, Written, Ready, Encoded
<1>4. CASE UNCHANGED vars
  BY <1>4 DEF vars, Store, Threads, Written, Ready, Encoded
<1> QED BY <1>1, <1>2, <1>3, <1>4, TypeMain, TypeWorker DEF Next, FromOutside

LEMMA Always == Spec => [](TypeOK /\ Written)
BY WrittenInit, TypeNext, PTL DEF Spec

\* A reservoir is only packed from containers of every block, and a summary
\* is only written with all its parts.
THEOREM TypeCorrect == Spec => []TypeOK
BY Always, PTL

-----------------------------------------------------------------------------
(* One job per directory, where no two launches look for the lock at once  *)

\* Where a launch is once it has written the lock, or was let past it.
Opened == Pools \cup {"draining"} \cup AfterEncoding

Reserved ==
  /\ \A r, s \in Launches : pc[r] = "unlocked" /\ pc[s] = "unlocked" => r = s
  /\ \A r \in Launches : pc[r] = "unlocked" => lock = None
  /\ \A r \in Launches : pc[r] \in Opened => lock = Job(r)
  /\ \A r \in Launches : pc[r] = "summing" => read[r].job = Job(r)
  /\ summary # None => lock = summary.job

LEMMA LockTells ==
  ASSUME TypeOK, Reserved, lock = None
  PROVE  summary = None /\ \A r \in Launches : pc[r] \notin Opened
<1>1. summary # None => summary.job \in Jobs
  BY DEF TypeOK, OrNone, Summaries
<1> QED BY <1>1, JobTyped, NoneAssumption DEF Reserved

LEMMA ReservedInit == Init => Reserved
BY DEF Init, Reserved, Opened, Pools, AfterEncoding

\* A launch goes on under the lock, or not as far as the lock.
LEMMA ReservedMove ==
  ASSUME TypeOK, Reserved, NEW r \in Launches, NEW to \in Steps,
         pc' = [pc EXCEPT ![r] = to],
         UNCHANGED <<lock, summary, read>>,
         to \notin {"unlocked", "summing"},
         to \in Opened => lock = Job(r)
  PROVE  Reserved'
BY DEF TypeOK, Reserved, Job

LEMMA ReservedStay == ASSUME Reserved, UNCHANGED <<pc, lock, summary, read>> PROVE Reserved'
BY DEF Reserved, Job

LEMMA ReservedMain ==
  ASSUME ~Overlap, TypeOK, Reserved, NEW r \in Launches, Main(r)
  PROVE  Reserved'
<1> USE DEF outside, encodings, serialized, disk, threads
<1>1. CASE Admit(r)
  BY <1>1, ReservedMove DEF Admit, Goto, Steps, Terminal, Opened, Pools, AfterEncoding
<1>2. CASE LookForLock(r)
  <2>1. CASE lock = None
    <3>1. \A s \in Launches : pc[s] # "unlocked"
      BY <1>2 DEF LookForLock
    <3> QED BY <1>2, <2>1, <3>1
        DEF LookForLock, Goto, TypeOK, Reserved, Job, Opened, Pools, AfterEncoding
  <2>2. CASE lock # None
    BY <1>2, <2>2, ReservedMove, ZenonT(40)
    DEF LookForLock, Goto, Steps, Terminal, Opened, Pools, AfterEncoding
  <2> QED BY <2>1, <2>2
<1>3. CASE WriteLock(r)
  <2>1. pc[r] = "unlocked" /\ lock = None
    BY <1>3 DEF WriteLock, Goto, Reserved
  <2>2. /\ summary = None
        /\ \A s \in Launches : pc[s] \notin Opened
        /\ \A s \in Launches \ {r} : pc[s] # "unlocked"
    BY <2>1, LockTells DEF Reserved
  <2> QED BY <1>3, <2>2
      DEF WriteLock, Goto, TypeOK, Reserved, Job, Opened, Pools, AfterEncoding
<1>4. ASSUME NEW b \in Blocks, Collect(r, b) PROVE Reserved'
  <2>1. CASE pc' = pc
    BY <1>4, <2>1, ReservedStay DEF Collect
  <2>2. CASE pc' = [pc EXCEPT ![r] = "draining"]
    BY <1>4, <2>2, ReservedMove DEF Collect, Reserved, Opened, Steps
  <2> QED BY <1>4, <2>1, <2>2 DEF Collect
<1>5. CASE Drain(r) \/ Overflow(r) \/ UnpackFails(r) \/ AggregateFails(r)
  BY <1>5, ReservedMove
  DEF Drain, Overflow, UnpackFails, AggregateFails, Goto, Steps, Terminal, Opened, Pools,
      AfterEncoding
<1>6. CASE ClosePool(r) \/ FinishReservoir(r) \/ Unpack(r)
  <2>1. /\ pc[r] \in Opened
        /\ \E to \in {"packing", "aggregating", "unpacking", "decoding"} :
             pc' = [pc EXCEPT ![r] = to]
    BY <1>6 DEF ClosePool, FinishReservoir, Unpack, Goto, Opened, Pools, AfterEncoding
  <2>2. lock = Job(r)
    BY <2>1 DEF Reserved
  <2>3. UNCHANGED <<lock, summary, read>>
    BY <1>6 DEF ClosePool, FinishReservoir, Unpack
  <2> QED BY <2>1, <2>2, <2>3, ReservedMove DEF Steps
<1>7. CASE OpenReservoir(r)
  <2>1. lock = Job(r)
    BY <1>7 DEF OpenReservoir, Goto, Reserved, Opened, AfterEncoding
  <2> QED BY <1>7, <2>1 DEF OpenReservoir, Goto, TypeOK, Reserved, Job
<1>8. CASE AggregateAgain(r)
  <2>1. CASE Goto(r, "again", "aggregating") /\ summary # None /\ Bound(r)
    <3>1. lock = Job(r)
      BY <2>1, LockTells DEF Bound
    <3> QED BY <1>8, <2>1, <3>1, ReservedMove DEF AggregateAgain, Goto, Steps
  <2>2. CASE Goto(r, "again", "refused")
    BY <1>8, <2>2, ReservedMove
    DEF AggregateAgain, Goto, Steps, Terminal, Opened, Pools, AfterEncoding
  <2> QED BY <1>8, <2>1, <2>2 DEF AggregateAgain
<1>9. CASE Aggregate(r)
  <2>1. lock = Job(r)
    BY <1>9 DEF Aggregate, Goto, Reserved, Opened, AfterEncoding
  <2> QED BY <1>9, <2>1 DEF Aggregate, Summary, Goto, TypeOK, Reserved, Job
<1>10. CASE WriteSummary(r)
  <2>1. lock = Job(r) /\ read[r].job = Job(r)
    BY <1>10 DEF WriteSummary, Goto, Reserved, Opened, AfterEncoding
  <2>2. \E to \in {"passed", "gated"} : pc' = [pc EXCEPT ![r] = to]
    BY <1>10 DEF WriteSummary, Goto
  <2>3. summary' = read[r] /\ lock' = lock /\ read' = read
    BY <1>10 DEF WriteSummary
  <2>4. lock' = summary'.job
    BY <2>1, <2>3
  <2>5. \A s \in Launches : pc'[s] = pc[s] \/ pc'[s] \in {"passed", "gated"}
    BY <2>2 DEF TypeOK
  <2> QED BY <2>3, <2>4, <2>5 DEF Reserved, Job, Opened, Pools, AfterEncoding
<1> QED BY <1>1, <1>2, <1>3, <1>4, <1>5, <1>6, <1>7, <1>8, <1>9, <1>10 DEF Main

LEMMA ReservedNext ==
  ASSUME ~Overlap
  PROVE  TypeOK /\ Reserved /\ [Next]_vars => Reserved'
<1> SUFFICES ASSUME TypeOK, Reserved, [Next]_vars PROVE Reserved'
  OBVIOUS
<1> USE DEF outside, encodings, serialized, disk, threads
<1>1. ASSUME NEW r \in Launches, NEW b \in Blocks, Worker(r, b) PROVE Reserved'
  BY <1>1, ReservedStay
  DEF Worker, BeginEncode, BeginDecode, EncoderWritesMeta, EncoderWritesBin, DecoderWrites,
      SubprocessFails, Return
<1>2. ASSUME NEW r \in Launches, Kill(r) PROVE Reserved'
  BY <1>2, ReservedMove DEF Kill, Steps, Terminal, Opened, Pools, AfterEncoding
<1>3. ASSUME NEW b \in Blocks, DriftSource(b) PROVE Reserved'
  BY <1>3, ReservedStay DEF DriftSource
<1>4. ASSUME NEW p \in Programs, DriftProgram(p) PROVE Reserved'
  BY <1>4, ReservedStay DEF DriftProgram
<1>5. CASE UNCHANGED vars
  BY <1>5, ReservedStay DEF vars
<1> QED BY <1>1, <1>2, <1>3, <1>4, <1>5, ReservedMain DEF Next, FromOutside

LEMMA ReservedAlways ==
  ASSUME ~Overlap
  PROVE  Spec => [](TypeOK /\ Reserved)
<1>1. TypeOK /\ Reserved /\ [Next]_vars => Reserved'
  BY ReservedNext
<1>2. Spec => []TypeOK
  BY TypeCorrect
<1> QED BY <1>1, <1>2, ReservedInit, PTL DEF Spec

\* A summary is of the job that the directory's lock names, however often and
\* by whom it is aggregated.
THEOREM UnderLock ==
  ASSUME ~Overlap
  PROVE  Spec => []SummaryUnderLock
<1>1. TypeOK /\ Reserved => SummaryUnderLock
  BY DEF Reserved, SummaryUnderLock
<1> QED BY <1>1, ReservedAlways, PTL

-----------------------------------------------------------------------------
(* One encoder per block, and none once packing has begun                  *)

\* Where a launch is between opening the pool of encoders and that of decoders.
Working == {"encoding", "packing", "writing", "unpacking"}

\* Only one launch ever opens a pool, a block that waits for its encoder has
\* not been encoded, and before the lock is written nothing has.
Single ==
  /\ lock = None =>
       \A r \in Launches, b \in Blocks : task[r][b] = "idle" /\ started[b] = 0
  /\ \A r, s \in Launches, b, c \in Blocks :
       task[r][b] # "idle" /\ task[s][c] # "idle" => r = s
  /\ \A r \in Launches, b \in Blocks : pc[r] \in Working => task[r][b] # "idle"
  /\ \A r \in Launches, b \in Blocks : task[r][b] = "to encode" => started[b] = 0
  /\ EncodedOnce

LEMMA SingleInit == Init => Single
BY DEF Init, Single, Working, EncodedOnce

\* Nothing comes to life, and nothing is encoded.
LEMMA SingleMove ==
  ASSUME Single,
         UNCHANGED <<lock, started>>,
         \A r \in Launches, b \in Blocks :
           /\ task[r][b] = "idle" <=> task'[r][b] = "idle"
           /\ task'[r][b] = "to encode" => task[r][b] = "to encode",
         \A r \in Launches : pc'[r] \in Working => pc[r] \in Working
  PROVE  Single'
BY DEF Single, EncodedOnce

LEMMA SingleMain ==
  ASSUME TypeOK, Reserved, Single, NEW r \in Launches, Main(r)
  PROVE  Single'
<1> USE DEF outside, encodings, serialized, disk, threads
<1>0. Threads
  BY TypeParts
<1>1. CASE WriteLock(r)
  <2>1. lock = None /\ lock' # None
    BY <1>1, JobTyped, NoneAssumption DEF WriteLock, Goto, Reserved
  <2>2. /\ \A s \in Launches \ {r}, b \in Blocks : task'[s][b] = "idle"
        /\ \A b \in Blocks : task'[r][b] = "to encode"
    BY <1>0, <1>1, <2>1 DEF WriteLock, OpenPool, Threads, Single
  <2>3. \A b \in Blocks : started'[b] = 0
    BY <1>1, <2>1 DEF WriteLock, Single
  <2>4. \A s \in Launches \ {r} : pc'[s] \notin Working
    BY <1>0, <1>1, <2>1, LockTells
    DEF WriteLock, Goto, Threads, Opened, Pools, AfterEncoding, Working
  <2>5. \A s, t \in Launches, b, c \in Blocks :
          task'[s][b] # "idle" /\ task'[t][c] # "idle" => s = t
    BY <2>2
  <2>6. \A s \in Launches, b \in Blocks : pc'[s] \in Working => task'[s][b] # "idle"
    BY <2>2, <2>4
  <2>7. \A s \in Launches, b \in Blocks : task'[s][b] = "to encode" => started'[b] = 0
    BY <2>3
  <2>8. EncodedOnce'
    BY <2>3 DEF EncodedOnce
  <2> QED BY <2>1, <2>5, <2>6, <2>7, <2>8 DEF Single
<1>2. CASE Unpack(r)
  <2>1. /\ task' = [task EXCEPT ![r] = [b \in Blocks |-> "to decode"]]
        /\ \A b \in Blocks : task[r][b] # "idle"
        /\ UNCHANGED <<lock, started>>
    BY <1>2 DEF Unpack, OpenPool, Goto, Single, Working
  <2>2. \A s \in Launches, b \in Blocks :
          /\ task[s][b] = "idle" <=> task'[s][b] = "idle"
          /\ task'[s][b] = "to encode" => task[s][b] = "to encode"
    BY <1>0, <2>1 DEF Threads
  <2>3. \A s \in Launches : pc'[s] \in Working => pc[s] \in Working
    BY <1>0, <1>2 DEF Unpack, Goto, Threads, Working
  <2> QED BY <2>1, <2>2, <2>3, SingleMove
<1>3. CASE ~WriteLock(r) /\ ~Unpack(r)
  <2>1. UNCHANGED <<lock, started, task>>
    BY <1>3
    DEF Main, Admit, LookForLock, Collect, Drain, ClosePool, OpenReservoir, Overflow,
        FinishReservoir, UnpackFails, AggregateAgain, Aggregate, AggregateFails, WriteSummary
  <2>2. \A s \in Launches : pc'[s] \in Working => pc[s] \in Working
    BY <1>0, <1>3
    DEF Main, Admit, LookForLock, Collect, Drain, ClosePool, OpenReservoir, Overflow, Goto,
        FinishReservoir, UnpackFails, AggregateAgain, Aggregate, AggregateFails, WriteSummary,
        Threads, Working
  <2> QED BY <2>1, <2>2, SingleMove
<1> QED BY <1>1, <1>2, <1>3

LEMMA SingleWorker ==
  ASSUME TypeOK, Single, NEW r \in Launches, NEW b \in Blocks, Worker(r, b)
  PROVE  Single'
<1> USE DEF outside, encodings, serialized, disk, threads
<1>0. Threads
  BY TypeParts
<1>1. CASE BeginEncode(r, b)
  <2>1. task[r][b] = "to encode" /\ started[b] = 0 /\ lock # None
    BY <1>1 DEF BeginEncode, IsNext, Single
  <2>2. /\ \A s \in Launches, c \in Blocks :
             <<s, c>> # <<r, b>> => task'[s][c] = task[s][c]
        /\ task'[r][b] \in {"encode", "failed"}
    <3>1. \/ task' = [task EXCEPT ![r][b] = "encode"]
          \/ task' = [task EXCEPT ![r][b] = "failed"]
      BY <1>1 DEF BeginEncode
    <3>2. CASE task' = [task EXCEPT ![r][b] = "encode"]
      BY <1>0, <3>2 DEF Threads
    <3>3. CASE task' = [task EXCEPT ![r][b] = "failed"]
      BY <1>0, <3>3 DEF Threads
    <3> QED BY <3>1, <3>2, <3>3
  <2>0. \A s \in Launches, c \in Blocks : task[s][c] = "idle" <=> task'[s][c] = "idle"
    <3> SUFFICES ASSUME NEW s \in Launches, NEW c \in Blocks
                 PROVE  task[s][c] = "idle" <=> task'[s][c] = "idle"
      OBVIOUS
    <3>1. CASE s = r /\ c = b
      BY <2>1, <2>2, <3>1
    <3>2. CASE <<s, c>> # <<r, b>>
      BY <2>2, <3>2
    <3> QED BY <3>1, <3>2
  <2>3. /\ \A c \in Blocks \ {b} : started'[c] = started[c]
        /\ started'[b] \in {started[b], started[b] + 1}
    <3>1. started \in [Blocks -> Nat]
      BY TypeParts DEF Store
    <3> QED BY <1>1, <3>1 DEF BeginEncode
  <2>4. \A s \in Launches : task[s][b] = "to encode" => s = r
    <3>1. task[r][b] # "idle"
      BY <2>1
    <3>2. ASSUME NEW s \in Launches, task[s][b] = "to encode" PROVE s = r
      <4>1. task[s][b] # "idle"
        BY <3>2
      <4> QED BY <3>1, <4>1 DEF Single
    <3> QED BY <3>2
  <2>5. EncodedOnce'
    <3>1. \A c \in Blocks : started[c] <= 1
      BY DEF Single, EncodedOnce
    <3>2. ASSUME NEW c \in Blocks PROVE started'[c] <= 1
      <4>1. started'[b] \in {0, 0 + 1}
        BY <2>1, <2>3
      <4>3. CASE c = b
        BY <4>1, <4>3
      <4>2. CASE c # b
        BY <2>3, <3>1, <4>2
      <4> QED BY <4>2, <4>3
    <3> QED BY <3>2 DEF EncodedOnce
  <2>6. UNCHANGED <<lock, pc>>
    BY <1>1 DEF BeginEncode
  <2>7. \A s, t \in Launches, c, d \in Blocks :
          task'[s][c] # "idle" /\ task'[t][d] # "idle" => s = t
    <3>1. \A s, t \in Launches, c, d \in Blocks :
            task[s][c] # "idle" /\ task[t][d] # "idle" => s = t
      BY DEF Single
    <3> QED BY <2>0, <3>1
  <2>8. \A s \in Launches, c \in Blocks : task'[s][c] = "to encode" => started'[c] = 0
    <3> SUFFICES ASSUME NEW s \in Launches, NEW c \in Blocks, task'[s][c] = "to encode"
                 PROVE  started'[c] = 0
      OBVIOUS
    <3>1. <<s, c>> # <<r, b>>
      BY <2>2
    <3>2. task[s][c] = "to encode" /\ c # b
      BY <2>2, <2>4, <3>1
    <3> QED BY <2>3, <3>2 DEF Single
  <2>9. \A s \in Launches, c \in Blocks : pc'[s] \in Working => task'[s][c] # "idle"
    BY <2>0, <2>6 DEF Single
  <2> QED BY <2>1, <2>5, <2>6, <2>7, <2>8, <2>9 DEF Single
<1>2. CASE BeginDecode(r, b) \/ Return(r, b)
  <2>1. \A s \in Launches, c \in Blocks :
          /\ task[s][c] = "idle" <=> task'[s][c] = "idle"
          /\ task'[s][c] = "to encode" => task[s][c] = "to encode"
    <3>1. /\ task[r][b] \in {"to decode", "encode", "decode"}
          /\ \E v \in {"decode", "done", "failed"} : task' = [task EXCEPT ![r][b] = v]
      BY <1>2 DEF BeginDecode, Return, IsNext, Busy
    <3>2. PICK v \in {"decode", "done", "failed"} : task' = [task EXCEPT ![r][b] = v]
      BY <3>1
    <3> QED BY <1>0, <3>1, <3>2 DEF Threads
  <2> QED BY <1>2, <2>1, SingleMove DEF BeginDecode, Return
<1>3. CASE \/ EncoderWritesMeta(r, b) \/ EncoderWritesBin(r, b) \/ DecoderWrites(r, b)
           \/ SubprocessFails(r, b)
  BY <1>3, SingleMove DEF EncoderWritesMeta, EncoderWritesBin, DecoderWrites, SubprocessFails
<1> QED BY <1>1, <1>2, <1>3 DEF Worker

LEMMA SingleOther ==
  ASSUME TypeOK, Single, FromOutside \/ UNCHANGED vars
  PROVE  Single'
<1>0. Threads
  BY TypeParts
<1>1. UNCHANGED <<lock, started, task>>
  BY DEF FromOutside, Kill, DriftSource, DriftProgram, vars, disk, threads
<1>2. \A s \in Launches : pc'[s] \in Working => pc[s] \in Working
  BY <1>0 DEF FromOutside, Kill, DriftSource, DriftProgram, vars, Working, Threads
<1> QED BY <1>1, <1>2, SingleMove

\* Where a launch is once its pool of encoders is closed.
Later == AfterEncoding \cup {"decoding"}

\* No encoder runs or waits to run.
Calm == \A r \in Launches, b \in Blocks : task[r][b] \notin {"to encode", "encode"}

\* An encoder that may still write is the one its block's future waits for.
Awaited(r, b) ==
  proc[r][b] # None /\ proc[r][b].kind = "encode" /\ proc[r][b].at \in {"running", "half"}
    => task[r][b] = "encode"

Past ==
  /\ \A r \in Launches, b \in Blocks : Awaited(r, b)
  /\ \A r \in Launches : pc[r] = "encoding" => \A b \in got[r] : task[r][b] = "done"
  /\ \A r \in Launches : pc[r] \in Later => Calm
  /\ summary # None => Calm

LEMMA PastInit == Init => Past
BY DEF Init, Past, Awaited, Later, AfterEncoding

LEMMA AwaitedKept ==
  ASSUME Past, UNCHANGED proc,
         \A s \in Launches, c \in Blocks : task[s][c] = "encode" => task'[s][c] = "encode"
  PROVE  \A s \in Launches, c \in Blocks : Awaited(s, c)'
<1> SUFFICES ASSUME NEW s \in Launches, NEW c \in Blocks PROVE Awaited(s, c)'
  OBVIOUS
<1>1. Awaited(s, c)
  BY DEF Past
<1> QED BY <1>1 DEF Awaited

\* A launch goes on, and no encoder begins or ends.
LEMMA PastMove ==
  ASSUME TypeOK, Past, NEW r \in Launches, NEW to \in Steps,
         pc' = [pc EXCEPT ![r] = to],
         UNCHANGED <<task, proc, got>>,
         to # "encoding",
         to \in Later \/ summary' # summary => Calm
  PROVE  Past'
<1>0. Threads
  BY TypeParts
<1>1. Calm' <=> Calm
  BY DEF Calm
<1>2. \A s \in Launches : pc'[s] = IF s = r THEN to ELSE pc[s]
  BY <1>0 DEF Threads
<1>3. \A s \in Launches : pc'[s] = "encoding" => \A c \in got'[s] : task'[s][c] = "done"
  BY <1>2 DEF Past
<1>4. \A s \in Launches : pc'[s] \in Later => Calm'
  BY <1>1, <1>2 DEF Past
<1>5. summary' # None => Calm'
  BY <1>1 DEF Past
<1> QED BY <1>3, <1>4, <1>5, AwaitedKept DEF Past

LEMMA PastMain ==
  ASSUME TypeOK, Reserved, Single, Past, NEW r \in Launches, Main(r)
  PROVE  Past'
<1> USE DEF outside, encodings, serialized, disk, threads
<1>0. Threads
  BY TypeParts
<1>1. CASE Admit(r) \/ LookForLock(r) \/ Drain(r) \/ Overflow(r) \/ UnpackFails(r) \/ AggregateFails(r)
  <2>1. /\ \E to \in {"again", "admitted", "unlocked", "refused", "failed"} :
             pc' = [pc EXCEPT ![r] = to]
        /\ UNCHANGED <<task, proc, got, summary>>
    BY <1>1 DEF Admit, LookForLock, Drain, Overflow, UnpackFails, AggregateFails, Goto
  <2> QED BY <2>1, PastMove DEF Steps, Terminal, Later, AfterEncoding
<1>2. CASE WriteLock(r)
  <2>1. /\ summary = None
        /\ \A s \in Launches : pc[s] \notin Opened
        /\ \A s \in Launches, b \in Blocks : task[s][b] = "idle"
    BY <1>2, LockTells DEF WriteLock, Goto, Reserved, Single
  <2>2. /\ \A s \in Launches : pc'[s] \notin Later
        /\ \A s \in Launches \ {r} : pc'[s] # "encoding"
    BY <1>0, <1>2, <2>1 DEF WriteLock, Goto, Threads, Opened, Pools, Later, AfterEncoding
  <2>3. got'[r] = {} /\ proc' = proc /\ summary' = summary
    BY <1>0, <1>2 DEF WriteLock, OpenPool, Threads
  <2>4. \A s \in Launches, b \in Blocks : Awaited(s, b)'
    BY <2>1, <2>3, AwaitedKept
  <2>5. \A s \in Launches : pc'[s] = "encoding" => \A b \in got'[s] : task'[s][b] = "done"
    BY <2>2, <2>3
  <2> QED BY <2>1, <2>2, <2>3, <2>4, <2>5 DEF Past
<1>3. ASSUME NEW b \in Blocks, Collect(r, b) PROVE Past'
  <2>1. CASE task[r][b] = "done" /\ got' = [got EXCEPT ![r] = @ \cup {b}] /\ pc' = pc
    <3>1. UNCHANGED <<task, proc, summary>> /\ (Calm' <=> Calm)
      BY <1>3 DEF Collect, Calm
    <3>2. \A s \in Launches : pc[s] = "encoding" => \A c \in got'[s] : task[s][c] = "done"
      BY <1>0, <2>1 DEF Threads, Past
    <3>3. \A s \in Launches, c \in Blocks : Awaited(s, c)'
      BY <3>1, AwaitedKept
    <3> QED BY <2>1, <3>1, <3>2, <3>3 DEF Past
  <2>2. CASE pc' = [pc EXCEPT ![r] = "draining"] /\ UNCHANGED got
    BY <1>3, <2>2, PastMove DEF Collect, Steps, Later, AfterEncoding
  <2> QED BY <1>3, <2>1, <2>2 DEF Collect
<1>4. CASE ClosePool(r)
  <2>1. CASE Goto(r, "encoding", "packing")
    <3>1. \A b \in Blocks : task[r][b] = "done"
      BY <1>4, <2>1 DEF ClosePool, Goto, Past
    <3>2. 0 \in Blocks
      BY PanelAssumption DEF Blocks
    <3>3. \A s \in Launches \ {r}, b \in Blocks : task[s][b] = "idle"
      BY <3>1, <3>2 DEF Single
    <3>4. Calm
      BY <3>1, <3>3 DEF Calm
    <3> QED BY <1>4, <2>1, <3>4, PastMove DEF ClosePool, Goto, Steps
  <2>2. CASE Goto(r, "decoding", "aggregating")
    <3>1. Calm
      BY <2>2 DEF Goto, Past, Later
    <3> QED BY <1>4, <2>2, <3>1, PastMove DEF ClosePool, Goto, Steps
  <2> QED BY <1>4, <2>1, <2>2 DEF ClosePool
<1>5. CASE OpenReservoir(r) \/ FinishReservoir(r) \/ Aggregate(r) \/ WriteSummary(r)
  <2>1. /\ pc[r] \in Later
        /\ \E to \in {"writing", "unpacking", "summing", "passed", "gated"} :
             pc' = [pc EXCEPT ![r] = to]
        /\ UNCHANGED <<task, proc, got>>
    BY <1>5 DEF OpenReservoir, FinishReservoir, Aggregate, WriteSummary, Goto, Later, AfterEncoding
  <2>2. Calm
    BY <2>1 DEF Past
  <2> QED BY <2>1, <2>2, PastMove DEF Steps, Terminal
<1>6. CASE Unpack(r)
  <2>1. Calm
    BY <1>6 DEF Unpack, Goto, Past, Later, AfterEncoding
  <2>2. Calm' /\ \A s \in Launches : pc'[s] = "encoding" => s # r
    BY <1>0, <1>6, <2>1 DEF Unpack, Goto, OpenPool, Calm, Threads
  <2>3. /\ \A s \in Launches \ {r} : task'[s] = task[s] /\ got'[s] = got[s] /\ pc'[s] = pc[s]
        /\ proc' = proc
    BY <1>0, <1>6 DEF Unpack, Goto, OpenPool, Threads
  <2>4. \A s \in Launches, b \in Blocks : task[s][b] # "encode"
    BY <2>1 DEF Calm
  <2>5. \A s \in Launches, b \in Blocks : Awaited(s, b)'
    BY <2>3, <2>4, AwaitedKept
  <2>6. ASSUME NEW s \in Launches, pc'[s] = "encoding", NEW b \in got'[s]
        PROVE  task'[s][b] = "done"
    BY <2>2, <2>3, <2>6 DEF Past
  <2> QED BY <2>2, <2>5, <2>6 DEF Past
<1>7. CASE AggregateAgain(r)
  <2>1. CASE Goto(r, "again", "aggregating") /\ summary # None
    <3>1. Calm
      BY <2>1 DEF Past
    <3> QED BY <1>7, <2>1, <3>1, PastMove DEF AggregateAgain, Goto, Steps
  <2>2. CASE Goto(r, "again", "refused")
    BY <1>7, <2>2, PastMove DEF AggregateAgain, Goto, Steps, Terminal, Later, AfterEncoding
  <2> QED BY <1>7, <2>1, <2>2 DEF AggregateAgain
<1> QED BY <1>1, <1>2, <1>3, <1>4, <1>5, <1>6, <1>7 DEF Main

\* A step that concerns one block of one launch.
LEMMA PastBlock ==
  ASSUME TypeOK, Past, NEW r \in Launches, NEW b \in Blocks,
         UNCHANGED <<pc, got, summary>>,
         \A s \in Launches, c \in Blocks :
           <<s, c>> # <<r, b>> => UNCHANGED <<task[s][c], proc[s][c]>>,
         task'[r][b] # task[r][b] => task[r][b] # "done",
         task'[r][b] \in {"to encode", "encode"} => ~Calm,
         Awaited(r, b)'
  PROVE  Past'
<1>0. Threads
  BY TypeParts
<1>1. ASSUME NEW s \in Launches, NEW c \in Blocks PROVE Awaited(s, c)'
  <2>1. CASE s = r /\ c = b
    BY <2>1
  <2>2. CASE <<s, c>> # <<r, b>>
    <3>1. UNCHANGED <<task[s][c], proc[s][c]>>
      BY <2>2
    <3>2. Awaited(s, c)
      BY DEF Past
    <3> QED BY <3>1, <3>2 DEF Awaited
  <2> QED BY <2>1, <2>2
<1>2. ASSUME NEW s \in Launches, pc'[s] = "encoding", NEW c \in got'[s]
      PROVE  task'[s][c] = "done"
  <2>1. c \in Blocks /\ task[s][c] = "done"
    BY <1>0, <1>2 DEF Past, Threads
  <2>2. CASE s = r /\ c = b
    BY <2>1, <2>2
  <2>3. CASE <<s, c>> # <<r, b>>
    BY <2>1, <2>3
  <2> QED BY <2>2, <2>3
<1>3. ASSUME Calm PROVE Calm'
  <2> SUFFICES ASSUME NEW s \in Launches, NEW c \in Blocks
               PROVE  task'[s][c] \notin {"to encode", "encode"}
    BY DEF Calm
  <2>1. CASE s = r /\ c = b
    BY <1>3, <2>1
  <2>2. CASE <<s, c>> # <<r, b>>
    BY <1>3, <2>2 DEF Calm
  <2> QED BY <2>1, <2>2
<1> QED BY <1>1, <1>2, <1>3 DEF Past

LEMMA PastWorker ==
  ASSUME TypeOK, Past, NEW r \in Launches, NEW b \in Blocks, Worker(r, b)
  PROVE  Past'
<1> USE DEF outside, encodings, serialized, disk, threads
<1>0. Threads
  BY TypeParts
<1> DEFINE Others == \A s \in Launches, c \in Blocks :
             <<s, c>> # <<r, b>> => UNCHANGED <<task[s][c], proc[s][c]>>
<1>1. CASE BeginEncode(r, b)
  <2>1. task[r][b] = "to encode" /\ ~Calm
    BY <1>1 DEF BeginEncode, IsNext, Calm
  <2>2. UNCHANGED <<pc, got, summary>>
    BY <1>1 DEF BeginEncode
  <2>3. CASE source[b] = Original
    <3>1. /\ task' = [task EXCEPT ![r][b] = "encode"]
          /\ proc' = [proc EXCEPT ![r][b] = Subprocess("encode")]
      BY <1>1, <2>3 DEF BeginEncode
    <3>2. Others /\ task'[r][b] = "encode" /\ Awaited(r, b)'
      BY <1>0, <3>1 DEF Threads, Awaited
    <3> QED BY <2>1, <2>2, <3>2, PastBlock
  <2>4. CASE source[b] # Original
    <3>1. task' = [task EXCEPT ![r][b] = "failed"] /\ proc' = proc
      BY <1>1, <2>4 DEF BeginEncode
    <3>2. Others /\ task'[r][b] = "failed"
      BY <1>0, <3>1 DEF Threads
    <3>3. Awaited(r, b)
      BY DEF Past
    <3>4. Awaited(r, b)'
      BY <2>1, <3>1, <3>3 DEF Awaited
    <3> QED BY <2>1, <2>2, <3>1, <3>2, <3>4, PastBlock
  <2> QED BY <2>3, <2>4
<1>2. CASE BeginDecode(r, b)
  <2>1. task[r][b] = "to decode" /\ UNCHANGED <<pc, got, summary>>
    BY <1>2 DEF BeginDecode, IsNext
  <2>2. /\ task' = [task EXCEPT ![r][b] = "decode"]
        /\ proc' = [proc EXCEPT ![r][b] = Subprocess("decode")]
    BY <1>2 DEF BeginDecode
  <2>3. Others /\ task'[r][b] = "decode" /\ Awaited(r, b)'
    BY <1>0, <2>2 DEF Threads, Subprocess, Awaited
  <2> QED BY <2>1, <2>3, PastBlock
<1>3. CASE \/ EncoderWritesMeta(r, b) \/ EncoderWritesBin(r, b) \/ DecoderWrites(r, b)
           \/ SubprocessFails(r, b)
  <2>1. UNCHANGED <<pc, got, summary, task>>
    BY <1>3 DEF EncoderWritesMeta, EncoderWritesBin, DecoderWrites, SubprocessFails
  <2>2. proc[r][b] \in Procs /\ proc[r][b] # None
    BY <1>0, <1>3 DEF EncoderWritesMeta, EncoderWritesBin, DecoderWrites, SubprocessFails, ProcAt,
       Threads, OrNone, Procs
  <2>3. Others /\ proc'[r][b].kind = proc[r][b].kind
    BY <1>0, <1>3, <2>2 DEF EncoderWritesMeta, EncoderWritesBin, DecoderWrites, SubprocessFails, Threads,
       Procs
  <2>4. proc'[r][b].at \in {"running", "half"} =>
          proc[r][b].at = "running"
    BY <1>0, <1>3, <2>2 DEF EncoderWritesMeta, EncoderWritesBin, DecoderWrites, SubprocessFails, Threads,
       ProcAt, Procs
  <2>5. Awaited(r, b)
    BY DEF Past
  <2>6. Awaited(r, b)'
    BY <2>1, <2>2, <2>3, <2>4, <2>5 DEF Awaited
  <2>7. task[r][b] \in {"to encode", "encode"} => ~Calm
    BY DEF Calm
  <2> QED BY <2>1, <2>3, <2>6, <2>7, PastBlock
<1>4. CASE Return(r, b)
  <2>1. /\ task[r][b] \in Busy /\ task'[r][b] \in Finished
        /\ Others /\ Awaited(r, b)'
    <3>1. PICK v \in Finished : task' = [task EXCEPT ![r][b] = v]
      BY <1>4 DEF Return, Finished
    <3>2. proc' = [proc EXCEPT ![r][b] = None] /\ task[r][b] \in Busy
      BY <1>4 DEF Return
    <3> QED BY <1>0, <3>1, <3>2 DEF Threads, Awaited
  <2>2. UNCHANGED <<pc, got, summary>>
    BY <1>4 DEF Return
  <2> QED BY <2>1, <2>2, PastBlock DEF Busy, Finished
<1> QED BY <1>1, <1>2, <1>3, <1>4 DEF Worker

LEMMA PastOther ==
  ASSUME TypeOK, Past, FromOutside \/ UNCHANGED vars
  PROVE  Past'
<1> USE DEF disk, threads
<1>1. ASSUME NEW r \in Launches, Kill(r) PROVE Past'
  BY <1>1, PastMove DEF Kill, Steps, Terminal, Later, AfterEncoding
<1>2. CASE UNCHANGED <<pc, task, proc, got, summary>>
  BY <1>2 DEF Past, Awaited, Calm
<1>3. (\E r \in Launches : Kill(r)) \/ UNCHANGED <<pc, task, proc, got, summary>>
  BY DEF FromOutside, DriftSource, DriftProgram, vars
<1> QED BY <1>1, <1>2, <1>3

LEMMA PastAlways ==
  ASSUME ~Overlap
  PROVE  Spec => [](TypeOK /\ Single /\ Past)
<1>1. TypeOK /\ Reserved /\ Single /\ Past /\ [Next]_vars => Single' /\ Past'
  BY SingleMain, SingleWorker, SingleOther, PastMain, PastWorker, PastOther DEF Next
<1> QED BY <1>1, SingleInit, PastInit, ReservedAlways, PTL DEF Spec

\* Each block is encoded once, however many launches name the directory and
\* whichever of them are killed.
THEOREM Once ==
  ASSUME ~Overlap
  PROVE  Spec => []EncodedOnce
<1>1. Single => EncodedOnce
  BY DEF Single
<1> QED BY <1>1, PastAlways, PTL

\* Nobody packs, unpacks or aggregates under a running encoder, not even one
\* that outlived its launch.
THEOREM Quiet ==
  ASSUME ~Overlap
  PROVE  Spec => []QuietAfterEncoding
<1>1. TypeOK /\ Past => QuietAfterEncoding
  <2> SUFFICES ASSUME TypeOK, Past, NEW r \in Launches, NEW s \in Launches, NEW b \in Blocks,
                      pc[r] \in AfterEncoding, proc[s][b] # None
               PROVE  proc[s][b].kind = "decode" \/ proc[s][b].at \in {"exited", "dead"}
    BY DEF QuietAfterEncoding
  <2>1. proc[s][b] \in Procs
    BY TypeParts DEF Threads, OrNone, Procs
  <2>2. task[s][b] # "encode"
    BY DEF Past, Calm, Later
  <2>3. ~(proc[s][b].kind = "encode" /\ proc[s][b].at \in {"running", "half"})
    BY <2>2 DEF Past, Awaited
  <2> QED BY <2>1, <2>3 DEF Procs, Busy
<1> QED BY <1>1, PastAlways, PTL

-----------------------------------------------------------------------------
(* What a summary describes                                                *)

\* One encoder made what lies under a block's name; nothing overwrites it, and
\* who is unaltered still was when it was made.
Made(b) ==
  /\ started[b] = 0 => meta[b] = None
  /\ meta[b] # None =>
       /\ meta[b].block = b /\ meta[b].job = lock
       /\ source[b] = Original => meta[b].source = Original
       /\ program["encoder"] = Original => meta[b].encoder = Original
  /\ bin[b] # None => bin[b] = meta[b]
  /\ decoded[b] # None =>
       /\ meta[b] # None /\ decoded[b].record = meta[b]
       /\ program["decoder"] = Original => decoded[b].decoder = Original

\* An encoder that runs finds no metadata, and one that is half done those it
\* wrote; whoever has futures runs under the lock.
Making(r, b) ==
  /\ task[r][b] # "idle" => lock = Job(r)
  /\ proc[r][b] # None =>
       /\ task[r][b] # "idle"
       /\ proc[r][b].kind = "encode" => started[b] # 0
       /\ proc[r][b].kind = "encode" /\ proc[r][b].at = "running" => meta[b] = None
       /\ proc[r][b].kind = "encode" /\ proc[r][b].at = "half" => meta[b] = proc[r][b].out

\* What SummaryGenuine says of a summary.
Consistent(s) ==
  /\ s.reservoir = Whole(s.metas)
  /\ \A b \in Blocks :
       /\ s.metas[b].block = b
       /\ s.metas[b].job = s.job
       /\ s.metas[b].source = Original
       /\ s.reports[b].record = s.metas[b]
       /\ s.reports[b].source = Original
       /\ s.hashes["encoder"] = Original => s.metas[b].encoder = Original
       /\ s.hashes["decoder"] = Original => s.reports[b].decoder = Original

\* What the launch that packs has packed, and what is left of it.
Sealing(r) ==
  /\ pc[r] = "writing" => read[r] = meta /\ reservoir = Torn(r)
  /\ pc[r] = "unpacking" => reservoir = Whole(meta)
  /\ pc[r] = "summing" => Consistent(read[r])

Sealed ==
  checked # None =>
    /\ lock # None
    /\ reservoir = Whole(meta)
    /\ \A b \in Blocks : meta[b] # None
    /\ \A r \in Launches : pc[r] \notin Working

Matched ==
  /\ \A b \in Blocks : Made(b)
  /\ \A r \in Launches, b \in Blocks : Making(r, b)
  /\ \A r \in Launches : Sealing(r)
  /\ Sealed
  /\ SummaryGenuine

LEMMA MatchedInit == Init => Matched
BY DEF Init, Matched, Made, Making, Sealing, Sealed, SummaryGenuine

LEMMA GenuineIsConsistent == SummaryGenuine <=> (summary # None => Consistent(summary))
BY DEF SummaryGenuine, Consistent

LEMMA OneWorks ==
  ASSUME Single, NEW r \in Launches, NEW s \in Launches, pc[r] \in Working, pc[s] \in Working
  PROVE  r = s
<1>1. 0 \in Blocks
  BY PanelAssumption DEF Blocks
<1>2. task[r][0] # "idle" /\ task[s][0] # "idle"
  BY <1>1 DEF Single
<1> QED BY <1>1, <1>2 DEF Single

\* A launch goes on, and neither disk nor subprocesses change.
LEMMA MatchedMove ==
  ASSUME TypeOK, Matched, NEW r \in Launches, NEW to \in Steps,
         pc' = [pc EXCEPT ![r] = to],
         UNCHANGED <<source, program, lock, meta, bin, reservoir, checked, decoded, summary,
                     task, proc, read, started>>,
         to \notin {"writing", "unpacking", "summing"},
         to \in Working => pc[r] \in Working \/ checked = None
  PROVE  Matched'
<1>1. \A s \in Launches : pc'[s] = IF s = r THEN to ELSE pc[s]
  BY DEF TypeOK
<1>2. \A b \in Blocks : Made(b)'
  BY DEF Matched, Made
<1>3. \A s \in Launches, b \in Blocks : Making(s, b)'
  BY DEF Matched, Making, Job
<1>4. \A s \in Launches : Sealing(s)'
  BY <1>1 DEF Matched, Sealing, Consistent
<1>5. Sealed'
  BY <1>1 DEF Matched, Sealed
<1>6. SummaryGenuine'
  BY DEF Matched, SummaryGenuine
<1> QED BY <1>2, <1>3, <1>4, <1>5, <1>6 DEF Matched

\* Nothing changes that a summary goes by.
LEMMA MatchedStay ==
  ASSUME Matched,
         UNCHANGED <<source, program, lock, meta, bin, reservoir, checked, decoded, summary,
                     task, proc, read, started, pc>>
  PROVE  Matched'
BY DEF Matched, Made, Making, Sealing, Sealed, SummaryGenuine, Consistent, Job

LEMMA MatchedMain ==
  ASSUME TypeOK, Written, Reserved, Single, Matched, NEW r \in Launches, Main(r)
  PROVE  Matched'
<1> USE DEF outside, encodings, serialized, disk, threads
<1>0. Threads /\ Store
  BY TypeParts
<1>1. CASE Admit(r) \/ LookForLock(r) \/ Drain(r) \/ Overflow(r) \/ UnpackFails(r)
           \/ AggregateAgain(r) \/ AggregateFails(r)
  <2>1. /\ \E to \in {"again", "admitted", "unlocked", "refused", "failed", "aggregating"} :
             pc' = [pc EXCEPT ![r] = to]
        /\ UNCHANGED <<outside, disk, task, proc, read, started>>
    BY <1>1 DEF Admit, LookForLock, Drain, Overflow, UnpackFails, AggregateAgain, AggregateFails,
       Goto
  <2> QED BY <2>1, MatchedMove DEF Steps, Terminal, Working
<1>2. CASE WriteLock(r)
  <2>1. /\ lock = None /\ summary = None /\ checked = None
        /\ \A s \in Launches : pc[s] \notin Opened
    BY <1>2, LockTells DEF WriteLock, Goto, Reserved, Matched, Sealed
  <2>2. \A b \in Blocks : started[b] = 0 /\ meta[b] = None /\ bin[b] = None /\ decoded[b] = None
    BY <2>1 DEF Single, Matched, Made
  <2>3. \A s \in Launches, b \in Blocks : task[s][b] = "idle" /\ proc[s][b] = None
    BY <2>1 DEF Single, Matched, Making
  <2>4. UNCHANGED <<started, meta, bin, decoded, summary, checked, proc>>
    BY <1>2 DEF WriteLock
  <2>5. \A b \in Blocks : Made(b)'
    BY <2>2, <2>4 DEF Made
  <2>6. \A s \in Launches \ {r}, b \in Blocks : task'[s][b] = "idle"
    BY <1>0, <1>2, <2>3 DEF WriteLock, OpenPool, Threads
  <2>7. lock' = Job(r)
    BY <1>2 DEF WriteLock
  <2>8. \A s \in Launches, b \in Blocks : Making(s, b)'
    BY <2>3, <2>4, <2>6, <2>7 DEF Making, Job
  <2>9. \A s \in Launches : pc'[s] \notin {"writing", "unpacking", "summing"}
    BY <1>0, <1>2, <2>1 DEF WriteLock, Goto, Threads, Opened, AfterEncoding
  <2> QED BY <2>1, <2>4, <2>5, <2>8, <2>9 DEF Matched, Sealing, Sealed, SummaryGenuine
<1>3. ASSUME NEW b \in Blocks, Collect(r, b) PROVE Matched'
  <2>1. CASE pc' = pc
    BY <1>3, <2>1, MatchedStay DEF Collect
  <2>2. CASE pc' = [pc EXCEPT ![r] = "draining"]
    BY <1>3, <2>2, MatchedMove DEF Collect, Steps, Working
  <2> QED BY <1>3, <2>1, <2>2 DEF Collect
<1>4. CASE ClosePool(r)
  <2>1. /\ \E to \in {"packing", "aggregating"} :
             /\ pc' = [pc EXCEPT ![r] = to]
             /\ to = "packing" => pc[r] = "encoding"
        /\ UNCHANGED <<outside, disk, task, proc, read, started>>
    BY <1>4 DEF ClosePool, Goto
  <2> QED BY <2>1, MatchedMove DEF Steps, Working
<1>5. CASE OpenReservoir(r)
  <2>1. /\ pc[r] = "packing" /\ checked = None
        /\ \A s \in Launches \ {r} : pc[s] \notin Working
    BY <1>5, OneWorks DEF OpenReservoir, Goto, Working, Matched, Sealed
  <2>2. \A b \in Blocks : bin[b] = meta[b]
    BY <2>1 DEF Written, Ready, Matched, Made
  <2>3. bin = meta
    BY <1>0, <2>2 DEF Store
  <2>4. /\ \A s \in Launches : pc'[s] = IF s = r THEN "writing" ELSE pc[s]
        /\ \A s \in Launches : read'[s] = IF s = r THEN meta ELSE read[s]
        /\ reservoir' = Torn(r)
    BY <1>0, <1>5, <2>3 DEF OpenReservoir, Goto, Threads
  <2>5. UNCHANGED <<source, program, lock, meta, bin, checked, decoded, summary, task, proc,
                    started>>
    BY <1>5 DEF OpenReservoir
  <2>6. ASSUME NEW s \in Launches PROVE Sealing(s)'
    BY <2>1, <2>4, <2>5 DEF Matched, Sealing, Consistent, Working
  <2> QED BY <2>1, <2>5, <2>6
      DEF Matched, Made, Making, Job, Sealed, SummaryGenuine
<1>6. CASE FinishReservoir(r)
  <2>1. /\ pc[r] = "writing" /\ checked = None
        /\ \A s \in Launches \ {r} : pc[s] \notin Working
    BY <1>6, OneWorks DEF FinishReservoir, Goto, Working, Matched, Sealed
  <2>2. read[r] = meta /\ reservoir.by = r
    BY <2>1 DEF Matched, Sealing, Torn
  <2>3. /\ \A s \in Launches : pc'[s] = IF s = r THEN "unpacking" ELSE pc[s]
        /\ reservoir' = Whole(meta)
    BY <1>0, <1>6, <2>2 DEF FinishReservoir, Goto, Threads
  <2>4. UNCHANGED <<source, program, lock, meta, bin, checked, decoded, summary, task, proc, read,
                    started>>
    BY <1>6 DEF FinishReservoir
  <2>5. ASSUME NEW s \in Launches PROVE Sealing(s)'
    BY <2>1, <2>3, <2>4 DEF Matched, Sealing, Consistent, Working, Whole
  <2> QED BY <2>1, <2>4, <2>5, SMTT(30)
      DEF Matched, Made, Making, Job, Sealed, SummaryGenuine
<1>7. CASE Unpack(r)
  <2>1. /\ pc[r] = "unpacking"
        /\ \A s \in Launches \ {r} : pc[s] \notin Working
    BY <1>7, OneWorks DEF Unpack, Goto, Working
  <2>2. lock # None /\ reservoir = Whole(meta) /\ \A b \in Blocks : meta[b] # None
    BY <2>1, JobTyped, NoneAssumption
    DEF Reserved, Opened, AfterEncoding, Matched, Sealing, Made, Written, Ready
  <2>3. \A s \in Launches : pc'[s] = IF s = r THEN "decoding" ELSE pc[s]
    BY <1>0, <1>7 DEF Unpack, Goto, Threads
  <2>4. UNCHANGED <<source, program, lock, meta, bin, reservoir, decoded, summary, proc, read,
                    started>>
    BY <1>7 DEF Unpack
  <2>5. \A s \in Launches, b \in Blocks : task[s][b] = "idle" => task'[s][b] = "idle"
    <3>1. \A b \in Blocks : task[r][b] # "idle"
      BY <2>1 DEF Single, Working
    <3> QED BY <1>0, <1>7, <3>1 DEF Unpack, OpenPool, Threads
  <2>6. \A s \in Launches, b \in Blocks : proc[s][b] # None => task'[s][b] # "idle"
    <3>1. \A s \in Launches, b \in Blocks : proc[s][b] # None => task[s][b] # "idle"
      BY DEF Matched, Making
    <3> QED BY <1>0, <1>7, <3>1 DEF Unpack, OpenPool, Threads
  <2>7. \A s \in Launches, b \in Blocks : Making(s, b)'
    BY <2>4, <2>5, <2>6 DEF Matched, Making, Job
  <2>8. \A b \in Blocks : Made(b)'
    BY <2>4 DEF Matched, Made
  <2>9. \A s \in Launches : Sealing(s)'
    BY <2>3, <2>4 DEF Matched, Sealing, Consistent
  <2>10. Sealed'
    BY <2>1, <2>2, <2>3, <2>4 DEF Sealed, Working
  <2>11. SummaryGenuine'
    BY <2>4 DEF Matched, SummaryGenuine
  <2> QED BY <2>7, <2>8, <2>9, <2>10, <2>11 DEF Matched
<1>8. CASE Aggregate(r)
  <2>1. /\ lock = Job(r) /\ reservoir = Whole(meta)
        /\ \A b \in Blocks : meta[b] # None
    BY <1>8 DEF Aggregate, Goto, Reserved, Opened, AfterEncoding, Matched, Sealed
  <2> DEFINE S == Summary(Job(r), program, reservoir, meta, decoded)
  <2>2. Consistent(S)
    <3> SUFFICES ASSUME NEW b \in Blocks
                 PROVE  /\ meta[b].block = b
                        /\ meta[b].job = Job(r)
                        /\ meta[b].source = Original
                        /\ decoded[b].record = meta[b]
                        /\ decoded[b].source = Original
                        /\ program["encoder"] = Original => meta[b].encoder = Original
                        /\ program["decoder"] = Original => decoded[b].decoder = Original
      BY <2>1 DEF Summary, Consistent
    <3>1. Aggregable(r, b)
      BY <1>8 DEF Aggregate
    <3>2. Made(b)
      BY DEF Matched
    <3> QED BY <2>1, <3>1, <3>2 DEF Aggregable, Made
  <2>3. /\ \A s \in Launches : pc'[s] = IF s = r THEN "summing" ELSE pc[s]
        /\ \A s \in Launches : read'[s] = IF s = r THEN S ELSE read[s]
    BY <1>0, <1>8 DEF Aggregate, Goto, Threads
  <2>4. UNCHANGED <<source, program, lock, meta, bin, reservoir, checked, decoded, summary, task,
                    proc, started>>
    BY <1>8 DEF Aggregate
  <2> HIDE DEF S
  <2>5. ASSUME NEW s \in Launches PROVE Sealing(s)'
    <3>1. CASE s = r
      BY <2>2, <2>3, <3>1 DEF Sealing, Consistent
    <3>2. CASE s # r
      BY <2>3, <2>4, <3>2 DEF Matched, Sealing, Consistent
    <3> QED BY <3>1, <3>2
  <2>6. Sealed'
    BY <2>3, <2>4 DEF Matched, Sealed, Working
  <2> QED BY <2>4, <2>5, <2>6 DEF Matched, Made, Making, Job, SummaryGenuine
<1>9. CASE WriteSummary(r)
  <2>1. Consistent(read[r])
    BY <1>9 DEF WriteSummary, Goto, Matched, Sealing
  <2>2. \A s \in Launches : pc'[s] \in {"passed", "gated"} \/ pc'[s] = pc[s]
    BY <1>0, <1>9 DEF WriteSummary, Goto, Threads
  <2>3. UNCHANGED <<source, program, lock, meta, bin, reservoir, checked, decoded, task, proc, read,
                    started>> /\ summary' = read[r]
    BY <1>9 DEF WriteSummary
  <2>4. SummaryGenuine'
    BY <2>1, <2>3 DEF SummaryGenuine, Consistent
  <2>5. ASSUME NEW s \in Launches PROVE Sealing(s)'
    BY <2>2, <2>3 DEF Matched, Sealing, Consistent
  <2>6. Sealed'
    BY <2>2, <2>3 DEF Matched, Sealed, Working
  <2> QED BY <2>3, <2>4, <2>5, <2>6 DEF Matched, Made, Making, Job
<1> QED BY <1>1, <1>2, <1>3, <1>4, <1>5, <1>6, <1>7, <1>8, <1>9 DEF Main

\* A step that concerns one block of one launch, and leaves the metadata.
LEMMA MatchedBlock ==
  ASSUME Matched, NEW r \in Launches, NEW b \in Blocks,
         UNCHANGED <<pc, read, source, program, lock, meta, reservoir, checked, summary>>,
         \A c \in Blocks \ {b} : UNCHANGED <<bin[c], decoded[c], started[c]>>,
         \A s \in Launches, c \in Blocks :
           <<s, c>> # <<r, b>> => UNCHANGED <<task[s][c], proc[s][c]>>,
         \A s \in Launches : s # r => task[s][b] = "idle",
         Made(b)', Making(r, b)'
  PROVE  Matched'
<1>1. ASSUME NEW c \in Blocks PROVE Made(c)'
  <2>1. CASE c = b
    BY <2>1
  <2>2. CASE c # b
    BY <2>2 DEF Matched, Made
  <2> QED BY <2>1, <2>2
<1>2. ASSUME NEW s \in Launches, NEW c \in Blocks PROVE Making(s, c)'
  <2>1. CASE s = r /\ c = b
    BY <2>1
  <2>2. CASE s # r /\ c = b
    BY <2>2 DEF Matched, Making, Job
  <2>3. CASE c # b
    BY <2>3 DEF Matched, Making, Job
  <2> QED BY <2>1, <2>2, <2>3
<1>3. (\A s \in Launches : Sealing(s)') /\ Sealed' /\ SummaryGenuine'
  BY DEF Matched, Sealing, Sealed, SummaryGenuine, Consistent
<1> QED BY <1>1, <1>2, <1>3 DEF Matched

LEMMA MatchedWorker ==
  ASSUME TypeOK, Single, Past, Matched, NEW r \in Launches, NEW b \in Blocks, Worker(r, b)
  PROVE  Matched'
<1> USE DEF outside, encodings, serialized, disk, threads
<1>0. Threads /\ Store /\ Made(b) /\ Making(r, b)
  BY TypeParts DEF Matched
<1>1. task[r][b] # "idle" /\ \A s \in Launches : s # r => task[s][b] = "idle"
  <2>1. task[r][b] # "idle"
    BY <1>0
    DEF Worker, BeginEncode, BeginDecode, EncoderWritesMeta, EncoderWritesBin, DecoderWrites,
        SubprocessFails, Return, IsNext, ProcAt, Making, Busy
  <2> QED BY <2>1 DEF Single
<1> DEFINE Others == \A s \in Launches, c \in Blocks :
             <<s, c>> # <<r, b>> => UNCHANGED <<task[s][c], proc[s][c]>>
<1>2. CASE BeginEncode(r, b)
  <2>1. task[r][b] = "to encode" /\ started[b] = 0 /\ meta[b] = None
    BY <1>0, <1>2 DEF BeginEncode, IsNext, Single, Made
  <2>2. UNCHANGED <<outside, disk, pc, read>>
    BY <1>2 DEF BeginEncode
  <2>3. CASE source[b] = Original
    <3>1. /\ task' = [task EXCEPT ![r][b] = "encode"]
          /\ proc' = [proc EXCEPT ![r][b] = Subprocess("encode")]
          /\ started' = [started EXCEPT ![b] = started[b] + 1]
      BY <1>2, <2>3 DEF BeginEncode
    <3>2. Others /\ task'[r][b] = "encode" /\ proc'[r][b] = Subprocess("encode")
      BY <1>0, <3>1 DEF Threads
    <3>3. started'[b] # 0 /\ \A c \in Blocks \ {b} : started'[c] = started[c]
      <4>1. started \in [Blocks -> Nat]
        BY <1>0 DEF Store
      <4>2. started'[b] = 0 + 1
        BY <2>1, <3>1, <4>1
      <4> QED BY <3>1, <4>1, <4>2
    <3>4. Made(b)'
      BY <1>0, <2>2, <3>3 DEF Made
    <3>5. Making(r, b)'
      <4>1. proc'[r][b].at = "running"
        BY <3>2 DEF Subprocess
      <4>2. lock = Job(r)
        BY <1>0, <1>1 DEF Making
      <4>3. lock' = lock /\ meta'[b] = None
        BY <2>1, <2>2
      <4> QED BY <3>2, <3>3, <4>1, <4>2, <4>3 DEF Making, Job
    <3> QED BY <1>1, <2>2, <3>2, <3>3, <3>4, <3>5, MatchedBlock
  <2>4. CASE source[b] # Original
    <3>1. task' = [task EXCEPT ![r][b] = "failed"] /\ UNCHANGED <<proc, started>>
      BY <1>2, <2>4 DEF BeginEncode
    <3>2. Others /\ task'[r][b] = "failed"
      BY <1>0, <3>1 DEF Threads
    <3>3. Made(b)' /\ Making(r, b)'
      BY <1>0, <1>1, <2>2, <3>1, <3>2 DEF Made, Making, Job
    <3> QED BY <1>1, <2>2, <3>1, <3>2, <3>3, MatchedBlock
  <2> QED BY <2>3, <2>4
<1>3. CASE BeginDecode(r, b)
  <2>1. Others /\ task'[r][b] = "decode" /\ proc'[r][b] = Subprocess("decode")
    BY <1>0, <1>3 DEF BeginDecode, Threads
  <2>2. UNCHANGED <<outside, disk, pc, read, started>>
    BY <1>3 DEF BeginDecode
  <2>3. Made(b)' /\ Making(r, b)'
    BY <1>0, <1>1, <2>1, <2>2 DEF Made, Making, Subprocess, Job
  <2> QED BY <1>1, <2>1, <2>2, <2>3, MatchedBlock
<1>4. CASE EncoderWritesMeta(r, b)
  <2>1. /\ proc[r][b] # None /\ proc[r][b].kind = "encode" /\ proc[r][b].at = "running"
        /\ proc[r][b] \in Procs
    BY <1>0, <1>4 DEF EncoderWritesMeta, ProcAt, Threads, OrNone, Procs
  <2>2. /\ meta[b] = None /\ bin[b] = None /\ decoded[b] = None /\ started[b] # 0
        /\ lock = Job(r)
    BY <1>0, <1>1, <2>1 DEF Making, Made
  <2>3. /\ meta' = [meta EXCEPT ![b] = Encoding(b, Job(r), source[b], program["encoder"])]
        /\ meta'[b] = Encoding(b, Job(r), source[b], program["encoder"])
        /\ \A c \in Blocks \ {b} : meta'[c] = meta[c]
    BY <1>0, <1>4 DEF EncoderWritesMeta, Store
  <2>4. /\ proc'[r][b].at = "half" /\ proc'[r][b].kind = "encode" /\ proc'[r][b].out = meta'[b]
        /\ \A s \in Launches, c \in Blocks : <<s, c>> # <<r, b>> => proc'[s][c] = proc[s][c]
    BY <1>0, <1>4, <2>1 DEF EncoderWritesMeta, Threads, Procs
  <2>5. UNCHANGED <<outside, lock, bin, serialized, decoded, summary, pc, task, read, started>>
    BY <1>4 DEF EncoderWritesMeta
  <2>6. Made(b)'
    BY <2>2, <2>3, <2>5 DEF Made, Encoding
  <2>7. ASSUME NEW c \in Blocks PROVE Made(c)'
    <3>1. CASE c # b
      BY <2>3, <2>5, <3>1 DEF Matched, Made
    <3> QED BY <2>6, <3>1
  <2>8. ASSUME NEW s \in Launches, NEW c \in Blocks PROVE Making(s, c)'
    <3>1. Making(s, c)
      BY DEF Matched
    <3>2. CASE s = r /\ c = b
      BY <1>1, <2>2, <2>4, <2>5, <3>2 DEF Making, Job
    <3>3. CASE s # r /\ c = b
      BY <1>1, <2>4, <2>5, <3>1, <3>3 DEF Making, Job
    <3>4. CASE c # b
      BY <2>3, <2>4, <2>5, <3>1, <3>4 DEF Making, Job
    <3> QED BY <3>2, <3>3, <3>4
  <2>9. \A s \in Launches : pc[s] \notin {"writing", "unpacking"}
    <3>1. ~Calm
      BY <1>0, <2>1 DEF Past, Awaited, Calm
    <3> QED BY <3>1 DEF Past, Later, AfterEncoding
  <2>10. \A s \in Launches : Sealing(s)'
    BY <2>5, <2>9 DEF Matched, Sealing, Consistent
  <2>11. Sealed'
    BY <2>2, <2>5 DEF Matched, Sealed
  <2>12. SummaryGenuine'
    BY <2>5 DEF Matched, SummaryGenuine
  <2> QED BY <2>7, <2>8, <2>10, <2>11, <2>12 DEF Matched
<1>5. CASE EncoderWritesBin(r, b)
  <2>1. /\ proc[r][b] # None /\ proc[r][b].kind = "encode" /\ proc[r][b].at = "half"
        /\ proc[r][b] \in Procs
    BY <1>0, <1>5 DEF EncoderWritesBin, ProcAt, Threads, OrNone, Procs
  <2>2. /\ bin'[b] = meta[b]
        /\ \A c \in Blocks \ {b} : bin'[c] = bin[c]
    BY <1>0, <1>5, <2>1 DEF EncoderWritesBin, Making, Store
  <2>3. /\ proc'[r][b].at = "exited" /\ proc'[r][b].kind = "encode"
        /\ \A s \in Launches, c \in Blocks : <<s, c>> # <<r, b>> => proc'[s][c] = proc[s][c]
    BY <1>0, <1>5, <2>1 DEF EncoderWritesBin, Threads, Procs
  <2>4. UNCHANGED <<outside, lock, meta, serialized, decoded, summary, pc, task, read, started>>
    BY <1>5 DEF EncoderWritesBin
  <2>5. Made(b)' /\ Making(r, b)'
    BY <1>0, <1>1, <2>1, <2>2, <2>3, <2>4 DEF Made, Making, Job
  <2>6. Others
    BY <2>3, <2>4
  <2> QED BY <1>1, <2>2, <2>4, <2>5, <2>6, MatchedBlock
<1>6. CASE DecoderWrites(r, b)
  <2>1. /\ proc[r][b] # None /\ proc[r][b].kind = "decode" /\ proc[r][b] \in Procs
    BY <1>0, <1>6 DEF DecoderWrites, ProcAt, Threads, OrNone, Procs
  <2>2. /\ meta[b] # None
        /\ decoded'[b] = Report(meta[b], source[b], program["decoder"])
        /\ \A c \in Blocks \ {b} : decoded'[c] = decoded[c]
    BY <1>0, <1>6 DEF DecoderWrites, Decodable, Store
  <2>3. /\ proc'[r][b].kind = "decode"
        /\ \A s \in Launches, c \in Blocks : <<s, c>> # <<r, b>> => proc'[s][c] = proc[s][c]
    BY <1>0, <1>6, <2>1 DEF DecoderWrites, Threads, Procs
  <2>4. UNCHANGED <<outside, lock, encodings, serialized, summary, pc, task, read, started>>
    BY <1>6 DEF DecoderWrites
  <2>5. Made(b)' /\ Making(r, b)'
    BY <1>0, <1>1, <2>2, <2>3, <2>4 DEF Made, Making, Job, Report
  <2>6. Others
    BY <2>3, <2>4
  <2> QED BY <1>1, <2>2, <2>4, <2>5, <2>6, MatchedBlock
<1>7. CASE SubprocessFails(r, b)
  <2>1. /\ proc[r][b] # None /\ proc[r][b] \in Procs
    BY <1>0, <1>7 DEF SubprocessFails, Threads, OrNone, Procs
  <2>2. /\ proc'[r][b].at = "dead" /\ proc'[r][b].kind = proc[r][b].kind
        /\ \A s \in Launches, c \in Blocks : <<s, c>> # <<r, b>> => proc'[s][c] = proc[s][c]
    BY <1>0, <1>7, <2>1 DEF SubprocessFails, Threads, Procs
  <2>3. UNCHANGED <<outside, disk, pc, task, read, started>>
    BY <1>7 DEF SubprocessFails
  <2>4. Made(b)' /\ Making(r, b)'
    BY <1>0, <1>1, <2>1, <2>2, <2>3 DEF Made, Making, Job
  <2>5. Others
    BY <2>2, <2>3
  <2> QED BY <1>1, <2>3, <2>4, <2>5, MatchedBlock
<1>8. CASE Return(r, b)
  <2>1. Others /\ task'[r][b] \in Finished /\ proc'[r][b] = None
    <3>1. PICK v \in Finished : task' = [task EXCEPT ![r][b] = v]
      BY <1>8 DEF Return, Finished
    <3>2. proc' = [proc EXCEPT ![r][b] = None]
      BY <1>8 DEF Return
    <3> QED BY <1>0, <3>1, <3>2 DEF Threads
  <2>2. UNCHANGED <<outside, disk, pc, read, started>>
    BY <1>8 DEF Return
  <2>3. Made(b)' /\ Making(r, b)'
    BY <1>0, <1>1, <2>1, <2>2 DEF Made, Making, Job, Finished
  <2> QED BY <1>1, <2>1, <2>2, <2>3, MatchedBlock
<1> QED BY <1>2, <1>3, <1>4, <1>5, <1>6, <1>7, <1>8 DEF Worker

LEMMA MatchedOther ==
  ASSUME TypeOK, Matched, FromOutside \/ UNCHANGED vars
  PROVE  Matched'
<1> USE DEF outside, encodings, serialized, disk, threads
<1>1. ASSUME NEW r \in Launches, Kill(r) PROVE Matched'
  BY <1>1, MatchedMove DEF Kill, Steps, Terminal, Working
<1>2. ASSUME UNCHANGED <<disk, pc, threads, read, started>>,
             \A b \in Blocks : source'[b] = Original => source[b] = Original,
             \A p \in Programs : program'[p] = Original => program[p] = Original
      PROVE  Matched'
  <2>1. \A b \in Blocks : Made(b)'
    BY <1>2 DEF Matched, Made, Programs
  <2>2. \A s \in Launches, b \in Blocks : Making(s, b)'
    BY <1>2 DEF Matched, Making, Job
  <2>3. (\A s \in Launches : Sealing(s)') /\ Sealed' /\ SummaryGenuine'
    BY <1>2 DEF Matched, Sealing, Sealed, SummaryGenuine, Consistent
  <2> QED BY <2>1, <2>2, <2>3 DEF Matched
<1>3. ASSUME NEW b \in Blocks, DriftSource(b) PROVE Matched'
  BY <1>2, <1>3 DEF DriftSource, TypeOK, Original, Altered
<1>4. ASSUME NEW p \in Programs, DriftProgram(p) PROVE Matched'
  BY <1>2, <1>4 DEF DriftProgram, TypeOK, Original, Altered
<1>5. CASE UNCHANGED vars
  BY <1>5, MatchedStay DEF vars
<1> QED BY <1>1, <1>3, <1>4, <1>5 DEF FromOutside

LEMMA MatchedAlways ==
  ASSUME ~Overlap
  PROVE  Spec => []Matched
<1>1. /\ TypeOK /\ Written /\ Reserved /\ Single /\ Past /\ Matched
      /\ [Next]_vars
      => Matched'
  BY MatchedMain, MatchedWorker, MatchedOther DEF Next
<1> QED BY <1>1, MatchedInit, Always, ReservedAlways, PastAlways, PTL DEF Spec

\* A summary describes one run of one job, from the sources to the reservoir,
\* whoever was killed and whatever was edited on the way.
THEOREM GenuineSummary ==
  ASSUME ~Overlap
  PROVE  Spec => []SummaryGenuine
<1>1. Matched => SummaryGenuine
  BY DEF Matched
<1> QED BY <1>1, MatchedAlways, PTL

\* What the paired audit accepts is the pinned encoder's work on the published
\* sources, as the pinned decoder found it in the reservoir.
THEOREM GenuineAudited ==
  ASSUME ~Overlap
  PROVE  Spec => []AuditedGenuine
<1>1. Matched => AuditedGenuine
  <2> SUFFICES ASSUME Matched, NEW v \in Variants, AuditAccepts(v)
               PROVE  /\ reservoir = Whole(meta)
                      /\ \A b \in Blocks :
                           /\ meta[b].source = Original /\ meta[b].encoder = Original
                           /\ decoded[b].decoder = Original
    BY DEF AuditedGenuine
  <2>1. reservoir = Whole(meta)
    BY DEF AuditAccepts, Matched, Sealed
  <2>2. Consistent(summary)
    BY GenuineIsConsistent DEF AuditAccepts, Matched
  <2>3. ASSUME NEW b \in Blocks
        PROVE  /\ meta[b].source = Original /\ meta[b].encoder = Original
               /\ decoded[b].decoder = Original
    <3>1. summary.hashes["encoder"] = Original /\ summary.hashes["decoder"] = Original
      BY DEF AuditAccepts, Programs
    <3>2. decoded[b].record = meta[b] /\ summary.reports[b] = decoded[b]
      BY DEF AuditAccepts
    <3>3. summary.metas[b] = meta[b]
      BY <2>2, <3>2 DEF Consistent
    <3> QED BY <2>2, <3>1, <3>2, <3>3 DEF Consistent
  <2> QED BY <2>1, <2>3
<1> QED BY <1>1, MatchedAlways, PTL

=============================================================================
