----------------------------- MODULE Reservoir -----------------------------
(***************************************************************************)
(* The checkpoint-global reservoir file: src/reservoir_pack_v2.py writes   *)
(* the arithmetic messages of all blocks into one bit-contiguous payload   *)
(* of fixed capacity, src/reservoir_unpack_v2.py validates the file and    *)
(* cuts it into one byte-aligned record per block again.                   *)
(*                                                                         *)
(* Packer and unpackers are processes of their own that meet only in the   *)
(* file system.  Each may be killed, the file may be rewritten while it is *)
(* being read, and any file may be presented as a reservoir.  A SHA-256    *)
(* digest is modelled by the content it is the digest of, a byte by its    *)
(* bits, most significant first.                                           *)
(***************************************************************************)
EXTENDS Integers, SequencesExt

CONSTANTS
  BlockCount,  \* blocks of a checkpoint; every file here has as many
  ByteBits,    \* bits of a byte (eight in the code)
  Budget,      \* PAYLOAD_BUDGET_BITS_PER_BLOCK = PAYLOAD_CAPACITY_BITS_PER_BLOCK
  ChunkBits,   \* EXTRACT_CHUNK_BITS
  Jobs,        \* sequences of legacy containers a packer may be started on
  Forgeries,   \* files that may be presented as a reservoir
  Unpackers,   \* unpackers started on the file, with one --output-dir
  MaxFiles,    \* bound: runs of the packer, and files presented from outside
  None

ASSUME ReservoirAssumption ==
  /\ BlockCount \in Nat \ {0}
  /\ ByteBits \in Nat \ {0}
  /\ Budget \in Nat /\ Budget % ByteBits = 0
  /\ ChunkBits \in Nat \ {0} /\ ChunkBits % ByteBits = 0
  /\ MaxFiles \in Nat

\* The documents and the file, field by field.  (Provers do not know a literal
\* to be in STRING: the two that Half adds are named.)
Scales == STRING \cup {"zero", "inf"}
LegacyContainers == [bits : Nat, scale : Scales, payload : Seq({0, 1})]
Directories == Seq([bits : Nat, scale : Scales])
Headers ==
  [blocks : Nat, entries : Nat, logical : Nat, directory : Directories, payload : Seq({0, 1})]
ReservoirFiles == [header : Headers, directory : Directories, payload : Seq({0, 1})]
CheckpointMessages == Seq([bits : Seq({0, 1}), scale : Scales])

ASSUME FilesAssumption ==
  /\ \A j \in Jobs : j \in Seq(LegacyContainers) /\ Len(j) = BlockCount
  /\ \A f \in Forgeries : f \in ReservoirFiles /\ Len(f.directory) = BlockCount
  /\ None \notin ReservoirFiles /\ None \notin Seq(LegacyContainers)
  /\ None \notin CheckpointMessages

VARIABLES
  file,       \* the reservoir: None or its header, directory and payload
  packAudit,  \* the packer's audit JSON, None when absent
  output,     \* the directory of records, None when absent
  audit,      \* the unpacker's audit JSON, None when absent
  (* memory of the packer *)
  ppc, job,
  sink,       \* StreamingBitSink: bits pending, and logical bits appended
  (* memory of each unpacker *)
  upc,
  seen,       \* ValidatedReservoir: what the file said when it was validated
  at,         \* where extraction is: entry, start, cursor, remaining bits
  staging,    \* records written to the staging directory
  (* observation *)
  touched,    \* unpackers whose file changed after their first stat
  files       \* runs of the packer, and files presented from outside

packer == <<packAudit, ppc, job, sink>>
unpacker == <<output, audit, upc, seen, at, staging>>
vars == <<file, packer, unpacker, touched, files>>

\* The ninety-six zero bytes that hold the header's place.
Blank == [blocks |-> 0, entries |-> 0, logical |-> 0, directory |-> <<>>, payload |-> <<>>]
Capacity == Budget * BlockCount
Zeros(n) == [i \in 1 .. n |-> 0]
RoundUp(n) == n + ((-n) % ByteBits)

\* Where each block of a job, or of a directory, ends in the payload.
Offsets(blocks) ==
  LET offset[i \in 0 .. Len(blocks)] == IF i = 0 THEN 0 ELSE offset[i - 1] + blocks[i].bits
  IN  offset
TotalOf(blocks) == Offsets(blocks)[Len(blocks)]

Init ==
  /\ file = None /\ packAudit = None /\ output = None /\ audit = None
  /\ ppc = "idle" /\ job = <<>>
  /\ sink = [pending |-> <<>>, logical |-> 0, next |-> 1]
  /\ upc = [u \in Unpackers |-> "idle"]
  /\ seen = [u \in Unpackers |-> None]
  /\ at = [u \in Unpackers |-> None]
  /\ staging = [u \in Unpackers |-> <<>>]
  /\ touched = {}
  /\ files = 0

\* A write is seen by the second stat of whoever has taken the first.
Write(content) ==
  /\ file' = content
  /\ touched' = Unpackers

-----------------------------------------------------------------------------
(* The packer                                                              *)

\* Scales are told apart by what becomes of them in binary16: "tiny" rounds
\* to zero and "huge" to infinity.
Half(scale) ==
  CASE scale = "tiny" -> "zero"
    [] scale = "huge" -> "inf"
    [] OTHER -> scale
Positive(scale) == scale \notin {"zero", "negative", "inf", "nan"}

\* parse_legacy: length field, scale and tail padding of a legacy container.
Legal(c) ==
  /\ Len(c.payload) = RoundUp(c.bits)
  /\ c.bits > 0
  /\ Positive(c.scale)
  /\ SubSeq(c.payload, c.bits + 1, Len(c.payload)) = Zeros(Len(c.payload) - c.bits)
  /\ Positive(Half(c.scale))

\* A packer that leaves the capacity to the sink's own check.
FitsAnyway(j) == TRUE
Fits(j) == TotalOf(j) <= Capacity

DirectoryOf(j) == [i \in DOMAIN j |-> [bits |-> j[i].bits, scale |-> Half(j[i].scale)]]

\* All inputs are read and checked before the output is opened.
StartPack(j) ==
  /\ ppc = "idle"
  /\ files < MaxFiles
  /\ files' = files + 1
  /\ IF (\A i \in DOMAIN j : Legal(j[i])) /\ Fits(j)
     THEN ppc' = "parsed" /\ job' = j
     ELSE UNCHANGED <<ppc, job>>
  /\ UNCHANGED <<file, packAudit, sink, unpacker, touched>>

\* open("w+b") cuts the old file off; zeros keep the header's place.
OpenOutput ==
  /\ ppc = "parsed"
  /\ ppc' = "appending"
  /\ Write([header |-> Blank, directory |-> DirectoryOf(job), payload |-> <<>>])
  /\ sink' = [pending |-> <<>>, logical |-> 0, next |-> 1]
  /\ UNCHANGED <<packAudit, job, unpacker, files>>

\* A sink that forgets the bits it could not write yet.
AppendBlockDropping ==
  /\ ppc = "appending"
  /\ sink.next <= Len(job)
  /\ LET bits == SubSeq(job[sink.next].payload, 1, job[sink.next].bits)
         complete == (Len(bits) \div ByteBits) * ByteBits
     IN  /\ Write([file EXCEPT !.payload = @ \o SubSeq(bits, 1, complete)])
         /\ sink' = [pending |-> SubSeq(bits, complete + 1, Len(bits)),
                     logical |-> sink.logical + job[sink.next].bits,
                     next |-> sink.next + 1]
  /\ UNCHANGED <<packAudit, ppc, job, unpacker, files>>

\* StreamingBitSink.append: whole bytes are written, the rest stays pending.
AppendBlock ==
  /\ ppc = "appending"
  /\ sink.next <= Len(job)
  /\ LET bits == sink.pending \o SubSeq(job[sink.next].payload, 1, job[sink.next].bits)
         complete == (Len(bits) \div ByteBits) * ByteBits
     IN  /\ Write([file EXCEPT !.payload = @ \o SubSeq(bits, 1, complete)])
         /\ sink' = [pending |-> SubSeq(bits, complete + 1, Len(bits)),
                     logical |-> sink.logical + job[sink.next].bits,
                     next |-> sink.next + 1]
  /\ UNCHANGED <<packAudit, ppc, job, unpacker, files>>

\* StreamingBitSink.finish: the last byte is padded and the reservoir filled
\* up.  (The sink's own capacity check repeats Fits and cannot fail.)
Finish ==
  /\ ppc = "appending"
  /\ sink.next > Len(job)
  /\ sink.logical <= Capacity
  /\ LET tail == IF sink.pending = <<>> THEN <<>>
                 ELSE sink.pending \o Zeros(ByteBits - Len(sink.pending))
         flushed == file.payload \o tail
     IN  Write([file EXCEPT !.payload = flushed \o Zeros(Capacity - Len(flushed))])
  /\ ppc' = "finished"
  /\ UNCHANGED <<packAudit, job, sink, unpacker, files>>

\* The header is the last thing written, over its zeros.
WriteHeader ==
  /\ ppc = "finished"
  /\ ppc' = "packed"
  /\ Write([file EXCEPT !.header =
       [blocks |-> Len(job), entries |-> Len(job), logical |-> sink.logical,
        directory |-> DirectoryOf(job), payload |-> file.payload]])
  /\ UNCHANGED <<packAudit, job, sink, unpacker, files>>

\* main: the audit lists what was parsed and the digest of the file on disk.
WritePackAudit ==
  /\ ppc = "packed"
  /\ ppc' = "idle"
  /\ packAudit' = [inputs |-> job, reservoir |-> file]
  /\ UNCHANGED <<file, job, sink, unpacker, touched, files>>

\* Killed, with the end of the payload still in the handle's buffer.
CrashPacker ==
  /\ ppc # "idle"
  /\ ppc' = "idle"
  /\ \/ /\ ppc \in {"appending", "finished"}
        /\ \E n \in 0 .. Len(file.payload) : Write([file EXCEPT !.payload = SubSeq(@, 1, n)])
     \/ UNCHANGED <<file, touched>>
  /\ UNCHANGED <<packAudit, job, sink, unpacker, files>>

-----------------------------------------------------------------------------
(* The unpacker: validation                                                *)

UGoto(u, from, to) ==
  /\ upc[u] = from
  /\ upc' = [upc EXCEPT ![u] = to]

\* path.stat() before the first byte is read.
Stat(u) ==
  /\ UGoto(u, "idle", "reading")
  /\ file # None
  /\ touched' = touched \ {u}
  /\ UNCHANGED <<file, packer, output, audit, seen, at, staging, files>>

\* The header, and the sizes it implies for directory and file.
Framed(f) ==
  /\ f.header # Blank
  /\ f.header.blocks > 0
  /\ f.header.entries = f.header.blocks
  /\ Len(f.directory) = f.header.blocks
  /\ Len(f.payload) = Budget * f.header.blocks

EntriesHold(f) ==
  /\ \A i \in DOMAIN f.directory : f.directory[i].bits > 0 /\ Positive(f.directory[i].scale)
  /\ TotalOf(f.directory) = f.header.logical
  /\ f.header.logical <= Budget * f.header.blocks

\* A suffix that the digest covers needs no further check.
SuffixUnchecked(f) == TRUE

\* Every bit behind the logical payload is zero, the boundary byte's included.
SuffixZero(f) == \A i \in f.header.logical + 1 .. Len(f.payload) : f.payload[i] = 0

\* validate_reservoir; the payload digest covers the whole capacity.
Valid(f) ==
  /\ Framed(f)
  /\ f.header.directory = f.directory
  /\ EntriesHold(f)
  /\ SuffixZero(f)
  /\ f.header.payload = f.payload

\* The second stat refuses a file that changed; whatever was read from it is
\* then of no account.
Validate(u) ==
  /\ \/ /\ UGoto(u, "reading", "validated")
        /\ u \notin touched
        /\ Valid(file)
        /\ seen' = [seen EXCEPT ![u] = file]
     \/ /\ UGoto(u, "reading", "refused")
        /\ u \in touched \/ ~Valid(file)
        /\ UNCHANGED seen
  /\ UNCHANGED <<file, packer, output, audit, at, staging, touched, files>>

-----------------------------------------------------------------------------
(* The unpacker: extraction                                                *)

EntryAt(u, entry, start) ==
  [entry |-> entry, start |-> start, cursor |-> start,
   remaining |-> IF entry > BlockCount THEN 0 ELSE seen[u].directory[entry].bits, record |-> <<>>]

\* extract_variable_records refuses a directory that is there, then makes a
\* staging directory beside it and opens the reservoir again.
OpenStaging(u) ==
  /\ \/ /\ UGoto(u, "validated", "extracting")
        /\ output = None
        /\ staging' = [staging EXCEPT ![u] = <<>>]
        /\ at' = [at EXCEPT ![u] = EntryAt(u, 1, 0)]
     \/ /\ UGoto(u, "validated", "refused")
        /\ output # None
        /\ UNCHANGED <<staging, at>>
  /\ UNCHANGED <<file, packer, output, audit, seen, touched, files>>

\* A chunk that may end inside an output byte although more bits follow.
TakeUnaligned(remaining) == Min({remaining, ChunkBits - 1})

\* Every chunk but the last ends on a byte of the output.
Take(remaining) ==
  LET take == Min({remaining, ChunkBits})
  IN  IF take < remaining THEN take - (take % ByteBits) ELSE take

\* The bytes that hold the bits from cursor on, or fewer at the end of the file.
Slice(cursor, take) ==
  LET first == (cursor \div ByteBits) * ByteBits
      count == RoundUp((cursor % ByteBits) + take)
  IN  SubSeq(file.payload, first + 1, Min({first + count, Len(file.payload)}))

\* Shifted right by the trailing bits, masked to the bits taken, and shifted
\* left by the padding of the last byte.
Repacked(physical, offset, take) ==
  IF offset = 0 /\ take % ByteBits = 0 THEN physical
  ELSE LET shifted == SubSeq(physical, 1, offset + take)
           masked == SubSeq(shifted, Len(shifted) - take + 1, Len(shifted))
       IN  masked \o Zeros((-take) % ByteBits)

\* One chunk of _iter_repacked_bits, and the bookkeeping of the entry it ends.
ExtractChunk(u) ==
  LET here == at[u]
      take == Take(here.remaining)
      offset == here.cursor % ByteBits
      physical == Slice(here.cursor, take)
      record == here.record \o Repacked(physical, offset, take)
      entry == seen[u].directory[here.entry]
  IN  /\ upc[u] = "extracting"
      /\ here.entry <= BlockCount
      /\ \/ /\ Len(physical) = RoundUp(offset + take)
            /\ UNCHANGED upc
            /\ IF take < here.remaining
               THEN /\ at' = [at EXCEPT ![u] = [here EXCEPT !.cursor = @ + take,
                                                            !.remaining = @ - take,
                                                            !.record = record]]
                    /\ UNCHANGED staging
               ELSE /\ at' = [at EXCEPT ![u] = EntryAt(u, here.entry + 1, here.start + entry.bits)]
                    /\ staging' = [staging EXCEPT ![u] = Append(@,
                         [bits |-> entry.bits, scale |-> entry.scale, payload |-> record])]
         \/ /\ Len(physical) # RoundUp(offset + take)
            /\ upc' = [upc EXCEPT ![u] = "refused"]
            /\ staging' = [staging EXCEPT ![u] = <<>>]
            /\ UNCHANGED at
      /\ UNCHANGED <<file, packer, output, audit, seen, touched, files>>

\* A rename that replaces what is there.
RenameReplaces(u) ==
  /\ UGoto(u, "extracting", "renamed")
  /\ at[u].entry > BlockCount
  /\ output' = staging[u]
  /\ UNCHANGED <<file, packer, audit, seen, at, staging, touched, files>>

\* The staging directory becomes the output; a directory with records in it is
\* not replaced, and the staging directory is then removed.
Rename(u) ==
  /\ upc[u] = "extracting"
  /\ at[u].entry > BlockCount
  /\ \/ /\ UGoto(u, "extracting", "renamed")
        /\ output = None
        /\ output' = staging[u]
        /\ UNCHANGED staging
     \/ /\ UGoto(u, "extracting", "refused")
        /\ output # None
        /\ staging' = [staging EXCEPT ![u] = <<>>]
        /\ UNCHANGED output
  /\ UNCHANGED <<file, packer, audit, seen, at, touched, files>>

\* _write_json_atomic, after the records are in place.
WriteAudit(u) ==
  /\ UGoto(u, "renamed", "unpacked")
  /\ audit' = [reservoir |-> seen[u], blocks |-> staging[u]]
  /\ UNCHANGED <<file, packer, output, seen, at, staging, touched, files>>

CrashUnpacker(u) ==
  /\ upc[u] \in {"reading", "validated", "extracting", "renamed"}
  /\ upc' = [upc EXCEPT ![u] = "crashed"]
  /\ UNCHANGED <<file, packer, output, audit, seen, at, staging, touched, files>>

\* Any file is put in the reservoir's place while no packer has it open.
Present(f) ==
  /\ ppc = "idle"
  /\ files < MaxFiles
  /\ files' = files + 1
  /\ Write(f)
  /\ UNCHANGED <<packer, unpacker>>

-----------------------------------------------------------------------------
Pack ==
  \/ \E j \in Jobs : StartPack(j)
  \/ OpenOutput \/ AppendBlock \/ Finish \/ WriteHeader \/ WritePackAudit \/ CrashPacker

Unpack(u) ==
  \/ Stat(u) \/ Validate(u) \/ OpenStaging(u) \/ ExtractChunk(u) \/ Rename(u) \/ WriteAudit(u)
  \/ CrashUnpacker(u)

Next ==
  \/ Pack
  \/ \E u \in Unpackers : Unpack(u)
  \/ \E f \in Forgeries : Present(f)

Spec == Init /\ [][Next]_vars

-----------------------------------------------------------------------------
(* Properties                                                              *)

\* The blocks of a checkpoint, and the file they make: the reference that the
\* sink's and the repacker's arithmetic is held against.
Messages(j) ==
  [i \in DOMAIN j |-> [bits |-> SubSeq(j[i].payload, 1, j[i].bits), scale |-> Half(j[i].scale)]]

Stream(messages) == FlattenSeq([i \in DOMAIN messages |-> messages[i].bits])

Container(messages) ==
  LET stream == Stream(messages)
      directory == [i \in DOMAIN messages |->
                      [bits |-> Len(messages[i].bits), scale |-> messages[i].scale]]
      payload == stream \o Zeros(Budget * Len(messages) - Len(stream))
  IN  [header |-> [blocks |-> Len(messages), entries |-> Len(messages), logical |-> Len(stream),
                   directory |-> directory, payload |-> payload],
       directory |-> directory,
       payload |-> payload]

Recovered(records) ==
  [i \in DOMAIN records |->
     [bits |-> SubSeq(records[i].payload, 1, records[i].bits), scale |-> records[i].scale]]

\* The sink never holds a whole byte back and counts what it has taken; the
\* payload it writes is made of whole bytes, and no process is beyond its code.
TypeOK ==
  /\ ppc \in {"idle", "parsed", "appending", "finished", "packed"}
  /\ Len(sink.pending) < ByteBits
  /\ sink.next \in 1 .. BlockCount + 1
  /\ ppc = "appending" =>
       /\ sink.logical = Len(file.payload) + Len(sink.pending)
       /\ Len(file.payload) % ByteBits = 0
  /\ upc \in [Unpackers -> {"idle", "reading", "validated", "extracting", "renamed", "unpacked",
                            "refused", "crashed"}]
  /\ touched \subseteq Unpackers
  /\ files \in 0 .. MaxFiles

\* Records in the output directory, extracted from a file that stayed as it
\* was validated, repack to that very file: no two reservoirs have the same
\* blocks, whoever made them, and a file that a packer is still writing, or
\* was killed writing, is not accepted.
Canonical ==
  \A u \in Unpackers :
    upc[u] \in {"renamed", "unpacked"} /\ u \notin touched =>
      Container(Recovered(staging[u])) = seen[u]

\* What was packed comes out again: bits, scale rounded to binary16, and
\* zeros up to the next byte, block by block.
RoundTrip ==
  \A u \in Unpackers :
    /\ upc[u] \in {"renamed", "unpacked"} /\ u \notin touched
    /\ packAudit # None /\ packAudit.reservoir = seen[u]
    => staging[u] = [i \in DOMAIN packAudit.inputs |->
         [bits |-> packAudit.inputs[i].bits, scale |-> Half(packAudit.inputs[i].scale),
          payload |-> packAudit.inputs[i].payload]]

\* An audit on disk lists the records that are in the output directory.
AuditDescribesOutput == audit # None => output = audit.blocks

\* Records that were once published are never replaced.
OutputOnce == [][output # None => output' = output]_vars

\* To its readers the file is a register that is empty, unreadable or holds a
\* whole checkpoint, and an input that is illegal or does not fit leaves it
\* alone.
Register ==
  IF file = None THEN None
  ELSE IF file.header = Blank THEN <<>>
  ELSE Recovered([i \in DOMAIN file.directory |->
         LET start == Offsets(file.directory)[i - 1]
         IN  [bits |-> file.directory[i].bits, scale |-> file.directory[i].scale,
              payload |-> SubSeq(file.payload, start + 1, start + file.directory[i].bits)]])

FittingMessages ==
  {m \in {Messages(j) : j \in {k \in Jobs : \A i \in DOMAIN k : Legal(k[i])}} :
     Len(Stream(m)) <= Capacity}

FileSpec == INSTANCE ReservoirFile WITH
  Checkpoints <- FittingMessages,
  Nothing <- None,
  Unreadable <- <<>>,
  register <- Register,
  writing <- IF ppc \in {"appending", "finished"} THEN Messages(job) ELSE None

ImplementsReservoirFile == FileSpec!Spec

=============================================================================
