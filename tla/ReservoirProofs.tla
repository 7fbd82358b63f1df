--------------------------- MODULE ReservoirProofs ---------------------------
(***************************************************************************)
(* Proofs about Reservoir, for every size of byte, chunk and budget, every *)
(* number of blocks and unpackers, and whatever is packed or presented.    *)
(***************************************************************************)
EXTENDS Reservoir, Induction, SequenceTheorems, TLAPS

Bit == {0, 1}
Positions ==
  [entry : 1 .. BlockCount + 1, start : Nat, cursor : Nat, remaining : Nat, record : Seq(Bit)]
PackerSteps == {"idle", "parsed", "appending", "finished", "packed"}
UnpackerSteps == {"idle", "reading", "validated", "extracting", "renamed", "unpacked", "refused",
                  "crashed"}

-----------------------------------------------------------------------------
(* Bytes                                                                   *)

LEMMA Quotient ==
  ASSUME NEW a \in Nat, NEW b \in Nat \ {0}
  PROVE  a \div b \in Nat /\ b * (a \div b) <= a /\ a < b * (a \div b) + b
BY SMT

LEMMA Remainder ==
  ASSUME NEW a \in Int, NEW b \in Nat \ {0}
  PROVE  a % b \in 0 .. b - 1
BY SMT

LEMMA Multiple ==
  ASSUME NEW q \in Nat, NEW b \in Nat \ {0}
  PROVE  b * q \in Nat /\ (b * q) % b = 0
BY SMT

LEMMA Divided ==
  ASSUME NEW a \in Nat, NEW b \in Nat \ {0}, a % b = 0
  PROVE  a = b * (a \div b)
BY SMT

\* Whole bytes after whole bytes are whole bytes.
LEMMA WholeBytes ==
  ASSUME NEW x \in Nat, NEW q \in Nat, NEW b \in Nat \ {0}, x % b = 0
  PROVE  (x + b * q) % b = 0
<1>1. x = b * (x \div b) /\ x \div b \in Nat
  BY Divided, Quotient
<1>2. PICK k \in Nat : x = b * k
  BY <1>1
<1>3. x + b * q = b * (k + q) /\ k + q \in Nat
  BY <1>2
<1> QED BY <1>3, Multiple

LEMMA RoundedUp ==
  ASSUME NEW n \in Nat
  PROVE  RoundUp(n) \in Nat /\ RoundUp(n) >= n
<1>1. (-n) % ByteBits \in Nat
  BY Remainder, ReservoirAssumption
<1> QED BY <1>1 DEF RoundUp

LEMMA Balance ==
  ASSUME NEW w \in Nat, NEW p \in Nat, NEW n \in Nat, NEW c \in Nat
  PROVE  w + p + n = (w + c) + (p + n - c)
BY SMT

LEMMA ZerosAreBits ==
  ASSUME NEW n \in Int
  PROVE  Zeros(n) \in Seq(Bit)
<1>1. CASE n \in Nat
  BY <1>1, IsASeq DEF Zeros, Bit
<1>2. CASE n < 0
  <2>1. 1 .. n = 1 .. 0
    BY <1>2
  <2>2. Zeros(n) = [i \in 1 .. 0 |-> 0]
    BY <2>1 DEF Zeros
  <2> QED BY <2>2, IsASeq DEF Bit
<1> QED BY <1>1, <1>2

\* A part of some bits is bits, as long as it lies within them.
LEMMA PartOfBits ==
  ASSUME NEW s \in Seq(Bit), NEW m \in Int, NEW n \in Int, m >= 1, n <= Len(s)
  PROVE  /\ SubSeq(s, m, n) \in Seq(Bit)
         /\ Len(SubSeq(s, m, n)) = IF m <= n THEN n - m + 1 ELSE 0
<1>1. \A i \in m .. n : s[i] \in Bit
  BY ElementOfSeq, LenProperties
<1> QED BY <1>1, SubSeqProperties

LEMMA MinOfTwo ==
  ASSUME NEW a \in Int, NEW b \in Int
  PROVE  Min({a, b}) \in {a, b} /\ Min({a, b}) <= a /\ Min({a, b}) <= b
<1>1. \E x \in {a, b} : \A y \in {a, b} : x <= y
  BY a <= b \/ b <= a
<1> DEFINE m == CHOOSE x \in {a, b} : \A y \in {a, b} : x <= y
<1>2. m \in {a, b} /\ \A y \in {a, b} : m <= y
  BY <1>1
<1> QED BY <1>2 DEF Min

-----------------------------------------------------------------------------
(* The invariant                                                           *)

Stored ==
  /\ file # None => file \in ReservoirFiles /\ Len(file.directory) = BlockCount
  /\ touched \subseteq Unpackers
  /\ files \in 0 .. MaxFiles

\* What was parsed is legal, and the sink has written all of it but the bits of
\* a byte that is not yet complete.
Packing ==
  /\ ppc \in PackerSteps
  /\ job \in Seq(LegacyContainers)
  /\ sink \in [pending : Seq(Bit), logical : Nat, next : 1 .. BlockCount + 1]
  /\ Len(sink.pending) < ByteBits
  /\ ppc # "idle" => Len(job) = BlockCount /\ \A i \in 1 .. BlockCount : Legal(job[i])
  /\ ppc \in {"appending", "finished", "packed"} => file # None
  /\ ppc = "appending" =>
       /\ sink.logical = Len(file.payload) + Len(sink.pending)
       /\ Len(file.payload) % ByteBits = 0

\* An unpacker keeps to the blocks that the directory it validated has, and to
\* the bits that are in the file.
Extracting ==
  /\ upc \in [Unpackers -> UnpackerSteps]
  /\ seen \in [Unpackers -> ReservoirFiles \cup {None}]
  /\ at \in [Unpackers -> Positions \cup {None}]
  /\ staging \in [Unpackers -> Seq(LegacyContainers)]
  /\ \A u \in Unpackers :
       /\ upc[u] # "idle" => file # None
       /\ upc[u] \in {"validated", "extracting"} =>
            seen[u] # None /\ Len(seen[u].directory) = BlockCount
       /\ upc[u] = "extracting" => at[u] \in Positions

\* The output is that of the one unpacker that may still write its audit.
Described ==
  /\ \A u \in Unpackers : upc[u] = "renamed" => output # None /\ output = staging[u]
  /\ audit # None => output # None /\ output = audit.blocks

Inv == Stored /\ Packing /\ Extracting /\ Described

LEMMA InvInit == Init => Inv
<1> SUFFICES ASSUME Init PROVE Inv
  OBVIOUS
<1>1. Stored
  BY ReservoirAssumption DEF Init, Stored
<1>2. Packing
  <2>1. <<>> \in Seq(LegacyContainers) /\ <<>> \in Seq(Bit) /\ Len(<<>>) = 0
    OBVIOUS
  <2> QED BY <2>1, ReservoirAssumption DEF Init, Packing, PackerSteps
<1>3. Extracting
  <2>1. <<>> \in Seq(LegacyContainers)
    OBVIOUS
  <2> QED BY <2>1 DEF Init, Extracting, UnpackerSteps
<1>4. Described
  BY DEF Init, Described
<1> QED BY <1>1, <1>2, <1>3, <1>4 DEF Inv

\* A file that is never taken away disturbs no unpacker.
LEMMA ExtractingStill ==
  ASSUME Extracting, UNCHANGED <<upc, seen, at, staging>>, file # None => file' # None
  PROVE  Extracting'
BY DEF Extracting

LEMMA DescribedStill ==
  ASSUME Described, UNCHANGED <<upc, staging, output, audit>>
  PROVE  Described'
BY DEF Described

-----------------------------------------------------------------------------
(* The packer                                                              *)

LEMMA DirectoryTyped ==
  ASSUME NEW j \in Seq(LegacyContainers)
  PROVE  DirectoryOf(j) \in Directories /\ Len(DirectoryOf(j)) = Len(j)
<1> DEFINE e(i) == [bits |-> j[i].bits, scale |-> Half(j[i].scale)]
<1>1. DOMAIN j = 1 .. Len(j) /\ Len(j) \in Nat
  BY LenProperties
<1>2. \A i \in 1 .. Len(j) : e(i) \in [bits : Nat, scale : Scales]
  <2> SUFFICES ASSUME NEW i \in 1 .. Len(j) PROVE e(i) \in [bits : Nat, scale : Scales]
    OBVIOUS
  <2>1. j[i] \in LegacyContainers
    BY ElementOfSeq
  <2>2. j[i].bits \in Nat /\ j[i].scale \in Scales
    BY <2>1 DEF LegacyContainers
  <2>3. Half(j[i].scale) \in Scales
    BY <2>2 DEF Half, Scales
  <2> QED BY <2>2, <2>3
<1> HIDE DEF e
<1>3. [i \in 1 .. Len(j) |-> e(i)] \in Seq([bits : Nat, scale : Scales])
  BY <1>1, <1>2, IsASeq
<1>4. DirectoryOf(j) = [i \in 1 .. Len(j) |-> e(i)]
  BY <1>1 DEF DirectoryOf, e
<1>5. Len(DirectoryOf(j)) = Len(j)
  <2>1. DOMAIN DirectoryOf(j) = 1 .. Len(j)
    BY <1>4
  <2>2. DirectoryOf(j) \in Seq([bits : Nat, scale : Scales])
    BY <1>3, <1>4
  <2> QED BY <1>1, <2>1, <2>2, LenProperties
<1> QED BY <1>3, <1>4, <1>5 DEF Directories

\* A step of the packer that writes the file, or leaves it.
LEMMA PackerMove ==
  ASSUME Inv, UNCHANGED unpacker, Packing',
         \/ UNCHANGED <<file, touched>>
         \/ \E content \in ReservoirFiles :
              Write(content) /\ Len(content.directory) = BlockCount,
         files' \in 0 .. MaxFiles
  PROVE  Inv'
<1>1. Stored' /\ (file # None => file' # None)
  BY FilesAssumption DEF Inv, Stored, Write
<1> QED BY <1>1, ExtractingStill, DescribedStill DEF Inv, unpacker

\* The bytes of a file change, and nothing else of it.
LEMMA PayloadWritten ==
  ASSUME Stored, file # None, NEW p \in Seq(Bit)
  PROVE  LET content == [file EXCEPT !.payload = p]
         IN  /\ content \in ReservoirFiles /\ Len(content.directory) = BlockCount
             /\ content.payload = p
BY DEF Stored, ReservoirFiles, Bit

\* The sink is given a block it has not had yet.
LEMMA BlockIsDue ==
  ASSUME Inv, AppendBlock
  PROVE  /\ ppc = "appending" /\ file # None /\ file \in ReservoirFiles
         /\ sink.next \in 1 .. BlockCount /\ job \in Seq(LegacyContainers) /\ Len(job) = BlockCount
         /\ sink.pending \in Seq(Bit) /\ sink.logical \in Nat
         /\ ByteBits \in Nat \ {0} /\ BlockCount \in Nat
<1>1. ppc = "appending" /\ sink.next <= Len(job)
  BY DEF AppendBlock
<1>2. file # None /\ file \in ReservoirFiles
  BY <1>1 DEF Inv, Stored, Packing
<1>3. /\ job \in Seq(LegacyContainers) /\ Len(job) = BlockCount
      /\ sink \in [pending : Seq(Bit), logical : Nat, next : 1 .. BlockCount + 1]
  BY <1>1 DEF Inv, Packing
<1>4. ByteBits \in Nat \ {0} /\ BlockCount \in Nat
  BY ReservoirAssumption
<1>5. sink.next \in 1 .. BlockCount
  BY <1>1, <1>3, <1>4
<1> QED
  BY <1>1, <1>2, <1>3, <1>4, <1>5

LEMMA AppendStep ==
  ASSUME Inv, AppendBlock
  PROVE  Inv'
<1> DEFINE next == job[sink.next]
           message == SubSeq(next.payload, 1, next.bits)
           bits == sink.pending \o message
           whole == Len(bits) \div ByteBits
           complete == whole * ByteBits
           written == SubSeq(bits, 1, complete)
           pending == SubSeq(bits, complete + 1, Len(bits))
           payload == file.payload \o written
           content == [file EXCEPT !.payload = payload]
<1>1. /\ ppc = "appending" /\ file # None /\ file \in ReservoirFiles
      /\ sink.next \in 1 .. BlockCount /\ job \in Seq(LegacyContainers) /\ Len(job) = BlockCount
      /\ sink.pending \in Seq(Bit) /\ sink.logical \in Nat
      /\ ByteBits \in Nat \ {0} /\ BlockCount \in Nat
  BY BlockIsDue
<1>2. /\ next \in LegacyContainers /\ Legal(next)
      /\ next.bits \in Nat /\ next.payload \in Seq(Bit)
  <2>1. next \in LegacyContainers
    BY <1>1, ElementOfSeq
  <2>2. Legal(next)
    BY <1>1 DEF Inv, Packing
  <2> QED BY <2>1, <2>2 DEF LegacyContainers, Bit
<1>3. next.bits >= 1 /\ next.bits <= Len(next.payload)
  <2>1. PICK n \in Nat : n = next.bits
    BY <1>2
  <2>2. n > 0 /\ Len(next.payload) = RoundUp(n)
    BY <1>2, <2>1 DEF Legal
  <2>3. RoundUp(n) >= n
    BY RoundedUp
  <2> HIDE DEF next
  <2> QED BY <2>1, <2>2, <2>3
<1>4. message \in Seq(Bit) /\ Len(message) = next.bits
  <2>1. PICK n \in Nat, s \in Seq(Bit) : n = next.bits /\ s = next.payload
    BY <1>2
  <2>2. 1 <= n /\ n <= Len(s)
    BY <1>3, <2>1
  <2>3. SubSeq(s, 1, n) \in Seq(Bit) /\ Len(SubSeq(s, 1, n)) = n
    BY <2>2, PartOfBits
  <2> QED BY <2>1, <2>3
<1>5. /\ bits \in Seq(Bit) /\ Len(bits) = Len(sink.pending) + next.bits
      /\ Len(sink.pending) \in Nat /\ Len(bits) \in Nat
  BY <1>1, <1>2, <1>4, ConcatProperties, LenProperties
<1> HIDE DEF next, message, bits
<1>6. /\ whole \in Nat /\ complete = ByteBits * whole /\ complete \in Nat
      /\ complete <= Len(bits) /\ Len(bits) < complete + ByteBits
  <2>1. /\ whole \in Nat /\ ByteBits * whole <= Len(bits)
        /\ Len(bits) < ByteBits * whole + ByteBits
    BY <1>1, <1>5, Quotient
  <2>2. ByteBits * whole \in Nat
    BY <1>1, <2>1, Multiple
  <2> HIDE DEF whole
  <2>3. complete = ByteBits * whole
    BY <1>1, <2>1
  <2> QED BY <2>1, <2>2, <2>3
<1> HIDE DEF whole, complete
<1>7. written \in Seq(Bit) /\ Len(written) = complete
  BY <1>5, <1>6, PartOfBits
<1>8. pending \in Seq(Bit) /\ Len(pending) = Len(bits) - complete
  BY <1>5, <1>6, PartOfBits
<1>9. file.payload \in Seq(Bit) /\ Len(file.payload) \in Nat
  BY <1>1, LenProperties DEF ReservoirFiles, Bit
<1> HIDE DEF written, pending
<1>10. payload \in Seq(Bit) /\ Len(payload) = Len(file.payload) + complete
  BY <1>7, <1>9, ConcatProperties
<1> HIDE DEF payload
<1>11. /\ content \in ReservoirFiles /\ Len(content.directory) = BlockCount
       /\ content.payload = payload
  BY <1>1, <1>10, PayloadWritten DEF Inv
<1> HIDE DEF content
<1>12. /\ Write(content)
       /\ UNCHANGED <<ppc, job, unpacker, files>>
  BY DEF AppendBlock, content, payload, written, pending, complete, whole, bits, message, next
<1>13. sink' = [pending |-> pending, logical |-> sink.logical + next.bits,
                next |-> sink.next + 1]
  BY DEF AppendBlock, pending, complete, whole, bits, message, next
<1>14. /\ sink'.pending = pending /\ sink'.logical = sink.logical + next.bits
       /\ sink' \in [pending : Seq(Bit), logical : Nat, next : 1 .. BlockCount + 1]
  <2>1. PICK rest \in Seq(Bit) : rest = pending
    BY <1>8
  <2>2. PICK logical \in Nat : logical = sink.logical + next.bits
    BY <1>1, <1>2
  <2>3. PICK n \in 1 .. BlockCount + 1 : n = sink.next + 1
    BY <1>1
  <2>4. sink' = [pending |-> rest, logical |-> logical, next |-> n]
    BY <1>13, <2>1, <2>2, <2>3
  <2> QED BY <2>1, <2>2, <2>4
<1>15. Packing'
  <2>1. /\ sink.logical = Len(file.payload) + Len(sink.pending)
        /\ Len(file.payload) % ByteBits = 0
    BY <1>1 DEF Inv, Packing
  <2>2. file' = content /\ file' # None
    BY <1>11, <1>12, FilesAssumption DEF Write
  <2>3. Len(file'.payload) % ByteBits = 0
    <3>1. (Len(file.payload) + ByteBits * whole) % ByteBits = 0
      <4>1. PICK x \in Nat : x = Len(file.payload)
        BY <1>9
      <4>2. PICK q \in Nat : q = whole
        BY <1>6
      <4>3. x % ByteBits = 0 /\ ByteBits \in Nat \ {0}
        BY <1>1, <2>1, <4>1
      <4>4. (x + ByteBits * q) % ByteBits = 0
        BY <4>3, WholeBytes
      <4> QED BY <4>1, <4>2, <4>4
    <3>2. Len(file'.payload) = Len(file.payload) + ByteBits * whole
      BY <1>6, <1>10, <1>11, <2>2
    <3> QED BY <3>1, <3>2
  <2>4. sink'.logical = Len(file'.payload) + Len(sink'.pending)
    <3>1. Len(file'.payload) = Len(file.payload) + complete
      BY <1>10, <1>11, <2>2
    <3>2. Len(sink'.pending) = Len(sink.pending) + next.bits - complete
      BY <1>2, <1>5, <1>6, <1>8, <1>14
    <3>3. /\ sink.logical \in Nat /\ next.bits \in Nat /\ complete \in Nat
          /\ Len(file.payload) \in Nat /\ Len(sink.pending) \in Nat
      BY <1>1, <1>2, <1>5, <1>6, <1>9
    <3>4. sink'.logical = Len(file.payload) + Len(sink.pending) + next.bits
      BY <1>14, <2>1
    <3>5. PICK w \in Nat, p \in Nat, n \in Nat, c \in Nat :
            /\ w = Len(file.payload) /\ p = Len(sink.pending)
            /\ n = next.bits /\ c = complete
      BY <3>3
    <3>6. w + p + n = (w + c) + (p + n - c)
      BY Balance
    <3>7. sink'.logical = w + p + n
      BY <3>4, <3>5
    <3>8. Len(file'.payload) = w + c /\ Len(sink'.pending) = p + n - c
      BY <3>1, <3>2, <3>5
    <3> QED BY <3>6, <3>7, <3>8
  <2>5. Len(sink'.pending) < ByteBits
    BY <1>1, <1>5, <1>6, <1>8, <1>14
  <2> QED BY <1>1, <1>12, <1>14, <2>2, <2>3, <2>4, <2>5 DEF Inv, Packing, Legal
<1> QED BY <1>11, <1>12, <1>15, PackerMove DEF Inv, Stored

LEMMA FinishStep ==
  ASSUME Inv, Finish
  PROVE  Inv'
<1> DEFINE tail == IF sink.pending = <<>> THEN <<>>
                   ELSE sink.pending \o Zeros(ByteBits - Len(sink.pending))
           flushed == file.payload \o tail
           payload == flushed \o Zeros(Capacity - Len(flushed))
           content == [file EXCEPT !.payload = payload]
<1>1. /\ file # None /\ file \in ReservoirFiles /\ sink.pending \in Seq(Bit)
      /\ Budget \in Nat /\ BlockCount \in Nat /\ ByteBits \in Nat
  BY ReservoirAssumption DEF Finish, Inv, Stored, Packing
<1>2. tail \in Seq(Bit)
  <2>1. ByteBits - Len(sink.pending) \in Int
    BY <1>1, LenProperties
  <2>2. Zeros(ByteBits - Len(sink.pending)) \in Seq(Bit)
    BY <2>1, ZerosAreBits
  <2> QED BY <1>1, <2>2, ConcatProperties
<1> HIDE DEF tail
<1>3. flushed \in Seq(Bit)
  BY <1>1, <1>2, ConcatProperties DEF ReservoirFiles, Bit
<1> HIDE DEF flushed
<1>4. payload \in Seq(Bit)
  <2>1. Capacity - Len(flushed) \in Int
    BY <1>1, <1>3, LenProperties DEF Capacity
  <2>2. Zeros(Capacity - Len(flushed)) \in Seq(Bit)
    BY <2>1, ZerosAreBits
  <2> QED BY <1>3, <2>2, ConcatProperties
<1> HIDE DEF payload
<1>5. content \in ReservoirFiles /\ Len(content.directory) = BlockCount
  BY <1>1, <1>4, PayloadWritten DEF Inv
<1> HIDE DEF content
<1>6. /\ Write(content) /\ ppc = "appending" /\ ppc' = "finished"
      /\ UNCHANGED <<job, sink, unpacker, files>>
  BY DEF Finish, content, payload, flushed, tail
<1>7. file' # None
  BY <1>5, <1>6, FilesAssumption DEF Write
<1>8. Packing'
  BY <1>6, <1>7 DEF Inv, Packing, PackerSteps, Legal
<1> QED BY <1>5, <1>6, <1>8, PackerMove DEF Inv, Stored

\* The other steps of the packer, and a file presented from outside.
LEMMA StartPackStep ==
  ASSUME Inv, NEW j \in Jobs, StartPack(j)
  PROVE  Inv'
<1>1. j \in Seq(LegacyContainers) /\ Len(j) = BlockCount /\ DOMAIN j = 1 .. BlockCount
  BY FilesAssumption, LenProperties
<1>2. Packing'
  BY <1>1 DEF StartPack, Inv, Packing, PackerSteps, Legal
<1>3. files' \in 0 .. MaxFiles
  BY ReservoirAssumption DEF StartPack, Inv, Stored
<1> QED BY <1>2, <1>3, PackerMove DEF StartPack

LEMMA OpenOutputStep ==
  ASSUME Inv, OpenOutput
  PROVE  Inv'
<1> DEFINE content == [header |-> Blank, directory |-> DirectoryOf(job), payload |-> <<>>]
<1>1. job \in Seq(LegacyContainers) /\ Len(job) = BlockCount
  BY DEF OpenOutput, Inv, Packing
<1>2. DirectoryOf(job) \in Directories /\ Len(DirectoryOf(job)) = BlockCount
  BY <1>1, DirectoryTyped
<1>3. Blank \in Headers
  <2>1. <<>> \in Directories /\ <<>> \in Seq({0, 1})
    BY DEF Directories
  <2> QED BY <2>1 DEF Blank, Headers
<1>4. content \in ReservoirFiles /\ Len(content.directory) = BlockCount /\ content.payload = <<>>
  BY <1>2, <1>3 DEF ReservoirFiles
<1> HIDE DEF content
<1>5. /\ Write(content) /\ ppc' = "appending" /\ ppc = "parsed"
      /\ sink' = [pending |-> <<>>, logical |-> 0, next |-> 1]
      /\ UNCHANGED <<job, unpacker, files>>
  BY DEF OpenOutput, content
<1>6. file' # None /\ file'.payload = <<>>
  BY <1>4, <1>5, FilesAssumption DEF Write
<1>7. Packing'
  <2>1. <<>> \in Seq(Bit) /\ Len(<<>>) = 0 /\ 0 % ByteBits = 0
    BY ReservoirAssumption
  <2>2. sink' \in [pending : Seq(Bit), logical : Nat, next : 1 .. BlockCount + 1]
    BY <1>5, <2>1, ReservoirAssumption
  <2>3. Len(sink'.pending) = 0 /\ sink'.logical = 0 /\ Len(file'.payload) = 0
    BY <1>5, <1>6, <2>1
  <2> QED
    BY <1>5, <1>6, <2>1, <2>2, <2>3, ReservoirAssumption DEF Inv, Packing, PackerSteps, Legal
<1> QED BY <1>4, <1>5, <1>7, PackerMove DEF Inv, Stored

LEMMA WriteHeaderStep ==
  ASSUME Inv, WriteHeader
  PROVE  Inv'
<1> DEFINE header == [blocks |-> Len(job), entries |-> Len(job), logical |-> sink.logical,
                      directory |-> DirectoryOf(job), payload |-> file.payload]
           content == [file EXCEPT !.header = header]
<1>1. /\ job \in Seq(LegacyContainers) /\ sink.logical \in Nat
      /\ file \in ReservoirFiles /\ Len(file.directory) = BlockCount
  BY DEF WriteHeader, Inv, Stored, Packing
<1>2. header \in Headers
  BY <1>1, DirectoryTyped, LenProperties DEF Headers, ReservoirFiles
<1> HIDE DEF header
<1>3. content \in ReservoirFiles /\ Len(content.directory) = BlockCount
  BY <1>1, <1>2 DEF ReservoirFiles
<1> HIDE DEF content
<1>4. /\ Write(content) /\ ppc = "finished" /\ ppc' = "packed"
      /\ UNCHANGED <<job, sink, unpacker, files>>
  BY DEF WriteHeader, content, header
<1>5. file' # None
  BY <1>3, <1>4, FilesAssumption DEF Write
<1>6. Packing'
  BY <1>4, <1>5 DEF Inv, Packing, PackerSteps, Legal
<1> QED BY <1>3, <1>4, <1>6, PackerMove DEF Inv, Stored

LEMMA CrashPackerStep ==
  ASSUME Inv, CrashPacker
  PROVE  Inv'
<1>1. ppc' = "idle" /\ UNCHANGED <<job, sink, unpacker, files>>
  BY DEF CrashPacker
<1>2. Packing'
  BY <1>1 DEF Inv, Packing, PackerSteps
<1>3. CASE UNCHANGED <<file, touched>>
  BY <1>1, <1>2, <1>3, PackerMove DEF Inv, Stored
<1>4. CASE /\ ppc \in {"appending", "finished"}
           /\ \E n \in 0 .. Len(file.payload) : Write([file EXCEPT !.payload = SubSeq(@, 1, n)])
  <2>1. file # None /\ file \in ReservoirFiles /\ file.payload \in Seq(Bit)
    BY <1>4 DEF Inv, Stored, Packing, ReservoirFiles, Bit
  <2>2. PICK n \in 0 .. Len(file.payload) :
          Write([file EXCEPT !.payload = SubSeq(file.payload, 1, n)])
    BY <1>4
  <2>3. SubSeq(file.payload, 1, n) \in Seq(Bit)
    BY <2>1, PartOfBits, LenProperties
  <2>4. /\ [file EXCEPT !.payload = SubSeq(file.payload, 1, n)] \in ReservoirFiles
        /\ Len([file EXCEPT !.payload = SubSeq(file.payload, 1, n)].directory) = BlockCount
    BY <2>1, <2>3, PayloadWritten DEF Inv
  <2> QED BY <1>1, <1>2, <2>2, <2>4, PackerMove DEF Inv, Stored
<1> QED BY <1>3, <1>4 DEF CrashPacker

LEMMA PresentStep ==
  ASSUME Inv, NEW f \in Forgeries, Present(f)
  PROVE  Inv'
<1>1. f \in ReservoirFiles /\ Len(f.directory) = BlockCount
  BY FilesAssumption
<1>2. Packing'
  BY DEF Present, packer, Inv, Packing, Legal
<1>3. files' \in 0 .. MaxFiles
  BY ReservoirAssumption DEF Present, Inv, Stored
<1> QED BY <1>1, <1>2, <1>3, PackerMove DEF Present

LEMMA PackStep ==
  ASSUME Inv, Pack
  PROVE  Inv'
<1>1. CASE WritePackAudit
  <2>1. Packing'
    BY <1>1 DEF WritePackAudit, Inv, Packing, PackerSteps
  <2> QED BY <1>1, <2>1, PackerMove DEF WritePackAudit, Inv, Stored
<1> QED
  BY <1>1, StartPackStep, OpenOutputStep, AppendStep, FinishStep, WriteHeaderStep,
     CrashPackerStep DEF Pack

-----------------------------------------------------------------------------
(* The unpackers                                                           *)

\* A step of one unpacker changes nothing of another's memory, and no file of
\* the packer's.
LEMMA UnpackerMove ==
  ASSUME Inv, NEW u \in Unpackers, UNCHANGED <<file, packer, files>>,
         touched' \subseteq Unpackers,
         NEW to \in UnpackerSteps, NEW f \in ReservoirFiles \cup {None},
         NEW p \in Positions \cup {None}, NEW r \in Seq(LegacyContainers),
         upc' = [upc EXCEPT ![u] = to], seen' = [seen EXCEPT ![u] = f],
         at' = [at EXCEPT ![u] = p], staging' = [staging EXCEPT ![u] = r],
         file # None,
         to \in {"validated", "extracting"} => f # None /\ Len(f.directory) = BlockCount,
         to = "extracting" => p \in Positions
  PROVE  Stored' /\ Packing' /\ Extracting'
<1>1. Stored'
  BY DEF Inv, Stored
<1>2. Packing'
  BY DEF Inv, Packing, packer, Legal
<1>3. Extracting'
  <2>1. /\ upc' \in [Unpackers -> UnpackerSteps]
        /\ seen' \in [Unpackers -> ReservoirFiles \cup {None}]
        /\ at' \in [Unpackers -> Positions \cup {None}]
        /\ staging' \in [Unpackers -> Seq(LegacyContainers)]
    BY DEF Inv, Extracting
  <2>2. /\ upc'[u] = to /\ seen'[u] = f /\ at'[u] = p
        /\ \A v \in Unpackers \ {u} :
             upc'[v] = upc[v] /\ seen'[v] = seen[v] /\ at'[v] = at[v]
    BY DEF Inv, Extracting
  <2>3. file' # None
    OBVIOUS
  <2> QED BY <2>1, <2>2, <2>3 DEF Inv, Extracting
<1> QED BY <1>1, <1>2, <1>3

\* No unpacker but the one that renames makes a directory of records, and a
\* record is staged only by one that has not renamed.
LEMMA DescribedMove ==
  ASSUME Inv, NEW u \in Unpackers, UNCHANGED <<output, audit>>,
         upc[u] # "renamed",
         \A v \in Unpackers \ {u} : upc'[v] = upc[v] /\ staging'[v] = staging[v],
         upc'[u] # "renamed"
  PROVE  Described'
BY DEF Inv, Described

LEMMA StatStep ==
  ASSUME Inv, NEW u \in Unpackers, Stat(u)
  PROVE  Inv'
<1>1. /\ seen[u] \in ReservoirFiles \cup {None} /\ at[u] \in Positions \cup {None}
      /\ staging[u] \in Seq(LegacyContainers)
  BY DEF Inv, Extracting
<1>2. /\ file # None /\ upc[u] = "idle" /\ upc' = [upc EXCEPT ![u] = "reading"]
      /\ touched' = touched \ {u} /\ UNCHANGED <<file, packer, output, audit, seen, at, staging, files>>
  BY DEF Stat, UGoto
<1>3. /\ seen' = [seen EXCEPT ![u] = seen[u]] /\ at' = [at EXCEPT ![u] = at[u]]
      /\ staging' = [staging EXCEPT ![u] = staging[u]]
  BY <1>2 DEF Inv, Extracting
<1>4. Stored' /\ Packing' /\ Extracting'
  BY <1>1, <1>2, <1>3, UnpackerMove DEF Inv, Stored, UnpackerSteps
<1>5. Described'
  BY <1>2, DescribedMove DEF Inv, Extracting
<1> QED BY <1>4, <1>5 DEF Inv

LEMMA ValidateStep ==
  ASSUME Inv, NEW u \in Unpackers, Validate(u)
  PROVE  Inv'
<1>1. /\ seen[u] \in ReservoirFiles \cup {None} /\ at[u] \in Positions \cup {None}
      /\ staging[u] \in Seq(LegacyContainers)
  BY DEF Inv, Extracting
<1>2. /\ upc[u] = "reading"
      /\ UNCHANGED <<file, packer, output, audit, at, staging, touched, files>>
  BY DEF Validate, UGoto
<1>3. file # None /\ file \in ReservoirFiles /\ Len(file.directory) = BlockCount
  BY <1>2 DEF Inv, Stored, Extracting
<1>4. /\ at' = [at EXCEPT ![u] = at[u]] /\ staging' = [staging EXCEPT ![u] = staging[u]]
      /\ [seen EXCEPT ![u] = seen[u]] = seen
  BY <1>2 DEF Inv, Extracting
<1>5. CASE upc' = [upc EXCEPT ![u] = "validated"] /\ seen' = [seen EXCEPT ![u] = file]
  <2>1. Stored' /\ Packing' /\ Extracting'
    BY <1>1, <1>2, <1>3, <1>4, <1>5, UnpackerMove DEF Inv, Stored, UnpackerSteps
  <2>2. Described'
    BY <1>2, <1>5, DescribedMove DEF Inv, Extracting
  <2> QED BY <2>1, <2>2 DEF Inv
<1>6. CASE upc' = [upc EXCEPT ![u] = "refused"] /\ UNCHANGED seen
  <2>1. Stored' /\ Packing' /\ Extracting'
    BY <1>1, <1>2, <1>3, <1>4, <1>6, UnpackerMove DEF Inv, Stored, UnpackerSteps
  <2>2. Described'
    BY <1>2, <1>6, DescribedMove DEF Inv, Extracting
  <2> QED BY <2>1, <2>2 DEF Inv
<1> QED BY <1>5, <1>6 DEF Validate, UGoto

\* The place an entry starts at is within the directory, or behind its end.
LEMMA EntryTyped ==
  ASSUME Inv, NEW u \in Unpackers, upc[u] \in {"validated", "extracting"},
         NEW entry \in 1 .. BlockCount + 1, NEW start \in Nat
  PROVE  EntryAt(u, entry, start) \in Positions
<1>1. /\ seen[u] \in ReservoirFiles /\ Len(seen[u].directory) = BlockCount
      /\ seen[u].directory \in Directories
  BY DEF Inv, Extracting, ReservoirFiles
<1>2. ASSUME entry <= BlockCount PROVE seen[u].directory[entry].bits \in Nat
  <2>1. entry \in 1 .. Len(seen[u].directory)
    BY <1>1, <1>2, ReservoirAssumption
  <2>2. seen[u].directory[entry] \in [bits : Nat, scale : Scales]
    BY <1>1, <2>1, ElementOfSeq DEF Directories
  <2> QED BY <2>2
<1>3. <<>> \in Seq(Bit)
  OBVIOUS
<1>4. (IF entry > BlockCount THEN 0 ELSE seen[u].directory[entry].bits) \in Nat
  BY <1>2, ReservoirAssumption
<1> QED BY <1>3, <1>4 DEF EntryAt, Positions

LEMMA OpenStagingStep ==
  ASSUME Inv, NEW u \in Unpackers, OpenStaging(u)
  PROVE  Inv'
<1>1. /\ seen[u] \in ReservoirFiles \cup {None} /\ at[u] \in Positions \cup {None}
      /\ staging[u] \in Seq(LegacyContainers) /\ <<>> \in Seq(LegacyContainers)
  BY DEF Inv, Extracting
<1>2. /\ upc[u] = "validated"
      /\ UNCHANGED <<file, packer, output, audit, seen, touched, files>>
  BY DEF OpenStaging, UGoto
<1>3. file # None /\ seen[u] # None /\ Len(seen[u].directory) = BlockCount
  BY <1>2 DEF Inv, Extracting
<1>4. /\ seen' = [seen EXCEPT ![u] = seen[u]]
      /\ [staging EXCEPT ![u] = staging[u]] = staging /\ [at EXCEPT ![u] = at[u]] = at
  BY <1>2 DEF Inv, Extracting
<1>5. EntryAt(u, 1, 0) \in Positions
  BY <1>2, EntryTyped, ReservoirAssumption
<1>6. CASE /\ upc' = [upc EXCEPT ![u] = "extracting"]
           /\ staging' = [staging EXCEPT ![u] = <<>>]
           /\ at' = [at EXCEPT ![u] = EntryAt(u, 1, 0)]
  <2>1. Stored' /\ Packing' /\ Extracting'
    BY <1>1, <1>2, <1>3, <1>4, <1>5, <1>6, UnpackerMove DEF Inv, Stored, UnpackerSteps
  <2>2. Described'
    BY <1>2, <1>6, DescribedMove DEF Inv, Extracting
  <2> QED BY <2>1, <2>2 DEF Inv
<1>7. CASE upc' = [upc EXCEPT ![u] = "refused"] /\ UNCHANGED <<staging, at>>
  <2>1. Stored' /\ Packing' /\ Extracting'
    BY <1>1, <1>2, <1>3, <1>4, <1>7, UnpackerMove DEF Inv, Stored, UnpackerSteps
  <2>2. Described'
    BY <1>2, <1>7, DescribedMove DEF Inv, Extracting
  <2> QED BY <2>1, <2>2 DEF Inv
<1> QED BY <1>6, <1>7 DEF OpenStaging, UGoto

\* A chunk is no more than what remains.
LEMMA TakeWithin ==
  ASSUME NEW remaining \in Nat
  PROVE  Take(remaining) \in 0 .. remaining
<1> DEFINE take == Min({remaining, ChunkBits})
<1>1. take \in Nat /\ take <= remaining
  BY MinOfTwo, ReservoirAssumption
<1> HIDE DEF take
<1>2. take % ByteBits \in 0 .. ByteBits - 1 /\ take % ByteBits <= take
  <2>1. take % ByteBits \in 0 .. ByteBits - 1
    BY <1>1, Remainder, ReservoirAssumption
  <2>2. take % ByteBits <= take
    BY <1>1, ReservoirAssumption, SMT
  <2> QED BY <2>1, <2>2
<1>3. Take(remaining) = IF take < remaining THEN take - (take % ByteBits) ELSE take
  BY DEF Take, take
<1> QED BY <1>1, <1>2, <1>3, ReservoirAssumption

LEMMA SliceTyped ==
  ASSUME Inv, file # None, NEW cursor \in Nat, NEW take \in Nat
  PROVE  Slice(cursor, take) \in Seq(Bit)
<1> DEFINE first == (cursor \div ByteBits) * ByteBits
           count == RoundUp((cursor % ByteBits) + take)
           last == Min({first + count, Len(file.payload)})
<1>1. file.payload \in Seq(Bit) /\ Len(file.payload) \in Nat /\ ByteBits \in Nat \ {0}
  BY ReservoirAssumption, LenProperties DEF Inv, Stored, ReservoirFiles, Bit
<1>2. first \in Nat
  <2>1. cursor \div ByteBits \in Nat
    BY <1>1, Quotient
  <2> QED BY <1>1, <2>1
<1>3. count \in Nat
  <2>1. cursor % ByteBits \in 0 .. ByteBits - 1
    BY <1>1, Remainder
  <2>2. (cursor % ByteBits) + take \in Nat
    BY <1>1, <2>1
  <2> QED BY <2>2, RoundedUp
<1> HIDE DEF first, count
<1>4. last \in Int /\ last <= Len(file.payload)
  <2>1. first + count \in Int /\ Len(file.payload) \in Int
    BY <1>1, <1>2, <1>3
  <2>2. last \in {first + count, Len(file.payload)} /\ last <= Len(file.payload)
    BY <2>1, MinOfTwo
  <2> QED BY <2>1, <2>2
<1> HIDE DEF last
<1>5. SubSeq(file.payload, first + 1, last) \in Seq(Bit)
  BY <1>1, <1>2, <1>4, PartOfBits
<1> QED BY <1>5 DEF Slice, first, count, last

LEMMA RepackedTyped ==
  ASSUME NEW physical \in Seq(Bit), NEW offset \in Nat, NEW take \in Nat,
         Len(physical) = RoundUp(offset + take)
  PROVE  Repacked(physical, offset, take) \in Seq(Bit)
<1> DEFINE shifted == SubSeq(physical, 1, offset + take)
           masked == SubSeq(shifted, Len(shifted) - take + 1, Len(shifted))
<1>1. offset + take <= Len(physical)
  BY RoundedUp
<1>2. shifted \in Seq(Bit) /\ Len(shifted) = offset + take
  <2>1. /\ shifted \in Seq(Bit)
        /\ Len(shifted) = IF 1 <= offset + take THEN offset + take - 1 + 1 ELSE 0
    BY <1>1, PartOfBits
  <2> QED BY <2>1
<1> HIDE DEF shifted
<1>3. masked \in Seq(Bit)
  BY <1>2, PartOfBits
<1> HIDE DEF masked
<1>4. Zeros((-take) % ByteBits) \in Seq(Bit)
  BY Remainder, ZerosAreBits, ReservoirAssumption
<1>5. masked \o Zeros((-take) % ByteBits) \in Seq(Bit)
  BY <1>3, <1>4, ConcatProperties
<1> QED BY <1>5 DEF Repacked, masked, shifted

LEMMA ExtractChunkStep ==
  ASSUME Inv, NEW u \in Unpackers, ExtractChunk(u)
  PROVE  Inv'
<1> DEFINE here == at[u]
           take == Take(here.remaining)
           offset == here.cursor % ByteBits
           physical == Slice(here.cursor, take)
           record == here.record \o Repacked(physical, offset, take)
           entry == seen[u].directory[here.entry]
           further == [here EXCEPT !.cursor = @ + take, !.remaining = @ - take, !.record = record]
           next == EntryAt(u, here.entry + 1, here.start + entry.bits)
           cut == [bits |-> entry.bits, scale |-> entry.scale, payload |-> record]
<1>1. /\ upc[u] = "extracting" /\ here.entry <= BlockCount
      /\ UNCHANGED <<file, packer, output, audit, seen, touched, files>>
  BY DEF ExtractChunk
<1>2. /\ file # None /\ here \in Positions
      /\ seen[u] # None /\ seen[u] \in ReservoirFiles /\ Len(seen[u].directory) = BlockCount
      /\ at[u] \in Positions
      /\ staging[u] \in Seq(LegacyContainers) /\ <<>> \in Seq(LegacyContainers)
  BY <1>1 DEF Inv, Extracting
<1>3. /\ here.entry \in 1 .. BlockCount /\ here.start \in Nat /\ here.cursor \in Nat
      /\ here.remaining \in Nat /\ here.record \in Seq(Bit)
      /\ BlockCount \in Nat /\ ByteBits \in Nat \ {0}
  BY <1>1, <1>2, ReservoirAssumption DEF Positions
<1>4. /\ seen' = [seen EXCEPT ![u] = seen[u]] /\ [upc EXCEPT ![u] = upc[u]] = upc
      /\ [staging EXCEPT ![u] = staging[u]] = staging /\ [at EXCEPT ![u] = at[u]] = at
  BY <1>1 DEF Inv, Extracting
<1>5. entry.bits \in Nat /\ entry.scale \in Scales
  <2>1. seen[u].directory \in Directories
    BY <1>2 DEF ReservoirFiles
  <2>2. entry \in [bits : Nat, scale : Scales]
    BY <1>2, <1>3, <2>1, ElementOfSeq DEF Directories
  <2> QED BY <2>2
<1>6. next \in Positions
  BY <1>1, <1>3, <1>5, EntryTyped
<1>7. take \in 0 .. here.remaining
  <2>1. PICK r \in Nat : r = here.remaining
    BY <1>3
  <2>2. Take(r) \in 0 .. r
    BY TakeWithin
  <2> QED BY <2>1, <2>2
<1>8. ASSUME Len(physical) = RoundUp(offset + take)
      PROVE  further \in Positions /\ cut \in LegacyContainers
  <2>1. offset \in Nat /\ take \in Nat
    <3>1. offset \in 0 .. ByteBits - 1
      <4>1. PICK c \in Nat : c = here.cursor
        BY <1>3
      <4>2. c % ByteBits \in 0 .. ByteBits - 1
        BY Remainder, ReservoirAssumption
      <4> QED BY <4>1, <4>2
    <3>2. take \in Nat
      <4> HIDE DEF take
      <4> QED BY <1>3, <1>7
    <3> QED BY <1>3, <3>1, <3>2
  <2>2. physical \in Seq(Bit)
    BY <1>2, <1>3, <2>1, SliceTyped
  <2>3. Repacked(physical, offset, take) \in Seq(Bit)
    BY <1>8, <2>1, <2>2, RepackedTyped
  <2>4. record \in Seq(Bit)
    BY <1>3, <2>3, ConcatProperties
  <2> HIDE DEF take, offset, physical, record, entry
  <2>5. here.cursor + take \in Nat /\ here.remaining - take \in Nat
    <3>1. PICK r \in Nat : r = here.remaining
      BY <1>3
    <3>2. take \in 0 .. r
      BY <1>7, <3>1
    <3>3. PICK c \in Nat : c = here.cursor
      BY <1>3
    <3> HIDE DEF here
    <3> QED BY <3>1, <3>2, <3>3
  <2>6. further \in Positions
    <3>1. PICK c \in Nat, r \in Nat, s \in Seq(Bit), x \in Positions :
            /\ c = here.cursor + take /\ r = here.remaining - take /\ s = record /\ x = here
      BY <1>2, <2>4, <2>5
    <3>2. [x EXCEPT !.cursor = c, !.remaining = r, !.record = s] \in Positions
      BY DEF Positions
    <3>3. further = [x EXCEPT !.cursor = c, !.remaining = r, !.record = s]
      BY <3>1
    <3> QED BY <3>2, <3>3
  <2>7. cut \in LegacyContainers
    BY <1>5, <2>4 DEF LegacyContainers, Bit
  <2> QED BY <2>6, <2>7
<1>9. \/ /\ Len(physical) = RoundUp(offset + take) /\ UNCHANGED <<upc, staging>>
         /\ at' = [at EXCEPT ![u] = further]
      \/ /\ Len(physical) = RoundUp(offset + take) /\ UNCHANGED upc
         /\ at' = [at EXCEPT ![u] = next]
         /\ staging' = [staging EXCEPT ![u] = Append(staging[u], cut)]
      \/ /\ upc' = [upc EXCEPT ![u] = "refused"] /\ UNCHANGED at
         /\ staging' = [staging EXCEPT ![u] = <<>>]
  BY DEF ExtractChunk
<1> HIDE DEF here, take, offset, physical, record, entry, further, next, cut
<1>10. CASE /\ Len(physical) = RoundUp(offset + take) /\ UNCHANGED <<upc, staging>>
            /\ at' = [at EXCEPT ![u] = further]
  <2>1. Stored' /\ Packing' /\ Extracting'
    <3>1. /\ upc' = [upc EXCEPT ![u] = "extracting"] /\ at' = [at EXCEPT ![u] = further]
          /\ staging' = [staging EXCEPT ![u] = staging[u]]
      BY <1>1, <1>4, <1>10
    <3>2. further \in Positions /\ staging[u] \in Seq(LegacyContainers)
      BY <1>1, <1>2, <1>6, <1>8, <1>10
    <3>3. touched' \subseteq Unpackers /\ "extracting" \in UnpackerSteps
      BY <1>1 DEF Inv, Stored, UnpackerSteps
    <3> QED BY <1>1, <1>2, <1>4, <3>1, <3>2, <3>3, UnpackerMove
  <2>2. Described'
    BY <1>1, <1>10, DescribedMove DEF Inv, Extracting
  <2> QED BY <2>1, <2>2 DEF Inv
<1>11. CASE /\ Len(physical) = RoundUp(offset + take) /\ UNCHANGED upc
            /\ at' = [at EXCEPT ![u] = next]
            /\ staging' = [staging EXCEPT ![u] = Append(staging[u], cut)]
  <2>1. Stored' /\ Packing' /\ Extracting'
    <3>1. /\ upc' = [upc EXCEPT ![u] = "extracting"] /\ at' = [at EXCEPT ![u] = next]
          /\ staging' = [staging EXCEPT ![u] = Append(staging[u], cut)]
      BY <1>1, <1>4, <1>11
    <3>2. next \in Positions /\ Append(staging[u], cut) \in Seq(LegacyContainers)
      BY <1>1, <1>2, <1>6, <1>8, <1>11
    <3>3. touched' \subseteq Unpackers /\ "extracting" \in UnpackerSteps
      BY <1>1 DEF Inv, Stored, UnpackerSteps
    <3> QED BY <1>1, <1>2, <1>4, <3>1, <3>2, <3>3, UnpackerMove
  <2>2. Described'
    BY <1>1, <1>11, DescribedMove DEF Inv, Extracting
  <2> QED BY <2>1, <2>2 DEF Inv
<1>12. CASE /\ upc' = [upc EXCEPT ![u] = "refused"] /\ UNCHANGED at
            /\ staging' = [staging EXCEPT ![u] = <<>>]
  <2>1. Stored' /\ Packing' /\ Extracting'
    <3>1. /\ upc' = [upc EXCEPT ![u] = "refused"] /\ at' = [at EXCEPT ![u] = at[u]]
          /\ staging' = [staging EXCEPT ![u] = <<>>]
      BY <1>1, <1>4, <1>12
    <3>2. at[u] \in Positions /\ <<>> \in Seq(LegacyContainers)
      BY <1>1, <1>2, <1>6, <1>8, <1>12
    <3>3. touched' \subseteq Unpackers /\ "refused" \in UnpackerSteps
      BY <1>1 DEF Inv, Stored, UnpackerSteps
    <3> QED BY <1>1, <1>2, <1>4, <3>1, <3>2, <3>3, UnpackerMove
  <2>2. Described'
    BY <1>1, <1>12, DescribedMove DEF Inv, Extracting
  <2> QED BY <2>1, <2>2 DEF Inv
<1> QED BY <1>9, <1>10, <1>11, <1>12

\* Whoever renames finds no directory of records: no audit lists one, and no
\* other unpacker has one in place.
LEMMA RenameStep ==
  ASSUME Inv, NEW u \in Unpackers, Rename(u)
  PROVE  Inv'
<1>1. /\ seen[u] \in ReservoirFiles \cup {None} /\ at[u] \in Positions \cup {None}
      /\ staging[u] \in Seq(LegacyContainers) /\ <<>> \in Seq(LegacyContainers)
  BY DEF Inv, Extracting
<1>2. /\ upc[u] = "extracting"
      /\ UNCHANGED <<file, packer, audit, seen, at, touched, files>>
  BY DEF Rename
<1>3. file # None
  BY <1>2 DEF Inv, Extracting
<1>4. /\ seen' = [seen EXCEPT ![u] = seen[u]] /\ at' = [at EXCEPT ![u] = at[u]]
      /\ [staging EXCEPT ![u] = staging[u]] = staging
  BY <1>2 DEF Inv, Extracting
<1>5. CASE /\ upc' = [upc EXCEPT ![u] = "renamed"] /\ UNCHANGED staging
           /\ output = None /\ output' = staging[u]
  <2>1. Stored' /\ Packing' /\ Extracting'
    BY <1>1, <1>2, <1>3, <1>4, <1>5, UnpackerMove DEF Inv, Stored, UnpackerSteps
  <2>2. output' # None /\ output' = staging'[u]
    BY <1>1, <1>5, FilesAssumption
  <2>3. \A v \in Unpackers : upc'[v] = "renamed" => v = u
    BY <1>5 DEF Inv, Extracting, Described
  <2>4. audit' = None
    BY <1>2, <1>5 DEF Inv, Described
  <2>5. Described'
    BY <2>2, <2>3, <2>4 DEF Described
  <2> QED BY <2>1, <2>5 DEF Inv
<1>6. CASE /\ upc' = [upc EXCEPT ![u] = "refused"] /\ UNCHANGED output
           /\ staging' = [staging EXCEPT ![u] = <<>>]
  <2>1. Stored' /\ Packing' /\ Extracting'
    BY <1>1, <1>2, <1>3, <1>4, <1>6, UnpackerMove DEF Inv, Stored, UnpackerSteps
  <2>2. Described'
    BY <1>2, <1>6, DescribedMove DEF Inv, Extracting
  <2> QED BY <2>1, <2>2 DEF Inv
<1> QED BY <1>5, <1>6 DEF Rename, UGoto

LEMMA WriteAuditStep ==
  ASSUME Inv, NEW u \in Unpackers, WriteAudit(u)
  PROVE  Inv'
<1>1. /\ seen[u] \in ReservoirFiles \cup {None} /\ at[u] \in Positions \cup {None}
      /\ staging[u] \in Seq(LegacyContainers)
  BY DEF Inv, Extracting
<1>2. /\ upc[u] = "renamed" /\ upc' = [upc EXCEPT ![u] = "unpacked"]
      /\ audit' = [reservoir |-> seen[u], blocks |-> staging[u]]
      /\ UNCHANGED <<file, packer, output, seen, at, staging, touched, files>>
  BY DEF WriteAudit, UGoto
<1>3. /\ file # None /\ seen' = [seen EXCEPT ![u] = seen[u]]
      /\ at' = [at EXCEPT ![u] = at[u]] /\ staging' = [staging EXCEPT ![u] = staging[u]]
  BY <1>2 DEF Inv, Extracting
<1>4. Stored' /\ Packing' /\ Extracting'
  BY <1>1, <1>2, <1>3, UnpackerMove DEF Inv, Stored, UnpackerSteps
<1>5. output # None /\ output = staging[u] /\ audit'.blocks = staging[u]
  BY <1>2 DEF Inv, Described
<1>6. \A v \in Unpackers : upc'[v] = "renamed" => upc[v] = "renamed"
  BY <1>2 DEF Inv, Extracting
<1>7. Described'
  BY <1>2, <1>5, <1>6 DEF Inv, Described
<1> QED BY <1>4, <1>7 DEF Inv

LEMMA CrashUnpackerStep ==
  ASSUME Inv, NEW u \in Unpackers, CrashUnpacker(u)
  PROVE  Inv'
<1>1. /\ seen[u] \in ReservoirFiles \cup {None} /\ at[u] \in Positions \cup {None}
      /\ staging[u] \in Seq(LegacyContainers)
  BY DEF Inv, Extracting
<1>2. /\ upc[u] # "idle" /\ upc' = [upc EXCEPT ![u] = "crashed"]
      /\ UNCHANGED <<file, packer, output, audit, seen, at, staging, touched, files>>
  BY DEF CrashUnpacker
<1>3. /\ file # None /\ seen' = [seen EXCEPT ![u] = seen[u]]
      /\ at' = [at EXCEPT ![u] = at[u]] /\ staging' = [staging EXCEPT ![u] = staging[u]]
  BY <1>2 DEF Inv, Extracting
<1>4. Stored' /\ Packing' /\ Extracting'
  BY <1>1, <1>2, <1>3, UnpackerMove DEF Inv, Stored, UnpackerSteps
<1>5. \A v \in Unpackers : upc'[v] = "renamed" => upc[v] = "renamed"
  BY <1>2 DEF Inv, Extracting
<1>6. Described'
  BY <1>2, <1>5 DEF Inv, Described
<1> QED BY <1>4, <1>6 DEF Inv

-----------------------------------------------------------------------------
(* The theorems                                                            *)

LEMMA InvNext == Inv /\ [Next]_vars => Inv'
<1> SUFFICES ASSUME Inv, [Next]_vars PROVE Inv'
  OBVIOUS
<1>1. CASE Pack
  BY <1>1, PackStep
<1>2. ASSUME NEW u \in Unpackers, Unpack(u) PROVE Inv'
  BY <1>2, StatStep, ValidateStep, OpenStagingStep, ExtractChunkStep, RenameStep,
     WriteAuditStep, CrashUnpackerStep DEF Unpack
<1>3. ASSUME NEW f \in Forgeries, Present(f) PROVE Inv'
  BY <1>3, PresentStep
<1>4. CASE UNCHANGED vars
  <2>1. UNCHANGED <<file, packer, unpacker, touched, files>>
    BY <1>4 DEF vars
  <2>2. Stored' /\ Packing'
    BY <2>1 DEF Inv, Stored, Packing, packer, Legal
  <2>3. Extracting' /\ Described'
    BY <2>1, ExtractingStill, DescribedStill DEF Inv, unpacker
  <2> QED BY <2>2, <2>3 DEF Inv
<1> QED BY <1>1, <1>2, <1>3, <1>4 DEF Next

LEMMA Invariant == Spec => []Inv
BY InvInit, InvNext, PTL DEF Spec

\* For every size of byte, chunk and budget the sink holds less than a byte back,
\* has counted all it was given, and what it has written ends on a byte; and
\* packer and unpackers are nowhere but in their code.
THEOREM TypeCorrect == Spec => []TypeOK
<1>1. Inv => TypeOK
  BY DEF Inv, Stored, Packing, Extracting, TypeOK, PackerSteps, UnpackerSteps
<1> QED BY <1>1, Invariant, PTL

\* However many unpackers are started on one output directory, whenever each is
\* killed and whatever becomes of the file meanwhile, an audit on disk
\* lists the records that are there.
THEOREM AuditDescribed == Spec => []AuditDescribesOutput
<1>1. Inv => AuditDescribesOutput
  BY DEF Inv, Described, AuditDescribesOutput
<1> QED BY <1>1, Invariant, PTL

\* No step of anyone replaces records that are in place.
THEOREM PublishedOnce == Spec => OutputOnce
<1> DEFINE Kept == output # None => output' = output
<1>1. ASSUME [Next]_vars PROVE [Kept]_vars
  <2>1. CASE Pack
    BY <2>1 DEF Pack, StartPack, OpenOutput, AppendBlock, Finish, WriteHeader, WritePackAudit,
       CrashPacker, unpacker
  <2>2. ASSUME NEW u \in Unpackers, Unpack(u) PROVE Kept
    BY <2>2 DEF Unpack, Stat, Validate, OpenStaging, ExtractChunk, Rename, WriteAudit,
       CrashUnpacker
  <2>3. ASSUME NEW f \in Forgeries, Present(f) PROVE Kept
    BY <2>3 DEF Present, unpacker
  <2> QED BY <1>1, <2>1, <2>2, <2>3 DEF Next
<1> QED BY <1>1, PTL DEF Spec, OutputOnce

-----------------------------------------------------------------------------
(* Offsets                                                                 *)

\* Blocks as jobs and directories have them: each of some number of bits.
AreBlocks(blocks, n) ==
  /\ Len(blocks) = n
  /\ \A i \in 1 .. n : blocks[i].bits \in Nat

LEMMA OffsetsOf ==
  ASSUME NEW n \in Nat, NEW blocks, AreBlocks(blocks, n)
  PROVE  /\ Offsets(blocks) \in [0 .. n -> Nat]
         /\ Offsets(blocks)[0] = 0
         /\ \A i \in 1 .. n : Offsets(blocks)[i] = Offsets(blocks)[i - 1] + blocks[i].bits
<1> DEFINE step == [i \in 1 .. n |-> [v \in Nat |-> v + blocks[i].bits]]
           Eqn(s) == s = [i \in 0 .. n |-> IF i = 0 THEN 0 ELSE s[i - 1] + blocks[i].bits]
           sums == CHOOSE s : Eqn(s)
<1>1. \A i \in (0 .. n) \ {0} : i \in 1 .. n /\ i - 1 \in 0 .. n
  OBVIOUS
<1>2. ASSUME NEW i \in 1 .. n, NEW v \in Nat
      PROVE  step[i][v] = v + blocks[i].bits /\ v + blocks[i].bits \in Nat
  BY DEF AreBlocks
<1>3. \A i \in 1 .. n : step[i] \in [Nat -> Nat]
  BY DEF AreBlocks
<1> HIDE DEF step
<1>4. AreSteps(step, Nat, 0 .. n)
  BY <1>1, <1>3 DEF AreSteps
<1>5. PICK g : IsRun(g, Nat, 0, step, 0 .. n)
  BY <1>4, RunToBound
<1>6. g \in [0 .. n -> Nat] /\ g[0] = 0 /\ \A i \in (0 .. n) \ {0} : g[i] = step[i][g[i - 1]]
  BY <1>5 DEF IsRun
<1>7. \A i \in 1 .. n : g[i - 1] \in Nat /\ g[i] = g[i - 1] + blocks[i].bits
  <2> TAKE i \in 1 .. n
  <2>1. g[i - 1] \in Nat /\ g[i] = step[i][g[i - 1]]
    BY <1>6
  <2> QED
    BY <1>2, <2>1
<1>8. Eqn(g)
  BY <1>1, <1>6, <1>7
<1>9. Eqn(sums)
  <2> HIDE DEF Eqn
  <2> QED
    BY <1>8
<1>10. Offsets(blocks) = sums
  BY DEF Offsets, AreBlocks
<1> HIDE DEF sums
<1>11. sums[0] = 0
  BY <1>9
<1>12. \A i \in 1 .. n : sums[i] = sums[i - 1] + blocks[i].bits
  BY <1>9
<1> DEFINE Good == {i \in 0 .. n : sums[i] \in Nat}
<1>13. 0 \in Good
  BY <1>11
<1>14. ASSUME NEW i \in 0 .. n - 1, i \in Good PROVE i + 1 \in Good
  <2>1. i + 1 \in 1 .. n /\ (i + 1) - 1 = i /\ i + 1 \in 0 .. n
    OBVIOUS
  <2>2. sums[i + 1] = sums[i] + blocks[i + 1].bits /\ blocks[i + 1].bits \in Nat
    BY <1>12, <2>1 DEF AreBlocks
  <2> QED
    BY <1>14, <2>1, <2>2
<1>15. \A i \in 0 .. n : i \in Good
  <2> HIDE DEF Good
  <2> QED
    BY <1>13, <1>14, UpToBound
<1>16. DOMAIN sums = 0 .. n /\ sums = [i \in 0 .. n |-> sums[i]]
  BY <1>9
<1>17. sums \in [0 .. n -> Nat]
  BY <1>15, <1>16
<1> QED
  BY <1>10, <1>11, <1>12, <1>17

LEMMA SameOffsets ==
  ASSUME NEW n \in Nat, NEW a, NEW b, AreBlocks(a, n), AreBlocks(b, n),
         \A i \in 1 .. n : a[i].bits = b[i].bits
  PROVE  Offsets(a) = Offsets(b) /\ TotalOf(a) = TotalOf(b)
<1>1. /\ Offsets(a) \in [0 .. n -> Nat] /\ Offsets(a)[0] = 0
      /\ \A i \in 1 .. n : Offsets(a)[i] = Offsets(a)[i - 1] + a[i].bits
  BY OffsetsOf
<1>2. /\ Offsets(b) \in [0 .. n -> Nat] /\ Offsets(b)[0] = 0
      /\ \A i \in 1 .. n : Offsets(b)[i] = Offsets(b)[i - 1] + b[i].bits
  BY OffsetsOf
<1> DEFINE Good == {i \in 0 .. n : Offsets(a)[i] = Offsets(b)[i]}
<1>3. 0 \in Good
  BY <1>1, <1>2
<1>4. ASSUME NEW i \in 0 .. n - 1, i \in Good PROVE i + 1 \in Good
  <2>1. i + 1 \in 1 .. n /\ (i + 1) - 1 = i /\ i + 1 \in 0 .. n
    OBVIOUS
  <2> QED
    BY <1>1, <1>2, <1>4, <2>1
<1>5. \A i \in 0 .. n : i \in Good
  <2> HIDE DEF Good
  <2> QED
    BY <1>3, <1>4, UpToBound
<1>6. Offsets(a) = Offsets(b)
  BY <1>1, <1>2, <1>5
<1> QED
  BY <1>6 DEF TotalOf, AreBlocks

LEMMA OffsetsGrow ==
  ASSUME NEW n \in Nat, NEW blocks, AreBlocks(blocks, n), NEW m \in 0 .. n, NEW i \in 0 .. m
  PROVE  Offsets(blocks)[i] <= Offsets(blocks)[m]
<1>1. /\ Offsets(blocks) \in [0 .. n -> Nat]
      /\ \A k \in 1 .. n : Offsets(blocks)[k] = Offsets(blocks)[k - 1] + blocks[k].bits
  BY OffsetsOf
<1> DEFINE o == Offsets(blocks)
           Good == {k \in 0 .. n : \A j \in 0 .. k : o[j] <= o[k]}
<1>2. 0 \in Good
  BY <1>1
<1>3. ASSUME NEW k \in 0 .. n - 1, k \in Good PROVE k + 1 \in Good
  <2>1. k + 1 \in 1 .. n /\ (k + 1) - 1 = k /\ k + 1 \in 0 .. n /\ k \in 0 .. n
    OBVIOUS
  <2>2. o[k + 1] = o[k] + blocks[k + 1].bits /\ blocks[k + 1].bits \in Nat
    BY <1>1, <2>1 DEF AreBlocks
  <2>3. o[k] \in Nat /\ o[k + 1] \in Nat /\ \A j \in 0 .. k : o[j] \in Nat /\ o[j] <= o[k]
    BY <1>1, <1>3, <2>1
  <2>4. \A j \in 0 .. k + 1 : o[j] <= o[k + 1]
    <3> TAKE j \in 0 .. k + 1
    <3>1. CASE j = k + 1
      BY <2>3, <3>1
    <3>2. CASE j # k + 1
      <4>1. j \in 0 .. k
        BY <3>2
      <4> HIDE DEF o
      <4> QED
        BY <2>2, <2>3, <4>1
    <3> QED
      BY <3>1, <3>2
  <2> QED
    BY <2>1, <2>4
<1>4. \A k \in 0 .. n : k \in Good
  <2> HIDE DEF Good
  <2> QED
    BY <1>2, <1>3, UpToBound
<1> QED
  BY <1>4

-----------------------------------------------------------------------------
(* Streams of bits                                                         *)

LEMMA JoinedBits ==
  ASSUME NEW s \in Seq(Bit), NEW t \in Seq(Bit)
  PROVE  /\ s \o t \in Seq(Bit)
         /\ Len(s) \in Nat /\ Len(t) \in Nat /\ Len(s \o t) = Len(s) + Len(t)
         /\ \A k \in 1 .. Len(s) : (s \o t)[k] = s[k]
         /\ \A k \in 1 .. Len(t) : (s \o t)[Len(s) + k] = t[k]
<1>1. s \o t \in Seq(Bit) /\ Len(s) \in Nat /\ Len(t) \in Nat /\ Len(s \o t) = Len(s) + Len(t)
  BY ConcatProperties, LenProperties
<1>2. \A k \in 1 .. Len(s) + Len(t) : (s \o t)[k] = IF k <= Len(s) THEN s[k] ELSE t[k - Len(s)]
  BY ConcatProperties
<1>3. \A k \in 1 .. Len(s) : (s \o t)[k] = s[k]
  BY <1>1, <1>2
<1>4. \A k \in 1 .. Len(t) : (s \o t)[Len(s) + k] = t[k]
  <2> TAKE k \in 1 .. Len(t)
  <2>1. Len(s) + k \in 1 .. Len(s) + Len(t) /\ ~(Len(s) + k <= Len(s)) /\ (Len(s) + k) - Len(s) = k
    BY <1>1
  <2> QED
    BY <1>2, <2>1
<1> QED
  BY <1>1, <1>3, <1>4

LEMMA JoinedTwice ==
  ASSUME NEW s \in Seq(Bit), NEW t \in Seq(Bit), NEW u \in Seq(Bit)
  PROVE  (s \o t) \o u = s \o (t \o u)
BY ConcatAssociative

LEMMA CutBits ==
  ASSUME NEW s \in Seq(Bit), NEW a \in Nat, NEW n \in Nat, a + n <= Len(s)
  PROVE  /\ SubSeq(s, a + 1, a + n) \in Seq(Bit)
         /\ Len(SubSeq(s, a + 1, a + n)) = n
         /\ \A k \in 1 .. n : SubSeq(s, a + 1, a + n)[k] = s[a + k]
<1>1. /\ SubSeq(s, a + 1, a + n) \in Seq(Bit)
      /\ Len(SubSeq(s, a + 1, a + n)) = IF a + 1 <= a + n THEN a + n - (a + 1) + 1 ELSE 0
  BY PartOfBits
<1>2. Len(SubSeq(s, a + 1, a + n)) = n
  BY <1>1
<1>3. \A i \in (a + 1) .. (a + n) : s[i] \in Bit
  BY ElementOfSeq, LenProperties
<1>4. \A k \in 1 .. (a + n) - (a + 1) + 1 : SubSeq(s, a + 1, a + n)[k] = s[(a + 1) + k - 1]
  BY <1>3, SubSeqProperties
<1>5. \A k \in 1 .. n : SubSeq(s, a + 1, a + n)[k] = s[a + k]
  <2> TAKE k \in 1 .. n
  <2>1. k \in 1 .. (a + n) - (a + 1) + 1 /\ (a + 1) + k - 1 = a + k
    OBVIOUS
  <2> QED
    BY <1>4, <2>1
<1> QED
  BY <1>1, <1>2, <1>5

LEMMA SameBits ==
  ASSUME NEW s \in Seq(Bit), NEW t \in Seq(Bit), NEW n \in Nat, Len(s) = n, Len(t) = n,
         \A k \in 1 .. n : s[k] = t[k]
  PROVE  s = t
BY SeqEqual

\* Bits s are the n bits of p behind the first a.
Continues(s, p, a, n) ==
  /\ Len(s) = n /\ a + n <= Len(p)
  /\ \A k \in 1 .. n : s[k] = p[a + k]

LEMMA PrefixGrows ==
  ASSUME NEW p \in Seq(Bit), NEW a \in Nat, NEW s \in Seq(Bit), NEW n \in Nat,
         Continues(s, p, a, n)
  PROVE  SubSeq(p, 1, a) \o s = SubSeq(p, 1, a + n)
<1> USE DEF Continues
<1>1. Len(p) \in Nat /\ a <= Len(p) /\ 0 + a = a /\ 0 + (a + n) = a + n /\ 0 + 1 = 1
      /\ a + n \in Nat
  BY LenProperties
<1> DEFINE x == SubSeq(p, 1, a)
           y == SubSeq(p, 1, a + n)
<1>2. x \in Seq(Bit) /\ Len(x) = a /\ \A k \in 1 .. a : x[k] = p[k]
  <2>1. /\ SubSeq(p, 0 + 1, 0 + a) \in Seq(Bit) /\ Len(SubSeq(p, 0 + 1, 0 + a)) = a
        /\ \A k \in 1 .. a : SubSeq(p, 0 + 1, 0 + a)[k] = p[0 + k]
    BY <1>1, CutBits
  <2>2. \A k \in 1 .. a : 0 + k = k
    OBVIOUS
  <2> QED
    BY <1>1, <2>1, <2>2
<1>3. y \in Seq(Bit) /\ Len(y) = a + n /\ \A k \in 1 .. a + n : y[k] = p[k]
  <2>1. PICK m \in Nat : m = a + n
    BY <1>1
  <2>2. /\ SubSeq(p, 0 + 1, 0 + m) \in Seq(Bit) /\ Len(SubSeq(p, 0 + 1, 0 + m)) = m
        /\ \A k \in 1 .. m : SubSeq(p, 0 + 1, 0 + m)[k] = p[0 + k]
    BY <1>1, <2>1, CutBits
  <2>3. \A k \in 1 .. m : 0 + k = k
    OBVIOUS
  <2> QED
    BY <1>1, <2>1, <2>2, <2>3
<1> HIDE DEF x, y
<1>4. /\ x \o s \in Seq(Bit) /\ Len(x \o s) = a + n
      /\ \A k \in 1 .. a : (x \o s)[k] = x[k]
      /\ \A k \in 1 .. n : (x \o s)[a + k] = s[k]
  BY <1>2, JoinedBits
<1>5. \A k \in 1 .. a + n : (x \o s)[k] = y[k]
  <2> TAKE k \in 1 .. a + n
  <2>1. CASE k <= a
    <3>1. k \in 1 .. a
      BY <2>1
    <3>2. (x \o s)[k] = x[k] /\ x[k] = p[k] /\ y[k] = p[k]
      BY <1>2, <1>3, <1>4, <3>1
    <3> QED
      BY <3>2
  <2>2. CASE k > a
    <3>1. k - a \in 1 .. n /\ a + (k - a) = k
      BY <2>2
    <3>2. (x \o s)[a + (k - a)] = s[k - a] /\ s[k - a] = p[a + (k - a)]
      BY <1>4, <3>1
    <3> QED
      BY <1>3, <3>1, <3>2
  <2>3. k <= a \/ k > a
    OBVIOUS
  <2> QED
    BY <2>1, <2>2, <2>3
<1>6. x \o s = y
  BY <1>1, <1>3, <1>4, <1>5, SameBits
<1> QED
  BY <1>6 DEF x, y

\* Pieces joined one by one.
ArePieceBits(pieces, n) == Len(pieces) = n /\ \A i \in 1 .. n : pieces[i] \in Seq(Bit)

LEMMA FlattenedOf ==
  ASSUME NEW n \in Nat \ {0}, NEW pieces, ArePieceBits(pieces, n)
  PROVE  \E f \in [1 .. n -> Seq(Bit)] :
           /\ f[1] = pieces[1]
           /\ \A i \in 2 .. n : f[i] = f[i - 1] \o pieces[i]
           /\ FlattenSeq(pieces) = f[n]
<1> USE DEF ArePieceBits
<1> DEFINE step == [i \in 1 .. n |-> [v \in Seq(Bit) |-> IF i = 1 THEN pieces[1] ELSE v \o pieces[i]]]
           Eqn(f) == f = [i \in 1 .. n |-> IF i = 1 THEN pieces[i] ELSE f[i - 1] \o pieces[i]]
           flatten == CHOOSE f : Eqn(f)
<1>1. \A i \in (0 .. n) \ {0} : i \in 1 .. n /\ i - 1 \in 0 .. n
  OBVIOUS
<1>2. ASSUME NEW i \in 1 .. n, NEW v \in Seq(Bit)
      PROVE  /\ step[i][v] = IF i = 1 THEN pieces[1] ELSE v \o pieces[i]
             /\ (IF i = 1 THEN pieces[1] ELSE v \o pieces[i]) \in Seq(Bit)
  BY JoinedBits
<1>3. \A i \in 1 .. n : step[i] \in [Seq(Bit) -> Seq(Bit)]
  <2> TAKE i \in 1 .. n
  <2>1. step[i] = [v \in Seq(Bit) |-> IF i = 1 THEN pieces[1] ELSE v \o pieces[i]]
    OBVIOUS
  <2> HIDE DEF step
  <2> QED
    BY <1>2, <2>1
<1> HIDE DEF step
<1>4. AreSteps(step, Seq(Bit), 0 .. n) /\ <<>> \in Seq(Bit)
  BY <1>1, <1>3 DEF AreSteps
<1>5. PICK g : IsRun(g, Seq(Bit), <<>>, step, 0 .. n)
  BY <1>4, RunToBound
<1>6. g \in [0 .. n -> Seq(Bit)] /\ \A i \in (0 .. n) \ {0} : g[i] = step[i][g[i - 1]]
  BY <1>5 DEF IsRun
<1>7. \A i \in 1 .. n : /\ g[i - 1] \in Seq(Bit)
                        /\ g[i] = IF i = 1 THEN pieces[1] ELSE g[i - 1] \o pieces[i]
  <2> TAKE i \in 1 .. n
  <2>1. i \in (0 .. n) \ {0} /\ i - 1 \in 0 .. n
    OBVIOUS
  <2>2. g[i - 1] \in Seq(Bit) /\ g[i] = step[i][g[i - 1]]
    BY <1>6, <2>1
  <2> QED
    BY <1>2, <2>2
<1> DEFINE h == [i \in 1 .. n |-> g[i]]
<1>8. h \in [1 .. n -> Seq(Bit)]
  BY <1>6
<1>9. Eqn(h)
  <2>1. \A i \in 1 .. n : h[i] = IF i = 1 THEN pieces[i] ELSE h[i - 1] \o pieces[i]
    <3> TAKE i \in 1 .. n
    <3>1. h[i] = g[i] /\ (i # 1 => i - 1 \in 1 .. n /\ h[i - 1] = g[i - 1])
      OBVIOUS
    <3> HIDE DEF h
    <3> QED
      BY <1>7, <3>1
  <2>2. h = [i \in 1 .. n |-> h[i]]
    OBVIOUS
  <2> HIDE DEF h
  <2> QED
    BY <2>1, <2>2
<1>10. Eqn(flatten)
  <2> HIDE DEF Eqn, h
  <2> QED
    BY <1>9
<1>11. FlattenSeq(pieces) = flatten[n]
  BY DEF FlattenSeq
<1> HIDE DEF flatten, h
<1>12. /\ DOMAIN flatten = 1 .. n /\ flatten = [i \in 1 .. n |-> flatten[i]]
       /\ \A i \in 1 .. n : flatten[i] = IF i = 1 THEN pieces[i] ELSE flatten[i - 1] \o pieces[i]
  BY <1>10
<1> DEFINE Good == {i \in 0 .. n : i # 0 => flatten[i] \in Seq(Bit)}
<1>13. 0 \in Good
  OBVIOUS
<1>14. ASSUME NEW i \in 0 .. n - 1, i \in Good PROVE i + 1 \in Good
  <2>1. i + 1 \in 1 .. n /\ (i + 1) - 1 = i /\ i + 1 \in 0 .. n /\ (i + 1 = 1 <=> i = 0)
    OBVIOUS
  <2>2. pieces[i + 1] \in Seq(Bit)
    BY <2>1
  <2>3. flatten[i + 1] = IF i + 1 = 1 THEN pieces[i + 1] ELSE flatten[i] \o pieces[i + 1]
    BY <1>12, <2>1
  <2>4. CASE i = 0
    BY <2>1, <2>2, <2>3, <2>4
  <2>5. CASE i # 0
    <3>1. flatten[i] \in Seq(Bit)
      BY <1>14, <2>5
    <3>2. flatten[i] \o pieces[i + 1] \in Seq(Bit)
      BY <2>2, <3>1, JoinedBits
    <3> QED
      BY <2>1, <2>3, <2>5, <3>2
  <2> QED
    BY <2>4, <2>5
<1>15. \A i \in 0 .. n : i \in Good
  <2> HIDE DEF Good
  <2> QED
    BY <1>13, <1>14, UpToBound
<1>16. \A i \in 1 .. n : flatten[i] \in Seq(Bit)
  <2> TAKE i \in 1 .. n
  <2>1. i \in 0 .. n /\ i # 0
    OBVIOUS
  <2>2. i \in Good
    BY <1>15, <2>1
  <2> QED
    BY <2>1, <2>2
<1> DEFINE F == flatten
<1> HIDE DEF Good, F
<1>17. F \in [1 .. n -> Seq(Bit)]
  BY <1>12, <1>16 DEF F
<1>18. F[1] = pieces[1] /\ \A i \in 2 .. n : F[i] = F[i - 1] \o pieces[i]
  <2>1. 1 \in 1 .. n
    OBVIOUS
  <2>2. F[1] = pieces[1]
    BY <1>12, <2>1 DEF F
  <2>3. ASSUME NEW i \in 2 .. n PROVE F[i] = F[i - 1] \o pieces[i]
    <3>1. i \in 1 .. n /\ i # 1
      OBVIOUS
    <3> QED
      BY <1>12, <3>1 DEF F
  <2> QED
    BY <2>2, <2>3
<1> QED
  BY <1>11, <1>17, <1>18 DEF F

\* The pieces that some blocks cut a stream into.
ArePieces(pieces, blocks, n) ==
  /\ Len(pieces) = n
  /\ AreBlocks(blocks, n)
  /\ \A i \in 1 .. n : pieces[i] \in Seq(Bit) /\ Len(pieces[i]) = blocks[i].bits
LieIn(pieces, blocks, n, p) ==
  \A i \in 1 .. n : \A k \in 1 .. blocks[i].bits : pieces[i][k] = p[Offsets(blocks)[i - 1] + k]

\* Bits that are found piece by piece, each at its offset, are the pieces joined.
LEMMA Assembled ==
  ASSUME NEW n \in Nat \ {0}, NEW pieces, NEW blocks, ArePieces(pieces, blocks, n),
         NEW p \in Seq(Bit), TotalOf(blocks) <= Len(p), LieIn(pieces, blocks, n, p)
  PROVE  FlattenSeq(pieces) = SubSeq(p, 1, TotalOf(blocks))
<1> DEFINE o == Offsets(blocks)
<1>0. /\ Len(pieces) = n /\ AreBlocks(blocks, n)
      /\ \A i \in 1 .. n : pieces[i] \in Seq(Bit) /\ Len(pieces[i]) = blocks[i].bits
  BY DEF ArePieces
<1>1. /\ o \in [0 .. n -> Nat] /\ o[0] = 0
      /\ \A i \in 1 .. n : o[i] = o[i - 1] + blocks[i].bits
  BY <1>0, OffsetsOf
<1>2. TotalOf(blocks) = o[n] /\ \A i \in 1 .. n : blocks[i].bits \in Nat
  BY <1>0 DEF TotalOf, AreBlocks
<1>3. \A i \in 0 .. n : o[i] <= o[n]
  BY <1>0, OffsetsGrow
<1>4. Len(p) \in Nat
  BY LenProperties
<1> HIDE DEF o
<1>5. \A a \in Nat, s \in Seq(Bit), m \in Nat :
        Continues(s, p, a, m) => SubSeq(p, 1, a) \o s = SubSeq(p, 1, a + m)
  BY PrefixGrows
<1>6. PICK f \in [1 .. n -> Seq(Bit)] :
           /\ f[1] = pieces[1]
           /\ \A i \in 2 .. n : f[i] = f[i - 1] \o pieces[i]
           /\ FlattenSeq(pieces) = f[n]
  <2>1. ArePieceBits(pieces, n)
    BY <1>0 DEF ArePieceBits
  <2> QED
    BY <2>1, FlattenedOf
<1>7. ASSUME NEW i \in 1 .. n
      PROVE  SubSeq(p, 1, o[i - 1]) \o pieces[i] = SubSeq(p, 1, o[i])
  <2>1. PICK a \in Nat : a = o[i - 1]
    <3>1. i - 1 \in 0 .. n
      OBVIOUS
    <3>2. o[i - 1] \in Nat
      BY <1>1, <3>1
    <3> QED
      BY <3>2
  <2>2. PICK m \in Nat : m = blocks[i].bits
    BY <1>2
  <2>3. o[i] = a + m
    BY <1>1, <2>1, <2>2
  <2>4. a + m <= Len(p)
    BY <1>1, <1>2, <1>3, <1>4, <2>3
  <2>5. \A k \in 1 .. m : pieces[i][k] = p[a + k]
    BY <2>1, <2>2 DEF LieIn, o
  <2>6. pieces[i] \in Seq(Bit) /\ Len(pieces[i]) = m
    BY <1>0, <2>2
  <2>7. SubSeq(p, 1, a) \o pieces[i] = SubSeq(p, 1, a + m)
    <3>1. PICK piece \in Seq(Bit) : piece = pieces[i]
      BY <2>6
    <3>2. Continues(piece, p, a, m)
      BY <2>4, <2>5, <2>6, <3>1 DEF Continues
    <3>3. SubSeq(p, 1, a) \o piece = SubSeq(p, 1, a + m)
      BY <1>5, <3>2
    <3> QED
      BY <3>1, <3>3
  <2> QED
    BY <2>1, <2>3, <2>7
<1> DEFINE Good == {i \in 0 .. n : i # 0 => f[i] = SubSeq(p, 1, o[i])}
<1>8. 0 \in Good
  OBVIOUS
<1>9. ASSUME NEW i \in 0 .. n - 1, i \in Good PROVE i + 1 \in Good
  <2>1. i + 1 \in 1 .. n /\ (i + 1) - 1 = i /\ i + 1 \in 0 .. n
    OBVIOUS
  <2>2. SubSeq(p, 1, o[i]) \o pieces[i + 1] = SubSeq(p, 1, o[i + 1])
    BY <1>7, <2>1
  <2>3. CASE i = 0
    <3>1. SubSeq(p, 1, 0) = <<>>
      BY SubSeqEmpty
    <3>2. <<>> \o pieces[1] = pieces[1]
      <4>1. pieces[1] \in Seq(Bit)
        BY <1>0
      <4> QED
        BY <4>1, ConcatEmptySeq
    <3>3. o[0] = 0 /\ 0 + 1 = 1
      BY <1>1
    <3>4. f[1] = SubSeq(p, 1, o[1])
      BY <1>6, <2>2, <2>3, <3>1, <3>2, <3>3
    <3> QED
      BY <2>1, <2>3, <3>4
  <2>4. CASE i # 0
    <3>1. i + 1 \in 2 .. n
      BY <2>4
    <3>2. f[i + 1] = f[i] \o pieces[i + 1] /\ f[i] = SubSeq(p, 1, o[i])
      BY <1>6, <1>9, <2>1, <2>4, <3>1
    <3> QED
      BY <2>1, <2>2, <3>2
  <2> QED
    BY <2>3, <2>4
<1>10. \A i \in 0 .. n : i \in Good
  <2> HIDE DEF Good
  <2> QED
    BY <1>8, <1>9, UpToBound
<1>11. f[n] = SubSeq(p, 1, o[n])
  BY <1>10
<1> QED
  BY <1>2, <1>6, <1>11

-----------------------------------------------------------------------------
(* Bits shifted and padded                                                 *)

LEMMA RemainderIs ==
  ASSUME NEW a \in Int, NEW b \in Nat \ {0}, NEW q \in Int, NEW r \in 0 .. b - 1, a = b * q + r
  PROVE  a % b = r
BY SMT

LEMMA Opposite ==
  ASSUME NEW a \in Int, NEW b \in Nat \ {0}
  PROVE  \E q \in Int : a = b * q + (a % b)
<1>1. a = b * (a \div b) + (a % b) /\ a \div b \in Int
  BY SMT
<1> QED
  BY <1>1

\* Whole bytes before some bits do not change how many are missing to the next byte.
LEMMA SamePadding ==
  ASSUME NEW c \in Nat, NEW t \in Nat, NEW b \in Nat \ {0}, c % b = 0
  PROVE  (-(c + t)) % b = (-t) % b
<1>1. PICK x \in Int : x = c
  OBVIOUS
<1>2. PICK y \in Int : y = -t
  OBVIOUS
<1>3. PICK k \in Int : x = b * k + (x % b)
  BY Opposite
<1>4. PICK m \in Int : y = b * m + (y % b)
  BY Opposite
<1>5. PICK r \in 0 .. b - 1 : r = y % b
  BY Remainder
<1>6. c = b * k + 0 /\ -t = b * m + r /\ b * k \in Int /\ b * m \in Int
  BY <1>1, <1>2, <1>3, <1>4, <1>5
<1>7. c = b * k
  BY <1>6
<1>8. -(c + t) = b * (m - k) + r /\ m - k \in Int /\ -(c + t) \in Int
  <2>1. b * (m - k) = b * m - b * k
    OBVIOUS
  <2> QED
    BY <1>6, <1>7, <2>1
<1>9. PICK z \in Int : z = -(c + t)
  BY <1>8
<1>10. z % b = r
  BY <1>8, <1>9, RemainderIs
<1> QED
  BY <1>2, <1>5, <1>9, <1>10

LEMMA NoPadding ==
  ASSUME NEW c \in Nat, NEW b \in Nat \ {0}, c % b = 0
  PROVE  (-c) % b = 0
<1>1. PICK t \in Nat : t = 0
  OBVIOUS
<1>2. (-(c + t)) % b = (-t) % b
  BY SamePadding
<1>3. (-t) % b = 0 /\ -(c + t) = -c
  BY <1>1
<1> QED
  BY <1>2, <1>3

\* The byte a bit is in begins as many bits before it as its offset says.
LEMMA ByteBegin ==
  ASSUME NEW c \in Nat, NEW b \in Nat \ {0}
  PROVE  /\ c \div b \in Nat /\ (c \div b) * b \in Nat
         /\ c % b \in 0 .. b - 1
         /\ (c \div b) * b + (c % b) = c
<1>1. c \div b \in Nat /\ c % b \in 0 .. b - 1
  <2>1. c \div b \in Nat
    BY Quotient
  <2>2. PICK x \in Int : x = c
    OBVIOUS
  <2>3. x % b \in 0 .. b - 1
    BY Remainder
  <2> QED
    BY <2>1, <2>2, <2>3
<1>2. c = b * (c \div b) + (c % b)
  BY SMT
<1>3. PICK q \in Nat : q = c \div b
  BY <1>1
<1>4. PICK r \in Nat : r = c % b
  BY <1>1
<1>5. b * q = q * b /\ q * b \in Nat
  OBVIOUS
<1> QED
  BY <1>1, <1>2, <1>3, <1>4, <1>5

LEMMA ZerosOf ==
  ASSUME NEW n \in Nat
  PROVE  Zeros(n) \in Seq(Bit) /\ Len(Zeros(n)) = n /\ \A k \in 1 .. n : Zeros(n)[k] = 0
<1>1. Zeros(n) \in Seq(Bit)
  BY ZerosAreBits
<1>2. DOMAIN Zeros(n) = 1 .. n /\ \A k \in 1 .. n : Zeros(n)[k] = 0
  BY DEF Zeros
<1>3. Len(Zeros(n)) = n
  BY <1>1, <1>2, LenProperties
<1> QED
  BY <1>1, <1>2, <1>3

\* Bits padded with zeros to whole bytes.
PaddedCut(s, p, from, n) ==
  /\ s \in Seq(Bit) /\ Len(s) = RoundUp(n)
  /\ \A k \in 1 .. n : s[k] = p[from + k]
  /\ \A k \in n + 1 .. Len(s) : s[k] = 0

\* The shifts and masks of the repacker cut the bits out that were asked for, if
\* the bytes that hold them were read.
LEMMA RepackedIs ==
  ASSUME file # None, file.payload \in Seq(Bit), NEW cursor \in Nat, NEW take \in Nat,
         Len(Slice(cursor, take)) = RoundUp((cursor % ByteBits) + take)
  PROVE  PaddedCut(Repacked(Slice(cursor, take), cursor % ByteBits, take), file.payload, cursor, take)
<1> DEFINE first == (cursor \div ByteBits) * ByteBits
           offset == cursor % ByteBits
           count == RoundUp(offset + take)
           last == Min({first + count, Len(file.payload)})
           physical == SubSeq(file.payload, first + 1, last)
           pad == (-take) % ByteBits
           p == file.payload
<1>1. ByteBits \in Nat \ {0} /\ p \in Seq(Bit) /\ Len(p) \in Nat
  BY ReservoirAssumption, LenProperties
<1>2. first \in Nat /\ offset \in 0 .. ByteBits - 1 /\ first + offset = cursor
  BY <1>1, ByteBegin
<1>3. offset \in Nat /\ offset + take \in Nat
  <2> HIDE DEF offset
  <2> QED
    BY <1>1, <1>2
<1>4. count \in Nat /\ count >= offset + take
  <2>1. PICK m \in Nat : m = offset + take
    BY <1>3
  <2>2. RoundUp(m) \in Nat /\ RoundUp(m) >= m
    BY RoundedUp
  <2> QED
    BY <2>1, <2>2
<1>5. pad \in Nat
  BY <1>1, Remainder
<1>6. Slice(cursor, take) = physical /\ Len(physical) = count
  BY DEF Slice
<1> HIDE DEF first, offset, count
<1> HIDE DEF p
<1>7. last \in Int /\ last <= Len(p) /\ last <= first + count
  <2>1. PICK a \in Int : a = first + count
    BY <1>2, <1>4
  <2>2. PICK b \in Int : b = Len(p)
    BY <1>1
  <2>3. last = Min({a, b})
    BY <2>1, <2>2 DEF last, p
  <2>4. Min({a, b}) \in {a, b} /\ Min({a, b}) <= a /\ Min({a, b}) <= b
    BY MinOfTwo
  <2> HIDE DEF last
  <2> QED
    BY <2>1, <2>2, <2>3, <2>4
<1> HIDE DEF last
<1>8. /\ physical \in Seq(Bit)
      /\ Len(physical) = IF first + 1 <= last THEN last - (first + 1) + 1 ELSE 0
      /\ \A k \in 1 .. last - (first + 1) + 1 : physical[k] = p[first + 1 + k - 1]
  <2>1. \A i \in first + 1 .. last : p[i] \in Bit
    BY <1>1, <1>2, <1>7, ElementOfSeq
  <2>2. PICK m \in Int : m = first + 1
    BY <1>2
  <2>3. PICK l \in Int : l = last
    BY <1>7
  <2>4. \A i \in m .. l : p[i] \in Bit
    BY <2>1, <2>2, <2>3
  <2>5. /\ SubSeq(p, m, l) \in Seq(Bit)
        /\ Len(SubSeq(p, m, l)) = IF m <= l THEN l - m + 1 ELSE 0
        /\ \A k \in 1 .. l - m + 1 : SubSeq(p, m, l)[k] = p[m + k - 1]
    BY <2>4, SubSeqProperties
  <2>6. physical = SubSeq(p, m, l)
    BY <2>2, <2>3 DEF p
  <2> HIDE DEF physical
  <2> QED
    BY <2>2, <2>3, <2>5, <2>6
<1>9. \A k \in 1 .. count : physical[k] = p[first + k]
  <2> TAKE k \in 1 .. count
  <2>1. count >= 1
    BY <1>4
  <2>2. first + 1 <= last /\ count = last - (first + 1) + 1
    BY <1>2, <1>4, <1>6, <1>7, <1>8, <2>1
  <2>3. k \in 1 .. last - (first + 1) + 1 /\ first + 1 + k - 1 = first + k
    BY <1>2, <1>4, <1>7, <2>2
  <2> QED
    BY <1>8, <2>3
<1> HIDE DEF physical, p, pad
<1> DEFINE out == Repacked(physical, offset, take)
<1>10. RoundUp(take) = take + pad
  BY DEF RoundUp, pad
<1>11. CASE offset = 0 /\ take % ByteBits = 0
  <2>1. out = physical
    BY <1>11 DEF Repacked
  <2>2. pad = 0
    BY <1>1, <1>11, NoPadding DEF pad
  <2>3. count = take
    BY <1>10, <1>11, <2>2 DEF count
  <2>4. first = cursor
    BY <1>2, <1>11
  <2>5. Len(out) = RoundUp(take) /\ Len(out) = take
    BY <1>6, <1>10, <2>1, <2>2, <2>3
  <2>6. \A k \in 1 .. take : out[k] = p[cursor + k]
    BY <1>9, <2>1, <2>3, <2>4
  <2>7. \A k \in take + 1 .. Len(out) : out[k] = 0
    BY <2>5
  <2> QED
    BY <1>6, <1>8, <2>1, <2>5, <2>6, <2>7 DEF PaddedCut, p, offset
<1>12. CASE ~(offset = 0 /\ take % ByteBits = 0)
  <2> DEFINE shifted == SubSeq(physical, 1, offset + take)
             masked == SubSeq(shifted, Len(shifted) - take + 1, Len(shifted))
  <2>1. out = masked \o Zeros(pad)
    BY <1>12 DEF Repacked, pad
  <2>2. /\ shifted \in Seq(Bit) /\ Len(shifted) = offset + take
        /\ \A k \in 1 .. offset + take : shifted[k] = physical[k]
    <3>1. PICK m \in Nat : m = offset + take
      BY <1>3
    <3>2. 0 + m <= Len(physical) /\ 0 + 1 = 1 /\ 0 + m = m /\ \A k \in 1 .. m : 0 + k = k
      BY <1>4, <1>6, <3>1
    <3>3. /\ SubSeq(physical, 0 + 1, 0 + m) \in Seq(Bit)
          /\ Len(SubSeq(physical, 0 + 1, 0 + m)) = m
          /\ \A k \in 1 .. m : SubSeq(physical, 0 + 1, 0 + m)[k] = physical[0 + k]
      BY <1>8, <3>2, CutBits
    <3> QED
      BY <3>1, <3>2, <3>3
  <2> HIDE DEF shifted
  <2>3. masked = SubSeq(shifted, offset + 1, offset + take)
    <3>1. Len(shifted) - take + 1 = offset + 1 /\ Len(shifted) = offset + take
      BY <1>3, <2>2
    <3> QED
      BY <3>1
  <2> HIDE DEF masked
  <2>4. /\ masked \in Seq(Bit) /\ Len(masked) = take
        /\ \A k \in 1 .. take : masked[k] = shifted[offset + k]
    <3>1. offset + take <= Len(shifted)
      BY <1>3, <2>2
    <3> QED
      BY <1>3, <2>2, <2>3, <3>1, CutBits
  <2>5. Zeros(pad) \in Seq(Bit) /\ Len(Zeros(pad)) = pad /\ \A k \in 1 .. pad : Zeros(pad)[k] = 0
    BY <1>5, ZerosOf
  <2>6. /\ out \in Seq(Bit) /\ Len(out) = take + pad
        /\ \A k \in 1 .. take : out[k] = masked[k]
        /\ \A k \in 1 .. pad : out[take + k] = Zeros(pad)[k]
    <3>1. PICK z \in Seq(Bit) : z = Zeros(pad)
      BY <2>5
    <3>2. Len(z) = pad
      BY <2>5, <3>1
    <3>3. out = masked \o z
      BY <2>1, <3>1
    <3>4. /\ masked \o z \in Seq(Bit) /\ Len(masked \o z) = Len(masked) + Len(z)
          /\ \A k \in 1 .. Len(masked) : (masked \o z)[k] = masked[k]
          /\ \A k \in 1 .. Len(z) : (masked \o z)[Len(masked) + k] = z[k]
      BY <2>4, JoinedBits
    <3> HIDE DEF out
    <3> QED
      BY <2>4, <3>1, <3>2, <3>3, <3>4
  <2> HIDE DEF out
  <2>7. \A k \in 1 .. take : out[k] = p[cursor + k]
    <3> TAKE k \in 1 .. take
    <3>1. offset + k \in 1 .. offset + take /\ offset + k \in 1 .. count
      BY <1>3, <1>4
    <3>2. first + (offset + k) = cursor + k
      BY <1>2, <1>3
    <3>3. out[k] = masked[k] /\ masked[k] = shifted[offset + k]
      BY <2>4, <2>6
    <3>4. shifted[offset + k] = physical[offset + k]
      BY <2>2, <3>1
    <3>5. physical[offset + k] = p[first + (offset + k)]
      BY <1>9, <3>1
    <3> QED
      BY <3>2, <3>3, <3>4, <3>5
  <2>8. \A k \in take + 1 .. Len(out) : out[k] = 0
    <3> TAKE k \in take + 1 .. Len(out)
    <3>1. k - take \in 1 .. pad /\ take + (k - take) = k
      BY <1>5, <2>6
    <3>2. out[take + (k - take)] = 0
      BY <2>5, <2>6, <3>1
    <3> QED
      BY <3>1, <3>2
  <2> QED
    BY <1>6, <1>10, <2>6, <2>7, <2>8 DEF PaddedCut, p, offset, out
<1> QED
  BY <1>11, <1>12

\* A chunk is all that remains or whole bytes.
LEMMA TakeWhole ==
  ASSUME NEW remaining \in Nat, Take(remaining) < remaining
  PROVE  Take(remaining) % ByteBits = 0
<1> DEFINE take == Min({remaining, ChunkBits})
<1>1. take \in Nat /\ take <= remaining
  <2>1. PICK a \in Int : a = remaining
    OBVIOUS
  <2>2. PICK b \in Nat : b = ChunkBits
    BY ReservoirAssumption
  <2>3. Min({a, b}) \in {a, b} /\ Min({a, b}) <= a
    BY MinOfTwo
  <2>4. take = Min({a, b})
    BY <2>1, <2>2
  <2> HIDE DEF take
  <2> QED
    BY <2>1, <2>2, <2>3, <2>4
<1> HIDE DEF take
<1>2. Take(remaining) = IF take < remaining THEN take - (take % ByteBits) ELSE take
  BY DEF Take, take
<1>3. Take(remaining) = take - (take % ByteBits)
  BY <1>1, <1>2
<1>4. PICK q \in Nat : q = take \div ByteBits
  BY <1>1, Quotient, ReservoirAssumption
<1>5. q * ByteBits + (take % ByteBits) = take /\ take % ByteBits \in Nat /\ q * ByteBits \in Nat
  BY <1>1, <1>4, ByteBegin, ReservoirAssumption
<1>6. take - (take % ByteBits) = ByteBits * q
  BY <1>1, <1>5, ReservoirAssumption
<1> QED
  BY <1>3, <1>6, Multiple, ReservoirAssumption

-----------------------------------------------------------------------------
(* What the packer has written                                             *)

\* Payload p holds the first n messages of job j.
Placed(p, j, n) ==
  \A i \in 1 .. n : \A k \in 1 .. j[i].bits : p[Offsets(j)[i - 1] + k] = j[i].payload[k]

\* It holds them all, and nothing else.
Filled(p, j) ==
  /\ p \in Seq(Bit) /\ Len(p) = Capacity
  /\ TotalOf(j) <= Capacity
  /\ Placed(p, j, BlockCount)
  /\ \A i \in TotalOf(j) + 1 .. Capacity : p[i] = 0

Accepted(j) ==
  /\ j \in Seq(LegacyContainers) /\ Len(j) = BlockCount
  /\ \A i \in 1 .. BlockCount : Legal(j[i])

\* The sink's pending bits follow those written: together they are the messages
\* appended so far.
Filling ==
  /\ ppc # "idle" => job \in Jobs /\ Accepted(job) /\ Fits(job)
  /\ ppc \in {"appending", "finished"} => file.header = Blank
  /\ ppc \in {"appending", "finished", "packed"} => file.directory = DirectoryOf(job)
  /\ ppc = "appending" =>
       /\ sink.logical = Offsets(job)[sink.next - 1]
       /\ Placed(file.payload \o sink.pending, job, sink.next - 1)
  /\ ppc = "finished" => sink.logical = TotalOf(job)
  /\ ppc \in {"finished", "packed"} => Filled(file.payload, job)

\* An audit is of a file that was finished.
Audited ==
  packAudit # None =>
    /\ Accepted(packAudit.inputs)
    /\ packAudit.reservoir.directory = DirectoryOf(packAudit.inputs)
    /\ Filled(packAudit.reservoir.payload, packAudit.inputs)

LEMMA JobBlocks ==
  ASSUME NEW j, Accepted(j)
  PROVE  /\ AreBlocks(j, BlockCount)
         /\ BlockCount \in Nat \ {0}
         /\ \A i \in 1 .. BlockCount :
              /\ j[i] \in LegacyContainers /\ Legal(j[i])
              /\ j[i].bits \in Nat /\ j[i].payload \in Seq(Bit) /\ j[i].scale \in Scales
              /\ Len(j[i].payload) = RoundUp(j[i].bits)
              /\ j[i].bits <= Len(j[i].payload) /\ j[i].bits > 0
<1>1. BlockCount \in Nat \ {0}
  BY ReservoirAssumption
<1>2. ASSUME NEW i \in 1 .. BlockCount
      PROVE  /\ j[i] \in LegacyContainers /\ Legal(j[i])
             /\ j[i].bits \in Nat /\ j[i].payload \in Seq(Bit) /\ j[i].scale \in Scales
             /\ Len(j[i].payload) = RoundUp(j[i].bits)
             /\ j[i].bits <= Len(j[i].payload) /\ j[i].bits > 0
  <2>1. j[i] \in LegacyContainers
    BY ElementOfSeq DEF Accepted
  <2>2. j[i].bits \in Nat /\ j[i].payload \in Seq(Bit) /\ j[i].scale \in Scales
    BY <2>1 DEF LegacyContainers, Bit
  <2>3. Legal(j[i])
    BY DEF Accepted
  <2>4. Len(j[i].payload) = RoundUp(j[i].bits) /\ j[i].bits > 0
    BY <2>3 DEF Legal
  <2>5. PICK n \in Nat : n = j[i].bits
    BY <2>2
  <2>6. RoundUp(n) >= n /\ RoundUp(n) \in Nat
    BY RoundedUp
  <2>7. j[i].bits <= Len(j[i].payload)
    BY <2>4, <2>5, <2>6
  <2> QED
    BY <2>1, <2>2, <2>3, <2>4, <2>7
<1>3. AreBlocks(j, BlockCount)
  BY <1>1, <1>2 DEF AreBlocks, Accepted
<1> QED
  BY <1>1, <1>2, <1>3

LEMMA PlacedSame ==
  ASSUME NEW j, Accepted(j), NEW n \in 0 .. BlockCount, NEW p, NEW q, Placed(p, j, n),
         \A k \in 1 .. Offsets(j)[n] : q[k] = p[k]
  PROVE  Placed(q, j, n)
<1> SUFFICES ASSUME NEW i \in 1 .. n, NEW k \in 1 .. j[i].bits
             PROVE  q[Offsets(j)[i - 1] + k] = j[i].payload[k]
  BY DEF Placed
<1>1. AreBlocks(j, BlockCount) /\ BlockCount \in Nat
  BY JobBlocks
<1>2. /\ Offsets(j) \in [0 .. BlockCount -> Nat]
      /\ \A m \in 1 .. BlockCount : Offsets(j)[m] = Offsets(j)[m - 1] + j[m].bits
  BY <1>1, OffsetsOf
<1>3. i \in 1 .. BlockCount /\ i \in 0 .. n /\ i - 1 \in 0 .. BlockCount
  BY <1>1
<1>4. Offsets(j)[i] <= Offsets(j)[n]
  BY <1>1, <1>3, OffsetsGrow
<1>5. j[i].bits \in Nat
  BY <1>3, JobBlocks
<1>6. Offsets(j)[i - 1] \in Nat /\ Offsets(j)[n] \in Nat /\ Offsets(j)[i] = Offsets(j)[i - 1] + j[i].bits
  BY <1>2, <1>3
<1>7. Offsets(j)[i - 1] + k \in 1 .. Offsets(j)[n]
  BY <1>4, <1>5, <1>6
<1> QED
  BY <1>7 DEF Placed

LEMMA PlacedNext ==
  ASSUME NEW j, Accepted(j), NEW n \in 0 .. BlockCount - 1, NEW p \in Seq(Bit),
         Len(p) = Offsets(j)[n], Placed(p, j, n),
         NEW m \in Seq(Bit), Len(m) = j[n + 1].bits,
         \A k \in 1 .. Len(m) : m[k] = j[n + 1].payload[k]
  PROVE  Placed(p \o m, j, n + 1)
<1>1. n \in 0 .. BlockCount /\ n + 1 \in 1 .. BlockCount /\ (n + 1) - 1 = n
  BY ReservoirAssumption
<1>2. /\ \A k \in 1 .. Len(p) : (p \o m)[k] = p[k]
      /\ \A k \in 1 .. Len(m) : (p \o m)[Len(p) + k] = m[k]
  BY JoinedBits
<1>3. Placed(p \o m, j, n)
  BY <1>1, <1>2, PlacedSame
<1>4. ASSUME NEW i \in 1 .. n + 1, NEW k \in 1 .. j[i].bits
      PROVE  (p \o m)[Offsets(j)[i - 1] + k] = j[i].payload[k]
  <2>1. CASE i = n + 1
    BY <1>1, <1>2, <2>1
  <2>2. CASE i # n + 1
    <3>1. i \in 1 .. n
      BY <2>2
    <3> QED
      BY <1>3, <3>1 DEF Placed
  <2> QED
    BY <2>1, <2>2
<1> QED
  BY <1>4 DEF Placed

LEMMA WholeCapacity ==
  /\ Capacity \in Nat
  /\ \E c \in Nat : Capacity = ByteBits * c
<1>1. PICK b \in Nat : b = Budget /\ b % ByteBits = 0
  BY ReservoirAssumption
<1>2. b = ByteBits * (b \div ByteBits) /\ b \div ByteBits \in Nat
  BY <1>1, Divided, Quotient, ReservoirAssumption
<1>3. PICK q \in Nat : b = ByteBits * q
  BY <1>2
<1>4. BlockCount \in Nat /\ ByteBits \in Nat
  BY ReservoirAssumption
<1>5. q * BlockCount \in Nat /\ b * BlockCount = ByteBits * (q * BlockCount)
  BY <1>3, <1>4
<1>6. ByteBits * (q * BlockCount) \in Nat
  BY <1>4, <1>5
<1>7. Capacity = ByteBits * (q * BlockCount)
  BY <1>1, <1>5 DEF Capacity
<1> QED
  BY <1>5, <1>6, <1>7

LEMMA FillAppend ==
  ASSUME Inv, Filling, AppendBlock
  PROVE  Filling'
<1> DEFINE n == sink.next - 1
           next == job[sink.next]
           message == SubSeq(next.payload, 1, next.bits)
           bits == sink.pending \o message
           complete == (Len(bits) \div ByteBits) * ByteBits
           written == SubSeq(bits, 1, complete)
           pending == SubSeq(bits, complete + 1, Len(bits))
           base == file.payload \o sink.pending
<1>1. /\ ppc = "appending" /\ file # None /\ file \in ReservoirFiles /\ file.payload \in Seq(Bit)
      /\ sink.next \in 1 .. BlockCount
      /\ sink.pending \in Seq(Bit) /\ sink.logical \in Nat
      /\ ByteBits \in Nat \ {0} /\ BlockCount \in Nat
  BY BlockIsDue DEF ReservoirFiles, Bit
<1>2. Accepted(job) /\ job \in Jobs /\ Fits(job)
  BY <1>1 DEF Filling
<1>3. /\ next.bits \in Nat /\ next.payload \in Seq(Bit) /\ next.bits <= Len(next.payload)
  BY <1>1, <1>2, JobBlocks
<1>4. /\ message \in Seq(Bit) /\ Len(message) = next.bits
      /\ \A k \in 1 .. next.bits : message[k] = next.payload[k]
  <2>1. PICK m \in Nat : m = next.bits
    BY <1>3
  <2>2. PICK s \in Seq(Bit) : s = next.payload
    BY <1>3
  <2>3. 0 + m <= Len(s) /\ 0 + 1 = 1 /\ 0 + m = m /\ \A k \in 1 .. m : 0 + k = k
    BY <1>3, <2>1, <2>2
  <2>4. /\ SubSeq(s, 0 + 1, 0 + m) \in Seq(Bit) /\ Len(SubSeq(s, 0 + 1, 0 + m)) = m
        /\ \A k \in 1 .. m : SubSeq(s, 0 + 1, 0 + m)[k] = s[0 + k]
    BY <2>3, CutBits
  <2> QED
    BY <2>1, <2>2, <2>3, <2>4
<1>5. /\ base \in Seq(Bit) /\ Len(base) = Len(file.payload) + Len(sink.pending)
  BY <1>1, JoinedBits
<1>6. /\ Len(base) = sink.logical /\ sink.logical = Offsets(job)[n] /\ Placed(base, job, n)
  BY <1>1, <1>5 DEF Inv, Packing, Filling
<1> HIDE DEF next, message
<1>7. bits \in Seq(Bit) /\ Len(bits) \in Nat
  BY <1>1, <1>4, JoinedBits, LenProperties
<1> HIDE DEF bits
<1>8. complete \in Nat /\ complete <= Len(bits)
  <2>1. PICK c \in Nat : c = Len(bits)
    BY <1>7
  <2>2. (c \div ByteBits) * ByteBits \in Nat /\ c % ByteBits \in 0 .. ByteBits - 1
        /\ (c \div ByteBits) * ByteBits + (c % ByteBits) = c
    BY <1>1, <2>1, ByteBegin
  <2>3. PICK r \in Nat : r = c % ByteBits
    BY <1>1, <2>2
  <2>4. complete = (c \div ByteBits) * ByteBits
    BY <2>1
  <2> HIDE DEF complete
  <2> QED
    BY <2>1, <2>2, <2>3, <2>4
<1> HIDE DEF complete
<1>9. written \o pending = bits /\ written \in Seq(Bit) /\ pending \in Seq(Bit)
  <2>1. PICK l \in Nat : l = Len(bits) - complete
    BY <1>7, <1>8
  <2>2. complete + l = Len(bits) /\ complete + l <= Len(bits)
    BY <1>7, <1>8, <2>1
  <2>3. /\ SubSeq(bits, complete + 1, complete + l) \in Seq(Bit)
        /\ Len(SubSeq(bits, complete + 1, complete + l)) = l
        /\ \A k \in 1 .. l : SubSeq(bits, complete + 1, complete + l)[k] = bits[complete + k]
    BY <1>7, <1>8, <2>2, CutBits
  <2>4. /\ pending \in Seq(Bit) /\ Len(pending) = l
        /\ \A k \in 1 .. l : pending[k] = bits[complete + k]
    BY <2>2, <2>3
  <2>5. written \in Seq(Bit)
    BY <1>7, <1>8, PartOfBits
  <2> HIDE DEF pending
  <2>6. SubSeq(bits, 1, complete) \o pending = SubSeq(bits, 1, complete + l)
    BY <1>7, <1>8, <2>2, <2>4, PrefixGrows DEF Continues
  <2>7. SubSeq(bits, 1, Len(bits)) = bits
    BY <1>7, SubSeqFull
  <2> QED
    BY <2>2, <2>4, <2>5, <2>6, <2>7
<1> HIDE DEF written, pending
<1>10. (file.payload \o written) \o pending = base \o message
  <2>1. (file.payload \o written) \o pending = file.payload \o bits
    <3>1. PICK f \in Seq(Bit) : f = file.payload
      BY <1>1
    <3>2. (f \o written) \o pending = f \o (written \o pending)
      BY <1>9, JoinedTwice
    <3> QED
      BY <1>9, <3>1, <3>2
  <2>2. base \o message = file.payload \o bits
    <3>1. PICK f \in Seq(Bit), b \in Seq(Bit) : f = file.payload /\ b = sink.pending
      BY <1>1
    <3>2. (f \o b) \o message = f \o (b \o message)
      BY <1>4, JoinedTwice
    <3> QED
      BY <3>1, <3>2 DEF bits, base
  <2> QED
    BY <2>1, <2>2
<1>11. /\ file' = [file EXCEPT !.payload = file.payload \o written]
       /\ sink' = [pending |-> pending, logical |-> sink.logical + next.bits, next |-> sink.next + 1]
       /\ UNCHANGED <<ppc, job, packAudit>>
  BY DEF AppendBlock, Write, pending, written, complete, bits, message, next
<1>12. /\ file'.payload = file.payload \o written /\ file'.header = file.header
       /\ file'.directory = file.directory
  BY <1>1, <1>11 DEF ReservoirFiles
<1>13. /\ sink'.pending = pending /\ sink'.logical = sink.logical + next.bits
       /\ sink'.next - 1 = n + 1
  BY <1>1, <1>11
<1> HIDE DEF base
<1>14. n \in 0 .. BlockCount - 1 /\ n + 1 = sink.next /\ next = job[n + 1]
  BY <1>1 DEF next
<1> HIDE DEF n
<1>15. Placed(base \o message, job, n + 1)
  BY <1>2, <1>4, <1>5, <1>6, <1>14, PlacedNext
<1>16. sink'.logical = Offsets(job)[n + 1]
  <2>1. AreBlocks(job, BlockCount) /\ n + 1 \in 1 .. BlockCount /\ (n + 1) - 1 = n
    BY <1>2, <1>14, JobBlocks
  <2>2. Offsets(job)[n + 1] = Offsets(job)[(n + 1) - 1] + job[n + 1].bits
    BY <1>1, <2>1, OffsetsOf
  <2> QED
    BY <1>6, <1>13, <1>14, <2>1, <2>2
<1>17. Accepted(job') /\ job' \in Jobs /\ Fits(job') /\ ppc' = "appending"
  BY <1>1, <1>2, <1>11
<1>18. Placed(file'.payload \o sink'.pending, job', sink'.next - 1)
  BY <1>10, <1>11, <1>12, <1>13, <1>15
<1>19. sink'.logical = Offsets(job')[sink'.next - 1]
  BY <1>11, <1>13, <1>16
<1>20. file'.header = Blank /\ file'.directory = DirectoryOf(job')
  BY <1>1, <1>11, <1>12 DEF Filling
<1> QED
  BY <1>17, <1>18, <1>19, <1>20 DEF Filling

LEMMA FillFinish ==
  ASSUME Inv, Filling, Finish
  PROVE  Filling'
<1> DEFINE base == file.payload \o sink.pending
           l == sink.logical
           tail == IF sink.pending = <<>> THEN <<>>
                   ELSE sink.pending \o Zeros(ByteBits - Len(sink.pending))
           flushed == file.payload \o tail
           payload == flushed \o Zeros(Capacity - Len(flushed))
<1>1. /\ ppc = "appending" /\ file # None /\ file \in ReservoirFiles /\ file.payload \in Seq(Bit)
      /\ sink.pending \in Seq(Bit) /\ l \in Nat /\ l <= Capacity
      /\ Len(sink.pending) < ByteBits /\ Len(sink.pending) \in Nat /\ Len(file.payload) \in Nat
      /\ ByteBits \in Nat \ {0} /\ BlockCount \in Nat
  BY ReservoirAssumption, LenProperties DEF Finish, Inv, Stored, Packing, ReservoirFiles, Bit
<1>2. Accepted(job) /\ job \in Jobs /\ Fits(job)
  BY <1>1 DEF Filling
<1>3. sink.next = BlockCount + 1 /\ sink.next - 1 = BlockCount
  BY <1>1, <1>2 DEF Finish, Inv, Packing, Accepted
<1>4. /\ l = Offsets(job)[BlockCount] /\ Placed(base, job, BlockCount)
      /\ l = Len(file.payload) + Len(sink.pending) /\ Len(file.payload) % ByteBits = 0
  BY <1>1, <1>3 DEF Filling, Inv, Packing
<1>5. l = TotalOf(job)
  BY <1>2, <1>4 DEF TotalOf, Accepted
<1>6. base \in Seq(Bit) /\ Len(base) = l
  BY <1>1, <1>4, JoinedBits
<1>7. PICK q \in Nat : Len(file.payload) = ByteBits * q
  <2>1. PICK x \in Nat : x = Len(file.payload)
    BY <1>1
  <2>2. x = ByteBits * (x \div ByteBits) /\ x \div ByteBits \in Nat
    BY <1>1, <1>4, <2>1, Divided, Quotient
  <2> QED
    BY <2>1, <2>2
<1>8. PICK c \in Nat : Capacity = ByteBits * c
  BY WholeCapacity
<1> HIDE DEF l
\* What is flushed is the bits appended and some zeros.
<1>9. \E z \in Nat : /\ flushed = base \o Zeros(z)
                     /\ Len(base) + z <= Capacity
  <2>1. CASE sink.pending = <<>>
    <3>1. flushed = base
      BY <2>1
    <3>2. Zeros(0) = <<>>
      <4>1. Zeros(0) \in Seq(Bit) /\ Len(Zeros(0)) = 0
        BY ZerosOf
      <4> QED
        BY <4>1, EmptySeq
    <3>3. flushed = base \o Zeros(0)
      BY <1>6, <3>1, <3>2, ConcatEmptySeq
    <3>4. Len(base) + 0 <= Capacity /\ 0 \in Nat
      BY <1>1, <1>6
    <3> QED
      BY <3>3, <3>4
  <2>2. CASE sink.pending # <<>>
    <3>1. Len(sink.pending) > 0
      <4>1. PICK b \in Seq(Bit) : b = sink.pending
        BY <1>1
      <4>2. Len(b) \in Nat \ {0}
        BY <2>2, <4>1, EmptySeq
      <4> QED
        BY <4>1, <4>2
    <3>2. PICK z \in Nat : z = ByteBits - Len(sink.pending)
      <4>1. PICK m \in Nat, b \in Nat : m = Len(sink.pending) /\ b = ByteBits /\ m < b
        BY <1>1
      <4>2. b - m \in Nat
        BY <4>1
      <4> HIDE DEF base, tail, flushed, payload
      <4> QED
        BY <4>1, <4>2
    <3>3. Zeros(z) \in Seq(Bit)
      BY ZerosAreBits
    <3>4. tail = sink.pending \o Zeros(z)
      BY <2>2, <3>2
    <3>5. flushed = base \o Zeros(z)
      <4>1. PICK f \in Seq(Bit), b \in Seq(Bit) : f = file.payload /\ b = sink.pending
        BY <1>1
      <4>2. PICK s \in Seq(Bit) : s = Zeros(z)
        BY <3>3
      <4>3. (f \o b) \o s = f \o (b \o s)
        BY JoinedTwice
      <4>4. flushed = f \o (b \o s)
        BY <3>4, <4>1, <4>2
      <4> QED
        BY <4>1, <4>2, <4>3, <4>4
    <3>6. ByteBits * q < ByteBits * c
      <4>1. l <= Capacity /\ l = Len(file.payload) + Len(sink.pending)
        BY <1>1, <1>4
      <4>2. PICK x \in Nat, y \in Nat : x = Len(file.payload) /\ y = Len(sink.pending)
        BY <1>1
      <4>3. x + y <= Capacity /\ y > 0 /\ Capacity \in Nat
        BY <3>1, <4>1, <4>2, WholeCapacity
      <4>4. x < Capacity
        BY <4>3
      <4> QED
        BY <1>7, <1>8, <4>2, <4>4
    <3>7. q < c
      <4>1. ~(c <= q)
        <5>1. c <= q => ByteBits * c <= ByteBits * q
          BY <1>1, SMT
        <5> QED
          BY <1>1, <3>6, <5>1
      <4> QED
        BY <4>1
    <3>8. ByteBits * (q + 1) <= ByteBits * c
      BY <1>1, <3>7, SMT
    <3>9. ByteBits * (q + 1) = ByteBits * q + ByteBits
      BY <1>1, SMT
    <3>10. Len(base) + z <= Capacity
      <4>1. PICK x \in Nat, y \in Nat : x = Len(file.payload) /\ y = Len(sink.pending)
        BY <1>1
      <4>2. Len(base) + z = x + y + (ByteBits - y)
        <5>1. Len(base) = x + y
          BY <1>4, <1>6, <4>1
        <5>2. z = ByteBits - y
          BY <3>2, <4>1
        <5> QED
          BY <5>1, <5>2
      <4>3. Len(base) + z = x + ByteBits
        <5>1. PICK b \in Nat : b = ByteBits
          BY <1>1
        <5>2. x + y + (b - y) = x + b
          OBVIOUS
        <5> QED
          BY <4>2, <5>1, <5>2
      <4>4. x + ByteBits <= Capacity
        <5>1. x = ByteBits * q /\ Capacity = ByteBits * c
          BY <1>7, <1>8, <4>1
        <5> QED
          BY <3>8, <3>9, <5>1
      <4> QED
        BY <4>3, <4>4
    <3> QED
      BY <3>5, <3>10
  <2> QED
    BY <2>1, <2>2
<1>10. PICK z \in Nat : flushed = base \o Zeros(z) /\ Len(base) + z <= Capacity
  BY <1>9
<1> HIDE DEF flushed, base, tail
<1>11. /\ flushed \in Seq(Bit) /\ Len(flushed) = l + z
       /\ \A k \in 1 .. l : flushed[k] = base[k]
       /\ \A k \in l + 1 .. l + z : flushed[k] = 0
  <2>1. PICK s \in Seq(Bit) : s = Zeros(z) /\ Len(s) = z /\ \A k \in 1 .. z : s[k] = 0
    BY ZerosOf
  <2>2. /\ base \o s \in Seq(Bit) /\ Len(base \o s) = Len(base) + Len(s)
        /\ \A k \in 1 .. Len(base) : (base \o s)[k] = base[k]
        /\ \A k \in 1 .. Len(s) : (base \o s)[Len(base) + k] = s[k]
    BY <1>6, JoinedBits
  <2>3. ASSUME NEW k \in l + 1 .. l + z PROVE flushed[k] = 0
    <3>1. k - l \in 1 .. z /\ l + (k - l) = k
      BY <1>1
    <3> QED
      BY <1>6, <1>10, <2>1, <2>2, <3>1
  <2> QED
    BY <1>6, <1>10, <2>1, <2>2, <2>3
<1>12. PICK y \in Nat : y = Capacity - Len(flushed)
  BY <1>1, <1>6, <1>10, <1>11, WholeCapacity
<1>13. /\ payload \in Seq(Bit) /\ Len(payload) = Capacity
       /\ \A k \in 1 .. l : payload[k] = base[k]
       /\ \A k \in l + 1 .. Capacity : payload[k] = 0
  <2>1. PICK s \in Seq(Bit) : s = Zeros(y) /\ Len(s) = y /\ \A k \in 1 .. y : s[k] = 0
    BY ZerosOf
  <2>2. /\ flushed \o s \in Seq(Bit) /\ Len(flushed \o s) = Len(flushed) + Len(s)
        /\ \A k \in 1 .. Len(flushed) : (flushed \o s)[k] = flushed[k]
        /\ \A k \in 1 .. Len(s) : (flushed \o s)[Len(flushed) + k] = s[k]
    BY <1>11, JoinedBits
  <2>3. payload = flushed \o s
    BY <1>12, <2>1
  <2> HIDE DEF payload
  <2>4. Len(flushed) = l + z /\ l \in Nat /\ Capacity \in Nat /\ l + z + y = Capacity
    BY <1>1, <1>11, <1>12, WholeCapacity
  <2>5. \A k \in 1 .. l : payload[k] = base[k]
    <3> TAKE k \in 1 .. l
    <3>1. k \in 1 .. Len(flushed)
      BY <2>4
    <3> QED
      BY <1>11, <2>2, <2>3, <3>1
  <2>6. \A k \in l + 1 .. Capacity : payload[k] = 0
    <3> TAKE k \in l + 1 .. Capacity
    <3>1. CASE k <= l + z
      <4>1. k \in 1 .. Len(flushed) /\ k \in l + 1 .. l + z
        BY <2>4, <3>1
      <4> QED
        BY <1>11, <2>2, <2>3, <4>1
    <3>2. CASE k > l + z
      <4>1. k - Len(flushed) \in 1 .. y /\ Len(flushed) + (k - Len(flushed)) = k
        BY <2>4, <3>2
      <4> QED
        BY <2>1, <2>2, <2>3, <4>1
    <3>3. k <= l + z \/ k > l + z
      BY <2>4
    <3> QED
      BY <3>1, <3>2, <3>3
  <2> QED
    BY <2>1, <2>2, <2>3, <2>4, <2>5, <2>6
<1>14. /\ file' = [file EXCEPT !.payload = payload] /\ ppc' = "finished"
       /\ UNCHANGED <<packAudit, job, sink>>
  BY DEF Finish, Write, payload, flushed, tail
<1> HIDE DEF payload
<1>15. /\ file'.payload = payload /\ file'.header = file.header /\ file'.directory = file.directory
  BY <1>1, <1>14 DEF ReservoirFiles
<1>16. Placed(payload, job, BlockCount)
  <2>1. BlockCount \in 0 .. BlockCount
    BY <1>1
  <2>2. \A k \in 1 .. Offsets(job)[BlockCount] : payload[k] = base[k]
    BY <1>4, <1>13
  <2>3. Placed(base, job, BlockCount)
    BY <1>4
  <2> QED
    BY <1>2, <2>1, <2>2, <2>3, PlacedSame
<1>17. Filled(payload, job)
  BY <1>1, <1>5, <1>13, <1>16 DEF Filled
<1>18. Accepted(job') /\ job' \in Jobs /\ Fits(job') /\ ppc' = "finished"
  BY <1>2, <1>14
<1>19. Filled(file'.payload, job') /\ sink'.logical = TotalOf(job')
  BY <1>5, <1>14, <1>15, <1>17 DEF l
<1>20. file'.header = Blank /\ file'.directory = DirectoryOf(job')
  BY <1>1, <1>14, <1>15 DEF Filling
<1> QED
  BY <1>18, <1>19, <1>20 DEF Filling

LEMMA FillStart ==
  ASSUME Inv, Filling, NEW j \in Jobs, StartPack(j)
  PROVE  Filling'
<1>1. ppc = "idle" /\ file' = file /\ sink' = sink
  BY DEF StartPack
<1>2. CASE UNCHANGED <<ppc, job>>
  BY <1>1, <1>2 DEF Filling
<1>3. CASE ppc' = "parsed" /\ job' = j /\ (\A i \in DOMAIN j : Legal(j[i])) /\ Fits(j)
  <2>1. j \in Seq(LegacyContainers) /\ Len(j) = BlockCount
    BY FilesAssumption
  <2>2. DOMAIN j = 1 .. BlockCount
    BY <2>1, LenProperties
  <2>3. Accepted(job') /\ job' \in Jobs /\ Fits(job')
    BY <1>3, <2>1, <2>2 DEF Accepted
  <2> QED
    BY <1>3, <2>3 DEF Filling
<1> QED
  BY <1>2, <1>3 DEF StartPack

LEMMA FillOpen ==
  ASSUME Inv, Filling, OpenOutput
  PROVE  Filling'
<1>1. /\ ppc = "parsed" /\ ppc' = "appending" /\ job' = job
      /\ file' = [header |-> Blank, directory |-> DirectoryOf(job), payload |-> <<>>]
      /\ sink' = [pending |-> <<>>, logical |-> 0, next |-> 1]
  BY DEF OpenOutput, Write
<1>2. Accepted(job') /\ job' \in Jobs /\ Fits(job')
  BY <1>1 DEF Filling
<1>3. file'.header = Blank /\ file'.directory = DirectoryOf(job')
  BY <1>1
<1>4. sink'.logical = 0 /\ sink'.next - 1 = 0
  BY <1>1
<1>5. AreBlocks(job', BlockCount) /\ BlockCount \in Nat
  BY <1>2, JobBlocks
<1>6. Offsets(job')[0] = 0
  BY <1>5, OffsetsOf
<1>7. Placed(file'.payload \o sink'.pending, job', 0)
  BY DEF Placed
<1> QED
  BY <1>1, <1>2, <1>3, <1>4, <1>6, <1>7 DEF Filling

LEMMA FillHeader ==
  ASSUME Inv, Filling, WriteHeader
  PROVE  Filling'
<1>1. /\ ppc = "finished" /\ ppc' = "packed" /\ job' = job /\ sink' = sink
      /\ \E h : file' = [file EXCEPT !.header = h]
  BY DEF WriteHeader, Write
<1>2. file \in ReservoirFiles
  BY <1>1 DEF Inv, Stored, Packing
<1>3. file'.directory = file.directory /\ file'.payload = file.payload
  BY <1>1, <1>2 DEF ReservoirFiles
<1>4. Accepted(job') /\ job' \in Jobs /\ Fits(job')
  BY <1>1 DEF Filling
<1>5. Filled(file'.payload, job') /\ file'.directory = DirectoryOf(job')
  BY <1>1, <1>3 DEF Filling
<1> QED
  BY <1>1, <1>4, <1>5 DEF Filling

LEMMA AuditStill ==
  ASSUME Audited, UNCHANGED packAudit
  PROVE  Audited'
<1>1. PICK a : a = packAudit
  OBVIOUS
<1>2. a # None => /\ Accepted(a.inputs) /\ a.reservoir.directory = DirectoryOf(a.inputs)
                  /\ Filled(a.reservoir.payload, a.inputs)
  BY <1>1 DEF Audited
<1>3. a = packAudit'
  BY <1>1
<1> QED
  BY <1>2, <1>3 DEF Audited

LEMMA FillAudit ==
  ASSUME Inv, Filling, WritePackAudit
  PROVE  Filling' /\ Audited'
<1>1. /\ ppc = "packed" /\ ppc' = "idle"
      /\ packAudit' = [inputs |-> job, reservoir |-> file]
  BY DEF WritePackAudit
<1>2. packAudit'.inputs = job /\ packAudit'.reservoir = file
  BY <1>1
<1>3. /\ Accepted(packAudit'.inputs) /\ Filled(packAudit'.reservoir.payload, packAudit'.inputs)
      /\ packAudit'.reservoir.directory = DirectoryOf(packAudit'.inputs)
  BY <1>1, <1>2 DEF Filling
<1>4. Audited'
  BY <1>3 DEF Audited
<1> QED
  BY <1>1, <1>4 DEF Filling

LEMMA FillingStill ==
  ASSUME Filling, UNCHANGED <<file, ppc, job, sink>>
  PROVE  Filling'
<1>1. PICK f, j, s : f = file /\ j = job /\ s = sink
  OBVIOUS
<1>2. /\ ppc # "idle" => j \in Jobs /\ Accepted(j) /\ Fits(j)
      /\ ppc \in {"appending", "finished"} => f.header = Blank
      /\ ppc \in {"appending", "finished", "packed"} => f.directory = DirectoryOf(j)
      /\ ppc = "appending" =>
           s.logical = Offsets(j)[s.next - 1] /\ Placed(f.payload \o s.pending, j, s.next - 1)
      /\ ppc = "finished" => s.logical = TotalOf(j)
      /\ ppc \in {"finished", "packed"} => Filled(f.payload, j)
  BY <1>1 DEF Filling
<1>3. f = file' /\ j = job' /\ s = sink' /\ ppc' = ppc
  BY <1>1
<1> QED
  BY <1>2, <1>3 DEF Filling

LEMMA FillNext ==
  ASSUME Inv, Filling, Audited, [Next]_vars
  PROVE  Filling' /\ Audited'
<1>1. CASE Pack
  <2>1. CASE \E j \in Jobs : StartPack(j)
    BY <2>1, FillStart, AuditStill DEF StartPack
  <2>2. CASE OpenOutput
    BY <2>2, FillOpen, AuditStill DEF OpenOutput
  <2>3. CASE AppendBlock
    BY <2>3, FillAppend, AuditStill DEF AppendBlock
  <2>4. CASE Finish
    BY <2>4, FillFinish, AuditStill DEF Finish
  <2>5. CASE WriteHeader
    BY <2>5, FillHeader, AuditStill DEF WriteHeader
  <2>6. CASE WritePackAudit
    BY <2>6, FillAudit
  <2>7. CASE CrashPacker
    <3>1. ppc' = "idle" /\ UNCHANGED packAudit
      BY <2>7 DEF CrashPacker
    <3> QED
      BY <3>1, AuditStill DEF Filling
  <2> QED
    BY <1>1, <2>1, <2>2, <2>3, <2>4, <2>5, <2>6, <2>7 DEF Pack
<1>2. ASSUME NEW u \in Unpackers, Unpack(u) PROVE Filling' /\ Audited'
  <2>1. UNCHANGED <<file, packer>>
    BY <1>2 DEF Unpack, Stat, Validate, OpenStaging, ExtractChunk, Rename, WriteAudit,
       CrashUnpacker
  <2> QED
    BY <2>1, FillingStill, AuditStill DEF packer
<1>3. ASSUME NEW f \in Forgeries, Present(f) PROVE Filling' /\ Audited'
  <2>1. ppc' = "idle" /\ UNCHANGED packAudit
    BY <1>3 DEF Present, packer
  <2> QED
    BY <2>1, AuditStill DEF Filling
<1>4. CASE UNCHANGED vars
  BY <1>4, FillingStill, AuditStill DEF vars, packer
<1> QED
  BY <1>1, <1>2, <1>3, <1>4 DEF Next

-----------------------------------------------------------------------------
(* What an unpacker has cut out                                            *)

\* Record r is block i of file f.
IsRecord(r, f, i) ==
  /\ r.bits = f.directory[i].bits /\ r.scale = f.directory[i].scale
  /\ PaddedCut(r.payload, f.payload, Offsets(f.directory)[i - 1], f.directory[i].bits)

AreRecords(records, f, n) ==
  /\ Len(records) = n
  /\ \A i \in 1 .. n : IsRecord(records[i], f, i)

\* The record being cut has whole bytes of its block, from its first bit to the cursor.
Within(here, f) ==
  /\ here.start <= here.cursor
  /\ here.cursor + here.remaining = here.start + f.directory[here.entry].bits
  /\ (here.cursor - here.start) % ByteBits = 0
  /\ Len(here.record) = here.cursor - here.start
  /\ \A k \in 1 .. Len(here.record) : here.record[k] = f.payload[here.start + k]

IsAt(here, f) ==
  /\ here.start = Offsets(f.directory)[here.entry - 1]
  /\ here.entry <= BlockCount => Within(here, f)

Believed(f) ==
  /\ f \in ReservoirFiles /\ Len(f.directory) = BlockCount
  /\ Valid(f)

\* As long as nobody writes the file, it is the one that was validated, and what
\* is extracted are its blocks.
Following(u) ==
  /\ upc[u] \in {"validated", "extracting", "renamed", "unpacked"} =>
       Believed(seen[u]) /\ (u \notin touched => file = seen[u])
  /\ upc[u] = "extracting" /\ u \notin touched =>
       AreRecords(staging[u], seen[u], at[u].entry - 1) /\ IsAt(at[u], seen[u])
  /\ upc[u] \in {"renamed", "unpacked"} /\ u \notin touched =>
       AreRecords(staging[u], seen[u], BlockCount)

LEMMA DirectoryBlocks ==
  ASSUME NEW f \in ReservoirFiles, Len(f.directory) = BlockCount
  PROVE  /\ AreBlocks(f.directory, BlockCount) /\ BlockCount \in Nat \ {0}
         /\ f.payload \in Seq(Bit)
         /\ \A i \in 1 .. BlockCount : f.directory[i].bits \in Nat /\ f.directory[i].scale \in Scales
<1>1. BlockCount \in Nat \ {0} /\ f.directory \in Directories /\ f.payload \in Seq(Bit)
  BY ReservoirAssumption DEF ReservoirFiles, Bit
<1>2. ASSUME NEW i \in 1 .. BlockCount
      PROVE  f.directory[i].bits \in Nat /\ f.directory[i].scale \in Scales
  <2>1. f.directory[i] \in [bits : Nat, scale : Scales]
    BY <1>1, ElementOfSeq DEF Directories
  <2> QED
    BY <2>1
<1> QED
  BY <1>1, <1>2 DEF AreBlocks

\* An unpacker that is left alone, or whose file is written.
LEMMA FollowingStill ==
  ASSUME NEW u \in Unpackers, Following(u),
         upc'[u] = upc[u], seen'[u] = seen[u], at'[u] = at[u], staging'[u] = staging[u],
         \/ u \in touched'
         \/ file' = file /\ (u \in touched => u \in touched')
  PROVE  Following(u)'
<1>1. PICK f, a, s : f = seen[u] /\ a = at[u] /\ s = staging[u]
  OBVIOUS
<1>2. f = seen'[u] /\ a = at'[u] /\ s = staging'[u]
  BY <1>1
<1>3. /\ upc[u] \in {"validated", "extracting", "renamed", "unpacked"} =>
           Believed(f) /\ (u \notin touched => file = f)
      /\ upc[u] = "extracting" /\ u \notin touched => AreRecords(s, f, a.entry - 1) /\ IsAt(a, f)
      /\ upc[u] \in {"renamed", "unpacked"} /\ u \notin touched => AreRecords(s, f, BlockCount)
  BY <1>1 DEF Following
<1> QED
  BY <1>2, <1>3 DEF Following

LEMMA FollowValidate ==
  ASSUME Inv, NEW u \in Unpackers, Following(u), Validate(u)
  PROVE  Following(u)'
<1>1. upc \in [Unpackers -> UnpackerSteps] /\ seen \in [Unpackers -> ReservoirFiles \cup {None}]
  BY DEF Inv, Extracting
<1>2. file' = file /\ touched' = touched /\ upc[u] = "reading"
  BY DEF Validate, UGoto
<1>3. CASE /\ upc' = [upc EXCEPT ![u] = "validated"] /\ Valid(file)
           /\ seen' = [seen EXCEPT ![u] = file]
  <2>1. upc'[u] = "validated" /\ seen'[u] = file
    BY <1>1, <1>3
  <2>2. file \in ReservoirFiles /\ Len(file.directory) = BlockCount
    BY <1>2 DEF Inv, Stored, Extracting
  <2>3. PICK f : f = file
    OBVIOUS
  <2>4. Believed(f) /\ f = seen'[u] /\ f = file'
    BY <1>2, <1>3, <2>1, <2>2, <2>3 DEF Believed
  <2> QED
    BY <2>1, <2>4 DEF Following
<1>4. CASE upc' = [upc EXCEPT ![u] = "refused"]
  <2>1. upc'[u] = "refused"
    BY <1>1, <1>4
  <2> QED
    BY <2>1 DEF Following
<1> QED
  BY <1>3, <1>4 DEF Validate, UGoto

\* An entry begins where the one before ends.
LEMMA EntryIsAt ==
  ASSUME NEW u \in Unpackers, Believed(seen[u]), NEW entry \in 1 .. BlockCount + 1,
         NEW start \in Nat, start = Offsets(seen[u].directory)[entry - 1]
  PROVE  IsAt(EntryAt(u, entry, start), seen[u]) /\ EntryAt(u, entry, start).entry = entry
<1> DEFINE next == EntryAt(u, entry, start)
<1>1. /\ next.entry = entry /\ next.start = start /\ next.cursor = start /\ next.record = <<>>
      /\ next.remaining = IF entry > BlockCount THEN 0 ELSE seen[u].directory[entry].bits
  BY DEF EntryAt
<1> HIDE DEF next
<1>2. ASSUME entry <= BlockCount PROVE Within(next, seen[u])
  <2>1. BlockCount \in Nat /\ ByteBits \in Nat \ {0}
    BY ReservoirAssumption
  <2>2. entry \in 1 .. BlockCount /\ ~(entry > BlockCount)
    BY <1>2, <2>1
  <2>3. seen[u].directory[entry].bits \in Nat
    BY <2>2, DirectoryBlocks DEF Believed
  <2>4. next.remaining = seen[u].directory[entry].bits
    BY <1>1, <2>2
  <2>5. next.cursor - next.start = 0 /\ 0 % ByteBits = 0 /\ Len(next.record) = 0
    BY <1>1, <2>1
  <2>6. next.start <= next.cursor
    BY <1>1
  <2>7. next.cursor + next.remaining = next.start + seen[u].directory[next.entry].bits
    BY <1>1, <2>4
  <2>8. \A k \in 1 .. Len(next.record) : next.record[k] = seen[u].payload[next.start + k]
    BY <2>5
  <2> QED
    BY <2>5, <2>6, <2>7, <2>8 DEF Within
<1> QED
  BY <1>1, <1>2 DEF IsAt, next

LEMMA FollowOpen ==
  ASSUME Inv, NEW u \in Unpackers, Following(u), OpenStaging(u)
  PROVE  Following(u)'
<1>1. /\ upc \in [Unpackers -> UnpackerSteps] /\ at \in [Unpackers -> Positions \cup {None}]
      /\ staging \in [Unpackers -> Seq(LegacyContainers)]
  BY DEF Inv, Extracting
<1>2. file' = file /\ touched' = touched /\ seen' = seen /\ upc[u] = "validated"
  BY DEF OpenStaging, UGoto
<1>3. CASE /\ upc' = [upc EXCEPT ![u] = "extracting"]
           /\ staging' = [staging EXCEPT ![u] = <<>>]
           /\ at' = [at EXCEPT ![u] = EntryAt(u, 1, 0)]
  <2>1. Believed(seen[u]) /\ (u \notin touched => file = seen[u])
    BY <1>2 DEF Following
  <2>2. AreBlocks(seen[u].directory, BlockCount) /\ BlockCount \in Nat \ {0}
    BY <2>1, DirectoryBlocks DEF Believed
  <2>3. Offsets(seen[u].directory)[0] = 0
    BY <2>2, OffsetsOf
  <2>4. PICK one \in 1 .. BlockCount + 1 : one = 1
    BY <2>2
  <2>5. PICK zero \in Nat : zero = 0
    OBVIOUS
  <2>6. zero = Offsets(seen[u].directory)[one - 1]
    BY <2>3, <2>4, <2>5
  <2>7. PICK a : a = EntryAt(u, one, zero)
    OBVIOUS
  <2>8. IsAt(a, seen[u]) /\ a.entry = 1
    BY <2>1, <2>4, <2>6, <2>7, EntryIsAt
  <2>9. upc'[u] = "extracting" /\ staging'[u] = <<>> /\ at'[u] = a
    BY <1>1, <1>3, <2>4, <2>5, <2>7
  <2>10. AreRecords(<<>>, seen[u], a.entry - 1)
    BY <2>8 DEF AreRecords
  <2>11. PICK f : f = seen[u]
    OBVIOUS
  <2>12. Believed(f) /\ (u \notin touched' => file' = f) /\ seen'[u] = f
         /\ AreRecords(staging'[u], f, a.entry - 1) /\ IsAt(at'[u], f)
    BY <1>2, <2>1, <2>8, <2>9, <2>10, <2>11
  <2> QED
    BY <2>9, <2>12 DEF Following
<1>4. CASE upc' = [upc EXCEPT ![u] = "refused"]
  <2>1. upc'[u] = "refused"
    BY <1>1, <1>4
  <2> QED
    BY <2>1 DEF Following
<1> QED
  BY <1>3, <1>4 DEF OpenStaging, UGoto

LEMMA FollowRename ==
  ASSUME Inv, NEW u \in Unpackers, Following(u), Rename(u)
  PROVE  Following(u)'
<1>1. /\ upc \in [Unpackers -> UnpackerSteps] /\ at \in [Unpackers -> Positions \cup {None}]
      /\ staging \in [Unpackers -> Seq(LegacyContainers)]
  BY DEF Inv, Extracting
<1>2. /\ file' = file /\ touched' = touched /\ seen' = seen /\ at' = at
      /\ upc[u] = "extracting" /\ at[u].entry > BlockCount
  BY DEF Rename
<1>3. CASE upc' = [upc EXCEPT ![u] = "renamed"] /\ UNCHANGED staging
  <2>1. at[u].entry \in 1 .. BlockCount + 1 /\ BlockCount \in Nat
    BY <1>2, ReservoirAssumption DEF Inv, Extracting, Positions
  <2>2. at[u].entry - 1 = BlockCount
    BY <1>2, <2>1
  <2>3. PICK f, s : f = seen[u] /\ s = staging[u]
    OBVIOUS
  <2>4. /\ Believed(f) /\ (u \notin touched => file = f)
        /\ u \notin touched => AreRecords(s, f, BlockCount)
    BY <1>2, <2>2, <2>3 DEF Following
  <2>5. upc'[u] = "renamed" /\ seen'[u] = f /\ staging'[u] = s
    BY <1>1, <1>2, <1>3, <2>3
  <2> QED
    BY <1>2, <2>4, <2>5 DEF Following
<1>4. CASE upc' = [upc EXCEPT ![u] = "refused"]
  <2>1. upc'[u] = "refused"
    BY <1>1, <1>4
  <2> QED
    BY <2>1 DEF Following
<1> QED
  BY <1>3, <1>4 DEF Rename, UGoto

LEMMA FollowWriteAudit ==
  ASSUME Inv, NEW u \in Unpackers, Following(u), WriteAudit(u)
  PROVE  Following(u)'
<1>1. upc \in [Unpackers -> UnpackerSteps]
  BY DEF Inv, Extracting
<1>2. /\ file' = file /\ touched' = touched /\ seen' = seen /\ staging' = staging
      /\ upc[u] = "renamed" /\ upc'[u] = "unpacked"
  BY <1>1 DEF WriteAudit, UGoto
<1>3. PICK f, s : f = seen[u] /\ s = staging[u]
  OBVIOUS
<1>4. /\ Believed(f) /\ (u \notin touched => file = f)
      /\ u \notin touched => AreRecords(s, f, BlockCount)
  BY <1>2, <1>3 DEF Following
<1>5. seen'[u] = f /\ staging'[u] = s
  BY <1>2, <1>3
<1> QED
  BY <1>2, <1>4, <1>5 DEF Following

LEMMA WholeSum ==
  ASSUME NEW x \in Nat, NEW y \in Nat, NEW b \in Nat \ {0}, x % b = 0, y % b = 0
  PROVE  (x + y) % b = 0
<1>1. y = b * (y \div b) /\ y \div b \in Nat
  BY Divided, Quotient
<1>2. PICK q \in Nat : y = b * q
  BY <1>1
<1>3. (x + b * q) % b = 0
  BY WholeBytes
<1> QED
  BY <1>2, <1>3

\* A chunk adds to the record the bits from the cursor on; the last one also pads it.
LEMMA CutMore ==
  ASSUME NEW here \in Positions, file # None, file \in ReservoirFiles,
         Len(file.directory) = BlockCount, here.entry \in 1 .. BlockCount, Within(here, file),
         NEW take, take = Take(here.remaining),
         Len(Slice(here.cursor, take)) = RoundUp((here.cursor % ByteBits) + take),
         NEW record,
         record = here.record \o Repacked(Slice(here.cursor, take), here.cursor % ByteBits, take)
  PROVE  /\ take < here.remaining =>
              Within([here EXCEPT !.cursor = here.cursor + take,
                                  !.remaining = here.remaining - take, !.record = record], file)
         /\ ~(take < here.remaining) =>
              PaddedCut(record, file.payload, here.start, file.directory[here.entry].bits)
<1> DEFINE rest == Repacked(Slice(here.cursor, take), here.cursor % ByteBits, take)
           p == file.payload
           bits == file.directory[here.entry].bits
<1>1. PICK start \in Nat, cursor \in Nat, remaining \in Nat, old \in Seq(Bit) :
        start = here.start /\ cursor = here.cursor /\ remaining = here.remaining /\ old = here.record
  BY DEF Positions
<1>2. ByteBits \in Nat \ {0}
  BY ReservoirAssumption
<1>3. take \in 0 .. remaining
  BY <1>1, TakeWithin
<1>4. take \in Nat /\ take <= remaining
  BY <1>1, <1>3
<1>5. p \in Seq(Bit)
  BY DirectoryBlocks
<1>6. PaddedCut(rest, p, cursor, take)
  BY <1>1, <1>4, <1>5, RepackedIs
<1>7. /\ start <= cursor /\ cursor + remaining = start + bits /\ (cursor - start) % ByteBits = 0
      /\ Len(old) = cursor - start
      /\ \A k \in 1 .. Len(old) : old[k] = p[start + k]
  BY <1>1 DEF Within
<1>8. record = old \o rest
  BY <1>1
<1> HIDE DEF rest
<1>9. PICK pad \in Nat : pad = (-take) % ByteBits
  <2>1. PICK x \in Int : x = -take
    BY <1>4
  <2>2. x % ByteBits \in 0 .. ByteBits - 1
    BY <1>2, Remainder
  <2> QED
    BY <1>2, <2>1, <2>2
<1>10. /\ rest \in Seq(Bit) /\ Len(rest) = take + pad
       /\ \A k \in 1 .. take : rest[k] = p[cursor + k]
       /\ \A k \in take + 1 .. take + pad : rest[k] = 0
  BY <1>6, <1>9 DEF PaddedCut, RoundUp
<1>11. PICK c \in Nat : c = cursor - start
  BY <1>7
<1>12. Len(old) = c /\ c % ByteBits = 0 /\ cursor = start + c
  BY <1>7, <1>11
<1>13. /\ record \in Seq(Bit) /\ Len(record) = c + (take + pad)
       /\ \A k \in 1 .. c : record[k] = old[k]
       /\ \A k \in 1 .. take + pad : record[c + k] = rest[k]
  <2>1. PICK z \in Seq(Bit) : z = rest
    BY <1>10
  <2>2. /\ old \o z \in Seq(Bit) /\ Len(old \o z) = Len(old) + Len(z)
        /\ \A k \in 1 .. Len(old) : (old \o z)[k] = old[k]
        /\ \A k \in 1 .. Len(z) : (old \o z)[Len(old) + k] = z[k]
    BY JoinedBits
  <2>3. record = old \o z /\ Len(z) = take + pad /\ Len(old) = c
    BY <1>8, <1>10, <1>12, <2>1
  <2> QED
    BY <2>1, <2>2, <2>3
<1>14. \A k \in 1 .. c + take : record[k] = p[start + k]
  <2> TAKE k \in 1 .. c + take
  <2>1. CASE k <= c
    <3>1. k \in 1 .. c
      BY <2>1
    <3> QED
      BY <1>7, <1>12, <1>13, <3>1
  <2>2. CASE k > c
    <3>1. PICK t \in Nat : t = take
      BY <1>4
    <3>2. PICK m \in Nat : m = k - c
      BY <2>2, <3>1
    <3>3. m \in 1 .. take /\ m \in 1 .. take + pad /\ c + m = k /\ cursor + m = start + k
      BY <1>12, <2>2, <3>1, <3>2
    <3>4. record[c + m] = rest[m]
      BY <1>13, <3>3
    <3>5. rest[m] = p[cursor + m]
      BY <1>10, <3>3
    <3> QED
      BY <3>3, <3>4, <3>5
  <2>3. k <= c \/ k > c
    BY <1>4
  <2> QED
    BY <2>1, <2>2, <2>3
<1> HIDE DEF p, bits
<1>15. ASSUME take < here.remaining
       PROVE  Within([here EXCEPT !.cursor = here.cursor + take,
                                  !.remaining = here.remaining - take, !.record = record], file)
  <2> DEFINE further == [here EXCEPT !.cursor = here.cursor + take,
                                     !.remaining = here.remaining - take, !.record = record]
  <2>1. /\ further.start = start /\ further.cursor = cursor + take
        /\ further.remaining = remaining - take /\ further.record = record
        /\ further.entry = here.entry
    BY <1>1 DEF Positions
  <2> HIDE DEF further
  <2>2. take % ByteBits = 0
    BY <1>1, <1>15, TakeWhole
  <2>3. pad = 0
    BY <1>2, <1>4, <1>9, <2>2, NoPadding
  <2>4. (c + take) % ByteBits = 0
    BY <1>2, <1>4, <1>12, <2>2, WholeSum
  <2>5. further.cursor - further.start = c + take /\ Len(further.record) = c + take
    <3>1. PICK t \in Nat : t = take
      BY <1>4
    <3>2. Len(further.record) = c + (t + pad)
      BY <1>13, <2>1, <3>1
    <3>3. further.cursor = start + c + t /\ further.start = start
      BY <1>12, <2>1, <3>1
    <3> QED
      BY <2>3, <3>1, <3>2, <3>3
  <2>6. further.start <= further.cursor
    BY <1>4, <1>12, <2>1
  <2>7. further.cursor + further.remaining = further.start + file.directory[further.entry].bits
    <3>1. cursor + take + (remaining - take) = cursor + remaining
      BY <1>4
    <3> QED
      BY <1>7, <2>1, <3>1 DEF bits
  <2>8. \A k \in 1 .. Len(further.record) : further.record[k] = file.payload[further.start + k]
    BY <1>14, <2>1, <2>5 DEF p
  <2> QED
    BY <2>4, <2>5, <2>6, <2>7, <2>8 DEF Within, further
<1>16. ASSUME ~(take < here.remaining)
       PROVE  PaddedCut(record, file.payload, here.start, file.directory[here.entry].bits)
  <2>1. take = remaining
    BY <1>1, <1>4, <1>16
  <2>2. bits = c + take
    <3>1. bits \in Nat
      BY DirectoryBlocks DEF bits
    <3> QED
      BY <1>4, <1>7, <1>12, <2>1, <3>1
  <2>3. RoundUp(bits) = c + take + pad
    <3>1. (-(c + take)) % ByteBits = (-take) % ByteBits
      BY <1>2, <1>4, <1>12, SamePadding
    <3> QED
      BY <1>9, <2>2, <3>1 DEF RoundUp
  <2>4. Len(record) = RoundUp(bits)
    <3>1. PICK t \in Nat : t = take
      BY <1>4
    <3>2. c + (t + pad) = c + t + pad
      OBVIOUS
    <3> QED
      BY <1>13, <2>3, <3>1, <3>2
  <2>5. \A k \in bits + 1 .. Len(record) : record[k] = 0
    <3> TAKE k \in bits + 1 .. Len(record)
    <3>1. PICK t \in Nat : t = take
      BY <1>4
    <3>2. k \in (c + t) + 1 .. c + (t + pad)
      BY <1>13, <2>2, <3>1
    <3>3. PICK m \in Nat : m = k - c
      BY <3>2
    <3>4. m \in take + 1 .. take + pad /\ m \in 1 .. take + pad /\ c + m = k
      <4>1. m \in t + 1 .. t + pad /\ m \in 1 .. t + pad /\ c + m = k
        BY <3>2, <3>3
      <4> QED
        BY <3>1, <4>1
    <3>5. record[c + m] = rest[m]
      BY <1>13, <3>4
    <3>6. rest[m] = 0
      BY <1>10, <3>4
    <3> QED
      BY <3>4, <3>5, <3>6
  <2>6. \A k \in 1 .. bits : record[k] = p[start + k]
    BY <1>14, <2>2
  <2> QED
    BY <1>1, <1>13, <2>4, <2>5, <2>6 DEF PaddedCut, p, bits
<1> QED
  BY <1>15, <1>16

LEMMA AppendedTo ==
  ASSUME NEW S, NEW s \in Seq(S), NEW e
  PROVE  /\ Len(Append(s, e)) = Len(s) + 1
         /\ \A i \in 1 .. Len(s) : Append(s, e)[i] = s[i]
         /\ Append(s, e)[Len(s) + 1] = e
OBVIOUS

LEMMA FollowExtract ==
  ASSUME Inv, NEW u \in Unpackers, Following(u), ExtractChunk(u)
  PROVE  Following(u)'
<1> DEFINE take == Take(at[u].remaining)
           physical == Slice(at[u].cursor, take)
           record == at[u].record \o Repacked(physical, at[u].cursor % ByteBits, take)
           entry == seen[u].directory[at[u].entry]
           further == [at[u] EXCEPT !.cursor = at[u].cursor + take,
                                    !.remaining = at[u].remaining - take, !.record = record]
           next == EntryAt(u, at[u].entry + 1, at[u].start + entry.bits)
           cut == [bits |-> entry.bits, scale |-> entry.scale, payload |-> record]
           whole == Len(physical) = RoundUp((at[u].cursor % ByteBits) + take)
<1>1. /\ upc[u] = "extracting" /\ at[u].entry <= BlockCount
      /\ file' = file /\ touched' = touched /\ seen' = seen
  BY DEF ExtractChunk
<1>2. /\ upc \in [Unpackers -> UnpackerSteps] /\ at \in [Unpackers -> Positions \cup {None}]
      /\ staging \in [Unpackers -> Seq(LegacyContainers)] /\ at[u] \in Positions /\ file # None
      /\ BlockCount \in Nat
  BY <1>1, ReservoirAssumption DEF Inv, Extracting
<1>3. Believed(seen[u]) /\ (u \notin touched => file = seen[u])
  BY <1>1 DEF Following
<1>4. at[u].entry \in 1 .. BlockCount /\ at[u].start \in Nat
  BY <1>1, <1>2 DEF Positions
<1>5. \/ /\ whole /\ UNCHANGED upc /\ take < at[u].remaining /\ UNCHANGED staging
         /\ at' = [at EXCEPT ![u] = further]
      \/ /\ whole /\ UNCHANGED upc /\ ~(take < at[u].remaining)
         /\ at' = [at EXCEPT ![u] = next]
         /\ staging' = [staging EXCEPT ![u] = Append(staging[u], cut)]
      \/ upc' = [upc EXCEPT ![u] = "refused"]
  BY DEF ExtractChunk
<1>6. ASSUME u \notin touched, whole
      PROVE  /\ AreRecords(staging[u], seen[u], at[u].entry - 1)
             /\ at[u].start = Offsets(seen[u].directory)[at[u].entry - 1]
             /\ take < at[u].remaining => Within(further, seen[u])
             /\ ~(take < at[u].remaining) =>
                  PaddedCut(record, seen[u].payload, at[u].start, entry.bits)
  <2>1. AreRecords(staging[u], seen[u], at[u].entry - 1) /\ IsAt(at[u], seen[u])
    BY <1>1, <1>6 DEF Following
  <2>2. /\ at[u].start = Offsets(seen[u].directory)[at[u].entry - 1]
        /\ Within(at[u], seen[u])
    BY <1>1, <2>1 DEF IsAt
  <2>3. file = seen[u] /\ file \in ReservoirFiles /\ Len(file.directory) = BlockCount
    BY <1>3, <1>6 DEF Believed
  <2>4. PICK here \in Positions : here = at[u]
    BY <1>2
  <2>5. PICK t, r : t = take /\ r = record
    OBVIOUS
  <2>6. /\ here.entry \in 1 .. BlockCount /\ Within(here, file)
        /\ t = Take(here.remaining)
        /\ Len(Slice(here.cursor, t)) = RoundUp((here.cursor % ByteBits) + t)
        /\ r = here.record \o Repacked(Slice(here.cursor, t), here.cursor % ByteBits, t)
    BY <1>4, <1>6, <2>2, <2>3, <2>4, <2>5
  <2>7. /\ t < here.remaining =>
             Within([here EXCEPT !.cursor = here.cursor + t,
                                 !.remaining = here.remaining - t, !.record = r], file)
        /\ ~(t < here.remaining) =>
             PaddedCut(r, file.payload, here.start, file.directory[here.entry].bits)
    BY <1>2, <2>3, <2>6, CutMore
  <2> QED
    BY <2>1, <2>2, <2>3, <2>4, <2>5, <2>7
<1> HIDE DEF take, physical, record, whole
<1>7. CASE /\ whole /\ UNCHANGED upc /\ take < at[u].remaining /\ UNCHANGED staging
           /\ at' = [at EXCEPT ![u] = further]
  <2>1. PICK f, a, s : f = seen[u] /\ a = further /\ s = staging[u]
    OBVIOUS
  <2>2. upc'[u] = "extracting" /\ at'[u] = a /\ staging'[u] = s /\ seen'[u] = f
    BY <1>1, <1>2, <1>7, <2>1
  <2>3. a.entry = at[u].entry /\ a.start = at[u].start
    BY <1>2, <2>1 DEF Positions
  <2>4. u \notin touched => AreRecords(s, f, a.entry - 1) /\ IsAt(a, f)
    BY <1>6, <1>7, <2>1, <2>3 DEF IsAt
  <2> QED
    BY <1>1, <1>3, <2>1, <2>2, <2>4 DEF Following
<1>8. CASE /\ whole /\ UNCHANGED upc /\ ~(take < at[u].remaining)
           /\ at' = [at EXCEPT ![u] = next]
           /\ staging' = [staging EXCEPT ![u] = Append(staging[u], cut)]
  <2>1. PICK f, a, s : f = seen[u] /\ a = next /\ s = Append(staging[u], cut)
    OBVIOUS
  <2>2. upc'[u] = "extracting" /\ at'[u] = a /\ staging'[u] = s /\ seen'[u] = f
    BY <1>1, <1>2, <1>8, <2>1
  <2>3. ASSUME u \notin touched PROVE AreRecords(s, f, a.entry - 1) /\ IsAt(a, f)
    <3>1. PICK n \in 1 .. BlockCount : n = at[u].entry
      BY <1>4
    <3>2. /\ AreRecords(staging[u], f, n - 1)
          /\ at[u].start = Offsets(f.directory)[n - 1]
          /\ PaddedCut(record, f.payload, at[u].start, entry.bits)
      BY <1>6, <1>8, <2>1, <2>3, <3>1
    <3>3. AreBlocks(f.directory, BlockCount) /\ f.directory[n].bits \in Nat
      BY <1>3, <2>1, DirectoryBlocks DEF Believed
    <3>4. Offsets(f.directory)[n] = Offsets(f.directory)[n - 1] + f.directory[n].bits
      BY <1>2, <3>3, OffsetsOf
    <3>5. entry.bits = f.directory[n].bits /\ entry.scale = f.directory[n].scale
      BY <2>1, <3>1
    <3>6. PICK start \in Nat : start = at[u].start + entry.bits
      BY <1>4, <3>3, <3>5
    <3>7. n + 1 \in 1 .. BlockCount + 1 /\ (n + 1) - 1 = n
      BY <1>2
    <3>8. start = Offsets(f.directory)[(n + 1) - 1]
      BY <3>2, <3>4, <3>5, <3>6, <3>7
    <3>9. PICK m \in 1 .. BlockCount + 1 : m = n + 1
      BY <3>7
    <3>10. IsAt(EntryAt(u, m, start), seen[u]) /\ EntryAt(u, m, start).entry = m
      BY <1>3, <2>1, <3>8, <3>9, EntryIsAt
    <3>11. a = EntryAt(u, m, start)
      BY <2>1, <3>1, <3>6, <3>9
    <3>12. a.entry - 1 = n /\ IsAt(a, f)
      BY <2>1, <3>7, <3>9, <3>10, <3>11
    <3>13. AreRecords(s, f, n)
      <4>1. PICK old : old = staging[u] /\ old \in Seq(LegacyContainers)
        BY <1>2
      <4>2. Len(old) = n - 1 /\ \A i \in 1 .. n - 1 : IsRecord(old[i], f, i)
        BY <3>2, <4>1 DEF AreRecords
      <4>3. PICK c : c = cut
        OBVIOUS
      <4>4. IsRecord(c, f, n)
        <5>1. c.bits = f.directory[n].bits /\ c.scale = f.directory[n].scale /\ c.payload = record
          BY <3>5, <4>3
        <5> QED
          BY <3>2, <3>5, <5>1 DEF IsRecord
      <4>5. s = Append(old, c)
        BY <2>1, <4>1, <4>3
      <4>6. Len(s) = n /\ s[n] = c /\ \A i \in 1 .. n - 1 : s[i] = old[i]
        <5>1. /\ Len(Append(old, c)) = Len(old) + 1
              /\ \A i \in 1 .. Len(old) : Append(old, c)[i] = old[i]
              /\ Append(old, c)[Len(old) + 1] = c
          BY <4>1, AppendedTo
        <5> QED
          BY <4>2, <4>5, <5>1
      <4>7. ASSUME NEW i \in 1 .. n PROVE IsRecord(s[i], f, i)
        <5>1. CASE i = n
          BY <4>4, <4>6, <5>1
        <5>2. CASE i # n
          <6>1. i \in 1 .. n - 1
            BY <5>2
          <6> QED
            BY <4>2, <4>6, <6>1
        <5> QED
          BY <5>1, <5>2
      <4> QED
        BY <4>6, <4>7 DEF AreRecords
    <3> QED
      BY <3>12, <3>13
  <2> QED
    BY <1>1, <1>3, <2>1, <2>2, <2>3 DEF Following
<1>9. CASE upc' = [upc EXCEPT ![u] = "refused"]
  <2>1. upc'[u] = "refused"
    BY <1>2, <1>9
  <2> QED
    BY <2>1 DEF Following
<1> QED
  BY <1>5, <1>7, <1>8, <1>9

LEMMA FollowInit ==
  ASSUME Init, NEW u \in Unpackers
  PROVE  Following(u)
BY DEF Init, Following

LEMMA FollowNext ==
  ASSUME Inv, NEW u \in Unpackers, Following(u), [Next]_vars
  PROVE  Following(u)'
<1>1. /\ upc \in [Unpackers -> UnpackerSteps] /\ seen \in [Unpackers -> ReservoirFiles \cup {None}]
      /\ at \in [Unpackers -> Positions \cup {None}]
      /\ staging \in [Unpackers -> Seq(LegacyContainers)]
  BY DEF Inv, Extracting
<1>2. CASE UNCHANGED unpacker /\ (touched' = Unpackers \/ UNCHANGED <<file, touched>>)
  <2>1. upc'[u] = upc[u] /\ seen'[u] = seen[u] /\ at'[u] = at[u] /\ staging'[u] = staging[u]
    BY <1>2 DEF unpacker
  <2> QED
    BY <1>2, <2>1, FollowingStill
<1>3. CASE Pack
  <2>1. UNCHANGED unpacker /\ (touched' = Unpackers \/ UNCHANGED <<file, touched>>)
    BY <1>3 DEF Pack, StartPack, OpenOutput, AppendBlock, Finish, WriteHeader, WritePackAudit,
       CrashPacker, Write
  <2> QED
    BY <1>2, <2>1
<1>4. ASSUME NEW f \in Forgeries, Present(f) PROVE Following(u)'
  <2>1. UNCHANGED unpacker /\ touched' = Unpackers
    BY <1>4 DEF Present, Write
  <2> QED
    BY <1>2, <2>1
<1>5. CASE UNCHANGED vars
  BY <1>2, <1>5 DEF vars
<1>6. CASE Unpack(u)
  <2>1. CASE Stat(u)
    <3>1. upc'[u] = "reading"
      BY <1>1, <2>1 DEF Stat, UGoto
    <3> QED
      BY <3>1 DEF Following
  <2>2. CASE CrashUnpacker(u)
    <3>1. upc'[u] = "crashed"
      BY <1>1, <2>2 DEF CrashUnpacker
    <3> QED
      BY <3>1 DEF Following
  <2> QED
    BY <1>6, <2>1, <2>2, FollowValidate, FollowOpen, FollowExtract, FollowRename,
       FollowWriteAudit DEF Unpack
<1>7. ASSUME NEW v \in Unpackers \ {u}, Unpack(v) PROVE Following(u)'
  <2>1. /\ file' = file /\ (touched' = touched \/ touched' = touched \ {v})
    BY <1>7 DEF Unpack, Stat, Validate, OpenStaging, ExtractChunk, Rename, WriteAudit,
       CrashUnpacker
  <2>2. upc'[u] = upc[u]
    BY <1>1, <1>7 DEF Unpack, Stat, Validate, OpenStaging, ExtractChunk, Rename, WriteAudit,
       CrashUnpacker, UGoto
  <2>3. seen'[u] = seen[u]
    BY <1>1, <1>7 DEF Unpack, Stat, Validate, OpenStaging, ExtractChunk, Rename, WriteAudit,
       CrashUnpacker
  <2>4. at'[u] = at[u]
    BY <1>1, <1>7 DEF Unpack, Stat, Validate, OpenStaging, ExtractChunk, Rename, WriteAudit,
       CrashUnpacker
  <2>5. staging'[u] = staging[u]
    BY <1>1, <1>7 DEF Unpack, Stat, Validate, OpenStaging, ExtractChunk, Rename, WriteAudit,
       CrashUnpacker
  <2> QED
    BY <1>7, <2>1, <2>2, <2>3, <2>4, <2>5, FollowingStill
<1> QED
  BY <1>3, <1>4, <1>5, <1>6, <1>7 DEF Next

Traced == Inv /\ Filling /\ Audited /\ \A u \in Unpackers : Following(u)

LEMMA TracedAlways == Spec => []Traced
<1>1. Init => Traced
  <2>1. Init => Filling /\ Audited
    BY DEF Init, Filling, Audited
  <2> QED
    BY <2>1, InvInit, FollowInit DEF Traced
<1>2. Traced /\ [Next]_vars => Traced'
  <2> SUFFICES ASSUME Traced, [Next]_vars PROVE Traced'
    OBVIOUS
  <2>1. Inv' /\ Filling' /\ Audited'
    BY InvNext, FillNext DEF Traced
  <2>2. ASSUME NEW u \in Unpackers PROVE Following(u)'
    BY FollowNext DEF Traced
  <2> QED
    BY <2>1, <2>2 DEF Traced
<1> QED
  BY <1>1, <1>2, PTL DEF Spec

-----------------------------------------------------------------------------
(* What comes out                                                          *)

\* A sequence made of a function.
LEMMA MadeSeq ==
  ASSUME NEW n \in Nat, NEW f, DOMAIN f = 1 .. n, f = [i \in 1 .. n |-> f[i]]
  PROVE  Len(f) = n
<1>1. f \in Seq({f[i] : i \in 1 .. n})
  BY IsASeq
<1> QED
  BY <1>1, LenProperties

\* What was recovered from the records of a file that was believed.
LEMMA RecoveredIs ==
  ASSUME NEW f, Believed(f), NEW records \in Seq(LegacyContainers),
         AreRecords(records, f, BlockCount)
  PROVE  LET messages == Recovered(records)
         IN  /\ DOMAIN messages = 1 .. BlockCount /\ Len(messages) = BlockCount
             /\ \A i \in 1 .. BlockCount :
                  /\ messages[i].scale = f.directory[i].scale
                  /\ messages[i].bits \in Seq(Bit) /\ Len(messages[i].bits) = f.directory[i].bits
                  /\ \A k \in 1 .. f.directory[i].bits :
                       messages[i].bits[k] = f.payload[Offsets(f.directory)[i - 1] + k]
<1> DEFINE messages == Recovered(records)
           e(i) == [bits |-> SubSeq(records[i].payload, 1, records[i].bits), scale |-> records[i].scale]
<1>1. DOMAIN records = 1 .. BlockCount /\ BlockCount \in Nat
  BY LenProperties, ReservoirAssumption DEF AreRecords
<1>2. messages = [i \in 1 .. BlockCount |-> e(i)]
  BY <1>1 DEF Recovered
<1>3. ASSUME NEW i \in 1 .. BlockCount
      PROVE  /\ e(i).scale = f.directory[i].scale
             /\ e(i).bits \in Seq(Bit) /\ Len(e(i).bits) = f.directory[i].bits
             /\ \A k \in 1 .. f.directory[i].bits :
                  e(i).bits[k] = f.payload[Offsets(f.directory)[i - 1] + k]
  <2>1. PICK r : r = records[i]
    OBVIOUS
  <2>2. IsRecord(r, f, i)
    BY <2>1 DEF AreRecords
  <2>3. PICK n \in Nat : n = f.directory[i].bits
    BY DirectoryBlocks DEF Believed
  <2>4. RoundUp(n) \in Nat /\ RoundUp(n) >= n
    BY RoundedUp
  <2>5. /\ r.bits = n /\ r.scale = f.directory[i].scale
        /\ r.payload \in Seq(Bit) /\ Len(r.payload) = RoundUp(n)
        /\ \A k \in 1 .. n : r.payload[k] = f.payload[Offsets(f.directory)[i - 1] + k]
    BY <2>2, <2>3 DEF IsRecord, PaddedCut
  <2>6. PICK s \in Seq(Bit) : s = r.payload
    BY <2>5
  <2>7. 0 + n <= Len(s) /\ 0 + 1 = 1 /\ 0 + n = n /\ \A k \in 1 .. n : 0 + k = k
    BY <2>4, <2>5, <2>6
  <2>8. /\ SubSeq(s, 0 + 1, 0 + n) \in Seq(Bit) /\ Len(SubSeq(s, 0 + 1, 0 + n)) = n
        /\ \A k \in 1 .. n : SubSeq(s, 0 + 1, 0 + n)[k] = s[0 + k]
    BY <2>7, CutBits
  <2>9. e(i).bits = SubSeq(s, 1, n) /\ e(i).scale = r.scale
    BY <2>1, <2>5, <2>6
  <2> HIDE DEF e
  <2> QED
    BY <2>3, <2>5, <2>6, <2>7, <2>8, <2>9
<1> HIDE DEF e
<1>4. \A i \in 1 .. BlockCount : messages[i] = e(i)
  BY <1>2
<1>5. DOMAIN messages = 1 .. BlockCount
  BY <1>2
<1>6. Len(messages) = BlockCount
  <2>1. messages = [i \in 1 .. BlockCount |-> messages[i]]
    BY <1>2
  <2> HIDE DEF messages
  <2> QED
    BY <1>1, <1>5, <2>1, MadeSeq
<1> HIDE DEF messages
<1>7. \A i \in 1 .. BlockCount :
        /\ messages[i].scale = f.directory[i].scale
        /\ messages[i].bits \in Seq(Bit) /\ Len(messages[i].bits) = f.directory[i].bits
        /\ \A k \in 1 .. f.directory[i].bits :
             messages[i].bits[k] = f.payload[Offsets(f.directory)[i - 1] + k]
  BY <1>3, <1>4
<1> QED
  BY <1>5, <1>6, <1>7 DEF messages

LEMMA FileIsContainer ==
  ASSUME NEW f, Believed(f), NEW messages,
         DOMAIN messages = 1 .. BlockCount, Len(messages) = BlockCount,
         \A i \in 1 .. BlockCount :
           /\ messages[i].scale = f.directory[i].scale
           /\ messages[i].bits \in Seq(Bit) /\ Len(messages[i].bits) = f.directory[i].bits
           /\ \A k \in 1 .. f.directory[i].bits :
                messages[i].bits[k] = f.payload[Offsets(f.directory)[i - 1] + k]
  PROVE  Container(messages) = f
<1> DEFINE pieces == [i \in DOMAIN messages |-> messages[i].bits]
           stream == Stream(messages)
           directory == [i \in DOMAIN messages |->
                           [bits |-> Len(messages[i].bits), scale |-> messages[i].scale]]
           payload == stream \o Zeros(Budget * Len(messages) - Len(stream))
           header == [blocks |-> Len(messages), entries |-> Len(messages), logical |-> Len(stream),
                      directory |-> directory, payload |-> payload]
<1>1. /\ AreBlocks(f.directory, BlockCount) /\ BlockCount \in Nat \ {0}
      /\ f.payload \in Seq(Bit) /\ f \in ReservoirFiles /\ Len(f.directory) = BlockCount
      /\ \A i \in 1 .. BlockCount : f.directory[i].bits \in Nat
  BY DirectoryBlocks DEF Believed
<1>2. /\ f.header.blocks = BlockCount /\ f.header.entries = BlockCount
      /\ Len(f.payload) = Budget * BlockCount
      /\ f.header.directory = f.directory /\ f.header.payload = f.payload
      /\ TotalOf(f.directory) = f.header.logical
      /\ f.header.logical <= Budget * BlockCount
      /\ \A i \in f.header.logical + 1 .. Len(f.payload) : f.payload[i] = 0
  BY <1>1 DEF Believed, Valid, Framed, EntriesHold, SuffixZero
<1>3. f.header \in Headers /\ f.header.logical \in Nat /\ Len(f.payload) \in Nat
  BY <1>1, LenProperties DEF ReservoirFiles, Headers
<1>4. stream = SubSeq(f.payload, 1, f.header.logical)
  <2>1. DOMAIN pieces = 1 .. BlockCount /\ \A i \in 1 .. BlockCount : pieces[i] = messages[i].bits
    OBVIOUS
  <2>2. pieces = [i \in 1 .. BlockCount |-> pieces[i]]
    OBVIOUS
  <2>3. stream = FlattenSeq(pieces)
    BY DEF Stream
  <2> HIDE DEF pieces, stream
  <2>4. Len(pieces) = BlockCount
    BY <1>1, <2>1, <2>2, MadeSeq
  <2>5. PICK b : b = f.directory
    OBVIOUS
  <2>6. PICK p \in Seq(Bit) : p = f.payload
    BY <1>1
  <2>7. /\ \A i \in 1 .. BlockCount : pieces[i] \in Seq(Bit) /\ Len(pieces[i]) = b[i].bits
        /\ AreBlocks(b, BlockCount) /\ TotalOf(b) <= Len(p)
        /\ \A i \in 1 .. BlockCount : \A k \in 1 .. b[i].bits :
             pieces[i][k] = p[Offsets(b)[i - 1] + k]
    BY <1>1, <1>2, <1>3, <2>1, <2>5, <2>6
  <2>8. PICK n \in Nat \ {0} : n = BlockCount
    BY <1>1
  <2>9. ArePieces(pieces, b, n)
    BY <2>4, <2>7, <2>8 DEF ArePieces
  <2>10. LieIn(pieces, b, n, p)
    BY <2>7, <2>8 DEF LieIn
  <2>11. TotalOf(b) <= Len(p)
    BY <2>7
  <2>12. FlattenSeq(pieces) = SubSeq(p, 1, TotalOf(b))
    BY <2>9, <2>10, <2>11, Assembled
  <2> QED
    BY <1>2, <2>3, <2>5, <2>6, <2>12
<1> HIDE DEF stream
<1>5. PICK l \in Nat, p \in Seq(Bit), c \in Nat :
        /\ l = f.header.logical /\ p = f.payload /\ c = Budget * BlockCount
  BY <1>1, <1>2, <1>3
<1>6. /\ stream \in Seq(Bit) /\ Len(stream) = l /\ \A k \in 1 .. l : stream[k] = p[k]
      /\ l <= c /\ Len(p) = c
  <2>1. 0 + l <= Len(p) /\ 0 + 1 = 1 /\ 0 + l = l /\ \A k \in 1 .. l : 0 + k = k
    BY <1>2, <1>5
  <2>2. /\ SubSeq(p, 0 + 1, 0 + l) \in Seq(Bit) /\ Len(SubSeq(p, 0 + 1, 0 + l)) = l
        /\ \A k \in 1 .. l : SubSeq(p, 0 + 1, 0 + l)[k] = p[0 + k]
    BY <2>1, CutBits
  <2>3. stream = SubSeq(p, 1, l)
    BY <1>4, <1>5
  <2> QED
    BY <1>2, <1>5, <2>1, <2>2, <2>3
<1>7. payload = p
  <2>1. PICK z \in Nat : z = c - l
    BY <1>6
  <2>2. PICK s \in Seq(Bit) : s = Zeros(z) /\ Len(s) = z /\ \A k \in 1 .. z : s[k] = 0
    BY ZerosOf
  <2>3. payload = stream \o s
    BY <1>5, <1>6, <2>1, <2>2
  <2> HIDE DEF payload
  <2>4. \A k \in 1 .. z : s[k] = p[l + k]
    <3> TAKE k \in 1 .. z
    <3>1. l + k \in f.header.logical + 1 .. Len(f.payload)
      BY <1>5, <1>6, <2>1
    <3> QED
      BY <1>2, <1>5, <2>2, <3>1
  <2>5. SubSeq(p, 1, l) \o s = SubSeq(p, 1, l + z)
    <3>1. l + z <= Len(p)
      BY <1>6, <2>1
    <3>2. Len(s) = z /\ \A k \in 1 .. z : s[k] = p[l + k]
      BY <2>2, <2>4
    <3>3. Continues(s, p, l, z)
      BY <3>1, <3>2 DEF Continues
    <3> QED
      BY <3>3, PrefixGrows
  <2>6. SubSeq(p, 1, Len(p)) = p
    BY SubSeqFull
  <2>7. stream = SubSeq(p, 1, l) /\ l + z = Len(p)
    BY <1>4, <1>5, <1>6, <2>1
  <2> QED
    BY <2>3, <2>5, <2>6, <2>7
<1> HIDE DEF payload
<1>8. directory = f.directory
  <2>1. /\ directory = [i \in 1 .. BlockCount |-> directory[i]] /\ DOMAIN directory = 1 .. BlockCount
        /\ \A i \in 1 .. BlockCount :
             directory[i] = [bits |-> f.directory[i].bits, scale |-> f.directory[i].scale]
    OBVIOUS
  <2> HIDE DEF directory
  <2>2. f.directory \in Directories
    BY <1>1 DEF ReservoirFiles
  <2>3. DOMAIN f.directory = 1 .. BlockCount
    BY <1>1, <2>2, LenProperties DEF Directories
  <2>4. \A i \in 1 .. BlockCount : f.directory[i] \in [bits : Nat, scale : Scales]
    BY <1>1, <2>2, ElementOfSeq DEF Directories
  <2>5. \A i \in 1 .. BlockCount :
          f.directory[i] = [bits |-> f.directory[i].bits, scale |-> f.directory[i].scale]
    BY <2>4
  <2>6. f.directory = [i \in 1 .. BlockCount |-> f.directory[i]]
    BY <2>2, <2>3, LenProperties DEF Directories
  <2> QED
    BY <2>1, <2>5, <2>6
<1> HIDE DEF directory
<1>9. header = f.header
  <2>1. header = [blocks |-> f.header.blocks, entries |-> f.header.entries,
                  logical |-> f.header.logical, directory |-> f.header.directory,
                  payload |-> f.header.payload]
    BY <1>2, <1>5, <1>6, <1>7, <1>8
  <2> HIDE DEF header
  <2> QED
    BY <1>3, <2>1 DEF Headers
<1> HIDE DEF header
<1>10. Container(messages) = [header |-> header, directory |-> directory, payload |-> payload]
  BY DEF Container, header, directory, payload, stream
<1>11. Container(messages) =
         [header |-> f.header, directory |-> f.directory, payload |-> f.payload]
  BY <1>5, <1>7, <1>8, <1>9, <1>10
<1> QED
  BY <1>1, <1>11 DEF ReservoirFiles

\* Records cut from a file that stayed as it was validated repack to that file, bit
\* for bit, whoever presented it: what validate_reservoir accepts a packer could have
\* written, and two different reservoirs never have the same blocks.
THEOREM OneFilePerMessages == Spec => []Canonical
<1>1. Traced => Canonical
  <2> SUFFICES ASSUME Traced, NEW u \in Unpackers, upc[u] \in {"renamed", "unpacked"}, u \notin touched
               PROVE  Container(Recovered(staging[u])) = seen[u]
    BY DEF Canonical
  <2>1. PICK f, r : f = seen[u] /\ r = staging[u]
    OBVIOUS
  <2>2. Believed(f) /\ AreRecords(r, f, BlockCount) /\ r \in Seq(LegacyContainers)
    BY <2>1 DEF Traced, Following, Inv, Extracting
  <2>3. PICK m : m = Recovered(r)
    OBVIOUS
  <2>4. /\ DOMAIN m = 1 .. BlockCount /\ Len(m) = BlockCount
        /\ \A i \in 1 .. BlockCount :
             /\ m[i].scale = f.directory[i].scale
             /\ m[i].bits \in Seq(Bit) /\ Len(m[i].bits) = f.directory[i].bits
             /\ \A k \in 1 .. f.directory[i].bits :
                  m[i].bits[k] = f.payload[Offsets(f.directory)[i - 1] + k]
    BY <2>2, <2>3, RecoveredIs
  <2>5. Container(m) = f
    BY <2>2, <2>4, FileIsContainer
  <2> QED
    BY <2>1, <2>3, <2>5
<1> QED
  BY <1>1, TracedAlways, PTL

\* The records of a file that holds a job's messages are the job's containers.
LEMMA RecordsAreInputs ==
  ASSUME NEW f, Believed(f), NEW records \in Seq(LegacyContainers),
         AreRecords(records, f, BlockCount),
         NEW j, Accepted(j), f.directory = DirectoryOf(j), Filled(f.payload, j)
  PROVE  records = [i \in DOMAIN j |-> [bits |-> j[i].bits, scale |-> Half(j[i].scale),
                                        payload |-> j[i].payload]]
<1>1. DOMAIN records = 1 .. BlockCount /\ records = [i \in 1 .. BlockCount |-> records[i]]
  <2>1. DOMAIN records = 1 .. BlockCount
    BY LenProperties, ReservoirAssumption DEF AreRecords
  <2>2. records = [i \in 1 .. Len(records) |-> records[i]] /\ Len(records) = BlockCount
    BY LenProperties DEF AreRecords
  <2> QED
    BY <2>1, <2>2
<1>2. DOMAIN j = 1 .. BlockCount
  BY LenProperties, ReservoirAssumption DEF Accepted
<1>3. \A i \in 1 .. BlockCount :
        f.directory[i].bits = j[i].bits /\ f.directory[i].scale = Half(j[i].scale)
  BY <1>2 DEF DirectoryOf
<1>4. Offsets(f.directory) = Offsets(j)
  <2>1. AreBlocks(f.directory, BlockCount) /\ AreBlocks(j, BlockCount) /\ BlockCount \in Nat
    BY JobBlocks, DirectoryBlocks DEF Believed
  <2>2. PICK d, n : d = f.directory /\ n = BlockCount
    OBVIOUS
  <2>3. n \in Nat /\ AreBlocks(d, n) /\ AreBlocks(j, n)
    BY <2>1, <2>2
  <2>4. \A i \in 1 .. n : d[i].bits = j[i].bits
    BY <1>3, <2>2
  <2>5. Offsets(d) = Offsets(j)
    BY <2>3, <2>4, SameOffsets
  <2> QED
    BY <2>2, <2>5
<1>5. ASSUME NEW i \in 1 .. BlockCount
      PROVE  records[i] = [bits |-> j[i].bits, scale |-> Half(j[i].scale), payload |-> j[i].payload]
  <2>1. PICK r, c : r = records[i] /\ c = j[i]
    OBVIOUS
  <2>2. /\ c.bits \in Nat /\ c.payload \in Seq(Bit) /\ Len(c.payload) = RoundUp(c.bits)
        /\ Legal(c)
    BY <2>1, JobBlocks
  <2>3. r \in LegacyContainers
    BY <1>1, <2>1, ElementOfSeq, LenProperties
  <2>4. r.bits = c.bits /\ r.scale = Half(c.scale)
    BY <1>3, <2>1 DEF AreRecords, IsRecord
  <2>5. PaddedCut(r.payload, f.payload, Offsets(j)[i - 1], c.bits)
    BY <1>3, <1>4, <2>1 DEF AreRecords, IsRecord
  <2>6. \A k \in 1 .. c.bits : f.payload[Offsets(j)[i - 1] + k] = c.payload[k]
    BY <2>1 DEF Filled, Placed
  <2>7. PICK n \in Nat, m \in Nat : n = c.bits /\ m = RoundUp(n) /\ m >= n
    BY <2>2, RoundedUp
  <2>8. PICK s \in Seq(Bit), t \in Seq(Bit) : s = r.payload /\ t = c.payload
    BY <2>2, <2>5 DEF PaddedCut
  <2>9. Len(s) = m /\ Len(t) = m
    BY <2>2, <2>5, <2>7, <2>8 DEF PaddedCut
  <2>10. \A k \in 1 .. n : s[k] = t[k]
    BY <2>5, <2>6, <2>7, <2>8 DEF PaddedCut
  <2>11. \A k \in n + 1 .. m : s[k] = 0
    BY <2>5, <2>7, <2>8, <2>9 DEF PaddedCut
  <2>12. \A k \in n + 1 .. m : t[k] = 0
    <3>1. PICK z \in Nat : z = m - n
      BY <2>7
    <3>2. SubSeq(t, n + 1, n + z) = Zeros(z)
      <4>1. n + z = Len(t) /\ z = Len(t) - n
        BY <2>7, <2>9, <3>1
      <4>2. SubSeq(t, n + 1, Len(t)) = Zeros(Len(t) - n)
        BY <2>2, <2>7, <2>8 DEF Legal
      <4> QED
        BY <4>1, <4>2
    <3>3. n + z <= Len(t)
      BY <2>7, <2>9, <3>1
    <3>4. \A k \in 1 .. z : SubSeq(t, n + 1, n + z)[k] = t[n + k]
      BY <3>3, CutBits
    <3>5. \A k \in 1 .. z : t[n + k] = 0
      BY <3>2, <3>4, ZerosOf
    <3> TAKE k \in n + 1 .. m
    <3>6. k - n \in 1 .. z /\ n + (k - n) = k
      BY <2>7, <3>1
    <3> QED
      BY <3>5, <3>6
  <2>13. \A k \in 1 .. m : s[k] = t[k]
    <3> TAKE k \in 1 .. m
    <3>1. k \in 1 .. n \/ k \in n + 1 .. m
      BY <2>7
    <3> QED
      BY <2>10, <2>11, <2>12, <3>1
  <2>14. s = t
    BY <2>9, <2>13, SameBits
  <2>15. r = [bits |-> c.bits, scale |-> Half(c.scale), payload |-> c.payload]
    BY <2>3, <2>4, <2>8, <2>14 DEF LegacyContainers
  <2> QED
    BY <2>1, <2>15
<1> QED
  BY <1>1, <1>2, <1>5

\* What was packed comes out again, block by block, whatever the containers, the
\* budget, the byte and the chunk, whenever packer and unpackers were killed before,
\* and whatever was presented in between.
THEOREM PackedComesOut == Spec => []RoundTrip
<1>1. Traced => RoundTrip
  <2> SUFFICES ASSUME Traced, NEW u \in Unpackers, upc[u] \in {"renamed", "unpacked"}, u \notin touched,
                      packAudit # None, packAudit.reservoir = seen[u]
               PROVE  staging[u] = [i \in DOMAIN packAudit.inputs |->
                        [bits |-> packAudit.inputs[i].bits, scale |-> Half(packAudit.inputs[i].scale),
                         payload |-> packAudit.inputs[i].payload]]
    BY DEF RoundTrip
  <2>1. PICK f, r, j : f = seen[u] /\ r = staging[u] /\ j = packAudit.inputs
    OBVIOUS
  <2>2. Believed(f) /\ AreRecords(r, f, BlockCount) /\ r \in Seq(LegacyContainers)
    BY <2>1 DEF Traced, Following, Inv, Extracting
  <2>3. Accepted(j) /\ f.directory = DirectoryOf(j) /\ Filled(f.payload, j)
    BY <2>1 DEF Traced, Audited
  <2>4. r = [i \in DOMAIN j |-> [bits |-> j[i].bits, scale |-> Half(j[i].scale),
                                 payload |-> j[i].payload]]
    BY <2>2, <2>3, RecordsAreInputs
  <2> QED
    BY <2>1, <2>4
<1> QED
  BY <1>1, TracedAlways, PTL

-----------------------------------------------------------------------------
(* What the file is to its readers                                         *)

\* The pieces joined are as long as the blocks together.
LEMMA JoinedLength ==
  ASSUME NEW n \in Nat \ {0}, NEW pieces, NEW blocks, ArePieces(pieces, blocks, n)
  PROVE  Len(FlattenSeq(pieces)) = TotalOf(blocks)
<1> DEFINE o == Offsets(blocks)
<1>1. /\ Len(pieces) = n /\ AreBlocks(blocks, n)
      /\ \A i \in 1 .. n : pieces[i] \in Seq(Bit) /\ Len(pieces[i]) = blocks[i].bits
  BY DEF ArePieces
<1>2. o[0] = 0 /\ \A i \in 1 .. n : o[i] = o[i - 1] + blocks[i].bits
  BY <1>1, OffsetsOf
<1>3. TotalOf(blocks) = o[n] /\ \A i \in 1 .. n : blocks[i].bits \in Nat
  BY <1>1 DEF TotalOf, AreBlocks
<1> HIDE DEF o
<1>4. PICK f \in [1 .. n -> Seq(Bit)] :
           /\ f[1] = pieces[1]
           /\ \A i \in 2 .. n : f[i] = f[i - 1] \o pieces[i]
           /\ FlattenSeq(pieces) = f[n]
  <2>1. ArePieceBits(pieces, n)
    BY <1>1 DEF ArePieceBits
  <2> QED
    BY <2>1, FlattenedOf
<1> DEFINE Good == {i \in 0 .. n : i # 0 => Len(f[i]) = o[i]}
<1>5. 0 \in Good
  OBVIOUS
<1>6. ASSUME NEW i \in 0 .. n - 1, i \in Good PROVE i + 1 \in Good
  <2>1. i + 1 \in 1 .. n /\ (i + 1) - 1 = i /\ i + 1 \in 0 .. n
    OBVIOUS
  <2>2. o[i + 1] = o[i] + blocks[i + 1].bits /\ Len(pieces[i + 1]) = blocks[i + 1].bits
    BY <1>1, <1>2, <2>1
  <2>3. CASE i = 0
    <3>1. Len(f[1]) = blocks[1].bits /\ o[0] = 0 /\ blocks[1].bits \in Nat /\ 0 + 1 = 1
      BY <1>2, <1>3, <1>4, <2>1, <2>2, <2>3
    <3>2. o[1] = blocks[1].bits
      BY <2>2, <2>3, <3>1
    <3> QED
      BY <2>1, <2>3, <3>1, <3>2
  <2>4. CASE i # 0
    <3>1. i \in 1 .. n /\ i + 1 \in 2 .. n
      BY <2>4
    <3>2. f[i + 1] = f[i] \o pieces[i + 1] /\ Len(f[i]) = o[i]
      BY <1>4, <1>6, <2>1, <2>4, <3>1
    <3>3. f[i] \in Seq(Bit) /\ pieces[i + 1] \in Seq(Bit)
      BY <1>1, <1>4, <2>1, <3>1
    <3>4. Len(f[i] \o pieces[i + 1]) = Len(f[i]) + Len(pieces[i + 1])
      BY <3>3, JoinedBits
    <3> QED
      BY <2>1, <2>2, <3>2, <3>4
  <2> QED
    BY <2>3, <2>4
<1>7. \A i \in 0 .. n : i \in Good
  <2> HIDE DEF Good
  <2> QED
    BY <1>5, <1>6, UpToBound
<1> QED
  BY <1>3, <1>4, <1>7

LEMMA MessagesOf ==
  ASSUME NEW j, Accepted(j)
  PROVE  /\ Messages(j) \in CheckpointMessages
         /\ DOMAIN Messages(j) = 1 .. BlockCount
         /\ \A i \in 1 .. BlockCount :
              /\ Messages(j)[i].bits = SubSeq(j[i].payload, 1, j[i].bits)
              /\ Messages(j)[i].bits \in Seq(Bit) /\ Len(Messages(j)[i].bits) = j[i].bits
              /\ Messages(j)[i].scale = Half(j[i].scale)
         /\ Len(Stream(Messages(j))) = TotalOf(j)
<1> DEFINE messages == Messages(j)
           e(i) == [bits |-> SubSeq(j[i].payload, 1, j[i].bits), scale |-> Half(j[i].scale)]
           M == [bits : Seq({0, 1}), scale : Scales]
<1>1. DOMAIN j = 1 .. BlockCount /\ BlockCount \in Nat \ {0}
  BY LenProperties, ReservoirAssumption DEF Accepted
<1>2. messages = [i \in 1 .. BlockCount |-> e(i)]
  BY <1>1 DEF Messages
<1>3. ASSUME NEW i \in 1 .. BlockCount
      PROVE  /\ e(i).bits = SubSeq(j[i].payload, 1, j[i].bits)
             /\ e(i).bits \in Seq(Bit) /\ Len(e(i).bits) = j[i].bits
             /\ e(i).scale = Half(j[i].scale) /\ e(i) \in M
  <2>1. /\ j[i].bits \in Nat /\ j[i].payload \in Seq(Bit) /\ j[i].scale \in Scales
        /\ j[i].bits <= Len(j[i].payload)
    BY JobBlocks
  <2>2. PICK n \in Nat, s \in Seq(Bit) : n = j[i].bits /\ s = j[i].payload
    BY <2>1
  <2>3. 0 + n <= Len(s) /\ 0 + 1 = 1 /\ 0 + n = n
    BY <2>1, <2>2
  <2>4. SubSeq(s, 0 + 1, 0 + n) \in Seq(Bit) /\ Len(SubSeq(s, 0 + 1, 0 + n)) = n
    BY <2>3, CutBits
  <2>5. Half(j[i].scale) \in Scales
    BY <2>1 DEF Half, Scales
  <2> QED
    BY <2>2, <2>3, <2>4, <2>5 DEF Bit
<1> HIDE DEF e
<1>4. \A i \in 1 .. BlockCount : messages[i] = e(i)
  BY <1>2
<1>5. DOMAIN messages = 1 .. BlockCount /\ messages = [i \in 1 .. BlockCount |-> messages[i]]
  BY <1>2
<1> HIDE DEF messages
<1>6. messages \in Seq(M)
  <2>1. \A i \in 1 .. BlockCount : messages[i] \in M
    BY <1>3, <1>4
  <2> HIDE DEF M
  <2>2. [i \in 1 .. BlockCount |-> messages[i]] \in Seq(M)
    BY <1>1, <2>1, IsASeq
  <2> QED
    BY <1>5, <2>2
<1>7. \A i \in 1 .. BlockCount :
        /\ messages[i].bits = SubSeq(j[i].payload, 1, j[i].bits)
        /\ messages[i].bits \in Seq(Bit) /\ Len(messages[i].bits) = j[i].bits
        /\ messages[i].scale = Half(j[i].scale)
  BY <1>3, <1>4
<1>8. Len(Stream(messages)) = TotalOf(j)
  <2> DEFINE pieces == [i \in DOMAIN messages |-> messages[i].bits]
  <2>1. /\ DOMAIN pieces = 1 .. BlockCount /\ \A i \in 1 .. BlockCount : pieces[i] = messages[i].bits
        /\ pieces = [i \in 1 .. BlockCount |-> pieces[i]]
    BY <1>5
  <2>2. Stream(messages) = FlattenSeq(pieces)
    BY DEF Stream
  <2> HIDE DEF pieces
  <2>3. Len(pieces) = BlockCount
    BY <1>1, <2>1, MadeSeq
  <2>4. AreBlocks(j, BlockCount)
    BY JobBlocks
  <2>5. ArePieces(pieces, j, BlockCount)
    BY <1>7, <2>1, <2>3, <2>4 DEF ArePieces
  <2> QED
    BY <1>1, <2>2, <2>5, JoinedLength
<1> QED
  BY <1>5, <1>6, <1>7, <1>8 DEF messages, CheckpointMessages

\* The payload a packer has filled, cut at the offsets of its job, is the job's
\* messages.
LEMMA CutIsMessages ==
  ASSUME NEW j, Accepted(j), NEW p, Filled(p, j),
         NEW d, d = DirectoryOf(j)
  PROVE  Recovered([i \in DOMAIN d |->
           LET start == Offsets(d)[i - 1]
           IN  [bits |-> d[i].bits, scale |-> d[i].scale,
                payload |-> SubSeq(p, start + 1, start + d[i].bits)]]) = Messages(j)
<1> DEFINE cut(i) == SubSeq(p, Offsets(d)[i - 1] + 1, Offsets(d)[i - 1] + d[i].bits)
           records == [i \in DOMAIN d |-> [bits |-> d[i].bits, scale |-> d[i].scale, payload |-> cut(i)]]
<1>1. DOMAIN j = 1 .. BlockCount /\ BlockCount \in Nat \ {0}
  BY LenProperties, ReservoirAssumption DEF Accepted
<1>2. /\ DOMAIN d = 1 .. BlockCount /\ d = [i \in 1 .. BlockCount |-> d[i]]
      /\ \A i \in 1 .. BlockCount : d[i].bits = j[i].bits /\ d[i].scale = Half(j[i].scale)
  BY <1>1 DEF DirectoryOf
<1>3. AreBlocks(j, BlockCount) /\ AreBlocks(d, BlockCount)
  <2>1. Len(d) = BlockCount
    BY <1>1, <1>2, MadeSeq
  <2>2. AreBlocks(j, BlockCount) /\ \A i \in 1 .. BlockCount : j[i].bits \in Nat
    BY JobBlocks
  <2> QED
    BY <1>2, <2>1, <2>2 DEF AreBlocks
<1>4. Offsets(d) = Offsets(j)
  <2>1. PICK n \in Nat : n = BlockCount
    BY <1>1
  <2>2. AreBlocks(d, n) /\ AreBlocks(j, n)
    BY <1>3, <2>1
  <2>3. \A i \in 1 .. n : d[i].bits = j[i].bits
    BY <1>2, <2>1
  <2> QED
    BY <2>2, <2>3, SameOffsets
<1>5. /\ Offsets(j) \in [0 .. BlockCount -> Nat]
      /\ \A i \in 1 .. BlockCount : Offsets(j)[i] = Offsets(j)[i - 1] + j[i].bits
  BY <1>1, <1>3, OffsetsOf
<1>6. p \in Seq(Bit) /\ Len(p) = Capacity /\ TotalOf(j) <= Capacity /\ Placed(p, j, BlockCount)
  BY DEF Filled
<1>7. ASSUME NEW i \in 1 .. BlockCount
      PROVE  SubSeq(cut(i), 1, d[i].bits) = SubSeq(j[i].payload, 1, j[i].bits)
  <2>1. i \in 0 .. BlockCount /\ i - 1 \in 0 .. BlockCount /\ BlockCount \in 0 .. BlockCount
    BY <1>1
  <2>2. Offsets(j)[i] <= Offsets(j)[BlockCount] /\ TotalOf(j) = Offsets(j)[BlockCount]
    BY <1>1, <1>3, <2>1, OffsetsGrow DEF TotalOf, AreBlocks
  <2>3. PICK a \in Nat : a = Offsets(j)[i - 1]
    BY <1>5, <2>1
  <2>4. /\ j[i].bits \in Nat /\ j[i].payload \in Seq(Bit) /\ j[i].bits <= Len(j[i].payload)
    BY JobBlocks
  <2>5. PICK n \in Nat, s \in Seq(Bit) : n = j[i].bits /\ s = j[i].payload
    BY <2>4
  <2>6. a + n <= Len(p)
    <3>1. Offsets(j)[i] = a + n /\ Offsets(j)[BlockCount] \in Nat /\ Capacity \in Nat
      BY <1>5, <2>1, <2>3, <2>5, WholeCapacity
    <3> QED
      BY <1>6, <2>2, <3>1
  <2>7. PICK q \in Seq(Bit) : q = p
    BY <1>6
  <2>8. /\ SubSeq(q, a + 1, a + n) \in Seq(Bit) /\ Len(SubSeq(q, a + 1, a + n)) = n
        /\ \A k \in 1 .. n : SubSeq(q, a + 1, a + n)[k] = q[a + k]
    BY <2>6, <2>7, CutBits
  <2>9. PICK c \in Seq(Bit) : c = cut(i) /\ Len(c) = n /\ \A k \in 1 .. n : c[k] = q[a + k]
    <3>1. cut(i) = SubSeq(q, a + 1, a + n)
      BY <1>2, <1>4, <2>3, <2>5, <2>7
    <3> HIDE DEF cut
    <3> QED
      BY <2>8, <3>1
  <2> HIDE DEF cut, records
  <2>10. SubSeq(c, 1, n) = c
    BY <2>9, SubSeqFull
  <2>11. 0 + n <= Len(s) /\ 0 + 1 = 1 /\ 0 + n = n /\ \A k \in 1 .. n : 0 + k = k
    BY <2>4, <2>5
  <2>12. /\ SubSeq(s, 0 + 1, 0 + n) \in Seq(Bit) /\ Len(SubSeq(s, 0 + 1, 0 + n)) = n
         /\ \A k \in 1 .. n : SubSeq(s, 0 + 1, 0 + n)[k] = s[0 + k]
    BY <2>11, CutBits
  <2>13. PICK t \in Seq(Bit) : t = SubSeq(s, 1, n) /\ Len(t) = n /\ \A k \in 1 .. n : t[k] = s[k]
    <3>1. SubSeq(s, 0 + 1, 0 + n) = SubSeq(s, 1, n)
      BY <2>11
    <3> QED
      BY <2>11, <2>12, <3>1
  <2>14. \A k \in 1 .. n : q[a + k] = s[k]
    BY <1>6, <2>3, <2>5, <2>7 DEF Placed
  <2>15. \A k \in 1 .. n : c[k] = t[k]
    BY <2>9, <2>13, <2>14
  <2>16. c = t
    BY <2>9, <2>13, <2>15, SameBits
  <2> QED
    BY <1>2, <2>5, <2>9, <2>10, <2>13, <2>16
<1> HIDE DEF cut
<1>8. Recovered(records) = [i \in 1 .. BlockCount |->
                              [bits |-> SubSeq(cut(i), 1, d[i].bits), scale |-> d[i].scale]]
  BY <1>2 DEF Recovered
<1>9. Messages(j) = [i \in 1 .. BlockCount |->
                       [bits |-> SubSeq(j[i].payload, 1, j[i].bits), scale |-> Half(j[i].scale)]]
  BY <1>1 DEF Messages
<1>10. Recovered(records) = Messages(j)
  BY <1>2, <1>7, <1>8, <1>9
<1> QED
  BY <1>10 DEF cut

\* A step that writes no file and neither begins nor ends a rewrite.
LEMMA SameRegister ==
  ASSUME file' = file,
         UNCHANGED <<job, ppc>> \/ {ppc, ppc'} \cap {"appending", "finished"} = {}
  PROVE  UNCHANGED FileSpec!vars
<1>1. Register' = Register
  BY DEF Register
<1>2. UNCHANGED (IF ppc \in {"appending", "finished"} THEN Messages(job) ELSE None)
  BY DEF Messages
<1> QED
  BY <1>1, <1>2 DEF FileSpec!vars

LEMMA RegisterInit == Init => FileSpec!Init
BY DEF Init, FileSpec!Init, Register

LEMMA RegisterBegins ==
  ASSUME Inv, Filling, Inv', Filling', OpenOutput
  PROVE  FileSpec!Next
<1>1. ppc = "parsed" /\ ppc' = "appending" /\ job' = job
  BY DEF OpenOutput
<1>2. Accepted(job) /\ Fits(job) /\ job \in Jobs
  BY <1>1 DEF Filling
<1>3. Messages(job) \in FittingMessages
  <2>1. \A i \in DOMAIN job : Legal(job[i])
    <3>1. DOMAIN job = 1 .. BlockCount
      BY <1>2, LenProperties, ReservoirAssumption DEF Accepted
    <3> QED
      BY <1>2, <3>1 DEF Accepted
  <2>2. Len(Stream(Messages(job))) <= Capacity
    BY <1>2, MessagesOf DEF Fits
  <2> QED
    BY <1>2, <2>1, <2>2 DEF FittingMessages
<1>4. Register' = <<>>
  <2>1. file' = [header |-> Blank, directory |-> DirectoryOf(job), payload |-> <<>>]
    BY DEF OpenOutput, Write
  <2>2. file' # None
    BY <1>1 DEF Inv, Packing
  <2>3. file'.header = Blank
    BY <2>1
  <2> QED
    BY <2>2, <2>3 DEF Register
<1>5. Messages(job)' = Messages(job)
  BY <1>1 DEF Messages
<1>6. FileSpec!Begin(Messages(job))
  BY <1>1, <1>4, <1>5 DEF FileSpec!Begin
<1> QED
  BY <1>3, <1>6 DEF FileSpec!Next

\* The sink's steps: the header's place stays blank.
LEMMA RegisterFills ==
  ASSUME Inv, Filling, Inv', Filling', AppendBlock \/ Finish
  PROVE  UNCHANGED FileSpec!vars
<1>1. /\ ppc \in {"appending", "finished"} /\ ppc' \in {"appending", "finished"}
      /\ job' = job
  BY DEF AppendBlock, Finish
<1>2. file # None /\ file.header = Blank /\ file' # None /\ file'.header = Blank
  BY <1>1 DEF Inv, Packing, Filling
<1>3. Register = <<>> /\ Register' = <<>>
  BY <1>2 DEF Register
<1>4. Messages(job)' = Messages(job)
  BY <1>1 DEF Messages
<1> QED
  BY <1>1, <1>3, <1>4 DEF FileSpec!vars

LEMMA RegisterCommits ==
  ASSUME Inv, Filling, Inv', Filling', WriteHeader
  PROVE  FileSpec!Next
<1>1. ppc = "finished" /\ ppc' = "packed" /\ job' = job
  BY DEF WriteHeader
<1>2. Accepted(job) /\ Filled(file.payload, job) /\ file.directory = DirectoryOf(job)
  BY <1>1 DEF Filling
<1>3. file # None /\ file \in ReservoirFiles /\ file' # None
  BY <1>1 DEF Inv, Packing, Stored
<1>4. PICK h : /\ h = [blocks |-> Len(job), entries |-> Len(job), logical |-> sink.logical,
                       directory |-> DirectoryOf(job), payload |-> file.payload]
               /\ file' = [file EXCEPT !.header = h]
  BY DEF WriteHeader, Write
<1>5. file'.header = h /\ file'.directory = DirectoryOf(job) /\ file'.payload = file.payload
  BY <1>2, <1>3, <1>4 DEF ReservoirFiles
<1>6. h # Blank
  <2>1. h.blocks = BlockCount /\ BlockCount # 0
    BY <1>2, <1>4, ReservoirAssumption DEF Accepted
  <2> QED
    BY <2>1 DEF Blank
<1>7. Register' = Messages(job)
  <2>1. PICK p, d : p = file.payload /\ d = DirectoryOf(job)
    OBVIOUS
  <2>2. file'.payload = p /\ file'.directory = d /\ Filled(p, job)
    BY <1>2, <1>5, <2>1
  <2>3. Recovered([i \in DOMAIN d |->
          LET start == Offsets(d)[i - 1]
          IN  [bits |-> d[i].bits, scale |-> d[i].scale,
               payload |-> SubSeq(p, start + 1, start + d[i].bits)]]) = Messages(job)
    BY <1>2, <2>1, <2>2, CutIsMessages
  <2>4. Register' = Recovered([i \in DOMAIN d |->
          LET start == Offsets(d)[i - 1]
          IN  [bits |-> d[i].bits, scale |-> d[i].scale,
               payload |-> SubSeq(p, start + 1, start + d[i].bits)]])
    BY <1>3, <1>5, <1>6, <2>2 DEF Register, Recovered, Offsets
  <2> QED
    BY <2>3, <2>4
<1>8. Messages(job) # None
  BY <1>2, MessagesOf, FilesAssumption
<1>9. FileSpec!Commit
  BY <1>1, <1>7, <1>8 DEF FileSpec!Commit
<1> QED
  BY <1>9 DEF FileSpec!Next

LEMMA RegisterAbandons ==
  ASSUME Inv, Filling, Inv', Filling', CrashPacker
  PROVE  [FileSpec!Next]_(FileSpec!vars)
<1>1. ppc' = "idle"
  BY DEF CrashPacker
<1>2. CASE ppc \in {"appending", "finished"}
  <2>1. file # None /\ file.header = Blank /\ file \in ReservoirFiles
    BY <1>2 DEF Inv, Packing, Filling, Stored
  <2>2. file' # None /\ file'.header = Blank
    <3>1. CASE UNCHANGED <<file, touched>>
      BY <2>1, <3>1
    <3>2. ASSUME NEW n \in 0 .. Len(file.payload),
                 Write([file EXCEPT !.payload = SubSeq(file.payload, 1, n)])
          PROVE  file' # None /\ file'.header = Blank
      <4>1. file.payload \in Seq(Bit)
        BY <2>1 DEF ReservoirFiles, Bit
      <4>2. PICK p \in Seq(Bit) : p = SubSeq(file.payload, 1, n)
        <5>1. SubSeq(file.payload, 1, n) \in Seq(Bit)
          BY <4>1, PartOfBits, LenProperties
        <5> QED
          BY <5>1
      <4>3. file' = [file EXCEPT !.payload = p]
        BY <3>2, <4>2 DEF Write
      <4>4. file' \in ReservoirFiles
        BY <2>1, <4>2, <4>3, PayloadWritten DEF Inv
      <4>5. file'.header = Blank
        BY <2>1, <4>3 DEF ReservoirFiles
      <4> QED
        BY <4>4, <4>5, FilesAssumption
    <3> QED
      BY <3>1, <3>2 DEF CrashPacker
  <2>3. Register = <<>> /\ Register' = <<>>
    BY <2>1, <2>2 DEF Register
  <2>4. Messages(job) # None
    <3>1. Accepted(job)
      BY <1>2 DEF Filling
    <3> QED
      BY <3>1, MessagesOf, FilesAssumption
  <2>5. FileSpec!Abandon
    BY <1>1, <1>2, <2>3, <2>4 DEF FileSpec!Abandon
  <2> QED
    BY <2>5 DEF FileSpec!Next
<1>3. CASE ppc \notin {"appending", "finished"}
  <2>1. file' = file
    BY <1>3 DEF CrashPacker
  <2> QED
    BY <1>1, <1>3, <2>1, SameRegister
<1> QED
  BY <1>2, <1>3

LEMMA RegisterStep ==
  ASSUME Forgeries = {}, Inv, Filling, Inv', Filling', [Next]_vars
  PROVE  [FileSpec!Next]_(FileSpec!vars)
<1>1. CASE \E j \in Jobs : StartPack(j)
  <2>1. file' = file /\ {ppc, ppc'} \cap {"appending", "finished"} = {}
    BY <1>1 DEF StartPack
  <2> QED
    BY <2>1, SameRegister
<1>2. CASE OpenOutput
  BY <1>2, RegisterBegins
<1>3. CASE AppendBlock \/ Finish
  BY <1>3, RegisterFills
<1>4. CASE WriteHeader
  BY <1>4, RegisterCommits
<1>5. CASE WritePackAudit
  <2>1. file' = file /\ {ppc, ppc'} \cap {"appending", "finished"} = {}
    BY <1>5 DEF WritePackAudit
  <2> QED
    BY <2>1, SameRegister
<1>6. CASE CrashPacker
  BY <1>6, RegisterAbandons
<1>7. CASE \E u \in Unpackers : Unpack(u)
  <2>1. file' = file /\ UNCHANGED <<job, ppc>>
    BY <1>7 DEF Unpack, Stat, Validate, OpenStaging, ExtractChunk, Rename, WriteAudit,
       CrashUnpacker, packer
  <2> QED
    BY <2>1, SameRegister
<1>8. CASE UNCHANGED vars
  <2>1. file' = file /\ UNCHANGED <<job, ppc>>
    BY <1>8 DEF vars, packer
  <2> QED
    BY <2>1, SameRegister
<1> QED
  BY <1>1, <1>2, <1>3, <1>4, <1>5, <1>6, <1>7, <1>8 DEF Next, Pack

\* To its readers, and as long as no foreign file takes its place, the reservoir is
\* a register of whole checkpoints.
THEOREM ImplementsRegister ==
  ASSUME Forgeries = {}
  PROVE  Spec => ImplementsReservoirFile
<1>1. Inv /\ Filling /\ Inv' /\ Filling' /\ [Next]_vars => [FileSpec!Next]_(FileSpec!vars)
  BY RegisterStep
<1>2. Traced => Inv /\ Filling
  BY DEF Traced
<1> QED
  BY <1>1, <1>2, RegisterInit, TracedAlways, PTL DEF Spec, ImplementsReservoirFile, FileSpec!Spec

=============================================================================
