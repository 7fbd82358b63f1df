----------------------- MODULE ArithmeticCoderProofs -----------------------
(***************************************************************************)
(* Proofs about ArithmeticCoder, for every word length, total and message. *)
(* The argument: between symbols the interval is settled, straddling the   *)
(* middle and one of the quarters, hence wider than a quarter and so than  *)
(* the total; a share of it is then neither nothing nor all of it.  The    *)
(* decoder's comparison on the scaled code is the comparison of the code   *)
(* with the split, so that the code stays in the half that is chosen, and  *)
(* the shifts move the ends and the code alike.                            *)
(***************************************************************************)
EXTENDS ArithmeticCoder, Induction, TLAPS

-----------------------------------------------------------------------------
(* Division                                                                *)

\* The quotient is the largest number whose product fits.
LEMMA Quotient ==
  ASSUME NEW a \in Nat, NEW b \in Nat, b > 0
  PROVE  a \div b \in Nat /\ b * (a \div b) <= a /\ a < b * (a \div b) + b
  BY SMT

\* A doubled word, without its carry.
LEMMA Doubled ==
  ASSUME NEW q \in Nat, q > 0, NEW x \in 0 .. 4 * q - 1
  PROVE  /\ x < 2 * q => (2 * x) % (4 * q) = 2 * x
         /\ x >= 2 * q => (2 * x) % (4 * q) = 2 * x - 4 * q
  BY SMT

\* The share of a symbol is neither nothing nor all of an interval wider
\* than the total.
LEMMA ShareInside ==
  ASSUME NEW w \in Nat, NEW t \in Nat, t > 0, w >= t, NEW f \in 1 .. t - 1
  PROVE  (w * f) \div t \in 1 .. w - 1
  OBVIOUS

\* The scaled code is below the frequency of zero exactly if the code is
\* below the split.
LEMMA ScaledBelow ==
  ASSUME NEW w \in Nat, NEW t \in Nat, t > 0, w > 0, NEW f \in 1 .. t - 1,
         NEW d \in 0 .. w - 1
  PROVE  ((d + 1) * t - 1) \div w < f <=> d < (w * f) \div t
  OBVIOUS

-----------------------------------------------------------------------------
(* The invariant                                                           *)

\* Between symbols neither end can be shifted out, and the decoder reads its
\* first word at the whole interval.
Settled ==
  /\ pc = "symbol" => ~InLower /\ ~InUpper /\ ~InMiddle
  /\ pc = "priming" => low = 0 /\ high = Full - 1

Inv == TypeOK /\ Settled /\ CodeInside

\* A settled interval is wider than the total.
LEMMA Wide ==
  ASSUME TypeOK, Settled, pc = "symbol"
  PROVE  Width \in Nat /\ Total \in Nat /\ Total > 0 /\ Width >= Total
  BY CoderAssumption, SMT
     DEF TypeOK, Settled, InLower, InUpper, InMiddle, Width, Half, Full

\* The split of a settled interval leaves both symbols a share.
LEMMA SplitInside ==
  ASSUME TypeOK, Settled, pc = "symbol", NEW freq1 \in Frequencies
  PROVE  Split(freq1) \in Int /\ low <= Split(freq1) /\ Split(freq1) < high
<1>1. Width \in Nat /\ Total \in Nat /\ Total > 0 /\ Width >= Total
  BY Wide
<1>2. Total - freq1 \in 1 .. Total - 1
  BY <1>1, SMT DEF Frequencies
<1>3. (Width * (Total - freq1)) \div Total \in 1 .. Width - 1
  BY <1>1, <1>2, ShareInside
<1>4. low \in Nat /\ high \in Nat
  BY CoderAssumption, SMT DEF TypeOK, Full
<1> QED
  BY <1>3, <1>4, SMT DEF Split, Width

\* Narrowing a settled interval keeps its ends words, and in order.
LEMMA NarrowInside ==
  ASSUME TypeOK, Settled, pc = "symbol", NEW freq1 \in Frequencies,
         NEW bit \in {0, 1}, Narrow(bit, freq1)
  PROVE  low' \in 0 .. Full - 1 /\ high' \in 0 .. Full - 1 /\ low' <= high'
<1>1. Split(freq1) \in Int /\ low <= Split(freq1) /\ Split(freq1) < high
  BY SplitInside
<1>2. low \in 0 .. Full - 1 /\ high \in 0 .. Full - 1 /\ Full \in Nat
  BY CoderAssumption, SMT DEF TypeOK, Full
<1>3. CASE bit = 0
  BY <1>1, <1>2, <1>3, SMT DEF Narrow
<1>4. CASE bit = 1
  BY <1>1, <1>2, <1>4, SMT DEF Narrow
<1> QED
  BY <1>3, <1>4

\* The branch of the loop that is taken moves the ends by its offset before
\* it doubles them, and no carry is lost.
LEMMA ShiftInside ==
  ASSUME TypeOK, NEW offset \in {0, Half, Quarter}, Shift(offset),
         \/ InLower /\ offset = 0
         \/ InUpper /\ offset = Half
         \/ InMiddle /\ offset = Quarter
  PROVE  /\ low' \in 0 .. Full - 1 /\ high' \in 0 .. Full - 1 /\ low' <= high'
         /\ low' = 2 * (low - offset) /\ high' = 2 * (high - offset) + 1
         /\ low - offset \in 0 .. Half - 1 /\ high - offset \in 0 .. Half - 1
<1>1. Quarter \in Nat /\ Quarter > 0
  BY CoderAssumption
<1>2. low \in Nat /\ high \in 0 .. 4 * Quarter - 1 /\ low <= high
  BY <1>1, SMT DEF TypeOK, Full
<1>3. low - offset \in 0 .. 2 * Quarter - 1 /\ high - offset \in 0 .. 2 * Quarter - 1
  BY <1>1, <1>2, SMT DEF InLower, InUpper, InMiddle, Half
<1>4. /\ (2 * (low - offset)) % (4 * Quarter) = 2 * (low - offset)
      /\ (2 * (high - offset)) % (4 * Quarter) = 2 * (high - offset)
  <2> DEFINE l == low - offset
             h == high - offset
  <2>1. l \in 0 .. 4 * Quarter - 1 /\ l < 2 * Quarter
    BY <1>1, <1>3, SMT
  <2>2. h \in 0 .. 4 * Quarter - 1 /\ h < 2 * Quarter
    BY <1>1, <1>3, SMT
  <2> HIDE DEF l, h
  <2>3. (2 * l) % (4 * Quarter) = 2 * l /\ (2 * h) % (4 * Quarter) = 2 * h
    BY <1>1, <2>1, <2>2, Doubled
  <2> QED
    BY <2>3 DEF l, h
<1>5. low' = 2 * (low - offset) /\ high' = 2 * (high - offset) + 1
  BY <1>4 DEF Shift, Full
<1> QED
  BY <1>1, <1>2, <1>3, <1>5, SMT DEF Full, Half

\* The bit that is read is zero past the end of the payload.
LEMMA BitRead ==
  ASSUME TypeOK
  PROVE  NextBit \in {0, 1} /\ read + 1 \in Nat
<1>1. output \in Seq({0, 1}) /\ read \in Nat
  BY DEF TypeOK
<1>2. CASE read < Len(output)
  <2>1. read + 1 \in 1 .. Len(output)
    BY <1>1, <1>2, SMT
  <2> QED
    BY <1>1, <1>2, <2>1, SMT DEF NextBit
<1>3. CASE ~(read < Len(output))
  BY <1>1, <1>3, SMT DEF NextBit
<1> QED
  BY <1>2, <1>3

\* Doubling a word and reading a bit into it gives a word.
LEMMA WordRead ==
  ASSUME NEW x \in 0 .. Full - 1, NEW bit \in {0, 1}
  PROVE  /\ ((2 * x) % Full) + bit \in 0 .. Full - 1
         /\ x < Half => ((2 * x) % Full) + bit = 2 * x + bit
<1>1. Quarter \in Nat /\ Quarter > 0 /\ Full = 4 * Quarter /\ Half = 2 * Quarter
  BY CoderAssumption, SMT DEF Full, Half
<1>2. /\ x < 2 * Quarter => (2 * x) % (4 * Quarter) = 2 * x
      /\ x >= 2 * Quarter => (2 * x) % (4 * Quarter) = 2 * x - 4 * Quarter
  BY <1>1, Doubled
<1>3. x < 2 * Quarter \/ x >= 2 * Quarter
  BY <1>1, SMT
<1> QED
  BY <1>1, <1>2, <1>3, SMT

\* Emitting leaves a sequence of bits.
LEMMA Emitted ==
  ASSUME TypeOK, NEW bit \in {0, 1}, NEW opposites \in Nat, Emit(bit, opposites)
  PROVE  output' \in Seq({0, 1})
<1>1. Append(output, bit) \in Seq({0, 1})
  BY SMT DEF TypeOK
<1>2. [i \in 1 .. opposites |-> 1 - bit] \in Seq({0, 1})
  <2>1. 1 - bit \in {0, 1}
    BY SMT
  <2> QED
    BY <2>1, SMT
<1> QED
  BY <1>1, <1>2, SMT DEF Emit

-----------------------------------------------------------------------------
(* The steps                                                               *)

LEMMA InvInit ==
  ASSUME Init
  PROVE  Inv
<1>1. TypeOK
  BY CoderAssumption, SMT DEF Init, TypeOK, Full
<1>2. Settled
  BY CoderAssumption, SMT DEF Init, Settled, InLower, InUpper, InMiddle, Full, Half
<1>3. CodeInside
  BY SMT DEF Init, CodeInside
<1> QED
  BY <1>1, <1>2, <1>3 DEF Inv

LEMMA InvEncodeSymbol ==
  ASSUME Inv, NEW symbol \in Symbols, EncodeSymbol(symbol)
  PROVE  Inv'
<1>1. TypeOK /\ Settled /\ pc = "symbol" /\ who = "encoder" /\ who' = who /\ pc' = "shifting"
  BY DEF Inv, EncodeSymbol
<1>2. symbol.bit \in {0, 1} /\ symbol.freq1 \in Frequencies
  BY DEF Symbols
<1>3. low' \in 0 .. Full - 1 /\ high' \in 0 .. Full - 1 /\ low' <= high'
  BY <1>1, <1>2, NarrowInside DEF EncodeSymbol
<1>4. message' \in Seq(Symbols) /\ Len(message') = Len(message) + 1
  BY SMT DEF EncodeSymbol, Inv, TypeOK
<1>5. TypeOK'
  BY <1>1, <1>3, <1>4, SMT DEF TypeOK, EncodeSymbol, decoder
<1> QED
  BY <1>1, <1>5 DEF Inv, Settled, CodeInside

LEMMA InvEncoderShifts ==
  ASSUME Inv, EncoderShifts
  PROVE  Inv'
<1>1. TypeOK /\ pc = "shifting" /\ who = "encoder" /\ who' = who /\ pc' = pc
  BY DEF Inv, EncoderShifts
<1>2. pending \in Nat
  BY <1>1 DEF TypeOK
<1>3. PICK offset \in {0, Half, Quarter} :
        /\ \/ InLower /\ offset = 0
           \/ InUpper /\ offset = Half
           \/ InMiddle /\ offset = Quarter
        /\ Shift(offset)
  BY DEF EncoderShifts
<1>4. low' \in 0 .. Full - 1 /\ high' \in 0 .. Full - 1 /\ low' <= high'
  BY <1>1, <1>3, ShiftInside
<1>5. output' \in Seq({0, 1}) /\ pending' \in Nat
  <2>1. CASE Emit(0, pending) /\ pending' = 0
    BY <1>1, <1>2, <2>1, Emitted
  <2>2. CASE Emit(1, pending) /\ pending' = 0
    BY <1>1, <1>2, <2>2, Emitted
  <2>3. CASE pending' = pending + 1 /\ UNCHANGED output
    BY <1>1, <1>2, <2>3, SMT DEF TypeOK
  <2> QED
    BY <2>1, <2>2, <2>3 DEF EncoderShifts
<1>6. TypeOK'
  BY <1>1, <1>4, <1>5, SMT DEF TypeOK, EncoderShifts, decoder
<1> QED
  BY <1>1, <1>6 DEF Inv, Settled, CodeInside

LEMMA InvFlush ==
  ASSUME Inv, Flush
  PROVE  Inv'
<1>1. TypeOK /\ who = "encoder" /\ who' = who /\ pc' = "flushed"
  BY DEF Inv, Flush
<1>2. pending + 1 \in Nat
  BY <1>1, SMT DEF TypeOK
<1>3. output' \in Seq({0, 1})
  <2>1. PICK bit \in {0, 1} : Emit(bit, pending + 1)
    BY DEF Flush
  <2> QED
    BY <1>1, <1>2, <2>1, Emitted
<1>4. TypeOK'
  BY <1>1, <1>3, SMT DEF TypeOK, Flush, interval, decoder
<1> QED
  BY <1>1, <1>4 DEF Inv, Settled, CodeInside

LEMMA InvStartDecoding ==
  ASSUME Inv, StartDecoding
  PROVE  Inv'
<1>1. TypeOK'
  BY CoderAssumption, SMT DEF Inv, TypeOK, StartDecoding, encoder, decoder, Full
<1> QED
  BY <1>1 DEF Inv, Settled, CodeInside, StartDecoding

LEMMA InvPrime ==
  ASSUME Inv, Prime
  PROVE  Inv'
<1>1. TypeOK /\ Settled /\ pc = "priming" /\ code \in 0 .. Full - 1
      /\ UNCHANGED <<who, message, low, high, pending, output, decoded>>
  BY DEF Inv, TypeOK, Prime, interval, encoder
<1>2. NextBit \in {0, 1} /\ read + 1 \in Nat
  BY <1>1, BitRead
<1>3. CASE pc' = pc /\ code' = ((2 * code) % Full) + NextBit /\ read' = read + 1
  <2>1. code' \in 0 .. Full - 1
    BY <1>1, <1>2, <1>3, WordRead
  <2>2. TypeOK'
    BY <1>1, <1>2, <1>3, <2>1, SMT DEF TypeOK
  <2> QED
    BY <1>1, <1>3, <2>2 DEF Inv, Settled, CodeInside
<1>4. CASE pc' = "symbol" /\ UNCHANGED <<code, read>>
  <2>1. TypeOK'
    BY <1>1, <1>4, SMT DEF TypeOK
  <2>2. low' = 0 /\ high' = Full - 1 /\ code' \in 0 .. Full - 1
    BY <1>1, <1>4 DEF Settled
  <2>3. Settled'
    BY <1>4, <2>2, CoderAssumption, SMT DEF Settled, InLower, InUpper, InMiddle, Full, Half
  <2>4. CodeInside'
    BY <2>2, CoderAssumption, SMT DEF CodeInside, Full
  <2> QED
    BY <2>1, <2>3, <2>4 DEF Inv
<1> QED
  BY <1>3, <1>4 DEF Prime

\* The symbol that is decoded is the one whose share holds the code.
LEMMA Chosen ==
  ASSUME TypeOK, Settled, pc = "symbol", NEW freq1 \in Frequencies,
         low <= code, code <= high
  PROVE  Scaled < Total - freq1 <=> code <= Split(freq1)
<1>1. Width \in Nat /\ Total \in Nat /\ Total > 0 /\ Width >= Total /\ Width > 0
  BY Wide, SMT
<1>2. low \in Int /\ high \in Int /\ code \in Int /\ Total - freq1 \in 1 .. Total - 1
  BY <1>1, CoderAssumption, SMT DEF TypeOK, Full, Frequencies
<1>3. code - low \in 0 .. Width - 1
  BY <1>2, SMT DEF Width
<1>4. Scaled < Total - freq1 <=> code - low < (Width * (Total - freq1)) \div Total
  BY <1>1, <1>2, <1>3, ScaledBelow DEF Scaled
<1>5. (Width * (Total - freq1)) \div Total \in Int
  BY <1>1, <1>2, ShareInside, SMT
<1> QED
  BY <1>2, <1>4, <1>5, SMT DEF Split

LEMMA InvDecodeSymbol ==
  ASSUME Inv, DecodeSymbol
  PROVE  Inv'
<1>1. TypeOK /\ Settled /\ pc = "symbol" /\ who = "decoder" /\ who' = who /\ pc' = "shifting"
      /\ low <= code /\ code <= high
      /\ UNCHANGED <<message, pending, output, code, read>>
  BY DEF Inv, CodeInside, DecodeSymbol, encoder
<1> DEFINE freq1 == message[Len(decoded) + 1].freq1
           bit == IF Scaled < Total - freq1 THEN 0 ELSE 1
<1>2. Narrow(bit, freq1) /\ decoded' = Append(decoded, bit) /\ Len(decoded) < Len(message)
  BY DEF DecodeSymbol
<1>3. freq1 \in Frequencies
  <2>1. message \in Seq(Symbols) /\ Len(decoded) + 1 \in 1 .. Len(message)
    BY <1>1, <1>2, SMT DEF TypeOK
  <2>2. message[Len(decoded) + 1] \in Symbols
    BY <2>1, SMT
  <2> QED
    BY <2>2 DEF Symbols
<1>4. bit \in {0, 1}
  OBVIOUS
<1>5. Scaled < Total - freq1 <=> code <= Split(freq1)
  <2> HIDE DEF freq1
  <2> QED
    BY <1>1, <1>3, Chosen
<1> HIDE DEF freq1
<1>6. low' \in 0 .. Full - 1 /\ high' \in 0 .. Full - 1 /\ low' <= high'
  BY <1>1, <1>2, <1>3, <1>4, NarrowInside
<1>7. decoded' \in Seq({0, 1}) /\ Len(decoded') <= Len(message)
  <2>1. decoded \in Seq({0, 1}) /\ message \in Seq(Symbols)
    BY <1>1 DEF TypeOK
  <2> HIDE DEF bit
  <2> QED
    BY <1>2, <1>4, <2>1, SMT
<1>8. TypeOK'
  BY <1>1, <1>6, <1>7, SMT DEF TypeOK
<1>9. low' <= code /\ code <= high'
  <2>1. Split(freq1) \in Int /\ code \in Int /\ low \in Int /\ high \in Int
    BY <1>1, <1>3, SplitInside, CoderAssumption, SMT DEF TypeOK, Full
  <2>2. CASE Scaled < Total - freq1
    BY <1>1, <1>2, <1>5, <2>1, <2>2, SMT DEF Narrow
  <2>3. CASE ~(Scaled < Total - freq1)
    BY <1>1, <1>2, <1>5, <2>1, <2>3, SMT DEF Narrow
  <2> QED
    BY <2>2, <2>3
<1> QED
  BY <1>1, <1>8, <1>9 DEF Inv, Settled, CodeInside

LEMMA InvDecoderShifts ==
  ASSUME Inv, DecoderShifts
  PROVE  Inv'
<1>1. TypeOK /\ pc = "shifting" /\ who = "decoder" /\ low <= code /\ code <= high
      /\ UNCHANGED <<who, pc, message, pending, output, decoded>> /\ read' = read + 1
  BY DEF Inv, CodeInside, DecoderShifts, encoder
<1>2. NextBit \in {0, 1} /\ read + 1 \in Nat
  BY <1>1, BitRead
<1>3. PICK offset \in {0, Half, Quarter} :
        /\ \/ InLower /\ offset = 0
           \/ InUpper /\ offset = Half
           \/ InMiddle /\ offset = Quarter
        /\ Shift(offset)
        /\ code' = ((2 * (code - offset)) % Full) + NextBit
  BY DEF DecoderShifts
<1>4. /\ low' \in 0 .. Full - 1 /\ high' \in 0 .. Full - 1 /\ low' <= high'
      /\ low' = 2 * (low - offset) /\ high' = 2 * (high - offset) + 1
      /\ low - offset \in 0 .. Half - 1 /\ high - offset \in 0 .. Half - 1
  BY <1>1, <1>3, ShiftInside
<1>5. /\ code \in Int /\ low \in Int /\ high \in Int /\ offset \in Int
      /\ Half \in Nat /\ Full = 2 * Half
  BY <1>1, CoderAssumption, SMT DEF TypeOK, Full, Half
<1>6. code - offset \in 0 .. Full - 1 /\ code - offset < Half
  BY <1>1, <1>4, <1>5, SMT
<1>7. code' = 2 * (code - offset) + NextBit /\ code' \in 0 .. Full - 1
  <2> DEFINE x == code - offset
  <2>1. x \in 0 .. Full - 1 /\ x < Half
    BY <1>6
  <2>2. code' = ((2 * x) % Full) + NextBit
    BY <1>3
  <2> HIDE DEF x
  <2>3. code' = 2 * x + NextBit /\ code' \in 0 .. Full - 1
    BY <1>2, <2>1, <2>2, WordRead
  <2> QED
    BY <2>3 DEF x
<1>8. low' <= code' /\ code' <= high'
  BY <1>1, <1>2, <1>4, <1>5, <1>7, SMT
<1>9. TypeOK'
  BY <1>1, <1>2, <1>4, <1>7, SMT DEF TypeOK
<1> QED
  BY <1>1, <1>8, <1>9 DEF Inv, Settled, CodeInside

LEMMA InvSettle ==
  ASSUME Inv, Settle
  PROVE  Inv'
<1>1. TypeOK'
  BY SMT DEF Inv, TypeOK, Settle, interval, encoder, decoder
<1>2. Settled'
  BY SMT DEF Settled, Settle, interval, InLower, InUpper, InMiddle
<1>3. CodeInside'
  BY SMT DEF Inv, CodeInside, Settle, interval, decoder
<1> QED
  BY <1>1, <1>2, <1>3 DEF Inv

LEMMA InvNext ==
  ASSUME Inv, [Next]_vars
  PROVE  Inv'
<1>1. ASSUME NEW symbol \in Symbols, EncodeSymbol(symbol)
      PROVE  Inv'
  BY <1>1, InvEncodeSymbol
<1>2. CASE UNCHANGED vars
  BY <1>2 DEF vars, interval, encoder, decoder, Inv, TypeOK, Settled, CodeInside,
              InLower, InUpper, InMiddle
<1> QED
  BY <1>1, <1>2, InvEncoderShifts, InvFlush, InvStartDecoding, InvPrime,
     InvDecodeSymbol, InvDecoderShifts, InvSettle DEF Next

LEMMA InvAlways == Spec => []Inv
  BY InvInit, InvNext, PTL DEF Spec

-----------------------------------------------------------------------------
(* Powers and products                                                     *)

\* A power is a number, and the next one is the base times as much.
LEMMA PowerOf ==
  ASSUME NEW base \in Nat
  PROVE  /\ Power(base, 0) = 1
         /\ \A n \in Nat : Power(base, n) \in Nat /\ Power(base, n + 1) = base * Power(base, n)
<1> DEFINE step == [i \in Nat \ {0} |-> [v \in Nat |-> base * v]]
           Eqn(p) == p = [i \in Nat |-> IF i = 0 THEN 1 ELSE base * p[i - 1]]
           power == CHOOSE p : Eqn(p)
<1>1. AreSteps(step, Nat, Nat)
  BY DEF AreSteps
<1>2. PICK g : IsRun(g, Nat, 1, step, Nat)
  <2>1. 1 \in Nat
    OBVIOUS
  <2> HIDE DEF step
  <2> QED
    BY <1>1, <2>1, RunForEver
<1>3. g \in [Nat -> Nat] /\ g[0] = 1 /\ \A i \in Nat \ {0} : g[i] = base * g[i - 1]
  <2>1. ASSUME NEW i \in Nat \ {0}, NEW v \in Nat PROVE step[i][v] = base * v
    OBVIOUS
  <2> HIDE DEF step
  <2>2. g \in [Nat -> Nat] /\ g[0] = 1 /\ \A i \in Nat \ {0} : g[i] = step[i][g[i - 1]]
    BY <1>2 DEF IsRun
  <2>3. \A i \in Nat \ {0} : g[i - 1] \in Nat
    BY <2>2
  <2>4. \A i \in Nat \ {0} : g[i] = base * g[i - 1]
    BY <2>1, <2>2, <2>3, Zenon
  <2> QED
    BY <2>2, <2>4
<1>4. Eqn(g)
  BY <1>3
<1>5. Eqn(power)
  <2> HIDE DEF Eqn
  <2> QED
    BY <1>4
<1>6. \A n \in Nat : Power(base, n) = power[n]
  BY DEF Power
<1> HIDE DEF power
<1>7. power[0] = 1 /\ \A n \in Nat : power[n + 1] = base * power[n]
  BY <1>5
<1>8. \A n \in Nat : power[n] \in Nat
  <2> DEFINE Good == {n \in Nat : power[n] \in Nat}
  <2>1. 0 \in Good /\ \A n \in Nat : n \in Good => n + 1 \in Good
    BY <1>7
  <2> HIDE DEF Good
  <2>2. \A n \in Nat : n \in Good
    BY <2>1, UpToEvery
  <2> QED
    BY <2>2 DEF Good
<1> QED
  BY <1>6, <1>7, <1>8

\* The product of the shares, symbol by symbol.
ShareSteps(m) == [i \in 1 .. Len(m) |-> [v \in Nat |-> v * Share(m[i])]]

LEMMA ShareNat ==
  ASSUME NEW symbol \in Symbols
  PROVE  Share(symbol) \in Nat /\ Share(symbol) >= 1
<1>1. Total \in Nat /\ symbol.freq1 \in 1 .. Total - 1
  BY CoderAssumption, SMT DEF Symbols, Frequencies
<1> QED
  BY <1>1, SMT DEF Share

LEMMA ShareStepsOf ==
  ASSUME NEW m \in Seq(Symbols)
  PROVE  /\ AreSteps(ShareSteps(m), Nat, 0 .. Len(m))
         /\ \A i \in 1 .. Len(m), v \in Nat : ShareSteps(m)[i][v] = v * Share(m[i])
<1>1. \A i \in 1 .. Len(m) : Share(m[i]) \in Nat
  BY ShareNat
<1>2. \A i \in 1 .. Len(m) : ShareSteps(m)[i] = [v \in Nat |-> v * Share(m[i])]
  BY DEF ShareSteps
<1>3. \A i \in 1 .. Len(m), v \in Nat : v * Share(m[i]) \in Nat
  BY <1>1
<1>4. \A i \in 1 .. Len(m) : ShareSteps(m)[i] \in [Nat -> Nat]
  BY <1>2, <1>3
<1>5. (0 .. Len(m)) \ {0} = 1 .. Len(m)
  OBVIOUS
<1> QED
  BY <1>2, <1>4, <1>5 DEF AreSteps

LEMMA SharesRun ==
  ASSUME NEW m \in Seq(Symbols)
  PROVE  \E g : IsRun(g, Nat, 1, ShareSteps(m), 0 .. Len(m)) /\ Shares(m) = g[Len(m)]
<1> DEFINE Eqn(p) == p = [n \in 0 .. Len(m) |-> IF n = 0 THEN 1 ELSE p[n - 1] * Share(m[n])]
           shares == CHOOSE p : Eqn(p)
<1>1. Len(m) \in Nat /\ 1 \in Nat
  OBVIOUS
<1>2. PICK g : IsRun(g, Nat, 1, ShareSteps(m), 0 .. Len(m))
  BY <1>1, ShareStepsOf, RunToBound
<1>3. /\ g \in [0 .. Len(m) -> Nat] /\ g[0] = 1
      /\ \A i \in 1 .. Len(m) : g[i] = ShareSteps(m)[i][g[i - 1]]
  BY <1>2 DEF IsRun
<1>4. \A i \in 1 .. Len(m) : g[i - 1] \in Nat
  BY <1>3
<1>5. \A i \in 1 .. Len(m) : g[i] = g[i - 1] * Share(m[i])
  BY <1>3, <1>4, ShareStepsOf, Zenon
<1>6. Eqn(g)
  BY <1>3, <1>5
<1>7. Eqn(shares)
  <2> HIDE DEF Eqn
  <2> QED
    BY <1>6
<1>8. Shares(m) = shares[Len(m)]
  BY DEF Shares
<1> HIDE DEF shares
<1>9. shares[0] = 1 /\ \A i \in 1 .. Len(m) : shares[i] = shares[i - 1] * Share(m[i])
  BY <1>1, <1>7
<1>10. \A i \in 0 .. Len(m) : shares[i] = g[i]
  <2> DEFINE Same == {i \in 0 .. Len(m) : shares[i] = g[i]}
  <2>1. 0 \in Same
    BY <1>1, <1>3, <1>9
  <2>2. \A i \in 0 .. Len(m) - 1 : i \in Same => i + 1 \in Same
    <3> TAKE i \in 0 .. Len(m) - 1
    <3>1. i + 1 \in 1 .. Len(m) /\ (i + 1) - 1 = i
      OBVIOUS
    <3>2. shares[i + 1] = shares[i] * Share(m[i + 1]) /\ g[i + 1] = g[i] * Share(m[i + 1])
      BY <1>5, <1>9, <3>1, Zenon
    <3> QED
      BY <3>1, <3>2
  <2> HIDE DEF Same
  <2>3. \A i \in 0 .. Len(m) : i \in Same
    BY <1>1, <2>1, <2>2, UpToBound
  <2> QED
    BY <2>3 DEF Same
<1> QED
  BY <1>1, <1>2, <1>8, <1>10

\* One symbol more multiplies the product by its share.
LEMMA SharesOf ==
  ASSUME NEW m \in Seq(Symbols)
  PROVE  /\ Shares(<<>>) = 1
         /\ Shares(m) \in Nat
         /\ \A symbol \in Symbols : Shares(Append(m, symbol)) = Shares(m) * Share(symbol)
<1>1. Shares(<<>>) = 1
  <2>1. <<>> \in Seq(Symbols) /\ Len(<<>>) = 0
    OBVIOUS
  <2> QED
    BY <2>1, SharesRun DEF IsRun
<1>2. PICK g : IsRun(g, Nat, 1, ShareSteps(m), 0 .. Len(m)) /\ Shares(m) = g[Len(m)]
  BY SharesRun
<1>3. Len(m) \in Nat /\ Len(m) \in 0 .. Len(m) /\ 1 \in Nat
  OBVIOUS
<1>4. Shares(m) \in Nat
  BY <1>2, <1>3 DEF IsRun
<1>5. ASSUME NEW symbol \in Symbols
      PROVE  Shares(Append(m, symbol)) = Shares(m) * Share(symbol)
  <2> DEFINE n == Append(m, symbol)
  <2>1. n \in Seq(Symbols) /\ Len(n) = Len(m) + 1 /\ n[Len(m) + 1] = symbol
        /\ \A i \in 1 .. Len(m) : n[i] = m[i]
    OBVIOUS
  <2> HIDE DEF n
  <2>2. PICK h : IsRun(h, Nat, 1, ShareSteps(n), 0 .. Len(n)) /\ Shares(n) = h[Len(n)]
    BY <2>1, SharesRun
  <2>3. /\ h \in [0 .. Len(m) + 1 -> Nat] /\ h[0] = 1
        /\ \A i \in 1 .. Len(m) + 1 : h[i] = ShareSteps(n)[i][h[i - 1]]
    BY <2>1, <2>2 DEF IsRun
  <2>4. \A i \in 1 .. Len(m) + 1 : h[i - 1] \in Nat
    <3>1. \A i \in 1 .. Len(m) + 1 : i - 1 \in 0 .. Len(m) + 1
      BY <1>3
    <3> QED
      BY <2>3, <3>1
  <2>5. \A i \in 1 .. Len(m) + 1 : h[i] = h[i - 1] * Share(n[i])
    BY <2>1, <2>3, <2>4, ShareStepsOf, Zenon
  <2> DEFINE r == [i \in 0 .. Len(m) |-> h[i]]
  <2>6. IsRun(r, Nat, 1, ShareSteps(m), 0 .. Len(m))
    <3>1. r \in [0 .. Len(m) -> Nat] /\ r[0] = 1
      BY <2>3
    <3>2. ASSUME NEW i \in (0 .. Len(m)) \ {0} PROVE r[i] = ShareSteps(m)[i][r[i - 1]]
      <4>1. i \in 1 .. Len(m) /\ i \in 1 .. Len(m) + 1 /\ i - 1 \in 0 .. Len(m)
        OBVIOUS
      <4>2. h[i] = h[i - 1] * Share(m[i]) /\ h[i - 1] \in Nat
        BY <2>1, <2>4, <2>5, <4>1
      <4>3. ShareSteps(m)[i][h[i - 1]] = h[i - 1] * Share(m[i])
        BY <4>1, <4>2, ShareStepsOf
      <4>4. r[i] = h[i] /\ r[i - 1] = h[i - 1]
        BY <4>1
      <4> QED
        BY <4>2, <4>3, <4>4
    <3> QED
      BY <3>1, <3>2 DEF IsRun
  <2>7. r[Len(m)] = g[Len(m)]
    <3> HIDE DEF r
    <3>1. Len(m) <= Len(m)
      OBVIOUS
    <3>2. \A i \in 0 .. Len(m) : r[i] = g[i]
      BY <1>2, <1>3, <2>6, <3>1, RunUnique
    <3> QED
      BY <1>3, <3>2
  <2>8. h[Len(m)] = Shares(m)
    BY <1>2, <1>3, <2>7
  <2>9. Shares(n) = h[Len(m)] * Share(symbol)
    <3>1. Len(m) + 1 \in 1 .. Len(m) + 1 /\ (Len(m) + 1) - 1 = Len(m)
      OBVIOUS
    <3> QED
      BY <2>1, <2>2, <2>5, <3>1
  <2> QED
    BY <2>8, <2>9 DEF n
<1> QED
  BY <1>1, <1>4, <1>5

-----------------------------------------------------------------------------
(* The rate                                                                *)

\* A factor on both sides.
LEMMA Scaling ==
  ASSUME NEW a \in Nat, NEW b \in Nat, a <= b, NEW c \in Nat
  PROVE  c * a <= c * b
  BY SMT

\* Rounding takes less than one part in quarter / total of a symbol's share.
LEMMA ShareKept ==
  ASSUME NEW w \in Nat, NEW q \in Nat, NEW t \in Nat, t > 0, t <= q, q <= w,
         NEW s \in 1 .. t, NEW v \in Nat, w * s <= t * v + t
  PROVE  (w * s) * (q - t) <= v * (t * q)
<1> DEFINE x == w * s
           y == t * v
<1>1. x \in Nat /\ y \in Nat /\ q - t \in Nat
  OBVIOUS
<1>2. q <= x
  <2>1. w * 1 <= w * s
    BY Scaling
  <2> QED
    BY <2>1, SMT
<1>3. q * t <= x * t
  <2>1. t * q <= t * x
    BY <1>1, <1>2, Scaling
  <2> HIDE DEF x
  <2> QED
    BY <1>1, <2>1, SMT
<1> HIDE DEF x, y
<1>4. x <= y + t
  BY DEF x, y
<1>5. x * q <= y * q + t * q
  <2>1. q * x <= q * (y + t)
    BY <1>1, <1>4, Scaling
  <2> QED
    BY <1>1, <2>1, SMT
<1>6. x * (q - t) = x * q - x * t
  BY <1>1, SMT
<1>7. x * (q - t) <= y * q
  BY <1>1, <1>3, <1>5, <1>6, SMT
<1>8. y * q = v * (t * q)
  BY SMT DEF y
<1> QED
  BY <1>7, <1>8 DEF x

\* The bound after a symbol, from the bound before it.
LEMMA RateOfSymbol ==
  ASSUME NEW a \in Nat, NEW w \in Nat, NEW b \in Nat, a <= w * b,
         NEW s \in Nat, NEW r \in Nat, NEW v \in Nat, NEW u \in Nat, (w * s) * r <= v * u
  PROVE  a * (s * r) <= v * (b * u)
<1>1. (s * r) * a <= (s * r) * (w * b)
  BY Scaling
<1>2. b * ((w * s) * r) <= b * (v * u)
  BY Scaling
<1>3. (s * r) * (w * b) = b * ((w * s) * r)
  BY SMT
<1>4. (s * r) * a = a * (s * r) /\ b * (v * u) = v * (b * u)
  BY SMT
<1> QED
  BY <1>1, <1>2, <1>3, <1>4, SMT

\* A settled interval is wider than a quarter, so that narrowing it loses
\* little.
LEMMA NarrowKeeps ==
  ASSUME TypeOK, Settled, pc = "symbol", NEW symbol \in Symbols,
         Narrow(symbol.bit, symbol.freq1)
  PROVE  /\ Width \in Nat /\ Width' \in Nat
         /\ (Width * Share(symbol)) * (Quarter - Total) <= Width' * (Total * Quarter)
<1> DEFINE f == symbol.freq1
           w == Width
           part == (w * (Total - f)) \div Total
<1>1. /\ Quarter \in Nat /\ Total \in Nat /\ Total > 0 /\ Total <= Quarter
      /\ f \in 1 .. Total - 1 /\ symbol.bit \in {0, 1} /\ f \in Frequencies
  BY CoderAssumption, SMT DEF Symbols, Frequencies
<1>2. w \in Nat /\ Quarter <= w /\ low \in Nat /\ high \in Nat
  BY CoderAssumption, SMT
     DEF TypeOK, Settled, InLower, InUpper, InMiddle, Width, Half, Full
<1>3. part \in Nat /\ part <= w /\ Total * part <= w * (Total - f)
      /\ w * (Total - f) < Total * part + Total
  <2> DEFINE a == w * (Total - f)
  <2>1. a \in Nat
    BY <1>1, <1>2
  <2>2. a \div Total \in Nat /\ Total * (a \div Total) <= a /\ a < Total * (a \div Total) + Total
    <3> HIDE DEF a
    <3> QED
      BY <1>1, <2>1, Quotient
  <2>3. part \in 1 .. w - 1
    <3> HIDE DEF f, w
    <3>1. Total - f \in 1 .. Total - 1 /\ w >= Total
      BY <1>1, <1>2
    <3> QED
      BY <1>1, <1>2, <3>1, ShareInside
  <2> QED
    BY <1>2, <2>2, <2>3
<1>4. Split(f) = low + part - 1
  BY DEF Split
<1> HIDE DEF w, part, f
<1>5. high - low + 1 = w
  BY DEF Width, w
<1>6. CASE symbol.bit = 0
  <2>1. Width' = part
    <3>1. high' = Split(f) /\ low' = low
      BY <1>6 DEF Narrow, f
    <3> QED
      BY <1>2, <1>3, <1>4, <3>1 DEF Width
  <2>2. Share(symbol) = Total - f /\ Total - f \in 1 .. Total
    BY <1>1, <1>6 DEF Share, f
  <2>3. (w * (Total - f)) * (Quarter - Total) <= part * (Total * Quarter)
    <3> DEFINE s == Total - f
    <3>1. s \in 1 .. Total /\ w * s <= Total * part + Total
      BY <1>1, <1>2, <1>3, <2>2
    <3> HIDE DEF s
    <3>2. (w * s) * (Quarter - Total) <= part * (Total * Quarter)
      BY <1>1, <1>2, <1>3, <3>1, ShareKept
    <3> QED
      BY <3>2 DEF s
  <2> QED
    BY <1>2, <1>3, <2>1, <2>2, <2>3 DEF w
<1>7. CASE symbol.bit = 1
  <2> DEFINE v == w - part
  <2>1. Width' = v /\ v \in Nat
    <3>1. low' = Split(f) + 1 /\ high' = high
      BY <1>7 DEF Narrow, f
    <3> QED
      BY <1>2, <1>3, <1>4, <1>5, <3>1 DEF Width
  <2>2. Share(symbol) = f /\ f \in 1 .. Total
    BY <1>1, <1>7 DEF Share, f
  <2>3. w * f <= Total * v + Total
    <3>1. Total * v = Total * w - Total * part
      BY <1>1, <1>2, <1>3
    <3>2. w * (Total - f) = Total * w - w * f
      BY <1>1, <1>2
    <3>3. w * f \in Nat /\ Total * w \in Nat /\ Total * part \in Nat
      BY <1>1, <1>2, <1>3
    <3> QED
      BY <1>1, <1>3, <3>1, <3>2, <3>3
  <2> HIDE DEF v
  <2>4. (w * f) * (Quarter - Total) <= v * (Total * Quarter)
    BY <1>1, <1>2, <2>1, <2>2, <2>3, ShareKept
  <2> QED
    BY <1>2, <2>1, <2>2, <2>4 DEF w
<1> QED
  BY <1>1, <1>6, <1>7

\* The cost and the share of the message, in the terms of the bound.
Bits == Power(2, Len(output) + pending)
Lost(n) == Power(Quarter - Total, n)
Scale(n) == Power(Total, n) * Power(Quarter, n)

LEMMA RateTerms ==
  ASSUME TypeOK
  PROVE  /\ Len(message) \in Nat /\ Full \in Nat /\ Width \in Nat
         /\ Bits \in Nat /\ Shares(message) \in Nat
         /\ \A n \in Nat : /\ Lost(n) \in Nat /\ Lost(n + 1) = Lost(n) * (Quarter - Total)
                           /\ Scale(n) \in Nat /\ Scale(n + 1) = Scale(n) * (Total * Quarter)
<1>1. Quarter \in Nat /\ Total \in Nat /\ Quarter - Total \in Nat /\ 2 \in Nat
  BY CoderAssumption, SMT
<1>2. message \in Seq(Symbols) /\ Len(message) \in Nat /\ Len(output) + pending \in Nat
  BY SMT DEF TypeOK
<1>3. Full \in Nat /\ Width \in Nat
  BY CoderAssumption, SMT DEF TypeOK, Full, Width
<1>4. Bits \in Nat
  BY <1>1, <1>2, PowerOf DEF Bits
<1>5. Shares(message) \in Nat
  BY <1>2, SharesOf
<1>6. ASSUME NEW n \in Nat
      PROVE  Lost(n) \in Nat /\ Lost(n + 1) = Lost(n) * (Quarter - Total)
  <2> DEFINE r == Quarter - Total
  <2>1. r \in Nat
    BY <1>1
  <2> HIDE DEF r
  <2>2. Power(r, n) \in Nat /\ Power(r, n + 1) = r * Power(r, n)
    BY <2>1, PowerOf
  <2>3. r * Power(r, n) = Power(r, n) * r
    BY <2>1, <2>2, SMT
  <2> QED
    BY <2>2, <2>3 DEF Lost, r
<1>7. ASSUME NEW n \in Nat
      PROVE  Scale(n) \in Nat /\ Scale(n + 1) = Scale(n) * (Total * Quarter)
  <2>1. /\ Power(Total, n) \in Nat /\ Power(Total, n + 1) = Total * Power(Total, n)
        /\ Power(Quarter, n) \in Nat /\ Power(Quarter, n + 1) = Quarter * Power(Quarter, n)
    BY <1>1, PowerOf
  <2> QED
    BY <1>1, <2>1, SMT DEF Scale
<1> QED
  BY <1>2, <1>3, <1>4, <1>5, <1>6, <1>7

\* The bound in these terms.
Rate ==
  who = "encoder" /\ pc # "flushed" =>
    ((Full * Bits) * Shares(message)) * Lost(Len(message)) <= Width * Scale(Len(message))

LEMMA RateIsBound ==
  ASSUME TypeOK, Rate
  PROVE  RateBound
<1> DEFINE n == Len(message)
<1>1. n \in Nat /\ Quarter \in Nat /\ Total \in Nat /\ Width \in Nat
  BY RateTerms, CoderAssumption, SMT
<1>2. Power(Total, n) \in Nat /\ Power(Quarter, n) \in Nat
  BY <1>1, PowerOf
<1>3. Width * Scale(n) = (Width * Power(Total, n)) * Power(Quarter, n)
  <2> HIDE DEF n
  <2> QED
    BY <1>1, <1>2, SMT DEF Scale
<1> QED
  BY <1>3 DEF Rate, RateBound, Bits, Lost

\* An encoder is never at the decoder's first word.
EncoderReadsNothing == who = "encoder" => pc # "priming"

RateInv == Inv /\ EncoderReadsNothing /\ Rate

LEMMA EmittedLength ==
  ASSUME TypeOK, NEW bit \in {0, 1}, NEW opposites \in Nat, Emit(bit, opposites)
  PROVE  Len(output') = Len(output) + 1 + opposites
<1>1. Append(output, bit) \in Seq({0, 1}) /\ Len(Append(output, bit)) = Len(output) + 1
  BY SMT DEF TypeOK
<1>2. 1 - bit \in {0, 1}
  BY SMT
<1>3. [i \in 1 .. opposites |-> 1 - bit] \in Seq({0, 1})
      /\ Len([i \in 1 .. opposites |-> 1 - bit]) = opposites
  BY <1>2, SMT
<1> QED
  BY <1>1, <1>3, SMT DEF Emit

LEMMA RateEncodeSymbol ==
  ASSUME RateInv, NEW symbol \in Symbols, EncodeSymbol(symbol)
  PROVE  Rate'
<1> DEFINE n == Len(message)
           a == ((Full * Bits) * Shares(message)) * Lost(n)
           s == Share(symbol)
           r == Quarter - Total
           u == Total * Quarter
<1>1. TypeOK /\ Settled /\ pc = "symbol" /\ who = "encoder" /\ message \in Seq(Symbols)
      /\ Narrow(symbol.bit, symbol.freq1) /\ message' = Append(message, symbol)
      /\ UNCHANGED <<output, pending>>
  BY DEF RateInv, Inv, TypeOK, EncodeSymbol
<1>2. /\ n \in Nat /\ Full \in Nat /\ Bits \in Nat /\ Shares(message) \in Nat
      /\ Lost(n) \in Nat /\ Lost(n + 1) = Lost(n) * r
      /\ Scale(n) \in Nat /\ Scale(n + 1) = Scale(n) * u
  BY <1>1, RateTerms
<1>3. a <= Width * Scale(n)
  BY <1>1 DEF RateInv, Rate
<1>4. /\ Width \in Nat /\ Width' \in Nat
      /\ (Width * s) * r <= Width' * u
  BY <1>1, NarrowKeeps
<1>5. s \in Nat /\ r \in Nat /\ u \in Nat
  BY ShareNat, CoderAssumption, SMT
<1>6. a \in Nat
  <2> HIDE DEF n
  <2> QED
    BY <1>2, SMT
<1>7. a * (s * r) <= Width' * (Scale(n) * u)
  <2> HIDE DEF a, s, r, u, n
  <2> QED
    BY <1>2, <1>3, <1>4, <1>5, <1>6, RateOfSymbol
<1>8. Bits' = Bits /\ Len(message') = n + 1 /\ Shares(message') = Shares(message) * s
  BY <1>1, SharesOf, SMT DEF Bits
<1>9. a * (s * r) = ((Full * Bits) * (Shares(message) * s)) * (Lost(n) * r)
  <2> HIDE DEF s, r, u, n
  <2> QED
    BY <1>2, <1>5, SMT
<1>10. Width' * Scale(Len(message')) = Width' * (Scale(n) * u)
  BY <1>2, <1>8
<1>11. ((Full * Bits') * Shares(message')) * Lost(Len(message'))
         = ((Full * Bits) * (Shares(message) * s)) * (Lost(n) * r)
  BY <1>2, <1>8
<1> HIDE DEF a, s, r, u, n
<1> QED
  BY <1>7, <1>9, <1>10, <1>11 DEF Rate

\* A shift doubles the interval and adds one to the bits emitted or pending.
LEMMA RateEncoderShifts ==
  ASSUME RateInv, EncoderShifts
  PROVE  Rate'
<1>1. TypeOK /\ pc = "shifting" /\ who = "encoder" /\ message' = message /\ pending \in Nat
      /\ output \in Seq({0, 1})
  BY DEF RateInv, Inv, TypeOK, EncoderShifts
<1>2. Width' = 2 * Width
  <2>1. PICK offset \in {0, Half, Quarter} :
          /\ \/ InLower /\ offset = 0
             \/ InUpper /\ offset = Half
             \/ InMiddle /\ offset = Quarter
          /\ Shift(offset)
    BY DEF EncoderShifts
  <2>2. low' = 2 * (low - offset) /\ high' = 2 * (high - offset) + 1
    BY <1>1, <2>1, ShiftInside
  <2>3. low \in Int /\ high \in Int /\ offset \in Int
    BY <1>1, CoderAssumption, SMT DEF TypeOK, Full, Half
  <2> QED
    BY <2>2, <2>3, SMT DEF Width
<1>3. Len(output') + pending' = (Len(output) + pending) + 1
  <2>1. CASE Emit(0, pending) /\ pending' = 0
    BY <1>1, <2>1, EmittedLength, SMT
  <2>2. CASE Emit(1, pending) /\ pending' = 0
    BY <1>1, <2>2, EmittedLength, SMT
  <2>3. CASE pending' = pending + 1 /\ UNCHANGED output
    BY <1>1, <2>3, SMT
  <2> QED
    BY <2>1, <2>2, <2>3 DEF EncoderShifts
<1>4. Bits' = 2 * Bits
  <2>1. Len(output) + pending \in Nat /\ 2 \in Nat
    BY <1>1, SMT
  <2> QED
    BY <1>3, <2>1, PowerOf DEF Bits
<1> DEFINE c == Shares(message)
           l == Lost(Len(message))
           d == Scale(Len(message))
<1>5. Full \in Nat /\ Bits \in Nat /\ c \in Nat /\ l \in Nat /\ d \in Nat /\ Width \in Nat
  BY <1>1, RateTerms
<1>6. ((Full * Bits) * c) * l <= Width * d
  BY <1>1 DEF RateInv, Rate
<1> HIDE DEF c, l, d
<1>7. ((Full * (2 * Bits)) * c) * l = 2 * (((Full * Bits) * c) * l)
  BY <1>5, SMT
<1>8. (2 * Width) * d = 2 * (Width * d)
  BY <1>5, SMT
<1>9. ((Full * Bits) * c) * l \in Nat /\ Width * d \in Nat
  BY <1>5, SMT
<1>10. ((Full * (2 * Bits)) * c) * l <= (2 * Width) * d
  BY <1>6, <1>7, <1>8, <1>9, SMT
<1> QED
  BY <1>1, <1>2, <1>4, <1>10 DEF Rate, c, l, d

LEMMA RateInit ==
  ASSUME Init
  PROVE  RateInv
<1>1. Inv /\ EncoderReadsNothing
  BY InvInit DEF Init, EncoderReadsNothing
<1>2. Bits = 1 /\ Shares(message) = 1 /\ Lost(Len(message)) = 1 /\ Scale(Len(message)) = 1
  <2>1. output = <<>> /\ message = <<>> /\ pending = 0 /\ <<>> \in Seq(Symbols)
    BY SMT DEF Init
  <2>2. Len(output) + pending = 0 /\ Len(message) = 0
    BY <2>1, SMT
  <2>3. Quarter \in Nat /\ Total \in Nat /\ Quarter - Total \in Nat /\ 2 \in Nat
    BY CoderAssumption, SMT
  <2>4. Power(2, 0) = 1 /\ Power(Quarter, 0) = 1 /\ Power(Total, 0) = 1
        /\ Power(Quarter - Total, 0) = 1
    BY <2>3, PowerOf
  <2>5. Shares(<<>>) = 1
    BY <2>1, SharesOf
  <2>6. Bits = 1 /\ Lost(Len(message)) = 1
    BY <2>2, <2>4 DEF Bits, Lost
  <2>7. Scale(Len(message)) = 1
    BY <2>2, <2>4, SMT DEF Scale
  <2> QED
    BY <2>1, <2>5, <2>6, <2>7
<1>3. Width = Full /\ Full \in Nat
  BY CoderAssumption, SMT DEF Init, Width, Full
<1> QED
  BY <1>1, <1>2, <1>3, SMT DEF RateInv, Rate

LEMMA RateNext ==
  ASSUME RateInv, [Next]_vars
  PROVE  RateInv'
<1>1. Inv'
  BY InvNext DEF RateInv
<1>2. EncoderReadsNothing'
  BY DEF RateInv, EncoderReadsNothing, Next, EncodeSymbol, EncoderShifts, Flush, StartDecoding,
         Prime, DecodeSymbol, DecoderShifts, Settle, vars
<1>3. ASSUME NEW symbol \in Symbols, EncodeSymbol(symbol)
      PROVE  Rate'
  BY <1>3, RateEncodeSymbol
<1>4. ASSUME Flush
      PROVE  Rate'
  <2>1. pc' = "flushed"
    BY <1>4 DEF Flush
  <2> QED
    BY <2>1, Zenon DEF Rate
<1>5. ASSUME StartDecoding \/ Prime \/ DecodeSymbol \/ DecoderShifts
      PROVE  Rate'
  <2>1. who' # "encoder"
    BY <1>5 DEF RateInv, EncoderReadsNothing, StartDecoding, Prime, DecodeSymbol, DecoderShifts
  <2> QED
    BY <2>1, Zenon DEF Rate
<1>6. ASSUME Settle \/ UNCHANGED vars
      PROVE  Rate'
  <2>1. UNCHANGED <<who, low, high, message, output, pending>>
        /\ (pc' # "flushed" => pc # "flushed")
    BY <1>6 DEF Settle, vars, interval, encoder
  <2>2. Bits' = Bits /\ Width' = Width
    BY <2>1 DEF Bits, Width
  <2> QED
    BY <2>1, <2>2, Zenon DEF RateInv, Rate
<1>7. Rate'
  BY <1>3, <1>4, <1>5, <1>6, RateEncoderShifts DEF Next
<1> QED
  BY <1>1, <1>2, <1>7 DEF RateInv

-----------------------------------------------------------------------------
(* The value of a payload                                                  *)

\* What the bits of a payload, and the zeros behind it, amount to so far.
BitAt(bits, j) == IF j <= Len(bits) THEN bits[j] ELSE 0
IsValue(val, bits) ==
  /\ val \in [Nat -> Nat]
  /\ val[0] = 0
  /\ \A j \in Nat : val[j + 1] = 2 * val[j] + BitAt(bits, j + 1)
Value(bits) == CHOOSE val : IsValue(val, bits)

LEMMA BitAtIsBit ==
  ASSUME NEW bits \in Seq({0, 1}), NEW j \in Nat \ {0}
  PROVE  BitAt(bits, j) \in {0, 1}
<1>1. CASE j <= Len(bits)
  <2>1. j \in 1 .. Len(bits)
    BY <1>1
  <2> QED
    BY <1>1, <2>1 DEF BitAt
<1>2. CASE ~(j <= Len(bits))
  BY <1>2 DEF BitAt
<1> QED
  BY <1>1, <1>2

LEMMA ValueOf ==
  ASSUME NEW bits \in Seq({0, 1})
  PROVE  IsValue(Value(bits), bits)
<1> DEFINE step == [i \in Nat \ {0} |-> [v \in Nat |-> 2 * v + BitAt(bits, i)]]
<1>1. \A i \in Nat \ {0} : BitAt(bits, i) \in Nat
  BY BitAtIsBit
<1>2. ASSUME NEW i \in Nat \ {0}, NEW v \in Nat
      PROVE  2 * v + BitAt(bits, i) \in Nat /\ step[i][v] = 2 * v + BitAt(bits, i)
  BY <1>1
<1>3. \A i \in Nat \ {0} : step[i] = [v \in Nat |-> 2 * v + BitAt(bits, i)]
  OBVIOUS
<1>4. \A i \in Nat \ {0} : step[i] \in [Nat -> Nat]
  <2> HIDE DEF step
  <2> QED
    BY <1>2, <1>3
<1> HIDE DEF step
<1>5. AreSteps(step, Nat, Nat) /\ 0 \in Nat
  BY <1>4 DEF AreSteps
<1>6. PICK g : IsRun(g, Nat, 0, step, Nat)
  BY <1>5, RunForEver
<1>7. g \in [Nat -> Nat] /\ g[0] = 0 /\ \A i \in Nat \ {0} : g[i] = step[i][g[i - 1]]
  BY <1>6 DEF IsRun
<1>8. ASSUME NEW j \in Nat PROVE g[j + 1] = 2 * g[j] + BitAt(bits, j + 1)
  <2>1. j + 1 \in Nat \ {0} /\ (j + 1) - 1 = j /\ g[j] \in Nat
    BY <1>7
  <2>2. g[j + 1] = step[j + 1][g[j]]
    BY <1>7, <2>1
  <2> QED
    BY <1>2, <2>1, <2>2
<1>9. IsValue(g, bits)
  BY <1>7, <1>8 DEF IsValue
<1> QED
  BY <1>9 DEF Value

\* Two payloads have the same value as long as their bits are the same.
LEMMA ValueSame ==
  ASSUME NEW one \in Seq({0, 1}), NEW two \in Seq({0, 1}), NEW n \in Nat,
         \A j \in 1 .. n : BitAt(one, j) = BitAt(two, j)
  PROVE  Value(one)[n] = Value(two)[n]
<1> DEFINE Same == {j \in 0 .. n : Value(one)[j] = Value(two)[j]}
<1>1. IsValue(Value(one), one) /\ IsValue(Value(two), two)
  BY ValueOf
<1>2. 0 \in Same
  BY <1>1 DEF IsValue
<1>3. ASSUME NEW j \in 0 .. n - 1, j \in Same
      PROVE  j + 1 \in Same
  <2>1. j + 1 \in 1 .. n /\ j \in Nat
    OBVIOUS
  <2>2. /\ Value(one)[j + 1] = 2 * Value(one)[j] + BitAt(one, j + 1)
        /\ Value(two)[j + 1] = 2 * Value(two)[j] + BitAt(two, j + 1)
    BY <1>1, <2>1 DEF IsValue
  <2> QED
    BY <1>3, <2>1, <2>2
<1>4. \A j \in 0 .. n : j \in Same
  <2> HIDE DEF Same
  <2> QED
    BY <1>2, <1>3, UpToBound
<1> QED
  BY <1>4

\* Twice as many are the next power's.
LEMMA Two ==
  /\ Power(2, 0) = 1
  /\ \A n \in Nat : /\ Power(2, n) \in Nat /\ Power(2, n) >= 1
                    /\ Power(2, n + 1) = 2 * Power(2, n)
<1>1. 2 \in Nat
  OBVIOUS
<1>2. Power(2, 0) = 1 /\ \A n \in Nat : Power(2, n) \in Nat /\ Power(2, n + 1) = 2 * Power(2, n)
  BY <1>1, PowerOf
<1> DEFINE Good == {n \in Nat : Power(2, n) >= 1}
<1>3. 0 \in Good /\ \A n \in Nat : n \in Good => n + 1 \in Good
  BY <1>2
<1>4. \A n \in Nat : n \in Good
  <2> HIDE DEF Good
  <2> QED
    BY <1>3, UpToEvery
<1> QED
  BY <1>2, <1>4

\* The first bits of a payload bound what it amounts to later.
LEMMA ValueLater ==
  ASSUME NEW bits \in Seq({0, 1}), NEW n \in Nat, NEW i \in Nat
  PROVE  /\ Value(bits)[n] \in Nat /\ Value(bits)[n + i] \in Nat
         /\ Value(bits)[n] * Power(2, i) <= Value(bits)[n + i]
         /\ Value(bits)[n + i] < (Value(bits)[n] + 1) * Power(2, i)
<1> DEFINE v == Value(bits)
           Bounded(k) == /\ v[n] * Power(2, k) <= v[n + k]
                         /\ v[n + k] < (v[n] + 1) * Power(2, k)
           Good == {k \in Nat : Bounded(k)}
<1>0. v \in [Nat -> Nat]
  BY ValueOf DEF IsValue
<1>1. \A j \in Nat : v[j + 1] = 2 * v[j] + BitAt(bits, j + 1)
  BY ValueOf DEF IsValue
<1> HIDE DEF v
<1>2. 0 \in Good
  <2>1. v[n] \in Nat /\ v[n + 0] = v[n]
    BY <1>0
  <2>2. Power(2, 0) = 1
    BY Two
  <2>3. Bounded(0)
    BY <2>1, <2>2
  <2> QED
    BY <2>3
<1>3. ASSUME NEW k \in Nat, k \in Good
      PROVE  k + 1 \in Good
  <2> DEFINE a == v[n]
             b == v[n + k]
             w == Power(2, k)
             bit == BitAt(bits, n + k + 1)
  <2>1. a \in Nat /\ b \in Nat /\ w \in Nat /\ bit \in {0, 1}
    <3>1. n + k \in Nat /\ n + k + 1 \in Nat \ {0}
      OBVIOUS
    <3>2. bit \in {0, 1}
      BY <3>1, BitAtIsBit
    <3> HIDE DEF bit
    <3> QED
      BY <1>0, <3>1, <3>2, Two
  <2>2. v[n + (k + 1)] = 2 * b + bit
    BY <1>1
  <2>3. Power(2, k + 1) = 2 * w
    BY Two
  <2>4. a * w <= b /\ b < (a + 1) * w
    BY <1>3
  <2> HIDE DEF a, b, w, bit
  <2>5. a * (2 * w) = 2 * (a * w) /\ (a + 1) * (2 * w) = 2 * ((a + 1) * w)
        /\ a * w \in Nat /\ (a + 1) * w \in Nat
    BY <2>1, SMT
  <2>6. a * (2 * w) <= 2 * b + bit /\ 2 * b + bit < (a + 1) * (2 * w)
    BY <2>1, <2>4, <2>5, SMT
  <2> QED
    BY <2>2, <2>3, <2>6 DEF a
<1>4. \A k \in Nat : k \in Good
  <2> HIDE DEF Good
  <2> QED
    BY <1>2, <1>3, UpToEvery
<1>5. Bounded(i)
  <2>1. i \in Good
    BY <1>4
  <2> QED
    BY <2>1
<1>6. v[n] \in Nat /\ v[n + i] \in Nat
  BY <1>0
<1> QED
  BY <1>5, <1>6 DEF v

\* Nothing but zeros is read behind a payload.
LEMMA ZerosFollow ==
  ASSUME NEW bits \in Seq({0, 1}), NEW i \in Nat
  PROVE  Value(bits)[Len(bits) + i] = Value(bits)[Len(bits)] * Power(2, i)
<1> DEFINE v == Value(bits)
           n == Len(bits)
           Good == {k \in Nat : v[n + k] = v[n] * Power(2, k)}
<1>0. v \in [Nat -> Nat] /\ n \in Nat
  <2>1. v \in [Nat -> Nat]
    BY ValueOf DEF IsValue
  <2>2. n \in Nat
    BY SMT
  <2> QED
    BY <2>1, <2>2
<1>1. \A j \in Nat : v[j + 1] = 2 * v[j] + BitAt(bits, j + 1)
  BY ValueOf DEF IsValue
<1>2. \A k \in Nat : BitAt(bits, n + k + 1) = 0
  BY DEF BitAt
<1> HIDE DEF v, n
<1>3. 0 \in Good
  <2>1. v[n] \in Nat /\ v[n + 0] = v[n]
    BY <1>0
  <2>2. Power(2, 0) = 1
    BY Two
  <2>3. v[n + 0] = v[n] * Power(2, 0)
    BY <2>1, <2>2
  <2> QED
    BY <2>3
<1>4. ASSUME NEW k \in Nat, k \in Good
      PROVE  k + 1 \in Good
  <2> DEFINE a == v[n]
             b == v[n + k]
             w == Power(2, k)
  <2>1. a \in Nat /\ b \in Nat /\ n + k \in Nat
    BY <1>0
  <2>2. v[n + (k + 1)] = 2 * b + 0
    <3>1. (n + k) + 1 = n + (k + 1)
      BY <1>0
    <3>2. v[(n + k) + 1] = 2 * v[n + k] + BitAt(bits, (n + k) + 1)
      BY <1>1, <2>1
    <3> QED
      BY <1>2, <3>1, <3>2
  <2>9. w \in Nat
    BY Two
  <2>3. Power(2, k + 1) = 2 * w
    BY Two
  <2>4. b = a * w
    BY <1>4
  <2> HIDE DEF a, b, w
  <2>5. 2 * b + 0 = a * (2 * w)
    BY <2>1, <2>4, <2>9, SMT
  <2> QED
    BY <2>2, <2>3, <2>5 DEF a
<1>5. \A k \in Nat : k \in Good
  <2> HIDE DEF Good
  <2> QED
    BY <1>3, <1>4, UpToEvery
<1> QED
  BY <1>5 DEF v, n

\* What a bit and the opposite bits that were pending add to a payload.
Extended(bits, bit, opposites) == Append(bits, bit) \o [i \in 1 .. opposites |-> 1 - bit]

LEMMA JoinedBits ==
  ASSUME NEW one \in Seq({0, 1}), NEW two \in Seq({0, 1})
  PROVE  one \o two \in Seq({0, 1}) /\ Len(one \o two) = Len(one) + Len(two)
  BY SMT

LEMMA ExtendedBits ==
  ASSUME NEW bits \in Seq({0, 1}), NEW bit \in {0, 1}, NEW opposites \in Nat
  PROVE  /\ Extended(bits, bit, opposites) \in Seq({0, 1})
         /\ Len(Extended(bits, bit, opposites)) = Len(bits) + 1 + opposites
         /\ \A j \in 1 .. Len(bits) : BitAt(Extended(bits, bit, opposites), j) = BitAt(bits, j)
         /\ BitAt(Extended(bits, bit, opposites), Len(bits) + 1) = bit
         /\ \A i \in 1 .. opposites :
              BitAt(Extended(bits, bit, opposites), Len(bits) + 1 + i) = 1 - bit
<1> DEFINE one == Append(bits, bit)
           two == [i \in 1 .. opposites |-> 1 - bit]
           all == Extended(bits, bit, opposites)
<1>1. /\ one \in Seq({0, 1}) /\ Len(one) = Len(bits) + 1
      /\ \A j \in 1 .. Len(bits) : one[j] = bits[j]
      /\ one[Len(bits) + 1] = bit
  BY SMT
<1>2. 1 - bit \in {0, 1}
  BY SMT
<1>3. two \in Seq({0, 1}) /\ Len(two) = opposites /\ \A i \in 1 .. opposites : two[i] = 1 - bit
  BY <1>2, SMT
<1>4. all = one \o two
  BY DEF Extended
<1> HIDE DEF one, two, all
<1>5. all \in Seq({0, 1}) /\ Len(all) = Len(bits) + 1 + opposites
  <2>1. all \in Seq({0, 1}) /\ Len(all) = Len(one) + Len(two)
    BY <1>1, <1>3, <1>4, JoinedBits
  <2>2. Len(bits) \in Nat
    BY SMT
  <2> QED
    BY <1>1, <1>3, <2>1, <2>2
<1>6. ASSUME NEW j \in 1 .. Len(bits)
      PROVE  all[j] = bits[j]
  <2>1. j \in 1 .. Len(one) + Len(two) /\ j <= Len(one)
    BY <1>1, <1>3, SMT
  <2> QED
    BY <1>1, <1>3, <1>4, <2>1, SMT
<1>7. all[Len(bits) + 1] = bit
  BY <1>1, <1>3, <1>4, SMT
<1>8. ASSUME NEW i \in 1 .. opposites
      PROVE  all[Len(bits) + 1 + i] = 1 - bit
  <2> DEFINE j == Len(bits) + 1 + i
  <2>1. j \in 1 .. Len(one) + Len(two) /\ ~(j <= Len(one)) /\ j - Len(one) = i
    BY <1>1, <1>3, SMT
  <2> HIDE DEF j
  <2>2. all[j] = two[i]
    BY <1>1, <1>3, <1>4, <2>1, SMT
  <2> QED
    BY <1>3, <2>2 DEF j
<1>9. \A j \in 1 .. Len(bits) : BitAt(all, j) = BitAt(bits, j)
  BY <1>5, <1>6, SMT DEF BitAt
<1>10. BitAt(all, Len(bits) + 1) = bit
  BY <1>5, <1>7, SMT DEF BitAt
<1>11. \A i \in 1 .. opposites : BitAt(all, Len(bits) + 1 + i) = 1 - bit
  <2>1. Len(bits) \in Nat
    BY SMT
  <2> TAKE i \in 1 .. opposites
  <2>2. Len(bits) + 1 + i <= Len(all)
    BY <1>5, <2>1
  <2> QED
    BY <1>8, <2>2 DEF BitAt
<1> QED
  BY <1>5, <1>9, <1>10, <1>11 DEF all

LEMMA ValueExtended ==
  ASSUME NEW bits \in Seq({0, 1}), NEW bit \in {0, 1}, NEW opposites \in Nat
  PROVE  Value(Extended(bits, bit, opposites))[Len(bits) + 1 + opposites]
           = (2 * Value(bits)[Len(bits)] + bit) * Power(2, opposites)
             + (1 - bit) * (Power(2, opposites) - 1)
<1> DEFINE all == Extended(bits, bit, opposites)
           v == Value(all)
           n == Len(bits)
           a == 2 * Value(bits)[n] + bit
           Sum(i) == a * Power(2, i) + (1 - bit) * (Power(2, i) - 1)
           Good == {i \in 0 .. opposites : v[n + 1 + i] = Sum(i)}
<1>0. all \in Seq({0, 1}) /\ n \in Nat
  <2>1. all \in Seq({0, 1})
    BY ExtendedBits
  <2>2. n \in Nat
    BY SMT
  <2> QED
    BY <2>1, <2>2
<1>1. v \in [Nat -> Nat] /\ \A j \in Nat : v[j + 1] = 2 * v[j] + BitAt(all, j + 1)
  BY <1>0, ValueOf DEF IsValue
<1>2. v[n] = Value(bits)[n] /\ Value(bits)[n] \in Nat
  <2>1. \A j \in 1 .. n : BitAt(all, j) = BitAt(bits, j)
    BY ExtendedBits
  <2>2. Value(bits) \in [Nat -> Nat]
    BY ValueOf DEF IsValue
  <2> HIDE DEF all
  <2> QED
    BY <1>0, <2>1, <2>2, ValueSame
<1>3. BitAt(all, n + 1) = bit /\ \A i \in 1 .. opposites : BitAt(all, n + 1 + i) = 1 - bit
  BY ExtendedBits
<1> HIDE DEF all, v
<1>4. v[n + 1] = a
  BY <1>0, <1>1, <1>2, <1>3
<1>5. a \in Nat
  BY <1>2
<1> HIDE DEF n, a
<1>6. 0 \in Good
  <2>1. n + 1 + 0 = n + 1
    BY <1>0
  <2>2. Sum(0) = a
    BY <1>5, Two
  <2> QED
    BY <1>4, <2>1, <2>2
<1>7. ASSUME NEW i \in 0 .. opposites - 1, i \in Good
      PROVE  i + 1 \in Good
  <2> DEFINE w == Power(2, i)
             b == v[n + 1 + i]
  <2>1. w \in Nat /\ Power(2, i + 1) = 2 * w
    <3>1. i \in Nat
      OBVIOUS
    <3> QED
      BY <3>1, Two
  <2>2. v[n + 1 + (i + 1)] = 2 * b + (1 - bit)
    <3>1. n + 1 + i \in Nat /\ i + 1 \in 1 .. opposites /\ (n + 1 + i) + 1 = n + 1 + (i + 1)
      BY <1>0
    <3> QED
      BY <1>1, <1>3, <3>1
  <2>3. b = a * w + (1 - bit) * (w - 1)
    BY <1>7
  <2> HIDE DEF w, b
  <2>4. 2 * b + (1 - bit) = a * (2 * w) + (1 - bit) * (2 * w - 1)
    BY <1>5, <2>1, <2>3, SMT
  <2>5. i + 1 \in 0 .. opposites
    OBVIOUS
  <2> QED
    BY <2>1, <2>2, <2>4, <2>5
<1>8. \A i \in 0 .. opposites : i \in Good
  <2> HIDE DEF Good
  <2> QED
    BY <1>6, <1>7, UpToBound
<1>9. opposites \in Good
  BY <1>8
<1> QED
  BY <1>9 DEF a, n, v, all

-----------------------------------------------------------------------------
(* The trail of the encoder                                                *)

\* The interval after each step, in order: the bits shifted out are counted
\* and their worth added up, so that an interval is one of whole numbers.
Marks ==
  [low : Nat, high : Nat, done : Nat, base : Nat, shifts : Nat, pc : {"symbol", "shifting"}]

Share0(x, freq1) == x.low + (((x.high - x.low + 1) * (Total - freq1)) \div Total) - 1

SymbolMark(m, x, y) ==
  /\ x.pc = "symbol" /\ y.pc = "shifting"
  /\ x.done < Len(m) /\ y.done = x.done + 1
  /\ LET next == m[x.done + 1]
     IN  /\ next.bit = 0 => y.low = x.low /\ y.high = Share0(x, next.freq1)
         /\ next.bit = 1 => y.low = Share0(x, next.freq1) + 1 /\ y.high = x.high
  /\ y.base = x.base /\ y.shifts = x.shifts

Leads(x, offset) ==
  \/ x.high < Half /\ offset = 0
  \/ x.low >= Half /\ offset = Half
  \/ /\ ~(x.high < Half) /\ ~(x.low >= Half)
     /\ x.low >= Quarter /\ x.high < 3 * Quarter
     /\ offset = Quarter

ShiftMark(x, y, offset) ==
  /\ x.pc = "shifting" /\ y.pc = "shifting"
  /\ Leads(x, offset)
  /\ y.done = x.done
  /\ y.low = 2 * (x.low - offset) /\ y.high = 2 * (x.high - offset) + 1
  /\ y.base = 2 * (x.base + offset) /\ y.shifts = x.shifts + 1

SettleMark(x, y) ==
  /\ x.pc = "shifting" /\ y.pc = "symbol"
  /\ \A offset \in {0, Half, Quarter} : ~Leads(x, offset)
  /\ y.done = x.done /\ y.low = x.low /\ y.high = x.high
  /\ y.base = x.base /\ y.shifts = x.shifts

MarkStep(m, x, y) ==
  \/ SymbolMark(m, x, y)
  \/ \E offset \in {0, Half, Quarter} : ShiftMark(x, y, offset)
  \/ SettleMark(x, y)

\* An interval inside an earlier one, at the scale of the later.
Within(x, z) ==
  /\ x.shifts <= z.shifts
  /\ (x.base + x.low) * Power(2, z.shifts - x.shifts) <= z.base + z.low
  /\ z.base + z.high + 1 <= (x.base + x.high + 1) * Power(2, z.shifts - x.shifts)

StartMark ==
  [low |-> 0, high |-> Full - 1, done |-> 0, base |-> 0, shifts |-> 0, pc |-> "symbol"]

IsTrail(m, n, tr) ==
  /\ tr \in [0 .. n -> Marks]
  /\ tr[0] = StartMark
  /\ \A i \in 0 .. n - 1 : MarkStep(m, tr[i], tr[i + 1])
  /\ \A i \in 0 .. n : Within(tr[i], tr[n])

\* A step narrows the interval or scales it.
Closer(x, y) ==
  \/ y.base = x.base /\ y.shifts = x.shifts /\ x.low <= y.low /\ y.high <= x.high
  \/ \E offset \in {0, Half, Quarter} :
       /\ y.base = 2 * (x.base + offset) /\ y.shifts = x.shifts + 1
       /\ y.low = 2 * (x.low - offset) /\ y.high = 2 * (x.high - offset) + 1

LEMMA StartMarks == StartMark \in Marks
  BY CoderAssumption, SMT DEF StartMark, Marks, Full

LEMMA WithinItself ==
  ASSUME NEW x \in Marks
  PROVE  Within(x, x)
<1>1. x.base + x.low \in Nat /\ x.base + x.high + 1 \in Nat /\ x.shifts \in Nat
  BY DEF Marks
<1>2. x.shifts - x.shifts = 0 /\ Power(2, 0) = 1
  BY <1>1, Two
<1>3. (x.base + x.low) * 1 = x.base + x.low /\ (x.base + x.high + 1) * 1 = x.base + x.high + 1
  BY <1>1
<1> QED
  BY <1>1, <1>2, <1>3 DEF Within

LEMMA WithinStep ==
  ASSUME NEW x \in Marks, NEW y \in Marks, NEW z \in Marks, Within(x, y), Closer(y, z)
  PROVE  Within(x, z)
<1>1. /\ y.base \in Nat /\ y.low \in Nat /\ y.high \in Nat /\ y.shifts \in Nat
      /\ z.base \in Nat /\ z.low \in Nat /\ z.high \in Nat /\ z.shifts \in Nat
      /\ x.shifts \in Nat /\ x.base + x.low \in Nat /\ x.base + x.high + 1 \in Nat
  BY DEF Marks
<1> DEFINE a == x.base + x.low
           b == x.base + x.high + 1
           w == Power(2, y.shifts - x.shifts)
<1>2. /\ x.shifts <= y.shifts /\ a * w <= y.base + y.low /\ y.base + y.high + 1 <= b * w
  BY DEF Within
<1>3. y.shifts - x.shifts \in Nat
  BY <1>1, <1>2
<1>4. w \in Nat /\ Power(2, (y.shifts - x.shifts) + 1) = 2 * w
  BY <1>3, Two
<1>5. a \in Nat /\ b \in Nat
  BY <1>1
<1>6. CASE /\ z.base = y.base /\ z.shifts = y.shifts
           /\ y.low <= z.low /\ z.high <= y.high
  <2> HIDE DEF a, b, w
  <2>1. a * w \in Nat /\ b * w \in Nat
    BY <1>4, <1>5, SMT
  <2>2. a * w <= z.base + z.low /\ z.base + z.high + 1 <= b * w /\ x.shifts <= z.shifts
    BY <1>1, <1>2, <1>6, <2>1, SMT
  <2>3. w = Power(2, z.shifts - x.shifts)
    BY <1>6 DEF w
  <2> QED
    BY <2>2, <2>3 DEF Within, a, b
<1>7. ASSUME NEW offset \in {0, Half, Quarter},
             z.base = 2 * (y.base + offset), z.shifts = y.shifts + 1,
             z.low = 2 * (y.low - offset), z.high = 2 * (y.high - offset) + 1
      PROVE  Within(x, z)
  <2>1. offset \in Nat
    BY CoderAssumption, SMT DEF Half
  <2>2. z.base + z.low = 2 * (y.base + y.low) /\ z.base + z.high + 1 = 2 * (y.base + y.high + 1)
    BY <1>1, <1>7, <2>1, SMT
  <2>3. z.shifts - x.shifts = (y.shifts - x.shifts) + 1 /\ x.shifts <= z.shifts
    BY <1>1, <1>2, <1>7, SMT
  <2>4. Power(2, z.shifts - x.shifts) = 2 * w
    BY <1>4, <2>3
  <2> HIDE DEF a, b, w
  <2>5. a * (2 * w) = 2 * (a * w) /\ b * (2 * w) = 2 * (b * w) /\ a * w \in Nat /\ b * w \in Nat
    BY <1>4, <1>5, SMT
  <2>6. a * (2 * w) <= z.base + z.low /\ z.base + z.high + 1 <= b * (2 * w)
    BY <1>1, <1>2, <2>2, <2>5, SMT
  <2> QED
    BY <2>3, <2>4, <2>6 DEF Within, a, b
<1> QED
  BY <1>6, <1>7 DEF Closer

\* A trail goes on with the next step, of the message or of a longer one.
LEMMA TrailGrows ==
  ASSUME NEW m \in Seq(Symbols), NEW longer \in Seq(Symbols), Len(m) <= Len(longer),
         \A i \in 1 .. Len(m) : longer[i] = m[i],
         NEW n \in Nat, NEW tr, IsTrail(m, n, tr),
         NEW y \in Marks, MarkStep(longer, tr[n], y), Closer(tr[n], y)
  PROVE  \E more : IsTrail(longer, n + 1, more) /\ more[n + 1] = y
<1> DEFINE more == [i \in 0 .. n + 1 |-> IF i = n + 1 THEN y ELSE tr[i]]
<1>1. tr \in [0 .. n -> Marks] /\ tr[0] = StartMark /\ n + 1 \in Nat
  BY DEF IsTrail
<1>2. more \in [0 .. n + 1 -> Marks] /\ more[n + 1] = y /\ \A i \in 0 .. n : more[i] = tr[i]
  BY <1>1
<1> HIDE DEF more
<1>3. more[0] = StartMark
  BY <1>1, <1>2
<1>4. ASSUME NEW i \in 0 .. n PROVE MarkStep(longer, more[i], more[i + 1])
  <2>1. CASE i = n
    BY <1>2, <2>1
  <2>2. CASE i # n
    <3>1. i \in 0 .. n - 1 /\ i + 1 \in 0 .. n
      BY <2>2
    <3>2. MarkStep(m, tr[i], tr[i + 1])
      BY <3>1 DEF IsTrail
    <3>3. tr[i].done \in Nat
      BY <1>1 DEF Marks
    <3>4. SymbolMark(m, tr[i], tr[i + 1]) => SymbolMark(longer, tr[i], tr[i + 1])
      <4> SUFFICES ASSUME SymbolMark(m, tr[i], tr[i + 1])
                   PROVE  SymbolMark(longer, tr[i], tr[i + 1])
        OBVIOUS
      <4>1. tr[i].done + 1 \in 1 .. Len(m) /\ tr[i].done < Len(longer)
        BY <3>3, SMT DEF SymbolMark
      <4>2. longer[tr[i].done + 1] = m[tr[i].done + 1]
        BY <4>1
      <4> QED
        BY <4>1, <4>2 DEF SymbolMark
    <3>5. MarkStep(longer, tr[i], tr[i + 1])
      BY <3>2, <3>4 DEF MarkStep
    <3> QED
      BY <1>2, <3>1, <3>5
  <2> QED
    BY <2>1, <2>2
<1>5. ASSUME NEW i \in 0 .. n + 1 PROVE Within(more[i], more[n + 1])
  <2>1. CASE i = n + 1
    BY <1>2, <2>1, WithinItself
  <2>2. CASE i \in 0 .. n
    <3>1. Within(tr[i], tr[n]) /\ tr[i] \in Marks /\ tr[n] \in Marks
      BY <1>1, <2>2 DEF IsTrail
    <3> QED
      BY <1>2, <2>2, <3>1, WithinStep
  <2> QED
    BY <2>1, <2>2
<1>6. IsTrail(longer, n + 1, more)
  <2>1. \A i \in 0 .. (n + 1) - 1 : MarkStep(longer, more[i], more[i + 1])
    BY <1>4
  <2> QED
    BY <1>2, <1>3, <1>5, <2>1 DEF IsTrail
<1> QED
  BY <1>2, <1>6

\* A value inside the last interval of a trail is inside all of them, cut to
\* as many bits.
Holds(bits, x) ==
  LET value == Value(bits)[x.shifts + WordBits]
  IN  x.base + x.low <= value /\ value <= x.base + x.high

LEMMA HoldsEarlier ==
  ASSUME NEW bits \in Seq({0, 1}), NEW x \in Marks, NEW z \in Marks,
         Within(x, z), Holds(bits, z)
  PROVE  Holds(bits, x)
<1> DEFINE a == x.base + x.low
           b == x.base + x.high
           i == z.shifts - x.shifts
           n == x.shifts + WordBits
           u == Value(bits)[n]
           v == Value(bits)[z.shifts + WordBits]
           w == Power(2, i)
<1>1. /\ a \in Nat /\ b \in Nat /\ x.shifts \in Nat /\ z.shifts \in Nat
      /\ z.base + z.low \in Nat /\ z.base + z.high \in Nat /\ WordBits \in Nat
  <2>1. \A m \in Marks : m.base + m.low \in Nat /\ m.base + m.high \in Nat /\ m.shifts \in Nat
    <3> TAKE m \in Marks
    <3>1. PICK d \in Nat, lo \in Nat, hi \in Nat : d = m.base /\ lo = m.low /\ hi = m.high
      BY DEF Marks
    <3>2. m.shifts \in Nat
      BY DEF Marks
    <3> QED
      BY <3>1, <3>2
  <2> QED
    BY <2>1, CoderAssumption
<1>2. i \in Nat /\ a * w <= z.base + z.low /\ z.base + z.high + 1 <= (b + 1) * w
  BY <1>1 DEF Within
<1>3. n \in Nat /\ n + i = z.shifts + WordBits
  BY <1>1
<1>4. u \in Nat /\ v \in Nat /\ u * w <= v /\ v < (u + 1) * w
  <2> HIDE DEF n, i
  <2> QED
    BY <1>2, <1>3, ValueLater
<1>5. w \in Nat
  BY <1>2, Two
<1>6. z.base + z.low <= v /\ v <= z.base + z.high
  BY DEF Holds
<1> HIDE DEF a, b, u, v, w
<1>7. a * w \in Nat /\ (b + 1) * w \in Nat /\ u * w \in Nat /\ (u + 1) * w \in Nat
  BY <1>1, <1>4, <1>5, SMT
<1>8. a * w < (u + 1) * w /\ u * w < (b + 1) * w
  <2>1. PICK least \in Nat, most \in Nat : least = a * w /\ most = (b + 1) * w
    BY <1>7
  <2>2. PICK under \in Nat, over \in Nat : under = u * w /\ over = (u + 1) * w
    BY <1>7
  <2>3. least <= v /\ v < most
    <3>1. PICK lo \in Nat, hi \in Nat : lo = z.base + z.low /\ hi = z.base + z.high
      BY <1>1
    <3>2. least <= lo /\ hi + 1 <= most /\ lo <= v /\ v <= hi
      BY <1>2, <1>6, <2>1, <3>1
    <3> QED
      BY <1>4, <3>2
  <2>4. under <= v /\ v < over
    BY <1>4, <2>2
  <2>5. least < over /\ under < most
    BY <1>4, <2>3, <2>4, SMT
  <2> QED
    BY <2>1, <2>2, <2>5
<1>9. a < u + 1
  <2>1. u + 1 <= a => w * (u + 1) <= w * a
    BY <1>1, <1>4, <1>5, Scaling
  <2> QED
    BY <1>1, <1>4, <1>5, <1>7, <1>8, <2>1, SMT
<1>10. u < b + 1
  <2>1. b + 1 <= u => w * (b + 1) <= w * u
    BY <1>1, <1>4, <1>5, Scaling
  <2> QED
    BY <1>1, <1>4, <1>5, <1>7, <1>8, <2>1, SMT
<1>11. a <= u /\ u <= b
  BY <1>1, <1>4, <1>9, <1>10
<1> QED
  BY <1>11 DEF Holds, a, b, u, n

-----------------------------------------------------------------------------
(* Encoder and decoder on one trail                                        *)

\* The encoder is at x: what it has emitted and what is pending are worth the
\* base of its interval.
Encoding(x) ==
  /\ who = "encoder" /\ read = 0 /\ code = 0 /\ decoded = <<>>
  /\ x.pc = pc /\ x.low = low /\ x.high = high
  /\ x.done = Len(message) /\ x.shifts = Len(output) + pending
  /\ x.base = Full * (Value(output)[Len(output)] * Power(2, pending))
              + Half * (Power(2, pending) - 1)

\* The payload lies in all intervals of the trail.
Complete(n, tr) ==
  /\ tr[n].done = Len(message) /\ tr[n].pc = "symbol"
  /\ \A k \in 0 .. n : Holds(output, tr[k])

Flushed(n, tr) ==
  /\ Complete(n, tr)
  /\ who = "encoder" /\ pc = "flushed"
  /\ read = 0 /\ code = 0 /\ decoded = <<>>

Priming(n, tr) ==
  /\ Complete(n, tr)
  /\ who = "decoder" /\ pc = "priming"
  /\ read <= WordBits /\ code = Value(output)[read] /\ decoded = <<>>

\* The decoder is at x: its code is the payload, cut to the bits it has read.
Decoding(x) ==
  /\ who = "decoder"
  /\ x.pc = pc /\ x.low = low /\ x.high = high
  /\ x.done = Len(decoded) /\ read = x.shifts + WordBits
  /\ x.base + code = Value(output)[read]

OnTrail(n, tr) ==
  \/ Encoding(tr[n])
  \/ Flushed(n, tr)
  \/ Priming(n, tr)
  \/ Complete(n, tr) /\ \E k \in 0 .. n : Decoding(tr[k])

Follows == \E n \in Nat : \E tr : IsTrail(message, n, tr) /\ OnTrail(n, tr)

RoundInv == Inv /\ RoundTrip /\ Follows

LEMMA RoundInit ==
  ASSUME Init
  PROVE  RoundInv
<1> DEFINE tr == [i \in 0 .. 0 |-> StartMark]
<1>1. tr \in [0 .. 0 -> Marks] /\ tr[0] = StartMark
  BY StartMarks
<1> HIDE DEF tr
<1>2. Within(tr[0], tr[0])
  BY <1>1, StartMarks, WithinItself
<1>3. IsTrail(message, 0, tr)
  BY <1>1, <1>2 DEF IsTrail
<1>4. Encoding(tr[0])
  <2>1. output = <<>> /\ pending = 0 /\ message = <<>> /\ <<>> \in Seq({0, 1})
        /\ who = "encoder" /\ read = 0 /\ code = 0 /\ decoded = <<>>
        /\ pc = "symbol" /\ low = 0 /\ high = Full - 1
    BY SMT DEF Init
  <2>2. Len(output) = 0 /\ Len(message) = 0
    BY <2>1, SMT
  <2>3. Value(output)[0] = 0
    BY <2>1, ValueOf DEF IsValue
  <2>4. Power(2, 0) = 1
    BY Two
  <2>5. Full * (0 * 1) + Half * (1 - 1) = 0 /\ 0 + 0 = 0
    BY CoderAssumption, SMT DEF Full, Half
  <2> QED
    BY <1>1, <2>1, <2>2, <2>3, <2>4, <2>5 DEF Encoding, StartMark
<1>5. Inv /\ RoundTrip
  BY InvInit, SMT DEF Init, RoundTrip
<1> QED
  BY <1>3, <1>4, <1>5 DEF RoundInv, Follows, OnTrail

LEMMA RoundEncodeSymbol ==
  ASSUME RoundInv, Inv', NEW symbol \in Symbols, EncodeSymbol(symbol)
  PROVE  RoundInv'
<1>1. TypeOK /\ Settled /\ who = "encoder" /\ who' = who /\ pc = "symbol" /\ pc' = "shifting"
      /\ message' = Append(message, symbol) /\ Narrow(symbol.bit, symbol.freq1)
      /\ UNCHANGED <<pending, output, code, read, decoded>>
  BY DEF RoundInv, Inv, EncodeSymbol, decoder
<1>2. PICK n \in Nat : \E tr : IsTrail(message, n, tr) /\ OnTrail(n, tr)
  BY DEF RoundInv, Follows
<1>3. PICK tr : IsTrail(message, n, tr) /\ OnTrail(n, tr)
  BY <1>2
<1>4. Encoding(tr[n])
  BY <1>1, <1>3 DEF OnTrail, Flushed, Priming, Decoding
<1>5. tr[n] \in Marks
  BY <1>3 DEF IsTrail
<1> DEFINE x == tr[n]
<1>0. PICK y : y = [low |-> low', high |-> high', done |-> Len(message) + 1,
                    base |-> x.base, shifts |-> x.shifts, pc |-> "shifting"]
  OBVIOUS
<1>6. /\ message \in Seq(Symbols) /\ message' \in Seq(Symbols)
      /\ Len(message') = Len(message) + 1
      /\ \A i \in 1 .. Len(message) : message'[i] = message[i]
      /\ message'[Len(message) + 1] = symbol
  BY <1>1, SMT DEF TypeOK
<1>7. symbol.bit \in {0, 1} /\ symbol.freq1 \in Frequencies
  BY DEF Symbols
<1>8. Split(symbol.freq1) \in Int /\ low <= Split(symbol.freq1) /\ Split(symbol.freq1) < high
  BY <1>1, <1>7, SplitInside
<1>9. low \in Nat /\ high \in Nat
  BY <1>1, CoderAssumption, SMT DEF TypeOK, Full
<1>10. low' \in Nat /\ high' \in Nat /\ low <= low' /\ high' <= high
  BY <1>1, <1>7, <1>8, <1>9, SMT DEF Narrow
<1>11. y \in Marks
  BY <1>0, <1>5, <1>6, <1>10, SMT DEF Marks
<1>12. Share0(x, symbol.freq1) = Split(symbol.freq1)
  BY <1>4 DEF Encoding, Share0, Split, Width
<1>13. SymbolMark(message', x, y)
  <2> DEFINE next == message'[x.done + 1]
  <2>1. next = symbol
    BY <1>4, <1>6 DEF Encoding
  <2>2. symbol.bit = 0 => low' = x.low /\ high' = Share0(x, symbol.freq1)
    BY <1>1, <1>4, <1>12 DEF Narrow, Encoding
  <2>3. symbol.bit = 1 => low' = Share0(x, symbol.freq1) + 1 /\ high' = x.high
    BY <1>1, <1>4, <1>12 DEF Narrow, Encoding
  <2>4. x.pc = "symbol" /\ x.done = Len(message) /\ x.done < Len(message')
    BY <1>1, <1>4, <1>6, SMT DEF Encoding
  <2> QED
    BY <1>0, <2>1, <2>2, <2>3, <2>4 DEF SymbolMark
<1>14. MarkStep(message', x, y)
  BY <1>13 DEF MarkStep
<1>15. Closer(x, y)
  BY <1>0, <1>4, <1>10 DEF Closer, Encoding
<1>16. Encoding(y)'
  BY <1>0, <1>1, <1>4, <1>6 DEF Encoding
<1>17. \E more : IsTrail(message', n + 1, more) /\ more[n + 1] = y
  <2>1. Len(message) <= Len(message')
    BY <1>6, SMT
  <2> QED
    BY <1>3, <1>6, <1>11, <1>14, <1>15, <2>1, TrailGrows
<1>18. Follows'
  <2>1. PICK more : IsTrail(message', n + 1, more) /\ more[n + 1] = y
    BY <1>17
  <2>2. OnTrail(n + 1, more)'
    BY <1>16, <2>1 DEF OnTrail
  <2> QED
    BY <2>1, <2>2 DEF Follows
<1>19. RoundTrip'
  <2>1. decoded' = <<>>
    BY <1>1, <1>4 DEF Encoding
  <2> QED
    BY <2>1, SMT DEF RoundTrip
<1> QED
  BY <1>18, <1>19 DEF RoundInv

\* The sum a base grows to, a factor twice over: plain algebra.
LEMMA DoubledBase ==
  ASSUME NEW h \in Nat, NEW x \in Nat, NEW w \in Nat, NEW bit \in {0, 1}
  PROVE  2 * ((2 * h) * x + h * (w - 1) + bit * h) = (2 * h) * (2 * x + w - 1 + bit)
<1>1. CASE bit = 0
  BY <1>1, SMT
<1>2. CASE bit = 1
  BY <1>2, SMT
<1> QED
  BY <1>1, <1>2

\* An emitted bit, with the opposites that were pending, is what the offset of
\* its branch adds to the base.
LEMMA EmittedWorth ==
  ASSUME NEW bits \in Seq({0, 1}), NEW bit \in {0, 1}, NEW opposites \in Nat,
         NEW base \in Nat,
         base = Full * (Value(bits)[Len(bits)] * Power(2, opposites))
                + Half * (Power(2, opposites) - 1)
  PROVE  2 * (base + bit * Half)
           = Full * Value(Extended(bits, bit, opposites))[Len(bits) + 1 + opposites]
<1> DEFINE v == Value(bits)[Len(bits)]
           w == Power(2, opposites)
           later == Value(Extended(bits, bit, opposites))[Len(bits) + 1 + opposites]
<1>1. v \in Nat
  <2>1. Len(bits) \in Nat
    BY SMT
  <2>2. Value(bits) \in [Nat -> Nat]
    BY ValueOf DEF IsValue
  <2> QED
    BY <2>1, <2>2
<1>2. w \in Nat
  BY Two
<1>3. later = (2 * v + bit) * w + (1 - bit) * (w - 1)
  BY ValueExtended
<1>4. base = Full * (v * w) + Half * (w - 1)
  OBVIOUS
<1>5. Half \in Nat /\ Full = 2 * Half
  BY CoderAssumption, SMT DEF Half, Full
<1> HIDE DEF v, w, later
<1>6. CASE bit = 0
  <2>1. later = 2 * (v * w) + w - 1
    BY <1>1, <1>2, <1>3, <1>6, SMT
  <2>2. PICK x \in Nat : x = v * w
    BY <1>1, <1>2
  <2>3. 2 * (Full * x + Half * (w - 1) + bit * Half) = Full * later
    <3>1. PICK h \in Nat : h = Half /\ Full = 2 * h
      BY <1>5
    <3>2. 2 * ((2 * h) * x + h * (w - 1) + bit * h) = (2 * h) * (2 * x + w - 1 + bit)
      BY <1>2, DoubledBase
    <3>3. later = 2 * x + w - 1 + bit
      BY <1>2, <1>6, <2>1, <2>2
    <3> QED
      BY <3>1, <3>2, <3>3
  <2> QED
    BY <1>4, <2>2, <2>3 DEF later
<1>7. CASE bit = 1
  <2>1. later = 2 * (v * w) + w
    BY <1>1, <1>2, <1>3, <1>7, SMT
  <2>2. PICK x \in Nat : x = v * w
    BY <1>1, <1>2
  <2>3. 2 * (Full * x + Half * (w - 1) + bit * Half) = Full * later
    <3>1. PICK h \in Nat : h = Half /\ Full = 2 * h
      BY <1>5
    <3>2. 2 * ((2 * h) * x + h * (w - 1) + bit * h) = (2 * h) * (2 * x + w - 1 + bit)
      BY <1>2, DoubledBase
    <3>3. later = 2 * x + w - 1 + bit
      BY <1>2, <1>7, <2>1, <2>2
    <3> QED
      BY <3>1, <3>2, <3>3
  <2> QED
    BY <1>4, <2>2, <2>3 DEF later
<1> QED
  BY <1>6, <1>7

LEMMA RoundEncoderShifts ==
  ASSUME RoundInv, EncoderShifts
  PROVE  Follows'
<1>1. TypeOK /\ who = "encoder" /\ who' = who /\ pc = "shifting" /\ pc' = pc
      /\ UNCHANGED <<message, code, read, decoded>>
  BY DEF RoundInv, Inv, EncoderShifts, decoder
<1>2. PICK n \in Nat : \E tr : IsTrail(message, n, tr) /\ OnTrail(n, tr)
  BY DEF RoundInv, Follows
<1>3. PICK tr : IsTrail(message, n, tr) /\ OnTrail(n, tr)
  BY <1>2
<1>4. Encoding(tr[n])
  BY <1>1, <1>3 DEF OnTrail, Flushed, Priming, Decoding
<1>5. tr[n] \in Marks
  BY <1>3 DEF IsTrail
<1>6. output \in Seq({0, 1}) /\ pending \in Nat /\ Len(output) \in Nat /\ message \in Seq(Symbols)
  BY <1>1, SMT DEF TypeOK
<1> DEFINE x == tr[n]
<1>7. PICK offset \in {0, Half, Quarter} :
        /\ \/ InLower /\ offset = 0 /\ Emit(0, pending) /\ pending' = 0
           \/ InUpper /\ offset = Half /\ Emit(1, pending) /\ pending' = 0
           \/ InMiddle /\ offset = Quarter /\ pending' = pending + 1 /\ UNCHANGED output
        /\ Shift(offset)
  BY DEF EncoderShifts
<1>8. /\ low' \in 0 .. Full - 1 /\ high' \in 0 .. Full - 1
      /\ low' = 2 * (low - offset) /\ high' = 2 * (high - offset) + 1
  BY <1>1, <1>7, ShiftInside
<1>9. low' \in Nat /\ high' \in Nat /\ offset \in Nat
  BY <1>8, CoderAssumption, SMT DEF Full, Half
<1>10. PICK y : y = [low |-> low', high |-> high', done |-> x.done,
                     base |-> 2 * (x.base + offset), shifts |-> x.shifts + 1,
                     pc |-> "shifting"]
  OBVIOUS
<1>11. y \in Marks
  BY <1>5, <1>9, <1>10, SMT DEF Marks
<1>12. Leads(x, offset)
  BY <1>4, <1>7 DEF Encoding, Leads, InLower, InUpper, InMiddle
<1>13. ShiftMark(x, y, offset)
  BY <1>1, <1>4, <1>8, <1>10, <1>12 DEF ShiftMark, Encoding
<1>14. MarkStep(message, x, y) /\ Closer(x, y)
  BY <1>13 DEF MarkStep, Closer, ShiftMark
<1>15. y.shifts = Len(output') + pending'
       /\ y.base = Full * (Value(output')[Len(output')] * Power(2, pending'))
                   + Half * (Power(2, pending') - 1)
  <2>1. x.base \in Nat /\ x.shifts = Len(output) + pending
        /\ x.base = Full * (Value(output)[Len(output)] * Power(2, pending))
                    + Half * (Power(2, pending) - 1)
    BY <1>4, <1>5 DEF Encoding, Marks
  <2>2. ASSUME NEW bit \in {0, 1}, offset = bit * Half, Emit(bit, pending), pending' = 0
        PROVE  y.shifts = Len(output') + pending'
               /\ y.base = Full * (Value(output')[Len(output')] * Power(2, pending'))
                           + Half * (Power(2, pending') - 1)
    <3>1. output' = Extended(output, bit, pending)
      BY <2>2 DEF Emit, Extended
    <3>2. Len(output') = Len(output) + 1 + pending /\ output' \in Seq({0, 1})
      BY <1>6, <3>1, ExtendedBits
    <3> DEFINE base == x.base
               later == Value(output')[Len(output')]
    <3>3. base \in Nat /\ base = Full * (Value(output)[Len(output)] * Power(2, pending))
                                 + Half * (Power(2, pending) - 1)
      BY <2>1
    <3> HIDE DEF base
    <3>4. 2 * (base + bit * Half) = Full * later
      BY <1>6, <3>1, <3>2, <3>3, EmittedWorth
    <3>5. later \in Nat
      <4>1. Value(output') \in [Nat -> Nat]
        BY <3>2, ValueOf DEF IsValue
      <4>2. Len(output') \in Nat
        BY <1>6, <3>2
      <4> QED
        BY <4>1, <4>2
    <3>6. Power(2, 0) = 1
      BY Two
    <3>7. y.base = Full * later
      BY <1>10, <2>2, <3>4 DEF base
    <3> HIDE DEF later
    <3>8. Full * (later * 1) + Half * (1 - 1) = Full * later /\ Full * later \in Nat
      BY <3>5, CoderAssumption, SMT DEF Full, Half
    <3>9. y.base = Full * (later * Power(2, pending')) + Half * (Power(2, pending') - 1)
      BY <2>2, <3>6, <3>7, <3>8
    <3>10. y.shifts = Len(output') + pending'
      BY <1>6, <1>10, <2>1, <2>2, <3>2
    <3> QED
      BY <3>9, <3>10 DEF later
  <2>3. ASSUME offset = Quarter, pending' = pending + 1, UNCHANGED output
        PROVE  y.shifts = Len(output') + pending'
               /\ y.base = Full * (Value(output')[Len(output')] * Power(2, pending'))
                           + Half * (Power(2, pending') - 1)
    <3> DEFINE v == Value(output)[Len(output)]
               w == Power(2, pending)
    <3>1. v \in Nat
      <4>1. Value(output) \in [Nat -> Nat]
        BY <1>6, ValueOf DEF IsValue
      <4> QED
        BY <1>6, <4>1
    <3>2. w \in Nat /\ Power(2, pending + 1) = 2 * w
      BY <1>6, Two
    <3>3. y.base = 2 * (Full * (v * w) + Half * (w - 1) + Quarter)
      BY <1>10, <2>1, <2>3
    <3> HIDE DEF v, w
    <3>4. y.base = Full * (v * (2 * w)) + Half * (2 * w - 1)
      BY <3>1, <3>2, <3>3, CoderAssumption, SMT DEF Full, Half
    <3>5. y.shifts = Len(output') + pending'
      BY <1>6, <1>10, <2>1, <2>3
    <3> QED
      BY <2>3, <3>2, <3>4, <3>5 DEF v
  <2>4. CASE offset = 0 /\ Emit(0, pending) /\ pending' = 0
    <3>1. offset = 0 * Half
      BY <2>4, CoderAssumption, SMT DEF Half
    <3> QED
      BY <2>2, <2>4, <3>1
  <2>5. CASE offset = Half /\ Emit(1, pending) /\ pending' = 0
    <3>1. offset = 1 * Half
      BY <2>5, CoderAssumption, SMT DEF Half
    <3> QED
      BY <2>2, <2>5, <3>1
  <2> QED
    BY <1>7, <2>3, <2>4, <2>5
<1>16. Encoding(y)'
  BY <1>1, <1>4, <1>10, <1>15 DEF Encoding
<1>17. \E more : IsTrail(message, n + 1, more) /\ more[n + 1] = y
  <2>1. Len(message) <= Len(message)
    BY <1>6, SMT
  <2> QED
    BY <1>3, <1>6, <1>11, <1>14, <2>1, TrailGrows
<1> QED
  <2>1. PICK more : IsTrail(message, n + 1, more) /\ more[n + 1] = y
    BY <1>17
  <2>2. OnTrail(n + 1, more)'
    BY <1>16, <2>1 DEF OnTrail
  <2> QED
    BY <1>1, <2>1, <2>2 DEF Follows

\* The bits of a flush lie in the interval whatever follows them.
LEMMA RoundFlush ==
  ASSUME RoundInv, Flush
  PROVE  Follows'
<1>1. TypeOK /\ Settled /\ who = "encoder" /\ who' = who /\ pc = "symbol" /\ pc' = "flushed"
      /\ UNCHANGED <<message, low, high, code, read, decoded>>
  BY DEF RoundInv, Inv, Flush, decoder, interval
<1>2. PICK n \in Nat : \E tr : IsTrail(message, n, tr) /\ OnTrail(n, tr)
  BY DEF RoundInv, Follows
<1>3. PICK tr : IsTrail(message, n, tr) /\ OnTrail(n, tr)
  BY <1>2
<1>4. Encoding(tr[n])
  BY <1>1, <1>3 DEF OnTrail, Flushed, Priming, Decoding
<1>5. tr \in [0 .. n -> Marks] /\ tr[n] \in Marks
  BY <1>3 DEF IsTrail
<1>6. output \in Seq({0, 1}) /\ pending \in Nat /\ Len(output) \in Nat
  BY <1>1, SMT DEF TypeOK
<1> DEFINE x == tr[n]
           bit == IF low < Quarter THEN 0 ELSE 1
           v == Value(output)[Len(output)]
           w == Power(2, pending)
           last == Value(output')[Len(output')]
<1>7. output' = Extended(output, bit, pending + 1)
  BY DEF Flush, Emit, Extended
<1>8. output' \in Seq({0, 1}) /\ Len(output') = Len(output) + 1 + (pending + 1)
  <2>1. bit \in {0, 1} /\ pending + 1 \in Nat
    BY <1>6
  <2> HIDE DEF bit
  <2> QED
    BY <1>6, <1>7, <2>1, ExtendedBits
<1>9. last = (2 * v + bit) * (2 * w) + (1 - bit) * (2 * w - 1)
  <2>1. bit \in {0, 1} /\ pending + 1 \in Nat
    BY <1>6
  <2> HIDE DEF bit
  <2>2. Value(output')[Len(output) + 1 + (pending + 1)]
          = (2 * v + bit) * Power(2, pending + 1) + (1 - bit) * (Power(2, pending + 1) - 1)
    BY <1>6, <1>7, <2>1, ValueExtended
  <2>3. Power(2, pending + 1) = 2 * w
    BY <1>6, Two
  <2> QED
    BY <1>8, <2>2, <2>3
<1>10. v \in Nat /\ w \in Nat
  <2>1. Value(output) \in [Nat -> Nat]
    BY <1>6, ValueOf DEF IsValue
  <2>2. w \in Nat
    BY <1>6, Two
  <2> QED
    BY <1>6, <2>1, <2>2
<1>11. x.base = Full * (v * w) + Half * (w - 1) /\ x.base \in Nat
  BY <1>4, <1>5 DEF Encoding, Marks
<1>12. x.base + low <= last * Quarter /\ last * Quarter <= x.base + high
  <2> HIDE DEF v, w, last, x
  <2>1. Quarter \in Nat /\ Half = 2 * Quarter /\ Full = 4 * Quarter
    BY CoderAssumption, SMT DEF Half, Full
  <2>2. low \in Nat /\ high \in Nat /\ low < Half /\ high >= Half
        /\ (low < Quarter \/ high >= 3 * Quarter)
    BY <1>1, <2>1, SMT DEF TypeOK, Settled, InLower, InUpper, InMiddle
  <2>3. CASE low < Quarter
    <3>1. last = 4 * (v * w) + 2 * w - 1
      BY <1>9, <1>10, <2>3, SMT
    <3>2. last * Quarter = x.base + Quarter
      BY <1>10, <1>11, <2>1, <3>1, SMT
    <3> QED
      BY <1>11, <2>1, <2>2, <2>3, <3>2
  <2>4. CASE ~(low < Quarter)
    <3>1. last = 4 * (v * w) + 2 * w
      BY <1>9, <1>10, <2>4, SMT
    <3>2. last * Quarter = x.base + Half
      BY <1>10, <1>11, <2>1, <3>1, SMT
    <3> QED
      BY <1>11, <2>1, <2>2, <2>4, <3>2
  <2> QED
    BY <2>3, <2>4
<1>13. Value(output')[x.shifts + WordBits] = last * Quarter
  <2>1. Quarter \in Nat /\ Quarter > 0 /\ WordBits \in Nat /\ Power(2, WordBits) = 4 * Quarter
    BY CoderAssumption, WordAssumption DEF Full
  <2>2. WordBits - 2 \in Nat /\ Power(2, WordBits - 2) = Quarter
    <3>1. Power(2, 0) = 1 /\ Power(2, 0 + 1) = 2 * Power(2, 0)
      BY Two
    <3>2. WordBits # 0 /\ WordBits # 1
      BY <2>1, <3>1
    <3> DEFINE i == WordBits - 2
    <3>3. i \in Nat /\ WordBits = i + 1 + 1
      BY <2>1, <3>2
    <3> HIDE DEF i
    <3>4. /\ Power(2, i) \in Nat /\ Power(2, i + 1) = 2 * Power(2, i)
          /\ Power(2, i + 1 + 1) = 2 * Power(2, i + 1)
      BY <3>3, Two
    <3>5. Power(2, i) = Quarter
      BY <2>1, <3>3, <3>4
    <3> QED
      BY <3>3, <3>5 DEF i
  <2> DEFINE i == WordBits - 2
  <2>3. x.shifts + WordBits = Len(output') + i
    BY <1>4, <1>6, <1>8, <2>1 DEF Encoding
  <2> HIDE DEF i
  <2>4. i \in Nat /\ Power(2, i) = Quarter
    BY <2>2 DEF i
  <2>5. Value(output')[Len(output') + i] = Value(output')[Len(output')] * Power(2, i)
    BY <1>8, <2>4, ZerosFollow
  <2> QED
    BY <2>3, <2>4, <2>5
<1>14. Holds(output', x)
  BY <1>4, <1>12, <1>13 DEF Holds, Encoding
<1>15. ASSUME NEW k \in 0 .. n PROVE Holds(output', tr[k])
  <2>1. Within(tr[k], tr[n]) /\ tr[k] \in Marks
    BY <1>3, <1>5 DEF IsTrail
  <2> QED
    BY <1>5, <1>8, <1>14, <2>1, HoldsEarlier
<1>16. Flushed(n, tr)'
  BY <1>1, <1>4, <1>15 DEF Flushed, Complete, Encoding
<1> QED
  BY <1>1, <1>3, <1>16 DEF Follows, OnTrail

LEMMA RoundStartDecoding ==
  ASSUME RoundInv, StartDecoding
  PROVE  Follows'
<1>1. pc = "flushed" /\ pc' = "priming" /\ who' = "decoder"
      /\ UNCHANGED <<message, output, code, read, decoded>>
  BY DEF StartDecoding, encoder, decoder
<1>2. PICK n \in Nat : \E tr : IsTrail(message, n, tr) /\ OnTrail(n, tr)
  BY DEF RoundInv, Follows
<1>3. PICK tr : IsTrail(message, n, tr) /\ OnTrail(n, tr)
  BY <1>2
<1>4. \A k \in 0 .. n : tr[k].pc \in {"symbol", "shifting"}
  BY <1>3 DEF IsTrail, Marks
<1>5. n \in 0 .. n
  OBVIOUS
<1>6. Flushed(n, tr)
  BY <1>1, <1>3, <1>4, <1>5 DEF OnTrail, Encoding, Priming, Decoding
<1>7. 0 <= WordBits /\ Value(output)[0] = 0
  <2>1. output \in Seq({0, 1})
    BY DEF RoundInv, Inv, TypeOK
  <2>2. Value(output)[0] = 0
    BY <2>1, ValueOf DEF IsValue
  <2> QED
    BY <2>2, CoderAssumption
<1>8. Priming(n, tr)'
  BY <1>1, <1>6, <1>7 DEF Flushed, Priming, Complete
<1> QED
  BY <1>1, <1>3, <1>8 DEF Follows, OnTrail

\* No number of bits is worth more than the powers above it.
LEMMA PowerGrows ==
  ASSUME NEW n \in Nat, NEW i \in Nat
  PROVE  Power(2, n) <= Power(2, n + i)
<1> DEFINE Good == {k \in Nat : Power(2, n) <= Power(2, n + k)}
<1>1. 0 \in Good
  <2>1. n + 0 = n /\ Power(2, n) \in Nat
    BY Two
  <2> QED
    BY <2>1
<1>2. ASSUME NEW k \in Nat, k \in Good
      PROVE  k + 1 \in Good
  <2>1. n + k \in Nat /\ (n + k) + 1 = n + (k + 1)
    OBVIOUS
  <2>2. Power(2, n + k) \in Nat /\ Power(2, (n + k) + 1) = 2 * Power(2, n + k)
    BY <2>1, Two
  <2>3. Power(2, n) \in Nat /\ Power(2, n) <= Power(2, n + k)
    BY <1>2, Two
  <2>4. Power(2, n) <= Power(2, n + (k + 1))
    BY <2>1, <2>2, <2>3
  <2> QED
    BY <2>4
<1>3. \A k \in Nat : k \in Good
  <2> HIDE DEF Good
  <2> QED
    BY <1>1, <1>2, UpToEvery
<1> QED
  BY <1>3

LEMMA RoundPrime ==
  ASSUME RoundInv, Prime
  PROVE  Follows'
<1>1. TypeOK /\ Settled /\ pc = "priming" /\ who' = who
      /\ UNCHANGED <<message, output, low, high, decoded>>
  BY DEF RoundInv, Inv, Prime, encoder, interval
<1>2. PICK n \in Nat : \E tr : IsTrail(message, n, tr) /\ OnTrail(n, tr)
  BY DEF RoundInv, Follows
<1>3. PICK tr : IsTrail(message, n, tr) /\ OnTrail(n, tr)
  BY <1>2
<1>4. \A k \in 0 .. n : tr[k].pc \in {"symbol", "shifting"}
  BY <1>3 DEF IsTrail, Marks
<1>5. n \in 0 .. n /\ 0 \in 0 .. n
  OBVIOUS
<1>6. Priming(n, tr)
  BY <1>1, <1>3, <1>4, <1>5 DEF OnTrail, Encoding, Flushed, Decoding
<1>7. output \in Seq({0, 1}) /\ read \in Nat /\ WordBits \in Nat
  BY <1>1, CoderAssumption DEF TypeOK
<1>8. CASE read < WordBits
  <2>1. code' = ((2 * code) % Full) + NextBit /\ read' = read + 1 /\ pc' = pc
    BY <1>8 DEF Prime
  <2>2. NextBit = BitAt(output, read + 1) /\ NextBit \in {0, 1}
    <3>1. Len(output) \in Nat
      BY <1>7
    <3>2. read < Len(output) <=> read + 1 <= Len(output)
      BY <1>7, <3>1
    <3> QED
      BY <1>1, <3>2, BitRead DEF NextBit, BitAt
  <2>3. code \in Nat /\ code < Half
    <3>1. Value(output)[0] = 0 /\ Value(output) \in [Nat -> Nat]
      BY <1>7, ValueOf DEF IsValue
    <3>2. 0 + read = read /\ 0 \in Nat
      BY <1>7
    <3>3. Value(output)[0 + read] < (Value(output)[0] + 1) * Power(2, read)
      BY <1>7, <3>2, ValueLater, Zenon
    <3>4. Power(2, read) \in Nat
      BY <1>7, Two
    <3>5. Value(output)[read] < Power(2, read)
      BY <3>1, <3>2, <3>3, <3>4
    <3> DEFINE i == WordBits - 1 - read
    <3>6. i \in Nat /\ read + i \in Nat /\ (read + i) + 1 = WordBits
      BY <1>7, <1>8
    <3> HIDE DEF i
    <3>7. Power(2, read) <= Power(2, read + i) /\ Power(2, WordBits) = 2 * Power(2, read + i)
          /\ Power(2, read + i) \in Nat
      BY <1>7, <3>6, PowerGrows, Two
    <3>8. Half \in Nat /\ Power(2, WordBits) = 2 * Half
      BY WordAssumption, CoderAssumption, SMT DEF Half, Full
    <3>9. code = Value(output)[read] /\ Value(output)[read] \in Nat
      BY <1>6, <1>7, <3>1 DEF Priming
    <3> QED
      BY <3>4, <3>5, <3>7, <3>8, <3>9
  <2>4. code' = 2 * code + NextBit
    <3>1. code \in 0 .. Full - 1
      BY <1>1 DEF TypeOK
    <3> QED
      BY <2>1, <2>2, <2>3, <3>1, WordRead
  <2>5. Value(output)[read + 1] = 2 * Value(output)[read] + BitAt(output, read + 1)
    BY <1>7, ValueOf DEF IsValue
  <2>6. Priming(n, tr)'
    <3>1. read' <= WordBits
      BY <1>7, <1>8, <2>1
    <3>2. code' = Value(output)[read']
      BY <1>6, <2>1, <2>2, <2>4, <2>5 DEF Priming
    <3> QED
      BY <1>1, <1>6, <2>1, <3>1, <3>2 DEF Priming, Complete
  <2> QED
    BY <1>1, <1>3, <2>6 DEF Follows, OnTrail
<1>9. CASE ~(read < WordBits)
  <2>1. pc' = "symbol" /\ UNCHANGED <<code, read>>
    BY <1>9 DEF Prime
  <2>2. tr[0] = StartMark /\ low = 0 /\ high = Full - 1
    BY <1>1, <1>3 DEF IsTrail, Settled
  <2>3. read = WordBits /\ decoded = <<>> /\ Len(decoded) = 0
    BY <1>6, <1>7, <1>9, SMT DEF Priming
  <2>4. code \in Nat
    BY <1>1, CoderAssumption, SMT DEF TypeOK, Full
  <2>5. 0 + code = code /\ 0 + WordBits = WordBits
    BY <1>7, <2>4
  <2>6. Decoding(tr[0])'
    BY <1>1, <1>6, <2>1, <2>2, <2>3, <2>5 DEF Decoding, Priming, StartMark
  <2>7. Complete(n, tr)'
    BY <1>1, <1>6 DEF Priming, Complete
  <2> QED
    BY <1>1, <1>3, <1>5, <2>6, <2>7 DEF Follows, OnTrail
<1> QED
  BY <1>8, <1>9

\* The decoder's next step is the trail's.
LEMMA RoundDecodeSymbol ==
  ASSUME RoundInv, DecodeSymbol
  PROVE  Follows' /\ RoundTrip'
<1>1. TypeOK /\ Settled /\ pc = "symbol" /\ who = "decoder" /\ who' = who /\ pc' = "shifting"
      /\ low <= code /\ code <= high
      /\ UNCHANGED <<message, output, code, read>>
  BY DEF RoundInv, Inv, CodeInside, DecodeSymbol, encoder
<1> DEFINE next == message[Len(decoded) + 1]
           bit == IF Scaled < Total - next.freq1 THEN 0 ELSE 1
<1>2. Narrow(bit, next.freq1) /\ decoded' = Append(decoded, bit) /\ Len(decoded) < Len(message)
  BY DEF DecodeSymbol
<1>3. message \in Seq(Symbols) /\ decoded \in Seq({0, 1}) /\ Len(decoded) \in Nat
  BY <1>1, SMT DEF TypeOK
<1>4. next \in Symbols
  <2>1. Len(decoded) + 1 \in 1 .. Len(message)
    BY <1>2, <1>3, SMT
  <2> QED
    BY <1>3, <2>1, SMT
<1>5. next.bit \in {0, 1} /\ next.freq1 \in Frequencies
  BY <1>4 DEF Symbols
<1>6. PICK n \in Nat : \E tr : IsTrail(message, n, tr) /\ OnTrail(n, tr)
  BY DEF RoundInv, Follows
<1>7. PICK tr : IsTrail(message, n, tr) /\ OnTrail(n, tr)
  BY <1>6
<1>8. Complete(n, tr) /\ \E k \in 0 .. n : Decoding(tr[k])
  BY <1>1, <1>7 DEF OnTrail, Encoding, Flushed, Priming
<1>9. PICK k \in 0 .. n : Decoding(tr[k])
  BY <1>8
<1>10. k \in 0 .. n - 1 /\ k + 1 \in 0 .. n
  <2>1. k # n
    BY <1>2, <1>3, <1>8, <1>9 DEF Complete, Decoding
  <2> QED
    BY <2>1
<1> DEFINE x == tr[k]
           y == tr[k + 1]
<1>11. x \in Marks /\ y \in Marks /\ MarkStep(message, x, y)
  BY <1>7, <1>10 DEF IsTrail
<1>12. Holds(output, y)
  BY <1>8, <1>10 DEF Complete
<1>13. x.pc = "symbol" /\ x.low = low /\ x.high = high /\ x.done = Len(decoded)
       /\ read = x.shifts + WordBits /\ x.base + code = Value(output)[read]
  BY <1>1, <1>9 DEF Decoding
<1> HIDE DEF x, y, next
<1>14. SymbolMark(message, x, y)
  BY <1>11, <1>13 DEF MarkStep, ShiftMark, SettleMark
<1>15. Share0(x, next.freq1) = Split(next.freq1)
  BY <1>13 DEF Share0, Split, Width
<1>16. /\ next.bit = 0 => y.low = low /\ y.high = Split(next.freq1)
       /\ next.bit = 1 => y.low = Split(next.freq1) + 1 /\ y.high = high
       /\ y.base = x.base /\ y.shifts = x.shifts /\ y.done = x.done + 1 /\ y.pc = "shifting"
  BY <1>13, <1>14, <1>15 DEF SymbolMark, next
<1>17. y.low <= code /\ code <= y.high
  <2>1. x.base + y.low <= x.base + code /\ x.base + code <= x.base + y.high
    BY <1>12, <1>13, <1>16 DEF Holds
  <2>2. x.base \in Nat /\ y.low \in Nat /\ y.high \in Nat /\ code \in Int
    BY <1>1, <1>11, CoderAssumption, SMT DEF Marks, TypeOK, Full
  <2> QED
    BY <2>1, <2>2
<1>18. Scaled < Total - next.freq1 <=> code <= Split(next.freq1)
  BY <1>1, <1>5, Chosen
<1>19. bit = next.bit
  <2>1. Split(next.freq1) \in Int /\ code \in Int
    BY <1>1, <1>5, SplitInside, CoderAssumption, SMT DEF TypeOK, Full
  <2>2. CASE next.bit = 0
    BY <1>16, <1>17, <1>18, <2>2
  <2>3. CASE next.bit = 1
    <3>1. Split(next.freq1) + 1 <= code
      BY <1>16, <1>17, <2>3
    <3>2. ~(code <= Split(next.freq1))
      BY <2>1, <3>1
    <3> QED
      BY <1>18, <2>3, <3>2
  <2> QED
    BY <1>5, <2>2, <2>3
<1> HIDE DEF bit
<1>20. /\ decoded' \in Seq({0, 1}) /\ Len(decoded') = Len(decoded) + 1
       /\ \A i \in 1 .. Len(decoded) : decoded'[i] = decoded[i]
       /\ decoded'[Len(decoded) + 1] = bit
  BY <1>2, <1>3, <1>5, <1>19, SMT
<1>21. RoundTrip'
  <2> SUFFICES ASSUME NEW i \in 1 .. Len(decoded')
               PROVE  decoded'[i] = message[i].bit
    BY <1>1 DEF RoundTrip
  <2>1. CASE i \in 1 .. Len(decoded)
    BY <1>20, <2>1 DEF RoundInv, RoundTrip
  <2>2. CASE i = Len(decoded) + 1
    BY <1>19, <1>20, <2>2 DEF next
  <2> QED
    BY <1>3, <1>20, <2>1, <2>2
<1>22. y.low = low' /\ y.high = high'
  BY <1>2, <1>5, <1>16, <1>19 DEF Narrow
<1>23. Decoding(tr[k + 1])'
  BY <1>1, <1>13, <1>16, <1>20, <1>22 DEF Decoding, y
<1>24. Complete(n, tr)'
  BY <1>1, <1>8 DEF Complete
<1> QED
  BY <1>1, <1>7, <1>10, <1>21, <1>23, <1>24 DEF Follows, OnTrail

LEMMA RoundDecoderShifts ==
  ASSUME RoundInv, DecoderShifts
  PROVE  Follows'
<1>1. TypeOK /\ pc = "shifting" /\ pc' = pc /\ who = "decoder" /\ who' = who
      /\ low <= code /\ code <= high /\ read' = read + 1
      /\ UNCHANGED <<message, output, decoded>>
  BY DEF RoundInv, Inv, CodeInside, DecoderShifts, encoder
<1>2. PICK offset \in {0, Half, Quarter} :
        /\ \/ InLower /\ offset = 0
           \/ InUpper /\ offset = Half
           \/ InMiddle /\ offset = Quarter
        /\ Shift(offset)
        /\ code' = ((2 * (code - offset)) % Full) + NextBit
  BY DEF DecoderShifts
<1>3. /\ low' = 2 * (low - offset) /\ high' = 2 * (high - offset) + 1
      /\ low - offset \in 0 .. Half - 1 /\ high - offset \in 0 .. Half - 1
  BY <1>1, <1>2, ShiftInside
<1>4. /\ code \in Int /\ low \in Int /\ high \in Int /\ offset \in Int
      /\ Half \in Nat /\ Full = 2 * Half
  BY <1>1, CoderAssumption, SMT DEF TypeOK, Full, Half
<1>5. output \in Seq({0, 1}) /\ read \in Nat /\ Len(output) \in Nat
  BY <1>1, SMT DEF TypeOK
<1>6. NextBit = BitAt(output, read + 1) /\ NextBit \in {0, 1}
  <2>1. read < Len(output) <=> read + 1 <= Len(output)
    BY <1>5
  <2> QED
    BY <1>1, <2>1, BitRead DEF NextBit, BitAt
<1>7. code' = 2 * (code - offset) + NextBit
  <2> DEFINE z == code - offset
  <2>1. z \in 0 .. Full - 1 /\ z < Half
    BY <1>1, <1>3, <1>4, SMT
  <2>2. code' = ((2 * z) % Full) + NextBit
    BY <1>2
  <2> HIDE DEF z
  <2>3. code' = 2 * z + NextBit
    BY <1>6, <2>1, <2>2, WordRead
  <2> QED
    BY <2>3 DEF z
<1>8. PICK n \in Nat : \E tr : IsTrail(message, n, tr) /\ OnTrail(n, tr)
  BY DEF RoundInv, Follows
<1>9. PICK tr : IsTrail(message, n, tr) /\ OnTrail(n, tr)
  BY <1>8
<1>10. Complete(n, tr) /\ \E k \in 0 .. n : Decoding(tr[k])
  BY <1>1, <1>9 DEF OnTrail, Encoding, Flushed, Priming
<1>11. PICK k \in 0 .. n : Decoding(tr[k])
  BY <1>10
<1>12. k \in 0 .. n - 1 /\ k + 1 \in 0 .. n
  <2>1. k # n
    BY <1>1, <1>10, <1>11 DEF Complete, Decoding
  <2> QED
    BY <2>1
<1> DEFINE x == tr[k]
           y == tr[k + 1]
<1>13. x \in Marks /\ y \in Marks /\ MarkStep(message, x, y)
  BY <1>9, <1>12 DEF IsTrail
<1>14. x.pc = "shifting" /\ x.low = low /\ x.high = high /\ x.done = Len(decoded)
       /\ read = x.shifts + WordBits /\ x.base + code = Value(output)[read]
  BY <1>1, <1>11 DEF Decoding
<1> HIDE DEF x, y
<1>15. Leads(x, offset)
  BY <1>2, <1>14 DEF Leads, InLower, InUpper, InMiddle
<1>16. ShiftMark(x, y, offset)
  <2>1. PICK other \in {0, Half, Quarter} : ShiftMark(x, y, other)
    BY <1>13, <1>14, <1>15 DEF MarkStep, SymbolMark, SettleMark
  <2>2. Leads(x, other)
    BY <2>1 DEF ShiftMark
  <2>3. other = offset
    <3>1. ~(x.high < Half /\ x.low >= Half)
      BY <1>1, <1>4, <1>14, SMT DEF TypeOK
    <3> QED
      BY <1>15, <2>2, <3>1 DEF Leads
  <2> QED
    BY <2>1, <2>3
<1>17. /\ y.pc = "shifting" /\ y.done = Len(decoded)
       /\ y.low = low' /\ y.high = high'
       /\ y.base = 2 * (x.base + offset) /\ y.shifts = x.shifts + 1
  BY <1>3, <1>14, <1>16 DEF ShiftMark
<1>18. y.base + code' = Value(output)[read + 1]
  <2>1. Value(output)[read + 1] = 2 * Value(output)[read] + BitAt(output, read + 1)
    BY <1>5, ValueOf DEF IsValue
  <2>2. x.base \in Nat /\ NextBit \in Int
    BY <1>6, <1>13 DEF Marks
  <2>3. 2 * (x.base + offset) + (2 * (code - offset) + NextBit) = 2 * (x.base + code) + NextBit
    BY <1>4, <2>2
  <2> QED
    BY <1>6, <1>7, <1>14, <1>17, <2>1, <2>3
<1>19. read + 1 = y.shifts + WordBits
  <2>1. x.shifts \in Nat /\ WordBits \in Nat
    BY <1>13, CoderAssumption DEF Marks
  <2> QED
    BY <1>14, <1>17, <2>1
<1>20. Decoding(tr[k + 1])'
  BY <1>1, <1>17, <1>18, <1>19 DEF Decoding, y
<1>21. Complete(n, tr)'
  BY <1>1, <1>10 DEF Complete
<1> QED
  BY <1>1, <1>9, <1>12, <1>20, <1>21 DEF Follows, OnTrail

LEMMA RoundSettle ==
  ASSUME RoundInv, Settle
  PROVE  Follows'
<1>1. pc = "shifting" /\ pc' = "symbol"
      /\ UNCHANGED <<who, low, high, message, pending, output, code, read, decoded>>
      /\ ~InLower /\ ~InUpper /\ ~InMiddle
  BY DEF Settle, interval, encoder, decoder
<1>2. PICK n \in Nat : \E tr : IsTrail(message, n, tr) /\ OnTrail(n, tr)
  BY DEF RoundInv, Follows
<1>3. PICK tr : IsTrail(message, n, tr) /\ OnTrail(n, tr)
  BY <1>2
<1>4. ASSUME NEW x \in Marks, x.low = low, x.high = high
      PROVE  \A offset \in {0, Half, Quarter} : ~Leads(x, offset)
  BY <1>1, <1>4 DEF Leads, InLower, InUpper, InMiddle
<1>5. CASE Encoding(tr[n])
  <2> DEFINE x == tr[n]
  <2>1. x \in Marks
    BY <1>3 DEF IsTrail
  <2>2. PICK y : y = [low |-> x.low, high |-> x.high, done |-> x.done, base |-> x.base,
                      shifts |-> x.shifts, pc |-> "symbol"]
    OBVIOUS
  <2>3. y \in Marks
    BY <2>1, <2>2 DEF Marks
  <2>4. \A offset \in {0, Half, Quarter} : ~Leads(x, offset)
    BY <1>4, <1>5, <2>1 DEF Encoding
  <2>5. SettleMark(x, y)
    BY <1>1, <1>5, <2>2, <2>4 DEF SettleMark, Encoding
  <2>6. MarkStep(message, x, y)
    BY <2>5 DEF MarkStep
  <2>7. Closer(x, y)
    <3>1. x.low \in Nat /\ x.high \in Nat
      BY <2>1 DEF Marks
    <3> QED
      BY <2>2, <3>1 DEF Closer
  <2>8. Encoding(y)'
    BY <1>1, <1>5, <2>2 DEF Encoding
  <2>9. message \in Seq(Symbols) /\ Len(message) <= Len(message)
    BY SMT DEF RoundInv, Inv, TypeOK
  <2>10. PICK more : IsTrail(message, n + 1, more) /\ more[n + 1] = y
    BY <1>3, <2>3, <2>6, <2>7, <2>9, TrailGrows
  <2>11. OnTrail(n + 1, more)'
    BY <2>8, <2>10 DEF OnTrail
  <2> QED
    BY <1>1, <2>10, <2>11 DEF Follows
<1>6. CASE Complete(n, tr) /\ \E k \in 0 .. n : Decoding(tr[k])
  <2>1. PICK k \in 0 .. n : Decoding(tr[k])
    BY <1>6
  <2>2. k # n
    BY <1>1, <1>6, <2>1 DEF Complete, Decoding
  <2>3. k \in 0 .. n - 1 /\ k + 1 \in 0 .. n
    BY <2>2
  <2> DEFINE x == tr[k]
             y == tr[k + 1]
  <2>4. x \in Marks /\ y \in Marks /\ MarkStep(message, x, y)
    BY <1>3, <2>3 DEF IsTrail
  <2> HIDE DEF x, y
  <2>5. x.pc = "shifting" /\ x.low = low /\ x.high = high /\ x.done = Len(decoded)
    BY <1>1, <2>1 DEF Decoding, x
  <2>6. \A offset \in {0, Half, Quarter} : ~Leads(x, offset)
    BY <1>4, <2>4, <2>5
  <2>7. SettleMark(x, y)
    BY <2>4, <2>5, <2>6 DEF MarkStep, SymbolMark, ShiftMark
  <2>8. Decoding(tr[k + 1])'
    BY <1>1, <2>1, <2>7 DEF Decoding, SettleMark, x, y
  <2>9. Complete(n, tr)'
    BY <1>1, <1>6 DEF Complete
  <2> QED
    BY <1>1, <1>3, <2>3, <2>8, <2>9 DEF Follows, OnTrail
<1> QED
  BY <1>1, <1>3, <1>5, <1>6 DEF OnTrail, Flushed, Priming

LEMMA RoundNext ==
  ASSUME RoundInv, [Next]_vars
  PROVE  RoundInv'
<1>1. Inv'
  BY InvNext DEF RoundInv
<1>2. ASSUME EncoderShifts \/ Flush \/ StartDecoding \/ Prime \/ DecoderShifts \/ Settle
      PROVE  RoundInv'
  <2>1. RoundTrip'
    BY <1>2 DEF RoundInv, RoundTrip, EncoderShifts, Flush, StartDecoding, Prime, DecoderShifts,
                Settle, encoder, decoder
  <2>2. Follows'
    BY <1>2, RoundEncoderShifts, RoundFlush, RoundStartDecoding, RoundPrime,
       RoundDecoderShifts, RoundSettle
  <2> QED
    BY <1>1, <2>1, <2>2 DEF RoundInv
<1>3. ASSUME NEW symbol \in Symbols, EncodeSymbol(symbol)
      PROVE  RoundInv'
  BY <1>1, <1>3, RoundEncodeSymbol
<1>4. ASSUME DecodeSymbol
      PROVE  RoundInv'
  BY <1>1, <1>4, RoundDecodeSymbol DEF RoundInv
<1>5. ASSUME UNCHANGED vars
      PROVE  RoundInv'
  <2>1. UNCHANGED <<who, pc, low, high, message, pending, output, code, read, decoded>>
    BY <1>5 DEF vars, interval, encoder, decoder
  <2>2. RoundTrip' /\ Follows'
    BY <2>1 DEF RoundInv, RoundTrip, Follows, OnTrail, Encoding, Flushed, Priming, Complete,
                Decoding
  <2> QED
    BY <1>1, <2>2 DEF RoundInv
<1> QED
  BY <1>2, <1>3, <1>4, <1>5 DEF Next

-----------------------------------------------------------------------------
(* Theorems                                                                *)

\* The ends of the interval stay words and in order, and the masks of the
\* shifts never drop a bit that counts.
THEOREM WordsHold == Spec => []TypeOK
  BY InvAlways, PTL DEF Inv

\* Both symbols have a share of the interval whenever one is due, so that
\* arithmetic_encode_binary and decode never empty it, on which their loops
\* would turn for ever.
THEOREM NeverEmpty == Spec => []Separable
<1>1. Inv => Separable
  BY SplitInside DEF Inv, Separable
<1> QED
  BY <1>1, InvAlways, PTL

\* Whatever bits it is given, ArithmeticBinaryDecoder keeps its code inside
\* its interval.
THEOREM CodeHeld == Spec => []CodeInside
  BY InvAlways, PTL DEF Inv

\* A message never costs more bits than its probability warrants, but for what
\* rounding takes from each symbol: the encoder's share of the code space
\* shrinks no faster than the symbols' frequencies say.
THEOREM RateKept == Spec => []RateBound
<1>1. RateInv => RateBound
  BY RateIsBound DEF RateInv, Inv
<1> QED
  BY <1>1, RateInit, RateNext, PTL DEF Spec

\* Whatever symbols are encoded, at whatever frequencies, the decoder reads
\* them back from the flushed bits and the zeros behind them.
THEOREM DecodesTheMessage == Spec => []RoundTrip
<1>1. RoundInv => RoundTrip
  BY DEF RoundInv
<1> QED
  BY <1>1, RoundInit, RoundNext, PTL DEF Spec

=============================================================================
