-------------------------- MODULE ArithmeticCoder --------------------------
(***************************************************************************)
(* The binary arithmetic coder of the polar codec: the encoder             *)
(* arithmetic_encode_binary (src/polaris_sc_v2_rht_encoder.py), followed   *)
(* by the decoder that reads its bits, ArithmeticBinaryDecoder             *)
(* (src/independent_decoder_v1.py).  Both narrow an interval by the share  *)
(* of each symbol and shift out the leading bits its ends agree on; the    *)
(* variables of the interval are those of the one that is running.         *)
(*                                                                         *)
(* The frequency of a symbol is a function of the symbols before it, which *)
(* the decoder has if it has decoded them correctly: here both take it     *)
(* from the message.                                                       *)
(***************************************************************************)
EXTENDS Integers, Sequences

CONSTANTS
  Quarter,     \* a quarter of the range of the interval: 2^30
  WordBits,    \* bits read ahead by the decoder: thirty-two
  Total,       \* frequency total: 65536
  MaxSymbols   \* bound: length of a message

ASSUME CoderAssumption ==
  /\ Quarter \in Nat \ {0}
  /\ WordBits \in Nat
  /\ Total \in 2 .. Quarter
  /\ MaxSymbols \in Nat

Half == 2 * Quarter
Full == 4 * Quarter

Power(base, n) == LET power[i \in Nat] == IF i = 0 THEN 1 ELSE base * power[i - 1] IN power[n]

\* The interval is a word of as many bits as the decoder reads ahead.
ASSUME WordAssumption == Full = Power(2, WordBits)

VARIABLES
  who,        \* "encoder" or "decoder"
  pc,         \* "symbol", "shifting", "flushed" or "priming"
  message,    \* symbols encoded so far, with their frequencies
  low, high,  \* the interval
  pending,    \* bits that are the opposite of the next one
  output,     \* bits emitted; the payload once flushed
  code, read, \* the decoder's window on the payload, and bits read into it
  decoded     \* symbols decoded so far

interval == <<low, high>>
encoder == <<message, pending, output>>
decoder == <<code, read, decoded>>
vars == <<who, pc, interval, encoder, decoder>>

\* Rounded frequencies are clipped, so that neither symbol has none.
Frequencies == 1 .. Total - 1

Symbols == [bit : {0, 1}, freq1 : Frequencies]

Init ==
  /\ who = "encoder" /\ pc = "symbol"
  /\ message = <<>>
  /\ low = 0 /\ high = Full - 1
  /\ pending = 0 /\ output = <<>>
  /\ code = 0 /\ read = 0 /\ decoded = <<>>

-----------------------------------------------------------------------------
(* The interval                                                            *)

Width == high - low + 1

\* Encoder and decoder both give a zero the share of a one.
SplitSwapped(freq1) == low + ((Width * freq1) \div Total) - 1

\* The last value that stands for a zero.
Split(freq1) == low + ((Width * (Total - freq1)) \div Total) - 1

Narrow(bit, freq1) ==
  IF bit = 0 THEN high' = Split(freq1) /\ low' = low
             ELSE low' = Split(freq1) + 1 /\ high' = high

\* The ends agree on their leading bit, or lie on either side of the middle
\* and closer to it than a quarter.
InLower == high < Half
InUpper == low >= Half

\* Only the agreed leading bits are shifted out.
MiddleIgnored == FALSE

InMiddle == ~InLower /\ ~InUpper /\ low >= Quarter /\ high < 3 * Quarter

\* The middle is not rid of its leading quarter before the shift.
ShiftBare(offset) ==
  /\ low' = (2 * low) % Full
  /\ high' = ((2 * high) % Full) + 1

\* Ends are shifted left in a word of WordBits bits.
Shift(offset) ==
  /\ low' = (2 * (low - offset)) % Full
  /\ high' = ((2 * (high - offset)) % Full) + 1

\* The while loop breaks.
Settle ==
  /\ pc = "shifting"
  /\ ~InLower /\ ~InUpper /\ ~InMiddle
  /\ pc' = "symbol"
  /\ UNCHANGED <<who, interval, encoder, decoder>>

-----------------------------------------------------------------------------
(* arithmetic_encode_binary                                                *)

EncodeSymbol(symbol) ==
  /\ who = "encoder" /\ pc = "symbol"
  /\ Len(message) < MaxSymbols
  /\ Narrow(symbol.bit, symbol.freq1)
  /\ message' = Append(message, symbol)
  /\ pc' = "shifting"
  /\ UNCHANGED <<who, pending, output, decoder>>

\* The opposite bits that were pending are lost.
EmitAlone(bit, opposites) == output' = Append(output, bit)

Emit(bit, opposites) ==
  output' = Append(output, bit) \o [i \in 1 .. opposites |-> 1 - bit]

EncoderShifts ==
  /\ who = "encoder" /\ pc = "shifting"
  /\ \/ InLower /\ Shift(0) /\ Emit(0, pending) /\ pending' = 0
     \/ InUpper /\ Shift(Half) /\ Emit(1, pending) /\ pending' = 0
     \/ InMiddle /\ Shift(Quarter) /\ pending' = pending + 1 /\ UNCHANGED output
  /\ UNCHANGED <<who, pc, message, decoder>>

\* One more opposite bit, so that the interval holds whatever bits follow.
Flush ==
  /\ who = "encoder" /\ pc = "symbol"
  /\ pc' = "flushed"
  /\ Emit(IF low < Quarter THEN 0 ELSE 1, pending + 1)
  /\ pending' = 0
  /\ UNCHANGED <<who, message, interval, decoder>>

-----------------------------------------------------------------------------
(* ArithmeticBinaryDecoder                                                 *)

\* _read: zeros follow the logical payload.
NextBit == IF read < Len(output) THEN output[read + 1] ELSE 0

StartDecoding ==
  /\ pc = "flushed"
  /\ who' = "decoder" /\ pc' = "priming"
  /\ low' = 0 /\ high' = Full - 1
  /\ UNCHANGED <<encoder, decoder>>

\* One bit of the first word.
Prime ==
  /\ pc = "priming"
  /\ IF read < WordBits
     THEN code' = ((2 * code) % Full) + NextBit /\ read' = read + 1 /\ UNCHANGED pc
     ELSE pc' = "symbol" /\ UNCHANGED <<code, read>>
  /\ UNCHANGED <<who, interval, encoder, decoded>>

\* The code's position in the interval, rounded the other way.
ScaledUp == ((code - low + 1) * Total) \div Width

Scaled == ((code - low + 1) * Total - 1) \div Width

\* decode(freq1), up to its loop.
DecodeSymbol ==
  /\ who = "decoder" /\ pc = "symbol"
  /\ Len(decoded) < Len(message)
  /\ LET freq1 == message[Len(decoded) + 1].freq1
         bit == IF Scaled < Total - freq1 THEN 0 ELSE 1
     IN  Narrow(bit, freq1) /\ decoded' = Append(decoded, bit)
  /\ pc' = "shifting"
  /\ UNCHANGED <<who, encoder, code, read>>

DecoderShifts ==
  /\ who = "decoder" /\ pc = "shifting"
  /\ \E offset \in {0, Half, Quarter} :
       /\ \/ InLower /\ offset = 0
          \/ InUpper /\ offset = Half
          \/ InMiddle /\ offset = Quarter
       /\ Shift(offset)
       /\ code' = ((2 * (code - offset)) % Full) + NextBit
  /\ read' = read + 1
  /\ UNCHANGED <<who, pc, encoder, decoded>>

-----------------------------------------------------------------------------
Next ==
  \/ \E symbol \in Symbols : EncodeSymbol(symbol)
  \/ EncoderShifts \/ Flush
  \/ StartDecoding \/ Prime \/ DecodeSymbol \/ DecoderShifts
  \/ Settle

Spec == Init /\ [][Next]_vars

-----------------------------------------------------------------------------
(* Properties                                                              *)

\* The ends of the interval are words and in order, the shifts drop no bit,
\* and the decoder is never ahead of the message.
TypeOK ==
  /\ who \in {"encoder", "decoder"} /\ pc \in {"symbol", "shifting", "flushed", "priming"}
  /\ message \in Seq(Symbols) /\ output \in Seq({0, 1}) /\ decoded \in Seq({0, 1})
  /\ low \in 0 .. Full - 1 /\ high \in 0 .. Full - 1 /\ low <= high
  /\ pending \in Nat /\ read \in Nat
  /\ code \in 0 .. Full - 1
  /\ Len(decoded) <= Len(message)

\* Whenever a symbol is due, either one has a share of the interval, at every
\* frequency the model can give it: narrowing never empties the interval,
\* which the loop would then shift for ever.
Separable ==
  pc = "symbol" => \A freq1 \in Frequencies : low <= Split(freq1) /\ Split(freq1) < high

\* The decoder's comparison on the scaled code picks the half that holds the
\* code, so that the code never leaves the interval.
CodeInside == who = "decoder" /\ pc # "priming" => low <= code /\ code <= high

\* The decoder returns the symbols that were encoded.
RoundTrip == \A i \in 1 .. Len(decoded) : decoded[i] = message[i].bit

\* A message costs no more bits than its probability warrants: with p the
\* product of the shares of its symbols, and 1 - Total / Quarter lost to
\* rounding per symbol, 2^bits <= (Width / Full) / (p * (1 - Total/Quarter)^n).
Share(symbol) == IF symbol.bit = 0 THEN Total - symbol.freq1 ELSE symbol.freq1

Shares(symbols) ==
  LET shares[n \in 0 .. Len(symbols)] ==
        IF n = 0 THEN 1 ELSE shares[n - 1] * Share(symbols[n])
  IN  shares[Len(symbols)]

RateBound ==
  LET n == Len(message)
  IN  who = "encoder" /\ pc # "flushed" =>
        Full * Power(2, Len(output) + pending) * Shares(message) * Power(Quarter - Total, n)
          <= Width * Power(Total, n) * Power(Quarter, n)

=============================================================================
