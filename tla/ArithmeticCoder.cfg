\* Every message of up to five symbols.
CONSTANTS
  Quarter = 8
  WordBits = 5
  Total = 4
  MaxSymbols = 5
SPECIFICATION Spec
INVARIANTS TypeOK Separable CodeInside RoundTrip RateBound
\* The decoder stops at the end of the message.
CHECK_DEADLOCK FALSE
