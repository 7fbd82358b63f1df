\* One unpacker, and one file: packed from any pair of short messages, or any
\* small file presented as a reservoir.
CONSTANTS
  u1 = u1
  None = None
  BlockCount = 2
  ByteBits = 2
  Budget = 2
  ChunkBits = 2
  Jobs <- BitJobs
  Forgeries <- AllForgeries
  Unpackers <- LoneUnpacker
  MaxFiles = 1
SPECIFICATION Spec
INVARIANTS RoundTrip Canonical
\* The processes come to an end.
CHECK_DEADLOCK FALSE
