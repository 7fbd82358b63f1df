\* Two unpackers with one output directory, two runs of the packer, chunks of
\* two bytes.
CONSTANTS
  u1 = u1
  u2 = u2
  None = None
  BlockCount = 2
  ByteBits = 2
  Budget = 4
  ChunkBits = 4
  Jobs <- RaceJobs
  Forgeries = {}
  Unpackers <- MCUnpackers
  MaxFiles = 2
SPECIFICATION Spec
INVARIANTS TypeOK RoundTrip AuditDescribesOutput
PROPERTIES OutputOnce ImplementsReservoirFile
\* The processes come to an end.
CHECK_DEADLOCK FALSE
