\* Completion of every transfer over valid memory, with one guest
\* suspension per transfer, under fair scheduling and a draining decoder.
CONSTANTS
  MemSize = 6
  MemImages <- MCValidImages
  FifoCap = 2
  NormalAddrs = {1}
  MaxQwc = 2
  MaxSuspends = 1
  MaxTags = 6
SPECIFICATION FairSpec
INVARIANT IrqOnlyWhenDrained
PROPERTY TransferCompletes
