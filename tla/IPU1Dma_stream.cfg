\* Stream exactness of the toIPU channel without guest suspension, over every
\* memory image including bad tag and data addresses, and the channel as an
\* implementation of the abstract DMA source (DmaSource).
CONSTANTS
  MemSize = 6
  MemImages <- MCMemImages
  FifoCap = 2
  NormalAddrs = {1, 7}
  MaxQwc = 2
  MaxSuspends = 0
  MaxTags = 6
SPECIFICATION Spec
INVARIANT TypeOK
INVARIANT StreamPrefix
INVARIANT CompleteOnIrq
PROPERTY SourceRefined
