\* A suspend/resume of the toIPU channel between its last burst and
\* ipu1Interrupt: dmaIPU1 re-arms a chain that had reached its last tag.
CONSTANTS
  MemSize = 6
  MemImages <- MCMemImages
  FifoCap = 2
  NormalAddrs = {1, 7}
  MaxQwc = 2
  MaxSuspends = 1
  MaxTags = 6
SPECIFICATION Spec
INVARIANT StreamPrefix
