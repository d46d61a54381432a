CONSTANTS
  BlockSize = 48
  Sizes <- MCSizes
  MaxBlocks = 3
SPECIFICATION Spec
INVARIANTS TypeOK CodeInBlock CodeAligned
PROPERTY CodeDisjoint
\* The buffer is used no more after its destructor, and vmalloc is called
\* at most MaxBlocks times.
CHECK_DEADLOCK FALSE
