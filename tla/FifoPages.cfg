\* Up to four GIF page writes against four PATH2/mask/VIF1 events, and
\* downloads of 0, 1, 16 and 17 quad-words (either side of the 16-entry
\* FIFO) read out over 20 reads, with a u32 counter cut to 8 bits.
CONSTANTS
  GifFifoCap = 16
  MaxWrites = 4
  MaxVifOps = 4
  Sizes = {0, 1, 16, 17}
  SizeBits = 8
  MaxReads = 20
SPECIFICATION Spec
INVARIANT Path3InOrder
\* The guest may stop touching the pages: a state where every bound is
\* reached is a normal end.
CHECK_DEADLOCK FALSE
