----------------------------- MODULE GSCodeBuffer -----------------------------
(***************************************************************************)
(* The executable-code allocator of plugins/GS/GSCodeBuffer.cpp.  A code   *)
(* generator asks GetBuffer(size) for room, writes at most size bytes of   *)
(* code there and reports what it wrote with ReleaseBuffer(size); the      *)
(* buffer hands out room from the current block of m_blocksize bytes and   *)
(* vmallocs a new block when the rounded request does not fit.  Blocks are *)
(* numbered in allocation order (m_buffers); 0 is m_ptr == NULL.           *)
(***************************************************************************)
EXTENDS Naturals

CONSTANTS
  BlockSize,  \* m_blocksize
  Sizes,      \* the sizes a generator asks for and writes, each <= BlockSize
  MaxBlocks   \* bound on the blocks allocated

ASSUME Sizes \subseteq 0 .. BlockSize /\ MaxBlocks \in Nat \ {0}

None == [blk |-> 0, at |-> 0, size |-> 0]

VARIABLES
  ptr,        \* m_ptr: the current block, 0 for NULL
  pos,        \* m_pos
  blocks,     \* Len(m_buffers)
  handed,     \* the room the generator holds, or None
  written,    \* per block, the end of the code written into it
  freed       \* the destructor has vmfree'd every block

vars == <<ptr, pos, blocks, handed, written, freed>>

\* (x + 15) & ~15: round up to a multiple of 16.
RoundUp16(x) == ((x + 15) \div 16) * 16

-----------------------------------------------------------------------------
\* Mutant: a new block is taken only when there is none.
GetBufferIgnoresSize(size) ==
  /\ ~freed /\ handed = None
  /\ IF ptr = 0
     THEN /\ blocks < MaxBlocks
          /\ ptr' = blocks + 1 /\ pos' = 0 /\ blocks' = blocks + 1
          /\ handed' = [blk |-> blocks + 1, at |-> 0, size |-> size]
     ELSE /\ handed' = [blk |-> ptr, at |-> pos, size |-> size]
          /\ UNCHANGED <<ptr, pos, blocks>>
  /\ UNCHANGED <<written, freed>>

\* GetBuffer: round the request up to 16; with no block, or no room for it
\* in the current one, vmalloc a new block, push it on m_buffers and hand
\* out its start; else hand out &m_ptr[m_pos].
GetBuffer(size) ==
  /\ ~freed /\ handed = None
  /\ IF ptr = 0 \/ pos + RoundUp16(size) > BlockSize
     THEN /\ blocks < MaxBlocks
          /\ ptr' = blocks + 1 /\ pos' = 0 /\ blocks' = blocks + 1
          /\ handed' = [blk |-> blocks + 1, at |-> 0, size |-> size]
     ELSE /\ handed' = [blk |-> ptr, at |-> pos, size |-> size]
          /\ UNCHANGED <<ptr, pos, blocks>>
  /\ UNCHANGED <<written, freed>>

\* Mutant: m_pos is not rounded up after a release.
ReleaseBufferUnrounded(used) ==
  /\ handed # None /\ used <= handed.size
  /\ pos' = pos + used
  /\ written' = [written EXCEPT ![handed.blk] = handed.at + used]
  /\ handed' = None
  /\ UNCHANGED <<ptr, blocks, freed>>

\* Mutant: m_pos is set from the released size alone.
ReleaseBufferNoPos(used) ==
  /\ handed # None /\ used <= handed.size
  /\ pos' = RoundUp16(used)
  /\ written' = [written EXCEPT ![handed.blk] = handed.at + used]
  /\ handed' = None
  /\ UNCHANGED <<ptr, blocks, freed>>

\* ReleaseBuffer: the generator wrote used bytes (at most what it asked
\* for) at the room it holds; m_pos moves past them, rounded up to 16.
ReleaseBuffer(used) ==
  /\ handed # None /\ used <= handed.size
  /\ pos' = RoundUp16(pos + used)
  /\ written' = [written EXCEPT ![handed.blk] = handed.at + used]
  /\ handed' = None
  /\ UNCHANGED <<ptr, blocks, freed>>

\* ~GSCodeBuffer: vmfree every block of m_buffers.
Destroy ==
  /\ ~freed /\ handed = None
  /\ freed' = TRUE
  /\ UNCHANGED <<ptr, pos, blocks, handed, written>>

Init ==
  /\ ptr = 0 /\ pos = 0 /\ blocks = 0
  /\ handed = None /\ written = [b \in 1 .. MaxBlocks |-> 0] /\ freed = FALSE

Next ==
  \/ \E size \in Sizes : GetBuffer(size)
  \/ \E used \in Sizes : ReleaseBuffer(used)
  \/ Destroy

\* The generator stops using the buffer once it is destroyed.
Spec == Init /\ [][Next]_vars

-----------------------------------------------------------------------------
TypeOK ==
  /\ ptr \in 0 .. MaxBlocks /\ blocks \in 0 .. MaxBlocks /\ ptr <= blocks
  /\ pos \in 0 .. BlockSize
  /\ handed \in {None} \cup [blk : 1 .. MaxBlocks, at : 0 .. BlockSize,
                             size : Sizes]
  /\ written \in [1 .. MaxBlocks -> Nat] /\ freed \in BOOLEAN

\* Every piece of generated code lies inside its block.
CodeInBlock == \A b \in 1 .. MaxBlocks : written[b] <= BlockSize

\* No two pieces of generated code share a byte: the code released into a
\* block starts at or after the end of all code written there before.
CodeDisjoint ==
  [][handed # None /\ handed' = None => handed.at >= written[handed.blk]]_vars

\* Every buffer handed out starts on a 16-byte boundary.
CodeAligned == handed # None => handed.at % 16 = 0
=============================================================================
