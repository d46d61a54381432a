------------------------------- MODULE IPU1Dma -------------------------------
(***************************************************************************)
(* The toIPU DMA channel (IPU1) of pcsx2/IPU/IPUdma.cpp: the channel       *)
(* registers ipu1ch, the status block IPU1Status, the IPU input FIFO it    *)
(* fills (only its fill level IFC matters here), the DMAC_TO_IPU entry of  *)
(* the cycle scheduler, and the two parties that drive the channel from    *)
(* outside: the guest program writing CHCR (start, suspend, resume) and    *)
(* the IPU decoder draining the FIFO.                                      *)
(*                                                                         *)
(* Every call into the file (dmaIPU1, IPU1dma, ipu1Interrupt) runs to      *)
(* completion on the emulation thread, so each is one atomic action whose  *)
(* effect is the composition of the operators below.  Memory is a small    *)
(* image of quad-words addressed in quad-word units; a quad-word read as a *)
(* tag is parsed into [id, qwc, addr, irq].  Data is identified by the     *)
(* address it came from.                                                   *)
(***************************************************************************)
EXTENDS Naturals, Sequences, SequencesExt

CONSTANTS
  MemSize,      \* quad-words of valid memory: addresses 0..MemSize-1
  MemImages,    \* the memory images (address -> parsed tag) a run explores
  FifoCap,      \* capacity of the IPU input FIFO in quad-words (8)
  NormalAddrs,  \* MADR values the guest may program for a normal transfer
  MaxQwc,       \* largest QWC the guest programs for a normal transfer
  MaxSuspends,  \* bound on guest suspensions (CHCR.STR := 0) per transfer
  MaxTags       \* bound on tags the reference chain walk follows

TagIds == {"REFE", "CNT", "NEXT", "REF", "END"}
Addr == 0 .. MemSize - 1
Tag == [id : TagIds, qwc : 0 .. MaxQwc, addr : Nat, irq : BOOLEAN]

ASSUME /\ MemSize \in Nat \ {0}
       /\ MemImages \subseteq [Addr -> Tag]
       /\ FifoCap \in Nat \ {0}
       /\ MaxSuspends \in Nat

VARIABLES
  mem,        \* guest memory, fixed for a behaviour
  ch,         \* ipu1ch: madr, qwc, tadr, chcr.STR, chcr.MOD, chcr.TIE, chcr.TAG
  st,         \* IPU1Status: InProgress, DMAFinished, DMAMode, ChainMode
  ifc,        \* g_BP.IFC, quad-words held by the IPU input FIFO
  pending,    \* cpuRegs.interrupt bit DMAC_TO_IPU: ipu1Interrupt scheduled
  waiting,    \* cpuRegs.eCycle[4] = 0x9999: the channel waits for FIFO room
  irq,        \* the DMAC_TO_IPU completion interrupt raised by hwDmacIrq
  beis,       \* dmacRegs.stat.BEIS, raised by a tag fetch from a bad address
  guest,      \* what the guest believes: "idle", "active" or "suspended"
  suspends,   \* suspensions of the current transfer
  expected,   \* history: the quad-words the programmed transfer denotes
  delivered   \* history: the quad-words pushed into the FIFO since the start

vars == <<mem, ch, st, ifc, pending, waiting, irq, beis, guest, suspends,
          expected, delivered>>

MinOf(a, b) == IF a < b THEN a ELSE b

\* dmaGetAddr returns NULL for an address outside physical memory.
Valid(a) == a \in Addr

\* The quad-words at n consecutive addresses from a.
Block(a, n) == [i \in 1 .. n |-> a + i - 1]

-----------------------------------------------------------------------------
(***************************************************************************)
(* DMAC helpers the file calls (Dmac.h, not part of this source tree).     *)
(***************************************************************************)

\* hwDmacSrcTadrInc: in CNT mode the next tag follows the data just moved.
TadrInc(c) == IF c.tag.id = "CNT" THEN [c EXCEPT !.tadr = c.madr] ELSE c

\* hwDmacSrcChain: position MADR and TADR after a tag was read at TADR and
\* MADR was loaded from its ADDR field; the flag says the chain ends here.
SrcChainCh(c, id) ==
  CASE id = "REFE" -> c
    [] id = "CNT"  -> [c EXCEPT !.madr = c.tadr + 1, !.tadr = c.tadr + 1]
    [] id = "NEXT" -> [c EXCEPT !.madr = c.tadr + 1, !.tadr = c.madr]
    [] id = "REF"  -> [c EXCEPT !.tadr = c.tadr + 1]
    [] id = "END"  -> [c EXCEPT !.madr = c.tadr + 1]
SrcChainEnds(id) == id \in {"REFE", "END"}

-----------------------------------------------------------------------------
(***************************************************************************)
(* The file's functions, as operators from a snapshot r of the emulator    *)
(* state (fields ch, st, ifc, delivered, beis) to the snapshot after the   *)
(* call; IPU1dma's result also carries the quad-word count it returns and  *)
(* whether it returned before the scheduling at its end.                   *)
(***************************************************************************)

\* Mutant: InProgress is dropped after every burst, drained or not.
IPU1chainAlwaysIdle(r) ==
  LET move == r.ch.qwc > 0 /\ r.st.InProgress
      k    == IF move THEN MinOf(r.ch.qwc, FifoCap - r.ifc) ELSE 0
      c    == TadrInc([r.ch EXCEPT !.madr = @ + k, !.qwc = @ - k])
  IN IF move /\ ~Valid(r.ch.madr)
     THEN [r |-> r, n |-> 0]
     ELSE [r |-> [r EXCEPT !.ch = c, !.st.InProgress = FALSE, !.ifc = @ + k,
                           !.delivered = @ \o Block(r.ch.madr, k)],
           n |-> k]

\* Mutant: the burst is not clipped to the room left in the FIFO.
IPU1chainIgnoresRoom(r) ==
  LET move == r.ch.qwc > 0 /\ r.st.InProgress
      k    == IF move THEN r.ch.qwc ELSE 0
      c    == TadrInc([r.ch EXCEPT !.madr = @ + k, !.qwc = @ - k])
  IN IF move /\ ~Valid(r.ch.madr)
     THEN [r |-> r, n |-> 0]
     ELSE [r |-> [r EXCEPT !.ch = c,
                           !.st.InProgress = IF c.qwc = 0 THEN FALSE ELSE @,
                           !.ifc = @ + k,
                           !.delivered = @ \o Block(r.ch.madr, k)],
           n |-> k]

\* IPU1chain: move what the FIFO accepts from MADR, then update TADR and
\* InProgress.  A NULL source pointer returns before either update.
IPU1chain(r) ==
  LET move == r.ch.qwc > 0 /\ r.st.InProgress
      k    == IF move THEN MinOf(r.ch.qwc, FifoCap - r.ifc) ELSE 0
      c    == TadrInc([r.ch EXCEPT !.madr = @ + k, !.qwc = @ - k])
  IN IF move /\ ~Valid(r.ch.madr)
     THEN [r |-> r, n |-> 0]
     ELSE [r |-> [r EXCEPT !.ch = c,
                           !.st.InProgress = IF c.qwc = 0 THEN FALSE ELSE @,
                           !.ifc = @ + k,
                           !.delivered = @ \o Block(r.ch.madr, k)],
           n |-> k]

\* Mutant: MADR is loaded from ADDR after hwDmacSrcChain positioned it.
FetchTagMadrLate(r) ==
  LET g  == mem[r.ch.tadr]
      c0 == [r.ch EXCEPT !.tag = [id |-> g.id, irq |-> g.irq], !.qwc = g.qwc]
      r1 == [r EXCEPT !.ch = [SrcChainCh(c0, g.id) EXCEPT !.madr = g.addr],
                      !.st.ChainMode = g.id,
                      !.st.DMAFinished = SrcChainEnds(g.id)
                                           \/ (r.ch.tie /\ g.irq),
                      !.st.InProgress = IF g.qwc > 0 THEN TRUE ELSE @]
  IN IPU1chain(r1)

\* The tag-fetch branch of IPU1dma in chain mode: read the tag at TADR,
\* load QWC, CHCR.TAG, MADR and ChainMode from it, let hwDmacSrcChain
\* position the addresses, then run the first burst of the new tag.
FetchTag(r) ==
  LET g  == mem[r.ch.tadr]
      c0 == [r.ch EXCEPT !.tag = [id |-> g.id, irq |-> g.irq],
                         !.qwc = g.qwc, !.madr = g.addr]
      r1 == [r EXCEPT !.ch = SrcChainCh(c0, g.id),
                      !.st.ChainMode = g.id,
                      !.st.DMAFinished = SrcChainEnds(g.id)
                                           \/ (r.ch.tie /\ g.irq),
                      !.st.InProgress = IF g.qwc > 0 THEN TRUE ELSE @]
  IN IPU1chain(r1)

\* IPU1dma up to the interrupt scheduling at its end.
IPU1dmaBody(r) ==
  IF ~r.ch.str \/ r.st.DMAMode = "INTERLEAVE"
  THEN [r |-> r, n |-> 0, early |-> TRUE]
  ELSE IF r.st.DMAMode = "NORMAL"
  THEN LET a == IF r.st.InProgress THEN IPU1chain(r) ELSE [r |-> r, n |-> 0]
       IN [r |-> a.r, n |-> a.n, early |-> FALSE]
  ELSE LET a  == IF r.st.InProgress THEN IPU1chain(r) ELSE [r |-> r, n |-> 0]
           fetch == ~a.r.st.InProgress /\ ~a.r.st.DMAFinished
       IN IF ~fetch THEN [r |-> a.r, n |-> a.n, early |-> FALSE]
          ELSE IF ~Valid(a.r.ch.tadr)
          THEN [r |-> [a.r EXCEPT !.beis = TRUE], n |-> a.n, early |-> TRUE]
          ELSE LET b == FetchTag(a.r)
               IN [r |-> b.r, n |-> a.n + b.n, early |-> FALSE]

Snapshot == [ch |-> ch, st |-> st, ifc |-> ifc, delivered |-> delivered,
             beis |-> beis]

\* Mutant: a burst that moved nothing is not parked on 0x9999.
IPU1dmaFinishNoPark(a, p) ==
  /\ ch' = a.r.ch /\ st' = a.r.st /\ ifc' = a.r.ifc
  /\ delivered' = a.r.delivered /\ beis' = a.r.beis
  /\ IF ~a.early /\ (a.n > 0 \/ a.r.ch.qwc = 0)
     THEN pending' = TRUE /\ waiting' = FALSE
     ELSE pending' = p /\ UNCHANGED waiting

\* Install a snapshot and perform IPU1dma's scheduling: IPU_INT_TO when
\* data moved or the channel is empty, else park on eCycle[4] = 0x9999.
\* p is the event bit as the call found it.
IPU1dmaFinish(a, p) ==
  /\ ch' = a.r.ch
  /\ st' = a.r.st
  /\ ifc' = a.r.ifc
  /\ delivered' = a.r.delivered
  /\ beis' = a.r.beis
  /\ IF a.early
       THEN pending' = p /\ UNCHANGED waiting
     ELSE IF a.n > 0 \/ a.r.ch.qwc = 0
       THEN pending' = TRUE /\ waiting' = FALSE
     ELSE pending' = p /\ waiting' = TRUE

\* dmaIPU1: arm IPU1Status from the channel registers, then IPU1dma.
DmaIPU1Arm(r) ==
  IF r.ch.chain
  THEN IF r.ch.qwc = 0
       THEN [r EXCEPT !.st = [@ EXCEPT !.InProgress = FALSE,
                                       !.DMAFinished = FALSE,
                                       !.DMAMode = "CHAIN"]]
       ELSE [r EXCEPT !.st = [@ EXCEPT !.ChainMode = r.ch.tag.id,
                                       !.InProgress = TRUE,
                                       !.DMAFinished =
                                         r.ch.tag.id \in {"REFE", "END"}
                                           \/ (r.ch.tag.irq /\ r.ch.tie),
                                       !.DMAMode = "CHAIN"]]
  ELSE [r EXCEPT !.st = [@ EXCEPT !.InProgress = TRUE, !.DMAFinished = TRUE,
                                  !.DMAMode = "NORMAL"]]

\* (\E a \in {...} binds the outcome of the call once.)
DmaIPU1(r) == \E a \in {IPU1dmaBody(DmaIPU1Arm(r))} : IPU1dmaFinish(a, pending)

-----------------------------------------------------------------------------
(***************************************************************************)
(* The transfer a programmed channel denotes, by the DMAC tag semantics:   *)
(* CNT and NEXT carry their data after the tag, REF and REFE at ADDR, END  *)
(* after the tag; REFE and END end the chain, as does a tag with IRQ set   *)
(* while CHCR.TIE is set.  A walk stops at a bad address.                  *)
(***************************************************************************)
RECURSIVE ChainStream(_, _, _, _)
ChainStream(m, t, tie, fuel) ==
  IF fuel = 0 \/ ~Valid(t) THEN <<>>
  ELSE LET g    == m[t]
           body == IF g.id \in {"REF", "REFE"} THEN g.addr ELSE t + 1
           next == CASE g.id = "NEXT" -> g.addr
                     [] g.id = "REF"  -> t + 1
                     [] OTHER         -> t + 1 + g.qwc
           stop == SrcChainEnds(g.id) \/ (tie /\ g.irq)
                     \/ (g.qwc > 0 /\ ~Valid(body))
       IN (IF g.qwc > 0 /\ ~Valid(body) THEN <<>> ELSE Block(body, g.qwc))
            \o (IF stop THEN <<>> ELSE ChainStream(m, next, tie, fuel - 1))

-----------------------------------------------------------------------------
\* ipuDmaReset: IPU1Status back to an idle, finished, normal-mode channel.
\* ChainMode is left as it was.
IpuDmaReset(s) ==
  [s EXCEPT !.InProgress = FALSE, !.DMAMode = "NORMAL", !.DMAFinished = TRUE]

\* A zeroed ipu1ch (tag id 0 is REFE).
ZeroCh == [madr |-> 0, qwc |-> 0, tadr |-> 0, str |-> FALSE, chain |-> FALSE,
           tie |-> FALSE, tag |-> [id |-> "REFE", irq |-> FALSE]]

Init ==
  /\ mem \in MemImages
  \* ipuDmaReset on a zeroed channel and status block
  /\ ch = ZeroCh
  /\ st = IpuDmaReset([InProgress |-> TRUE, DMAFinished |-> FALSE,
                       DMAMode |-> "NORMAL", ChainMode |-> "REFE"])
  /\ ifc = 0
  /\ pending = FALSE
  /\ waiting = FALSE
  /\ irq = FALSE
  /\ beis = FALSE
  /\ guest = "idle"
  /\ suspends = 0
  /\ expected = <<>>
  /\ delivered = <<>>

\* The guest starts a transfer (CHCR write with STR set, the hwDmacWrite path
\* into dmaIPU1) once the previous one completed or faulted.  The
\* acknowledgement of the old interrupt and BEIS is part of the start.
StartGuard == guest = "idle" \/ irq \/ beis

StartNormal(a, n, tie) ==
  LET c == [ch EXCEPT !.madr = a, !.qwc = n, !.str = TRUE, !.chain = FALSE,
                      !.tie = tie]
  IN /\ StartGuard
     /\ DmaIPU1([Snapshot EXCEPT !.ch = c, !.delivered = <<>>, !.beis = FALSE])
     /\ expected' = IF n > 0 /\ ~Valid(a) THEN <<>> ELSE Block(a, n)
     /\ irq' = FALSE /\ guest' = "active" /\ suspends' = 0
     /\ UNCHANGED mem

StartChain(tie) ==
  LET c == [ch EXCEPT !.qwc = 0, !.tadr = 0, !.str = TRUE, !.chain = TRUE,
                      !.tie = tie]
  IN /\ StartGuard
     /\ DmaIPU1([Snapshot EXCEPT !.ch = c, !.delivered = <<>>, !.beis = FALSE])
     /\ expected' = ChainStream(mem, 0, tie, MaxTags)
     /\ irq' = FALSE /\ guest' = "active" /\ suspends' = 0
     /\ UNCHANGED mem

\* The guest clears CHCR.STR of a running transfer (IPU1dma then returns at
\* its first test), and later sets it again, which re-enters dmaIPU1; a
\* guest that saw the completion interrupt meanwhile starts afresh instead.
Suspend ==
  /\ guest = "active" /\ ~irq /\ ~beis
  /\ suspends < MaxSuspends
  /\ ch' = [ch EXCEPT !.str = FALSE]
  /\ guest' = "suspended"
  /\ suspends' = suspends + 1
  /\ UNCHANGED <<mem, st, ifc, pending, waiting, irq, beis, expected, delivered>>

Resume ==
  /\ guest = "suspended" /\ ~irq
  /\ DmaIPU1([Snapshot EXCEPT !.ch.str = TRUE])
  /\ guest' = "active"
  /\ UNCHANGED <<mem, irq, suspends, expected>>

\* Mutant: the sanity check looks at DMAFinished only.
Ipu1InterruptIgnoresBurst ==
  /\ pending
  /\ IF ~st.DMAFinished
     THEN /\ \E a \in {IPU1dmaBody(Snapshot)} : IPU1dmaFinish(a, FALSE)
          /\ UNCHANGED irq
     ELSE /\ ch' = [ch EXCEPT !.str = FALSE]
          /\ st' = [st EXCEPT !.DMAMode = "INTERLEAVE"]
          /\ irq' = TRUE
          /\ pending' = FALSE
          /\ UNCHANGED <<ifc, waiting, beis, delivered>>
  /\ UNCHANGED <<mem, guest, suspends, expected>>

\* ipu1Interrupt, when the scheduler fires the DMAC_TO_IPU event.
Ipu1Interrupt ==
  /\ pending
  /\ IF ~st.DMAFinished \/ st.InProgress
     \* the scheduler clears the event bit before the handler runs
     THEN /\ \E a \in {IPU1dmaBody(Snapshot)} : IPU1dmaFinish(a, FALSE)
          /\ UNCHANGED irq
     ELSE /\ ch' = [ch EXCEPT !.str = FALSE]
          /\ st' = [st EXCEPT !.DMAMode = "INTERLEAVE"]
          /\ irq' = TRUE
          /\ pending' = FALSE
          /\ UNCHANGED <<ifc, waiting, beis, delivered>>
  /\ UNCHANGED <<mem, guest, suspends, expected>>

\* The subsystem reset, at any point of a transfer: the hardware reset that
\* calls ipuDmaReset (outside this file) also zeroes the DMAC channel
\* registers, the IPU FIFO and the scheduler's events, and the guest
\* starts over.  Guest memory is kept.
Reset ==
  /\ ch' = ZeroCh
  /\ st' = IpuDmaReset(st)
  /\ ifc' = 0 /\ pending' = FALSE /\ waiting' = FALSE
  /\ irq' = FALSE /\ beis' = FALSE
  /\ guest' = "idle" /\ suspends' = 0
  /\ expected' = <<>> /\ delivered' = <<>>
  /\ UNCHANGED mem

\* The IPU decoder reads one quad-word from the input FIFO
\* (IPU_Fifo_Input::read): at a level of one or less it first re-schedules
\* a channel parked on 0x9999, and it reads nothing from an empty FIFO.
DecoderRead ==
  /\ ifc > 0 \/ waiting
  /\ IF ifc <= 1 /\ waiting
     THEN pending' = TRUE /\ waiting' = FALSE
     ELSE UNCHANGED <<pending, waiting>>
  /\ ifc' = IF ifc > 0 THEN ifc - 1 ELSE 0
  /\ UNCHANGED <<mem, ch, st, irq, beis, guest, suspends, expected, delivered>>

Next ==
  \/ \E a \in NormalAddrs, n \in 0 .. MaxQwc, tie \in BOOLEAN :
       StartNormal(a, n, tie)
  \/ \E tie \in BOOLEAN : StartChain(tie)
  \/ Suspend
  \/ Resume
  \/ Ipu1Interrupt
  \/ DecoderRead
  \/ Reset

Spec == Init /\ [][Next]_vars

\* The scheduler fires every pending event, the decoder keeps draining the
\* FIFO while it holds data, and a suspending guest resumes.
Fairness == WF_vars(Ipu1Interrupt) /\ WF_vars(DecoderRead) /\ WF_vars(Resume)

FairSpec == Spec /\ Fairness

-----------------------------------------------------------------------------
(***************************************************************************)
(* Properties.                                                             *)
(***************************************************************************)

TypeOK ==
  /\ mem \in MemImages
  /\ ch.qwc \in Nat /\ ch.madr \in Nat /\ ch.tadr \in Nat
  /\ ch.str \in BOOLEAN /\ ch.chain \in BOOLEAN /\ ch.tie \in BOOLEAN
  /\ ch.tag \in [id : TagIds, irq : BOOLEAN]
  /\ st \in [InProgress : BOOLEAN, DMAFinished : BOOLEAN,
             DMAMode : {"NORMAL", "CHAIN", "INTERLEAVE"}, ChainMode : TagIds]
  /\ ifc \in 0 .. FifoCap
  /\ {pending, waiting, irq, beis} \subseteq BOOLEAN
  /\ guest \in {"idle", "active", "suspended"}
  /\ suspends \in 0 .. MaxSuspends
  /\ expected \in Seq(Nat) /\ delivered \in Seq(Nat)

\* What IPU1dma pushes into the IPU input FIFO is always the beginning of
\* the transfer the guest programmed: across partial bursts into a full
\* FIFO, tag fetches, ipu1Interrupt re-entries and CHCR suspend/resume, no
\* quad-word is skipped, repeated or taken out of order.
StreamPrefix == IsPrefix(delivered, expected)

\* ipu1Interrupt raises the completion interrupt only once every quad-word
\* of the programmed transfer has been pushed into the FIFO.
CompleteOnIrq == irq => delivered = expected

\* ipu1Interrupt never raises the completion interrupt while the channel
\* still holds quad-words to move, whatever the FIFO level and however the
\* guest suspended and resumed the transfer.
IrqOnlyWhenDrained == irq => ch.qwc = 0 /\ ~st.InProgress

\* A transfer over valid memory always completes, unless a reset abandons
\* it: a burst stalled on a full FIFO is re-armed through eCycle[4] = 0x9999
\* and the decoder's read, and zero-length tags are stepped over through
\* IPU_INT_TO(0).  (Only Reset makes the guest idle again.)
TransferCompletes == (guest # "idle") ~> (irq \/ guest = "idle")

-----------------------------------------------------------------------------
(***************************************************************************)
(* Refinement: the toIPU channel implements the abstract DMA source.  The  *)
(* programmed stream is the transfer's history, what was handed over is    *)
(* what IPU1dma pushed into the FIFO, completion is the DMAC_TO_IPU        *)
(* interrupt and the bus error is BEIS; registers, IPU1Status, the FIFO    *)
(* level, the scheduler bit and guest suspension are hidden.               *)
(***************************************************************************)
Source == INSTANCE DmaSource
            WITH Data <- Nat, program <- expected, sent <- delivered,
                 done <- irq, fault <- beis, active <- guest # "idle"

\* Every step of dmaIPU1, IPU1dma, ipu1Interrupt, the decoder and the
\* guest is a step of the abstract source or leaves it unchanged: the
\* stream handed to the IPU only grows, in order, within a transfer,
\* completion is raised once and only on a fully handed-over stream, and
\* a new transfer is programmed only after completion or a bus error.
SourceRefined == Source!Spec
=============================================================================
