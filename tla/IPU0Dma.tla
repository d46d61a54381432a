------------------------------- MODULE IPU0Dma -------------------------------
(***************************************************************************)
(* The fromIPU DMA channel (IPU0) of pcsx2/IPU/IPUdma.cpp: the channel     *)
(* registers ipu0ch (normal mode only, as IPU0dma asserts), the IPU output *)
(* FIFO level OFC it drains, the stall-control registers of the DMAC, the  *)
(* flag block g_nDMATransfer, and the DMAC_FROM_IPU scheduler event.  The  *)
(* guest starts, suspends and resumes the channel through CHCR; the IPU    *)
(* decoder fills the output FIFO.  Each C++ entry point is one action.     *)
(***************************************************************************)
EXTENDS Naturals, Sequences

CONSTANTS
  FifoCap,      \* capacity of the IPU output FIFO in quad-words (8)
  StartAddrs,   \* MADR values the guest programs
  MaxQwc,       \* largest QWC the guest programs
  MaxSuspends   \* bound on guest suspensions (CHCR.STR := 0) per transfer

StallDrains == {"NO_STD", "STD_GIF", "STD_VIF1", "STD_SIF1"}

ASSUME /\ FifoCap \in Nat \ {0}
       /\ StartAddrs \subseteq Nat
       /\ MaxQwc \in Nat \ {0}
       /\ MaxSuspends \in Nat

VARIABLES
  ch0,        \* ipu0ch: madr, qwc, chcr.STR
  dmac,       \* dmacRegs: ctrl.STS = fromIPU (sts), ctrl.STD (std), stadr
  xfer,       \* g_nDMATransfer: FIREINT0, GIFSTALL, VIFSTALL, SIFSTALL
  ofc,        \* ipuRegs.ctrl.OFC, quad-words held by the output FIFO
  pending0,   \* cpuRegs.interrupt bit DMAC_FROM_IPU: ipu0Interrupt scheduled
  irq0,       \* the DMAC_FROM_IPU completion interrupt (hwDmacIrq)
  intcIpu,    \* the INTC_IPU interrupt (hwIntcIrq)
  guest0,     \* "idle", "active" or "suspended"
  suspends0,  \* suspensions of the current transfer
  start0,     \* history: MADR and QWC the guest programmed
  written     \* history: addresses stored to since the start, in order

vars == <<ch0, dmac, xfer, ofc, pending0, irq0, intcIpu, guest0, suspends0,
          start0, written>>

MinOf(a, b) == IF a < b THEN a ELSE b

\* The addresses of n consecutive quad-words from a.
Block(a, n) == [i \in 1 .. n |-> a + i - 1]

NoFlags == [FIREINT0 |-> FALSE, GIFSTALL |-> FALSE, VIFSTALL |-> FALSE,
            SIFSTALL |-> FALSE]

\* The flag IPU0dma raises for the channel that stalls on fromIPU.
StallFlag(std) == CASE std = "STD_GIF"  -> "GIFSTALL"
                    [] std = "STD_VIF1" -> "VIFSTALL"
                    [] std = "STD_SIF1" -> "SIFSTALL"

-----------------------------------------------------------------------------
\* Mutant: the stall address is taken before MADR moves past the burst.
IPU0dmaStallEarly(p) ==
  LET n == MinOf(ch0.qwc, ofc)
      c == [ch0 EXCEPT !.madr = @ + n, !.qwc = @ - n]
      stall == dmac.sts /\ c.qwc = 0
  IN IF ofc = 0 \/ ~ch0.str \/ p \/ ch0.qwc = 0
     THEN pending0' = p /\ UNCHANGED <<ch0, ofc, written, dmac, xfer>>
     ELSE /\ ch0' = c
          /\ ofc' = ofc - n
          /\ written' = written \o Block(ch0.madr, n)
          /\ dmac' = IF stall THEN [dmac EXCEPT !.stadr = ch0.madr] ELSE dmac
          /\ xfer' = IF stall /\ dmac.std # "NO_STD"
                     THEN [xfer EXCEPT ![StallFlag(dmac.std)] = TRUE]
                     ELSE xfer
          /\ pending0' = TRUE

\* Mutant: readsize is QWC, ignoring how much the output FIFO holds.
IPU0dmaIgnoresOfc(p) ==
  LET n == ch0.qwc
  IN IF ofc = 0 \/ ~ch0.str \/ p \/ ch0.qwc = 0
     THEN pending0' = p /\ UNCHANGED <<ch0, ofc, written, dmac, xfer>>
     ELSE /\ ch0' = [ch0 EXCEPT !.madr = @ + n, !.qwc = 0]
          /\ ofc' = ofc - n
          /\ written' = written \o Block(ch0.madr, n)
          /\ dmac' = IF dmac.sts THEN [dmac EXCEPT !.stadr = ch0.madr + n]
                     ELSE dmac
          /\ xfer' = xfer
          /\ pending0' = TRUE

\* Mutant: MADR advances by the FIFO level rather than by readsize.
IPU0dmaMadrByOfc(p) ==
  LET n == MinOf(ch0.qwc, ofc)
      c == [ch0 EXCEPT !.madr = @ + ofc, !.qwc = @ - n]
  IN IF ofc = 0 \/ ~ch0.str \/ p \/ ch0.qwc = 0
     THEN pending0' = p /\ UNCHANGED <<ch0, ofc, written, dmac, xfer>>
     ELSE /\ ch0' = c
          /\ ofc' = ofc - n
          /\ written' = written \o Block(ch0.madr, n)
          /\ dmac' = IF dmac.sts /\ c.qwc = 0
                     THEN [dmac EXCEPT !.stadr = c.madr] ELSE dmac
          /\ xfer' = xfer
          /\ pending0' = TRUE

\* IPU0dma, p being the event bit as the call finds it.  With an empty FIFO
\* it only lets the decoder run; with STR clear, the event pending or
\* nothing left to move it returns.  Otherwise it stores min(QWC, OFC)
\* quad-words at MADR, applies stall control once QWC reaches 0, and
\* schedules IPU_INT_FROM.  (IPUProcessInterrupt lets the decoder run,
\* which DecoderWrite models.)
IPU0dma(p) ==
  LET n == MinOf(ch0.qwc, ofc)
      c == [ch0 EXCEPT !.madr = @ + n, !.qwc = @ - n]
      stall == dmac.sts /\ c.qwc = 0
  IN IF ofc = 0 \/ ~ch0.str \/ p \/ ch0.qwc = 0
     THEN pending0' = p /\ UNCHANGED <<ch0, ofc, written, dmac, xfer>>
     ELSE /\ ch0' = c
          /\ ofc' = ofc - n
          /\ written' = written \o Block(ch0.madr, n)
          /\ dmac' = IF stall THEN [dmac EXCEPT !.stadr = c.madr] ELSE dmac
          /\ xfer' = IF stall /\ dmac.std # "NO_STD"
                     THEN [xfer EXCEPT ![StallFlag(dmac.std)] = TRUE]
                     ELSE xfer
          /\ pending0' = TRUE

\* Mutant: the scheduler clears the DMAC_FROM_IPU bit only after the
\* handler ran, so IPU0dma sees its own event still pending.
Ipu0InterruptBitStillSet ==
  /\ pending0
  /\ IF ch0.qwc > 0
     THEN IPU0dma(TRUE) /\ UNCHANGED <<irq0, intcIpu>>
     ELSE /\ intcIpu' = (intcIpu \/ xfer.FIREINT0)
          /\ xfer' = NoFlags
          /\ ch0' = [ch0 EXCEPT !.str = FALSE]
          /\ irq0' = TRUE
          /\ pending0' = FALSE
          /\ UNCHANGED <<dmac, ofc, written>>
  /\ UNCHANGED <<guest0, suspends0, start0>>

\* ipu0Interrupt, after the scheduler cleared the event bit: keep draining
\* while QWC is left; otherwise raise INTC_IPU if FIREINT0 asked for it,
\* drop the stall flags, clear STR and raise the channel interrupt.
Ipu0Interrupt ==
  /\ pending0
  /\ IF ch0.qwc > 0
     THEN IPU0dma(FALSE) /\ UNCHANGED <<irq0, intcIpu>>
     ELSE /\ intcIpu' = (intcIpu \/ xfer.FIREINT0)
          /\ xfer' = NoFlags
          /\ ch0' = [ch0 EXCEPT !.str = FALSE]
          /\ irq0' = TRUE
          /\ pending0' = FALSE
          /\ UNCHANGED <<dmac, ofc, written>>
  /\ UNCHANGED <<guest0, suspends0, start0>>

\* Mutant: dmaIPU0 releases the whole destination buffer at once.
DmaIPU0StallAtEnd(c, d) ==
  /\ ch0' = c
  /\ dmac' = IF d.sts THEN [d EXCEPT !.stadr = c.madr + c.qwc] ELSE d
  /\ pending0' = TRUE

\* dmaIPU0, on the guest's CHCR write that sets STR: under stall control
\* STADR starts at MADR; the first ipu0Interrupt comes IPU_INT_FROM(160).
DmaIPU0(c, d) ==
  /\ ch0' = c
  /\ dmac' = IF d.sts THEN [d EXCEPT !.stadr = c.madr] ELSE d
  /\ pending0' = TRUE

-----------------------------------------------------------------------------
Init ==
  /\ ch0 = [madr |-> 0, qwc |-> 0, str |-> FALSE]
  /\ dmac = [sts |-> FALSE, std |-> "NO_STD", stadr |-> 0]
  /\ xfer = NoFlags
  /\ ofc = 0
  /\ pending0 = FALSE
  /\ irq0 = FALSE
  /\ intcIpu = FALSE
  /\ guest0 = "idle"
  /\ suspends0 = 0
  /\ start0 = [madr |-> 0, qwc |-> 0]
  /\ written = <<>>

\* The guest programs MADR, QWC and the DMAC stall control, and sets STR,
\* once the previous transfer completed.
Start0(a, n, sts, std) ==
  /\ guest0 = "idle" \/ irq0
  /\ DmaIPU0([madr |-> a, qwc |-> n, str |-> TRUE],
             [dmac EXCEPT !.sts = sts, !.std = std])
  /\ irq0' = FALSE
  /\ guest0' = "active" /\ suspends0' = 0
  /\ start0' = [madr |-> a, qwc |-> n]
  /\ written' = <<>>
  /\ UNCHANGED <<xfer, ofc, intcIpu>>

\* The guest clears STR of a running transfer, and later sets it again.
Suspend0 ==
  /\ guest0 = "active" /\ ~irq0
  /\ suspends0 < MaxSuspends
  /\ ch0' = [ch0 EXCEPT !.str = FALSE]
  /\ guest0' = "suspended" /\ suspends0' = suspends0 + 1
  /\ UNCHANGED <<dmac, xfer, ofc, pending0, irq0, intcIpu, start0, written>>

Resume0 ==
  /\ guest0 = "suspended" /\ ~irq0
  /\ DmaIPU0([ch0 EXCEPT !.str = TRUE], dmac)
  /\ guest0' = "active"
  /\ UNCHANGED <<xfer, ofc, irq0, intcIpu, suspends0, start0, written>>

\* The decoder stores one quad-word in the output FIFO
\* (IPU_Fifo_Output::write) and, with the channel enabled, asks for an
\* ipu0Interrupt (IPU_INT_FROM(1)).
DecoderWrite ==
  /\ ofc < FifoCap
  /\ ofc' = ofc + 1
  /\ pending0' = (pending0 \/ ch0.str)
  /\ UNCHANGED <<ch0, dmac, xfer, irq0, intcIpu, guest0, suspends0, start0,
                 written>>

\* A decoder command ends with its interrupt requested (FIREINT0).
DecoderCommandEnd ==
  /\ ~xfer.FIREINT0
  /\ xfer' = [xfer EXCEPT !.FIREINT0 = TRUE]
  /\ UNCHANGED <<ch0, dmac, ofc, pending0, irq0, intcIpu, guest0, suspends0,
                 start0, written>>

Next ==
  \/ \E a \in StartAddrs, n \in 0 .. MaxQwc, sts \in BOOLEAN,
        std \in StallDrains : Start0(a, n, sts, std)
  \/ Suspend0
  \/ Resume0
  \/ Ipu0Interrupt
  \/ DecoderWrite
  \/ DecoderCommandEnd

Spec == Init /\ [][Next]_vars

\* The scheduler fires pending events, the decoder keeps producing while
\* there is room, and a suspending guest resumes.
FairSpec == Spec /\ WF_vars(Ipu0Interrupt) /\ WF_vars(DecoderWrite)
                 /\ WF_vars(Resume0)

-----------------------------------------------------------------------------
TypeOK ==
  /\ ch0 \in [madr : Nat, qwc : 0 .. MaxQwc, str : BOOLEAN]
  /\ dmac \in [sts : BOOLEAN, std : StallDrains, stadr : Nat]
  /\ xfer \in [{"FIREINT0", "GIFSTALL", "VIFSTALL", "SIFSTALL"} -> BOOLEAN]
  /\ ofc \in 0 .. FifoCap
  /\ pending0 \in BOOLEAN /\ irq0 \in BOOLEAN /\ intcIpu \in BOOLEAN
  /\ guest0 \in {"idle", "active", "suspended"}
  /\ suspends0 \in 0 .. MaxSuspends
  /\ start0 \in [madr : StartAddrs \cup {0}, qwc : 0 .. MaxQwc]
  /\ written \in Seq(Nat)

\* Memory receives the decoder output at consecutive addresses from the
\* programmed MADR, and every quad-word stored is one QWC no longer owes,
\* across partial bursts, an empty FIFO and guest suspensions (IPU0dma
\* advances MADR and QWC by the same readsize it stores).
WrittenContiguous ==
  /\ written = Block(start0.madr, Len(written))
  /\ Len(written) + ch0.qwc = start0.qwc
  /\ ch0.madr = start0.madr + Len(written)

\* Under stall control (STS = fromIPU) a completed transfer has released
\* everything it stored to the stalled consumer: STADR, the limit the GIF,
\* VIF1 or SIF1 channel may read up to, equals the final MADR.  IPU0dma
\* sets STADR only when QWC reaches 0, after MADR moved.
StallReleasesAll ==
  (irq0 /\ dmac.sts) => dmac.stadr = ch0.madr

\* The stall limit never runs ahead of the data: whatever STADR allows the
\* consumer to read was already stored by this transfer.
StallNeverAhead ==
  (dmac.sts /\ guest0 # "idle") =>
     /\ start0.madr <= dmac.stadr
     /\ dmac.stadr <= start0.madr + Len(written)

\* A started fromIPU transfer raises its DMAC_FROM_IPU interrupt: neither
\* an empty output FIFO (IPU0dma returns without rescheduling) nor a
\* suspension loses the event for good.
TransferCompletes == (guest0 # "idle" /\ ~irq0) ~> irq0
=============================================================================
