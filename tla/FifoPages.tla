------------------------------- MODULE FifoPages -------------------------------
(***************************************************************************)
(* The VIF1 and GIF FIFO register pages of pcsx2/FiFo.cpp, with the parts  *)
(* of the GIF unit and the GS download they drive.  The two directions     *)
(* share the GIF's OPH status bit.                                         *)
(*                                                                         *)
(* Writes.  The guest writes quad-words to the GIF FIFO page               *)
(* (WriteFIFO_GIF): with PATH3 able to run and the hardware FIFO empty     *)
(* they go straight to the GS, otherwise into gif_fifo.  Writes to the     *)
(* VIF1 FIFO page (WriteFIFO_VIF1) run VIF1 commands, which may own the    *)
(* GIF as PATH2 (APATH = 2); when that path is done the write gives the    *)
(* GIF back and lets the other paths run.  Quad-words are numbered in the  *)
(* order the guest writes them.                                            *)
(*                                                                         *)
(* Reads.  A GS-to-memory download of n quad-words (set up by VIF1 and GS  *)
(* code outside this file) sets FDR, vif1.GSLastDownloadSize := n,         *)
(* FQC := min(16, n) and OPH.  Each guest read of the VIF1 page            *)
(* (ReadFIFO_VIF1) returns the next quad-word from the GS while FQC is     *)
(* non-zero, and a zero quad-word otherwise.  GSLastDownloadSize is a u32: *)
(* it is kept modulo 2^SizeBits.                                           *)
(*                                                                         *)
(* The GIF unit (Gif_Unit.h) is not in this source tree; CanDoPath3,       *)
(* gif_fifo and Execute are modelled from the spec: PATH3 may run when no  *)
(* other path owns the GIF and it is not masked, read_fifo hands the FIFO  *)
(* to the GS when PATH3 may run, and write_fifo stores the quad-word.      *)
(***************************************************************************)
EXTENDS Naturals, Sequences

CONSTANTS
  GifFifoCap,  \* capacity of the hardware GIF FIFO in quad-words (16)
  MaxWrites,   \* bound on the guest's writes to the GIF FIFO page
  MaxVifOps,   \* bound on VIF1 page writes and other GIF traffic
  Sizes,       \* the download sizes the GS sets up, in quad-words
  SizeBits,    \* the width of GSLastDownloadSize (32; smaller for TLC)
  MaxReads     \* bound on the guest's reads of the VIF1 page

Wrap(x) == x % (2 ^ SizeBits)
MinOf(a, b) == IF a < b THEN a ELSE b

VARIABLES
  fifo,      \* gif_fifo: the quad-words it holds, oldest first
  gs,        \* the PATH3 quad-words handed to the GS, in order
  written,   \* history: the quad-words written to the GIF FIFO page
  apath,     \* gifRegs.stat.APATH: 0 idle, 2 PATH2, 3 PATH3
  oph,       \* gifRegs.stat.OPH
  masked,    \* PATH3 masked (VIF1 MSKPATH3 or GIF_MODE.M3R)
  path3,     \* gifUnit.gifPath[GIF_PATH_3].state: IDLE or WAIT
  vps,       \* vif1Regs.stat.VPS: IDLE or WAITING
  vgw,       \* vif1Regs.stat.VGW: VIF1 stuck on a flush waiting for the GIF
  ops,       \* VIF1 page writes and other GIF traffic so far
  fdr,       \* vif1Regs.stat.FDR: the VIF1 FIFO runs GS -> memory
  fqc,       \* vif1Regs.stat.FQC
  size,      \* vif1.GSLastDownloadSize
  reads,     \* the guest's reads of the VIF1 page so far
  vps0,      \* vif0Regs.stat.VPS: IDLE or WAITING
  qwc0       \* vif0ch.qwc

wvars == <<fifo, gs, written, apath, masked, path3, vps, vgw, ops>>
rvars == <<fdr, fqc, size, reads>>
vif0 == <<vps0, qwc0>>
vars == <<wvars, oph, rvars, vif0>>

\* gifUnit.CanDoPath3(): no other path owns the GIF and PATH3 is not masked.
CanDoPath3 == apath \in {0, 3} /\ ~masked

\* gif_fifo.read_fifo(): when PATH3 may run, the FIFO goes to the GS.
ReadFifo(f, g) ==
  IF CanDoPath3 THEN [fifo |-> <<>>, gs |-> g \o f] ELSE [fifo |-> f, gs |-> g]

Init ==
  /\ fifo = <<>> /\ gs = <<>> /\ written = <<>>
  /\ apath = 0 /\ oph = FALSE /\ masked = FALSE /\ path3 = "IDLE"
  /\ vps = "IDLE" /\ vgw = FALSE /\ ops = 0
  /\ fdr = FALSE /\ fqc = 0 /\ size = 0
  /\ reads = 0
  /\ vps0 = "IDLE" /\ qwc0 = 0

-----------------------------------------------------------------------------
\* Mutant: the quad-word goes straight to the GS whenever PATH3 may run.
WriteFIFO_GIFBypass ==
  LET q == Len(written) + 1
      direct == CanDoPath3
      r == IF direct THEN [fifo |-> fifo, gs |-> Append(gs, q)]
           ELSE ReadFifo(Append(fifo, q), gs)
      ap == IF direct THEN 3 ELSE apath
  IN /\ Len(written) < MaxWrites
     /\ written' = Append(written, q)
     /\ fifo' = r.fifo /\ gs' = r.gs
     /\ path3' = IF path3 = "WAIT" THEN "IDLE" ELSE path3
     /\ apath' = IF ap = 3 THEN 0 ELSE ap
     /\ oph' = IF ap = 3 THEN FALSE ELSE oph
     /\ UNCHANGED <<masked, vps, vgw, ops, rvars, vif0>>

\* WriteFIFO_GIF: with PATH3 blocked or quad-words already buffered, write
\* to gif_fifo and let read_fifo pass it on; else TransferGSPacketData,
\* which makes PATH3 the active path.  A waiting PATH3 becomes idle; an
\* active PATH3 gives the GIF back (APATH and OPH cleared) and Execute runs
\* the other paths, none of which is pending here.
WriteFIFO_GIF ==
  LET q == Len(written) + 1
      direct == CanDoPath3 /\ fifo = <<>>
      r == IF direct THEN [fifo |-> fifo, gs |-> Append(gs, q)]
           ELSE ReadFifo(Append(fifo, q), gs)
      ap == IF direct THEN 3 ELSE apath
  IN /\ Len(written) < MaxWrites
     /\ written' = Append(written, q)
     /\ fifo' = r.fifo /\ gs' = r.gs
     /\ path3' = IF path3 = "WAIT" THEN "IDLE" ELSE path3
     /\ apath' = IF ap = 3 THEN 0 ELSE ap
     /\ oph' = IF ap = 3 THEN FALSE ELSE oph
     /\ UNCHANGED <<masked, vps, vgw, ops, rvars, vif0>>

\* WriteFIFO_VIF1: VIF1transfer runs the quad-word (its outcome is an
\* input: a command left in progress, the VIF done, the channel's QWC at
\* zero, PATH2's packet done); VPS follows, and a finished PATH2 gives the
\* GIF back, releases a VIF1 flush and lets Execute run PATH3's FIFO.
WriteFIFO_VIF1(cmd, done, qwcZero, path2Done) ==
  /\ ops < MaxVifOps
  /\ ops' = ops + 1
  /\ vps' = IF cmd THEN (IF done /\ qwcZero THEN "WAITING" ELSE vps) ELSE "IDLE"
  /\ IF apath = 2 /\ path2Done
     THEN /\ apath' = 0 /\ oph' = FALSE /\ vgw' = FALSE
          \* gifUnit.Execute: PATH3 is now free to drain the FIFO
          /\ LET r == [fifo |-> <<>>, gs |-> gs \o fifo]
             IN IF ~masked THEN fifo' = r.fifo /\ gs' = r.gs
                ELSE UNCHANGED <<fifo, gs>>
     ELSE UNCHANGED <<apath, oph, vgw, fifo, gs>>
  /\ UNCHANGED <<written, masked, path3, rvars, vif0>>

\* ReadFIFO_VIF1: the output is cleared; with FDR set and FQC non-zero the
\* GS hands over its next quad-word (GSreadFIFO after the MTGS waits),
\* GSLastDownloadSize is decremented, OPH is cleared at 16 or less, and FQC
\* becomes min(16, GSLastDownloadSize).
ReadFIFO_VIF1 ==
  /\ reads < MaxReads
  /\ reads' = reads + 1
  /\ IF fdr /\ fqc > 0
     THEN /\ size' = Wrap(size + 2 ^ SizeBits - 1)
          /\ oph' = IF size' <= 16 THEN FALSE ELSE oph
          /\ fqc' = MinOf(16, size')
     ELSE UNCHANGED <<size, oph, fqc>>
  /\ UNCHANGED <<fdr, wvars, vif0>>

\* WriteFIFO_VIF0: the quad-word is counted into vif0ch.qwc and run by
\* VIF0transfer, whose outcome is an input (it consumed the quad-word or
\* not, leaves a command in progress or not, the VIF is done or not); VPS
\* becomes WAITING only for a command in progress with the VIF done and
\* QWC back at zero, and IDLE when no command is in progress.
WriteFIFO_VIF0(consumed, cmd, done) ==
  LET q == qwc0 + 1 - (IF consumed THEN 1 ELSE 0)
  IN /\ ops < MaxVifOps
     /\ ops' = ops + 1 /\ qwc0' = q
     /\ vps0' = IF cmd THEN (IF done /\ q = 0 THEN "WAITING" ELSE vps0) ELSE "IDLE"
     /\ UNCHANGED <<fifo, gs, written, apath, oph, masked, path3, vps, vgw, rvars>>

-----------------------------------------------------------------------------
(* The rest of the GIF and VIF1, outside this file.                        *)

\* A VIF1 DIRECT command takes the idle GIF as PATH2; a FLUSH may then wait
\* for it (VGW).
Path2Start ==
  /\ apath = 0 /\ ops < MaxVifOps
  /\ apath' = 2 /\ oph' = TRUE /\ ops' = ops + 1
  /\ vgw' \in BOOLEAN
  /\ UNCHANGED <<fifo, gs, written, masked, path3, vps, rvars, vif0>>

\* MSKPATH3 / GIF_MODE masks or unmasks PATH3; PATH3 may go to WAIT.
Mask(b) ==
  /\ ops < MaxVifOps /\ masked # b
  /\ masked' = b /\ ops' = ops + 1
  /\ path3' \in {path3, "WAIT"}
  /\ UNCHANGED <<fifo, gs, written, apath, oph, vps, vgw, rvars, vif0>>

\* The GIF unit's own read_fifo (from the GIF DMA and interrupt paths).
GifDrain ==
  /\ fifo # <<>> /\ CanDoPath3
  /\ fifo' = <<>> /\ gs' = gs \o fifo
  /\ UNCHANGED <<written, apath, oph, masked, path3, vps, vgw, ops, rvars, vif0>>

\* The GS download starts (outside this file): the previous one was read out.
StartDownload(n) ==
  /\ fqc = 0
  /\ fdr' = TRUE /\ size' = n /\ fqc' = MinOf(16, n) /\ oph' = (n > 0)
  /\ UNCHANGED <<reads, wvars, vif0>>

Next ==
  \/ WriteFIFO_GIF
  \/ \E cmd, done, qwcZero, path2Done \in BOOLEAN :
       WriteFIFO_VIF1(cmd, done, qwcZero, path2Done)
  \/ \E consumed, cmd, done \in BOOLEAN : WriteFIFO_VIF0(consumed, cmd, done)
  \/ ReadFIFO_VIF1
  \/ Path2Start
  \/ \E b \in BOOLEAN : Mask(b)
  \/ GifDrain
  \/ \E n \in Sizes : StartDownload(n)

Spec == Init /\ [][Next]_vars

-----------------------------------------------------------------------------
TypeOK ==
  /\ fifo \in Seq(Nat) /\ gs \in Seq(Nat) /\ written \in Seq(Nat)
  /\ apath \in {0, 2, 3} /\ {oph, masked, vgw, fdr} \subseteq BOOLEAN
  /\ path3 \in {"IDLE", "WAIT"}
  /\ vps \in {"IDLE", "WAITING"} /\ ops \in 0 .. MaxVifOps
  /\ fqc \in 0 .. 16 /\ size \in 0 .. 2 ^ SizeBits - 1
  /\ reads \in 0 .. MaxReads
  /\ vps0 \in {"IDLE", "WAITING"} /\ qwc0 \in 0 .. MaxVifOps

\* The GS receives the quad-words written to the GIF FIFO page in the order
\* they were written, none lost or repeated, however PATH2 ownership and
\* PATH3 masking changed between the writes: what reached the GS followed
\* by what gif_fifo still holds is exactly what the guest wrote.
Path3InOrder == gs \o fifo = written
=============================================================================
