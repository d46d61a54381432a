----------------------------- MODULE MC_IPU1Dma -----------------------------
(***************************************************************************)
(* Memory images and bounds for checking IPU1Dma.  Addresses are quad-word *)
(* indices; 0..5 is valid memory, 7 and 9 are outside it.  Quad-words that *)
(* hold data are filled with D, whose parse as a tag is never read.        *)
(***************************************************************************)
EXTENDS IPU1Dma

T(id, q, a, i) == [id |-> id, qwc |-> q, addr |-> a, irq |-> i]
D == T("CNT", 0, 0, FALSE)

\* CNT -> NEXT -> END: data after each tag, a jump, then the terminal tag.
ImgCntNextEnd == <<T("CNT", 1, 0, FALSE), D, T("NEXT", 1, 4, FALSE), D,
                   T("END", 1, 0, FALSE), D>>
\* REF -> REFE: data taken from ADDR, two bursts larger than the FIFO.
ImgRefRefe == <<T("REF", 2, 3, FALSE), T("REFE", 2, 4, FALSE), D, D, D, D>>
\* A CNT tag with IRQ set: the chain ends there when CHCR.TIE is set.
ImgIrq == <<T("CNT", 1, 0, TRUE), D, T("END", 2, 0, FALSE), D, D, D>>
\* A zero-length CNT, a zero-length NEXT, then a NEXT to a bad address.
ImgBadTag == <<T("CNT", 0, 0, FALSE), T("NEXT", 0, 3, FALSE), D,
               T("NEXT", 1, 9, FALSE), D, D>>
\* A REFE whose data lies outside memory.
ImgBadData == <<T("REFE", 2, 7, FALSE), D, D, D, D, D>>

\* TLC sequences are functions on 1..n; memory is indexed from 0.
AsMem(img) == [a \in 0 .. 5 |-> img[a + 1]]

MCMemImages == {AsMem(i) : i \in {ImgCntNextEnd, ImgRefRefe, ImgIrq,
                                  ImgBadTag, ImgBadData}}
MCValidImages == {AsMem(i) : i \in {ImgCntNextEnd, ImgRefRefe, ImgIrq}}
=============================================================================
