----------------------------- MODULE MC_IPU0Dma -----------------------------
(* Model values for checking IPU0Dma: two start addresses far enough apart *)
(* that a wrong MADR or STADR shows, a FIFO smaller than the largest QWC   *)
(* so that transfers take several bursts.                                  *)
EXTENDS IPU0Dma

MCStartAddrs == {1, 8}
=============================================================================
