---------------------------- MODULE MC_GSCodeBuffer ----------------------------
(* Request sizes: empty, below, at and above one 16-byte unit, and a whole  *)
(* block.                                                                   *)
EXTENDS GSCodeBuffer

MCSizes == {0, 8, 16, 20, 48}
=============================================================================
