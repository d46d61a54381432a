----------------------------- MODULE MC_SysThread -----------------------------
(* Controller threads as model values.                                     *)
EXTENDS SysThread

CONSTANTS c1, c2

MCOneController == {c1}
MCTwoControllers == {c1, c2}
=============================================================================
