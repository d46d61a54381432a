------------------------------ MODULE MC_WxModules ------------------------------
(* Three module classes as model values; the registry treats them alike.   *)
EXTENDS WxModules, TLC

CONSTANTS a, b, c

MCClasses == {a, b, c}
MCSymmetry == Permutations(MCClasses)
=============================================================================
