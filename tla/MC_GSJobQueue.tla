---------------------------- MODULE MC_GSJobQueue ----------------------------
(* A ring of two jobs and three jobs pushed: the third push finds the ring *)
(* full while the worker still runs the first.                             *)
EXTENDS GSJobQueue
=============================================================================
