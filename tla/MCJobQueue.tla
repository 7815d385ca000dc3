----------------------------- MODULE MCJobQueue -----------------------------
(* Keys share nothing, so one is enough.  Three tasks and three messages:  *)
(* two requests can overlap while a worker already handles the message of  *)
(* the first.                                                              *)
EXTENDS JobQueue, TLC
Symmetry == Permutations(Tasks)
=============================================================================
