------------------------------ MODULE MCTriNet ------------------------------
(* Two regions, one account of 20, orders of at most 4 and a limit of 10%. *)
EXTENDS TriNet, TLC

CONSTANTS sg, tk, sc

WinOrLose == {-1, 1}

Regions == Permutations({sg, tk})
=============================================================================
