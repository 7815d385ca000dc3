------------------------------ MODULE MCApexNeo ------------------------------
(* A capital of ten, of which a fifth may be lost, and a stop of one that  *)
(* a move of two can pass by: one bad trade is a drawdown, and three are   *)
(* tried, any of which can be missing in the journal.                      *)
EXTENDS ApexNeo

Widths == {1, 2}
=============================================================================
