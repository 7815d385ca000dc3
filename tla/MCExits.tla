------------------------------- MODULE MCExits -------------------------------
(* A price that moves by up to a whole stop between two looks, so that     *)
(* every limit is met exactly, crossed by a step and crossed by a jump.    *)
EXTENDS Exits

PricePath == -36..30
=============================================================================
