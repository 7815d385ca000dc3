----------------------------- MODULE MCPredator -----------------------------
(* Amounts in units of 4% of the capital: the daily limit is one unit, and *)
(* the drawdown limit is set to two units of it, 8% instead of 12%.        *)
EXTENDS Predator
=============================================================================
