----------------------------- MODULE MCRobinHood -----------------------------
(* One unit is half a dollar: the default configuration of 22 USDT, 8 USDT *)
(* per cycle and 4% drawdown, and accounts that hold 13 and 10 USDT only.  *)
EXTENDS RobinHood
=============================================================================
