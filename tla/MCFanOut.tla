------------------------------ MODULE MCFanOut ------------------------------
(* Three concurrent calls and a threshold of two failures: enough for late *)
(* answers of two calls to arrive before and after a third was let through *)
(* as a probe.  One tick stands for three seconds: a timeout of two ticks  *)
(* and a deadline of three keep the order of the 6 s timeout, the 7 s      *)
(* deadline and the 12 s that two timed-out attempts take.                 *)
EXTENDS FanOut
=============================================================================
