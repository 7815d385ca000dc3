------------------------------ MODULE MCBacktest -----------------------------
(* A replay of a few ticks around a price of 100, where a step is one to   *)
(* three percent.  A tick is quiet but for one thing: a book that leans, a *)
(* wall that was pulled, a macro alarm, a trade of half a bucket, of one   *)
(* or of three; the second trade sets the size of the buckets.             *)
EXTENDS Backtest

Quiet == [lean |-> "even", ghost |-> "none", kill |-> FALSE, volume |-> 0]

OneThing ==
    {Quiet, [Quiet EXCEPT !.kill = TRUE], [Quiet EXCEPT !.volume = 1],
     [Quiet EXCEPT !.volume = 2], [Quiet EXCEPT !.volume = 6]}
    \cup {[Quiet EXCEPT !.lean = s] : s \in {"bid", "ask"}}
    \cup {[Quiet EXCEPT !.ghost = s] : s \in {"bid", "ask"}}

Steps == {-3, -1, 2}
=============================================================================
