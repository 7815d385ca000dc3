------------------------------ MODULE MCMaestro ------------------------------
(* The nodes with a default URL and one node of each other combination of  *)
(* roles: direction with survival, direction with risk.  Each can be down, *)
(* and the weights differ so that a minority can outweigh a majority.      *)
EXTENDS Maestro

Weights == [n \in Nodes |-> IF n = "brain" THEN 300 ELSE 100]

Books == {-60, 0, 60}

Verdict(action, side, conf, mult) ==
    [action |-> action, side |-> side, conf |-> conf, mult |-> mult]

Verdicts == [n \in Nodes |->
    CASE n = "brain" -> {Verdict("KILL", "NONE", 0, 0), Verdict("WAIT", "LONG", 90, 100),
                         Verdict("EXECUTE", "LONG", 80, 50),
                         Verdict("EXECUTE", "SHORT", 20, 100),
                         Verdict("EXECUTE", "NONE", 90, 100)}
      [] n = "spoofhunter" -> {Verdict("KILL", "SHORT", 90, 100),
                               Verdict("EXECUTE", "SHORT", 70, 100)}
      [] n = "dreamer" -> {Verdict("EXECUTE", "LONG", 50, 0),
                           Verdict("EXECUTE", "SHORT", 70, 50)}
      [] OTHER -> {}]

Minima == {0, 60}
=============================================================================
