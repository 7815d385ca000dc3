---------------------------- MODULE Maestro_proofs ---------------------------
(***************************************************************************)
(* Proofs about the v3 orchestrator: what the gates of Confluence.tla      *)
(* decide, for any weights, thresholds and signals, and what Maestro.tla   *)
(* does with it, for any nodes and answers and any number of attempts.     *)
(*                                                                         *)
(* The weighted votes are sums over sets of nodes.  What is needed of them *)
(* is shown by induction on the size of a set, in the form that a          *)
(* non-empty set of numbers has a least element.                           *)
(***************************************************************************)
EXTENDS Maestro, FiniteSetTheorems, WellFoundedInduction, TLAPS

-----------------------------------------------------------------------------
(* Sums over finite sets.                                                  *)

(* Arithmetic: a non-empty set of natural numbers has a least element.     *)
LEMMA LeastElement ==
    ASSUME NEW T \in SUBSET Nat, T # {}
    PROVE  \E n \in T : \A m \in T : n <= m
<1> DEFINE R == {ss \in Nat \X Nat : ss[1] < ss[2]}
<1>1. IsWellFoundedOn(R, Nat)
  BY NatLessThanWellFounded, Zenon DEF OpToRel
<1>2. PICK n \in T : \A m \in T : ~(<<m, n>> \in R)
  <2> HIDE DEF R
  <2> QED BY <1>1, WFMin
<1>3. \A m \in T : <<m, n>> \in Nat \X Nat
  OBVIOUS
<1>4. \A m \in T : ~(m < n)
  BY <1>2, <1>3
<1> QED BY <1>4

(* A set that has 0, and with each number the next one, has all of them.   *)
LEMMA Counting ==
    ASSUME NEW T, 0 \in T, \A n \in Nat : n \in T => n + 1 \in T
    PROVE  Nat \subseteq T
<1> SUFFICES ASSUME Nat \ T # {} PROVE FALSE
  OBVIOUS
<1>1. PICK n \in Nat \ T : \A m \in Nat \ T : n <= m
  BY LeastElement, Nat \ T \in SUBSET Nat
<1>2. n # 0 /\ n - 1 \in Nat /\ n - 1 \in T
  BY <1>1
<1> QED BY <1>1, <1>2

(* What holds of the empty set and, with each set, of one element more,    *)
(* holds of every subset of a finite set: P is the set of the subsets that *)
(* it holds of.                                                            *)
LEMMA BySize ==
    ASSUME NEW S, IsFiniteSet(S), NEW P, {} \in P,
           \A s \in SUBSET S : s # {} /\ (\A x \in s : s \ {x} \in P) => s \in P
    PROVE  SUBSET S \subseteq P
<1> DEFINE T == {n \in Nat : \A s \in SUBSET S : Cardinality(s) = n => s \in P}
<1>0. \A s \in SUBSET S : IsFiniteSet(s) /\ Cardinality(s) \in Nat
  BY FS_Subset, FS_CardinalityType
<1>1. 0 \in T
  BY <1>0, FS_EmptySet
<1>2. ASSUME NEW n \in Nat, n \in T PROVE n + 1 \in T
  <2>1. ASSUME NEW s \in SUBSET S, Cardinality(s) = n + 1 PROVE s \in P
    <3>1. s # {}
      BY <2>1, FS_EmptySet
    <3>2. ASSUME NEW x \in s PROVE s \ {x} \in P
      <4>1. Cardinality(s \ {x}) = n
        BY <1>0, <2>1, FS_RemoveElement
      <4> QED BY <1>2, <4>1
    <3> QED BY <3>1, <3>2
  <2> QED BY <2>1
<1>3. Nat \subseteq T
  <2> HIDE DEF T
  <2> QED BY <1>1, <1>2, Counting
<1> QED BY <1>0, <1>3

(* One step of a sum of v over the set s whose next element is pick[s].    *)
Step(f, s, v, pick) == IF s = {} THEN 0 ELSE v[pick[s]] + f[s \ {pick[s]}]

(* f is the sum of v over the subsets of S.                                *)
IsSum(f, S, v, pick) == f = [s \in SUBSET S |-> Step(f, s, v, pick)]

(* Such a sum exists: the recursion of MapThenSumSet ends.                 *)
LEMMA SumExists ==
    ASSUME NEW S, IsFiniteSet(S), NEW v, NEW pick,
           \A s \in SUBSET S : s # {} => pick[s] \in s
    PROVE  \E f : IsSum(f, S, v, pick)
<1> DEFINE Upto(n) == {s \in SUBSET S : Cardinality(s) <= n}
           T == {n \in Nat : \E f : \A s \in Upto(n) : f[s] = Step(f, s, v, pick)}
<1>0. \A s \in SUBSET S : IsFiniteSet(s) /\ Cardinality(s) \in Nat
  BY FS_Subset, FS_CardinalityType
<1>1. 0 \in T
  <2> DEFINE f == [s \in SUBSET S |-> 0]
  <2>1. \A s \in Upto(0) : s = {}
    BY <1>0, FS_EmptySet
  <2>2. \A s \in Upto(0) : f[s] = Step(f, s, v, pick)
    BY <2>1 DEF Step
  <2> HIDE DEF f
  <2> QED BY <2>2
<1>2. ASSUME NEW n \in Nat, n \in T PROVE n + 1 \in T
  <2>1. PICK g : \A s \in Upto(n) : g[s] = Step(g, s, v, pick)
    BY <1>2
  <2> DEFINE f == [s \in SUBSET S |-> Step(g, s, v, pick)]
  <2>2. ASSUME NEW s \in Upto(n + 1) PROVE f[s] = Step(f, s, v, pick)
    <3>1. CASE s = {}
      BY <3>1 DEF Step
    <3>2. CASE s # {}
      <4> DEFINE r == s \ {pick[s]}
      <4>1. r \in Upto(n)
        <5>1. pick[s] \in s
          BY <3>2
        <5>2. Cardinality(r) = Cardinality(s) - 1
          BY <1>0, <5>1, FS_RemoveElement
        <5> QED BY <1>0, <5>2
      <4>2. f[r] = g[r]
        BY <2>1, <4>1
      <4> QED BY <3>2, <4>2 DEF Step
    <3> QED BY <3>1, <3>2
  <2> HIDE DEF f
  <2> QED BY <2>2
<1>3. Cardinality(S) \in Nat /\ \A s \in SUBSET S : s \in Upto(Cardinality(S))
  BY <1>0, FS_Subset
<1>4. Cardinality(S) \in T
  <2> HIDE DEF T
  <2> QED BY <1>1, <1>2, <1>3, Counting
<1>5. PICK g : \A s \in SUBSET S : g[s] = Step(g, s, v, pick)
  BY <1>3, <1>4
<1> DEFINE f == [s \in SUBSET S |-> g[s]]
<1>6. IsSum(f, S, v, pick)
  <2>1. \A s \in SUBSET S : f[s] = Step(f, s, v, pick)
    BY <1>5 DEF Step
  <2> QED BY <2>1 DEF IsSum
<1> HIDE DEF f
<1> QED BY <1>6

(* The order in which MapThenSumSet takes the elements.                    *)
Picks(S) == [s \in SUBSET S |-> CHOOSE x \in s : TRUE]

(* So MapThenSumSet has a sum to choose.                                   *)
LEMMA PickedSumExists ==
    ASSUME NEW S, IsFiniteSet(S), NEW v
    PROVE  \E f : IsSum(f, S, v, Picks(S))
<1> DEFINE pick == Picks(S)
<1>1. \A s \in SUBSET S : s # {} => pick[s] \in s
  BY DEF Picks
<1> HIDE DEF pick
<1>2. \E f : IsSum(f, S, v, pick)
  BY <1>1, SumExists
<1> QED BY <1>2 DEF pick

(* Votes and TotalWeight are such sums (_eval_confidence).                 *)
LEMMA VotesAreSums ==
    ASSUME NEW S, IsFiniteSet(S), NEW sig
    PROVE  \E f : /\ IsSum(f, S, [n \in S |-> Weight[n] * sig[n].conf], Picks(S))
                  /\ f[S] = Votes(sig, S)
<1> DEFINE v == [n \in S |-> Weight[n] * sig[n].conf]
           Rec(h) == [s \in SUBSET S |->
                         IF s = {} THEN 0
                         ELSE Weight[CHOOSE x \in s : TRUE] * sig[CHOOSE x \in s : TRUE].conf
                              + h[s \ {CHOOSE x \in s : TRUE}]]
           g == CHOOSE iter : iter = Rec(iter)
<1>1. Votes(sig, S) = g[S]
  BY DEF Votes, MapThenSumSet, MapThenFoldSet
<1>2. ASSUME NEW h PROVE IsSum(h, S, v, Picks(S)) <=> h = Rec(h)
  <2>1. ASSUME NEW s \in SUBSET S PROVE
        Step(h, s, v, Picks(S)) =
            IF s = {} THEN 0
            ELSE Weight[CHOOSE x \in s : TRUE] * sig[CHOOSE x \in s : TRUE].conf
                 + h[s \ {CHOOSE x \in s : TRUE}]
    <3>1. CASE s = {}
      BY <3>1 DEF Step
    <3>2. CASE s # {}
      <4>1. Picks(S)[s] = (CHOOSE x \in s : TRUE) /\ (CHOOSE x \in s : TRUE) \in S
        BY <3>2 DEF Picks
      <4> QED BY <3>2, <4>1 DEF Step
    <3> QED BY <3>1, <3>2
  <2> QED BY <2>1 DEF IsSum
<1> HIDE DEF v, Rec
<1>3. \E h : IsSum(h, S, v, Picks(S))
  BY PickedSumExists
<1>4. g = Rec(g)
  BY <1>2, <1>3
<1> HIDE DEF g
<1>5. IsSum(g, S, v, Picks(S))
  BY <1>2, <1>4
<1> QED BY <1>1, <1>5 DEF v

(* And so are the weights they are compared with.                          *)
LEMMA WeightsAreSums ==
    ASSUME NEW S, IsFiniteSet(S)
    PROVE  \E f : /\ IsSum(f, S, [n \in S |-> Weight[n]], Picks(S))
                  /\ f[S] = TotalWeight(S)
<1> DEFINE v == [n \in S |-> Weight[n]]
           Rec(h) == [s \in SUBSET S |->
                         IF s = {} THEN 0
                         ELSE Weight[CHOOSE x \in s : TRUE] + h[s \ {CHOOSE x \in s : TRUE}]]
           g == CHOOSE iter : iter = Rec(iter)
<1>1. TotalWeight(S) = g[S]
  BY DEF TotalWeight, MapThenSumSet, MapThenFoldSet
<1>2. ASSUME NEW h PROVE IsSum(h, S, v, Picks(S)) <=> h = Rec(h)
  <2>1. ASSUME NEW s \in SUBSET S PROVE
        Step(h, s, v, Picks(S)) =
            IF s = {} THEN 0
            ELSE Weight[CHOOSE x \in s : TRUE] + h[s \ {CHOOSE x \in s : TRUE}]
    <3>1. CASE s = {}
      BY <3>1 DEF Step
    <3>2. CASE s # {}
      <4>1. Picks(S)[s] = (CHOOSE x \in s : TRUE) /\ (CHOOSE x \in s : TRUE) \in S
        BY <3>2 DEF Picks
      <4> QED BY <3>2, <4>1 DEF Step
    <3> QED BY <3>1, <3>2
  <2> QED BY <2>1 DEF IsSum
<1> HIDE DEF v, Rec
<1>3. \E h : IsSum(h, S, v, Picks(S))
  BY PickedSumExists
<1>4. g = Rec(g)
  BY <1>2, <1>3
<1> HIDE DEF g
<1>5. IsSum(g, S, v, Picks(S))
  BY <1>2, <1>4
<1> QED BY <1>1, <1>5 DEF v

-----------------------------------------------------------------------------
(* Votes.                                                                  *)

(* The nodes are finitely many (DEFAULT_NODE_ROLES).                       *)
LEMMA NodesAreFinite ==
    /\ IsFiniteSet(Nodes)
    /\ DirectionNodes \subseteq Nodes /\ SurvivalNodes \subseteq Nodes
    /\ RiskNodes \subseteq Nodes /\ "brain" \in Nodes
<1>1. Nodes = {} \cup {"brain"} \cup {"shadowglass"} \cup {"spoofhunter"} \cup {"newtonian"}
                 \cup {"narrative"} \cup {"dreamer"} \cup {"antirug_v3"}
  BY DEF Nodes, DirectionNodes, SurvivalNodes
<1>2. IsFiniteSet({} \cup {"brain"} \cup {"shadowglass"} \cup {"spoofhunter"}
                     \cup {"newtonian"} \cup {"narrative"} \cup {"dreamer"}
                     \cup {"antirug_v3"})
  BY FS_EmptySet, FS_AddElement
<1> QED BY <1>1, <1>2 DEF Nodes, DirectionNodes, SurvivalNodes, RiskNodes

(* One vote of a confidence below a threshold is below the threshold times *)
(* its weight.                                                             *)
LEMMA VoteBelow ==
    ASSUME NEW w \in Nat \ {0}, NEW c \in Nat, NEW m \in Int
    PROVE  w * c \in Nat /\ (c < m => w * c < m * w)
<1>1. \A x, y \in Nat : x * y \in Nat
  OBVIOUS
<1>2. ASSUME c < m PROVE w * c < m * w
  <2>1. m - c \in Nat \ {0}
    BY <1>2
  <2>2. \A x, y \in Nat \ {0} : x * y > 0
    OBVIOUS
  <2>3. w * (m - c) > 0
    BY <2>1, <2>2
  <2>4. w * (m - c) = m * w - w * c
    OBVIOUS
  <2> QED BY <2>3, <2>4
<1> QED BY <1>1, <1>2

(* Votes and weights are natural numbers, nobody has no votes, and if      *)
(* nobody's confidence reaches a threshold, then neither does the average  *)
(* (_eval_confidence).                                                     *)
LEMMA VotesOf ==
    ASSUME NEW S \in SUBSET Nodes, NEW sig, \A n \in S : sig[n].conf \in Nat,
           NEW minimum \in Int
    PROVE  /\ Votes(sig, S) \in Nat /\ TotalWeight(S) \in Nat
           /\ S = {} => Votes(sig, S) = 0
           /\ S # {} /\ (\A n \in S : sig[n].conf < minimum)
                 => Votes(sig, S) < minimum * TotalWeight(S)
<1> DEFINE v == [n \in S |-> Weight[n] * sig[n].conf]
           w == [n \in S |-> Weight[n]]
           pick == Picks(S)
           low == \A n \in S : sig[n].conf < minimum
<1>0. IsFiniteSet(S)
  BY NodesAreFinite, FS_Subset
<1>1. PICK f : IsSum(f, S, v, pick) /\ f[S] = Votes(sig, S)
  BY <1>0, VotesAreSums
<1>2. PICK g : IsSum(g, S, w, pick) /\ g[S] = TotalWeight(S)
  BY <1>0, WeightsAreSums
<1>3. ASSUME NEW n \in S
      PROVE  /\ v[n] \in Nat /\ w[n] \in Nat \ {0}
             /\ low => v[n] < minimum * w[n]
  <2>1. Weight[n] \in Nat \ {0} /\ sig[n].conf \in Nat
    BY ConfluenceAssumption DEF ConfluenceAssumption
  <2>2. Weight[n] * sig[n].conf \in Nat
        /\ (sig[n].conf < minimum => Weight[n] * sig[n].conf < minimum * Weight[n])
    BY <2>1, VoteBelow
  <2> QED BY <2>1, <2>2
<1>4. \A s \in SUBSET S : s # {} => pick[s] \in s
  BY DEF Picks
<1> HIDE DEF v, w, pick, low
<1>5. \A s \in SUBSET S : f[s] = Step(f, s, v, pick) /\ g[s] = Step(g, s, w, pick)
  BY <1>1, <1>2 DEF IsSum
<1> DEFINE Good(s) == /\ f[s] \in Nat /\ g[s] \in Nat
                      /\ low => f[s] <= minimum * g[s]
                      /\ low /\ s # {} => f[s] < minimum * g[s]
           P == {s \in SUBSET S : Good(s)}
<1>6. f[{}] = 0 /\ g[{}] = 0
  BY <1>5 DEF Step
<1>7. {} \in P
  BY <1>6
<1>8. ASSUME NEW s \in SUBSET S, s # {}, \A x \in s : s \ {x} \in P PROVE s \in P
  <2>1. pick[s] \in s
    BY <1>4, <1>8
  <2>2. PICK x \in S : x = pick[s]
    BY <2>1
  <2>3. Good(s \ {x})
    BY <1>8, <2>1, <2>2
  <2>4. f[s] = v[x] + f[s \ {x}] /\ g[s] = w[x] + g[s \ {x}]
    BY <1>5, <1>8, <2>2 DEF Step
  <2>5. PICK a, b, c, d : a = v[x] /\ b = w[x] /\ c = f[s \ {x}] /\ d = g[s \ {x}]
    OBVIOUS
  <2>6. a \in Nat /\ b \in Nat \ {0} /\ c \in Nat /\ d \in Nat
        /\ (low => a < minimum * b /\ c <= minimum * d)
    BY <1>3, <2>3, <2>5
  <2>7. minimum * (b + d) = minimum * b + minimum * d
        /\ minimum * b \in Int /\ minimum * d \in Int
    BY <2>6
  <2>8. a + c \in Nat /\ b + d \in Nat /\ (low => a + c < minimum * (b + d))
    BY <2>6, <2>7
  <2>9. f[s] = a + c /\ g[s] = b + d
    BY <2>4, <2>5
  <2>10. minimum * (b + d) \in Int
    BY <2>6
  <2> QED BY <2>8, <2>9, <2>10
<1>9. S \in P
  <2> HIDE DEF P
  <2> QED BY <1>0, <1>7, <1>8, BySize
<1> QED BY <1>1, <1>2, <1>6, <1>9 DEF low

-----------------------------------------------------------------------------
(* Decisions.                                                              *)

(* What the adapters make of an answer (NodeSignal.__post_init__).         *)
SignalsTyped(sig) ==
    /\ DOMAIN sig \subseteq Nodes
    /\ \A n \in DOMAIN sig : sig[n].conf \in 0..100 /\ sig[n].mult \in 0..100

(* The sets the gates look at are sets of nodes.                           *)
LEMMA VotersAreNodes ==
    ASSUME NEW sig, SignalsTyped(sig), NEW side
    PROVE  /\ Executing(sig) \in SUBSET Nodes /\ IsFiniteSet(Executing(sig))
           /\ Executing(sig) \subseteq DOMAIN sig
           /\ Agreeing(sig, side) \subseteq Executing(sig)
           /\ \A n \in Executing(sig) : sig[n].conf \in 0..100
<1>1. Executing(sig) \in SUBSET Nodes /\ Executing(sig) \subseteq DOMAIN sig
  BY NodesAreFinite DEF Executing, WithRole, SignalsTyped
<1>2. Agreeing(sig, side) \subseteq Executing(sig)
  BY DEF Agreeing
<1>3. \A n \in Executing(sig) : sig[n].conf \in 0..100
  BY <1>1 DEF SignalsTyped
<1> QED BY <1>1, <1>2, <1>3, NodesAreFinite, FS_Subset

(* In every mode a side that carries the vote is somebody's; in AND it is  *)
(* everybody's, and in MAJORITY more say it than not (_eval_direction).    *)
LEMMA CarriedSide ==
    ASSUME NEW sig, SignalsTyped(sig), NEW mode \in Modes, NEW side,
           Carries(sig, mode, side)
    PROVE  /\ Agreeing(sig, side) # {}
           /\ mode = "AND" => Agreeing(sig, side) = Executing(sig)
           /\ mode = "MAJORITY" =>
                 Cardinality(Agreeing(sig, side))
                     > Cardinality(Executing(sig) \ Agreeing(sig, side))
<1> DEFINE with == Agreeing(sig, side)
           all == Executing(sig)
<1>1. /\ all \in SUBSET Nodes /\ IsFiniteSet(all) /\ with \subseteq all
      /\ \A n \in all : sig[n].conf \in Nat
  BY VotersAreNodes
<1>2. /\ IsFiniteSet(with) /\ Cardinality(with) \in Nat /\ Cardinality(all) \in Nat
      /\ Cardinality(all \ with) = Cardinality(all) - Cardinality(with)
  <2>1. with = all \cap with
    BY <1>1
  <2>2. Cardinality(all \ with) = Cardinality(all) - Cardinality(all \cap with)
    BY <1>1, FS_Difference
  <2> QED BY <1>1, <2>1, <2>2, FS_Subset, FS_CardinalityType
<1>3. all # {}
      /\ (mode = "AND" => with = all)
      /\ (mode = "OR" => 2 * Cardinality(with) >= Cardinality(all))
      /\ (mode = "MAJORITY" => 2 * Cardinality(with) > Cardinality(all))
      /\ (mode = "WEIGHTED" => Votes(sig, with) - Votes(sig, all \ with) > 0)
  BY DEF Carries
<1>4. with # {}
  <2>1. SUFFICES ASSUME with = {} PROVE FALSE
    OBVIOUS
  <2>2. Cardinality(with) = 0 /\ Cardinality(all) > 0
    BY <1>1, <1>2, <1>3, <2>1, FS_EmptySet
  <2>3. Votes(sig, with) = 0 /\ Votes(sig, all \ with) \in Nat
    <3>1. with \in SUBSET Nodes /\ (\A n \in with : sig[n].conf \in Nat)
          /\ all \ with \in SUBSET Nodes /\ (\A n \in all \ with : sig[n].conf \in Nat)
      BY <1>1
    <3> HIDE DEF with, all
    <3>2. with = {} => Votes(sig, with) = 0
      BY <3>1, VotesOf
    <3>3. Votes(sig, all \ with) \in Nat
      BY <3>1, VotesOf
    <3> QED BY <2>1, <3>2, <3>3
  <2> HIDE DEF with, all
  <2> QED BY <1>2, <1>3, <2>1, <2>2, <2>3 DEF Modes
<1>5. mode = "MAJORITY" => Cardinality(with) > Cardinality(all \ with)
  <2> HIDE DEF with, all
  <2> QED BY <1>2, <1>3
<1> QED BY <1>3, <1>4, <1>5

(* When the gates say EXECUTE, everybody who is required answered, nobody  *)
(* killed, a side carried the vote, and somebody on it is as confident as  *)
(* the threshold asks (evaluate).  With the fallback action EXECUTE this   *)
(* would be false: a node that is missing would be enough.                 *)
LEMMA GatesAgree ==
    ASSUME NEW sig, SignalsTyped(sig), NEW mode \in Modes, NEW minimum \in Int,
           RequiredAnswered(sig) \/ Fallback # "EXECUTE",
           NEW d, d = Evaluate(sig, mode, minimum), d.action = "EXECUTE"
    PROVE  /\ RequiredAnswered(sig) /\ Survives(sig)
           /\ d.side \in {"LONG", "SHORT"} /\ Carries(sig, mode, d.side)
           /\ \E n \in Agreeing(sig, d.side) : sig[n].conf >= minimum
           /\ d.conf \in Int /\ d.risk = RiskMultiplier(sig)
<1> DEFINE side == Direction(sig, mode)
           with == Agreeing(sig, side)
<1>1. /\ RequiredAnswered(sig) /\ Survives(sig) /\ side # "NONE"
      /\ ~(Votes(sig, with) < minimum * TotalWeight(with))
      /\ d = Result("EXECUTE", side, Votes(sig, with) \div TotalWeight(with),
                    RiskMultiplier(sig))
  BY Zenon DEF Evaluate, Result
<1>2. side \in {"LONG", "SHORT"} /\ Carries(sig, mode, side)
  BY <1>1 DEF Direction
<1> HIDE DEF side
<1>3. with # {} /\ with \in SUBSET Nodes /\ \A n \in with : sig[n].conf \in 0..100
  BY <1>2, CarriedSide, VotersAreNodes
<1> HIDE DEF with
<1>4. \A n \in with : sig[n].conf \in Nat /\ sig[n].conf < 101
  BY <1>3
<1>5. /\ Votes(sig, with) \in Nat /\ TotalWeight(with) \in Nat
      /\ (\A n \in with : sig[n].conf < minimum)
            => Votes(sig, with) < minimum * TotalWeight(with)
  BY <1>3, <1>4, VotesOf
<1>6. Votes(sig, with) < 101 * TotalWeight(with)
  BY <1>3, <1>4, VotesOf
<1>7. \E n \in with : sig[n].conf >= minimum
  <2>1. PICK n \in with : ~(sig[n].conf < minimum)
    BY <1>1, <1>5
  <2> QED BY <1>4, <2>1
<1>8. Votes(sig, with) \div TotalWeight(with) \in Int
  BY <1>5, <1>6
<1> QED BY <1>1, <1>2, <1>7, <1>8 DEF Result, with

(* The multiplier of the risk is a percentage.                             *)
LEMMA MultiplierTyped ==
    ASSUME NEW sig, SignalsTyped(sig) PROVE RiskMultiplier(sig) \in Int
<1> DEFINE of(n) == IF n \in WithRole(sig, RiskNodes) THEN sig[n].mult ELSE 100
<1>1. \A n : of(n) \in 0..100
  BY DEF WithRole, SignalsTyped
<1>2. RiskMultiplier(sig) = (of("brain") * of("dreamer")) \div 100
  BY DEF RiskMultiplier
<1> HIDE DEF of
<1>3. \A x, y \in 0..100 : (x * y) \div 100 \in Int
  OBVIOUS
<1> QED BY <1>1, <1>2, <1>3

(* An order has a side and a risk, whatever the decision rests on.         *)
LEMMA DecisionTyped ==
    ASSUME NEW sig, SignalsTyped(sig), NEW mode \in Modes, NEW minimum \in Int,
           NEW d, d = Evaluate(sig, mode, minimum)
    PROVE  /\ d.action \in Action
           /\ d.action = "EXECUTE" => d.conf \in Int /\ d.risk \in Int
<1>1. d.action \in Action
  BY ConfluenceAssumption, Zenon DEF ConfluenceAssumption, Evaluate, Result, Action
<1>2. ASSUME ~RequiredAnswered(sig) PROVE d.conf \in Int /\ d.risk \in Int
  <2>1. d.conf = 0 /\ d.risk = 0
    BY <1>2, Zenon DEF Evaluate, Result
  <2> QED BY <2>1
<1>3. ASSUME RequiredAnswered(sig), d.action = "EXECUTE" PROVE d.conf \in Int /\ d.risk \in Int
  BY <1>3, GatesAgree, MultiplierTyped
<1> QED BY <1>1, <1>2, <1>3

-----------------------------------------------------------------------------
(* The request.                                                            *)

(* Attempts that are left are attempts that have neither opened a position *)
(* nor lost an answer, and while the POST is still to be repeated, each    *)
(* position that was opened is one whose answer was lost.                  *)
Counted ==
    /\ opened <= 1 + lost
    /\ pc \in {"gather", "brain", "decide"} => opened = 0 /\ lost = 0
    /\ pc = "post" =>
          /\ left > 0 /\ opened <= lost
          /\ opened + left <= Attempts /\ lost + left <= Attempts

(* Version 2 decides on the brain's answer and has no other                *)
(* (run_pipeline).                                                         *)
BrainAsked ==
    req.version = 2 =>
        /\ pc = "brain" => DOMAIN signals = {}
        /\ pc = "decide" => DOMAIN signals = {"brain"} /\ signals["brain"].up

IInv == TypeOK /\ SignalsTyped(signals) /\ BrainAsked /\ Counted

(* A node's signal is typed, whatever the node says.                       *)
LEMMA HeardTyped ==
    ASSUME NEW n \in Configured, NEW s \in Heard(n)
    PROVE  s.conf \in 0..100 /\ s.mult \in 0..100
<1>1. \A x \in Int : Clamp(x, 0, 100) \in 0..100
  BY DEF Clamp
<1>2. 0 \in Int /\ 100 \in Int
  OBVIOUS
<1>3. CASE s = Unavailable
  BY <1>1, <1>2, <1>3 DEF Unavailable, Signal
<1>4. CASE n = "shadowglass" /\ s # Unavailable
  <2>1. PICK i \in Imbalances : s = FromImbalance(i)
    BY <1>4 DEF Heard
  <2>2. i \in Int /\ Size(i) \in Int
    BY MaestroAssumption DEF MaestroAssumption, Size
  <2> QED BY <1>1, <1>2, <2>1, <2>2 DEF FromImbalance, Signal
<1>5. CASE n = "antirug_v3" /\ s # Unavailable
  <2>1. PICK b \in BOOLEAN : s = FromScreening(b, IF b THEN 90 ELSE 10)
    BY <1>5 DEF Heard
  <2>2. 100 - (IF b THEN 90 ELSE 10) \in Int
    OBVIOUS
  <2> QED BY <1>1, <1>2, <2>1, <2>2 DEF FromScreening, Signal
<1>6. CASE n \notin {"shadowglass", "antirug_v3"} /\ s # Unavailable
  <2>1. PICK d \in Said[n] : s = AsSaid(d)
    BY <1>6 DEF Heard
  <2>2. d.conf \in Int /\ d.mult \in Int
    BY <1>6, MaestroAssumption DEF MaestroAssumption
  <2> QED BY <1>1, <1>2, <2>1, <2>2 DEF AsSaid, Signal
<1> QED BY <1>3, <1>4, <1>5, <1>6

(* So are the signals that are gathered (_gather_signals).                 *)
LEMMA GatheredTyped == IInv /\ Gather => SignalsTyped(signals)'
<1> SUFFICES ASSUME IInv, Gather PROVE SignalsTyped(signals)'
  OBVIOUS
<1>1. PICK heard \in [shadowglass : HeardFrom("shadowglass"),
                      spoofhunter : HeardFrom("spoofhunter"),
                      newtonian : HeardFrom("newtonian"),
                      narrative : HeardFrom("narrative"),
                      dreamer : HeardFrom("dreamer"),
                      antirug_v3 : HeardFrom("antirug_v3")] :
           signals' = [n \in AskedAtOnce |-> heard[n]]
  BY DEF Gather
<1>2. /\ AskedAtOnce \subseteq Configured
      /\ AskedAtOnce \subseteq {"shadowglass", "spoofhunter", "newtonian", "narrative",
                                "dreamer", "antirug_v3"}
  BY MaestroAssumption
  DEF MaestroAssumption, AskedAtOnce, Nodes, DirectionNodes, SurvivalNodes
<1>3. ASSUME NEW n \in AskedAtOnce PROVE heard[n] \in Heard(n)
  <2>1. heard[n] \in HeardFrom(n)
    BY <1>1, <1>2
  <2> QED BY <2>1 DEF HeardFrom
<1>4. ASSUME NEW n \in AskedAtOnce
      PROVE  signals'[n].conf \in 0..100 /\ signals'[n].mult \in 0..100
  BY <1>1, <1>2, <1>3, HeardTyped
<1>5. DOMAIN signals' = AskedAtOnce /\ AskedAtOnce \subseteq Nodes
  BY <1>1, <1>2, MaestroAssumption DEF MaestroAssumption
<1> QED BY <1>4, <1>5 DEF SignalsTyped

(* And the brain's among them.                                             *)
LEMMA BrainTyped == IInv /\ AskBrain => SignalsTyped(signals)'
<1> SUFFICES ASSUME IInv, AskBrain PROVE SignalsTyped(signals)'
  OBVIOUS
<1>1. CASE "brain" \in Configured
  <2>1. PICK b \in Heard("brain") :
           signals' = [n \in DOMAIN signals \cup {"brain"} |->
                          IF n = "brain" THEN b ELSE signals[n]]
    BY <1>1 DEF AskBrain
  <2>2. b.conf \in 0..100 /\ b.mult \in 0..100
    BY <1>1, HeardTyped
  <2> QED BY <2>1, <2>2, NodesAreFinite DEF IInv, SignalsTyped
<1>2. CASE "brain" \notin Configured
  BY <1>2 DEF AskBrain, IInv, SignalsTyped
<1> QED BY <1>1, <1>2

(* The risk of an order is clamped (_execute_trade).                       *)
LEMMA RiskTyped ==
    ASSUME NEW m \in Int, NEW c \in Int PROVE RiskOf(m, c) \in 5..500
<1>1. BaseRisk \in Int
  BY MaestroAssumption DEF MaestroAssumption
<1>2. \A x, y, z \in Int : (x * y * z) \div 10000 \in Int
  OBVIOUS
<1>3. (BaseRisk * m * c) \div 10000 \in Int
  BY <1>1, <1>2
<1>4. \A x \in Int : Clamp(x, 5, 500) \in 5..500
  BY DEF Clamp
<1> QED BY <1>3, <1>4 DEF RiskOf

(* The configuration, apart from what the nodes may say (cfg).             *)
LEMMA ConstantsTyped ==
    /\ DefaultMode \in Modes /\ RequestMin \subseteq Int /\ NoRequest \in Request
    /\ Attempts \in Nat \ {0} /\ Burst \in Nat \ {0} /\ BaseRisk \in 1..500
<1>1. /\ DefaultMode \in Modes /\ RequestMin \subseteq 0..100 /\ 0 \in RequestMin
      /\ Attempts \in Nat \ {0} /\ Burst \in Nat \ {0} /\ BaseRisk \in 1..500
  BY MaestroAssumption, Zenon DEF MaestroAssumption
<1>2. 0..100 \subseteq Int
  OBVIOUS
<1>3. NoRequest \in Request
  <2>1. "default" \in Modes \cup {"default"} /\ 3 \in {2, 3} /\ 0 \in RequestMin
    BY <1>1
  <2> HIDE <1>1
  <2> QED BY <2>1, Zenon DEF NoRequest, Request
<1> QED BY <1>1, <1>2, <1>3, Zenon

(* The type invariant in parts: the request, the order and the answer, and *)
(* the numbers.                                                            *)
RequestTyped == /\ pc \in {"idle", "gather", "brain", "decide", "post", "register"}
                /\ req \in Request
OrderTyped ==
    /\ order.side \in {"buy", "sell", "none"}
    /\ IF order.side = "none" THEN order.risk = 0 ELSE order.risk \in 5..500
StatusTyped == /\ status \in Statuses
               /\ watched \in BOOLEAN /\ loop \in {"no positions", "error"}
NumbersTyped ==
    /\ left \in 0..Attempts /\ opened \in 0..Attempts /\ lost \in 0..Attempts
    /\ tokens \in 0..Burst

(* They make up the invariant (OrchestrateRequest, _execute_trade).        *)
LEMMA Parts ==
    IInv <=> /\ RequestTyped /\ OrderTyped /\ StatusTyped /\ NumbersTyped
             /\ SignalsTyped(signals) /\ BrainAsked /\ Counted
  BY Zenon
  DEF IInv, TypeOK, RequestTyped, OrderTyped, StatusTyped, NumbersTyped, SignalsTyped

(* And after a step (OrchestrateRequest, _execute_trade).                  *)
LEMMA PartsNext ==
    IInv' <=> /\ RequestTyped' /\ OrderTyped' /\ StatusTyped' /\ NumbersTyped'
              /\ SignalsTyped(signals)' /\ BrainAsked' /\ Counted'
  BY Zenon
  DEF IInv, TypeOK, RequestTyped, OrderTyped, StatusTyped, NumbersTyped, SignalsTyped

(* Nothing has happened yet (cfg).                                         *)
LEMMA InvariantInitially == Init => IInv
<1> SUFFICES ASSUME Init PROVE IInv
  OBVIOUS
<1>1. /\ pc = "idle" /\ signals = <<>> /\ left = 0 /\ opened = 0 /\ lost = 0
      /\ tokens = Burst
  BY Zenon DEF Init
<1>2. RequestTyped
  BY ConstantsTyped, Zenon DEF Init, RequestTyped
<1>3. OrderTyped
  BY DEF Init, OrderTyped, NoOrder
<1>4. StatusTyped
  BY DEF Init, StatusTyped, Statuses
<1>5. NumbersTyped
  BY <1>1, ConstantsTyped DEF NumbersTyped
<1>6. SignalsTyped(signals)
  <2>1. DOMAIN signals = {}
    BY <1>1
  <2> QED BY <2>1 DEF SignalsTyped
<1>7. BrainAsked /\ Counted
  BY <1>1 DEF BrainAsked, Counted
<1> QED BY <1>2, <1>3, <1>4, <1>5, <1>6, <1>7, Parts, Zenon

(* The handler that returns forgets its request (Return).                  *)
LEMMA ReturnKeepsTypes ==
    ASSUME IInv, Return, status' \in Statuses, tokens' \in 0..Burst, watched' \in BOOLEAN,
           UNCHANGED loop, opened' \in 0..Attempts, lost' \in 0..Attempts,
           opened' <= 1 + lost'
    PROVE  IInv'
<1>1. pc' = "idle" /\ req' = NoRequest /\ signals' = <<>> /\ order' = NoOrder /\ left' = 0
  BY DEF Return
<1>2. RequestTyped'
  BY <1>1, ConstantsTyped, Zenon DEF RequestTyped
<1>3. OrderTyped'
  BY <1>1 DEF OrderTyped, NoOrder
<1>4. StatusTyped'
  BY Parts DEF StatusTyped
<1>5. NumbersTyped'
  BY <1>1, ConstantsTyped DEF NumbersTyped
<1>6. SignalsTyped(signals)'
  BY <1>1 DEF SignalsTyped
<1>7. BrainAsked' /\ Counted'
  BY <1>1 DEF BrainAsked, Counted
<1> QED BY <1>2, <1>3, <1>4, <1>5, <1>6, <1>7, PartsNext, Zenon

(* An order is sent with all attempts to come (_execute_trade).            *)
LEMMA OrderKeepsTypes ==
    ASSUME IInv, pc = "decide", NEW side, NEW m \in Int, NEW c \in Int,
           Order(MappedSide(side), RiskOf(m, c)), UNCHANGED <<opened, lost, around>>
    PROVE  IInv'
<1>1. MappedSide(side) \in {"buy", "sell"} /\ RiskOf(m, c) \in 5..500
  BY RiskTyped DEF MappedSide
<1> HIDE DEF RiskOf
<1>2. /\ order'.side = MappedSide(side) /\ order'.risk = RiskOf(m, c)
      /\ left' = Attempts /\ pc' = "post" /\ UNCHANGED <<req, signals, status>>
      /\ UNCHANGED <<opened, lost, tokens, watched, loop>>
  BY DEF Order, around
<1>3. RequestTyped'
  BY <1>2, Parts DEF RequestTyped
<1>4. OrderTyped'
  BY <1>1, <1>2 DEF OrderTyped
<1>5. StatusTyped'
  BY <1>2, Parts DEF StatusTyped
<1>6. NumbersTyped'
  BY <1>2, Parts, ConstantsTyped DEF NumbersTyped
<1>7. SignalsTyped(signals)'
  BY <1>2, Parts DEF SignalsTyped
<1>8. BrainAsked'
  BY <1>2 DEF BrainAsked
<1>9. Counted'
  <2>1. opened = 0 /\ lost = 0
    BY Parts DEF Counted
  <2> QED BY <1>2, <2>1, ConstantsTyped DEF Counted
<1> QED BY <1>3, <1>4, <1>5, <1>6, <1>7, <1>8, <1>9, PartsNext, Zenon

(* Steps before the order: there is no attempt yet.                        *)
LEMMA BeforeTheOrder ==
    ASSUME IInv, Ask \/ Gather \/ AskBrain \/ Raise \/ Decide \/ DecideV2
    PROVE  IInv'
<1>1. ASSUME pc' # "post", pc' \in {"gather", "brain", "decide"},
             req' \in Request, UNCHANGED <<order, left, tokens, watched, loop>>,
             status' \in Statuses, SignalsTyped(signals)', BrainAsked',
             opened' = 0, lost' = 0
      PROVE  IInv'
  <2>1. RequestTyped'
    BY <1>1, Zenon DEF RequestTyped
  <2>2. OrderTyped'
    BY <1>1, Parts DEF OrderTyped
  <2>3. StatusTyped'
    BY <1>1, Parts DEF StatusTyped
  <2>4. NumbersTyped'
    BY <1>1, Parts, ConstantsTyped DEF NumbersTyped
  <2>5. Counted'
    BY <1>1 DEF Counted
  <2> QED BY <1>1, <2>1, <2>2, <2>3, <2>4, <2>5, PartsNext, Zenon
<1>2. ASSUME pc \in {"gather", "brain", "decide"} PROVE opened = 0 /\ lost = 0
  BY <1>2, Parts DEF Counted
<1>3. req \in Request /\ status \in Statuses
  BY Parts, Zenon DEF RequestTyped, StatusTyped
<1>4. ASSUME pc # "idle", pc # "post", pc # "register", NEW s \in Statuses, Answer(s),
             UNCHANGED <<opened, lost, around>>
      PROVE  IInv'
  <2>1. /\ tokens' \in 0..Burst /\ opened' \in 0..Attempts /\ lost' \in 0..Attempts
    BY <1>4, Parts DEF NumbersTyped, around
  <2>2. watched' \in BOOLEAN /\ UNCHANGED loop
    BY <1>4, Parts DEF StatusTyped, around
  <2>3. opened' <= 1 + lost'
    BY <1>4, Parts DEF Counted
  <2> QED BY <1>4, <2>1, <2>2, <2>3, ReturnKeepsTypes DEF Answer
<1>5. CASE Ask
  <2>1. req' \in Request /\ pc' = "gather" /\ opened' = 0 /\ lost' = 0 /\ status' = "none"
        /\ UNCHANGED <<signals, order, left, tokens, watched, loop>>
    BY <1>5, Zenon DEF Ask, around
  <2>2. SignalsTyped(signals)' /\ BrainAsked' /\ status' \in Statuses
    BY <2>1, Parts DEF SignalsTyped, BrainAsked, Statuses
  <2> QED BY <1>1, <2>1, <2>2
<1>6. CASE Gather
  <2>1. /\ pc = "gather" /\ pc' = "brain"
        /\ UNCHANGED <<req, order, left, status, opened, lost, tokens, watched, loop>>
    BY <1>6 DEF Gather, around
  <2>2. SignalsTyped(signals)'
    BY <1>6, GatheredTyped
  <2>3. BrainAsked'
    <3>1. req.version = 2 => DOMAIN signals' = {}
      <4>1. PICK heard : signals' = [n \in AskedAtOnce |-> heard[n]]
        BY <1>6 DEF Gather
      <4> QED BY <4>1 DEF AskedAtOnce
    <3> QED BY <2>1, <3>1, Zenon DEF BrainAsked
  <2> QED BY <1>1, <1>2, <1>3, <2>1, <2>2, <2>3
<1>7. CASE AskBrain
  <2>1. /\ pc = "brain" /\ pc' = "decide"
        /\ UNCHANGED <<req, order, left, status, opened, lost, tokens, watched, loop>>
    BY <1>7 DEF AskBrain, around
  <2>2. SignalsTyped(signals)'
    BY <1>7, BrainTyped
  <2>3. BrainAsked'
    <3>1. CASE req.version = 2
      <4>1. DOMAIN signals = {} /\ "brain" \in Configured
        BY <1>7, <2>1, <3>1, Parts DEF BrainAsked, AskBrain
      <4>2. PICK b \in Heard("brain") :
               /\ b.up
               /\ signals' = [n \in DOMAIN signals \cup {"brain"} |->
                                 IF n = "brain" THEN b ELSE signals[n]]
        BY <1>7, <3>1, <4>1 DEF AskBrain
      <4>3. DOMAIN signals' = {"brain"} /\ signals'["brain"] = b
        BY <4>1, <4>2
      <4> QED BY <2>1, <4>2, <4>3 DEF BrainAsked
    <3>2. CASE req.version # 2
      BY <2>1, <3>2 DEF BrainAsked
    <3> QED BY <3>1, <3>2
  <2> QED BY <1>1, <1>2, <1>3, <2>1, <2>2, <2>3
<1>8. CASE Raise
  <2>1. PICK s \in {"400", "502"} : Answer(s)
    BY <1>8 DEF Raise
  <2>2. s \in Statuses
    BY DEF Statuses
  <2> QED BY <1>8, <1>4, <2>1, <2>2 DEF Raise
<1>9. CASE Decide
  <2> DEFINE d == Decision
  <2>1. PICK mode \in Modes, minimum \in Int : d = Evaluate(signals, mode, minimum)
    <3>1. DefaultMode \in Modes /\ MinConfidence \in Int
      BY ConfluenceAssumption, ConstantsTyped DEF ConfluenceAssumption
    <3>2. req.mode # "default" => req.mode \in Modes /\ req.min \in Int
      <4>1. req.mode \in Modes \cup {"default"} /\ req.min \in RequestMin
        BY <1>3, Zenon DEF Request
      <4> QED BY <4>1, ConstantsTyped
    <3> QED BY <3>1, <3>2 DEF Decision
  <2>2. /\ d.action \in Action
        /\ d.action = "EXECUTE" => d.conf \in Int /\ d.risk \in Int
    BY <2>1, DecisionTyped, Parts
  <2> HIDE DEF d
  <2>3. pc = "decide" /\ UNCHANGED <<opened, lost, around>>
    BY <1>9 DEF Decide
  <2>4. \/ Answer(d.action) /\ d.action # "EXECUTE"
        \/ Answer("DRY_RUN")
        \/ /\ d.action = "EXECUTE"
           /\ \E scale \in {d.conf, 100} : Order(MappedSide(d.side), RiskOf(d.risk, scale))
    BY <1>9, Zenon DEF Decide, d
  <2>5. ASSUME NEW s \in Statuses, Answer(s) PROVE IInv'
    BY <2>3, <2>5, <1>4
  <2>6. ASSUME Answer(d.action), d.action # "EXECUTE" PROVE IInv'
    <3>1. d.action \in Statuses
      BY <2>2, <2>6 DEF Action, Statuses
    <3> QED BY <2>5, <2>6, <3>1
  <2>7. ASSUME Answer("DRY_RUN") PROVE IInv'
    BY <2>5, <2>7 DEF Statuses
  <2>8. ASSUME d.action = "EXECUTE", NEW scale \in {d.conf, 100},
               Order(MappedSide(d.side), RiskOf(d.risk, scale))
        PROVE  IInv'
    <3>1. scale \in Int /\ d.risk \in Int
      BY <2>2, <2>8
    <3> QED BY <2>3, <2>8, <3>1, OrderKeepsTypes
  <2> QED BY <2>4, <2>6, <2>7, <2>8
<1>10. CASE DecideV2
  <2> DEFINE b == signals["brain"]
  <2>1. pc = "decide" /\ UNCHANGED <<opened, lost, around>>
    BY <1>10 DEF DecideV2
  <2>2. \/ \E s \in {"SKIPPED", "400", "DRY_RUN"} : Answer(s)
        \/ \E scale \in {Clamp(b.conf, 25, 100), 100} :
              Order(MappedSide(b.side), RiskOf(b.mult, scale))
    BY <1>10, Zenon DEF DecideV2
  <2>3. ASSUME NEW s \in {"SKIPPED", "400", "DRY_RUN"}, Answer(s) PROVE IInv'
    <3>1. s \in Statuses
      BY DEF Statuses
    <3> QED BY <2>1, <2>3, <3>1, <1>4
  <2>4. ASSUME NEW scale \in {Clamp(b.conf, 25, 100), 100},
               Order(MappedSide(b.side), RiskOf(b.mult, scale))
        PROVE  IInv'
    <3>1. b.conf \in Int /\ b.mult \in Int
      <4>1. "brain" \in DOMAIN signals
        BY <1>10, <2>1, Parts DEF DecideV2, BrainAsked
      <4> QED BY <4>1, Parts DEF SignalsTyped
    <3> QED BY <2>1, <2>4, <3>1, OrderKeepsTypes DEF Clamp
  <2> QED BY <2>2, <2>3, <2>4
<1> QED BY <1>5, <1>6, <1>7, <1>8, <1>9, <1>10

(* An attempt takes a token, and may open a position or lose an answer; an *)
(* attempt is left for each (retry_with_backoff).                          *)
LEMMA AttemptTyped ==
    ASSUME IInv, Attempt, opened' \in {opened, opened + 1}, lost' \in {lost, lost + 1}
    PROVE  /\ tokens' \in 0..Burst /\ opened' \in 0..Attempts /\ lost' \in 0..Attempts
           /\ left \in 1..Attempts /\ opened <= lost
           /\ opened + left <= Attempts /\ lost + left <= Attempts
           /\ opened \in Nat /\ lost \in Nat
<1>1. NumbersTyped /\ Counted /\ pc = "post" /\ tokens > 0 /\ tokens' = tokens - 1
  BY Parts DEF Attempt
<1> QED BY <1>1, ConstantsTyped DEF NumbersTyped, Counted

(* The last attempt, or an answer: the handler returns or goes on to       *)
(* register what was executed (_execute_trade).                            *)
LEMMA ReplyKeeps ==
    ASSUME IInv, Attempt, NEW s \in Statuses, Answer(s) \/ Reply(s), Elsewhere,
           opened' \in {opened, opened + 1}, lost' \in {lost, lost + 1}
    PROVE  IInv'
<1>1. /\ tokens' \in 0..Burst /\ opened' \in 0..Attempts /\ lost' \in 0..Attempts
      /\ opened' <= 1 + lost'
  BY AttemptTyped
<1>2. UNCHANGED <<watched, loop>> /\ watched' \in BOOLEAN
  BY Parts DEF Elsewhere, StatusTyped
<1>3. CASE Answer(s)
  BY <1>1, <1>2, <1>3, ReturnKeepsTypes DEF Answer
<1>4. CASE ~Answer(s)
  <2>1. pc' = "register" /\ status' = s /\ UNCHANGED <<req, signals, order, left>>
    BY <1>4 DEF Reply
  <2>2. RequestTyped'
    BY <2>1, Parts DEF RequestTyped
  <2>3. OrderTyped'
    BY <2>1, Parts DEF OrderTyped
  <2>4. StatusTyped'
    BY <1>2, <2>1, Parts DEF StatusTyped
  <2>5. NumbersTyped'
    BY <1>1, <2>1, Parts DEF NumbersTyped
  <2>6. SignalsTyped(signals)'
    BY <2>1, Parts DEF SignalsTyped
  <2>7. BrainAsked' /\ Counted'
    BY <1>1, <2>1 DEF BrainAsked, Counted
  <2> QED BY <2>2, <2>3, <2>4, <2>5, <2>6, <2>7, PartsNext, Zenon
<1> QED BY <1>3, <1>4

(* Arithmetic: one attempt less covers one position and one answer more.   *)
LEMMA OneAttemptLess ==
    ASSUME NEW o \in Nat, NEW l \in Nat, NEW n \in Nat \ {0, 1}, NEW a \in Nat,
           o <= l, o + n <= a, l + n <= a,
           NEW o2 \in {o, o + 1}, NEW l2 \in {l, l + 1}, o2 <= l2
    PROVE  /\ n - 1 > 0 /\ o2 <= l2 /\ o2 <= 1 + l2
           /\ o2 + (n - 1) <= a /\ l2 + (n - 1) <= a
  OBVIOUS

(* An attempt that failed: what it may have opened, its lost answer counts *)
(* for (retry_with_backoff).                                               *)
LEMMA AttemptLeftKeeps ==
    ASSUME IInv, Attempt, NEW codes \in SUBSET Statuses, AttemptLeft(codes), Elsewhere,
           \/ UNCHANGED <<opened, lost>>
           \/ opened' = opened + 1 /\ lost' = lost + 1
    PROVE  IInv'
<1>0. /\ opened' \in {opened, opened + 1} /\ lost' \in {lost, lost + 1}
      /\ opened <= lost => opened' <= lost'
  <2>1. opened \in Nat /\ lost \in Nat
    BY Parts DEF NumbersTyped
  <2> QED BY <2>1
<1>1. CASE left = 1
  <2>1. PICK s \in codes : Answer(s)
    BY <1>1 DEF AttemptLeft
  <2> QED BY <1>0, <2>1, ReplyKeeps
<1>2. CASE left # 1
  <2>1. left' = left - 1 /\ UNCHANGED <<pc, req, signals, order, status>>
        /\ UNCHANGED <<watched, loop>>
    BY <1>2 DEF AttemptLeft, Elsewhere
  <2>2. /\ tokens' \in 0..Burst /\ opened' \in 0..Attempts /\ lost' \in 0..Attempts
        /\ left \in 1..Attempts /\ opened <= lost
        /\ opened + left <= Attempts /\ lost + left <= Attempts
        /\ opened \in Nat /\ lost \in Nat
    BY <1>0, AttemptTyped
  <2>3. RequestTyped'
    BY <2>1, Parts DEF RequestTyped
  <2>4. OrderTyped'
    BY <2>1, Parts DEF OrderTyped
  <2>5. StatusTyped'
    BY <2>1, Parts DEF StatusTyped
  <2>6. NumbersTyped'
    BY <1>2, <2>1, <2>2, ConstantsTyped DEF NumbersTyped
  <2>7. SignalsTyped(signals)'
    BY <2>1, Parts DEF SignalsTyped
  <2>8. BrainAsked'
    BY <2>1, Parts DEF BrainAsked
  <2>9. Counted'
    <3>1. pc' = "post"
      BY <2>1 DEF Attempt
    <3>2. left \in Nat \ {0, 1} /\ Attempts \in Nat
      BY <1>2, <2>2, ConstantsTyped
    <3>3. /\ left - 1 > 0 /\ opened' <= lost' /\ opened' <= 1 + lost'
          /\ opened' + (left - 1) <= Attempts /\ lost' + (left - 1) <= Attempts
      <4>1. opened' <= lost' /\ opened <= lost /\ opened \in Nat /\ lost \in Nat
            /\ opened + left <= Attempts /\ lost + left <= Attempts
        BY <1>0, <2>2, Zenon
      <4>2. opened' \in {opened, opened + 1} /\ lost' \in {lost, lost + 1}
        BY <1>0, Zenon
      <4>3. PICK o, l, n, a, o2, l2 : /\ o = opened /\ l = lost /\ n = left /\ a = Attempts
                                      /\ o2 = opened' /\ l2 = lost'
        OBVIOUS
      <4>4. /\ n - 1 > 0 /\ o2 <= l2 /\ o2 <= 1 + l2
            /\ o2 + (n - 1) <= a /\ l2 + (n - 1) <= a
        <5>1. o \in Nat /\ l \in Nat /\ n \in Nat \ {0, 1} /\ a \in Nat
              /\ o <= l /\ o + n <= a /\ l + n <= a
              /\ o2 \in {o, o + 1} /\ l2 \in {l, l + 1} /\ o2 <= l2
          BY <3>2, <4>1, <4>2, <4>3, Zenon
        <5> QED BY <5>1, OneAttemptLess
      <4> QED BY <4>3, <4>4
    <3> QED BY <2>1, <3>1, <3>3, Zenon DEF Counted
  <2> QED BY <2>3, <2>4, <2>5, <2>6, <2>7, <2>8, <2>9, PartsNext, Zenon
<1> QED BY <1>1, <1>2

(* Every way an attempt may end (_execute_trade).                          *)
LEMMA PostKeeps == ASSUME IInv, Post PROVE IInv'
<1>0. opened \in Nat /\ lost \in Nat
  BY Parts DEF NumbersTyped
<1>1. {"400", "502"} \subseteq Statuses /\ {"502"} \subseteq Statuses
      /\ "EXECUTED" \in Statuses /\ "REJECTED" \in Statuses /\ "502" \in Statuses
  BY DEF Statuses
<1>2. CASE Executed
  BY <1>0, <1>1, <1>2, ReplyKeeps DEF Executed
<1>3. CASE Refused
  BY <1>0, <1>1, <1>3, ReplyKeeps DEF Refused
<1>4. CASE NotReached
  BY <1>1, <1>4, AttemptLeftKeeps DEF NotReached
<1>5. CASE Fatal
  BY <1>0, <1>1, <1>5, ReplyKeeps DEF Fatal
<1>6. CASE AnswerLost
  BY <1>1, <1>6, AttemptLeftKeeps DEF AnswerLost
<1> QED BY <1>2, <1>3, <1>4, <1>5, <1>6 DEF Post

(* Tokens come and go, and the babysit loop sees no position               *)
(* (AsyncRateLimiter.acquire, _babysit_loop).                              *)
LEMMA AroundKeeps ==
    ASSUME IInv, Refill \/ TokenTaken \/ BabysitPass \/ UNCHANGED vars
    PROVE  IInv'
<1>1. UNCHANGED <<pc, req, signals, order, left, status, watched, opened, lost>>
  BY DEF Refill, TokenTaken, BabysitPass, vars
<1>2. tokens' \in 0..Burst
  <2>1. tokens \in 0..Burst /\ Burst \in Nat
    BY Parts, ConstantsTyped DEF NumbersTyped
  <2>2. \/ tokens < Burst /\ tokens' = tokens + 1
        \/ tokens > 0 /\ tokens' = tokens - 1
        \/ tokens' = tokens
    BY DEF Refill, TokenTaken, BabysitPass, vars
  <2> QED BY <2>1, <2>2
<1>3. loop' \in {"no positions", "error"}
  <2>1. loop' \in {"no positions", "error"} \/ loop' = loop
    BY DEF Refill, TokenTaken, BabysitPass, vars
  <2> QED BY <2>1, Parts DEF StatusTyped
<1>4. RequestTyped'
  BY <1>1, Parts DEF RequestTyped
<1>5. OrderTyped'
  BY <1>1, Parts DEF OrderTyped
<1>6. StatusTyped'
  BY <1>1, <1>3, Parts DEF StatusTyped
<1>7. NumbersTyped'
  BY <1>1, <1>2, Parts DEF NumbersTyped
<1>8. SignalsTyped(signals)'
  BY <1>1, Parts DEF SignalsTyped
<1>9. BrainAsked'
  BY <1>1, Parts DEF BrainAsked
<1>10. Counted'
  BY <1>1, Parts DEF Counted
<1> QED BY <1>4, <1>5, <1>6, <1>7, <1>8, <1>9, <1>10, PartsNext, Zenon

(* Every step keeps the invariant (orchestrate).                           *)
LEMMA InvariantKept == IInv /\ [Next]_vars => IInv'
<1> SUFFICES ASSUME IInv, [Next]_vars PROVE IInv'
  OBVIOUS
<1>1. CASE Ask \/ Gather \/ AskBrain \/ Raise \/ Decide \/ DecideV2
  BY <1>1, BeforeTheOrder
<1>2. CASE Post
  BY <1>2, PostKeeps
<1>3. CASE Register
  <2>1. /\ Return /\ watched' \in {watched, TRUE}
        /\ UNCHANGED <<status, tokens, loop, opened, lost>>
    BY <1>3 DEF Register
  <2>2. status' \in Statuses /\ watched' \in BOOLEAN
    BY <2>1, Parts DEF StatusTyped
  <2>3. tokens' \in 0..Burst /\ opened' \in 0..Attempts /\ lost' \in 0..Attempts
    BY <2>1, Parts DEF NumbersTyped
  <2>4. opened' <= 1 + lost'
    BY <2>1, Parts DEF Counted
  <2> QED BY <2>1, <2>2, <2>3, <2>4, ReturnKeepsTypes
<1>4. CASE Refill \/ TokenTaken \/ BabysitPass \/ UNCHANGED vars
  BY <1>4, AroundKeeps
<1> QED BY <1>1, <1>2, <1>3, <1>4 DEF Next

(* Type correctness, and an attempt for every position and lost answer,    *)
(* of every behaviour (orchestrate, orchestrate_v2).                       *)
THEOREM Invariance == Spec => []IInv
<1>1. Init => IInv
  BY InvariantInitially
<1>2. IInv /\ [Next]_vars => IInv'
  BY InvariantKept
<1> QED BY <1>1, <1>2, PTL DEF Spec

(* Type correctness (orchestrate, orchestrate_v2).                         *)
THEOREM TypeCorrect == Spec => []TypeOK
<1>1. IInv => TypeOK
  BY DEF IInv
<1> QED BY <1>1, Invariance, PTL

(* A request opens one position, and one more for each answer that was     *)
(* lost (_execute_trade, retry_with_backoff).                              *)
THEOREM OneOrder == Spec => []OneOrderPerRequest
<1>1. IInv => OneOrderPerRequest
  BY DEF IInv, Counted, OneOrderPerRequest
<1> QED BY <1>1, Invariance, PTL

-----------------------------------------------------------------------------
(* Orders that are justified.                                              *)

(* A side of the signals is a side of the order (side_map).                *)
LEMMA SidesAgree ==
    ASSUME NEW side \in {"LONG", "SHORT"}
    PROVE  OnSide(MappedSide(side)) = Agreeing(signals, side)
<1>1. \A n \in Executing(signals) : signals[n].side \in {"LONG", "SHORT"}
  BY DEF Executing
<1>2. \A n \in Executing(signals) :
         MappedSide(signals[n].side) = MappedSide(side) <=> signals[n].side = side
  BY <1>1 DEF MappedSide
<1> QED BY <1>2, Zenon DEF OnSide, Agreeing

(* What the gates agree on justifies the order that follows (evaluate,     *)
(* _execute_trade).                                                        *)
LEMMA DecideJustifies ==
    ASSUME Fallback # "EXECUTE", IInv, Decide, pc' = "post" PROVE Justified'
<1> DEFINE mode == IF req.mode = "default" THEN DefaultMode ELSE req.mode
           d == Decision
<1>1. mode \in Modes /\ Threshold \in Int /\ d = Evaluate(signals, mode, Threshold)
      /\ req.version = 3
  <2>1. DefaultMode \in Modes /\ MinConfidence \in Int
    BY ConfluenceAssumption, ConstantsTyped DEF ConfluenceAssumption
  <2>2. req.mode \in Modes \cup {"default"} /\ req.min \in RequestMin
    BY Parts, Zenon DEF RequestTyped, Request
  <2>3. req.version = 3 /\ req.version # 2
    <3>1. req.version = 3
      BY DEF Decide
    <3> QED BY <3>1
  <2>4. CASE req.mode = "default"
    <3>1. mode = DefaultMode /\ Threshold = MinConfidence
          /\ d = Evaluate(signals, DefaultMode, MinConfidence)
      BY <2>3, <2>4, Zenon DEF Threshold, Decision
    <3> QED BY <2>1, <2>3, <3>1, Zenon
  <2>5. CASE req.mode # "default"
    <3>1. mode = req.mode /\ Threshold = req.min /\ d = Evaluate(signals, req.mode, req.min)
      BY <2>3, <2>5, Zenon DEF Threshold, Decision
    <3>2. req.mode \in Modes /\ req.min \in Int
      <4>1. RequestMin \subseteq Int
        BY ConstantsTyped, Zenon
      <4> QED BY <2>2, <2>5, <4>1, Zenon
    <3> QED BY <2>3, <3>1, <3>2, Zenon
  <2> QED BY <2>4, <2>5
<1>2. /\ d.action = "EXECUTE" /\ ~req.dry
      /\ order'.side = MappedSide(d.side) /\ UNCHANGED <<req, signals>>
  <2>1. ~ \E s : Answer(s)
    BY DEF Answer, Return
  <2> QED BY <2>1 DEF Decide, Order
<1> HIDE DEF d, mode
<1>3. /\ RequiredAnswered(signals) /\ Survives(signals)
      /\ d.side \in {"LONG", "SHORT"} /\ Carries(signals, mode, d.side)
      /\ \E n \in Agreeing(signals, d.side) : signals[n].conf >= Threshold
  BY <1>1, <1>2, GatesAgree, Parts
<1>4. OnSide(MappedSide(d.side)) = Agreeing(signals, d.side)
  BY <1>3, SidesAgree
<1>5. /\ mode = "AND" => Agreeing(signals, d.side) = Executing(signals)
      /\ mode = "MAJORITY" =>
            Cardinality(Agreeing(signals, d.side))
                > Cardinality(Executing(signals) \ Agreeing(signals, d.side))
  BY <1>1, <1>3, CarriedSide, Parts
<1>6. /\ OnSide(order.side)' = Agreeing(signals, d.side) /\ Threshold' = Threshold
      /\ Executing(signals)' = Executing(signals)
      /\ RequiredAnswered(signals)' /\ UNCHANGED <<req, signals>>
  BY <1>2, <1>3, <1>4 DEF OnSide, Threshold, Executing, WithRole, RequiredAnswered
<1>7. \A n \in SurvivalNodes \cap DOMAIN signals :
         signals[n].up => signals[n].action # "KILL"
  BY <1>3, Zenon DEF Survives, WithRole
<1>8. mode' = mode
  BY <1>2 DEF mode
<1> QED BY <1>2, <1>3, <1>5, <1>6, <1>7, <1>8, Zenon DEF Justified, mode

(* The brain's order is justified by the brain (run_pipeline).             *)
LEMMA DecideV2Justifies ==
    ASSUME IInv, DecideV2, pc' = "post" PROVE Justified'
<1> DEFINE b == signals["brain"]
<1>1. req.version = 2 /\ DOMAIN signals = {"brain"} /\ b.up
  BY Parts DEF DecideV2, BrainAsked
<1>2. /\ b.action = "EXECUTE" /\ ~(b.conf < Threshold) /\ b.side \in {"LONG", "SHORT"}
      /\ ~req.dry /\ order'.side = MappedSide(b.side) /\ UNCHANGED <<req, signals>>
  <2>1. ~ \E s : Answer(s)
    BY DEF Answer, Return
  <2>2. Threshold = IF req.min = 0 THEN 55 ELSE req.min
    BY <1>1, Zenon DEF Threshold
  <2>3. /\ ~(b.action # "EXECUTE" \/ b.conf < Threshold)
        /\ b.side \in {"LONG", "SHORT"} /\ ~req.dry
        /\ \E risk : Order(MappedSide(b.side), risk)
        /\ UNCHANGED <<req, signals>>
    <3> HIDE DEF b
    <3>1. ~(b.action # "EXECUTE" \/ b.conf < Threshold)
      BY <2>1, <2>2 DEF DecideV2, b
    <3>2. b.side \in {"LONG", "SHORT"}
      BY <2>1, <2>2, <3>1 DEF DecideV2, b
    <3>3. ~req.dry
      BY <2>1, <2>2, <3>1, <3>2 DEF DecideV2, b
    <3>4. \E scale \in {Clamp(b.conf, 25, 100), 100} :
             Order(MappedSide(b.side), RiskOf(b.mult, scale))
      BY <2>1, <2>2, <3>1, <3>2, <3>3 DEF DecideV2, b
    <3> QED BY <3>1, <3>2, <3>3, <3>4 DEF Order
  <2> QED BY <2>3 DEF Order
<1>3. b.conf \in Int /\ Threshold \in Int
  <2>1. req.min \in Int
    <3>1. req.min \in RequestMin
      BY Parts, Zenon DEF RequestTyped, Request
    <3> QED BY <3>1, ConstantsTyped
  <2> QED BY <1>1, <2>1, Parts DEF SignalsTyped, Threshold
<1>4. "brain" \in Agreeing(signals, b.side)
  BY <1>1, <1>2, Zenon DEF Agreeing, Executing, WithRole, DirectionNodes
<1>5. "brain" \in OnSide(order.side)'
  <2>1. OnSide(MappedSide(b.side)) = Agreeing(signals, b.side)
    BY <1>2, SidesAgree
  <2> QED BY <1>2, <1>4, <2>1 DEF OnSide, Executing, WithRole
<1>6. signals'["brain"].conf >= Threshold'
  BY <1>2, <1>3 DEF Threshold
<1>7. \A n \in SurvivalNodes \cap DOMAIN signals' :
         signals'[n].up => signals'[n].action # "KILL"
  BY <1>1, <1>2
<1> HIDE DEF b
<1>8. req'.version # 3 /\ ~req'.dry
  BY <1>1, <1>2
<1> QED BY <1>5, <1>6, <1>7, <1>8, Zenon DEF Justified

(* While the order is sent, nothing that justifies it changes              *)
(* (_execute_trade).                                                       *)
LEMMA JustifiedKept ==
    ASSUME Fallback # "EXECUTE", IInv, OrdersAreJustified, [Next]_vars
    PROVE  OrdersAreJustified'
<1> SUFFICES ASSUME pc' = "post" PROVE Justified'
  BY DEF OrdersAreJustified
<1>1. CASE Decide
  BY <1>1, DecideJustifies
<1>2. CASE DecideV2
  BY <1>2, DecideV2Justifies
<1>3. CASE UNCHANGED <<pc, req, signals, order>>
  BY <1>3 DEF OrdersAreJustified, Justified, OnSide, Threshold
<1>4. \/ Decide \/ DecideV2 \/ UNCHANGED <<pc, req, signals, order>>
  <2>1. ~Return /\ ~(\E s : Answer(s)) /\ pc' # "gather" /\ pc' # "brain" /\ pc' # "decide"
    BY DEF Answer, Return
  <2>2. ~Ask /\ ~Gather /\ ~AskBrain /\ ~Raise /\ ~Register
    BY <2>1 DEF Ask, Gather, AskBrain, Raise, Register
  <2>3. (\E s : Reply(s)) => FALSE
    BY <2>1, Zenon DEF Reply
  <2>4. ASSUME NEW codes, AttemptLeft(codes) PROVE UNCHANGED <<pc, req, signals, order>>
    BY <2>1, <2>4 DEF AttemptLeft
  <2>5. Post => UNCHANGED <<pc, req, signals, order>>
    BY <2>1, <2>3, <2>4 DEF Post, Executed, Refused, NotReached, Fatal, AnswerLost
  <2>6. Refill \/ TokenTaken \/ BabysitPass \/ UNCHANGED vars
           => UNCHANGED <<pc, req, signals, order>>
    BY DEF Refill, TokenTaken, BabysitPass, vars
  <2> QED BY <2>2, <2>5, <2>6, Zenon DEF Next
<1> QED BY <1>1, <1>2, <1>3, <1>4

(* Whatever nodes are down, whatever the mode, the weights and the         *)
(* thresholds, an order is sent only if the signals justify it: unless a   *)
(* missing required node is itself configured to be a reason               *)
(* (confluence.py, maestro_pipeline.py).                                   *)
THEOREM OrdersJustified ==
    ASSUME Fallback # "EXECUTE" PROVE Spec => []OrdersAreJustified
<1>1. Init => OrdersAreJustified
  BY DEF Init, OrdersAreJustified
<1>2. IInv /\ OrdersAreJustified /\ [Next]_vars => OrdersAreJustified'
  BY JustifiedKept
<1> QED BY <1>1, <1>2, Invariance, PTL DEF Spec
=============================================================================
