----------------------------- MODULE Opportunity -----------------------------
(***************************************************************************)
(* The passes of scanners/dynamic_tri_scanner.py (_scan_cycle), with the   *)
(* services that core/fusion_registry.py asks at the same time, as many as *)
(* are Enabled, one the spoofhunter of Spoofhunter.tla.  For each triangle:*)
(* the profit after fees, the books, the local scores without and with the *)
(* chart, the answers, the decision.  The best of those that are allowed   *)
(* is published.  TriNet.tla takes it from there.                          *)
(*                                                                         *)
(* An answer is on its way while other things happen; a request that fails *)
(* is repeated RETRY_ATTEMPTS times, and then a local heuristic stands in. *)
(* Whether robin_hood allows a pass, and how much an order may be, is      *)
(* RobinHood.tla: here both may be so or not.                              *)
(***************************************************************************)
EXTENDS Fusion, Spoofhunter, Newtonian

CONSTANTS
    Listed,         \* the markets of the exchange, in a sequence: [base, quote, symbol, trades]
    BaseAssets,     \* cfg.BASE_ASSETS
    QuoteOrder,     \* cfg.QUOTE_ASSETS, in its order
    Markets,        \* tickers there can be, in a sequence: functions from symbols
    Books,          \* books that can be read: functions from some of the symbols
    Charts,         \* sets of at most one chart: none when there are no candles
    Skies,          \* what newtonian can have seen of an asset's pairs: epochs, pair by pair
    RugAnswers,     \* what antirug can answer
    MinProfit,      \* MIN_PROFIT_PCT, in thousandths
    Fee,            \* of a leg, in 1/4000
    RetryAttempts

VARIABLES
    scan,       \* the pass: where it is, and what it has read
    attempts,   \* how often the request under way to each service has failed, or all times
    states,     \* the states that the fusion registry has got
    alarms,     \* history: services whose answer, as it came, speaks against the trade
    approved,   \* history: the worth of all that the pass has found allowed
    published   \* what the pass that ended last put on CH_OPPORTUNITIES, or none

-----------------------------------------------------------------------------
(* discover: the cycles of three markets, in the order in which they are   *)
(* met.  Of the cycles over the same three markets the first is kept: the  *)
(* other direction, though another trade, is never evaluated.              *)

Edges ==
    LET assets == BaseAssets \cup QuoteAssets
        Used(m) == m.trades /\ {m.base, m.quote} \cap assets # {}
        Both(m) == <<[from |-> m.base, symbol |-> m.symbol, side |-> "sell", to |-> m.quote],
                     [from |-> m.quote, symbol |-> m.symbol, side |-> "buy", to |-> m.base]>>
    IN  FlattenSeq([i \in DOMAIN Listed |-> IF Used(Listed[i]) THEN Both(Listed[i]) ELSE <<>>])

From(asset) == SelectSeq(Edges, LAMBDA leg : leg.from = asset)

Cycles(start) ==
    LET Closed(a, b) == SelectSeq(From(b.to), LAMBDA c : c.to = start /\ b.to # start /\ b.to # a.to)
        Trips(a, b) == LET back == Closed(a, b) IN [i \in DOMAIN back |-> [start |-> start, legs |-> <<a, b, back[i]>>]]
        Paths(a) == LET next == From(a.to) IN FlattenSeq([i \in DOMAIN next |-> Trips(a, next[i])])
        out == From(start)
    IN  FlattenSeq([i \in DOMAIN out |-> Paths(out[i])])

Triangles ==
    LET Key(tri) == {tri.legs[i].symbol : i \in 1..3}
        New(found, tri) == \A k \in DOMAIN found : Key(found[k]) # Key(tri)
        all == FlattenSeq([i \in DOMAIN QuoteOrder |-> Cycles(QuoteOrder[i])])
    IN  FoldLeft(LAMBDA found, tri : IF New(found, tri) THEN Append(found, tri) ELSE found, <<>>, all)

ASSUME OpportunityAssumption ==
    /\ \A i, j \in DOMAIN Listed :
          {Listed[i].base, Listed[i].quote} = {Listed[j].base, Listed[j].quote} => i = j
    /\ {QuoteOrder[i] : i \in DOMAIN QuoteOrder} = QuoteAssets
    /\ RetryAttempts \in Nat \ {0}

(* Prices and sizes are numbers.  A triangle is passed over while a leg    *)
(* has no ticker, or one without a price, as it is when an order would be  *)
(* too small (_quick_evaluate).                                            *)
ASSUME NumbersAssumption ==
    /\ Fee \in Nat
    /\ \A m \in DOMAIN Markets : \A symbol \in DOMAIN Markets[m] :
          /\ Markets[m][symbol].bid \in Nat \ {0} /\ Markets[m][symbol].ask \in Nat \ {0}
          /\ Markets[m][symbol].change \in Int
    /\ \A k \in DOMAIN Triangles, i \in 1..3 : \A m \in DOMAIN Markets :
          Triangles[k].legs[i].symbol \in DOMAIN Markets[m]
    /\ \A b \in DOMAIN Books : \A symbol \in DOMAIN Books[b] :
          /\ Books[b][symbol].bids \in Nat /\ Books[b][symbol].asks \in Nat
          /\ Books[b][symbol].spread \in Nat /\ Books[b][symbol].share \in Nat
          /\ Books[b][symbol].entropy \in Nat
    /\ \A c \in DOMAIN Charts : \A chart \in Charts[c] : chart.strong.atr \in Int

scanVars == <<scan, attempts, states, alarms, approved, published>>
passVars == <<scanVars, engineVars>>

Nobody == [tri |-> 0, value |-> 0, alarms |-> {}]
Unasked == [s \in Enabled |-> 0]
NoStates == [s \in {} |-> 0]
NoScan == [at |-> "idle", tri |-> 0, best |-> Nobody]

PassTypeOK ==
    /\ EngineTypeOK
    /\ scan.at \in {"idle", "scan", "ask"} /\ scan.tri \in Nat
    /\ attempts \in [Enabled -> 0..RetryAttempts]
    /\ DOMAIN states \subseteq Enabled
    /\ scan.at # "ask" => states = NoStates
    /\ alarms \subseteq Enabled
    /\ approved \subseteq Int

PassInit ==
    /\ EngineInit /\ scan = NoScan /\ attempts = Unasked /\ states = NoStates
    /\ alarms = {} /\ approved = {} /\ published = Nobody

-----------------------------------------------------------------------------
(* What a triangle brings, in thousandths of a percent (_quick_evaluate).  *)

AfterLeg(amount, leg, ticker) ==
    (((IF leg.side = "buy" THEN (amount * 1000) \div ticker.ask ELSE (amount * ticker.bid) \div 1000)
        * (4000 - Fee)) \div 4000)

Net(tri, tickers) ==
    LET leg(i) == tri.legs[i]
        first == AfterLeg(100000, leg(1), tickers[leg(1).symbol])
        second == AfterLeg(first, leg(2), tickers[leg(2).symbol])
    IN  AfterLeg(second, leg(3), tickers[leg(3).symbol]) - 100000

(* A volume surge with a move is worth four points, or two.                *)
SnipeBoost(tri, tickers) ==
    LET volume == TotalVolume(tri.legs, tickers)
        moved(n) == \E c \in Changes(tri.legs, tickers) : Chart!Abs(c) >= n
    IN  IF volume >= 8000 /\ moved(35) THEN 40 ELSE IF volume >= 3000 /\ moved(20) THEN 20 ELSE 0

(* The first leg that is not between two quote assets, or the first leg.   *)
ChartSymbol(tri) ==
    LET odd == {i \in 1..3 : ~({tri.legs[i].from, tri.legs[i].to} \subseteq QuoteAssets)}
        first == IF odd = {} THEN 1 ELSE CHOOSE i \in odd : \A j \in odd : i <= j
    IN  tri.legs[first].symbol

(* Tables over all that can be read: nothing in them depends on time.      *)
StandIn ==
    [k \in DOMAIN Triangles |-> [m \in DOMAIN Markets |-> [b \in DOMAIN Books |->
        LocalStates(Triangles[k], Markets[m], Books[b], Net(Triangles[k], Markets[m]))]]]

Envelope(tri) ==
    LET tickers == Markets[scan.market]
        State(s) == Get(states, s, StandIn[scan.tri][scan.market][scan.book][s])
    IN  [net |-> Net(tri, tickers), spread |-> MeanSpread(tri.legs, Books[scan.book]),
         volume |-> TotalVolume(tri.legs, tickers), base |-> scan.base,
         spoofhunter |-> State("spoofhunter"), antirug |-> State("antirug"),
         newtonian |-> State("newtonian"), narrative |-> State("narrative"),
         econopredator |-> State("econopredator")]

-----------------------------------------------------------------------------
(* The pass.                                                               *)

BeginPass(market) ==
    /\ scan.at = "idle"
    /\ scan' = [at |-> "scan", tri |-> 1, best |-> Nobody, market |-> market]
    /\ approved' = {} /\ published' = Nobody
    /\ UNCHANGED <<attempts, states, alarms, engineVars>>

(* The scores without and with the chart have to be good enough.           *)
PassesLocally(tri, tickers, books, chart, frame, legacy, score) ==
    /\ Net(tri, tickers) >= MinProfit
    /\ IsValid(legacy, tri.legs, tickers, books, {}, frame)
    /\ IsValid(score, tri.legs, tickers, books, chart, frame)

Judged(tri, tickers, books, chart, frame, legacy, score) ==
    [passes |-> PassesLocally(tri, tickers, books, chart, frame, legacy, score), score |-> score]

Framed(tri, tickers, books, chart, frame, legacy) ==
    Judged(tri, tickers, books, chart, frame, legacy, Score(legacy, chart, frame))

Rated(tri, tickers, books, chart) ==
    Framed(tri, tickers, books, chart, FrameBook(Lookup(books, ChartSymbol(tri), NoBook)),
           LegacyScore(tri.legs, tickers, books))

Local ==
    [k \in DOMAIN Triangles |-> [m \in DOMAIN Markets |-> [b \in DOMAIN Books |-> [c \in DOMAIN Charts |->
        Rated(Triangles[k], Markets[m], Books[b], Charts[c])]]]]

GoOn(best) == [at |-> "scan", tri |-> scan.tri + 1, best |-> best, market |-> scan.market]

(* enough: an order of one dollar is within what robin_hood concedes.      *)
Evaluate ==
    /\ scan.at = "scan" /\ scan.tri \in DOMAIN Triangles
    /\ \E book \in DOMAIN Books, chart \in DOMAIN Charts, enough \in BOOLEAN :
       \E local \in {Local[scan.tri][scan.market][book][chart]} :
            scan' = IF enough /\ local.passes
                    THEN [at |-> "ask", tri |-> scan.tri, best |-> scan.best, market |-> scan.market,
                          book |-> book, base |-> local.score]
                    ELSE GoOn(scan.best)
    /\ UNCHANGED <<attempts, states, alarms, approved, published, engineVars>>

(* newtonian is asked about the asset, and knows those it tracks.          *)
Gravity ==
    LET Seen(sky) == GravitySignal([i \in DOMAIN sky |-> After(sky[i])]) IN
    [k \in DOMAIN Triangles |->
        IF PrimaryAsset(Triangles[k]) \in TrackedAssets THEN {Seen(sky) : sky \in Skies}
        ELSE {GravitySignal(<<>>)}]

Replies(s) ==
    CASE s = "spoofhunter" -> {Signal}
      [] s = "newtonian" -> Gravity[scan.tri]
      [] s = "antirug" -> RugAnswers
      [] OTHER -> {NoStates}

Pending(s) == scan.at = "ask" /\ s \notin DOMAIN states

Settle(s, state) == states' = [t \in DOMAIN states \cup {s} |-> IF t = s THEN state ELSE states[t]]

(* Ghost walls that call for a veto, or contagion.                         *)
IsAlarm(s, reply) ==
    \/ s = "spoofhunter" /\ GhostWalls([spoofhunter |-> reply])
    \/ s = "newtonian" /\ Get(reply, "regime", "") = "CONTAGION"

Answer(s, reply) ==
    /\ Pending(s)
    /\ Settle(s, Validated(s, reply))
    /\ attempts' = [attempts EXCEPT ![s] = 0]
    /\ alarms' = IF IsAlarm(s, reply) THEN alarms \cup {s} ELSE alarms
    /\ UNCHANGED <<scan, approved, published, engineVars>>

(* Mutant: a service that fails is asked again for as long as it takes.    *)
AsksForever(s) == Pending(s) /\ UNCHANGED passVars

(* A request fails or takes more than three seconds; after the last, the   *)
(* local heuristic stands in.                                              *)
Fail(s) ==
    /\ Pending(s)
    /\ attempts' = [attempts EXCEPT ![s] = @ + 1]
    /\ IF attempts[s] + 1 < RetryAttempts THEN UNCHANGED states
       ELSE Settle(s, StandIn[scan.tri][scan.market][scan.book][s])
    /\ UNCHANGED <<scan, alarms, approved, published, engineVars>>

(* Mutant: the last one that is allowed is taken.                          *)
TheLast(value, best) == value > 0

Better(value, best) == value > best.value

Find(tri, e, final) ==
    [tri |-> scan.tri, value |-> e.net * (final + SnipeBoost(tri, Markets[scan.market])),
     alarms |-> alarms, market |-> scan.market, book |-> scan.book,
     told |-> {s \in DOMAIN states \ {"spoofhunter"} : attempts[s] < RetryAttempts}]

(* A decision that allows goes on to the volatility index: too high, and   *)
(* robin_hood is paused.                                                   *)
Conclude(opp, allowed) ==
    /\ scan' = GoOn(IF allowed /\ Better(opp.value, scan.best) THEN opp ELSE scan.best)
    /\ approved' = IF allowed THEN approved \cup {opp.value} ELSE approved

Decide ==
    /\ scan.at = "ask" /\ DOMAIN states = Enabled
    /\ UNCHANGED <<published, engineVars>>
    /\ attempts' = Unasked /\ states' = NoStates /\ alarms' = {}
    /\ \E e \in {Envelope(Triangles[scan.tri])} : \E v \in {View(e)} : \E w \in {Worm!Analysis(v)} :
       \E decision \in {Decision(e, v, w)} :
            Conclude(Find(Triangles[scan.tri], e, decision.final_score),
                     decision.allow /\ w.wvi < 5200)

Publish ==
    /\ scan.at = "scan" /\ scan.tri \notin DOMAIN Triangles
    /\ published' = scan.best /\ scan' = NoScan
    /\ UNCHANGED <<attempts, states, alarms, approved, engineVars>>

EngineGoesOn == EngineStep /\ UNCHANGED scanVars

PassNext ==
    \/ \E market \in DOMAIN Markets : BeginPass(market)
    \/ Evaluate
    \/ \E s \in {t \in Enabled : Pending(t)} : (\E reply \in Replies(s) : Answer(s, reply)) \/ Fail(s)
    \/ Decide
    \/ Publish
    \/ EngineGoesOn

(* A request that is not answered runs into its time-out, and the loop of  *)
(* the scanner goes on: an answer is not promised.                         *)
Proceeds == (\E s \in Enabled : Fail(s)) \/ Evaluate \/ Decide \/ Publish

PassSpec == PassInit /\ [][PassNext]_passVars /\ WF_passVars(Proceeds)

-----------------------------------------------------------------------------
FitToTrade(tri, tickers, books, told) ==
    /\ \A i \in 1..3 : LET symbol == tri.legs[i].symbol IN
            ~Suspect(tickers[symbol], Lookup(books, symbol, NoBook))
    /\ PrimaryAsset(tri) \in Leveraged => "antirug" \in told

(* No opportunity is published over a book that is wide, thin or was not   *)
(* read, over a leg without volume, or over a token that is leveraged,     *)
(* unless antirug answered: whatever failed, and whatever else spoke for   *)
(* it.  (confluence_engine.py:_mod_fake_momentum, fusion_registry.py.)     *)
BooksAreSound ==
    published # Nobody =>
        FitToTrade(Triangles[published.tri], Markets[published.market], Books[published.book],
                   published.told)

MoveTogether(legs, tickers) ==
    LET Of(leg) == tickers[leg.symbol].change
    IN  Dispersion(legs, tickers) < 5 /\ Chart!Abs(Mean3(Of, legs)) > 50

(* Contagion is vetoed, whoever sees it: nothing is published for which    *)
(* newtonian answered CONTAGION, whatever its schema keeps of the answer,  *)
(* nor, when newtonian is not asked or does not answer, while all legs     *)
(* move together, and far (fusion_registry.py:_get_regime; "veto           *)
(* contaminated opportunities (spoof / rug / contagion)").                 *)
ContagionIsVetoed ==
    published # Nobody =>
        /\ "newtonian" \notin published.alarms
        /\ "newtonian" \notin published.told =>
              ~MoveTogether(Triangles[published.tri].legs, Markets[published.market])

(* A pass publishes the best of all it found, whatever the order in which  *)
(* the triangles were tried and the services answered (_scan_cycle).       *)
BestIsPublished ==
    [][scan.at # "idle" /\ scan'.at = "idle" => \A value \in approved : value <= published'.value]_passVars

(* Services may fail or be silent, one after another: the triangle that    *)
(* waits for them is decided, and the pass ends (service_clients.py,       *)
(* _request_json: retries and a time-out; fusion_registry.py: "degrades    *)
(* gracefully to local heuristics").                                       *)
PassEnds == scan.at = "ask" ~> scan.at = "idle"

(* fusion_registry.py:5: the registry can "veto contaminated opportunities *)
(* (spoof / rug / contagion)": nothing is published for which spoofhunter  *)
(* answered that there are two ghosts of at least medium intensity.  The   *)
(* code does not keep it: the schema drops the keys the veto reads.        *)
GhostsAreVetoed == "spoofhunter" \notin published.alarms
=============================================================================
