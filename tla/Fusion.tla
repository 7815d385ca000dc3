-------------------------------- MODULE Fusion --------------------------------
(***************************************************************************)
(* core/fusion_registry.py with core/service_clients.py, core/schemas.py   *)
(* and core/skill_bridge.py: what a triangle that passed the local scores  *)
(* is worth once five services, or local heuristics in their place, have   *)
(* been asked.  States are records with the source's keys, and a key that  *)
(* is missing is read with a default, as the code does.                    *)
(*                                                                         *)
(* A symbol is a sequence of its parts, <<"SOL", "/", "USDT">>; the        *)
(* scanner's tables have such keys.  Percentages are in thousandths,       *)
(* scores in tenths of a point, volumes in thousands.                      *)
(***************************************************************************)
EXTENDS LocalScore

Worm == INSTANCE LiquidityWorm

CONSTANTS
    Enabled,      \* the services that have a URL
    QuoteAssets,  \* cfg.QUOTE_ASSETS
    SafeAssets,   \* cfg.SAFE_BASE_ASSETS
    Leveraged     \* assets whose name ends in one of LEVERAGED_TOKEN_PATTERNS

Services == {"spoofhunter", "antirug", "newtonian", "narrative", "econopredator"}

ASSUME FusionAssumption == Enabled \subseteq Services

Clean(symbol) == SelectSeq(symbol, LAMBDA part : part # "/")
Get(state, key, default) == IF key \in DOMAIN state THEN state[key] ELSE default

-----------------------------------------------------------------------------
(* Answers of services are validated against a schema, which keeps its own *)
(* keys, with its own defaults, and drops every other.  An answer that does*)
(* not fit the schema is taken as it is.  Values of another type, which no *)
(* service of the program sends, would not fit either and are left out.    *)
Schema ==
    [spoofhunter |-> [symbol |-> "", ghost_count |-> 0, confidence |-> 0],
     newtonian |-> [symbol |-> "", regime |-> "NEUTRAL", confidence |-> 0],
     narrative |-> [symbol |-> "", sentiment |-> "NEUTRAL", score |-> 0],
     econopredator |-> [symbol |-> "", funding_rate |-> 0, atr_pct |-> 0],
     antirug |-> [rug_risk_pct |-> 0, flags |-> {}]]

FitsSchema(service, reply) == service = "antirug" => Get(reply, "rug_risk_pct", 0) >= 0

Validated(service, reply) ==
    IF ~FitsSchema(service, reply) THEN reply
    ELSE [key \in DOMAIN Schema[service] |-> Get(reply, key, Schema[service][key])]

-----------------------------------------------------------------------------
(* _build_market_payload.                                                  *)

PathAssets(tri) == <<tri.start>> \o [i \in 1..3 |-> tri.legs[i].to]

PrimaryAsset(tri) ==
    LET others == SelectSeq(PathAssets(tri), LAMBDA a : a \notin QuoteAssets)
    IN  IF others # <<>> THEN others[1] ELSE PathAssets(tri)[2]

(* The first leg with the asset in its name, or the first leg.             *)
PrimarySymbol(tri) ==
    LET with == {i \in 1..3 : \E j \in DOMAIN tri.legs[i].symbol :
                                   tri.legs[i].symbol[j] = PrimaryAsset(tri)}
        first == IF with = {} THEN 1 ELSE CHOOSE i \in with : \A j \in with : i <= j
    IN  Clean(tri.legs[first].symbol)

TotalVolume(legs, tickers) ==
    tickers[legs[1].symbol].volume + tickers[legs[2].symbol].volume + tickers[legs[3].symbol].volume

MeanSpread(legs, books) ==
    LET Of(leg) == Lookup(books, leg.symbol, NoBook).spread IN Mean3(Of, legs)

-----------------------------------------------------------------------------
(* What stands in for a service that is not asked or does not answer.      *)

(* The book is looked up under the cleaned symbol.                         *)
LocalSpoof(symbol, books) ==
    LET b == Lookup(books, symbol, NoBook)
        total == b.bids + b.asks
        imbalance == IF total = 0 THEN 0 ELSE (100 * (b.bids - b.asks)) \div total
        signs == {s \in {"spread", "share", "imbalance"} :
                    \/ s = "spread" /\ b.spread > 18
                    \/ s = "share" /\ b.share > 55
                    \/ s = "imbalance" /\ Chart!Abs(imbalance) > 35}
        count == Cardinality(signs)
    IN  [ghost_walls_detected |-> count,
         ghost_wall_intensity |-> CASE count = 3 -> "HIGH" [] count = 2 -> "MED" [] OTHER -> "LOW",
         orderbook_imbalance |-> imbalance, iceberg_detected |-> b.share > 72]

(* The ticker's spread and the market's state are looked up under the     *)
(* cleaned symbol, and never found.                                        *)
LocalRug(asset, legs, tickers) ==
    LET points == (IF TotalVolume(legs, tickers) < 150 THEN 30 ELSE 0)
                  + (IF asset \notin SafeAssets THEN 12 ELSE 0)
                  + (IF asset \in Leveraged THEN 80 ELSE 0)
        prob == IF points < 99 THEN points ELSE 99
    IN  [status |-> IF prob >= 40 THEN "REJEITADO" ELSE "APROVADO", rug_probability_pct |-> prob]

(* All legs moving together, and far, is contagion.                        *)
LocalRegime(legs, tickers) ==
    LET gap == Dispersion(legs, tickers)
        Of(leg) == tickers[leg.symbol].change
    IN  IF gap < 5 /\ Chart!Abs(Mean3(Of, legs)) > 50 THEN [regime |-> "CONTAGION", action |-> "KILL"]
        ELSE IF 10 * gap < 125 THEN [regime |-> "CONVERGENCE", action |-> "EXECUTE"]
        ELSE [regime |-> "DIVERGENCE", action |-> "WAIT"]

LocalNarrative(net) ==
    LET edge == Chart!Clip((1000 * net) \div 500, -1000, 1000)
    IN  [action |-> "WAIT", confidence |-> (35 * Chart!Abs(edge)) \div 100]

(* The ticker is looked up under the cleaned symbol too.                   *)
LocalMacro(symbol, tickers) ==
    [atr |-> [pct |-> IF symbol \in DOMAIN tickers THEN 1000 * tickers[symbol].range ELSE 0],
     funding |-> [funding_rate |-> 0], open_interest |-> [oi_delta |-> 0],
     long_short_ratio |-> [ratio |-> 1000]]

LocalStates(tri, tickers, books, net) ==
    [spoofhunter |-> LocalSpoof(PrimarySymbol(tri), books),
     antirug |-> LocalRug(PrimaryAsset(tri), tri.legs, tickers),
     newtonian |-> LocalRegime(tri.legs, tickers),
     narrative |-> LocalNarrative(net),
     econopredator |-> LocalMacro(PrimarySymbol(tri), tickers)]

-----------------------------------------------------------------------------
(* _make_decision, over an envelope of the five states and the market.     *)

Inner(state, key, field, default) == Get(Get(state, key, [none |-> 0]), field, default)

View(e) ==
    [net |-> e.net, spread |-> e.spread, volume |-> e.volume,
     atr |-> Inner(e.econopredator, "atr", "pct", 0),
     funding |-> Inner(e.econopredator, "funding", "funding_rate", 0),
     oi |-> Inner(e.econopredator, "open_interest", "oi_delta", 0),
     basis |-> Inner(e.econopredator, "long_short_ratio", "ratio", 1000) - 1000,
     imbalance |-> 10 * Get(e.spoofhunter, "orderbook_imbalance", 0),
     ghosts |-> Get(e.spoofhunter, "ghost_walls_detected", 0),
     iceberg |-> Get(e.spoofhunter, "iceberg_detected", FALSE),
     regime |-> Get(e.newtonian, "regime", "")]

GhostWalls(e) ==
    /\ Get(e.spoofhunter, "ghost_walls_detected", 0) >= 2
    /\ Get(e.spoofhunter, "ghost_wall_intensity", "") \in {"HIGH", "MED"}

RugPct(e) == Get(e.antirug, "rug_probability_pct", 0)

(* Mutant: the action is read, which a schema drops.                       *)
ContagiousByAction(e) == Get(e.newtonian, "action", "") = "KILL"

Rug(e) == Get(e.antirug, "status", "") = "REJEITADO" \/ RugPct(e) >= 40
Contagious(e) ==
    Get(e.newtonian, "action", "") = "KILL" \/ Get(e.newtonian, "regime", "UNKNOWN") = "CONTAGION"

(* v is the View of the envelope e, and w the liquidity engine's analysis. *)
Vetoed(e, w) ==
    \/ Get(e.spoofhunter, "iceberg_detected", FALSE) \/ GhostWalls(e)
    \/ Rug(e) \/ Contagious(e) \/ w.spoof_risk >= 750

(* Penalties and boosts, in the order of the code.                         *)
Delta(e, v, w) ==
    LET If(condition, n) == IF condition THEN n ELSE 0
        confidence == Get(e.narrative, "confidence", 0)
        supports == Get(e.narrative, "action", "") = "EXECUTE" /\ confidence >= 450
    IN  If(~GhostWalls(e) /\ Chart!Abs(v.imbalance) >= 220, -60)
        + If(~Rug(e), IF RugPct(e) >= 22 THEN -70 ELSE 20)
        + If(~Contagious(e) /\ v.regime = "CONVERGENCE", 40)
        + If(~Contagious(e) /\ v.regime = "DIVERGENCE", -15)
        + If(supports, Chart!Clip(15 + (4 * confidence) \div 100, 0, 40))
        + If(~supports /\ confidence >= 250, 10)
        + If(v.atr >= 4500, -40) + If(Chart!Abs(v.funding) >= 80, -20) + If(v.volume >= 750, 15)
        + If(w.spoof_risk \in 550..749, -50) + If(w.crowding >= 78000, -35)
        + If(w.sweep /\ w.reclaim >= 450 /\ w.failed_break >= 550, 30)
        + If(w.true_break >= 680 /\ w.failed_break <= 400 /\ w.wall_quality >= 45000, 30)
        + If(w.sweep_logit >= 664 /\ w.reclaim >= 450, 20)
        + If(w.trend_logit >= 664 /\ w.acceptance >= 550, 20)

(* action is the bridge's action plan, which travels with the decision.    *)
Decision(e, v, w) ==
    LET final == Chart!Clip(e.base + Delta(e, v, w), 0, 1000)
        allow == ~Vetoed(e, w) /\ final >= 680
    IN  [allow |-> allow, final_score |-> final,
         action |-> IF ~allow THEN "block" ELSE IF e.base >= 650 THEN "execute" ELSE "watch"]
=============================================================================
