# Verification of the Apex Predator trading engines

TLA+ models of the trading engines in this repository, the TLC runs that check them on
small instances, and theorems about them proved with TLAPS for every value of their
constants. Paths are relative to the repository; `core.py:317` stands for line 317 of
the file named in the section.

## 1. The system

The repository holds three generations of one idea, a program that trades on its own and
must not lose much while nobody looks:

* **v666**, a triangular-arbitrage network (`main.py`, `scanners/`, `executors/`,
  `core/`, `utils/`): one scanner process looks for triangles, asks five analytics
  services what they think of them, and executor processes in two regions trade the best
  one on one Binance account. Redis Pub/Sub connects them.
* **v3**, a set of HTTP services (`services/`, `apex_common/`, `apm.py`): an
  orchestrator asks analytics nodes in parallel, combines their answers and sends an
  order to an external executioner; a job queue in Redis, a position manager, a
  backtester and a memecoin service stand beside it.
* **predator-v4** and **apex-neo**, two single-process engines (`predator-v4/`,
  `apex-neo/`): a signal loop over market streams, positions, exits, a risk manager, a
  dashboard and a bot.

All of it is asyncio: inside a process a step is the code between two awaits, and
interleavings are between coroutines (and, in v666, between processes).

| component | source | state | operations | modelled in |
|---|---|---|---|---|
| risk engine | `core/robin_hood_risk.py` | equity, peak, paused, pause_until, shutdown | initialize, is_allowed, max_order_size, record_trade, trigger_pause, the scheduled pause | `RiskEngine`, `RobinHood` |
| arbitrage network | `scanners/`, `executors/`, `utils/redis_pubsub.py`, `core/binance_connector.py`, `core/auto_earn_hook.py`, `main.py` | best opportunity, messages of each connection, the triangle of each executor, the account | scan cycle, publish, handlers, three legs, record, Auto-Earn, crash and restart | `TriNet` |
| triangles and their pass | `scanners/dynamic_tri_scanner.py` | graph of markets, triangles, the pass | discover, evaluate, publish | `Opportunity` |
| local scores | `core/confluence_engine.py`, `core/chart_confluence_engine.py` | history of volumes | seven modules, the chart, is_valid | `LocalScore`, `ChartScore` |
| fusion registry | `core/fusion_registry.py`, `core/service_clients.py`, `core/schemas.py`, `core/skill_bridge.py` | answers of the services | payload, schemas, heuristics, vetoes, penalties, plan | `Fusion` |
| liquidity engine | `services/liquidity_worm.py` | none | analysis | `LiquidityWorm` |
| spoofhunter | `services/spoofhunter.py` | tracked walls, ghosts, icebergs | depth, trade, signal | `Spoofhunter` |
| newtonian | `services/newtonian.py` | regimes of pairs | epoch, gravity | `Newtonian` |
| circuit breaker | `apex_common/circuit_breaker.py` | state, failure counter, opened_at | is_available, record_success, record_failure, force_open, force_close | `BreakerPromise`, `CircuitBreaker` |
| fan-out of a request | `services/maestro_v3.py`, `apex_common/node_adapters.py`, `retry.py` | tasks, attempts, timers | start, answer, retry, give up, cancel | `FanOut` |
| confluence gates | `apex_common/confluence.py`, `node_adapters.py` | none | adapters, survival, direction, risk, modes | `Confluence` |
| requests and execution | `services/maestro_v3.py`, `maestro_pipeline.py`, `rate_limit.py` | the request, tokens, positions | gather, decide, post, register, babysit | `Maestro` |
| job queue | `apex_common/redis_queue.py`, endpoints of `maestro_v3.py` | stream, job records, delayed set | enqueue, retry, status, pop | `JobQueue` |
| position manager | `apm.py` | positions, VPIN buckets, exits | register, process_tick, force_exit | `PositionManager` |
| backtester | `services/backtester.py` | trades, log, clock | replay | `Backtest` |
| memecoin service | `services/jito_spoof.py` | positions, bundles | open, trail, exit, submit | not modelled: no code calls its trail |
| predator-v4 engine | `predator-v4/predator/core.py`, `risk/manager.py`, `exchange/executor.py`, `strategy/exits.py` | positions, risk record, the order awaited | signal loop, order answers, dashboard, stop | `PredatorRisk`, `Predator`, `Exits` |
| predator-v4 market data | `exchange/binance_ws.py`, `exchange/bybit_ws.py` | local books | snapshot, difference, reconnect | `BookFeed` |
| apex-neo trading | `apex-neo/main.py`, `trading/*.py` | position, pause, regime block | signal loop, orders, questions, stop | `ApexNeo` |
| narrative, dreamer, econopredator, antirug, apex-neo's engines, features and model of predator-v4 | `services/`, `apex-neo/engine/`, `strategy/` | statistics of streams | ingest, signal | what they say is a free choice |
| dashboards, bots, settings, scripts, skills, adversarial shield, gateway | rest | — | input and output | not modelled |

How they interact: the scanner publishes opportunities on a Redis channel that both
executors read; every process asks its own risk engine; all executors move money of one
account and read its balance back. The scanner's fusion registry asks five services at
once while they go on changing (the model has three of them, see below). In v3 a request
starts one task per node, each through a shared circuit breaker, and sends its order
through a shared rate limiter. In predator-v4 and apex-neo the signal loop, the
dashboard and the daily summary share the risk manager, and the loop suspends in the
middle of a decision to wait for an order.

What is hard in this code (each at its line in the list of hazards): a decision made
before an await and acted on after it; reads that change state (`is_allowed`,
`get_status`); orders whose answer is lost although they were executed; balances of one
account read by two processes; processes that restart with an empty memory; pauses that
must end and some that must not; timers that race (attempt, gather deadline, cooldown);
losses that arrive after the limit was reached; answers that lose the keys the decision
reads; check-then-act across Redis commands; a book that is kept from differences over a
stream that breaks; a stop that trails a peak.

## 2. Modules

Each module's comments name the code a definition stands for; the `map` of
`PROJECT.json` gives the lines.

### v666

**`RiskEngine`** is `core/robin_hood_risk.py` as operators on one record: `Allowed` is
the value of `is_allowed`, `AfterAsking` its effect (it lifts an expired pause,
schedules a new one, shuts down), `AfterTrade` is `record_trade`, `AfterPause` the body
of `_activate_pause`, `OrderSize` is `max_order_size` in integers. **`RobinHood`** is
one process around that record: trades open when the engine allows them and are recorded
later; meanwhile a heartbeat may ask, another module may call `trigger_pause`, the
scheduled pause may run, the process may restart. What is recorded is the difference of
two balance requests (`base_executor.py:173-174`): the triangle's own result or, when a
request failed (`get_balance` then returns 0.0, `binance_connector.py:169`) or another
process moved money in between, the difference of any two balances. The history variable
`misled` is the largest loss recorded in this way.

**`TriNet`** is the deployment: scanner, executors, connections, account, with one
action per stretch between two awaits. An order may be rejected, executed, or executed
with its answer lost; either balance request of a triangle, and that of a process that
starts, may fail and return 0.0. The executors share the account, so each records what
the others do between its two requests. Four history variables follow what an engine
cannot know: `own` is what an executor's triangle has moved, `blurred` whether the
difference it is about to record is another amount, `apart` what the account has and the
engine never counts, `misled` as in `RobinHood`; `clear` says that no executor has
restarted and no record was blurred. The module instantiates `RobinHood` for each
executor and is shown to obey it (`KeepsTheRules`).

**`Opportunity`** is what happens before a message is published. `Triangles` is
`discover`: the triangles among the listed markets, each in the one direction in which
it was first met. A pass evaluates one after the other: profit after fees, local scores
without and with the chart, a request to each service in `Enabled` under way at once
(each is answered from the state its service has *then*, fails, or is silent until it
times out, and is repeated `RETRY_ATTEMPTS` times), the decision, the best so far. The
code knows five services; the run enables three of them, spoofhunter, newtonian and
antirug, and the local heuristics speak for narrative and econopredator, of whose
answers the schemas keep nothing the decision reads. It extends **`LocalScore`** (seven
modules and their weights), **`ChartScore`** (the chart engine from its indicators on),
**`Fusion`** (market payload, schemas, heuristics, decision, action plan),
**`LiquidityWorm`**, and two services in full: **`Spoofhunter`**, whose engine moves
while it is asked, and **`Newtonian`**, the epochs of a pair of assets. The schemas are
modelled by what they do: an answer is reduced to the keys of its model and filled with
defaults; an answer the schema does not validate is used as it came
(`service_clients.py:75-77`, a negative `rug_risk_pct` for instance).

### v3

**`BreakerPromise`** says what a circuit breaker promises, without states or opening
times. **`CircuitBreaker`** is the code, with the calls it lets through in flight while
its state changes, and implements the promise. **`FanOut`** extends it with attempts,
the timeout of an attempt, the deadline after which `_gather_signals` cancels a call,
nodes that go up and down, and an operator who forces a breaker.

**`Confluence`** is the decision of `apex_common/confluence.py` (survival, direction,
confidence, risk, and the four modes) and the adapters that make a signal of each node's
answer. **`Maestro`** extends it with one request of either version from the fan-out to
the answer: the repeated POST through the token bucket, an order that is executed
although its answer is lost, the registration, and the babysitter's pass.

**`JobQueue`** keeps each helper of `redis_queue.py` as the list of Redis commands it
has still to send; tasks interleave between commands and may end there.

**`PositionManager`** is `apm.py` as functions of a position and a tick: VPIN buckets,
trailing stop, ghost liquidity, and the checks of `process_tick` in their order; the
size of a VPIN bucket is calibrated by the first trades, as the code does it.
**`Backtest`** extends it with the replay of `services/backtester.py`: two concurrent
positions, the engine's table and log beside the manager's, and a wall clock that has
nothing to do with the ticks. The log's result is net of twice the fee and the slippage
(`backtester.py:787`, `Net`), the extremes it keeps beside it are gross, and the ATR a
position is registered with looks back `Lookback` ticks.

### The single-process engines

**`PredatorRisk`** is `risk/manager.py` as operators on one record, **`Predator`** the
live engine: the loop visits the symbols in turn and waits for an order, which may fill,
expire with a part or nothing, be rejected, or be executed with the answer lost; the
dashboard asks the risk manager at any time; a stop request and the clock come in
between; a position whose symbol has no book in this turn is passed over (`core.py:224`,
`NoBook`). **`Exits`** follows one position on a price path under `strategy/exits.py`:
several ticks may pass between two looks at the price, as they do while the symbol has
no book. **`BookFeed`** is the local book of one symbol in either of its two clients,
over a stream that breaks and loses what is on its way.

**`ApexNeo`** is one pass of apex-neo's loop from price to sleep, in paper or live mode:
the regime gate, `check_allowed` (which renews the pause it finds expired), entries and
exits with lost answers, a journal that cannot be written to, questions of the bot and
the dashboard between any two steps, the stop request, a crash and a new process with an
empty memory. While the ticker fails (`main.py:256`) the engine sees no price and the
model's price stands still: `MaxMove` bounds the move between two prices that are
*seen*, so an outage is one move of whatever the market did meanwhile.

## 3. What is checked

Every property of a passing run is violated by at least one mutant, a changed definition
that stands in the module with the comment *Mutant* before it and is not part of the
specification. Deadlock is checked except where the system stops by itself: a position
or a replay that has ended (`exits`, `backtest`), an engine whose stop was requested
(`apex_neo`), an exchange's book at the bound on its changes (`book_feed`).

| run | bounds | shows |
|---|---|---|
| `fan_out` | 3 calls, 2 attempts, timeout 2, deadline 3, threshold 2, cooldown 2, one operator action | `NodeIsLeftAlone`: after enough failures nobody reaches the node for a cooldown, whatever late answers come in between; `TripInvariant`; `KeepsPromise` (refinement); a node that stays up is used again (`Recovers`), one that fails every request is cut off again and again |
| `robin_hood` | balances 0, 20, 26; orders up to 16; limit 4 %; equity up to 52 | no capital at risk in a drawdown; the losses overshoot the limit by less than one order or than the largest loss that was recorded and not made (`CapitalProtected`); pauses of other modules end |
| `tri_net` | 2 executors (symmetric) on one account, 2 opportunities, inbox 1, 2 triangles, 1 fault: a crash of any process or a balance request that fails | `BooksBalance`: every engine counts what the account has but for what it cannot have seen; `AccountProtected`: until an executor restarts or records what is not its own, the account loses less than the limit and one order for each executor; the refinement `KeepsTheRules` |
| `fusion` | 2 triangles, 3 services, 2 attempts, 4 prices of a book | what is published has sound books; nothing is published that newtonian answered CONTAGION about or, without its answer, whose legs move together and far; it is the best of its pass; a ghost had an order in the last snapshot, where a wall was seen not long ago; the pass ends |
| `fusion_ghosts` | same | *violation*: spoofhunter answers that there are ghosts and the opportunity is published all the same |
| `maestro` | 5 nodes that answer, veto or are down; every mode; 2 attempts; one token | one POST that is filled per request unless an answer was lost, orders justified by the signals, every request is answered |
| `job_queue` | 1 key, 3 tasks (symmetric), 3 messages | two executions of one key need the interleavings named in the property; a scheduled retry is kept |
| `exits` | prices −36..30, moves of up to ten, one or two ticks between two looks | while a position is held it keeps its best profit but for the widest callback, and has lost less than the widest stop; one that has ended lost less than that and one move |
| `backtest` | 4 ticks, 2 concurrent positions, 9 kinds of tick, costs of 10 hundredths of a percent | the engine's log and the manager's exits tell one story, the costs apart; no trade's net result is worse than the hard stop, one move and the costs |
| `predator` | 3 symbols, 2 slots, pause after 2 losses | positions are counted right, drawdown overshoots by at most the occupied slots, no entry while stopped, pauses end; a position that is looked at again and again ends, unless an answer was lost (`ForcedExit`) |
| `book_feed` | 3 levels, a snapshot of 2, 4 changes, 2 breaks | a local book is wrong only in levels it was not told of, and catches up with what it is told |
| `apex_neo` | 3 entries, 1 crash, moves of 2 | drawdown, holdings and entries within what the risk manager and the gate concede |

Why the bounds are enough. *Breaker*: three calls give a late success and a late failure
around a probe; a threshold of 2 separates the first failure from the one that trips;
timeout < deadline < two attempts, as in the configuration. *Robin Hood*: with a limit
of 4 % and equities of 20 to 52 units, trades cross 2 % (where orders shrink), 4 %, and
50 % of the configured capital; 0 is a balance request that failed, and any two balances
are the difference another process may cause. *TriNet*: two executors on one account
make every interleaving of one triangle with another between two balance requests, two
triangles also a trade after a loss; with one fault any process ends at any step, or any
request fails. An inbox that is full drops a message, which looks like one the handler
filters out. What needs more faults or more triangles is proved for any number (section
4). *Fusion*: two triangles give a best and a second best in both orders, and state of
the first that the second must not see; three services are one that vetoes, one that is
dropped and one that is silent; a market is sound but for one thing, so that no gate
hides behind another. *Maestro*: five nodes cover each combination of roles; one request
is followed, others show as tokens that are gone. *Job queue*: keys share nothing.
*Predator*: three symbols on two slots make a slot contested; pause and day are one tick
long, since a pause may end before, with or after anything that takes no time; the
equity starts at its bound (`MaxEquity`), so the run has falling and recovering equities
and the theorem covers rising peaks. *Exits*: every limit is met exactly, crossed by a
step and crossed by a jump. *Backtest*: four ticks open, trail, and close two positions
in both orders. *Book feed*: a level can leave the best two and return while nobody
listens. *Apex-neo*: three entries are a loss to the limit, a refused one and one after
a pause.

Fairness, where a liveness property is checked:

* `RobinHood`: the clock advances, the event loop runs scheduled tasks, and the
  heartbeat of `main.py` goes on asking. No trade is assumed to open or end.
* `FanOut`: time passes and what is due runs, because the timers of asyncio fire. That
  requests keep arriving (`Begin`) is an assumption on the clients, needed because the
  breaker only changes when it is asked.
* `Opportunity`: one weak fairness, of the scanner's loop and of the time-outs of its
  requests (`Proceeds`). No service is assumed to answer.
* `Maestro`: its own steps and the refill of the bucket; strong fairness of `Post`,
  because other requests may take a token while this one waits: `acquire` polls, and the
  event loop serves pollers in turn.
* `BookFeed`: messages of an open stream are received.
* `Predator`: the clock, the dashboard's loop, the signal loop and the answers proceed.
  Two assumptions on the outside world, without which no engine can end a position: no
  symbol is without a book whenever the loop comes to it (strong fairness of
  `LookedAt`), and of the exit orders that are sent again and again one is filled
  (strong fairness of `ExitFilled`).

## 4. What is proved

All proofs are checked by TLAPS from the definitions TLC runs, for all values of the
constants that satisfy the named assumptions of the modules. Each invariant is proved by
an inductive one.

* **`RobinHood_proofs`**: `TypeOK`, `NothingAtRiskInDrawdown`, `CapitalProtected`,
  `MostOfThePeakIsKept`, for any balances, results and failed requests. It begins with
  lemmas about the engine's record: an order is at most 40 % of the equity and at most
  `MaxPorCiclo`; asking, pausing and ticking change no money; a trade adds its result.
  The inductive invariant adds that the peak is the highest equity and that the stake of
  a trade in flight is an order the engine would still permit (`StakeIsAnOrder`): equity
  changes only when the trade ends, so the size agreed on before the await is right
  after it. A trade that starts below the limit ends at most its loss below it
  (`TradeKeepsBounds`), and that is an order when the result is the triangle's own, and
  at most `misled` when it is not: so such losses do not add up. That 60 % of what the
  limit leaves of the peak is kept is proved, and true, only as long as no loss was
  recorded that was not made. `TriNet_proofs` uses the lemmas about the record through
  an instance, and shows that both modules mean the same engine (`SameEngine`).
* **`TriNet_proofs`**: for any number of executors on one account, opportunities,
  crashes and failed balance requests: `TypeOK`; that no executor has capital in a
  triangle while its engine has reached the limit (`NoStake`: only its own `Record`
  changes an engine's equity, `BelowLimitWhileTrading`); and `BooksBalance`. The
  invariant of the latter, `MoneyFits`, follows the capital through the awaits of one
  executor: `BooksFit` compares its engine's equity with what free balance and Simple
  Earn hold, with what its triangle has moved so far (`own`) and with `apart`;
  `MovesFit` says that the difference it will read is `own`, unless it is `blurred`. A
  step of another executor adds to the account what it adds to `apart`
  (`OthersLeaveIt`); the steps of an executor's own triangle are taken one by one
  (`AcceptFits`, `LegsFit`, `RecordFits`, `EarnAndCrashFit`). `AccountIsProtected` is
  proved for the two executors that are deployed. Nobody sees the account's drawdown:
  `LossesFit` says that each engine is at most one order below its own limit,
  `AccountFits` that the account has won or lost what is apart for the one plus what is
  apart for the other, and the bound is the sum. `RulesAreKept`: every executor
  implements `RobinHood`, whatever the others do and however the reads fail. A record
  that is the triangle's own is a result of at least minus its capital, any other is the
  difference of two balances. It is stated for behaviours within `RobinHood`'s bounds
  (`WithinBounds`) and for results that are no larger than its `MaxGain` (`ResultsFit`):
  both name bounds of the model, not conditions of the code. The same module has the
  passes of `Opportunity`: `BooksAreSound`, `ContagionIsVetoed`, `BestIsPublished` and
  `GhostWasAWall`, for any markets, books, charts, answers, number of attempts and
  snapshots. `PassFits` says of the triangle that is asked about that its books passed,
  and of each state that is there that its service answered or that it is what the local
  heuristic says: of a leveraged token the heuristic says REJEITADO (`LeveragedIsRug`),
  of legs that move together CONTAGION (`TogetherIsContagion`), and either is a veto, so
  what is allowed without them was told of (`AllowedIsTold`). That newtonian answered
  CONTAGION is not lost on the way through its schema (`RegimeIsKept`), and `AlarmKept`
  carries it to the decision. For the best of a pass values have to be comparable:
  `Numbers` and the lemmas on prices, scores and penalties say that they are integers
  whatever is answered, from `NumbersAssumption`. `EngineFits` says that a wall that is
  tracked had an order in the last snapshot and was seen to be a wall no longer ago than
  its age; `GhostWasAWall` claims no more: the engine cannot tell a wall that was pulled
  from one that shrank first, that it tracked anew after five lifetimes, or that left
  the depth it is sent.
* **`CircuitBreaker_proofs`**: the type invariant, `TripInvariant`, `NodeIsLeftAlone`,
  and that `CircuitBreaker` implements `BreakerPromise` (every initial state and every
  step is mapped), for any number of calls, any threshold and any cooldown. `FanOut`
  restricts the breaker's steps and adds variables of its own; `FanOutUsesTheBreaker`
  shows that nothing it does is a new step of the breaker, so that the specification the
  run checks keeps all three for any number of attempts and any time-outs
  (`FanOutKeepsPromise`).
* **`Maestro_proofs`**: `TypeOK`, `OneOrderPerRequest` and `OrdersAreJustified`, for any
  nodes, weights, thresholds, answers and any number of attempts. `OneOrderPerRequest`
  is not inductive: `Counted` adds that while the POST is still to be repeated each
  position that was opened is one whose answer was lost, and that an attempt is left for
  whatever may still happen. `OrdersAreJustified` rests on what the gates decide
  (`GatesAgree`, `CarriedSide`): the weighted mean of the confidences reaches the
  threshold, so somebody on that side does. Votes and weights are sums over sets of
  nodes; `VotesOf` shows by induction on the size of the set what is needed of them
  (`BySize`, `SumExists`). For version 2 `BrainAsked` says that the brain's answer is
  the only one there is. The theorem has one hypothesis, `Fallback # "EXECUTE"`: with
  that setting, which the code accepts and the default (WAIT) avoids, a missing required
  node gives an order that no signal justifies (section 5). Type correctness and
  `OneOrderPerRequest` do not need it.
* **`Predator_proofs`**: `TypeOK`, `CountIsRight`, `StreakIsBounded`,
  `DrawdownIsBounded`, `NoEntryWhileStopped`, for any number of symbols and slots.
  `IInv` says that if all slots in use still lose the most they can, streak and drawdown
  stay within their bounds. An entry takes a slot only if the manager allowed it; a loss
  uses up one slot's share; asking again and the passing of time never turn an allowed
  trade into a forbidden one (`CheckStaysAllowed`, `TickStaysAllowed`), which is why the
  await between the check and the fill does no harm. The module also has
  `WrongOnlyWhereMissed` of `BookFeed`, for any levels, depth, and number of changes and
  breaks. `Becomes` says of one level what a book comes to once the messages under way
  are received: a message that is added has the last word on what it tells of
  (`LastWord`), and to receive the first one changes nothing of that (`FirstReceived`).
* **`ApexNeo_proofs`**: `HoldingIsBounded`, `EntriesFitTheRegime` and
  `DrawdownIsBounded`. The first is not inductive, since it does not say what the engine
  believes: `HoldingFits` compares the account with the side of the executor's position
  (nothing, while the process is down), and they differ by at most one lot for each
  order taken for another and each crash. The second rests on `GateFits`: a block is
  never older than the low score that caused it, so a block that has timed out means a
  score that has been low for that long. For the third, `MoneyFits` says what the risk
  manager knows of the session's result, which is all but one worst trade for each exit
  the journal lost; `LossFits` that as long as a position is open, or its order under
  way, the manager sees no drawdown, and that the position loses at most its stop and
  one move: so the trade that reaches the limit overshoots it by one worst trade.
* **`JobQueue_proofs`**: `OneMessagePerKey` and `ScheduledRetryIsKept`, for any number
  of keys and tasks. The count of messages is not inductive by itself, since a task may
  be about to add one. `OneSourceEach` says of a key that is not excused that nothing
  but the task that creates its record adds a message: no retry is scheduled or under
  way, at most one task is past the look-up, and once the message is there so is the
  record, or the task that is about to write it. `LooksFirst` gives the order of a
  task's commands that this needs.
* **`Exits_proofs`**: `LossIsBounded` and `ProfitIsKept`, for any range of prices,
  stops, time-outs, gaps between two looks and any widest move. `PredHeld` says where
  the price of a position that is still held can be after a look: above its stop, and,
  once the trail is on, within the callback of the best gain. The next move is added
  once, by the look that ends it. The assumption that no gain in `Gains` equals the
  marker for "not ended" was found by the proof: without it an ended position could be
  taken for an open one. The same module holds the proofs about the replays of
  `Backtest`: `LogAgreesWithManager` and `TradeLossIsBounded`, for any path of the
  price, entry strategy, length, number of concurrent positions and limits of the
  manager, whatever the costs and however far the ATR looks back. `ReplayBooks` has the
  two accounts line by line, `Watched` the present gain of every trade within the
  extremes the engine keeps, `Above` every held position above its hard stop, and
  `PathFits` the rest of the path above zero. The order in which a tick ends several
  positions is the order of their numbers: that a finite set has one is proved by
  induction on its size (`OrderExists`). `TradeLossIsBounded` is stated for a hard stop
  above zero (the defaults are 2.5 and 3 percent); at zero a trade is ended exactly at
  the bound, which the property excludes. Its bound is on the logged result, so the
  costs are part of it.

Every invariant and every action property of the passing runs is a theorem. Only
model-checked is everything under fairness, because the prover has neither liveness
under fairness nor ENABLED (`Recovers` of `FanOut`, the ends of pauses, requests, passes
and positions, `CatchesUp`). The type invariants are checked by TLC while the modules
are written, and proved for all components but `ApexNeo` and the records of `Backtest`.
Out of the prover's reach in general: RECURSIVE operators, and the library's induction
theorems, whose parameter is an operator; an induction has to be carried out for a set
that is named, as `Maestro_proofs` does it for the sums of votes. That each leg of a
triangle is one of the listed markets, for instance, would need such an induction over
`discover`; `NumbersAssumption` says of the tickers what is needed of it, and TLC
evaluates it.

## 5. Where the code and its documents differ

With a run that shows it: `core/fusion_registry.py:5` says "veto contaminated
opportunities (spoof / rug / contagion)". The answer of a remote service is validated as
a model that has not the keys the decision reads (`service_clients.py:74`,
`schemas.py:13`), so its ghosts veto nothing; only the local heuristics do. The same
holds of antirug (whose answer even adds points) and narrative; newtonian's CONTAGION is
in its schema and does veto.

Seen while modelling, in the models or at their edge:

*v666.* A pause of the drawdown is renewed by the request that finds it expired, so
"PAUSA TOTAL por 30 minutos" (`robin_hood_risk.py:8`) does not end. An equity below 50 %
pauses and does not shut down (`:9`): the drawdown is looked at first. Alerts that
"sincronizar TODOS os serviços" (`:14`) are only logged. A failed balance request is 0.0
(`binance_connector.py:169`) and becomes a result; a process that starts while nothing
is free believes in the configured capital (`robin_hood_risk.py:68`), whatever the
account has elsewhere. Both regions may execute one opportunity, and each records what
the other does between its two balance requests. The "drawdown total" of
`robin_hood_risk.py:8` is seen by no single engine: each sees its own triangles, and all
together may lose the limit once per executor. The high-WVI pause the README names
cannot happen: a blank macro state leaves the WVI at most 4. Only one direction of each
triangle is evaluated, because a triangle is remembered as a set
(`dynamic_tri_scanner.py:143`). Symbols are looked up without their slash, under which
nothing is stored (`fusion_registry.py:241`). An opportunity found early in a pass is
published although a later triangle would pause.

*Spoofhunter and newtonian.* A wall that lasts longer than five lifetimes is tracked as
new by the next snapshot; a best size that does not change counts as refilled; a level
that leaves the depth that is sent counts as pulled; a stream that has stopped leaves
its last imbalance standing. CONTAGION lasts until the first epoch without a further
rise; a failed fetch leaves the older returns, and an acceleration of zero. Maestro asks
about "BTCUSDT" where newtonian tracks "BTC", and always hears UNKNOWN.

*v3.* A half-open breaker admits every caller (`circuit_breaker.py:80`). A node that
hangs is cancelled by the gather deadline before its attempt counts as failed, and is
never cut off. The babysitter iterates over the keys of a dict (`maestro_v3.py:192`) and
raises on every pass with a position; the close request it would send is not repeated.
With the fallback set to EXECUTE a missing required node gives a buy (`:496`). The order
is a POST that is repeated after a lost answer (`:517`). A bundle that fails in the mode
"jito" is submitted again in the same mode, until Python's recursion limit
(`jito_spoof.py:430`). The memecoin service never looks at a position again: the
trailing stop and the time-out stand in `update_trail_stop` (`:211`), which only tests
call, and which would leave a position alone once it is TRAILING (`:215`), where the
comment says "Auto-exit after MAX minutes". The emergency exit books −100 %. The
backtester computes the time of its ticks and never uses it (`backtester.py:759`).

*predator-v4.* A lost answer to an executed exit makes the engine repeat it for ever,
where `exits.py:14` says "force exit at 180s". Binance's books stay wrong after a
reconnect in levels that do not change; Bybit's are kept and never read. The last closed
candle is ingested again on every pass (`core.py:230`), so that the realised volatility
over 30 candles is not one. The choice of symbols is refreshed without subscribing to
the new ones. The 90 % cap is applied to each position alone (`manager.py:92`).

*apex-neo.* A pause never ends while its cause is there (`risk.py:95`). Exits count
whatever became of their order (`executor.py:246`). Live orders go to the first market
the exchange lists, not to the configured one (`executor.py:283`). A stop request ends
the loops and not the process (`main.py:186`).

## 6. What is abstracted

Money is counted in integer units, ratios are compared without division; the code uses
floating point, and rounding errors are outside the models. Clocks are integer ticks.
Statistics over windows of prices (indicators of a chart, correlations, entropies) are
fields of records with values on both sides of each threshold. The Redis server neither
loses nor reorders messages of a connection that stays up; what is published while a
process is down is lost. The results in the log of a replay are in ten thousandths of
the unit of price, so that fees and slippage are exact; the equity, a product of them,
is left out. In `TriNet` the amounts of the legs are not modelled: a triangle ends with
any result from `Results`, or leaves its capital in another asset. In `Predator` a
position is a number of lots whose result is any value in its range.

## 7. Not modelled, and what is next

Not modelled: the memecoin service, since no code of it ever calls the part that has
states to get wrong; the statistics themselves (features and model of predator-v4,
apex-neo's engines, narrative, dreamer, econopredator, antirug), which have no
concurrency and compute with floating point over long windows; the adversarial shield
and the signal hub, which only tests and scripts use; dashboards, bots, settings,
logging, launchers.

Next:

1. The type invariant of `ApexNeo` and of the replays, as theorems.
2. Lemmas about the decisions of `Fusion`: how far penalties and boosts can move a
   score.
3. Amounts of the legs in `TriNet`, and the workers' side of the job queue once the
   repository has one.
