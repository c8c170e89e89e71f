----------------------------- MODULE HedgePlanning -----------------------------
(***************************************************************************)
(* From positions to hedge plans: calculatePredictExposure                 *)
(* (src/src/hedge/exposure-calculator.ts), planExposureHedges              *)
(* (src/src/hedge/hedge-planner.ts), validateHedgePlanRisk                 *)
(* (src/src/risk/hedge-risk.ts) and the decision of ExposureHedgeStrategy  *)
(* (src/src/strategy/exposure-hedge.ts).                                   *)
(*                                                                         *)
(* The positions of the accounts come in any order; one step takes one.    *)
(* Ratios are in quarters.  Abstracted: prices of orders and their cost;   *)
(* the clock, of which a candidate's age is what counts.                   *)
(***************************************************************************)
EXTENDS Usd, Sequences

CONSTANTS
  Market,        \* predict markets, keys eventKey:marketId
  EventOf,       \* their events
  Amounts,       \* what a position states of its size, some of AmountFields
  Config,        \* raw configurations: the settings stated in camel and in snake case
  DefaultHedgeConfig,
  Candidates,    \* sequences of candidate markets
  MaxPositions   \* bound: positions of the accounts together

\* config/schema.ts:123-141
ConfigType ==
  [ratio : 1..4, maxOrder : Nat \ {0}, minOrder : Nat \ {0}, maxNet : Nat, maxSpread : Nat,
   minDepth : Nat \ {0}, usage : 1..4, maxAge : Nat, sameEvent : BOOLEAN,
   correlated : BOOLEAN, live : BOOLEAN, enabled : BOOLEAN]

CandidateType ==
  [event : {EventOf[m] : m \in Market} \cup {"another"}, depth : {x \in Int : WholeCents(x)},
   bid : Int, ask : Int,
   spread : Seq(Int),  \* empty unless it is stated
   age : Int]

\* normalizeHedgeConfig
NormalizeHedgeConfig(raw) ==
  [key \in DOMAIN DefaultHedgeConfig |->
     IF key \in DOMAIN raw.camel THEN raw.camel[key]
     ELSE IF key \in DOMAIN raw.snake THEN raw.snake[key]
     ELSE DefaultHedgeConfig[key]]

\* What a position states of its size, the first of these that it states.
AmountFields == <<"sizeUsd", "notionalUsd", "valueUsd", "usd">>

PositionUsd(stated) ==
  LET named == SelectSeq(AmountFields, LAMBDA f : f \in DOMAIN stated)
  IN IF named # <<>> THEN stated[Head(named)]
     ELSE IF {"quantity", "price"} \subseteq DOMAIN stated
          THEN Magnitude(stated.quantity * stated.price)
     ELSE 0

ASSUME PlanningAssumption ==
  /\ \A raw \in Config : NormalizeHedgeConfig(raw) \in ConfigType
  /\ Candidates \subseteq Seq(CandidateType)
  /\ MaxPositions \in Nat
  \* so that a quarter of an amount is a number of units
  /\ \A stated \in Amounts : PositionUsd(stated) \in Int /\ WholeCents(PositionUsd(stated))

Side == {"long", "short", "other"}  \* YES, yes and buy are long; NO, no and sell short

VARIABLES positions,   \* history: what calculatePredictExposure has gone through
          exposures,   \* the map it builds, of the markets it has met
          hedges       \* the plans of the last call, <<>> while there is none

planningVars == <<positions, exposures, hedges>>

-----------------------------------------------------------------------------
(* calculatePredictExposure *)

Net(e) == e.long - e.short

Current(m) == IF m \in DOMAIN exposures THEN exposures[m] ELSE [long |-> 0, short |-> 0]

\* Mutant: a second position on the same side replaces the first.
ExposedAnew(e, side, usd) == CASE side = "long"  -> [e EXCEPT !.long = Magnitude(usd)]
                              [] side = "short" -> [e EXCEPT !.short = Magnitude(usd)]
                              [] OTHER          -> e

Exposed(e, side, usd) == CASE side = "long"  -> [e EXCEPT !.long = @ + Magnitude(usd)]
                          [] side = "short" -> [e EXCEPT !.short = @ + Magnitude(usd)]
                          [] OTHER          -> e

TakePosition(m, side, stated) ==
  /\ hedges = <<>>
  /\ Len(positions) < MaxPositions
  /\ positions' = Append(positions, [market |-> m, side |-> side, stated |-> stated])
  /\ exposures' = [k \in DOMAIN exposures \cup {m} |->
                     IF k = m THEN Exposed(Current(m), side, PositionUsd(stated)) ELSE exposures[k]]
  /\ UNCHANGED hedges

-----------------------------------------------------------------------------
(* validateHedgePlanRisk *)

\* marketSpread: what the candidate states, else that of its book; a crossed one has none.
MarketSpread(c) == IF c.spread # <<>> THEN c.spread[1] ELSE AtLeastZero(c.ask - c.bid)

\* marketDepthUsd
MarketDepth(c) == AtLeastZero(c.depth)

\* marketAgeMs: a timestamp of the future counts as now.
MarketAge(c) == AtLeastZero(c.age)

\* Mutant: the market is the candidate's, whatever its age.
CandidateCodesAgeless(c, event, cfg) ==
  {code \in {"EVENT_KEY_MISMATCH"} : cfg.sameEvent /\ c.event # event}
  \cup {code \in {"SPREAD_TOO_WIDE"} : MarketSpread(c) > cfg.maxSpread}
  \cup {code \in {"INSUFFICIENT_DEPTH"} : MarketDepth(c) < cfg.minDepth}

CandidateCodes(c, event, cfg) ==
  {code \in {"EVENT_KEY_MISMATCH"} : cfg.sameEvent /\ c.event # event}
  \cup {code \in {"STALE_MARKET_DATA"} : MarketAge(c) > cfg.maxAge}
  \cup {code \in {"SPREAD_TOO_WIDE"} : MarketSpread(c) > cfg.maxSpread}
  \cup {code \in {"INSUFFICIENT_DEPTH"} : MarketDepth(c) < cfg.minDepth}

PlanCodes(net, size, cfg) ==
  {code \in {"LIVE_HEDGE_NOT_SUPPORTED"} : cfg.live}
  \cup {code \in {"MAX_NET_EXPOSURE_EXCEEDED"} : Magnitude(net) > cfg.maxNet}
  \cup {code \in {"MAX_ORDER_EXCEEDED"} : size > cfg.maxOrder}
  \cup {code \in {"HEDGE_SIZE_BELOW_MIN"} : size > 0 /\ size < cfg.minOrder}

-----------------------------------------------------------------------------
(* planExposureHedges *)

\* findCandidate: the indices of the candidates that match; the first is taken.
Matching(event, candidates, cfg) ==
  {i \in DOMAIN candidates : \/ candidates[i].event = event
                             \/ ~cfg.sameEvent /\ cfg.correlated}

Direction(net) == IF net > 0 THEN "SELL" ELSE IF net < 0 THEN "BUY" ELSE "NONE"

HedgeSize(net, c, cfg) ==
  Min({(Magnitude(net) * cfg.ratio) \div 4, cfg.maxOrder, (MarketDepth(c) * cfg.usage) \div 4})

\* No candidate: the depth limit is 0, and so is the size.
PlanWithoutCandidate(net, cfg) ==
  [net       |-> net,
   direction |-> Direction(net),
   size      |-> 0,
   after     |-> Magnitude(net),
   order     |-> "none",
   candidate |-> 0,
   codes     |-> {"NO_MATCHING_MARKET"} \cup PlanCodes(net, 0, cfg)]

PlanWithCandidate(net, event, i, candidates, cfg) ==
  LET c    == candidates[i]
      size == HedgeSize(net, c, cfg)
  IN [net       |-> net,
      direction |-> Direction(net),
      size      |-> size,
      after     |-> Magnitude(net) - size,
      order     |-> IF net = 0 \/ size <= 0 THEN "none" ELSE IF net < 0 THEN "YES" ELSE "NO",
      candidate |-> i,
      codes     |-> CandidateCodes(c, event, cfg) \cup PlanCodes(net, size, cfg)]

PlanFor(m, candidates, cfg) ==
  LET net      == Net(exposures[m])
      matching == Matching(EventOf[m], candidates, cfg)
  IN IF matching = {} THEN PlanWithoutCandidate(net, cfg)
     ELSE PlanWithCandidate(net, EventOf[m], Min(matching), candidates, cfg)

\* One plan for each exposure; the strategy accepts if none has a reject reason.
PlanExposureHedges(candidates, raw) ==
  LET cfg   == NormalizeHedgeConfig(raw)
      plans == [m \in {k \in DOMAIN exposures : cfg.enabled} |-> PlanFor(m, candidates, cfg)]
  IN /\ hedges = <<>>
     /\ hedges' = <<[plans      |-> plans,
                     accepted   |-> \A m \in DOMAIN plans : plans[m].codes = {},
                     candidates |-> candidates,
                     config     |-> cfg]>>
     /\ UNCHANGED <<positions, exposures>>

\* buildExposureHedgePlan, of the planner: the plan of the exposure met first, or
\* one that is not approved when there is none.
BuildExposureHedgePlan(candidates, raw) ==
  LET cfg   == NormalizeHedgeConfig(raw)
      first == {positions[i].market : i \in {j \in DOMAIN positions : j = 1 /\ cfg.enabled}}
      plans == [m \in first |-> PlanFor(m, candidates, cfg)]
  IN /\ hedges = <<>>
     /\ hedges' = <<[plans      |-> plans,
                     accepted   |-> first # {} /\ \A m \in first : plans[m].codes = {},
                     candidates |-> candidates,
                     config     |-> cfg]>>
     /\ UNCHANGED <<positions, exposures>>

\* The next call starts afresh.
NextEvaluation == /\ hedges # <<>>
                  /\ hedges' = <<>>
                  /\ positions' = <<>>
                  /\ exposures' = [m \in {} |-> [long |-> 0, short |-> 0]]

PlanningInit == /\ positions = <<>>
                /\ exposures = [m \in {} |-> [long |-> 0, short |-> 0]]
                /\ hedges = <<>>

PlanningNext ==
  \/ \E m \in Market, side \in Side, stated \in Amounts : TakePosition(m, side, stated)
  \/ \E candidates \in Candidates, raw \in Config : PlanExposureHedges(candidates, raw)
  \/ \E candidates \in Candidates, raw \in Config : BuildExposureHedgePlan(candidates, raw)
  \/ NextEvaluation

PlanningSpec == PlanningInit /\ [][PlanningNext]_planningVars

-----------------------------------------------------------------------------
(* Properties *)

Taken(m, side) == {i \in DOMAIN positions : positions[i].market = m /\ positions[i].side = side}

Sizes == [i \in DOMAIN positions |-> Magnitude(PositionUsd(positions[i].stated))]

SumOf(m, side) == SumFunctionOnSet(Sizes, Taken(m, side))

\* The exposure of a market is what its positions sum to, in whatever order they
\* come and whichever sides the code does not know; a market nobody holds has none.
ExposuresAreSums ==
  /\ DOMAIN exposures = {positions[i].market : i \in DOMAIN positions}
  /\ \A m \in DOMAIN exposures : exposures[m] = [long  |-> SumOf(m, "long"),
                                                 short |-> SumOf(m, "short")]

\* A plan without a risk code hedges: it goes against the exposure and never beyond
\* it, is as large as the configuration wants it, and rests on fresh data of a
\* market of the event, of whose depth it uses no more than its part.  An accepted
\* evaluation consists of such plans.
Sound(m, plan, candidates, cfg) ==
  /\ plan.size \in 0..cfg.maxOrder
  /\ plan.after \in 0..Magnitude(plan.net)
  /\ plan.net # 0 => /\ plan.size >= cfg.minOrder
                     /\ plan.after < Magnitude(plan.net)
                     /\ plan.order = IF plan.net > 0 THEN "NO" ELSE "YES"
  /\ plan.candidate \in DOMAIN candidates
  /\ LET c == candidates[plan.candidate]
     IN /\ c.event = EventOf[m] \/ (~cfg.sameEvent /\ cfg.correlated)
        /\ c.age <= cfg.maxAge
        /\ 4 * plan.size <= MarketDepth(c) * cfg.usage

HedgesReduceExposure ==
  \A i \in DOMAIN hedges :
    LET call == hedges[i] IN
      /\ \A m \in DOMAIN call.plans :
           /\ call.plans[m].net = Net(exposures[m])
           /\ call.plans[m].codes = {} => Sound(m, call.plans[m], call.candidates, call.config)
      /\ call.accepted => \A m \in DOMAIN call.plans : call.plans[m].codes = {}
================================================================================
