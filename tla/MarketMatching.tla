----------------------------- MODULE MarketMatching -----------------------------
(***************************************************************************)
(* Which markets of the two venues the programs take for the two sides of  *)
(* one question: the TypeScript scanner (src/src/markets/scanner.ts) with  *)
(* the hourly matcher and its short-window filter (src/src/core) and the   *)
(* strict matcher (src/src/matching), the check of the time that is left   *)
(* before a trade (src/src/risk/manager.ts), the filters of the two venues *)
(* listings (src/src/adapters/*/market-discovery.ts), and the strict       *)
(* matcher of the Python reference (src/src/predictfun/matching.py).       *)
(*                                                                         *)
(* A pair is two BinaryMarketSpecs, which the scanners compare, or two raw *)
(* listings, which the discovery reads and the hourly matcher compares.    *)
(* Both carry in "settles" what the venue really settles by.               *)
(***************************************************************************)
EXTENDS MarketClassification

CONSTANTS MinToClose,    \* minSecondsToClose
          Lookahead,     \* discoveryLookaheadSeconds
          Allowed,       \* allowedResolutionSources
          StaleBook,     \* staleBookMs
          Pairs,         \* pairs [kind, predict, polymarket] the venues may have
          Horizon        \* bound: the last step of the clock

\* The configuration may allow markets whose source is not known (config/schema.ts:151);
\* the one shipped does not, and a pair of such markets need not be a hedge.
ASSUME MatchingAssumption ==
  /\ {MinToClose, Lookahead, StaleBook, Horizon} \subseteq Nat
  /\ Allowed \subseteq ResolutionSource

-----------------------------------------------------------------------------
(* External: the listings of the venues *)

Time == Nat \cup {NoTime}

Settlement == [source : STRING, rule : UpDownRule]

\* "headline" is of the title, the question, the description and the outcomes, "words" of
\* the first three and the rules.
SpecListing ==
  [asset : STRING, family : STRING, kind : STRING, binary : BOOLEAN, source : STRING,
   oracle : STRING, provider : STRING, symbol : STRING, rule : STRING,
   headline : SUBSET Phrase, words : SUBSET Phrase, direction : STRING,
   strike : STRING, hash : STRING, resolution : STRING, cadence : STRING, start : Time, end : Time, eventStart : Time,
   eventEnd : Time, tradable : BOOLEAN, accepting : BOOLEAN, closed : BOOLEAN,
   resolved : BOOLEAN, delay : Nat, settles : Settlement]

PredictListing ==
  [question : SUBSET Phrase, words : SUBSET Phrase, start : Time, end : Time,
   resolution : STRING, settles : Settlement, outcomes : SUBSET Phrase, variant : STRING,
   status : STRING, trading : STRING]

PolymarketListing ==
  [question : SUBSET Phrase, words : SUBSET Phrase, start : Time, end : Time,
   resolution : STRING, settles : Settlement, active : BOOLEAN, orderBook : BOOLEAN,
   accepting : BOOLEAN, closed : BOOLEAN, tokens : Seq(STRING), delay : Nat]

\* A text that names a source, or a rule, names that by which the market settles.
HonestText(m) ==
  /\ IsText(m.words)
  /\ \A source \in ResolutionSource :
       SourcePhrases(source) \subseteq m.words => source = m.settles.source
  /\ {"close", "open", ">"} \subseteq m.words =>
       m.settles.rule = IF ">=" \in m.words THEN "CLOSE_GTE_OPEN_IS_UP"
                                            ELSE "CLOSE_GT_OPEN_IS_UP"

\* What a listing states of its source and rule may be missing or unknown, not wrong.
HonestSpec(m) ==
  /\ HonestText(m)
  /\ {m.source, m.oracle} \cap ResolutionSource \subseteq {m.settles.source}
  /\ m.rule \in UpDownRule => m.rule = m.settles.rule

\* The discoveries read no more of the resolution than its source and rule: that of
\* raw listings is taken to be the same.  One of Polymarket's two tokens is for "up".
HonestPair(listings) ==
  \/ /\ listings \in [kind : {"specs"}, predict : SpecListing, polymarket : SpecListing]
     /\ HonestSpec(listings.predict) /\ HonestSpec(listings.polymarket)
  \/ /\ listings \in [kind : {"raw"}, predict : PredictListing, polymarket : PolymarketListing]
     /\ HonestText(listings.predict) /\ HonestText(listings.polymarket)
     /\ listings.predict.resolution = listings.polymarket.resolution
     /\ \E i \in DOMAIN listings.polymarket.tokens :
          listings.polymarket.tokens[i] \in {"up", "yes"}

ASSUME PairsAssumption == \A listings \in Pairs : HonestPair(listings)

VARIABLES pair,      \* the listings [kind, predict, polymarket]
          now,
          accepted,  \* the programs that took the pair for a match
          approved   \* when chooseTrade let a trade of it through, NoTime before

matchVars == <<pair, now, accepted, approved>>

-----------------------------------------------------------------------------
(* Normalised markets *)

\* What a venue states for a field comes before what is read otherwise.
Stated(explicit, otherwise) == IF explicit # "" THEN explicit ELSE otherwise
StatedTime(explicit, otherwise) == IF explicit # NoTime THEN explicit ELSE otherwise

CadenceOf(start, end) ==
  IF HasWindow(start, end) THEN classifyCadence(start, end) ELSE "UNKNOWN"

normalizeBinaryMarketSpec(m) ==
  LET start  == StatedTime(m.eventStart, m.start)
      end    == StatedTime(m.eventEnd, m.end)
      spoken == m.words \cup SourcePhrases(m.source)
  IN [asset    |-> normalizeAsset(m.asset),
      family   |-> normalizeFamily(Stated(m.family, classifyMarketFamily(m.headline))),
      start    |-> start,
      end      |-> end,
      cadence  |-> normalizeCadence(Stated(m.cadence, CadenceOf(start, end))),
      provider |-> normalizeProvider(Stated(m.provider, normalizePriceFeedProvider(spoken))),
      symbol   |-> normalizeSymbol(Stated(m.symbol, normalizePriceFeedSymbol(spoken))),
      source   |-> normalizeSource(Stated(m.oracle, normalizeResolutionSource(spoken, m.source))),
      rule     |-> normalizeRule(Stated(m.rule, normalizeUpDownRule(m.words))),
      up       |-> m.direction = "up",
      tradable |-> m.tradable /\ m.accepting,
      closed   |-> m.closed,
      resolved |-> m.resolved,
      delay    |-> m.delay]

\* What both discoveries read from the texts and times of a raw listing, and what
\* they take for granted unless the listing says otherwise.
ReadListing(raw, outcomes) ==
  [asset    |-> IF "eth" \in raw.question THEN "ETH" ELSE "BTC",
   family   |-> classifyMarketFamily(raw.words \cup outcomes),
   start    |-> raw.start,
   end      |-> raw.end,
   cadence  |-> CadenceOf(raw.start, raw.end),
   provider |-> normalizePriceFeedProvider(raw.words),
   symbol   |-> normalizePriceFeedSymbol(raw.words),
   source   |-> normalizeResolutionSource(raw.words, ""),
   rule     |-> normalizeUpDownRule(raw.words),
   up       |-> TRUE,
   tradable |-> TRUE,
   closed   |-> FALSE,
   resolved |-> FALSE,
   delay    |-> 0]

\* The outcomes of Polymarket's two tokens come in any order.
HasToken(tokens, names) == \E i \in DOMAIN tokens : tokens[i] \in names

tokenOutcomes(tokens) ==
  {phrase \in {"up or down"} : HasToken(tokens, {"up"}) /\ HasToken(tokens, {"down"})}

normalizePolymarketMarket(raw) ==
  [ReadListing(raw, tokenOutcomes(raw.tokens)) EXCEPT
     !.up       = HasToken(raw.tokens, {"up", "yes"}),
     !.tradable = raw.active /\ raw.orderBook /\ raw.accepting /\ ~raw.closed,
     !.closed   = raw.closed,
     !.resolved = raw.closed,
     !.delay    = raw.delay]

normalizePredictMarket(raw) ==
  LET closed == raw.status \in {"closed", "resolved"}
  IN [ReadListing(raw, raw.outcomes) EXCEPT
        !.family   = IF raw.variant = "BTC_UP_DOWN" THEN raw.variant ELSE @,
        !.tradable = raw.trading \in {"", "open"} /\ ~closed,
        !.closed   = closed,
        !.resolved = raw.status = "resolved"]

-----------------------------------------------------------------------------
(* Matching *)

marketWindowSeconds(n) == n.end - n.start
ToClose(n) == n.end - now

\* isEligibleShortWindowBtcMarket, for exact one-hour windows.
IsEligible(n) ==
  /\ n.asset = "BTC"
  /\ n.family = "BTC_UP_DOWN"
  /\ HasWindow(n.start, n.end) /\ marketWindowSeconds(n) = Hour
  /\ ToClose(n) \in MinToClose..Lookahead
  /\ n.source \in Allowed
  /\ n.tradable /\ ~n.closed /\ ~n.resolved

\* Mutant: the rules need not be the same, as long as both are known.
HourlyMatchAnyRule(p, q) ==
  /\ IsEligible(p) /\ IsEligible(q)
  /\ p.cadence = "HOURLY" /\ q.cadence = "HOURLY"
  /\ p.start = q.start /\ p.end = q.end
  /\ p.source = q.source
  /\ p.provider = q.provider /\ p.symbol = q.symbol
  /\ "UNKNOWN" \notin {p.rule, q.rule}

\* HourlyBtcUpDownMatcher.match, with no tolerance for start and end.
HourlyMatch(p, q) ==
  /\ IsEligible(p) /\ IsEligible(q)
  /\ p.cadence = "HOURLY" /\ q.cadence = "HOURLY"
  /\ p.start = q.start /\ p.end = q.end
  /\ p.source = q.source
  /\ p.provider = q.provider /\ p.symbol = q.symbol
  /\ p.rule = q.rule /\ p.rule # "UNKNOWN"

\* The fields that must be stated by both venues, and alike.
StrictTexts == {"kind", "source", "strike", "direction", "hash", "resolution"}
StrictTimes == {"start", "end"}

\* StrictMarketMatcher.match. A link from one listing to the other changes nothing.
StrictMatch(p, q) ==
  /\ p.binary /\ q.binary
  /\ p.asset = "btc" /\ q.asset = "btc"
  /\ \A f \in StrictTexts : p[f] = q[f] /\ p[f] # ""
  /\ \A f \in StrictTimes : p[f] = q[f] /\ p[f] # NoTime

\* The reference's matcher: each field that is missing or differs is a reason.
match(p, q) ==
  {f \in StrictTexts : p[f] = "" \/ q[f] = "" \/ p[f] # q[f]}
    \cup {f \in StrictTimes : NoTime \in {p[f], q[f]} \/ p[f] # q[f]}
    \cup {f \in {"binary"} : ~(p.binary /\ q.binary)}
    \cup {f \in {"asset"} : p.asset # "btc" \/ q.asset # "btc"} = {}

MatchInit ==
  /\ pair \in Pairs
  /\ now = 0 /\ accepted = {} /\ approved = NoTime

Program == {"typescript", "python"}

Takes(program, p, q) ==
  \/ /\ program = "typescript"
     /\ HourlyMatch(normalizeBinaryMarketSpec(p), normalizeBinaryMarketSpec(q))
     /\ StrictMatch(p, q)
  \/ program = "python" /\ match(p, q)

\* BtcMarketScanner.scan of both programs.
Scan ==
  /\ pair.kind = "specs"
  /\ accepted' = {program \in Program : Takes(program, pair.predict, pair.polymarket)}
  /\ UNCHANGED <<pair, now, approved>>

\* The filters of the two discoveries keep the eligible listings, and the hourly
\* matcher compares what they keep.
Discover ==
  /\ pair.kind = "raw"
  /\ LET predict    == normalizePredictMarket(pair.predict)
         polymarket == normalizePolymarketMarket(pair.polymarket)
     IN accepted' = {program \in {"discovery"} : HourlyMatch(predict, polymarket)}
  /\ UNCHANGED <<pair, now, approved>>

\* checkTimeAwareMarketRisk, of one of the markets and the books of both.
IsTimely(n, ages) ==
  /\ IsEligible(n)
  /\ \A age \in ages : age <= StaleBook
  /\ n.delay = 0 \/ n.delay < ToClose(n) - MinToClose

\* chooseTrade of a pair the scan has accepted.
Approve ==
  /\ "typescript" \in accepted /\ approved = NoTime
  /\ \E m \in {pair.predict, pair.polymarket}, ages \in SUBSET (0..StaleBook + 1) :
       /\ IsTimely(normalizeBinaryMarketSpec(m), ages)
       /\ approved' = now
  /\ UNCHANGED <<pair, now, accepted>>

\* A listing closes as time goes by; what it says of the question stays.
TimePasses ==
  /\ now < Horizon
  /\ now' = now + 1
  /\ pair' \in {pair, [pair EXCEPT !.polymarket.closed = TRUE]}
  /\ UNCHANGED <<accepted, approved>>

MatchNext == Scan \/ Discover \/ Approve \/ TimePasses

MatchSpec == MatchInit /\ [][MatchNext]_matchVars

-----------------------------------------------------------------------------

Markets ==
  IF pair.kind = "specs"
  THEN <<normalizeBinaryMarketSpec(pair.predict), normalizeBinaryMarketSpec(pair.polymarket)>>
  ELSE <<normalizePredictMarket(pair.predict), normalizePolymarketMarket(pair.polymarket)>>

\* External: what an oracle of a market reads, by the resolution it follows.
Reading(m, moment) == <<m.settles.source, m.resolution, moment>>

YesPays(m, n, price) ==
  LET open  == price[Reading(m, n.start)]
      close == price[Reading(m, n.end)]
      up    == IF m.settles.rule = "CLOSE_GTE_OPEN_IS_UP" THEN close >= open ELSE close > open
  IN up <=> n.up

\* YES of one venue and NO of the other pay one dollar, whatever the prices turn
\* out to be: the two contracts settle on the same readings by the same rule.
IsHedge ==
  LET p == pair.predict
      q == pair.polymarket
      n == Markets[1]
      o == Markets[2]
  IN \A price \in [{Reading(m, t) : m \in {p, q}, t \in {n.start, n.end, o.start, o.end}}
                       -> {1, 2}] :
        YesPays(p, n, price) <=> YesPays(q, o, price)

\* A pair the TypeScript scan or the discovery accepts is a hedge by what the
\* venues really settle by, although the programs only read what the listings
\* say; one the scan accepts is one the reference accepts too, and a trade it lets
\* through had time left in the market that was asked about.
HedgePaysOne ==
  /\ accepted \cap {"typescript", "discovery"} # {} => IsHedge
  /\ "typescript" \in accepted => "python" \in accepted
  /\ approved # NoTime => approved + MinToClose <= Markets[1].end
=============================================================================
