-------------------------- MODULE MarketClassification --------------------------
(***************************************************************************)
(* What the programs read from the texts and times of a market's listing   *)
(* (src/src/core/market-classification.ts), and the values they recognise  *)
(* of what a venue states (src/src/markets/normalize.ts).                  *)
(*                                                                         *)
(* A text is the set of the phrases that are looked for in it and that it  *)
(* includes; where a rule looks for any of several phrases, one stands for *)
(* all of them ("daily" for "24h", "above" for "below" and "target").      *)
(* "" is a field that is missing, NoTime a missing time.  Time is counted  *)
(* in steps of which Hour make an hour.                                    *)
(***************************************************************************)
EXTENDS Integers, Sequences, TLC

CONSTANT Hour

ASSUME HourAssumption == Hour \in Nat \ {0}

Phrase ==
  {"bitcoin", "btc", "eth", "usd", "usdt", "binance", "chainlink", "uma",
   "monthly", "yearly", "daily", "4h", "range", "above", "up or down",
   "close", "open", ">", ">="}

\* A text that includes the first of these includes the second.
IsText(words) ==
  /\ words \subseteq Phrase
  /\ "usdt" \in words => "usd" \in words
  /\ ">=" \in words => ">" \in words

NoTime == -1

HasWindow(start, end) == NoTime \notin {start, end}

\* What a text reads like whose settlement source is stated.
SourcePhrases(source) ==
  CASE source = "BINANCE_BTC_USDT"  -> {"binance", "btc", "usdt", "usd"}
    [] source = "CHAINLINK_BTC_USD" -> {"chainlink", "btc", "usd"}
    [] OTHER                        -> {}

ResolutionSource == {"BINANCE_BTC_USDT", "CHAINLINK_BTC_USD"}

Recognised(value, known) == IF value \in known THEN value ELSE "UNKNOWN"

normalizeResolutionSource(words, explicit) ==
  IF explicit \in ResolutionSource THEN explicit
  ELSE IF {"binance", "btc", "usdt"} \subseteq words THEN "BINANCE_BTC_USDT"
  ELSE IF {"chainlink", "btc", "usd"} \subseteq words THEN "CHAINLINK_BTC_USD"
  ELSE "UNKNOWN"

normalizePriceFeedProvider(words) ==
  IF "binance" \in words THEN "BINANCE"
  ELSE IF "chainlink" \in words THEN "CHAINLINK"
  ELSE IF "uma" \in words THEN "UMA"
  ELSE "UNKNOWN"

normalizePriceFeedSymbol(words) ==
  IF {"btc", "usdt"} \subseteq words THEN "BTC_USDT"
  ELSE IF {"btc", "usd"} \subseteq words THEN "BTC_USD"
  ELSE "UNKNOWN"

\* The families whose phrase decides, the first that a text includes.
FamilyPhrases ==
  << <<"monthly", "BTC_MONTHLY">>, <<"yearly", "BTC_YEARLY">>,
     <<"daily", "BTC_DAILY_UP_DOWN">>, <<"4h", "BTC_4H_UP_DOWN">>,
     <<"range", "BTC_RANGE">>, <<"above", "BTC_PRICE_TARGET">>,
     <<"up or down", "BTC_UP_DOWN">> >>

MarketFamily == {FamilyPhrases[i][2] : i \in DOMAIN FamilyPhrases}

classifyMarketFamily(words) ==
  LET read == SelectSeq(FamilyPhrases, LAMBDA entry : entry[1] \in words)
  IN IF words \cap {"bitcoin", "btc"} = {} \/ read = <<>> THEN "UNKNOWN"
     ELSE Head(read)[2]

classifyCadence(start, end) ==
  LET window == end - start
  IN CASE 12 * window = Hour -> "FIVE_MIN"
       [] 4 * window = Hour  -> "FIFTEEN_MIN"
       [] 2 * window = Hour  -> "THIRTY_MIN"
       [] window = Hour      -> "HOURLY"
       [] window = 4 * Hour  -> "FOUR_HOUR"
       [] window = 24 * Hour -> "DAILY"
       [] OTHER              -> "UNKNOWN"

MarketCadence ==
  {"FIVE_MIN", "FIFTEEN_MIN", "THIRTY_MIN", "HOURLY", "FOUR_HOUR", "DAILY"}

UpDownRule == {"CLOSE_GTE_OPEN_IS_UP", "CLOSE_GT_OPEN_IS_UP"}

normalizeUpDownRule(words) ==
  IF ~({"close", "open"} \subseteq words) THEN "UNKNOWN"
  ELSE IF ">=" \in words THEN "CLOSE_GTE_OPEN_IS_UP"
  ELSE IF ">" \in words THEN "CLOSE_GT_OPEN_IS_UP"
  ELSE "UNKNOWN"

\* The names an underlying goes by.
normalizeAsset(underlying) ==
  CASE underlying \in {"btc", "bitcoin"}  -> "BTC"
    [] underlying \in {"eth", "ethereum"} -> "ETH"
    [] underlying \in {"sol", "solana"}   -> "SOL"
    [] OTHER                              -> "UNKNOWN"

normalizeFamily(value)   == Recognised(value, MarketFamily)
normalizeCadence(value)  == Recognised(value, MarketCadence)
normalizeProvider(value) == Recognised(value, {"BINANCE", "CHAINLINK", "UMA"})
normalizeSymbol(value)   == Recognised(value, {"BTC_USDT", "BTC_USD"})
normalizeSource(value)   == Recognised(value, ResolutionSource)
normalizeRule(value)     == Recognised(value, UpDownRule)
==================================================================================
