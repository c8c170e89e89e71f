----------------------------- MODULE MCMarketMatching -----------------------------
(* Listings for TLC: one that all programs take, what parts of it may say      *)
(* instead, and the pairs in which one part of each, or two of both, do.  A    *)
(* listing is honest: it states no other source, feed or rule than it settles  *)
(* by, but may leave any of them out.                                          *)
EXTENDS MarketMatching

Settles(source, rule) == [source |-> source, rule |-> rule]

BinanceText   == {"bitcoin", "btc", "usd", "usdt", "binance", "up or down", "close", "open", ">", ">="}
ChainlinkText == (BinanceText \ {"binance", "usdt"}) \cup {"chainlink"}
StrictText    == BinanceText \ {">="}
SilentText    == {"bitcoin", "up or down"}

Truth == Settles("BINANCE_BTC_USDT", "CLOSE_GTE_OPEN_IS_UP")

Base ==
  [asset |-> "btc", family |-> "", kind |-> "up_down", binary |-> TRUE,
   source |-> "BINANCE_BTC_USDT", oracle |-> "", provider |-> "", symbol |-> "",
   rule |-> "", headline |-> SilentText, words |-> BinanceText, direction |-> "up", strike |-> "open",
   hash |-> "h1", resolution |-> "uma", cadence |-> "",
   start |-> 1, end |-> 3, eventStart |-> NoTime, eventEnd |-> NoTime,
   tradable |-> TRUE, accepting |-> TRUE, closed |-> FALSE, resolved |-> FALSE,
   delay |-> 0, settles |-> Truth]

FamilyWords == {"daily", "4h", "range", "above", "monthly"}

\* What a part of a text may add or leave out, without changing what is settled: in
\* its rules, and in what a raw listing or a spec says of its family.
Rules ==
  {[words |-> BinanceText \cup {"uma"}], [words |-> BinanceText \ {">", ">="}],
   [words |-> BinanceText \ {"close"}], [words |-> SilentText]}

Texts ==
  Rules \cup {[words |-> BinanceText \cup {word}] : word \in FamilyWords}
        \cup {[words |-> BinanceText \ {"up or down"}]}

Headlines ==
  {[headline |-> SilentText \cup {word}, words |-> BinanceText \cup {word}] : word \in FamilyWords}
  \cup {[headline |-> {"bitcoin"}, words |-> BinanceText \ {"up or down"}],
        [words |-> BinanceText \cup {"daily"}]}

Chainlink ==
  [words |-> ChainlinkText, settles |-> [Truth EXCEPT !.source = "CHAINLINK_BTC_USD"]]
StrictRule ==
  [words |-> StrictText, settles |-> [Truth EXCEPT !.rule = "CLOSE_GT_OPEN_IS_UP"]]

SpecEdits ==
  Rules \cup Headlines
  \cup {StrictRule, Chainlink @@ [source |-> "CHAINLINK_BTC_USD"],
              Chainlink @@ [source |-> ""],
              [words |-> SilentText, rule |-> "CLOSE_GT_OPEN_IS_UP",
               settles |-> StrictRule.settles],
              [words |-> SilentText, rule |-> "CLOSE_GTE_OPEN_IS_UP"]}
  \cup {[source |-> ""], [oracle |-> "BINANCE_BTC_USDT"], [oracle |-> "another"],
        [provider |-> "BINANCE"], [symbol |-> "BTC_USDT"], [rule |-> "another"],
        [family |-> "BTC_UP_DOWN"], [family |-> "BTC_RANGE"], [asset |-> "eth"],
        [asset |-> "bitcoin"], [kind |-> ""], [binary |-> FALSE],
        [direction |-> "down"], [direction |-> ""], [strike |-> ""],
        [hash |-> "h2"], [resolution |-> "other"], [resolution |-> ""],
        [cadence |-> "HOURLY"], [cadence |-> "DAILY"]}
  \cup {[start |-> t] : t \in {2, NoTime}} \cup {[end |-> t] : t \in {4, NoTime}}
  \cup {[eventStart |-> t] : t \in {0, 2}} \cup {[eventEnd |-> t] : t \in {2, 4}}
  \cup {[tradable |-> FALSE], [accepting |-> FALSE], [closed |-> TRUE],
        [resolved |-> TRUE], [delay |-> 1], [delay |-> 2]}

Edited(m, edits) == {m} \cup {edit @@ m : edit \in edits}

SpecPairs ==
  {[kind |-> "specs", predict |-> p, polymarket |-> q] :
     p \in Edited(Base, SpecEdits), q \in Edited(Base, SpecEdits)}
  \cup {[kind |-> "specs", predict |-> m, polymarket |-> m] :
          m \in {n \in UNION {Edited(once, SpecEdits) : once \in Edited(Base, SpecEdits)} :
                   HonestSpec(n)}}

RawBase ==
  [question |-> {}, words |-> BinanceText, start |-> 1, end |-> 3,
   resolution |-> "uma", settles |-> Truth]

RawPolymarket ==
  [active |-> TRUE, orderBook |-> TRUE, accepting |-> TRUE, closed |-> FALSE,
   tokens |-> <<"up", "down">>, delay |-> 0] @@ RawBase

RawPredict == [outcomes |-> {}, variant |-> "", status |-> "", trading |-> ""] @@ RawBase

RawEdits ==
  Texts \cup {Chainlink, StrictRule, [question |-> {"eth"}],
              [start |-> 2], [start |-> NoTime], [end |-> 4], [end |-> NoTime]}

RawPairs ==
  {[kind |-> "raw", predict |-> p, polymarket |-> q] :
     p \in Edited(RawPredict, RawEdits \cup
             {[words |-> BinanceText \ {"up or down"}, outcomes |-> {"up or down"}],
              [variant |-> "BTC_UP_DOWN"], [status |-> "resolved"], [status |-> "closed"],
              [trading |-> "open"], [trading |-> "halted"],
              [variant |-> "BTC_UP_DOWN", words |-> StrictText \cup {"daily"},
               settles |-> StrictRule.settles]}),
     q \in Edited(RawPolymarket, RawEdits \cup
             {[active |-> FALSE], [orderBook |-> FALSE], [accepting |-> FALSE],
              [tokens |-> <<"down", "up">>], [tokens |-> <<"no", "yes">>], [delay |-> 1]})}

ThePairs == SpecPairs \cup RawPairs

TheAllowed == ResolutionSource
===================================================================================
