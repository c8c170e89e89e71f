------------------------------ MODULE TradeChoice ------------------------------
(***************************************************************************)
(* Which trade each program makes of the same four books: RiskManager      *)
(* .chooseTrade (src/src/risk/manager.ts) and the loop body of the         *)
(* TypeScript coordinator over ArbEngine, and RiskManager.choose_trade     *)
(* (src/src/predictfun/risk_manager.py) over PythonSizing. Reserving the   *)
(* account they take is PredictRotator's and TwoLegExecution's.            *)
(***************************************************************************)
EXTENDS ArbEngine, PythonSizing

CONSTANTS NumPurses,  \* ready Predict accounts, in the order of the rotation
          Balances, Collaterals,   \* amounts they and Polymarket may hold
          MarketLevels,            \* levels the venues may quote
          ThinLevels,              \* bound: those of the books with one level
          MinShares                \* min_order_size of Polymarket's books, or 0

\* The code takes prices from 0 to 1 (assertPrice) and sizes that are not negative;
\* the ticks of both venues keep the prices off the ends.
Quoted == {price \in PositiveAmount : Less(price, One)} \X Amount

\* An account of Polymarket that holds nothing stops both programs before they size
\* (ensurePolymarketCanOpen, src/src/accounts/rotator.ts:415; risk_manager.py:34).
TradeAssumption ==
  /\ NumPurses \in Nat
  /\ Balances \subseteq Amount /\ Collaterals \subseteq PositiveAmount
  /\ MarketLevels \cup ThinLevels \subseteq Quoted

ASSUME TradeAssumption

VARIABLES books,    \* what the venues quote
          funds,    \* what the accounts hold
          choices   \* what the programs make of it

tradeVars == <<books, funds, choices>>

Combo == {"COMBO_A", "COMBO_B"}
Purse == 1..NumPurses

NoDeal    == [is |-> "none"]
Undecided == [risk |-> NoDeal, python |-> NoDeal, coordinator |-> NoDeal,
              made |-> FALSE]

\* Predict quotes the YES side: what bids for YES at a price asks the rest of
\* one dollar for NO. Quantizing changes no price of the venue's own precision.
ComplementLevels(levels) ==
  [i \in DOMAIN levels |-> <<Sub(One, PriceOf(levels[i])), SizeOf(levels[i])>>]

PredictAsks(combo) ==
  SortedAsks(IF combo = "COMBO_A" THEN books.predictAsks
             ELSE ComplementLevels(books.predictBids))

PolymarketAsks(combo) ==
  SortedAsks(IF combo = "COMBO_A" THEN books.polymarketNo ELSE books.polymarketYes)

Trade(account, combo, sized) ==
  [is |-> "trade", account |-> account, combo |-> combo, quote |-> sized.quote]

FirstOf(accounts) == CHOOSE a \in accounts : \A b \in accounts : a <= b

ExecutableCombos(sized) == {c \in Combo : sized[c].result = "sized"}

\* The best of the profits of the executable combos, that of A when they are equal.
BestCombo(profits) ==
  CHOOSE c \in DOMAIN profits :
    \A other \in DOMAIN profits \ {c} :
      \/ Less(profits[other], profits[c])
      \/ c = "COMBO_A" /\ AtMost(profits[other], profits[c])

SizedFor(a) ==
  [c \in Combo |-> SizeCombo(PredictAsks(c), PolymarketAsks(c),
                             funds.balance[a], funds.collateral)]

\* chooseTrade: the ready accounts in turn, until one can make a trade of its own
\* balance or its sizing throws.
ChooseTrade ==
  LET Best(a, sized, c) == Trade(a, c, sized[c])
      Ends(a, sized) ==
        IF \E c \in Combo : sized[c].result = "threw" THEN [is |-> "threw"]
        ELSE Best(a, sized,
                  BestCombo([c \in ExecutableCombos(sized) |-> sized[c].quote.profit]))
      First(sized, ending) ==
        IF ending = {} THEN NoDeal ELSE Ends(FirstOf(ending), sized[FirstOf(ending)])
      Among(sized) ==
        First(sized, {a \in Purse : \E c \in Combo : sized[a][c].result # "rejected"})
  IN Among([a \in Purse |-> SizedFor(a)])

\* The coordinator asks the first ready account alone, and for combo A alone.
CoordinatorTrade ==
  LET Judged(sized) == CASE sized.result = "sized"    -> Trade(1, "COMBO_A", sized)
                         [] sized.result = "threw"    -> [is |-> "threw"]
                         [] sized.result = "rejected" -> NoDeal
  IN Judged(SizeCombo(PredictAsks("COMBO_A"), PolymarketAsks("COMBO_A"),
                      funds.balance[1], funds.collateral))

\* The reference keeps its own books, whose asks it sorts, and its own complement.
predict_yes_book_to_outcome_book(outcome) ==
  sorted_asks(IF outcome = "YES" THEN books.predictAsks
              ELSE [i \in DOMAIN books.predictBids |->
                      <<Sub(One, books.predictBids[i][1]), books.predictBids[i][2]>>])

\* The larger of the smallest orders of Polymarket's books, 0 where none states one.
polymarket_constraints == books.minShares

size_combo_a(a) ==
  size_buy_complement(predict_yes_book_to_outcome_book("YES"), sorted_asks(books.polymarketNo),
                      funds.balance[a], funds.collateral, polymarket_constraints)

size_combo_b(a) ==
  size_buy_complement(predict_yes_book_to_outcome_book("NO"), sorted_asks(books.polymarketYes),
                      funds.balance[a], funds.collateral, polymarket_constraints)

size_allowed_combos(a) ==
  [c \in Combo |-> IF c = "COMBO_A" THEN size_combo_a(a) ELSE size_combo_b(a)]

choose_trade ==
  LET best(a, sized, c) == Trade(a, c, sized[c])
      of(a, sized) ==
        best(a, sized,
             BestCombo([c \in ExecutableCombos(sized) |-> sized[c].quote.net_profit]))
      first(sized, able) ==
        IF able = {} THEN NoDeal ELSE of(FirstOf(able), sized[FirstOf(able)])
      among(sized) ==
        first(sized, {a \in Purse : \E c \in Combo : sized[a][c].result = "sized"})
  IN among([a \in Purse |-> size_allowed_combos(a)])

OneLevel == {<<l>> : l \in ThinLevels}
TwoLevels == {<<l, m>> : l, m \in MarketLevels}

BookSet == [predictAsks : TwoLevels, predictBids : OneLevel,
            polymarketYes : OneLevel, polymarketNo : TwoLevels, minShares : MinShares]

TradeInit ==
  /\ books \in BookSet
  /\ funds \in [balance : [Purse -> Balances], collateral : Collaterals]
  /\ choices = Undecided

Decide ==
  /\ ~choices.made
  /\ choices' = [risk |-> ChooseTrade, python |-> choose_trade,
                 coordinator |-> CoordinatorTrade, made |-> TRUE]
  /\ UNCHANGED <<books, funds>>

\* A level of a book moves.
Requote ==
  /\ choices.made
  /\ \E side \in {"predictBids", "polymarketYes"} :
       \E level \in OneLevel : books' = [books EXCEPT ![side] = level]
  /\ choices' = Undecided
  /\ UNCHANGED funds

TradeNext == Decide \/ Requote

TradeSpec == TradeInit /\ [][TradeNext]_tradeVars

-----------------------------------------------------------------------------

\* What an account may spend of its balance, and Polymarket of its collateral,
\* is never exceeded by what the trade is expected to cost, fees and reserves
\* included: the budgets are divided by the price of the whole depth, and the
\* part that is bought may not cost more a share.
WithinBudgets ==
  choices.risk.is = "trade" =>
    LET trade == choices.risk
        quote == trade.quote
    IN /\ AtMost(quote.predict.total, Mul(funds.balance[trade.account], TradeFraction))
       /\ AtMost(quote.polymarket.total, funds.collateral)
       /\ \A cap \in TradeCaps : AtMost(Mul(quote.netCost, quote.shares), cap)

SameTrade(mine, theirs) ==
  /\ mine.is = theirs.is
  /\ mine.is = "trade" =>
       /\ mine.account = theirs.account /\ mine.combo = theirs.combo
       /\ mine.quote.shares = theirs.quote.shares
       /\ mine.quote.profit = theirs.quote.net_profit

\* The two programs make the same trade of the same books, where no budget is
\* empty, which makes the TypeScript one throw, and its trade is one that
\* Polymarket's smallest order allows, which only the Python one asks for.
BotsAgree ==
  (/\ choices.made
   /\ Zero \notin TradeCaps
   /\ \A a \in Purse : Mul(funds.balance[a], TradeFraction) # Zero
   /\ choices.risk.is = "trade" =>
        AtMost(books.minShares, choices.risk.quote.shares))
  => SameTrade(choices.risk, choices.python)

\* README.md:263: an account with too little only makes the bot rotate to the
\* next one. The coordinator rejects the pair.
PoorAccountIsSkipped ==
  (choices.python.is = "trade" /\ choices.python.combo = "COMBO_A"
     /\ choices.risk.is = "trade")
  => choices.coordinator.is = "trade"
=============================================================================
