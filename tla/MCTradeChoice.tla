------------------------------ MODULE MCTradeChoice ------------------------------
(* Values of the constants of TradeChoice for TLC: prices in tenths of a      *)
(* dollar, books of two levels that need not be sorted.                       *)
EXTENDS TradeChoice

Tenths(n) == Frac(n, 10)

TheMinOrder   == One
TheRate       == Frac(1, 20)
TheFraction   == Frac(3, 10)
TheCaps       == {<<3, 1>>}
TheFixedCosts == Tenths(1)
TheFee        == Tenths(1)

TheBalances    == {Zero, <<2, 1>>, <<9, 1>>}
TheCollaterals == {One, <<20, 1>>}
TheLevels      == {<<Tenths(3), <<2, 1>> >>, <<Tenths(4), <<3, 1>> >>, <<Tenths(6), <<2, 1>> >>}
TheThinLevels  == {<<Tenths(4), <<3, 1>> >>, <<Tenths(6), <<2, 1>> >>}
TheMinShares   == {Zero, <<3, 1>>}
==================================================================================
