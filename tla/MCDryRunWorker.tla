----------------------------- MODULE MCDryRunWorker -----------------------------
(* The modules of dry-run trading side by side: a behaviour is one of the     *)
(* subject it begins with, and the other modules rest in one initial state.   *)
EXTENDS DryRunWorker, PaperDesk, WalletReservations, HedgePlanning, MarketMaker

CONSTANT MaxFractions  \* bound: calls of a wallet manager with fractions of a cent

NoSnapshot == Missing   \* the launcher removes the variable
AnExample == Whole(0)   \* examples/hedge-dashboard-snapshot.json

-----------------------------------------------------------------------------
(* PaperDesk *)

DeskOptions ==
  [net : {-30, 0, 43}, ratio : {2, 5}, maxOrder : {0, 21}, funds : {-1, 18},
   wallets : {0, 11}, purse : {26}, simulate : {TRUE}]
  \cup {[net |-> 43, ratio |-> 4, maxOrder |-> 21, funds |-> 18, wallets |-> 1,
         purse |-> 26, simulate |-> FALSE]}

DeskLevels == {Absent, <<>>, <<"good">>, <<"good", "malformed", "good">>, <<"out_of_range">>}

NoWallets == [json |-> <<>>, accounts |-> 0, balances |-> <<>>, reserved |-> <<>>,
              polymarket |-> <<>>]

DeskWallets ==
  {NoWallets,
   [NoWallets EXCEPT !.polymarket = << <<9, 11>> >>],
   [NoWallets EXCEPT !.accounts = 2, !.balances = <<Blank, 9>>, !.reserved = <<4, 11>>],
   [NoWallets EXCEPT !.accounts = 2, !.json = << <<8, 3>> >>]}

-----------------------------------------------------------------------------
(* HedgePlanning *)

TwoEvents == [m \in {"m1", "m2", "m3"} |-> IF m = "m3" THEN "e2" ELSE "e1"]

TheDefaults ==
  [ratio |-> 2, maxOrder |-> 11, minOrder |-> 3, maxNet |-> 24, maxSpread |-> 3,
   minDepth |-> 8, usage |-> 2, maxAge |-> 2, sameEvent |-> TRUE, correlated |-> FALSE,
   live |-> FALSE, enabled |-> TRUE]

PositionAmounts == {[usd |-> -4], [sizeUsd |-> 8, valueUsd |-> 0], [quantity |-> 5, price |-> 4]}

\* The settings of both spellings, of which one may be stated in either.
Configs ==
  {[camel |-> [ratio |-> 2], snake |-> [ratio |-> 3]],
   [camel |-> [sameEvent |-> FALSE, correlated |-> TRUE], snake |-> [ratio |-> 4]],
   [camel |-> [sameEvent |-> FALSE], snake |-> [ratio |-> 1]],
   [camel |-> [live |-> TRUE], snake |-> [ratio |-> 2]],
   [camel |-> [enabled |-> FALSE], snake |-> [ratio |-> 2]]}

CandidateOf(event, depth, ask, age) ==
  [event |-> event, depth |-> depth, bid |-> 40, ask |-> ask, spread |-> <<>>, age |-> age]

CandidateLists ==
  {<<>>}
  \cup {<<CandidateOf("e1", d, 42, age)>> : d \in {-4, 12, 40}, age \in {-1, 3}}
  \cup {<<CandidateOf("another", 40, 39, 0), CandidateOf(e, 12, a, 1)>> :
          e \in {"e1", "e2"}, a \in {42, 44}}
  \cup {<<[CandidateOf("e1", 40, 42, 0) EXCEPT !.spread = <<4>>]>>}

-----------------------------------------------------------------------------
(* MarketMaker: best bids and asks of YES in the middle, at the ends, and     *)
(* further apart than the strategy accepts.                                   *)

MakerBest == {<<480, 520>>, <<0, 20>>, <<980, 1000>>, <<300, 500>>}

-----------------------------------------------------------------------------
(* The composition *)

VARIABLE subject

mcVars == <<vars, deskVars, walletVars, planningVars, makerVars, subject>>

WalletsRest ==
  /\ wallets = [w \in Wallet |-> [address |-> "none", funds |-> Normalized(0, 0)]]
  /\ reservations = [w \in Wallet |-> [p \in Plan |-> 0]]
  /\ settled = [w \in Wallet |-> 0]
  /\ fractions = 0

MCInit ==
  /\ subject \in {"worker", "desk", "wallets", "planning", "maker"}
  /\ Init /\ DeskInit /\ PlanningInit /\ MakerInit
  /\ IF subject = "wallets" THEN WalletsInit ELSE WalletsRest

MCNext ==
  \/ /\ subject = "worker" /\ Next
     /\ UNCHANGED <<deskVars, walletVars, planningVars, makerVars, subject>>
  \/ /\ subject = "desk" /\ DeskNext
     /\ UNCHANGED <<vars, walletVars, planningVars, makerVars, subject>>
  \/ /\ subject = "wallets" /\ WalletsNext
     /\ UNCHANGED <<vars, deskVars, planningVars, makerVars, subject>>
  \/ /\ subject = "planning" /\ PlanningNext
     /\ UNCHANGED <<vars, deskVars, walletVars, makerVars, subject>>
  \/ /\ subject = "maker" /\ MakerNext
     /\ UNCHANGED <<vars, deskVars, walletVars, planningVars, subject>>

MCSpec == MCInit /\ [][MCNext]_mcVars /\ WF_vars(Work)

Bounds == fractions <= MaxFractions
=============================================================================
