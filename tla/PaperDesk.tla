------------------------------- MODULE PaperDesk -------------------------------
(***************************************************************************)
(* Paper trading across its two processes: the plan the dry-run worker     *)
(* builds from a book (src/src/workers/dry-run-hedge-worker.ts) and the    *)
(* wallets the dashboard shows from the latest record                      *)
(* (src/src/wallet/wallet-manager.ts).  Either is restarted with other     *)
(* options at any time, while the record of the other stays.               *)
(*                                                                         *)
(* Abstracted: the levels of a book but the best (every good level of a    *)
(* side is worth LevelUsd); the files, which DryRunWorker models.          *)
(***************************************************************************)
EXTENDS WalletFunds, Sequences, FiniteSets

CONSTANTS
  Options,     \* settings, as the environment of a process gives them
  Levels,      \* a side of a book as it arrives: sequences of RawLevel, or Absent
  Spread,      \* differences of best ask and best bid
  LevelUsd,    \* what a good level is worth
  MaxSpread,   \* PAPER_MAX_SPREAD
  MinDepth,    \* PAPER_MIN_DEPTH_USD
  RealWallets  \* wallets configured beside the paper ones

RawLevel == {"good", "malformed", "out_of_range"}
Absent == <<"absent">>

ASSUME PaperAssumption ==
  /\ Options \subseteq [net : Int, ratio : Int, maxOrder : Int, funds : Int,
                        wallets : Int, purse : Int, simulate : BOOLEAN]
  /\ Levels \subseteq {Absent} \cup Seq(RawLevel)
  /\ Spread \subseteq Int
  /\ {LevelUsd, MaxSpread, MinDepth} \subseteq Nat
  /\ RealWallets \subseteq [json : Seq(Nat \X Nat), accounts : Nat, balances : Seq(Int),
                            reserved : Seq(Int), polymarket : Seq(Nat \X Nat)]

VARIABLES deskLatest,   \* the plan of the latest record, Nothing before the first
          deskShown     \* the wallets on the dashboard's page

Nothing == [is |-> "nothing"]
Empty == [is |-> "empty"]

deskVars == <<deskLatest, deskShown>>

-----------------------------------------------------------------------------
(* Settings: funds are those of the hedge wallet, purse those of each Predict   *)
(* wallet.  A ratio is in quarters.                                            *)

Clamp(x, low, high) == Min({high, Max({low, x})})

DefaultMaxOrder == 1000 * Cent
DefaultFunds == 10000 * Cent

Positive(x, fallback) == IF x > 0 THEN x ELSE fallback

\* resolveDryRunHedgeWorkerOptions
Resolved(o) == [o EXCEPT !.ratio = Clamp(@, 0, 4),
                         !.maxOrder = Positive(@, DefaultMaxOrder),
                         !.funds = Positive(@, DefaultFunds),
                         !.purse = Positive(@, DefaultFunds),
                         !.wallets = Clamp(@, 0, 10)]

\* What the dashboard reads of the same variables (paperSimulationFromEnv).
FromEnv(o) == [o EXCEPT !.ratio = Clamp(@, 0, 4),
                        !.maxOrder = AtLeastZero(@),
                        !.funds = AtLeastZero(@),
                        !.purse = AtLeastZero(@),
                        !.wallets = Clamp(@, 0, 10)]

Share(net, ratio) == (Magnitude(net) * ratio) \div 4

-----------------------------------------------------------------------------
(* The simulation both processes build (buildPaperSimulationStatus) *)

Simulation(enabled, o, planned, reserved) ==
  LET funds == RoundUsd(o.funds)
      held  == RoundUsd(Min({reserved, funds}))
  IN [enabled   |-> enabled,
      wallets   |-> o.wallets,
      purse     |-> RoundUsd(o.purse),
      funds     |-> funds,
      net       |-> RoundUsd(o.net),
      planned   |-> RoundUsd(Min({planned, funds})),
      reserved  |-> held,
      available |-> RoundUsd(AtLeastZero(funds - held))]

-----------------------------------------------------------------------------
(* The worker *)

\* The levels of a side that count (levels, level).
Good(side) == {i \in DOMAIN side : side[i] = "good"}

\* parsePaperOrderBook
Warnings(book) ==
  {w \in {"schema_invalid", "malformed", "out_of_range"} :
     \E side \in {book.bids, book.asks} :
       IF side = Absent THEN w = "schema_invalid" ELSE \E i \in DOMAIN side : side[i] = w}

SideTaken(book, net) == IF net >= 0 THEN book.bids ELSE book.asks

PaperSize(o, net, depth) == RoundUsd(Min({Share(net, o.ratio), o.maxOrder, o.funds, depth}))

\* paperSimulationMetadata
SimulationMetadata(o, planned, reserved) ==
  Simulation(o.simulate, [o EXCEPT !.net = RoundUsd(@)], RoundUsd(planned), RoundUsd(reserved))

Codes(book, depth, size, top) ==
  Warnings(book)
  \cup {c \in {"spread_too_wide"} : /\ Good(book.bids) # {} /\ Good(book.asks) # {}
                                    /\ RoundUsd(book.spread) > MaxSpread}
  \cup {c \in {"depth_insufficient"} : depth < MinDepth}
  \cup {c \in {"stale"} : book.age = "stale"}
  \cup {c \in {"depth_unavailable"} : ~top \/ size <= 0}

\* Mutant: a position that was sold short is sold further.
ExposureAfterSold(net, size) == RoundUsd(net - size)

ExposureAfter(net, size) == RoundUsd(IF net >= 0 THEN net - size ELSE net + size)

\* buildPaperPlanFromBook
PlanFromBook(o, book) ==
  LET net   == RoundUsd(o.net)
      side  == Good(SideTaken(book, net))
      depth == RoundUsd(Cardinality(side) * LevelUsd)
      size  == IF side = {} THEN 0 ELSE PaperSize(o, net, depth)
      codes == Codes(book, depth, size, side # {})
  IN [is         |-> "plan",
      direction  |-> IF net >= 0 THEN "SELL" ELSE "BUY",
      size       |-> size,
      before     |-> net,
      after      |-> ExposureAfter(net, size),
      codes      |-> codes,
      simulation |-> SimulationMetadata(o, size, IF codes = {} THEN size ELSE 0)]

\* paperRejectedPlan
RejectedPlan(o, code) ==
  [is         |-> "plan",
   direction  |-> "WATCH",
   size       |-> 0,
   before     |-> RoundUsd(o.net),
   after      |-> RoundUsd(o.net),
   codes      |-> {code},
   simulation |-> SimulationMetadata(o, 0, 0)]

Book == [bids : Levels, asks : Levels, spread : Spread, age : {"none", "fresh", "stale"}]

\* paperBookRequest knows no source of the book, or the venue does not answer with one.
FetchError == {"token_id_missing", "token_id_placeholder", "orderbook_not_found",
               "bad_status", "schema_invalid", "network_error"}

\* The plan of buildPaperLiveMarketDataPayload.
Plans == {RejectedPlan(Resolved(o), code) : o \in Options, code \in FetchError}
         \cup {PlanFromBook(Resolved(o), book) : o \in Options, book \in Book}

\* Each pass replaces the record: buildPaperLiveMarketDataPayload in paper-live mode,
\* buildEmptyDryRunHedgePayload out of it.
Publish == /\ deskShown = Nothing
           /\ deskLatest' \in Plans \cup {Empty}
           /\ UNCHANGED deskShown

-----------------------------------------------------------------------------
(* The dashboard *)

HasPlan == deskLatest.is = "plan"

\* paperSimulationFromEnv
SimulationFromEnv(o) ==
  LET planned == RoundUsd(Min({Share(o.net, o.ratio), o.maxOrder, o.funds}))
  IN Simulation(o.simulate, o, planned, planned)

\* paperSimulationFromLatestRecord.  It looks for reservedHedgeUsd in what the
\* worker wrote, which has polymarketHedgeWallet.reservedUsd instead, and falls
\* back to the planned amount.
FromLatestRecord(s) == Simulation(s.enabled, s, s.planned, s.planned)

\* Mutant: the environment goes before the latest record.
ShownSimulationOfEnv(o) == SimulationFromEnv(o)

\* walletsFromEnv: the latest record, if it has a simulation that is enabled.
ShownSimulation(o) ==
  IF HasPlan /\ deskLatest.simulation.enabled THEN FromLatestRecord(deskLatest.simulation)
  ELSE SimulationFromEnv(o)

\* paperPredictWalletsFromSimulation: the first wallet holds the exposure.
PaperRows(s) == [i \in 1..s.wallets |-> [funds |-> Normalized(s.purse, 0),
                                         net   |-> IF i = 1 THEN s.net ELSE 0]]

\* listEnv drops what is blank, so the items behind it move up.
Blank == -1
Item(column, i) == LET items == SelectSeq(column, LAMBDA x : x # Blank)
                   IN IF i \in DOMAIN items THEN items[i] ELSE 0

RealRow(balance, reserved) == [funds |-> Normalized(balance, reserved), net |-> 0]

\* parsePredictWalletsJson; what does not parse has no wallets.
JsonRows(real) == [i \in 1..Min({10, Len(real.json)}) |->
                     RealRow(real.json[i][1], real.json[i][2])]

\* predictWalletsFromEnv: the lists count if there is no wallet in the JSON.
RealRows(real) ==
  IF real.json # <<>> THEN JsonRows(real)
  ELSE [i \in 1..Min({10, real.accounts}) |->
          RealRow(Item(real.balances, i), Item(real.reserved, i))]

\* polymarketWalletFromEnv
HasPolymarketWallet(real) == real.polymarket # <<>>
PolymarketWallet(real) == Normalized(real.polymarket[1][1], real.polymarket[1][2])

\* paperPolymarketWalletFromSimulation
PaperPolymarketWallet(s) == Normalized(s.funds, s.reserved)

\* buildWalletManagerDashboardResponse, for the settings and wallets of its process.
ShowWallets ==
  \E o \in Options, real \in RealWallets :
    LET s     == ShownSimulation(FromEnv(o))
        paper == s.enabled /\ ~HasPolymarketWallet(real)
    IN /\ deskShown = Nothing
       /\ deskShown' =
            [is         |-> "page",
             predict    |-> IF s.enabled /\ RealRows(real) = <<>> THEN PaperRows(s)
                            ELSE RealRows(real),
             real       |-> RealRows(real) # <<>>,
             paper      |-> paper,
             planned    |-> s.planned,
             polymarket |-> IF HasPolymarketWallet(real) THEN PolymarketWallet(real)
                            ELSE IF paper THEN PaperPolymarketWallet(s)
                            ELSE Normalized(0, 0)]
       /\ UNCHANGED deskLatest

LeavePage == /\ deskShown # Nothing
             /\ deskShown' = Nothing
             /\ UNCHANGED deskLatest

DeskInit == deskLatest = Nothing /\ deskShown = Nothing

DeskNext == Publish \/ ShowWallets \/ LeavePage

DeskSpec == DeskInit /\ [][DeskNext]_deskVars

-----------------------------------------------------------------------------
(* Properties *)

\* A published plan, whatever the settings and the book, never leaves more exposure
\* than there was nor turns it round, costs no more than the hedge wallet has, and
\* reserves its size exactly if no risk code stands against it (README.md:393-397).
PaperHedgeShrinks ==
  HasPlan =>
    LET plan == deskLatest IN
      /\ Magnitude(plan.after) + plan.size = Magnitude(plan.before)
      /\ IF plan.before >= 0 THEN plan.after >= 0 ELSE plan.after <= 0
      /\ plan.size \in 0..plan.simulation.funds
      /\ plan.simulation.reserved = IF plan.codes = {} THEN plan.size ELSE 0
      /\ plan.codes = {} => plan.size > 0

FollowsLatest == HasPlan /\ deskLatest.simulation.enabled

\* The page is that of the latest plan and not of the dashboard's own settings: the
\* paper hedge wallet covers what the plan reserved, its funds add up, and the
\* exposure stands on the first paper wallet (README.md:398-401).
ShownCoversPlan ==
  [][FollowsLatest /\ deskShown' # deskShown /\ deskShown' # Nothing =>
       LET plan == deskLatest
           page == deskShown'
       IN /\ page.planned = plan.size
          /\ page.paper => /\ page.polymarket.balance = plan.simulation.funds
                           /\ page.polymarket.reserved + page.polymarket.available
                                = page.polymarket.balance
                           /\ page.polymarket.reserved >= plan.simulation.reserved
                           /\ plan.codes = {} => page.polymarket.reserved = plan.size
          /\ ~page.real /\ plan.simulation.wallets > 0 => page.predict[1].net = plan.before
    ]_deskVars
================================================================================
