-------------------------------- MODULE MCTwoLegs --------------------------------
(* The modules of the trading path side by side: a behaviour is one of the    *)
(* subject it begins with, and the other modules rest in one initial state.   *)
EXTENDS TwoLegExecution, MCTradeChoice, MCMarketMatching, RateLimiter

CONSTANTS MaxGranted, MaxPassed  \* bounds of the limiter's histories

VARIABLE subject

mcVars == <<vars, tradeVars, matchVars, limiterVars, subject>>

BotRests == \A a \in Account : accounts[a] = Fresh(FALSE) /\ ~position[a]
ChoiceRests == books = <<>> /\ funds = <<>> /\ choices = Undecided
MatchRests == pair = <<>> /\ now = 0 /\ accepted = {} /\ approved = NoTime

MCInit ==
  /\ subject \in {"bot", "choice", "matching", "limiter"}
  /\ Init /\ (subject # "bot" => BotRests)
  /\ IF subject = "choice" THEN TradeInit ELSE ChoiceRests
  /\ IF subject = "matching" THEN MatchInit ELSE MatchRests
  /\ LimiterInit

MCNext ==
  \/ subject = "bot" /\ Next /\ UNCHANGED <<tradeVars, matchVars, limiterVars, subject>>
  \/ subject = "choice" /\ TradeNext /\ UNCHANGED <<vars, matchVars, limiterVars, subject>>
  \/ subject = "matching" /\ MatchNext /\ UNCHANGED <<vars, tradeVars, limiterVars, subject>>
  \/ subject = "limiter" /\ LimiterNext /\ UNCHANGED <<vars, tradeVars, matchVars, subject>>

MCSpec == MCInit /\ [][MCNext]_mcVars /\ WF_vars(RunOnce)

Bounds == granted <= MaxGranted /\ passed <= MaxPassed
=============================================================================
