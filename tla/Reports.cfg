CONSTANTS
  Shares = 2
  Policy <- ConfirmedPolicy
  LateReports = TRUE
  Legs = 3
  NumRescuers = 3
  Price = {45, 46, 60}
  Planned = 45
  MaxLoss = 20
  MaxUnhedged = 2
  SafeMethod = "POLYMARKET_OFFSET"
  PauseOnResidual = TRUE
SPECIFICATION MCSpec
INVARIANTS SoundJudgement JudgementHolds OpinionsAgree
PROPERTIES RescueNarrows ResidualIsAnswered
