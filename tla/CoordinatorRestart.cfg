CONSTANTS
  NumAccounts = 1
  Session = {}
  NoSession = NoSession
  Run = {r1, r2}
  Shares = 2
  MaxMatches = 1
  PauseOnUnhedgedResidual = TRUE
  DelayedOrders = FALSE
  BlindToo = TRUE
SPECIFICATION Spec
SYMMETRY Symmetry
CONSTRAINT Bounds
PROPERTY SelectionAudits
