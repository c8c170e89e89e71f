CONSTANTS
  NumAccounts = 1
  Session = {s1, s2}
  NoSession = NoSession
  Operator = FALSE
SPECIFICATION Spec
SYMMETRY Symmetry
CONSTRAINT Bounds
INVARIANT TradingIsNotReady
