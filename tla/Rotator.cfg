CONSTANTS
  NumAccounts = 2
  Session = {s1, s2}
  NoSession = NoSession
  Operator = TRUE
SPECIFICATION Spec
SYMMETRY Symmetry
CONSTRAINT Bounds
INVARIANTS GuardedUse OneTradePerAccount
PROPERTIES AuditedBeforeUse HeldUntilRedeemed
