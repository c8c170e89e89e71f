CONSTANTS
  NumAccounts = 2
  Session = {}
  NoSession = NoSession
  Run = {r1, r2}
  Shares = 2
  MaxMatches = 1
  PauseOnUnhedgedResidual = FALSE
  DelayedOrders = FALSE
  BlindToo = FALSE
SPECIFICATION Spec
SYMMETRY Symmetry
CONSTRAINT Bounds
INVARIANTS SoundEngagement OneRunPerAccount ReadyIsFlat
PROPERTIES NoSilentResidual FollowsLifecycle
