CONSTANTS
  Channel = {c1}
  DedupeWindow = 1
SPECIFICATION Spec
INVARIANT DownFallsBack
