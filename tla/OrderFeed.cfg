CONSTANTS
  Order = {o1, o2}
  Channel = {o1, o2}
  Quiet = {o2}
  Shares = 1
  MaxHandling = 2
  DedupeWindow = 1
  Renumbers = TRUE
  FillsTold = TRUE
SPECIFICATION FairSpec
INVARIANTS SoundRows ClosedRowIsFinal
PROPERTIES EndIsRecorded
CONSTRAINT Bounds
