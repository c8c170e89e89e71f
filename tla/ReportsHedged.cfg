CONSTANTS
  Shares = 2
  Policy <- ConfirmedPolicy
  LateReports = FALSE
SPECIFICATION Spec
PROPERTY HedgedStays
