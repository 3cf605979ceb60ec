SPECIFICATION RunTaskSpec
CONSTANTS
  hades = hades
  control = control
  Title = {hades, control}
  LoginError <- UnknownOnly
  ClaimError <- BrokenOff
  PipeSize = 1
  HardTimeouts = 0
  LostReports = 0
  None = None
SYMMETRY Symmetric
INVARIANTS
  UnownedRecordIsPresumed
  UnownedSuccessIsPresumed
  ClaimsReachHistoryInTime
PROPERTIES
  KeepsToAttempts
CHECK_DEADLOCK FALSE
