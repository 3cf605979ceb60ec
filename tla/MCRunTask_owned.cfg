SPECIFICATION RunTaskSpec
CONSTANTS
  hades = hades
  control = control
  Title = {hades}
  LoginError <- NoError
  ClaimError <- NoError
  PipeSize = 1
  HardTimeouts = 0
  LostReports = 0
  None = None
INVARIANTS
  OwnedRunsSucceed
CHECK_DEADLOCK FALSE
