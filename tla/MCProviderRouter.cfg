\* Two calls at once, a chain of two, and three failures to open a circuit:
\* as in the code, fewer calls than failures.
SPECIFICATION FairProviderSpec
CONSTANTS
  Chain = 2
  Configured = {0, 1, 2}
  Request = {r1, r2}
  Threshold = 3
  Circuit = 2
  Budget = 1
  MaxFaults = 1
  None = None
CHECK_DEADLOCK FALSE
INVARIANTS
  BudgetKept
  RouterCircuitIdle
  CircuitGuards
PROPERTIES
  ProvidersComeBack
