SPECIFICATION StoreSpec
CONSTANTS
  ann = ann
  bob = bob
  c1 = c1
  c2 = c2
  hades = hades
  None = None
  User = {ann, bob}
  Run = {1, 2, 3}
  Cycle = {c1, c2}
  Title = {hades}
  Games <- MCGames
  MaxRemovals = 1
  MaxRetries = 0
  Written = {"manual_required"}
  Reported = {"claimed"}
SYMMETRY MCSymmetry
INVARIANTS
  NoCredentialAfterFailure
  UserIsolation
  ReferencesMatch
  OneClaimRunPerCycle
CHECK_DEADLOCK FALSE
