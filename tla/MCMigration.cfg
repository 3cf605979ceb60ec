\* Two addresses, of which any may be an account or the name of an orphan, and
\* three uuids: both may be drawn while the third is a profile or an orphan.
SPECIFICATION MigrationSpec
CONSTANTS
  Email = {a, b}
  ProfileId = {p, q, r}
  MaxMigrations = 2
  MaxFaults = 1
  MaxCrashes = 2
  None = None
SYMMETRY Symmetric
CHECK_DEADLOCK FALSE
INVARIANTS
  ProfilesApart
  MigrationKeepsProfiles
  FailedMigrationUndone
  NoAddressOnDisk
  RollbackRestores
