----------------------------- MODULE Migration -----------------------------
(***************************************************************************)
(* The move to sealed credentials (scripts/migrate_secure_storage.py) and  *)
(* back (scripts/rollback_secure_storage.py).  Both change a database and  *)
(* a tree of browser profiles, which no transaction spans: every step of   *)
(* either may fail, and the process may die between any two of them.       *)
(* The services are stopped while a script runs, as both demand.           *)
(*                                                                         *)
(* A directory is known by the name it had at first; at says where it is.  *)
(* Cookies, keys, owners and modes of the files are left out, and so is    *)
(* the extra backup of the present database that a rollback writes.  A     *)
(* move is one rename: the copy between two file systems is left out.      *)
(***************************************************************************)
EXTENDS Integers

CONSTANTS
  Email,          \* addresses, the names of profiles before the migration
  ProfileId,      \* uuids, the names of profiles after it
  MaxMigrations,  \* bound: how often the migration is started
  MaxFaults,      \* bound: steps that fail during one script
  MaxCrashes,     \* bound: scripts that die
  None            \* SQL NULL, "no such row", "no such file"

Name == Email \cup ProfileId

(* user_data, and the quarantine directory that each migration is given.   *)
Area == 0 .. MaxMigrations

Place == [area : Area, name : Name]

InUserData(n) == [area |-> 0, name |-> n]

(* A row of accounts has a password in plain text, or a ciphertext and a    *)
(* profile.  The old version wrote addresses as they were typed: the       *)
(* address of such a row is not the one normalize_email makes of it.  No    *)
(* two rows are told apart by that spelling only.                          *)
Row ==
  {r \in [sealed : BOOLEAN, profile : ProfileId \cup {None}, normal : BOOLEAN] :
     /\ r.sealed => r.profile # None
     /\ ~ r.normal => ~ r.sealed /\ r.profile = None}

Table == [Email -> Row \cup {None}]

(* What the manifest says: who gets which profile, and which orphans went  *)
(* to which quarantine.                                                    *)
Manifest == [ids : [Email -> ProfileId \cup {None}], orphans : SUBSET Name, area : Area]

(* A directory that is or was moved. *)
Move == [dir : Name, from : Place, to : Place]

Storage == [accounts : Table, at : [Name -> Place \cup {None}]]

ScriptPc == {"rest", "backup", "manifest", "quarantine", "migrate", "harden",
             "verify", "undo", "unquarantine", "move_back", "database", "restore_moves"}

(* A script is refused when nothing was moved yet, has failed when it has   *)
(* undone its moves, is stuck when undoing failed too, and is unverified    *)
(* when only its last look at the rows failed.                             *)
Outcome == {"none", "refused", "migrated", "unverified", "failed", "rolled_back", "rollback_failed",
            "stuck", "crashed"}

ASSUME MigrationAssumption ==
  /\ MaxMigrations \in Nat /\ MaxFaults \in Nat /\ MaxCrashes \in Nat
  /\ Email \cap ProfileId = {}
  /\ None \notin Name /\ None \notin Row /\ None \notin Place
  /\ None \notin Table /\ None \notin Manifest

VARIABLES
  accounts,  \* table accounts, as committed
  at,        \* where each directory is
  backup,    \* the rows in the encrypted backup of the latest migration
  manifest,  \* its manifest
  pc,        \* what the running script does next
  rows,      \* table accounts within the open transaction, if there is one
  todo,      \* names that the loop of the script has still to treat
  planned,   \* moves that the rollback has still to make
  moved,     \* profiles moved so far (moved, moves)
  isolated,  \* orphans quarantined so far (moved of quarantine_orphans)
  attempt,   \* how many migrations were started
  faults,    \* how many steps of this script have failed
  crashes,   \* how many scripts died
  outcome,   \* how the latest script ended
  before     \* history: the storage when the latest backup was written

migrationVars == <<accounts, at, backup, manifest, pc, rows, todo, planned, moved,
                   isolated, attempt, faults, crashes, outcome, before>>

files == <<backup, manifest>>
local == <<rows, todo, planned, moved, isolated>>

(* Every variable has its type.                                            *)
MigrationTypeOK ==
  /\ accounts \in Table
  /\ at \in [Name -> Place \cup {None}]
  /\ backup \in Table \cup {None}
  /\ manifest \in Manifest \cup {None}
  /\ pc \in ScriptPc
  /\ rows \in Table \cup {None}
  /\ todo \subseteq Name
  /\ planned \subseteq Move
  /\ moved \subseteq Move
  /\ isolated \subseteq Move
  /\ attempt \in 0 .. MaxMigrations
  /\ faults \in 0 .. MaxFaults
  /\ crashes \in 0 .. MaxCrashes
  /\ outcome \in Outcome
  /\ before \in Storage

(* Rows of both kinds: an account of the old version that is confirmed     *)
(* again is sealed and gets a profile, and its old directory stays.        *)
MigrationInit ==
  /\ accounts \in {t \in Table : \A d, e \in Email :
       t[d] # None /\ t[e] # None /\ t[d].profile = t[e].profile /\ t[d].profile # None
         => d = e}
  /\ \E present \in SUBSET Name :
       at = [n \in Name |-> IF n \in present THEN InUserData(n) ELSE None]
  /\ backup = None /\ manifest = None
  /\ pc = "rest" /\ rows = None /\ todo = {} /\ planned = {}
  /\ moved = {} /\ isolated = {}
  /\ attempt = 0 /\ faults = 0 /\ crashes = 0 /\ outcome = "none"
  /\ before = [accounts |-> accounts, at |-> at]

----------------------------------------------------------------------------
Exists(p) == \E d \in Name : at[d] = p

Stored == {e \in Email : accounts[e] # None}

(* Names of directories that belong to an account. *)
Known == Stored \cup {accounts[e].profile : e \in Stored}

(* Mutated form: only names that look like profiles are orphans. *)
OrphanedProfiles == {n \in ProfileId : Exists(InUserData(n)) /\ n \notin Known}

Orphans == {n \in Name : Exists(InUserData(n)) /\ n \notin Known}

MoveTo(d, p) == at' = [at EXCEPT ![d] = p]

(* A move is undone when its origin is free (restore_quarantine,           *)
(* restore_moves and migrate's except clause).                             *)
Undo(m) == IF Exists(m.from) THEN UNCHANGED at ELSE MoveTo(m.dir, m.from)

(* One more step fails. *)
Fault ==
  /\ faults < MaxFaults
  /\ faults' = faults + 1

(* The loop that undoes moves ends when all are undone, or by an error.    *)
UndoneOrFault(moves) ==
  \/ moves = {} /\ UNCHANGED faults
  \/ moves # {} /\ Fault

(* The script ends: its transaction and its variables are gone. *)
End(result) ==
  /\ pc' = "rest"
  /\ outcome' = result
  /\ rows' = None
  /\ todo' = {} /\ planned' = {} /\ moved' = {} /\ isolated' = {}

----------------------------------------------------------------------------
(* migrate_secure_storage.py, main *)

(* collect_plan, and the checks of the arguments that follow it. *)
PlanMigration ==
  /\ pc = "rest"
  /\ attempt < MaxMigrations
  /\ attempt' = attempt + 1
  /\ todo' = Orphans
  /\ pc' = "backup"
  /\ faults' = 0
  /\ UNCHANGED <<accounts, at, files, rows, planned, moved, isolated, crashes, outcome, before>>

(* checkpoint_wal and encrypted_backup; the manifest of this migration does *)
(* not exist yet.                                                          *)
WriteBackup ==
  /\ pc = "backup"
  /\ backup' = accounts
  /\ manifest' = None
  /\ before' = [accounts |-> accounts, at |-> at]
  /\ pc' = "manifest"
  /\ UNCHANGED <<accounts, at, local, attempt, faults, crashes, outcome>>

(* plan_profile_mappings keeps the profile of an account, or draws a uuid   *)
(* that nothing has as its name.                                           *)
ProfileMappings ==
  {ids \in [Email -> ProfileId \cup {None}] :
     /\ \A e \in Email :
          /\ e \notin Stored => ids[e] = None
          /\ e \in Stored /\ accounts[e].profile # None => ids[e] = accounts[e].profile
          /\ e \in Stored /\ accounts[e].profile = None =>
               /\ ids[e] \in ProfileId \ Known
               /\ \A d \in Name : at[d] # None => at[d].name # ids[e]
     /\ \A d, e \in Stored : ids[d] = ids[e] => d = e}

WriteManifest ==
  /\ pc = "manifest"
  /\ \E ids \in ProfileMappings :
       manifest' = [ids |-> ids, orphans |-> todo, area |-> attempt]
  /\ pc' = "quarantine"
  /\ UNCHANGED <<accounts, at, backup, local, attempt, faults, crashes, outcome, before>>

(* Before anything is moved, an error ends the script. *)
FailEarly ==
  /\ pc \in {"backup", "manifest"}
  /\ Fault
  /\ End("refused")
  /\ UNCHANGED <<accounts, at, files, attempt, crashes, before>>

(* quarantine_orphans *)
QuarantineOrphan(d) ==
  /\ pc = "quarantine"
  /\ \E n \in todo :
       LET target == [area |-> attempt, name |-> n]
       IN  /\ at[d] = InUserData(n)
           /\ ~ Exists(target)
           /\ todo' = todo \ {n}
           /\ MoveTo(d, target)
           /\ isolated' = isolated \cup {[dir |-> d, from |-> at[d], to |-> target]}
  /\ UNCHANGED <<accounts, files, pc, rows, planned, moved, attempt, faults, crashes,
                 outcome, before>>

QuarantineFails ==
  /\ pc = "quarantine"
  /\ todo # {}
  /\ Fault
  /\ pc' = "unquarantine"
  /\ UNCHANGED <<accounts, at, files, local, attempt, crashes, outcome, before>>

(* migrate opens its transaction. *)
BeginMigrate ==
  /\ pc = "quarantine"
  /\ todo = {}
  /\ pc' = "migrate"
  /\ todo' = Stored
  /\ rows' = accounts
  /\ UNCHANGED <<accounts, at, files, planned, moved, isolated, attempt, faults,
                 crashes, outcome, before>>

(* The row after UPDATE ... WHERE email = <the normalized address>, which   *)
(* misses a row whose address is spelled otherwise.                        *)
Migrated(row, id) ==
  IF row.normal THEN [row EXCEPT !.sealed = TRUE, !.profile = id] ELSE row

(* One account of migrate's loop: its directory is renamed, if it has one  *)
(* and the new name is free, and its row is written.  The directory is      *)
(* looked for by the normalized address as well: if that is not the row's,  *)
(* a directory of that name was an orphan and is in the quarantine.        *)
MigrateAccount(e) ==
  /\ pc = "migrate"
  /\ e \in todo
  /\ todo' = todo \ {e}
  /\ LET old == InUserData(e)
         new == InUserData(manifest.ids[e])
         found == rows[e].normal /\ Exists(old)
     IN  /\ found => ~ Exists(new)
         /\ IF found
            THEN \E d \in Name :
                   /\ at[d] = old
                   /\ MoveTo(d, new)
                   /\ moved' = moved \cup {[dir |-> d, from |-> old, to |-> new]}
            ELSE UNCHANGED <<at, moved>>
  /\ rows' = [rows EXCEPT ![e] = Migrated(rows[e], manifest.ids[e])]
  /\ UNCHANGED <<accounts, files, pc, planned, isolated, attempt, faults, crashes, outcome,
                 before>>

(* FileExistsError: the account has a directory under either name. *)
ProfileConflict(e) ==
  /\ pc = "migrate"
  /\ e \in todo
  /\ rows[e].normal
  /\ Exists(InUserData(e))
  /\ Exists(InUserData(manifest.ids[e]))
  /\ pc' = "undo"
  /\ rows' = None
  /\ UNCHANGED <<accounts, at, files, todo, planned, moved, isolated, attempt, faults,
                 crashes, outcome, before>>

(* Any other error of the loop or of the commit: a credential that cannot  *)
(* be sealed, a rename, the database.                                      *)
MigrateFails ==
  /\ pc = "migrate"
  /\ Fault
  /\ pc' = "undo"
  /\ rows' = None
  /\ UNCHANGED <<accounts, at, files, todo, planned, moved, isolated, attempt, crashes,
                 outcome, before>>

CommitMigrate ==
  /\ pc = "migrate"
  /\ todo = {}
  /\ accounts' = rows
  /\ rows' = None
  /\ moved' = {}
  /\ pc' = "harden"
  /\ UNCHANGED <<at, files, todo, planned, isolated, attempt, faults, crashes,
                 outcome, before>>

(* migrate's except clause, after the rollback. *)
UndoMove ==
  /\ pc = "undo"
  /\ \E m \in moved :
       /\ moved' = moved \ {m}
       /\ Undo(m)
  /\ UNCHANGED <<accounts, files, pc, rows, todo, planned, isolated, attempt, faults,
                 crashes, outcome, before>>

(* Mutated form: migrate only rolls the database back. *)
UndoNothing ==
  /\ pc = "undo"
  /\ moved' = {}
  /\ pc' = "unquarantine"
  /\ UNCHANGED <<accounts, at, files, rows, todo, planned, isolated, attempt, faults,
                 crashes, outcome, before>>

UndoEnds ==
  /\ pc = "undo"
  /\ UndoneOrFault(moved)
  /\ pc' = "unquarantine"
  /\ UNCHANGED <<accounts, at, files, local, attempt, crashes, outcome, before>>

(* harden_permissions *)
Harden ==
  /\ pc = "harden"
  /\ pc' = "verify"
  /\ UNCHANGED <<accounts, at, files, local, attempt, faults, crashes, outcome, before>>

(* Mutated form: harden_permissions is called after the try block. *)
HardenFailsUnguarded ==
  /\ pc = "harden"
  /\ Fault
  /\ End("failed")
  /\ UNCHANGED <<accounts, at, files, attempt, crashes, before>>

HardenFails ==
  /\ pc = "harden"
  /\ Fault
  /\ pc' = "unquarantine"
  /\ UNCHANGED <<accounts, at, files, local, attempt, crashes, outcome, before>>

(* main's last look at the rows, after the try block: one that is not        *)
(* sealed ends the script with a RuntimeError, and nothing is undone.      *)
Verify ==
  /\ pc = "verify"
  /\ End(IF \A e \in Stored : accounts[e].sealed THEN "migrated" ELSE "unverified")
  /\ UNCHANGED <<accounts, at, files, attempt, faults, crashes, before>>

(* The second collect_plan raises. *)
VerifyFails ==
  /\ pc = "verify"
  /\ Fault
  /\ End("unverified")
  /\ UNCHANGED <<accounts, at, files, attempt, crashes, before>>

(* restore_quarantine, for an error of quarantine_orphans, of migrate or of  *)
(* harden_permissions.                                                     *)
RestoreOrphan ==
  /\ pc = "unquarantine"
  /\ \E m \in isolated :
       /\ isolated' = isolated \ {m}
       /\ Undo(m)
  /\ UNCHANGED <<accounts, files, pc, rows, todo, planned, moved, attempt, faults, crashes,
                 outcome, before>>

RestoreOrphansEnds ==
  /\ pc = "unquarantine"
  /\ UndoneOrFault(isolated)
  /\ End(IF moved \cup isolated = {} THEN "failed" ELSE "stuck")
  /\ UNCHANGED <<accounts, at, files, attempt, crashes, before>>

Migrate ==
  \/ PlanMigration \/ WriteBackup \/ WriteManifest \/ FailEarly
  \/ (\E d \in Name : QuarantineOrphan(d)) \/ QuarantineFails
  \/ BeginMigrate \/ (\E e \in Email : MigrateAccount(e) \/ ProfileConflict(e))
  \/ MigrateFails \/ CommitMigrate
  \/ UndoMove \/ UndoEnds \/ Harden \/ HardenFails \/ Verify \/ VerifyFails
  \/ RestoreOrphan \/ RestoreOrphansEnds

----------------------------------------------------------------------------
(* rollback_secure_storage.py, main *)

(* Mutated form: the database is asked where the profiles are, instead of   *)
(* the manifest.                                                           *)
ProfilesOfAccounts ==
  {m \in Move : \E e \in Stored :
     /\ m.from = InUserData(accounts[e].profile)
     /\ m.to = InUserData(e)
     /\ at[m.dir] = m.from}

(* What move_profiles_back plans: profiles go to their addresses, orphans   *)
(* of the quarantine to user_data.                                         *)
ProfilesToMove ==
  {m \in Move : \E e \in Email :
     /\ manifest.ids[e] # None
     /\ m.from = InUserData(manifest.ids[e])
     /\ m.to = InUserData(e)
     /\ at[m.dir] = m.from}

OrphansToMove ==
  {m \in Move : \E n \in manifest.orphans :
     /\ m.from = [area |-> manifest.area, name |-> n]
     /\ m.to = InUserData(n)
     /\ at[m.dir] = m.from}

(* Mutated form: a target that exists is not looked for. *)
PlanRollbackBlindly ==
  /\ pc = "rest"
  /\ backup # None /\ manifest # None
  /\ faults' = 0
  /\ pc' = "move_back"
  /\ planned' = ProfilesToMove \cup OrphansToMove
  /\ UNCHANGED <<accounts, at, files, rows, todo, moved, isolated, attempt, crashes,
                 outcome, before>>

(* load_manifest, the backup decrypted and verified, the checks of the     *)
(* arguments; a target that exists already ends the script.                *)
PlanRollback ==
  /\ pc = "rest"
  /\ backup # None /\ manifest # None
  /\ faults' = 0
  /\ LET plan == ProfilesToMove \cup OrphansToMove
     IN  IF \E m \in plan : Exists(m.to)
         THEN End("refused")
         ELSE /\ pc' = "move_back"
              /\ planned' = plan
              /\ UNCHANGED <<rows, todo, moved, isolated, outcome>>
  /\ UNCHANGED <<accounts, at, files, attempt, crashes, before>>

(* os.replace without a second look at the target. *)
MoveBack ==
  /\ pc = "move_back"
  /\ \E m \in planned :
       /\ planned' = planned \ {m}
       /\ MoveTo(m.dir, m.to)
       /\ moved' = moved \cup {m}
  /\ UNCHANGED <<accounts, files, pc, rows, todo, isolated, attempt, faults, crashes,
                 outcome, before>>

MoveBackEnds ==
  /\ pc = "move_back"
  /\ planned = {}
  /\ pc' = "database"
  /\ UNCHANGED <<accounts, at, files, local, attempt, faults, crashes, outcome, before>>

(* restore_database replaces the database by the backup in one rename. *)
RestoreDatabase ==
  /\ pc = "database"
  /\ accounts' = backup
  /\ End("rolled_back")
  /\ UNCHANGED <<at, files, attempt, faults, crashes, before>>

RollbackFails ==
  /\ pc \in {"move_back", "database"}
  /\ Fault
  /\ pc' = "restore_moves"
  /\ UNCHANGED <<accounts, at, files, local, attempt, crashes, outcome, before>>

RestoreMove ==
  /\ pc = "restore_moves"
  /\ \E m \in moved :
       /\ moved' = moved \ {m}
       /\ Undo(m)
  /\ UNCHANGED <<accounts, files, pc, rows, todo, planned, isolated, attempt, faults,
                 crashes, outcome, before>>

RestoreMovesEnds ==
  /\ pc = "restore_moves"
  /\ UndoneOrFault(moved)
  /\ End(IF moved = {} THEN "rollback_failed" ELSE "stuck")
  /\ UNCHANGED <<accounts, at, files, attempt, crashes, before>>

Rollback ==
  \/ PlanRollback \/ MoveBack \/ MoveBackEnds \/ RestoreDatabase \/ RollbackFails
  \/ RestoreMove \/ RestoreMovesEnds

----------------------------------------------------------------------------
(* The script is killed; SQLite rolls back what was not committed. *)
Crash ==
  /\ pc # "rest"
  /\ crashes < MaxCrashes
  /\ crashes' = crashes + 1
  /\ End("crashed")
  /\ UNCHANGED <<accounts, at, files, attempt, faults, before>>

MigrationNext == Migrate \/ Rollback \/ Crash

MigrationSpec == MigrationInit /\ [][MigrationNext]_migrationVars

----------------------------------------------------------------------------
(* Where the browser profile of e is looked for. *)
Home(table, e) ==
  InUserData(IF table[e].profile # None THEN table[e].profile ELSE e)

(* No profile is moved onto another one: os.replace would merge two        *)
(* accounts' browser sessions or fail half way.                            *)
ProfilesApart ==
  \A c, d \in Name : at[c] = at[d] /\ at[c] # None => c = d

(* A migration that ends, well, unverified or with all its moves undone,    *)
(* leaves every account the profile it had: the one its row now points at.  *)
(* This is so when the loop meets a conflict at its last account, when only *)
(* the modes of the files could not be set after the commit (the quarantine *)
(* is given back but the profiles stay renamed), and for a row that the     *)
(* UPDATE misses because its address is spelled otherwise.                 *)
MigrationKeepsProfiles ==
  pc = "rest" /\ outcome \in {"migrated", "unverified", "failed"} =>
    \A e \in Email, d \in Name :
      before.accounts[e] # None /\ before.at[d] = Home(before.accounts, e)
        => accounts[e] # None /\ at[d] = Home(accounts, e)

(* The directory of an account that is now known by its profile. *)
Renamed(d) ==
  \E e \in Stored : before.at[d] = InUserData(e) /\ at[d] = Home(accounts, e)

(* The directory of nobody, in the quarantine of the latest migration. *)
SetAside(d) ==
  \E n \in Name \ Known :
    before.at[d] = InUserData(n) /\ at[d] = [area |-> attempt, name |-> n]

(* A migration that fails leaves every directory where it was, unless it     *)
(* had committed already: then an account's old directory is its profile    *)
(* now.  Orphans are back in either case.  One that fails in its last look  *)
(* at the rows, outside the try block, undoes nothing: besides the profiles *)
(* it has moved the orphans, to its own quarantine, and nothing else.       *)
FailedMigrationUndone ==
  pc = "rest" =>
    /\ outcome = "failed" => \A d \in Name : at[d] # before.at[d] => Renamed(d)
    /\ outcome = "unverified" =>
         \A d \in Name : at[d] # before.at[d] => Renamed(d) \/ SetAside(d)

(* After a migration no address can be read off the names in user_data,    *)
(* and every directory there is the profile of an account.                 *)
NoAddressOnDisk ==
  pc = "rest" /\ outcome = "migrated" =>
    \A d \in Name : at[d] # None /\ at[d].area = 0 =>
      at[d].name \in {accounts[e].profile : e \in Stored} \ {None}

(* A rollback that ends well restores what the backup was made of, also     *)
(* when the migration or earlier rollbacks died at any step: every row, and *)
(* every directory except the profile of an account that had one already    *)
(* (which goes to a name its row does not point at).                       *)
RollbackRestores ==
  pc = "rest" /\ outcome = "rolled_back" =>
    /\ accounts = before.accounts
    /\ \A d \in Name :
         (\A e \in Email : before.accounts[e] # None /\ before.accounts[e].profile # None
            => before.at[d] # Home(before.accounts, e))
           => at[d] = before.at[d]
=============================================================================
