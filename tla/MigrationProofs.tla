--------------------------- MODULE MigrationProofs ---------------------------
(***************************************************************************)
(* Proofs about Migration, for any addresses and uuids and any number of   *)
(* migrations, faults and crashes: the types, that no directory is ever    *)
(* moved onto another one, and what a script that ends promises of the     *)
(* rows and the directories.                                               *)
(*                                                                         *)
(* Only the rollback moves without a look at its target, so the invariant  *)
(* says what its plan relies on: the targets of a plan are free and differ *)
(* from each other.  They differ because a manifest names no address both  *)
(* as an account and as an orphan, and that holds because nothing writes   *)
(* the accounts between the plan of a migration and its manifest.          *)
(*                                                                         *)
(* The promises rest on a second invariant, MoveIInv, which compares the   *)
(* storage with what it was at the latest backup: the manifest tells where *)
(* each directory can be, a migration has displaced only what moved and    *)
(* isolated name before its commit and every profile after it, and the     *)
(* plan of a rollback has all that is not where it was.                    *)
(***************************************************************************)
EXTENDS Migration, TLAPS

(* Before its manifest is written, a migration treats orphans only. *)
OrphansAreStrangers ==
  pc \in {"backup", "manifest"} => todo \cap Stored = {}

(* No address is an account and an orphan of one manifest. *)
ManifestParts ==
  manifest # None =>
    \A e \in Email : manifest.ids[e] # None => e \notin manifest.orphans

(* From its manifest to its commit a migration has a profile for everyone. *)
EveryoneIsMapped ==
  pc \in {"quarantine", "migrate"} =>
    manifest # None /\ \A e \in Stored : manifest.ids[e] # None

(* What the scripts still hold when they use it. *)
Prepared ==
  /\ pc = "migrate" =>
       rows # None /\ todo \subseteq Stored /\ \A e \in todo : rows[e] # None
  /\ pc \in {"move_back", "database"} => backup # None

(* The targets of a rollback's plan are free, and no two moves share one. *)
PlanIsSafe ==
  pc = "move_back" =>
    /\ \A m \in planned : ~ Exists(m.to)
    /\ \A l, m \in planned : l.to = m.to => l = m

MigrationIInv ==
  /\ MigrationTypeOK
  /\ ProfilesApart
  /\ OrphansAreStrangers
  /\ ManifestParts
  /\ EveryoneIsMapped
  /\ Prepared
  /\ PlanIsSafe

----------------------------------------------------------------------------
LEMMA Places ==
  /\ \A n \in Name : InUserData(n) \in Place
  /\ \A a \in Area, n \in Name : [area |-> a, name |-> n] \in Place
  /\ \A a, b \in Name : InUserData(a) = InUserData(b) => a = b
<1>1. 0 \in Area
  BY MigrationAssumption DEF MigrationAssumption, Area
<1>. QED BY <1>1 DEF InUserData, Place

LEMMA NoneIsApart ==
  None \notin Name /\ None \notin Place /\ None \notin Table /\ None \notin Manifest
  /\ None \notin Row
BY MigrationAssumption DEF MigrationAssumption

(* What a row becomes, if its address is spelled as the UPDATE has it. *)
LEMMA MigratedRow ==
  ASSUME NEW row \in Row, NEW id \in ProfileId
  PROVE  /\ Migrated(row, id) \in Row
         /\ row.normal => /\ Migrated(row, id).sealed
                          /\ Migrated(row, id).profile = id
         /\ ~ row.normal => Migrated(row, id) = row
<1>1. row \in [sealed : BOOLEAN, profile : ProfileId \cup {None}, normal : BOOLEAN]
  BY DEF Row
<1>2. id # None
  BY NoneIsApart DEF Name
<1>3. CASE row.normal
  <2>. DEFINE new == [row EXCEPT !.sealed = TRUE, !.profile = id]
  <2>1. /\ new \in [sealed : BOOLEAN, profile : ProfileId \cup {None}, normal : BOOLEAN]
        /\ new.sealed /\ new.profile = id /\ new.normal
    BY <1>1, <1>3
  <2>2. Migrated(row, id) = new
    BY <1>3 DEF Migrated
  <2>. HIDE DEF new
  <2>. QED BY <1>2, <1>3, <2>1, <2>2 DEF Row
<1>4. CASE ~ row.normal
  BY <1>4 DEF Migrated
<1>. QED BY <1>3, <1>4

(* A directory that is moved to a free place is nowhere near another one. *)
LEMMA MoveKeepsApart ==
  ASSUME MigrationTypeOK, ProfilesApart, NEW d \in Name, NEW p \in Place,
         ~ Exists(p), MoveTo(d, p)
  PROVE  /\ at' \in [Name -> Place \cup {None}]
         /\ ProfilesApart'
         /\ \A q \in Place : Exists(q)' => Exists(q) \/ q = p
<1>1. at \in [Name -> Place \cup {None}] /\ at' = [at EXCEPT ![d] = p]
  BY DEF MigrationTypeOK, MoveTo
<1>2. at'[d] = p /\ \A c \in Name \ {d} : at'[c] = at[c]
  BY <1>1
<1>3. \A c \in Name : at[c] # p
  BY DEF Exists
<1>4. ProfilesApart'
  BY <1>2, <1>3 DEF ProfilesApart
<1>. QED BY <1>1, <1>2, <1>4 DEF Exists

(* Undoing a move never hits a place that is taken. *)
LEMMA UndoKeepsApart ==
  ASSUME MigrationTypeOK, ProfilesApart, NEW m \in Move, Undo(m)
  PROVE  at' \in [Name -> Place \cup {None}] /\ ProfilesApart'
<1>1. m.dir \in Name /\ m.from \in Place
  BY DEF Move
<1>2. CASE Exists(m.from)
  BY <1>2 DEF Undo, MigrationTypeOK, ProfilesApart
<1>3. CASE ~ Exists(m.from)
  BY <1>1, <1>3, MoveKeepsApart DEF Undo
<1>. QED BY <1>2, <1>3

----------------------------------------------------------------------------
(* A migration begins in a state of the invariant: any mixture of accounts *)
(* that are sealed and accounts that are not, and of their directories.     *)
THEOREM MigrationStarts ==
  MigrationInit => MigrationIInv
<1>. SUFFICES ASSUME MigrationInit PROVE MigrationIInv
  OBVIOUS
<1>. USE DEF MigrationInit
<1>1. at \in [Name -> Place \cup {None}] /\ ProfilesApart
  <2>1. PICK present \in SUBSET Name :
          at = [n \in Name |-> IF n \in present THEN InUserData(n) ELSE None]
    OBVIOUS
  <2>. QED BY <2>1, Places DEF ProfilesApart
<1>2. MigrationTypeOK
  BY <1>1, MigrationAssumption
     DEF MigrationAssumption, MigrationTypeOK, ScriptPc, Outcome, Storage
<1>. QED BY <1>1, <1>2
       DEF MigrationIInv, OrphansAreStrangers, ManifestParts, EveryoneIsMapped, Prepared, PlanIsSafe

----------------------------------------------------------------------------
(* Any step that ends a script is safe if it leaves the files alone. *)
LEMMA EndsAreSafe ==
  ASSUME MigrationIInv, NEW r \in Outcome, End(r), UNCHANGED <<at, files, attempt, before>>,
         accounts' \in Table, faults' \in 0 .. MaxFaults, crashes' \in 0 .. MaxCrashes
  PROVE  MigrationIInv'
<1>1. MigrationTypeOK'
  BY DEF MigrationIInv, End, files, MigrationTypeOK, ScriptPc
<1>2. ProfilesApart' /\ ManifestParts'
  BY DEF MigrationIInv, files, ProfilesApart, ManifestParts
<1>3. pc' = "rest"
  BY DEF End
<1>. QED BY <1>1, <1>2, <1>3
       DEF MigrationIInv, OrphansAreStrangers, EveryoneIsMapped, Prepared, PlanIsSafe

(* A step that fails leaves its count in range. *)
LEMMA FaultsAreCounted ==
  ASSUME MigrationTypeOK
  PROVE  /\ 0 \in 0 .. MaxFaults
         /\ Fault => faults' \in 0 .. MaxFaults
BY MigrationAssumption DEF MigrationAssumption, MigrationTypeOK, Fault

LEMMA UndoingIsCounted ==
  ASSUME MigrationTypeOK, NEW S, UndoneOrFault(S)
  PROVE  faults' \in 0 .. MaxFaults
BY FaultsAreCounted DEF UndoneOrFault, MigrationTypeOK

(* The steps before anything is moved *)
LEMMA PreparationStep ==
  ASSUME MigrationIInv, PlanMigration \/ WriteBackup \/ WriteManifest \/ FailEarly
  PROVE  MigrationIInv'
<1>. USE DEF MigrationIInv
<1>1. CASE PlanMigration
  <2>1. attempt' \in 0 .. MaxMigrations
    BY <1>1, MigrationAssumption DEF MigrationAssumption, PlanMigration, MigrationTypeOK
  <2>2. todo' \subseteq Name /\ todo' \cap Stored = {}
    BY <1>1 DEF PlanMigration, Orphans, Known
  <2>3. MigrationTypeOK'
    BY <1>1, <2>1, <2>2, FaultsAreCounted DEF PlanMigration, MigrationTypeOK, ScriptPc, files
  <2>. QED BY <1>1, <2>2, <2>3
         DEF PlanMigration, ProfilesApart, OrphansAreStrangers, ManifestParts, EveryoneIsMapped,
             Prepared, PlanIsSafe, files, Stored
<1>2. CASE WriteBackup
  <2>1. before' \in Storage
    BY <1>2 DEF WriteBackup, MigrationTypeOK, Storage
  <2>2. MigrationTypeOK'
    BY <1>2, <2>1 DEF WriteBackup, MigrationTypeOK, ScriptPc, local
  <2>. QED BY <1>2, <2>2
         DEF WriteBackup, ProfilesApart, OrphansAreStrangers, ManifestParts, EveryoneIsMapped,
             Prepared, PlanIsSafe, local, Stored
<1>3. CASE WriteManifest
  <2>1. PICK ids \in ProfileMappings :
          manifest' = [ids |-> ids, orphans |-> todo, area |-> attempt]
    BY <1>3 DEF WriteManifest
  <2>2. /\ ids \in [Email -> ProfileId \cup {None}]
        /\ \A e \in Email : ids[e] # None => e \in Stored
    BY DEF ProfileMappings
  <2>3. \A e \in Stored : ids[e] # None
    <3>1. ASSUME NEW e \in Stored, accounts[e].profile # None PROVE ids[e] # None
      BY <3>1 DEF ProfileMappings, Stored
    <3>2. ASSUME NEW e \in Stored, accounts[e].profile = None PROVE ids[e] # None
      BY <3>2, NoneIsApart DEF ProfileMappings, Stored, Name
    <3>. QED BY <3>1, <3>2
  <2>4. manifest' \in Manifest
    BY <2>1, <2>2 DEF Manifest, MigrationTypeOK, Area
  <2>5. MigrationTypeOK'
    BY <1>3, <2>4 DEF WriteManifest, MigrationTypeOK, ScriptPc, local
  <2>6. ManifestParts'
    BY <1>3, <2>1, <2>2 DEF WriteManifest, ManifestParts, OrphansAreStrangers
  <2>7. EveryoneIsMapped'
    BY <1>3, <2>1, <2>3, <2>4, NoneIsApart DEF WriteManifest, EveryoneIsMapped, Stored
  <2>. QED BY <1>3, <2>5, <2>6, <2>7
         DEF WriteManifest, ProfilesApart, OrphansAreStrangers, Prepared, PlanIsSafe
<1>4. CASE FailEarly
  BY <1>4, FaultsAreCounted, EndsAreSafe DEF FailEarly, Outcome, MigrationTypeOK
<1>. QED BY <1>1, <1>2, <1>3, <1>4

LEMMA QuarantineStep ==
  ASSUME MigrationIInv,
         (\E d \in Name : QuarantineOrphan(d)) \/ QuarantineFails \/ BeginMigrate
  PROVE  MigrationIInv'
<1>. USE DEF MigrationIInv
<1>1. ASSUME NEW d \in Name, QuarantineOrphan(d) PROVE MigrationIInv'
  <2>1. PICK n \in todo :
          LET target == [area |-> attempt, name |-> n]
          IN  /\ at[d] = InUserData(n)
              /\ ~ Exists(target)
              /\ todo' = todo \ {n}
              /\ MoveTo(d, target)
              /\ isolated' = isolated \cup {[dir |-> d, from |-> at[d], to |-> target]}
    BY <1>1 DEF QuarantineOrphan
  <2>2. n \in Name /\ [area |-> attempt, name |-> n] \in Place /\ at[d] \in Place
    BY <2>1, Places DEF MigrationTypeOK, Area
  <2>3. at' \in [Name -> Place \cup {None}] /\ ProfilesApart'
    BY <2>1, <2>2, MoveKeepsApart
  <2>4. isolated' \subseteq Move /\ todo' \subseteq Name
    BY <2>1, <2>2 DEF Move, MigrationTypeOK
  <2>5. MigrationTypeOK'
    BY <1>1, <2>3, <2>4 DEF QuarantineOrphan, MigrationTypeOK, files
  <2>. QED BY <1>1, <2>3, <2>5
         DEF QuarantineOrphan, OrphansAreStrangers, ManifestParts, EveryoneIsMapped, Prepared,
             PlanIsSafe, files, Stored
<1>2. CASE QuarantineFails
  <2>1. MigrationTypeOK'
    BY <1>2, FaultsAreCounted DEF QuarantineFails, MigrationTypeOK, ScriptPc, files, local
  <2>. QED BY <1>2, <2>1
         DEF QuarantineFails, ProfilesApart, OrphansAreStrangers, ManifestParts,
             EveryoneIsMapped, Prepared, PlanIsSafe, files
<1>3. CASE BeginMigrate
  <2>1. todo' \subseteq Name /\ rows' # None /\ \A e \in todo' : rows'[e] # None
    BY <1>3, NoneIsApart DEF BeginMigrate, Stored, Name, MigrationTypeOK
  <2>2. MigrationTypeOK'
    BY <1>3, <2>1 DEF BeginMigrate, MigrationTypeOK, ScriptPc, files
  <2>. QED BY <1>3, <2>1, <2>2
         DEF BeginMigrate, ProfilesApart, OrphansAreStrangers, ManifestParts,
             EveryoneIsMapped, Prepared, PlanIsSafe, files, Stored
<1>. QED BY <1>1, <1>2, <1>3

LEMMA MigrateStep ==
  ASSUME MigrationIInv,
         \/ \E e \in Email : MigrateAccount(e) \/ ProfileConflict(e)
         \/ MigrateFails \/ CommitMigrate
  PROVE  MigrationIInv'
<1>. USE DEF MigrationIInv
<1>1. ASSUME NEW e \in Email, MigrateAccount(e) PROVE MigrationIInv'
  <2>. DEFINE old == InUserData(e)
              new == InUserData(manifest.ids[e])
              found == rows[e].normal /\ Exists(old)
  <2>1. manifest.ids[e] \in ProfileId
    <3>1. pc = "migrate" /\ e \in todo
      BY <1>1 DEF MigrateAccount
    <3>2. manifest # None /\ manifest.ids[e] # None
      BY <3>1 DEF EveryoneIsMapped, Prepared
    <3>. QED BY <3>2 DEF MigrationTypeOK, Manifest
  <2>2. old \in Place /\ new \in Place
    BY <2>1, Places DEF Name
  <2>3. /\ at' \in [Name -> Place \cup {None}] /\ ProfilesApart'
        /\ moved' \subseteq Move
    <3>1. CASE found
      <4>1. PICK d \in Name :
              /\ at[d] = old
              /\ MoveTo(d, new)
              /\ moved' = moved \cup {[dir |-> d, from |-> old, to |-> new]}
        BY <1>1, <3>1 DEF MigrateAccount
      <4>2. ~ Exists(new)
        BY <1>1, <3>1 DEF MigrateAccount
      <4>3. at' \in [Name -> Place \cup {None}] /\ ProfilesApart'
        BY <4>1, <4>2, <2>2, MoveKeepsApart
      <4>4. [dir |-> d, from |-> old, to |-> new] \in Move
        BY <2>2 DEF Move
      <4>. QED BY <4>1, <4>3, <4>4 DEF MigrationTypeOK
    <3>2. CASE ~ found
      BY <1>1, <3>2 DEF MigrateAccount, MigrationTypeOK, ProfilesApart
    <3>. QED BY <3>1, <3>2
  <2>4. rows' \in Table
    <3>1. rows \in Table /\ rows[e] # None
      BY <1>1 DEF MigrateAccount, Prepared, MigrationTypeOK
    <3>2. Migrated(rows[e], manifest.ids[e]) \in Row
      BY <2>1, <3>1, MigratedRow DEF Table
    <3>. QED BY <1>1, <3>1, <3>2 DEF MigrateAccount, Table
  <2>5. MigrationTypeOK'
    BY <1>1, <2>3, <2>4 DEF MigrateAccount, MigrationTypeOK, files
  <2>6. Prepared'
    <3>1. /\ pc' = "migrate" /\ todo' = todo \ {e} /\ todo \subseteq Stored
          /\ \A d \in todo : rows[d] # None
          /\ rows \in Table /\ UNCHANGED accounts
          /\ rows' = [rows EXCEPT ![e] = Migrated(rows[e], manifest.ids[e])]
      BY <1>1 DEF MigrateAccount, Prepared, MigrationTypeOK
    <3>2. \A d \in todo' : rows'[d] = rows[d]
      BY <3>1 DEF Table, Stored
    <3>. QED BY <2>4, <3>1, <3>2, NoneIsApart DEF Prepared, Stored
  <2>. QED BY <1>1, <2>3, <2>5, <2>6
         DEF MigrateAccount, OrphansAreStrangers, ManifestParts, EveryoneIsMapped,
             PlanIsSafe, files, Stored
<1>2. ASSUME NEW e \in Email, ProfileConflict(e) PROVE MigrationIInv'
  <2>1. MigrationTypeOK'
    BY <1>2 DEF ProfileConflict, MigrationTypeOK, ScriptPc, files
  <2>. QED BY <1>2, <2>1
         DEF ProfileConflict, ProfilesApart, OrphansAreStrangers, ManifestParts,
             EveryoneIsMapped, Prepared, PlanIsSafe, files
<1>3. CASE MigrateFails
  <2>1. MigrationTypeOK'
    BY <1>3, FaultsAreCounted DEF MigrateFails, MigrationTypeOK, ScriptPc, files
  <2>. QED BY <1>3, <2>1
         DEF MigrateFails, ProfilesApart, OrphansAreStrangers, ManifestParts,
             EveryoneIsMapped, Prepared, PlanIsSafe, files
<1>4. CASE CommitMigrate
  <2>1. accounts' \in Table
    BY <1>4 DEF CommitMigrate, Prepared, MigrationTypeOK
  <2>2. MigrationTypeOK'
    BY <1>4, <2>1 DEF CommitMigrate, MigrationTypeOK, ScriptPc, files
  <2>. QED BY <1>4, <2>2
         DEF CommitMigrate, ProfilesApart, OrphansAreStrangers, ManifestParts,
             EveryoneIsMapped, Prepared, PlanIsSafe, files
<1>. QED BY <1>1, <1>2, <1>3, <1>4

(* What follows the commit, and the undoing of a failed migration *)
LEMMA UndoStep ==
  ASSUME MigrationIInv,
         \/ UndoMove \/ UndoEnds \/ Harden \/ HardenFails \/ Verify \/ VerifyFails
         \/ RestoreOrphan \/ RestoreOrphansEnds
  PROVE  MigrationIInv'
<1>. USE DEF MigrationIInv
<1>1. ASSUME UndoMove \/ RestoreOrphan PROVE MigrationIInv'
  <2>1. PICK m \in moved \cup isolated : Undo(m)
    BY <1>1 DEF UndoMove, RestoreOrphan
  <2>2. at' \in [Name -> Place \cup {None}] /\ ProfilesApart'
    BY <2>1, UndoKeepsApart DEF MigrationTypeOK
  <2>3. moved' \subseteq Move /\ isolated' \subseteq Move
    BY <1>1 DEF UndoMove, RestoreOrphan, MigrationTypeOK
  <2>4. MigrationTypeOK'
    BY <1>1, <2>2, <2>3 DEF UndoMove, RestoreOrphan, MigrationTypeOK, files
  <2>. QED BY <1>1, <2>2, <2>4
         DEF UndoMove, RestoreOrphan, OrphansAreStrangers, ManifestParts, EveryoneIsMapped,
             Prepared, PlanIsSafe, files
<1>2. CASE UndoEnds
  <2>1. MigrationTypeOK'
    BY <1>2, UndoingIsCounted DEF UndoEnds, MigrationTypeOK, ScriptPc, files, local
  <2>. QED BY <1>2, <2>1
         DEF UndoEnds, ProfilesApart, OrphansAreStrangers, ManifestParts, EveryoneIsMapped,
             Prepared, PlanIsSafe, files
<1>3. CASE Harden
  <2>1. MigrationTypeOK'
    BY <1>3 DEF Harden, MigrationTypeOK, ScriptPc, files, local
  <2>. QED BY <1>3, <2>1
         DEF Harden, ProfilesApart, OrphansAreStrangers, ManifestParts, EveryoneIsMapped,
             Prepared, PlanIsSafe, files
<1>4. CASE HardenFails
  <2>1. MigrationTypeOK'
    BY <1>4, FaultsAreCounted DEF HardenFails, MigrationTypeOK, ScriptPc, files, local
  <2>. QED BY <1>4, <2>1
         DEF HardenFails, ProfilesApart, OrphansAreStrangers, ManifestParts, EveryoneIsMapped,
             Prepared, PlanIsSafe, files
<1>5. CASE RestoreOrphansEnds
  <2>1. faults' \in 0 .. MaxFaults
    BY <1>5, UndoingIsCounted DEF RestoreOrphansEnds
  <2>2. PICK r \in {"failed", "stuck"} : End(r)
    BY <1>5 DEF RestoreOrphansEnds
  <2>. QED BY <1>5, <2>1, <2>2, EndsAreSafe DEF RestoreOrphansEnds, Outcome, MigrationTypeOK
<1>6. CASE Verify \/ VerifyFails
  <2>1. /\ faults' \in 0 .. MaxFaults
        /\ UNCHANGED <<accounts, at, files, attempt, crashes, before>>
    BY <1>6, FaultsAreCounted DEF Verify, VerifyFails, MigrationTypeOK
  <2>2. PICK r \in {"migrated", "unverified"} : End(r)
    BY <1>6 DEF Verify, VerifyFails
  <2>. QED BY <2>1, <2>2, EndsAreSafe DEF Outcome, MigrationTypeOK
<1>. QED BY <1>1, <1>2, <1>3, <1>4, <1>5, <1>6

----------------------------------------------------------------------------
(* No two directories are planned to go to the same place: an account has   *)
(* one profile, an orphan is in the quarantine once, and no name is both.  *)
LEMMA TargetsDiffer ==
  ASSUME MigrationTypeOK, ProfilesApart, ManifestParts, manifest # None,
         NEW l \in ProfilesToMove \cup OrphansToMove,
         NEW m \in ProfilesToMove \cup OrphansToMove,
         l.to = m.to
  PROVE  l = m
<1>. DEFINE profile(x) == \E e \in Email :
              /\ manifest.ids[e] # None
              /\ x.from = InUserData(manifest.ids[e])
              /\ x.to = InUserData(e)
            orphan(x) == \E n \in manifest.orphans :
              /\ x.from = [area |-> manifest.area, name |-> n]
              /\ x.to = InUserData(n)
<1>1. /\ l \in Move /\ (profile(l) \/ orphan(l)) /\ at[l.dir] = l.from
      /\ m \in Move /\ (profile(m) \/ orphan(m)) /\ at[m.dir] = m.from
  BY DEF ProfilesToMove, OrphansToMove
<1>2. manifest.orphans \subseteq Name /\ Email \subseteq Name
  BY DEF MigrationTypeOK, Manifest, Name
<1>3. l.from = m.from
  BY <1>1, <1>2, Places DEF ManifestParts
<1>4. l.dir = m.dir
  <2>1. l.dir \in Name /\ m.dir \in Name /\ l.from \in Place
    BY <1>1 DEF Move
  <2>. QED BY <1>1, <1>3, <2>1, NoneIsApart DEF ProfilesApart
<1>. QED BY <1>1, <1>3, <1>4 DEF Move

LEMMA RollbackStep ==
  ASSUME MigrationIInv, Rollback
  PROVE  MigrationIInv'
<1>. USE DEF MigrationIInv
<1>1. CASE PlanRollback
  <2>. DEFINE plan == ProfilesToMove \cup OrphansToMove
  <2>1. CASE \E m \in plan : Exists(m.to)
    BY <1>1, <2>1, FaultsAreCounted, EndsAreSafe DEF PlanRollback, Outcome, MigrationTypeOK
  <2>2. CASE ~ \E m \in plan : Exists(m.to)
    <3>1. /\ pc' = "move_back" /\ planned' = plan /\ faults' = 0
          /\ backup # None /\ manifest # None
          /\ UNCHANGED <<rows, todo, moved, isolated, outcome, accounts, at, files, attempt,
                         crashes, before>>
      BY <1>1, <2>2 DEF PlanRollback
    <3>2. MigrationTypeOK'
      <4>1. plan \subseteq Move
        BY DEF ProfilesToMove, OrphansToMove
      <4>. QED BY <3>1, <4>1, FaultsAreCounted DEF MigrationTypeOK, ScriptPc, files
    <3>3. PlanIsSafe'
      <4>1. \A l, m \in plan : l.to = m.to => l = m
        BY <3>1, TargetsDiffer
      <4>. QED BY <2>2, <3>1, <4>1 DEF PlanIsSafe, Exists
    <3>. QED BY <3>1, <3>2, <3>3
           DEF ProfilesApart, OrphansAreStrangers, ManifestParts, EveryoneIsMapped, Prepared,
               files
  <2>. QED BY <2>1, <2>2
<1>2. CASE MoveBack
  <2>1. PICK m \in planned :
          planned' = planned \ {m} /\ MoveTo(m.dir, m.to) /\ moved' = moved \cup {m}
    BY <1>2 DEF MoveBack
  <2>2. pc = "move_back" /\ pc' = pc /\ m \in Move /\ m.dir \in Name /\ m.to \in Place
    BY <1>2, <2>1 DEF MoveBack, MigrationTypeOK, Move
  <2>3. /\ at' \in [Name -> Place \cup {None}] /\ ProfilesApart'
        /\ \A q \in Place : Exists(q)' => Exists(q) \/ q = m.to
    BY <2>1, <2>2, MoveKeepsApart DEF PlanIsSafe
  <2>4. MigrationTypeOK'
    BY <1>2, <2>1, <2>2, <2>3 DEF MoveBack, MigrationTypeOK, files
  <2>5. PlanIsSafe'
    <3>1. \A l \in planned' : l \in planned /\ l # m /\ l.to \in Place
      BY <2>1 DEF MigrationTypeOK, Move
    <3>2. \A l \in planned' : ~ Exists(l.to)'
      BY <2>1, <2>2, <2>3, <3>1 DEF PlanIsSafe
    <3>. QED BY <2>2, <3>1, <3>2 DEF PlanIsSafe, Exists
  <2>. QED BY <1>2, <2>3, <2>4, <2>5
         DEF MoveBack, OrphansAreStrangers, ManifestParts, EveryoneIsMapped, Prepared, files
<1>3. CASE MoveBackEnds
  <2>1. MigrationTypeOK'
    BY <1>3 DEF MoveBackEnds, MigrationTypeOK, ScriptPc, files, local
  <2>. QED BY <1>3, <2>1
         DEF MoveBackEnds, ProfilesApart, OrphansAreStrangers, ManifestParts, EveryoneIsMapped,
             Prepared, PlanIsSafe, files
<1>4. CASE RestoreDatabase
  <2>1. accounts' \in Table
    BY <1>4 DEF RestoreDatabase, Prepared, MigrationTypeOK
  <2>. QED BY <1>4, <2>1, EndsAreSafe DEF RestoreDatabase, Outcome, MigrationTypeOK
<1>5. CASE RollbackFails
  <2>1. MigrationTypeOK'
    BY <1>5, FaultsAreCounted DEF RollbackFails, MigrationTypeOK, ScriptPc, files, local
  <2>. QED BY <1>5, <2>1
         DEF RollbackFails, ProfilesApart, OrphansAreStrangers, ManifestParts,
             EveryoneIsMapped, Prepared, PlanIsSafe, files
<1>6. CASE RestoreMove
  <2>1. PICK m \in moved : Undo(m) /\ moved' = moved \ {m}
    BY <1>6 DEF RestoreMove
  <2>2. at' \in [Name -> Place \cup {None}] /\ ProfilesApart'
    BY <2>1, UndoKeepsApart DEF MigrationTypeOK
  <2>3. MigrationTypeOK'
    BY <1>6, <2>1, <2>2 DEF RestoreMove, MigrationTypeOK, files
  <2>. QED BY <1>6, <2>2, <2>3
         DEF RestoreMove, OrphansAreStrangers, ManifestParts, EveryoneIsMapped, Prepared,
             PlanIsSafe, files
<1>7. CASE RestoreMovesEnds
  <2>1. faults' \in 0 .. MaxFaults
    BY <1>7, UndoingIsCounted DEF RestoreMovesEnds
  <2>2. PICK r \in {"rollback_failed", "stuck"} : End(r)
    BY <1>7 DEF RestoreMovesEnds
  <2>. QED BY <1>7, <2>1, <2>2, EndsAreSafe DEF RestoreMovesEnds, Outcome, MigrationTypeOK
<1>. QED BY <1>1, <1>2, <1>3, <1>4, <1>5, <1>6, <1>7 DEF Rollback

----------------------------------------------------------------------------
LEMMA CrashStep ==
  ASSUME MigrationIInv, Crash
  PROVE  MigrationIInv'
<1>1. crashes' \in 0 .. MaxCrashes
  BY MigrationAssumption DEF MigrationAssumption, Crash, MigrationIInv, MigrationTypeOK
<1>. QED BY <1>1, EndsAreSafe DEF Crash, Outcome, MigrationIInv, MigrationTypeOK

(* MigrationIInv is inductive. *)
THEOREM MigrationInvariant ==
  MigrationSpec => []MigrationIInv
<1>1. ASSUME MigrationIInv, [MigrationNext]_migrationVars PROVE MigrationIInv'
  <2>1. CASE UNCHANGED migrationVars
    BY <1>1, <2>1
       DEF migrationVars, MigrationIInv, MigrationTypeOK, ProfilesApart, OrphansAreStrangers,
           ManifestParts, EveryoneIsMapped, Prepared, PlanIsSafe, Stored, Exists
  <2>2. CASE MigrationNext
    BY <1>1, <2>2, PreparationStep, QuarantineStep, MigrateStep, UndoStep, RollbackStep,
       CrashStep DEF MigrationNext, Migrate
  <2>. QED BY <1>1, <2>1, <2>2
<1>. QED BY <1>1, MigrationStarts, PTL DEF MigrationSpec

(* Rows, places and moves keep their types, whatever fails (either script). *)
THEOREM MigrationTypeCorrect ==
  MigrationSpec => []MigrationTypeOK
BY MigrationInvariant, PTL DEF MigrationIInv

(* No directory is moved onto another one: not by migrate, by the undoing of *)
(* its moves or by move_profiles_back, which looks at all targets before    *)
(* its first move only.                                                    *)
THEOREM ProfilesStayApart ==
  MigrationSpec => []ProfilesApart
BY MigrationInvariant, PTL DEF MigrationIInv

----------------------------------------------------------------------------
(* Second part: where a migration and its rollback leave every directory *)

MigratingPc == {"quarantine", "migrate", "undo", "harden", "verify", "unquarantine"}

RollingPc == {"move_back", "database", "restore_moves"}

WasStored == {e \in Email : before.accounts[e] # None}

(* Accounts whose rows, and directories, the migration finds. *)
WasNormal == {e \in WasStored : before.accounts[e].normal}

(* The manifest sends what is at q to p: it renames the profile of an       *)
(* account, or isolates an orphan.                                          *)
Renames(q, p) ==
  \E e \in Email : /\ manifest.ids[e] # None
                   /\ q = InUserData(e) /\ p = InUserData(manifest.ids[e])

Isolates(q, p) ==
  \E n \in manifest.orphans : q = InUserData(n) /\ p = [area |-> manifest.area, name |-> n]

Displaces(q, p) == Renames(q, p) \/ Isolates(q, p)

(* The rows that a migration commits. *)
SealedRows ==
  [e \in Email |->
     IF e \in WasStored THEN Migrated(before.accounts[e], manifest.ids[e]) ELSE None]

(* Quarantines are given out once. *)
AreasKnown ==
  \A d \in Name : at[d] # None =>
    at[d].area <= attempt /\ (pc \in {"backup", "manifest"} => at[d].area < attempt)

BeforeApart ==
  \A c, d \in Name : before.at[c] = before.at[d] /\ before.at[c] # None => c = d

(* The manifest is about the storage as it was when the backup was written. *)
ManifestFits ==
  manifest # None =>
    /\ 1 <= manifest.area /\ manifest.area <= attempt
    /\ \A d \in Name : before.at[d] # None => before.at[d].area < manifest.area
    /\ \A e \in Email : manifest.ids[e] # None <=> e \in WasStored
    /\ \A d, e \in WasStored : manifest.ids[d] = manifest.ids[e] => d = e
    /\ \A e \in WasStored :
         IF before.accounts[e].profile # None
         THEN manifest.ids[e] = before.accounts[e].profile
         ELSE \A d \in Name : before.at[d] # None => before.at[d].name # manifest.ids[e]
    /\ \A n \in Name :
         n \in manifest.orphans <=>
           /\ \E d \in Name : before.at[d] = InUserData(n)
           /\ n \notin WasStored /\ \A e \in WasStored : before.accounts[e].profile # n

BackupFits == backup # None => backup = before.accounts

(* Nothing has changed since the plan when the manifest is written. *)
PlanFits ==
  /\ pc \in {"backup", "manifest"} => todo = Orphans /\ 1 <= attempt
  /\ pc = "manifest" => before = [accounts |-> accounts, at |-> at] /\ manifest = None

HandsFit ==
  /\ pc \in MigratingPc \cup RollingPc => manifest # None
  /\ pc \in MigratingPc => manifest.area = attempt
  /\ pc \notin MigratingPc => isolated = {}
  /\ pc \notin MigratingPc \cup RollingPc => moved = {}
  /\ pc = "quarantine" => moved = {}

(* What a migration has moved is where it put it. *)
MovesFit ==
  pc \in MigratingPc =>
    /\ \A m \in moved \cup isolated : at[m.dir] = m.to /\ before.at[m.dir] = m.from
    /\ \A m \in moved :
         Renames(m.from, m.to) /\ \E e \in WasNormal : m.from = InUserData(e)
    /\ \A m \in isolated : Isolates(m.from, m.to)

Displaced(d) == \E m \in moved \cup isolated : m.dir = d

(* Before the commit every other directory is where it was ... *)
Uncommitted ==
  accounts = before.accounts /\ \A d \in Name : at[d] = before.at[d] \/ Displaced(d)

(* ... after it, every profile has been renamed. *)
Treated(d) ==
  \/ \E e \in WasNormal : before.at[d] = InUserData(e) /\ at[d] = InUserData(manifest.ids[e])
  \/ at[d] = before.at[d] /\ \A e \in WasNormal : before.at[d] # InUserData(e)

Committed ==
  accounts = SealedRows /\ moved = {} /\ \A d \in Name : Treated(d) \/ Displaced(d)

CommitFits ==
  /\ pc \in {"quarantine", "migrate", "undo"} => Uncommitted
  /\ pc \in {"harden", "verify"} => Committed
  /\ pc = "unquarantine" => Uncommitted \/ Committed

(* How far the loops of the migration are. *)
LoopsFit ==
  /\ pc = "quarantine" => todo \subseteq manifest.orphans
  /\ pc \in {"quarantine", "migrate", "harden", "verify"} =>
       \A n \in manifest.orphans : Exists(InUserData(n)) => pc = "quarantine" /\ n \in todo
  /\ pc = "migrate" =>
       /\ todo \subseteq WasStored
       /\ \A e \in WasNormal : Exists(InUserData(e)) => e \in todo
       /\ rows = [e \in Email |-> IF e \in todo THEN before.accounts[e] ELSE SealedRows[e]]

(* Until the next backup every directory is where it was or where one of    *)
(* the moves, or the undoing of one, takes it.                              *)
Located ==
  manifest # None =>
    \A d \in Name : \/ at[d] = before.at[d]
                    \/ Displaces(before.at[d], at[d])
                    \/ Displaces(at[d], before.at[d])

Astray(d) == \E q \in Place : Displaces(q, at[d])

(* The rollback has all that is displaced in its plan. *)
RollbackFits ==
  /\ pc \in RollingPc => \A m \in moved : at[m.dir] = m.to /\ Displaces(m.to, m.from)
  /\ pc = "move_back" =>
       /\ \A m \in planned : at[m.dir] = m.from /\ Displaces(m.to, m.from)
       /\ \A d \in Name : Astray(d) => \E m \in planned : m.dir = d
  /\ pc = "database" => \A d \in Name : ~ Astray(d)

Results ==
  MigrationKeepsProfiles /\ FailedMigrationUndone /\ NoAddressOnDisk /\ RollbackRestores

MovePart ==
  /\ AreasKnown /\ BeforeApart /\ ManifestFits /\ BackupFits /\ PlanFits /\ HandsFit
  /\ MovesFit /\ CommitFits /\ LoopsFit /\ Located /\ RollbackFits /\ Results

MoveIInv == MigrationIInv /\ MovePart

(* Neither the manifest nor what it is about has changed. *)
Bearings == UNCHANGED <<manifest, before>>

LEMMA BearingsKept ==
  ASSUME Bearings
  PROVE  /\ WasStored' = WasStored /\ WasNormal' = WasNormal /\ SealedRows' = SealedRows
         /\ \A q, p : Renames(q, p)' <=> Renames(q, p)
         /\ \A q, p : Isolates(q, p)' <=> Isolates(q, p)
         /\ \A q, p : Displaces(q, p)' <=> Displaces(q, p)
  BY DEF Bearings, WasStored, WasNormal, SealedRows, Migrated, Renames, Isolates, Displaces

LEMMA NameOfPlace ==
  /\ \A n : InUserData(n).area = 0 /\ InUserData(n).name = n
  /\ \A p \in Place : p.area = 0 => p = InUserData(p.name)
  BY DEF InUserData, Place

LEMMA TypedManifest ==
  ASSUME MigrationTypeOK, ManifestFits, manifest # None
  PROVE  /\ manifest.area \in Area \ {0} /\ manifest.orphans \subseteq Name
         /\ \A e \in WasStored : manifest.ids[e] \in ProfileId
         /\ \A e \in Email : manifest.ids[e] # None <=> e \in WasStored
         /\ manifest.orphans \cap WasStored = {}
         /\ \A e \in WasStored : manifest.ids[e] \notin manifest.orphans
<1>1. manifest \in Manifest /\ manifest.area # 0
  BY DEF MigrationTypeOK, ManifestFits
<1>2. \A e \in Email : manifest.ids[e] # None <=> e \in WasStored
  BY DEF ManifestFits
<1>3. \A e \in WasStored : manifest.ids[e] \in ProfileId
  BY <1>1, <1>2 DEF Manifest, WasStored
<1>4. manifest.orphans \cap WasStored = {}
  BY <1>1 DEF Manifest, ManifestFits
<1>5. ASSUME NEW e \in WasStored PROVE manifest.ids[e] \notin manifest.orphans
  <2>1. manifest.ids[e] \in Name
    BY <1>3 DEF Name
  <2>2. CASE before.accounts[e].profile # None
    BY <2>1, <2>2 DEF ManifestFits
  <2>3. CASE before.accounts[e].profile = None
    <3>1. \A d \in Name : before.at[d] # InUserData(manifest.ids[e])
      BY <2>1, <2>3, Places, NoneIsApart, NameOfPlace DEF ManifestFits
    <3> QED BY <2>1, <3>1 DEF ManifestFits
  <2> QED BY <2>2, <2>3
<1> QED BY <1>1, <1>2, <1>3, <1>4, <1>5 DEF Manifest

(* A place is left by one move and reached by one, and never both. *)
LEMMA MovesPair ==
  ASSUME MigrationTypeOK, ManifestFits, manifest # None
  PROVE  /\ \A q, p : Displaces(q, p) =>
              /\ q \in Place /\ p \in Place /\ q.area = 0 /\ p.area \in {0, manifest.area}
              /\ q # p
         /\ \A q, p, r : Displaces(q, p) /\ Displaces(q, r) => p = r
         /\ \A q, p, r : Displaces(q, p) /\ Displaces(r, p) => q = r
         /\ \A q, p, r : ~ (Displaces(q, p) /\ Displaces(p, r))
<1>1. Email \cap ProfileId = {} /\ Email \subseteq Name /\ ProfileId \subseteq Name
  BY MigrationAssumption DEF MigrationAssumption, Name
<1>. USE <1>1, TypedManifest, NameOfPlace, Places DEF Displaces, Renames, Isolates
<1>2. ASSUME NEW q, NEW p, Displaces(q, p)
      PROVE  q \in Place /\ p \in Place /\ q.area = 0 /\ p.area \in {0, manifest.area}
  BY <1>2
<1>3. ASSUME NEW q, NEW p, NEW r, Displaces(q, p), Displaces(q, r) PROVE p = r
  BY <1>3
<1>4. ASSUME NEW q, NEW p, NEW r, Displaces(q, p), Displaces(r, p) PROVE q = r
  BY <1>4 DEF ManifestFits
<1>5. ASSUME NEW q, NEW p, NEW r PROVE ~ (Displaces(q, p) /\ Displaces(p, r))
  OBVIOUS
<1> QED BY <1>2, <1>3, <1>4, <1>5

(* In the middle of a script, much follows from the bearings. *)
LEMMA CourseFits ==
  ASSUME MovePart, Bearings, UNCHANGED <<backup, attempt>>,
         pc' \notin {"rest", "backup", "manifest"}
  PROVE  /\ BeforeApart' /\ ManifestFits' /\ BackupFits' /\ PlanFits' /\ Results'
         /\ UNCHANGED at => AreasKnown' /\ Located'
<1>1. BeforeApart' /\ BackupFits' /\ PlanFits'
  BY DEF MovePart, Bearings, BeforeApart, BackupFits, PlanFits
<1>2. ManifestFits'
  BY BearingsKept DEF MovePart, Bearings, ManifestFits
<1>3. Results'
  BY DEF Results, MigrationKeepsProfiles, FailedMigrationUndone, NoAddressOnDisk, RollbackRestores
<1>4. UNCHANGED at => AreasKnown' /\ Located'
  BY BearingsKept DEF MovePart, Bearings, AreasKnown, Located
<1> QED BY <1>1, <1>2, <1>3, <1>4

(* A move that the manifest knows, in either direction. *)
LEMMA MoveFits ==
  ASSUME MoveIInv, Bearings, UNCHANGED attempt, manifest # None, NEW d \in Name, NEW y,
         MoveTo(d, y), Displaces(at[d], y) \/ Displaces(y, at[d]),
         pc' \notin {"rest", "backup", "manifest"}
  PROVE  /\ AreasKnown' /\ Located' /\ y \in Place
         /\ at'[d] = y /\ \A c \in Name \ {d} : at'[c] = at[c]
<1>1. MigrationTypeOK /\ ManifestFits /\ AreasKnown /\ Located
  BY DEF MoveIInv, MigrationIInv, MovePart
<1>2. at \in [Name -> Place \cup {None}] /\ at' = [at EXCEPT ![d] = y]
  BY <1>1 DEF MigrationTypeOK, MoveTo
<1>3. at'[d] = y /\ \A c \in Name \ {d} : at'[c] = at[c]
  BY <1>2
<1>4. y \in Place /\ y.area \in {0, manifest.area}
  BY <1>1, MovesPair
<1>5. AreasKnown'
  <2>1. 0 <= attempt /\ manifest.area <= attempt
    BY <1>1 DEF ManifestFits, MigrationTypeOK
  <2> QED BY <1>1, <1>3, <1>4, <2>1 DEF AreasKnown
<1>6. Located'
  <2>. DEFINE There(c) == \/ at[c] = before.at[c]
                          \/ Displaces(before.at[c], at[c])
                          \/ Displaces(at[c], before.at[c])
              Then(c) == \/ at'[c] = before.at[c]
                         \/ Displaces(before.at[c], at'[c])
                         \/ Displaces(at'[c], before.at[c])
  <2>1. \A c \in Name : There(c)
    BY <1>1 DEF Located
  <2>2. Then(d)
    BY <1>1, <1>3, <2>1, MovesPair
  <2>3. \A c \in Name \ {d} : Then(c)
    BY <1>3, <2>1
  <2>4. \A c \in Name : /\ at'[c] = before'.at[c] \/ Displaces(before.at[c], at'[c])
                                                 \/ Displaces(at'[c], before.at[c])
                        /\ before'.at[c] = before.at[c]
    BY <2>2, <2>3 DEF Bearings
  <2> QED BY <2>4, BearingsKept DEF Located
<1> QED BY <1>3, <1>4, <1>5, <1>6

(* A script that ends leaves what the next one relies on. *)
LEMMA EndFits ==
  ASSUME MoveIInv, NEW r, End(r), UNCHANGED <<at, files, attempt, before>>,
         r \in {"refused", "stuck", "crashed", "rollback_failed"} \/ Results'
  PROVE  MovePart'
<1>. USE DEF MoveIInv, MovePart
<1>1. Bearings /\ UNCHANGED backup /\ pc' = "rest"
      /\ moved' = {} /\ isolated' = {} /\ outcome' = r
  BY DEF Bearings, files, End
<1>2. BeforeApart' /\ BackupFits' /\ PlanFits' /\ AreasKnown'
  BY <1>1 DEF Bearings, BeforeApart, BackupFits, PlanFits, AreasKnown
<1>3. ManifestFits' /\ Located'
  BY <1>1, BearingsKept DEF Bearings, ManifestFits, Located
<1>4. HandsFit' /\ MovesFit' /\ CommitFits' /\ LoopsFit' /\ RollbackFits'
  BY <1>1 DEF HandsFit, MovesFit, CommitFits, LoopsFit, RollbackFits, MigratingPc, RollingPc
<1>5. Results'
  BY <1>1 DEF Results, MigrationKeepsProfiles, FailedMigrationUndone, NoAddressOnDisk,
     RollbackRestores
<1> QED BY <1>2, <1>3, <1>4, <1>5

LEMMA PreparationFits ==
  ASSUME MoveIInv, PlanMigration \/ WriteBackup \/ WriteManifest \/ FailEarly
  PROVE  MovePart'
<1>. USE DEF MoveIInv
<1>0. MigrationTypeOK /\ ProfilesApart /\ attempt \in Nat
  BY DEF MigrationIInv, MigrationTypeOK
<1>1. CASE PlanMigration
  <2>1. /\ pc = "rest" /\ pc' = "backup" /\ attempt' = attempt + 1 /\ todo' = Orphans
        /\ Bearings /\ UNCHANGED <<backup, accounts, at, moved, isolated>>
    BY <1>1 DEF PlanMigration, Bearings, files
  <2>2. Orphans' = Orphans
    BY <2>1 DEF Orphans, Known, Stored, Exists
  <2>3. AreasKnown'
    <3>1. ASSUME NEW d \in Name, at[d] # None PROVE at[d].area < attempt'
      <4>1. at[d] \in Place
        BY <1>0, <3>1 DEF MigrationTypeOK
      <4>2. at[d].area \in Nat /\ at[d].area <= attempt
        BY <3>1, <4>1, MigrationAssumption
        DEF MigrationAssumption, Place, Area, MovePart, AreasKnown
      <4> QED BY <1>0, <2>1, <4>2
    <3>2. \A d \in Name : at[d] # None => at[d].area <= attempt'
      BY <1>0, <2>1 DEF MovePart, AreasKnown, MigrationTypeOK, Place, Area
    <3> QED BY <2>1, <3>1, <3>2 DEF AreasKnown
  <2>4. ManifestFits'
    <3>1. manifest # None => manifest.area <= attempt'
      BY <1>0, <2>1 DEF MovePart, ManifestFits, MigrationTypeOK, Manifest, Area
    <3> QED BY <2>1, <3>1, BearingsKept DEF MovePart, Bearings, ManifestFits
  <2>5. BeforeApart' /\ BackupFits' /\ PlanFits' /\ HandsFit' /\ Results'
    BY <1>0, <2>1, <2>2
    DEF MovePart, Bearings, BeforeApart, BackupFits, PlanFits, HandsFit, Results, MigratingPc,
        RollingPc, MigrationKeepsProfiles, FailedMigrationUndone, NoAddressOnDisk,
        RollbackRestores
  <2>6. Located'
    BY <2>1, BearingsKept DEF MovePart, Bearings, Located
  <2>7. MovesFit' /\ CommitFits' /\ LoopsFit' /\ RollbackFits'
    BY <2>1 DEF MovesFit, CommitFits, LoopsFit, RollbackFits, MigratingPc, RollingPc
  <2> QED BY <2>3, <2>4, <2>5, <2>6, <2>7 DEF MovePart
<1>2. CASE WriteBackup
  <2>1. /\ pc = "backup" /\ pc' = "manifest" /\ backup' = accounts /\ manifest' = None
        /\ before' = [accounts |-> accounts, at |-> at]
        /\ UNCHANGED <<attempt, accounts, at, moved, isolated, todo>>
    BY <1>2 DEF WriteBackup, local
  <2>2. Orphans' = Orphans
    BY <2>1 DEF Orphans, Known, Stored, Exists
  <2>3. AreasKnown' /\ BeforeApart' /\ ManifestFits' /\ BackupFits'
    BY <1>0, <2>1 DEF MovePart, AreasKnown, BeforeApart, ProfilesApart, ManifestFits, BackupFits
  <2>4. PlanFits' /\ HandsFit' /\ Results' /\ Located'
    BY <2>1, <2>2
    DEF MovePart, PlanFits, HandsFit, Results, Located, MigratingPc,
        RollingPc, MigrationKeepsProfiles, FailedMigrationUndone, NoAddressOnDisk,
        RollbackRestores
  <2>5. MovesFit' /\ CommitFits' /\ LoopsFit' /\ RollbackFits'
    BY <2>1 DEF MovesFit, CommitFits, LoopsFit, RollbackFits, MigratingPc, RollingPc
  <2> QED BY <2>3, <2>4, <2>5 DEF MovePart
<1>3. CASE WriteManifest
  <2>1. PICK ids \in ProfileMappings :
          manifest' = [ids |-> ids, orphans |-> todo, area |-> attempt]
    BY <1>3 DEF WriteManifest
  <2>2. /\ pc = "manifest" /\ pc' = "quarantine" /\ todo = Orphans /\ 1 <= attempt
        /\ before.accounts = accounts /\ before.at = at
        /\ UNCHANGED <<backup, before, attempt, accounts, at, moved, isolated, todo>>
        /\ moved = {} /\ isolated = {}
    BY <1>3 DEF WriteManifest, local, MovePart, PlanFits, HandsFit, MigratingPc, RollingPc
  <2>3. WasStored = Stored /\ WasStored' = WasStored
    BY <2>2 DEF WasStored, Stored
  <2>4. /\ manifest'.ids = ids /\ manifest'.orphans = Orphans /\ manifest'.area = attempt
        /\ manifest' # None
    <3>1. manifest' \in Manifest
      BY <1>3, PreparationStep DEF MigrationIInv, MigrationTypeOK, EveryoneIsMapped, WriteManifest
    <3> QED BY <2>1, <2>2, <3>1, NoneIsApart
  <2>5. /\ \A e \in Email : ids[e] # None <=> e \in Stored
        /\ \A d, e \in Stored : ids[d] = ids[e] => d = e
        /\ \A e \in Stored : IF accounts[e].profile # None
                             THEN ids[e] = accounts[e].profile
                             ELSE \A d \in Name : at[d] # None => at[d].name # ids[e]
    <3>1. \A e \in Email : ids[e] # None => e \in Stored
      BY DEF ProfileMappings
    <3>2. \A e \in Stored : ids[e] # None
      BY <1>3, <2>2, <2>4, PreparationStep DEF MigrationIInv, EveryoneIsMapped, Stored
    <3> QED BY <3>1, <3>2 DEF ProfileMappings, Stored
  <2>6. \A n \in Name :
          n \in Orphans <=>
            /\ \E d \in Name : at[d] = InUserData(n)
            /\ n \notin Stored /\ \A e \in Stored : accounts[e].profile # n
    BY DEF Orphans, Known, Exists
  <2>7. ManifestFits'
    <3>1. \A d \in Name : at[d] # None => at[d].area < attempt
      BY <2>2 DEF MovePart, AreasKnown
    <3>2. 1 <= attempt /\ attempt <= attempt
      BY <1>0, <2>2
    <3> QED BY <2>2, <2>3, <2>4, <2>5, <2>6, <3>1, <3>2 DEF ManifestFits
  <2>8. AreasKnown' /\ BeforeApart' /\ BackupFits' /\ PlanFits' /\ HandsFit' /\ Results'
    BY <2>2, <2>4
    DEF MovePart, AreasKnown, BeforeApart, BackupFits, PlanFits, HandsFit, Results, MigratingPc,
        RollingPc, MigrationKeepsProfiles, FailedMigrationUndone, NoAddressOnDisk,
        RollbackRestores
  <2>9. MovesFit' /\ CommitFits' /\ LoopsFit' /\ RollbackFits' /\ Located'
    BY <2>2, <2>4
    DEF MovesFit, CommitFits, Uncommitted, LoopsFit, RollbackFits, Located, MigratingPc,
        RollingPc
  <2> QED BY <2>7, <2>8, <2>9 DEF MovePart
<1>4. CASE FailEarly
  BY <1>4, EndFits DEF FailEarly
<1> QED BY <1>1, <1>2, <1>3, <1>4

(* A directory that a migration can still move has not been moved by it. *)
LEMMA NotDisplacedYet ==
  ASSUME MoveIInv, pc \in MigratingPc, NEW d \in Name, NEW p, Displaces(at[d], p)
  PROVE  ~ Displaced(d)
<1>1. \A m \in moved \cup isolated : at[m.dir] = m.to /\ Displaces(m.from, m.to)
  BY DEF MoveIInv, MovePart, MovesFit, Displaces
<1>2. \A q : ~ Displaces(q, at[d])
  BY MovesPair DEF MoveIInv, MigrationIInv, MovePart, HandsFit
<1> QED BY <1>1, <1>2 DEF Displaced

LEMMA QuarantineFits ==
  ASSUME MoveIInv,
         (\E d \in Name : QuarantineOrphan(d)) \/ QuarantineFails \/ BeginMigrate
  PROVE  MovePart'
<1>. USE DEF MoveIInv
<1>0. /\ MigrationTypeOK /\ ProfilesApart
      /\ pc = "quarantine" /\ pc \in MigratingPc
      /\ manifest # None /\ manifest.area = attempt /\ moved = {}
      /\ Uncommitted /\ ManifestFits
  BY DEF MigrationIInv, MovePart, HandsFit, CommitFits, MigratingPc, QuarantineOrphan,
     QuarantineFails, BeginMigrate
<1>1. ASSUME NEW d \in Name, QuarantineOrphan(d) PROVE MovePart'
  <2>1. PICK n \in todo :
          LET target == [area |-> attempt, name |-> n]
          IN  /\ at[d] = InUserData(n)
              /\ ~ Exists(target)
              /\ todo' = todo \ {n}
              /\ MoveTo(d, target)
              /\ isolated' = isolated \cup {[dir |-> d, from |-> at[d], to |-> target]}
    BY <1>1 DEF QuarantineOrphan
  <2>. DEFINE target == [area |-> attempt, name |-> n]
  <2>2. /\ Bearings /\ UNCHANGED <<backup, attempt, accounts, pc, moved>>
        /\ pc' = "quarantine"
    BY <1>0, <1>1 DEF QuarantineOrphan, files, Bearings
  <2>3. n \in manifest.orphans /\ n \in Name
    BY <1>0, TypedManifest DEF MovePart, LoopsFit
  <2>4. Isolates(at[d], target) /\ Displaces(at[d], target)
    BY <1>0, <2>1, <2>3 DEF Isolates, Displaces
  <2>5. ~ Displaced(d) /\ at[d] = before.at[d]
    BY <1>0, <2>4, NotDisplacedYet DEF Uncommitted
  <2>6. /\ AreasKnown' /\ Located' /\ target \in Place
        /\ at'[d] = target /\ \A c \in Name \ {d} : at'[c] = at[c]
    BY <1>0, <2>1, <2>2, <2>4, MoveFits
  <2>7. isolated' = isolated \cup {[dir |-> d, from |-> at[d], to |-> target]}
    BY <2>1
  <2>. HIDE DEF target
  <2>8. MovesFit'
    <3>1. \A m \in isolated : /\ m.dir \in Name /\ m.dir # d
                              /\ at[m.dir] = m.to /\ before.at[m.dir] = m.from
                              /\ Isolates(m.from, m.to)
      BY <1>0, <2>5 DEF MovePart, MovesFit, Displaced, MigrationTypeOK, Move
    <3>2. \A m \in isolated' : /\ at'[m.dir] = m.to /\ before.at[m.dir] = m.from
                               /\ Isolates(m.from, m.to)
      BY <2>4, <2>5, <2>6, <2>7, <3>1
    <3> QED BY <1>0, <2>2, <3>2, BearingsKept DEF MovesFit, Bearings
  <2>9. CommitFits'
    <3>1. ASSUME NEW c \in Name PROVE at'[c] = before.at[c] \/ Displaced(c)'
      <4>1. CASE c = d
        <5>. DEFINE m == [dir |-> d, from |-> at[d], to |-> target]
        <5>1. m \in isolated' /\ m.dir = c
          BY <2>7, <4>1
        <5> QED BY <5>1 DEF Displaced
      <4>2. CASE c # d
        BY <1>0, <2>2, <2>6, <2>7, <4>2 DEF Uncommitted, Displaced
      <4> QED BY <4>1, <4>2
    <3>2. Uncommitted'
      BY <1>0, <2>2, <3>1 DEF Uncommitted, Bearings
    <3> QED BY <2>2, <3>2 DEF CommitFits
  <2>10. LoopsFit'
    <3>1. ASSUME NEW k \in manifest.orphans, NEW c \in Name, at'[c] = InUserData(k)
          PROVE  k \in todo'
      <4>1. target.area # 0
        BY <1>0, TypedManifest DEF target
      <4>2. c # d
        BY <2>6, <3>1, <4>1, NameOfPlace
      <4>3. at[c] = InUserData(k) /\ k \in todo
        BY <1>0, <2>6, <3>1, <4>2 DEF MovePart, LoopsFit, Exists
      <4>4. k # n
        BY <1>0, <2>1, <4>2, <4>3, Places, NoneIsApart, <2>3 DEF ProfilesApart
      <4> QED BY <2>1, <4>3, <4>4
    <3>2. todo' \subseteq manifest.orphans
      BY <1>0, <2>1 DEF MovePart, LoopsFit
    <3> QED BY <2>2, <3>1, <3>2 DEF LoopsFit, Exists, Bearings
  <2>11. HandsFit' /\ RollbackFits'
    BY <1>0, <2>2 DEF HandsFit, RollbackFits, MigratingPc, RollingPc, Bearings
  <2> QED BY <2>2, <2>6, <2>8, <2>9, <2>10, <2>11, CourseFits DEF MovePart
<1>2. CASE QuarantineFails
  <2>1. /\ Bearings /\ UNCHANGED <<backup, attempt, accounts, at, moved, isolated>>
        /\ pc' = "unquarantine"
    BY <1>2 DEF QuarantineFails, files, local, Bearings
  <2>2. MovesFit'
    BY <1>0, <2>1, BearingsKept DEF MovePart, MovesFit, Bearings
  <2>3. CommitFits'
    BY <1>0, <2>1 DEF CommitFits, Uncommitted, Displaced, Bearings
  <2>4. HandsFit' /\ LoopsFit' /\ RollbackFits'
    BY <1>0, <2>1 DEF HandsFit, LoopsFit, RollbackFits, MigratingPc, RollingPc, Bearings
  <2> QED BY <2>1, <2>2, <2>3, <2>4, CourseFits DEF MovePart
<1>3. CASE BeginMigrate
  <2>1. /\ Bearings /\ UNCHANGED <<backup, attempt, accounts, at, moved, isolated>>
        /\ pc' = "migrate" /\ todo = {} /\ todo' = Stored /\ rows' = accounts
    BY <1>3 DEF BeginMigrate, files, Bearings
  <2>2. MovesFit'
    BY <1>0, <2>1, BearingsKept DEF MovePart, MovesFit, Bearings, MigratingPc
  <2>3. CommitFits'
    BY <1>0, <2>1 DEF CommitFits, Uncommitted, Displaced, Bearings
  <2>4. HandsFit' /\ RollbackFits'
    BY <1>0, <2>1 DEF HandsFit, RollbackFits, MigratingPc, RollingPc, Bearings
  <2>5. LoopsFit'
    <3>1. Stored = WasStored /\ accounts = before.accounts
      BY <1>0 DEF Uncommitted, Stored, WasStored
    <3>2. \A e \in WasNormal : e \in todo'
      BY <2>1, <3>1 DEF WasNormal
    <3>3. rows' = [e \in Email |-> IF e \in todo' THEN before.accounts[e] ELSE SealedRows[e]]
      <4>1. accounts \in Table
        BY <1>0 DEF MigrationTypeOK
      <4>2. accounts = [e \in Email |-> accounts[e]]
        BY <4>1 DEF Table
      <4>3. \A e \in Email : e \notin WasStored => SealedRows[e] = None /\ accounts[e] = None
        BY <3>1 DEF SealedRows, WasStored
      <4> QED BY <2>1, <3>1, <4>2, <4>3
    <3>4. \A n \in manifest.orphans : ~ Exists(InUserData(n))
      BY <1>0, <2>1 DEF MovePart, LoopsFit
    <3>5. /\ manifest' = manifest /\ before' = before
          /\ \A n : Exists(InUserData(n))' <=> Exists(InUserData(n))
      BY <2>1 DEF Bearings, Exists, InUserData
    <3>6. WasStored' = WasStored /\ WasNormal' = WasNormal /\ SealedRows' = SealedRows
      BY <2>1, BearingsKept
    <3> QED BY <2>1, <3>1, <3>2, <3>3, <3>4, <3>5, <3>6 DEF LoopsFit
  <2> QED BY <2>1, <2>2, <2>3, <2>4, <2>5, CourseFits DEF MovePart
<1> QED BY <1>1, <1>2, <1>3

LEMMA MigrateAccountFits ==
  ASSUME MoveIInv, NEW e \in Email, MigrateAccount(e)
  PROVE  MovePart'
<1>. USE DEF MoveIInv
<1>. DEFINE old == InUserData(e)
<1>1. PICK new : new = InUserData(manifest.ids[e])
  OBVIOUS
<1>2. /\ MigrationTypeOK /\ ProfilesApart /\ pc = "migrate" /\ pc \in MigratingPc
      /\ manifest # None /\ Uncommitted /\ ManifestFits
      /\ e \in todo /\ todo \subseteq WasStored /\ todo' = todo \ {e}
      /\ rows' = [rows EXCEPT ![e] = Migrated(rows[e], manifest.ids[e])]
      /\ rows[e] = before.accounts[e]
      /\ pc' = "migrate" /\ Bearings /\ UNCHANGED <<backup, attempt, accounts, isolated>>
  BY DEF MigrateAccount, MigrationIInv, MovePart, HandsFit, CommitFits, LoopsFit, MigratingPc,
         files, Bearings
<1>3. Renames(old, new) /\ Displaces(old, new)
  BY <1>1, <1>2, TypedManifest DEF Renames, Displaces
<1>4. /\ HandsFit' /\ RollbackFits'
      /\ \A q, p : Renames(q, p)' <=> Renames(q, p)
      /\ \A q, p : Isolates(q, p)' <=> Isolates(q, p)
  BY <1>2, BearingsKept DEF MovePart, HandsFit, RollbackFits, MigratingPc, RollingPc, Bearings
<1>5. rows' = [x \in Email |-> IF x \in todo' THEN before.accounts[x] ELSE SealedRows[x]]
  <2>1. rows = [x \in Email |-> IF x \in todo THEN before.accounts[x] ELSE SealedRows[x]]
    BY <1>2 DEF MovePart, LoopsFit
  <2>2. SealedRows[e] = Migrated(rows[e], manifest.ids[e])
    BY <1>2 DEF SealedRows
  <2> QED BY <1>2, <2>1, <2>2
<1>6. ASSUME \A n \in manifest.orphans : ~ Exists(InUserData(n))',
             \A x \in WasNormal : Exists(InUserData(x))' => x \in todo'
      PROVE  LoopsFit'
  <2>1. WasStored' = WasStored /\ WasNormal' = WasNormal /\ SealedRows' = SealedRows
        /\ manifest' = manifest /\ before' = before
    BY <1>2, BearingsKept DEF Bearings
  <2> QED BY <1>2, <1>5, <1>6, <2>1 DEF LoopsFit
<1>7. /\ \A n \in manifest.orphans, c \in Name : at[c] # InUserData(n)
      /\ \A x \in WasNormal, c \in Name : at[c] = InUserData(x) => x \in todo
  BY <1>2 DEF MovePart, LoopsFit, Exists
<1>8. CASE before.accounts[e].normal /\ Exists(old)
  <2>1. PICK d \in Name :
          /\ at[d] = old /\ MoveTo(d, new)
          /\ moved' = moved \cup {[dir |-> d, from |-> old, to |-> new]}
    BY <1>1, <1>2, <1>8 DEF MigrateAccount
  <2>2. ~ Displaced(d) /\ at[d] = before.at[d]
    BY <1>2, <1>3, <2>1, NotDisplacedYet DEF Uncommitted
  <2>3. /\ AreasKnown' /\ Located'
        /\ at'[d] = new /\ \A c \in Name \ {d} : at'[c] = at[c]
    BY <1>2, <1>3, <2>1, MoveFits
  <2>4. MovesFit'
    <3>1. \A m \in moved \cup isolated :
            m.dir \in Name /\ m.dir # d /\ at[m.dir] = m.to /\ before.at[m.dir] = m.from
      BY <1>2, <2>2 DEF MovePart, MovesFit, Displaced, MigrationTypeOK, Move
    <3>2. \A m \in moved' \cup isolated' : at'[m.dir] = m.to /\ before.at[m.dir] = m.from
      BY <1>2, <2>1, <2>2, <2>3, <3>1
    <3>3. \A m \in moved' :
            Renames(m.from, m.to) /\ \E x \in WasNormal : m.from = InUserData(x)
      <4>1. e \in WasNormal
        BY <1>2, <1>8 DEF WasNormal
      <4> QED BY <1>2, <1>3, <2>1, <4>1 DEF MovePart, MovesFit
    <3>4. \A m \in isolated' : Isolates(m.from, m.to)
      BY <1>2 DEF MovePart, MovesFit
    <3> QED BY <1>2, <1>4, <3>2, <3>3, <3>4, BearingsKept DEF MovesFit, Bearings, InUserData
  <2>5. CommitFits'
    <3>1. ASSUME NEW c \in Name PROVE at'[c] = before.at[c] \/ Displaced(c)'
      <4>1. CASE c = d
        <5>. DEFINE m == [dir |-> d, from |-> old, to |-> new]
        <5>1. m \in moved' /\ m.dir = c
          BY <2>1, <4>1
        <5> QED BY <5>1 DEF Displaced
      <4>2. CASE c # d
        BY <1>2, <2>1, <2>3, <4>2 DEF Uncommitted, Displaced
      <4> QED BY <4>1, <4>2
    <3>2. Uncommitted'
      BY <1>2, <3>1 DEF Uncommitted, Bearings
    <3> QED BY <1>2, <3>2 DEF CommitFits
  <2>6. LoopsFit'
    <3>1. ASSUME NEW n \in manifest.orphans, NEW c \in Name PROVE at'[c] # InUserData(n)
      BY <1>1, <1>2, <1>7, <2>3, TypedManifest, NameOfPlace
    <3>2. ASSUME NEW x \in WasNormal, NEW c \in Name, at'[c] = InUserData(x) PROVE x \in todo'
      <4>1. c # d
        BY <1>1, <1>2, <2>3, <3>2, TypedManifest, NameOfPlace, MigrationAssumption
        DEF MigrationAssumption, WasNormal, WasStored
      <4>2. at[c] = InUserData(x) /\ x \in todo
        BY <1>7, <2>3, <3>2, <4>1
      <4>3. x # e
        BY <1>2, <2>1, <4>1, <4>2, NoneIsApart, Places DEF ProfilesApart, WasNormal, WasStored, Name
      <4> QED BY <1>2, <4>2, <4>3
    <3> QED BY <1>6, <3>1, <3>2 DEF Exists, InUserData
  <2> QED BY <1>2, <1>4, <2>3, <2>4, <2>5, <2>6, CourseFits DEF MovePart
<1>9. CASE ~ (before.accounts[e].normal /\ Exists(old))
  <2>1. UNCHANGED <<at, moved>>
    BY <1>1, <1>2, <1>9 DEF MigrateAccount
  <2>2. MovesFit' /\ CommitFits'
    BY <1>2, <1>4, <2>1, BearingsKept
    DEF MovePart, MovesFit, CommitFits, Uncommitted, Displaced, Bearings, InUserData
  <2>3. LoopsFit'
    <3>1. \A x \in WasNormal, c \in Name : at'[c] = InUserData(x) => x \in todo'
      BY <1>2, <1>7, <1>9, <2>1 DEF Exists, WasNormal
    <3>2. \A n \in manifest.orphans, c \in Name : at'[c] # InUserData(n)
      BY <1>7, <2>1
    <3> QED BY <1>6, <3>1, <3>2 DEF Exists, InUserData
  <2> QED BY <1>2, <1>4, <2>1, <2>2, <2>3, CourseFits DEF MovePart
<1> QED BY <1>8, <1>9

LEMMA MigrateFits ==
  ASSUME MoveIInv,
         \/ \E e \in Email : MigrateAccount(e) \/ ProfileConflict(e)
         \/ MigrateFails \/ CommitMigrate
  PROVE  MovePart'
<1>1. CASE (\E e \in Email : ProfileConflict(e)) \/ MigrateFails
  <2>1. /\ pc = "migrate" /\ pc' = "undo" /\ Bearings
        /\ UNCHANGED <<backup, attempt, accounts, at, moved, isolated>>
    BY <1>1 DEF ProfileConflict, MigrateFails, files, Bearings
  <2>2. MovesFit' /\ CommitFits' /\ HandsFit' /\ LoopsFit' /\ RollbackFits'
    BY <2>1, BearingsKept
    DEF MoveIInv, MovePart, MovesFit, CommitFits, Uncommitted, Displaced, HandsFit, LoopsFit,
        RollbackFits, Bearings, MigratingPc, RollingPc
  <2> QED BY <2>1, <2>2, CourseFits DEF MoveIInv, MovePart
<1>2. CASE CommitMigrate
  <2>1. /\ pc = "migrate" /\ pc' = "harden" /\ todo = {} /\ accounts' = rows /\ moved' = {}
        /\ Bearings /\ UNCHANGED <<backup, attempt, at, isolated>>
    BY <1>2 DEF CommitMigrate, files, Bearings
  <2>2. /\ Uncommitted /\ MovesFit /\ LoopsFit /\ manifest # None /\ MigrationTypeOK
        /\ ManifestFits /\ HandsFit
    BY <2>1 DEF MoveIInv, MovePart, CommitFits, HandsFit, MigratingPc, MigrationIInv
  <2>3. accounts' = SealedRows
    <3>1. rows = [e \in Email |-> IF e \in todo THEN before.accounts[e] ELSE SealedRows[e]]
      BY <2>1, <2>2 DEF LoopsFit
    <3>2. SealedRows = [e \in Email |-> SealedRows[e]]
      BY DEF SealedRows
    <3> QED BY <2>1, <3>1, <3>2
  <2>4. ASSUME NEW d \in Name PROVE (Treated(d) \/ Displaced(d))'
    <3>1. CASE at[d] = before.at[d]
      <4>1. \A e \in WasNormal : at[d] # InUserData(e)
        BY <2>1, <2>2 DEF LoopsFit, Exists
      <4>2. at'[d] = before'.at[d] /\ \A e \in WasNormal' : before'.at[d] # InUserData(e)
        BY <2>1, <3>1, <4>1, BearingsKept DEF Bearings
      <4> QED BY <4>2 DEF Treated, InUserData
    <3>2. ASSUME NEW m \in moved, m.dir = d PROVE Treated(d)'
      <4>1. /\ at[d] = m.to /\ before.at[d] = m.from /\ Renames(m.from, m.to)
            /\ \E x \in WasNormal : m.from = InUserData(x)
        BY <2>1, <2>2, <3>2 DEF MovesFit, MigratingPc
      <4>2. PICK e \in WasNormal :
              before.at[d] = InUserData(e) /\ at[d] = InUserData(manifest.ids[e])
        <5>1. PICK e \in WasStored :
                before.at[d] = InUserData(e) /\ at[d] = InUserData(manifest.ids[e])
          BY <2>2, <4>1, TypedManifest DEF Renames
        <5>2. PICK x \in WasNormal : before.at[d] = InUserData(x)
          BY <4>1
        <5>3. x = e
          BY <5>1, <5>2, NameOfPlace
        <5> QED BY <5>1, <5>2, <5>3
      <4>3. /\ e \in WasNormal' /\ before'.at[d] = InUserData(e)
            /\ at'[d] = InUserData(manifest'.ids[e])
        BY <2>1, <4>2, BearingsKept DEF Bearings
      <4> QED BY <4>3 DEF Treated, InUserData
    <3>3. ASSUME NEW m \in isolated, m.dir = d PROVE Displaced(d)'
      BY <2>1, <3>3 DEF Displaced
    <3> QED BY <2>2, <3>1, <3>2, <3>3 DEF Uncommitted, Displaced
  <2>5. Committed'
    <3>1. accounts' = SealedRows' /\ moved' = {}
      BY <2>1, <2>3, BearingsKept
    <3> QED BY <2>4, <3>1 DEF Committed
  <2>6. MovesFit'
    BY <2>1, <2>2, BearingsKept DEF MovesFit, Bearings, MigratingPc
  <2>7. LoopsFit'
    <3>1. \A n \in manifest.orphans : ~ Exists(InUserData(n))
      BY <2>1, <2>2 DEF LoopsFit
    <3> QED BY <2>1, <3>1 DEF LoopsFit, Exists, InUserData, Bearings
  <2>8. CommitFits' /\ HandsFit' /\ RollbackFits'
    BY <2>1, <2>2, <2>5 DEF CommitFits, HandsFit, RollbackFits, MigratingPc, RollingPc, Bearings
  <2> QED BY <2>1, <2>6, <2>7, <2>8, CourseFits DEF MoveIInv, MovePart
<1> QED BY <1>1, <1>2, MigrateAccountFits

LEMMA TypedBefore ==
  ASSUME MigrationTypeOK, NEW e \in WasStored
  PROVE  /\ before.accounts[e] \in Row /\ e \in Email /\ e \in Name
         /\ before.accounts[e].profile \in ProfileId \cup {None}
         /\ e \notin WasNormal =>
              ~ before.accounts[e].sealed /\ before.accounts[e].profile = None
<1>1. before.accounts[e] \in Row /\ e \in Email
  BY DEF MigrationTypeOK, Storage, Table, WasStored
<1> QED BY <1>1 DEF Row, Name, WasNormal

(* What a commit has made of a row. *)
LEMMA CommittedRows ==
  ASSUME MigrationTypeOK, ManifestFits, manifest # None, Committed, NEW e \in WasStored
  PROVE  /\ e \in Stored
         /\ e \in WasNormal => /\ accounts[e].sealed /\ accounts[e].profile = manifest.ids[e]
                               /\ Home(accounts, e) = InUserData(manifest.ids[e])
         /\ e \notin WasNormal => /\ ~ accounts[e].sealed /\ accounts[e].profile = None
                                  /\ Home(accounts, e) = InUserData(e)
<1>1. /\ accounts[e] = Migrated(before.accounts[e], manifest.ids[e])
      /\ before.accounts[e] \in Row /\ manifest.ids[e] \in ProfileId /\ e \in Email
  BY TypedManifest, TypedBefore DEF Committed, SealedRows
<1>2. e \in Stored /\ manifest.ids[e] # None
  BY <1>1, MigratedRow, NoneIsApart DEF Stored, Name
<1>3. CASE e \in WasNormal
  <2>1. accounts[e].sealed /\ accounts[e].profile = manifest.ids[e]
    BY <1>1, <1>3, MigratedRow DEF WasNormal
  <2> QED BY <1>2, <1>3, <2>1 DEF Home
<1>4. CASE e \notin WasNormal
  <2>1. accounts[e] = before.accounts[e]
    BY <1>1, <1>4, MigratedRow DEF WasNormal
  <2> QED BY <1>2, <1>4, <2>1, TypedBefore DEF Home
<1> QED BY <1>3, <1>4

(* Once it has committed, a migration has kept every profile. *)
LEMMA CommitKeepsProfiles ==
  ASSUME MigrationTypeOK, MovesFit, ManifestFits, manifest # None, pc \in MigratingPc, Committed
  PROVE  \A e \in Email, d \in Name :
           before.accounts[e] # None /\ before.at[d] = Home(before.accounts, e)
             => accounts[e] # None /\ at[d] = Home(accounts, e)
<1>. SUFFICES ASSUME NEW e \in Email, NEW d \in Name, before.accounts[e] # None,
                     before.at[d] = Home(before.accounts, e)
              PROVE  accounts[e] # None /\ at[d] = Home(accounts, e)
  OBVIOUS
<1>1. e \in WasStored /\ manifest.ids[e] \in ProfileId /\ accounts[e] # None
  BY TypedManifest, CommittedRows DEF WasStored, Stored
<1>2. PICK x : /\ before.at[d] = InUserData(x)
               /\ before.accounts[e].profile # None => x = manifest.ids[e]
               /\ before.accounts[e].profile = None => x = e
  <2>1. CASE before.accounts[e].profile # None
    <3>1. manifest.ids[e] = before.accounts[e].profile
      BY <1>1, <2>1 DEF ManifestFits
    <3>2. before.at[d] = InUserData(manifest.ids[e])
      BY <2>1, <3>1 DEF Home
    <3> QED BY <2>1, <3>2
  <2>2. CASE before.accounts[e].profile = None
    <3>1. before.at[d] = InUserData(e)
      BY <2>2 DEF Home
    <3> QED BY <2>2, <3>1
  <2> QED BY <2>1, <2>2
<1>3. ~ Displaced(d)
  <2>1. ASSUME NEW m \in isolated, m.dir = d PROVE FALSE
    <3>1. PICK n \in manifest.orphans : before.at[d] = InUserData(n)
      BY <2>1 DEF MovesFit, Isolates
    <3>2. n = x
      <4>1. InUserData(n) = InUserData(x)
        BY <1>2, <3>1
      <4> QED BY <4>1, NameOfPlace
    <3> QED BY <1>1, <1>2, <3>2, TypedManifest
  <2> QED BY <2>1 DEF Displaced, Committed
<1>4. Treated(d)
  BY <1>3 DEF Committed
<1>5. ASSUME NEW y \in WasNormal, before.at[d] = InUserData(y) PROVE y = x
  <2>1. InUserData(y) = InUserData(x)
    BY <1>2, <1>5
  <2> QED BY <2>1, NameOfPlace
<1>6. CASE before.accounts[e].profile # None
  <2>1. x \in ProfileId /\ \A y \in WasNormal : x # y
    BY <1>1, <1>2, <1>6, MigrationAssumption DEF MigrationAssumption, WasNormal, WasStored
  <2>2. at[d] = InUserData(manifest.ids[e])
    BY <1>2, <1>4, <1>5, <1>6, <2>1 DEF Treated
  <2>3. e \in WasNormal
    BY <1>1, <1>6, TypedBefore
  <2> QED BY <1>1, <2>2, <2>3, CommittedRows
<1>7. CASE before.accounts[e].profile = None /\ e \in WasNormal
  <2>1. at[d] = InUserData(manifest.ids[e])
    BY <1>2, <1>4, <1>5, <1>7 DEF Treated
  <2> QED BY <1>1, <1>7, <2>1, CommittedRows
<1>8. CASE before.accounts[e].profile = None /\ e \notin WasNormal
  <2>1. at[d] = InUserData(e)
    BY <1>2, <1>4, <1>5, <1>8 DEF Treated
  <2> QED BY <1>1, <1>8, <2>1, CommittedRows
<1> QED BY <1>6, <1>7, <1>8

(* What has left its place without being displaced is a profile now. *)
LEMMA TreatedIsRenamed ==
  ASSUME MigrationTypeOK, ManifestFits, manifest # None, Committed,
         NEW d \in Name, Treated(d), at[d] # before.at[d]
  PROVE  Renamed(d)
<1>1. PICK e \in WasNormal :
        before.at[d] = InUserData(e) /\ at[d] = InUserData(manifest.ids[e])
  BY DEF Treated
<1>2. e \in WasStored
  BY DEF WasNormal
<1> QED BY <1>1, <1>2, CommittedRows DEF Renamed

LEMMA HardenFits ==
  ASSUME MoveIInv, Harden
  PROVE  MovePart'
<1>1. /\ pc = "harden" /\ pc' = "verify" /\ Bearings /\ Committed /\ LoopsFit
      /\ UNCHANGED <<backup, attempt, accounts, at, moved, isolated>>
  BY DEF MoveIInv, MovePart, CommitFits, Harden, files, local, Bearings
<1>2. \A c \in Name : (Treated(c) => Treated(c)') /\ (Displaced(c) => Displaced(c)')
  BY <1>1, BearingsKept DEF Treated, Displaced, Bearings, InUserData
<1>3. Committed'
  BY <1>1, <1>2, BearingsKept DEF Committed, Bearings
<1>4. LoopsFit'
  BY <1>1 DEF LoopsFit, Exists, InUserData, Bearings
<1>5. MovesFit' /\ CommitFits' /\ HandsFit' /\ RollbackFits'
  BY <1>1, <1>3, BearingsKept
  DEF MoveIInv, MovePart, MovesFit, CommitFits, HandsFit, RollbackFits, Bearings, InUserData,
      MigratingPc, RollingPc
<1> QED BY <1>1, <1>4, <1>5, CourseFits DEF MoveIInv, MovePart

(* When every row is found sealed, every one was normal, and every directory *)
(* has been renamed or isolated.                                            *)
LEMMA SealedLeaveNoAddress ==
  ASSUME MoveIInv, pc = "verify", \A e \in Stored : accounts[e].sealed,
         NEW d \in Name, at[d] # None, at[d].area = 0
  PROVE  at[d].name \in {accounts[e].profile : e \in Stored} \ {None}
<1>1. /\ MigrationTypeOK /\ MovesFit /\ ManifestFits /\ manifest # None
      /\ pc \in MigratingPc /\ Committed /\ LoopsFit
  BY DEF MoveIInv, MigrationIInv, MovePart, HandsFit, CommitFits, MigratingPc
<1>2. \A e \in WasStored : /\ e \in Stored /\ e \in WasNormal
                           /\ accounts[e].profile = manifest.ids[e] /\ manifest.ids[e] # None
  BY <1>1, CommittedRows, TypedManifest, NoneIsApart DEF Name
<1>3. ~ Displaced(d)
  <2>1. ASSUME NEW m \in isolated, m.dir = d PROVE FALSE
    <3>1. m.to = at[d] /\ Isolates(m.from, m.to)
      BY <1>1, <2>1 DEF MovesFit
    <3>2. m.to.area = manifest.area
      BY <3>1 DEF Isolates
    <3>3. manifest.area # 0
      BY <1>1, TypedManifest
    <3> QED BY <3>1, <3>2, <3>3
  <2> QED BY <1>1, <2>1 DEF Displaced, Committed
<1>4. CASE \E e \in WasNormal : at[d] = InUserData(manifest.ids[e])
  BY <1>2, <1>4, NameOfPlace DEF WasNormal
<1>5. CASE at[d] = before.at[d] /\ \A e \in WasNormal : before.at[d] # InUserData(e)
  <2>1. PICK n \in Name : at[d] = InUserData(n)
    BY <1>1, NameOfPlace DEF MigrationTypeOK, Place
  <2>2. n \notin WasStored
    BY <1>2, <1>5, <2>1
  <2>3. n \notin manifest.orphans
    BY <1>1, <2>1 DEF LoopsFit, Exists
  <2>4. PICK e \in WasStored : before.accounts[e].profile = n
    BY <1>1, <1>5, <2>1, <2>2, <2>3 DEF ManifestFits
  <2>5. manifest.ids[e] = n
    BY <1>1, <2>4, NoneIsApart DEF ManifestFits
  <2> QED BY <1>2, <2>1, <2>5, NameOfPlace
<1> QED BY <1>1, <1>3, <1>4, <1>5 DEF Committed, Treated

(* The last look at the rows undoes nothing, whatever it finds. *)
LEMMA VerifyFits ==
  ASSUME MoveIInv, Verify \/ VerifyFails
  PROVE  MovePart'
<1>1. /\ MigrationTypeOK /\ MovesFit /\ ManifestFits /\ manifest # None
      /\ pc = "verify" /\ pc \in MigratingPc /\ Committed /\ manifest.area = attempt
      /\ UNCHANGED <<accounts, at, files, attempt, before>>
  BY DEF Verify, VerifyFails, MoveIInv, MigrationIInv, MovePart, HandsFit, CommitFits, MigratingPc
<1>2. PICK r \in {"migrated", "unverified"} :
        End(r) /\ (r = "migrated" => \A e \in Stored : accounts[e].sealed)
  BY DEF Verify, VerifyFails
<1>3. pc' = "rest" /\ outcome' = r
  BY <1>2 DEF End
<1>4. MigrationKeepsProfiles'
  BY <1>1, CommitKeepsProfiles DEF MigrationKeepsProfiles, Home
<1>5. NoAddressOnDisk'
  BY <1>1, <1>2, <1>3, SealedLeaveNoAddress DEF NoAddressOnDisk, Stored
<1>6. ASSUME NEW d \in Name, at[d] # before.at[d] PROVE Renamed(d) \/ SetAside(d)
  <2>1. CASE Treated(d)
    BY <1>1, <1>6, <2>1, TreatedIsRenamed
  <2>2. ASSUME NEW m \in isolated, m.dir = d PROVE SetAside(d)
    <3>1. PICK n \in manifest.orphans :
            before.at[d] = InUserData(n) /\ at[d] = [area |-> attempt, name |-> n]
      BY <1>1, <2>2 DEF MovesFit, Isolates
    <3>2. Stored = WasStored
      <4>1. \A e \in Email : e \notin WasStored => accounts[e] = None
        BY <1>1 DEF Committed, SealedRows
      <4> QED BY <1>1, <4>1, CommittedRows DEF Stored, WasStored
    <3>3. n \in Name /\ n \notin Known
      BY <1>1, <3>2, CommittedRows, TypedManifest, NoneIsApart DEF Known
    <3> QED BY <3>1, <3>3 DEF SetAside
  <2> QED BY <1>1, <2>1, <2>2 DEF Committed, Displaced
<1>7. FailedMigrationUndone'
  <2>1. r # "failed" /\ UNCHANGED <<accounts, at, attempt, before>>
    BY <1>1, <1>2
  <2>2. \A d \in Name : (Renamed(d) => Renamed(d)') /\ (SetAside(d) => SetAside(d)')
    BY <2>1 DEF Renamed, SetAside, Known, Stored, Home, InUserData
  <2>3. \A d \in Name : at'[d] # before'.at[d] => Renamed(d)' \/ SetAside(d)'
    BY <1>6, <2>1, <2>2
  <2> QED BY <1>3, <2>1, <2>3 DEF FailedMigrationUndone
<1>8. Results'
  BY <1>2, <1>3, <1>4, <1>5, <1>7 DEF Results, RollbackRestores
<1> QED BY <1>1, <1>2, <1>8, EndFits

(* The origin of a move is free as long as the move is not undone. *)
LEMMA OriginIsFree ==
  ASSUME MoveIInv, pc \in {"undo", "unquarantine"}, NEW m \in moved \cup isolated
  PROVE  /\ ~ Exists(m.from) /\ m.dir \in Name
         /\ at[m.dir] = m.to /\ before.at[m.dir] = m.from
         /\ Displaces(m.from, m.to)
         /\ \A l \in moved \cup isolated : l # m => l.dir # m.dir
<1>1. /\ MigrationTypeOK /\ ManifestFits /\ manifest # None /\ BeforeApart /\ MovesFit
      /\ pc \in MigratingPc /\ (Uncommitted \/ Committed)
  BY DEF MoveIInv, MigrationIInv, MovePart, HandsFit, CommitFits, MigratingPc
<1>2. \A l \in moved \cup isolated :
        /\ l \in Move /\ l.dir \in Name
        /\ at[l.dir] = l.to /\ before.at[l.dir] = l.from /\ Displaces(l.from, l.to)
  BY <1>1 DEF MovesFit, Displaces, MigrationTypeOK, Move
<1>3. ASSUME NEW c \in Name, at[c] = m.from PROVE FALSE
  <2>1. ~ Displaced(c)
    BY <1>1, <1>2, <1>3, MovesPair DEF Displaced
  <2>2. CASE at[c] = before.at[c]
    <3>1. c = m.dir
      <4>1. m.from \in Place /\ before.at[c] = before.at[m.dir] /\ m.dir \in Name
        BY <1>1, <1>2, <1>3, <2>2, MovesPair
      <4> QED BY <1>1, <1>2, <1>3, <2>2, <4>1, NoneIsApart DEF BeforeApart
    <3> QED BY <1>1, <1>2, <1>3, <3>1, MovesPair
  <2>3. CASE \E e \in WasNormal :
               before.at[c] = InUserData(e) /\ at[c] = InUserData(manifest.ids[e])
    <3>1. Displaces(before.at[c], at[c])
      BY <1>1, <2>3, TypedManifest DEF Displaces, Renames, WasNormal, WasStored
    <3> QED BY <1>1, <1>2, <1>3, <3>1, MovesPair
  <2> QED BY <1>1, <2>1, <2>2, <2>3 DEF Uncommitted, Committed, Treated
<1>4. ASSUME NEW l \in moved \cup isolated, l.dir = m.dir PROVE l = m
  <2>1. l.to = m.to /\ l.from = m.from
    BY <1>2, <1>4
  <2> QED BY <1>2, <1>4, <2>1 DEF Move
<1> QED BY <1>2, <1>3, <1>4 DEF Exists

LEMMA UndoMoveFits ==
  ASSUME MoveIInv, UndoMove \/ RestoreOrphan
  PROVE  MovePart'
<1>. USE DEF MoveIInv
<1>1. /\ MigrationTypeOK /\ MovesFit /\ ManifestFits /\ manifest # None /\ HandsFit
      /\ pc \in {"undo", "unquarantine"} /\ pc \in MigratingPc /\ pc' = pc
      /\ pc = "undo" => Uncommitted
      /\ pc = "unquarantine" => Uncommitted \/ Committed
      /\ Bearings /\ UNCHANGED <<backup, attempt, accounts>>
  BY DEF UndoMove, RestoreOrphan, MigrationIInv, MovePart, HandsFit, CommitFits, MigratingPc, files,
         Bearings
<1>2. PICK m \in moved \cup isolated :
        /\ Undo(m)
        /\ moved' \subseteq moved /\ isolated' \subseteq isolated
        /\ m \notin moved' \cup isolated'
        /\ \A l \in moved \cup isolated : l # m => l \in moved' \cup isolated'
  <2>1. moved \cap isolated = {}
    <3>. SUFFICES ASSUME NEW l \in moved \cap isolated PROVE FALSE
      OBVIOUS
    <3>1. Renames(l.from, l.to) /\ Isolates(l.from, l.to)
      BY <1>1 DEF MovesFit
    <3>2. PICK e \in WasStored : l.from = InUserData(e)
      BY <1>1, <3>1, TypedManifest DEF Renames
    <3>3. PICK n \in manifest.orphans : l.from = InUserData(n)
      BY <3>1 DEF Isolates
    <3>4. e = n
      <4>1. InUserData(e) = InUserData(n)
        BY <3>2, <3>3
      <4> QED BY <4>1, NameOfPlace
    <3> QED BY <1>1, <3>4, TypedManifest
  <2>2. CASE UndoMove
    BY <2>1, <2>2 DEF UndoMove
  <2>3. CASE RestoreOrphan
    BY <2>1, <2>3 DEF RestoreOrphan
  <2> QED BY <2>2, <2>3
<1>3. /\ ~ Exists(m.from) /\ m.dir \in Name
      /\ at[m.dir] = m.to /\ before.at[m.dir] = m.from
      /\ Displaces(m.from, m.to)
      /\ \A l \in moved \cup isolated : l # m => l.dir # m.dir
  BY <1>1, OriginIsFree
<1>4. /\ AreasKnown' /\ Located'
      /\ at'[m.dir] = m.from /\ \A c \in Name \ {m.dir} : at'[c] = at[c]
  <2>1. MoveTo(m.dir, m.from)
    BY <1>2, <1>3 DEF Undo
  <2> QED BY <1>1, <1>3, <2>1, MoveFits
<1>5. ASSUME NEW c \in Name, c # m.dir, Displaced(c) PROVE Displaced(c)'
  <2>1. PICK l \in moved \cup isolated : l.dir = c
    BY <1>5 DEF Displaced
  <2>2. l \in moved' \cup isolated'
    BY <1>2, <1>5, <2>1
  <2> QED BY <2>1, <2>2 DEF Displaced
<1>6. MovesFit'
  <2>1. ASSUME NEW l \in moved' \cup isolated'
        PROVE  at'[l.dir] = l.to /\ before.at[l.dir] = l.from
    <3>1. l \in moved \cup isolated /\ l # m
      BY <1>2
    <3>2. l.dir \in Name /\ l.dir # m.dir
      BY <1>1, <1>3, <3>1 DEF MigrationTypeOK, Move
    <3> QED BY <1>1, <1>4, <3>1, <3>2 DEF MovesFit
  <2>2. /\ \A l \in moved' :
             Renames(l.from, l.to) /\ \E e \in WasNormal : l.from = InUserData(e)
        /\ \A l \in isolated' : Isolates(l.from, l.to)
    BY <1>1, <1>2 DEF MovesFit
  <2> QED BY <1>1, <2>1, <2>2, BearingsKept DEF MovesFit, Bearings, InUserData
<1>7. CASE Uncommitted
  <2>1. \A c \in Name : at'[c] = before.at[c] \/ Displaced(c)'
    BY <1>3, <1>4, <1>5, <1>7 DEF Uncommitted
  <2>2. CommitFits'
    BY <1>1, <1>7, <2>1 DEF CommitFits, Uncommitted, Bearings
  <2>3. HandsFit' /\ LoopsFit' /\ RollbackFits'
    BY <1>1, <1>2 DEF HandsFit, LoopsFit, RollbackFits, MigratingPc, RollingPc, Bearings
  <2> QED BY <1>1, <1>4, <1>6, <2>2, <2>3, CourseFits DEF MovePart
<1>8. CASE pc = "unquarantine" /\ Committed
  <2>1. m \in isolated /\ moved' = {}
    BY <1>2, <1>8 DEF Committed
  <2>2. PICK n \in manifest.orphans : m.from = InUserData(n)
    BY <1>1, <2>1 DEF MovesFit, Isolates
  <2>3. \A e \in WasNormal : m.from # InUserData(e)
    <3>. SUFFICES ASSUME NEW e \in WasNormal, m.from = InUserData(e) PROVE FALSE
      OBVIOUS
    <3>1. InUserData(e) = InUserData(n)
      BY <2>2
    <3> QED BY <1>1, <3>1, NameOfPlace, TypedManifest DEF WasNormal
  <2>4. ASSUME NEW c \in Name PROVE (Treated(c) \/ Displaced(c))'
    <3>1. CASE c = m.dir
      <4>1. at'[c] = before'.at[c] /\ \A e \in WasNormal' : before'.at[c] # InUserData(e)
        BY <1>1, <1>3, <1>4, <2>3, <3>1, BearingsKept DEF Bearings
      <4> QED BY <4>1 DEF Treated, InUserData
    <3>2. CASE c # m.dir /\ Displaced(c)
      BY <1>5, <3>2
    <3>3. CASE c # m.dir /\ Treated(c)
      <4>1. \/ \E e \in WasNormal' : /\ before'.at[c] = InUserData(e)
                                     /\ at'[c] = InUserData(manifest'.ids[e])
            \/ at'[c] = before'.at[c] /\ \A e \in WasNormal' : before'.at[c] # InUserData(e)
        BY <1>1, <1>4, <3>3, BearingsKept DEF Bearings, Treated
      <4> QED BY <4>1 DEF Treated, InUserData
    <3> QED BY <1>8, <3>1, <3>2, <3>3 DEF Committed
  <2>5. Committed'
    BY <1>1, <1>8, <2>1, <2>4, BearingsKept DEF Committed
  <2>6. CommitFits'
    BY <1>1, <1>8, <2>5 DEF CommitFits
  <2>7. HandsFit' /\ LoopsFit' /\ RollbackFits'
    BY <1>1, <1>2 DEF HandsFit, LoopsFit, RollbackFits, MigratingPc, RollingPc, Bearings
  <2> QED BY <1>1, <1>4, <1>6, <2>6, <2>7, CourseFits DEF MovePart
<1> QED BY <1>1, <1>7, <1>8

LEMMA UndoEndsFits ==
  ASSUME MoveIInv, UndoEnds \/ HardenFails
  PROVE  MovePart'
<1>1. /\ pc \in {"undo", "harden"} /\ pc' = "unquarantine" /\ Bearings
      /\ UNCHANGED <<backup, attempt, accounts, at, moved, isolated>>
      /\ Uncommitted \/ Committed
  BY DEF MoveIInv, MovePart, CommitFits, UndoEnds, HardenFails, files, local, Bearings
<1>2. \A c \in Name : (Treated(c) => Treated(c)') /\ (Displaced(c) => Displaced(c)')
  BY <1>1, BearingsKept DEF Treated, Displaced, Bearings, InUserData
<1>3. Uncommitted' \/ Committed'
  BY <1>1, <1>2, BearingsKept DEF Uncommitted, Committed, Bearings
<1>4. MovesFit' /\ CommitFits' /\ HandsFit' /\ LoopsFit' /\ RollbackFits'
  BY <1>1, <1>3, BearingsKept
  DEF MoveIInv, MovePart, MovesFit, CommitFits, HandsFit, LoopsFit, RollbackFits, Bearings,
      MigratingPc, RollingPc
<1> QED BY <1>1, <1>4, CourseFits DEF MoveIInv, MovePart

LEMMA RestoreOrphansEndsFits ==
  ASSUME MoveIInv, RestoreOrphansEnds
  PROVE  MovePart'
<1>1. /\ MigrationTypeOK /\ MovesFit /\ ManifestFits /\ manifest # None
      /\ pc = "unquarantine" /\ pc \in MigratingPc /\ (Uncommitted \/ Committed)
      /\ UNCHANGED <<accounts, at, files, attempt, before>>
      /\ End(IF moved \cup isolated = {} THEN "failed" ELSE "stuck")
  BY DEF RestoreOrphansEnds, MoveIInv, MigrationIInv, MovePart, HandsFit, CommitFits, MigratingPc
<1>2. CASE moved \cup isolated # {}
  BY <1>1, <1>2, EndFits
<1>3. CASE moved \cup isolated = {}
  <2>1. pc' = "rest" /\ outcome' = "failed" /\ End("failed")
    BY <1>1, <1>3 DEF End
  <2>2. \A d \in Name : ~ Displaced(d)
    BY <1>3 DEF Displaced
  <2>3. ASSUME NEW d \in Name, Treated(d), Committed, at[d] # before.at[d]
        PROVE  Renamed(d)
    BY <1>1, <2>3, TreatedIsRenamed
  <2>4. MigrationKeepsProfiles'
    <3>1. CASE Uncommitted
      BY <1>1, <2>1, <2>2, <3>1 DEF Uncommitted, MigrationKeepsProfiles, Home
    <3>2. CASE Committed
      BY <1>1, <2>1, <3>2, CommitKeepsProfiles DEF MigrationKeepsProfiles, Home
    <3> QED BY <1>1, <3>1, <3>2
  <2>5. FailedMigrationUndone'
    <3>1. CASE Uncommitted
      BY <1>1, <2>1, <2>2, <3>1 DEF Uncommitted, FailedMigrationUndone
    <3>2. CASE Committed
      <4>1. \A d \in Name : at[d] # before.at[d] => Renamed(d)
        BY <2>2, <2>3, <3>2 DEF Committed
      <4> QED BY <1>1, <2>1, <4>1 DEF FailedMigrationUndone, Renamed, Stored, Home
    <3> QED BY <1>1, <3>1, <3>2
  <2>6. Results'
    BY <2>1, <2>4, <2>5 DEF Results, NoAddressOnDisk, RollbackRestores
  <2> QED BY <1>1, <2>1, <2>6, EndFits
<1> QED BY <1>2, <1>3

LEMMA PlanRollbackFits ==
  ASSUME MoveIInv, PlanRollback
  PROVE  MovePart'
<1>. DEFINE plan == ProfilesToMove \cup OrphansToMove
<1>1. /\ MigrationTypeOK /\ ManifestFits /\ manifest # None /\ pc = "rest"
      /\ moved = {} /\ isolated = {}
      /\ UNCHANGED <<accounts, at, files, attempt, before>>
  BY DEF PlanRollback, MoveIInv, MigrationIInv, MovePart, HandsFit, MigratingPc, RollingPc
<1>2. CASE \E m \in plan : Exists(m.to)
  BY <1>1, <1>2, EndFits DEF PlanRollback
<1>3. CASE ~ \E m \in plan : Exists(m.to)
  <2>1. /\ pc' = "move_back" /\ planned' = plan /\ UNCHANGED <<moved, isolated>>
        /\ Bearings /\ UNCHANGED backup
    BY <1>3 DEF PlanRollback, files, Bearings
  <2>2. ASSUME NEW m \in plan PROVE at[m.dir] = m.from /\ Displaces(m.to, m.from)
    <3>1. CASE m \in ProfilesToMove
      BY <3>1 DEF ProfilesToMove, Displaces, Renames
    <3>2. CASE m \in OrphansToMove
      BY <3>2 DEF OrphansToMove, Displaces, Isolates
    <3> QED BY <3>1, <3>2
  <2>3. ASSUME NEW d \in Name, NEW q \in Place, Displaces(q, at[d])
        PROVE  \E m \in plan : m.dir = d
    <3>. DEFINE m == [dir |-> d, from |-> at[d], to |-> q]
    <3>1. m \in Move /\ m.dir = d /\ m.from = at[d] /\ m.to = q
      BY <1>1, <2>3, MovesPair DEF Move
    <3>. HIDE DEF m
    <3>2. m \in plan
      BY <2>3, <3>1 DEF Displaces, Renames, Isolates, ProfilesToMove, OrphansToMove
    <3> QED BY <3>1, <3>2
  <2>4. RollbackFits'
    <3>1. \A m \in planned' : at'[m.dir] = m.from /\ Displaces(m.to, m.from)'
      BY <1>1, <2>1, <2>2, BearingsKept
    <3>2. \A d \in Name : Astray(d)' => \E m \in planned' : m.dir = d
      BY <1>1, <2>1, <2>3, BearingsKept DEF Astray
    <3> QED BY <1>1, <2>1, <3>1, <3>2 DEF RollbackFits
  <2>5. MovesFit' /\ CommitFits' /\ HandsFit' /\ LoopsFit'
    BY <1>1, <2>1 DEF MovesFit, CommitFits, HandsFit, LoopsFit, MigratingPc, RollingPc, Bearings
  <2> QED BY <1>1, <2>1, <2>4, <2>5, CourseFits DEF MoveIInv, MovePart
<1> QED BY <1>2, <1>3

LEMMA MoveBackFits ==
  ASSUME MoveIInv, MoveBack
  PROVE  MovePart'
<1>. USE DEF MoveIInv
<1>1. /\ MigrationTypeOK /\ ManifestFits /\ manifest # None /\ RollbackFits /\ HandsFit
      /\ pc = "move_back" /\ pc' = "move_back" /\ pc \in RollingPc /\ Bearings
      /\ UNCHANGED <<backup, attempt, accounts, isolated>>
  BY DEF MoveBack, MigrationIInv, MovePart, HandsFit, RollingPc, files, Bearings
<1>2. PICK m \in planned : /\ planned' = planned \ {m} /\ moved' = moved \cup {m}
                           /\ MoveTo(m.dir, m.to)
  BY DEF MoveBack
<1>3. /\ \A l \in planned : /\ l \in Move /\ l.dir \in Name
                            /\ at[l.dir] = l.from /\ Displaces(l.to, l.from)
      /\ \A l \in moved : /\ l \in Move /\ l.dir \in Name
                          /\ at[l.dir] = l.to /\ Displaces(l.to, l.from)
  BY <1>1 DEF RollbackFits, MigrationTypeOK, Move
<1>4. /\ AreasKnown' /\ Located'
      /\ at'[m.dir] = m.to /\ \A c \in Name \ {m.dir} : at'[c] = at[c]
  BY <1>1, <1>2, <1>3, MoveFits
<1>5. ASSUME NEW l \in moved PROVE l.dir # m.dir
  BY <1>1, <1>3, MovesPair
<1>6. ASSUME NEW l \in planned, l.dir = m.dir PROVE l = m
  <2>1. l.from = m.from /\ l.to = m.to
    BY <1>1, <1>3, <1>6, MovesPair
  <2> QED BY <1>3, <1>6, <2>1 DEF Move
<1>7. \A l \in moved' : at'[l.dir] = l.to /\ Displaces(l.to, l.from)'
  BY <1>1, <1>2, <1>3, <1>4, <1>5, BearingsKept
<1>8. \A l \in planned' : at'[l.dir] = l.from /\ Displaces(l.to, l.from)'
  BY <1>1, <1>2, <1>3, <1>4, <1>6, BearingsKept
<1>9. ASSUME NEW d \in Name, NEW q \in Place, Displaces(q, at'[d])
      PROVE  \E l \in planned' : l.dir = d
  <2>1. d # m.dir
    BY <1>1, <1>3, <1>4, <1>9, MovesPair
  <2>2. Astray(d)
    BY <1>4, <1>9, <2>1 DEF Astray
  <2>3. PICK l \in planned : l.dir = d
    BY <1>1, <2>2 DEF RollbackFits
  <2> QED BY <1>2, <2>1, <2>3
<1>10. RollbackFits'
  <2>1. \A d \in Name : Astray(d)' => \E l \in planned' : l.dir = d
    BY <1>1, <1>9, BearingsKept DEF Astray
  <2> QED BY <1>1, <1>7, <1>8, <2>1 DEF RollbackFits
<1>11. MovesFit' /\ CommitFits' /\ HandsFit' /\ LoopsFit'
  BY <1>1 DEF MovesFit, CommitFits, HandsFit, LoopsFit, MigratingPc, RollingPc, Bearings
<1> QED BY <1>1, <1>4, <1>10, <1>11, CourseFits DEF MovePart

LEMMA RollingOnFits ==
  ASSUME MoveIInv, MoveBackEnds \/ RollbackFails
  PROVE  MovePart'
<1>1. /\ pc \in RollingPc /\ Bearings
      /\ UNCHANGED <<backup, attempt, accounts, at, moved, planned, isolated>>
      /\ \/ pc' = "restore_moves"
         \/ pc = "move_back" /\ pc' = "database" /\ planned = {}
  BY DEF MoveBackEnds, RollbackFails, RollingPc, files, local, Bearings
<1>2. RollbackFits /\ HandsFit
  BY DEF MoveIInv, MovePart
<1>3. \A d \in Name : Astray(d)' <=> Astray(d)
  BY <1>1, BearingsKept DEF Astray
<1>4. RollbackFits'
  BY <1>1, <1>2, <1>3, BearingsKept DEF RollbackFits, RollingPc
<1>5. MovesFit' /\ CommitFits' /\ HandsFit' /\ LoopsFit'
  BY <1>1, <1>2 DEF MovesFit, CommitFits, HandsFit, LoopsFit, MigratingPc, RollingPc, Bearings
<1> QED BY <1>1, <1>4, <1>5, CourseFits DEF MoveIInv, MovePart

LEMMA RestoreDatabaseFits ==
  ASSUME MoveIInv, RestoreDatabase
  PROVE  MovePart'
<1>1. /\ MigrationTypeOK /\ ManifestFits /\ manifest # None /\ Located
      /\ \A d \in Name : ~ Astray(d)
      /\ backup = before.accounts /\ accounts' = backup
      /\ End("rolled_back") /\ UNCHANGED <<at, files, attempt, before>>
  BY DEF RestoreDatabase, MoveIInv, MigrationIInv, MovePart, HandsFit, RollbackFits, RollingPc,
     BackupFits, Prepared
<1>2. ASSUME NEW d \in Name,
             \A e \in Email : before.accounts[e] # None /\ before.accounts[e].profile # None
               => before.at[d] # Home(before.accounts, e),
             at[d] # before.at[d]
      PROVE  FALSE
  <2>1. ~ Displaces(before.at[d], at[d])
    BY <1>1, MovesPair DEF Astray
  <2>2. Displaces(at[d], before.at[d])
    BY <1>1, <1>2, <2>1 DEF Located
  <2>3. before.at[d] # None /\ before.at[d].area < manifest.area
    BY <1>1, <2>2, MovesPair, NoneIsApart DEF ManifestFits
  <2>4. ~ Isolates(at[d], before.at[d])
    <3>1. manifest.area \in Int
      BY <1>1, TypedManifest DEF Area
    <3>2. ASSUME Isolates(at[d], before.at[d]) PROVE before.at[d].area = manifest.area
      BY <3>2 DEF Isolates
    <3> QED BY <2>3, <3>1, <3>2
  <2>5. PICK e \in WasStored : before.at[d] = InUserData(manifest.ids[e])
    BY <1>1, <2>2, <2>4, TypedManifest DEF Displaces, Renames
  <2>6. CASE before.accounts[e].profile # None
    BY <1>1, <1>2, <2>5, <2>6 DEF ManifestFits, Home, WasStored
  <2>7. CASE before.accounts[e].profile = None
    BY <1>1, <2>3, <2>5, <2>7, NameOfPlace DEF ManifestFits
  <2> QED BY <2>6, <2>7
<1>3. pc' = "rest" /\ outcome' = "rolled_back"
  BY <1>1 DEF End
<1>4. RollbackRestores'
  BY <1>1, <1>2 DEF RollbackRestores, Home
<1>5. Results'
  BY <1>3, <1>4 DEF Results, MigrationKeepsProfiles, FailedMigrationUndone, NoAddressOnDisk
<1> QED BY <1>1, <1>5, EndFits

LEMMA RestoreMoveFits ==
  ASSUME MoveIInv, RestoreMove
  PROVE  MovePart'
<1>. USE DEF MoveIInv
<1>1. /\ MigrationTypeOK /\ ManifestFits /\ manifest # None /\ RollbackFits /\ HandsFit
      /\ AreasKnown /\ Located
      /\ pc = "restore_moves" /\ pc' = "restore_moves" /\ pc \in RollingPc /\ Bearings
      /\ UNCHANGED <<backup, attempt, accounts, isolated>>
  BY DEF RestoreMove, MigrationIInv, MovePart, HandsFit, RollingPc, files, Bearings
<1>2. PICK m \in moved : moved' = moved \ {m} /\ Undo(m)
  BY DEF RestoreMove
<1>3. \A l \in moved : /\ l \in Move /\ l.dir \in Name
                       /\ at[l.dir] = l.to /\ Displaces(l.to, l.from)
  BY <1>1 DEF RollbackFits, MigrationTypeOK, Move
<1>4. /\ AreasKnown' /\ Located' /\ \A c \in Name \ {m.dir} : at'[c] = at[c]
  <2>1. CASE Exists(m.from)
    BY <1>1, <1>2, <2>1, CourseFits DEF Undo, MovePart
  <2>2. CASE ~ Exists(m.from)
    BY <1>1, <1>2, <1>3, <2>2, MoveFits DEF Undo
  <2> QED BY <2>1, <2>2
<1>5. ASSUME NEW l \in moved, l.dir = m.dir PROVE l = m
  <2>1. l.to = m.to /\ l.from = m.from
    BY <1>1, <1>3, <1>5, MovesPair
  <2> QED BY <1>3, <1>5, <2>1 DEF Move
<1>6. \A l \in moved' : at'[l.dir] = l.to /\ Displaces(l.to, l.from)'
  BY <1>1, <1>2, <1>3, <1>4, <1>5, BearingsKept
<1>7. RollbackFits'
  BY <1>1, <1>6 DEF RollbackFits
<1>8. MovesFit' /\ CommitFits' /\ HandsFit' /\ LoopsFit'
  BY <1>1 DEF MovesFit, CommitFits, HandsFit, LoopsFit, MigratingPc, RollingPc, Bearings
<1> QED BY <1>1, <1>4, <1>7, <1>8, CourseFits DEF MovePart

LEMMA RollbackAndCrashFit ==
  ASSUME MoveIInv, Rollback \/ Crash
  PROVE  MovePart'
<1>1. CASE RestoreMovesEnds
  BY <1>1, EndFits DEF RestoreMovesEnds
<1>2. CASE Crash
  BY <1>2, EndFits DEF Crash
<1> QED BY <1>1, <1>2, PlanRollbackFits, MoveBackFits, RollingOnFits, RestoreDatabaseFits,
           RestoreMoveFits DEF Rollback

(* Nothing has been moved when the first script starts. *)
LEMMA MoveStarts ==
  ASSUME MigrationInit
  PROVE  MovePart
<1>. USE DEF MigrationInit
<1>1. PICK present \in SUBSET Name :
        at = [n \in Name |-> IF n \in present THEN InUserData(n) ELSE None]
  OBVIOUS
<1>2. pc = "rest" /\ outcome = "none" /\ manifest = None /\ backup = None
      /\ moved = {} /\ isolated = {} /\ attempt = 0 /\ before.at = at
  OBVIOUS
<1>3. AreasKnown
  BY <1>1, <1>2, NameOfPlace DEF AreasKnown
<1>4. BeforeApart
  BY <1>2, MigrationStarts DEF MigrationIInv, ProfilesApart, BeforeApart
<1>5. Results
  BY <1>2 DEF Results, MigrationKeepsProfiles, FailedMigrationUndone, NoAddressOnDisk,
              RollbackRestores
<1>6. ManifestFits /\ BackupFits /\ PlanFits /\ HandsFit /\ MovesFit /\ CommitFits /\ LoopsFit
      /\ Located /\ RollbackFits
  BY <1>2 DEF ManifestFits, BackupFits, PlanFits, HandsFit, MovesFit, CommitFits, LoopsFit,
              Located, RollbackFits, MigratingPc, RollingPc
<1> QED BY <1>3, <1>4, <1>5, <1>6 DEF MovePart

LEMMA MoveStutters ==
  ASSUME MovePart, UNCHANGED migrationVars
  PROVE  MovePart'
<1>1. /\ Bearings /\ UNCHANGED <<accounts, at, backup, pc, rows, todo, planned, moved, isolated>>
      /\ UNCHANGED <<attempt, outcome>>
  BY DEF migrationVars, Bearings
<1>2. /\ AreasKnown' /\ BeforeApart' /\ BackupFits' /\ HandsFit' /\ Results'
  BY <1>1 DEF MovePart, Bearings, AreasKnown, BeforeApart, BackupFits, HandsFit, Results,
     MigrationKeepsProfiles, FailedMigrationUndone, NoAddressOnDisk, RollbackRestores,
     Renamed, SetAside, Home, Known, Stored
<1>3. PlanFits'
  BY <1>1 DEF MovePart, Bearings, PlanFits, Orphans, Known, Stored, Exists
<1>4. ManifestFits' /\ Located' /\ MovesFit'
  BY <1>1, BearingsKept DEF MovePart, Bearings, ManifestFits, Located, MovesFit
<1>5. CommitFits'
  <2>1. Uncommitted' <=> Uncommitted
    BY <1>1 DEF Bearings, Uncommitted, Displaced
  <2>2. Committed' <=> Committed
    <3>1. ASSUME NEW d PROVE Treated(d)' <=> Treated(d)
      BY <1>1, BearingsKept DEF Bearings, Treated, InUserData
    <3>2. ASSUME NEW d PROVE Displaced(d)' <=> Displaced(d)
      BY <1>1 DEF Displaced
    <3> QED BY <1>1, <3>1, <3>2, BearingsKept DEF Committed
  <2> QED BY <1>1, <2>1, <2>2 DEF MovePart, CommitFits
<1>6. LoopsFit'
  BY <1>1, BearingsKept DEF MovePart, Bearings, LoopsFit, Exists, InUserData
<1>7. RollbackFits'
  BY <1>1, BearingsKept DEF MovePart, RollbackFits, Astray
<1> QED BY <1>2, <1>3, <1>4, <1>5, <1>6, <1>7 DEF MovePart

(* MoveIInv is inductive. *)
THEOREM MoveInvariant ==
  MigrationSpec => []MoveIInv
<1>1. MigrationInit => MoveIInv
  BY MigrationStarts, MoveStarts DEF MoveIInv
<1>2. ASSUME MoveIInv, MigrationIInv', [MigrationNext]_migrationVars PROVE MoveIInv'
  <2>1. CASE UNCHANGED migrationVars
    BY <1>2, <2>1, MoveStutters DEF MoveIInv
  <2>2. CASE MigrationNext
    BY <1>2, <2>2, PreparationFits, QuarantineFits, MigrateFits, HardenFits, VerifyFits,
       UndoMoveFits, UndoEndsFits, RestoreOrphansEndsFits, RollbackAndCrashFit
    DEF MigrationNext, Migrate, MoveIInv
  <2> QED BY <1>2, <2>1, <2>2
<1> QED BY <1>1, <1>2, MigrationInvariant, PTL DEF MigrationSpec

(* A migration that ends, committed or undone, has kept every account its    *)
(* browser profile: at the name its row now points at (main's try block,    *)
(* migrate and its except clause).                                         *)
THEOREM ProfilesAreKept ==
  MigrationSpec => []MigrationKeepsProfiles
BY MoveInvariant, PTL DEF MoveIInv, MovePart, Results

(* A migration that fails within its try block has put back every directory  *)
(* except the profiles of accounts whose rows were committed before it       *)
(* failed (migrate's except clause, restore_quarantine).  One that fails    *)
(* after it, in its last look at the rows, has put back nothing: apart from  *)
(* those profiles, it has moved the orphans to its quarantine.              *)
THEOREM FailuresAreUndone ==
  MigrationSpec => []FailedMigrationUndone
BY MoveInvariant, PTL DEF MoveIInv, MovePart, Results

(* After a migration that reports success every directory in user_data is    *)
(* named by the uuid of an account (quarantine_orphans, migrate).           *)
THEOREM AddressesAreGone ==
  MigrationSpec => []NoAddressOnDisk
BY MoveInvariant, PTL DEF MoveIInv, MovePart, Results

(* A rollback that reports success restores the rows and the directories of  *)
(* the backup, whatever died or failed since (move_profiles_back,           *)
(* restore_database).                                                       *)
THEOREM RollbacksRestore ==
  MigrationSpec => []RollbackRestores
BY MoveInvariant, PTL DEF MoveIInv, MovePart, Results
=============================================================================
