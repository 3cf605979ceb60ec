------------------------- MODULE ProfileSweepProofs -------------------------
(***************************************************************************)
(* The sweep spares every profile in use that was left alone since its     *)
(* look at the locks, for any set of profiles.                             *)
(*                                                                         *)
(* A profile that no request or run deals with can lose its row or its run *)
(* meanwhile, but gets no lock and enters no table: what the sweep has     *)
(* seen of it, once, stays true.                                           *)
(***************************************************************************)
EXTENDS ProfileSweep, TLAPS

Sweeping == sweep # "idle"

(* The profiles that the sweep may still move. *)
Watched == IF sweep = "move" THEN todo ELSE Profile

(* What was left alone since the look at the locks has no lock. *)
LeftAloneUnlocked == Sweeping => lock \cap Watched \subseteq disturbed

(* What was left alone and has a row is known from the table that it is in. *)
AccountsKnown ==
  sweep \in {"pending", "list"} =>
    \A p \in Profile \ disturbed : "accounts" \in row[p] => p \in known

PendingKnown ==
  sweep = "list" => \A p \in Profile \ disturbed : "pending" \in row[p] => p \in known

(* What is to be moved and was left alone has no row. *)
TodoUnnamed == sweep = "move" => \A p \in todo \ disturbed : row[p] = {}

SweepIInv ==
  /\ SweepTypeOK
  /\ LeftAloneUnlocked
  /\ AccountsKnown
  /\ PendingKnown
  /\ TodoUnnamed

LEMMA SweepInitOK == SweepInit => SweepIInv
  BY DEF SweepInit, SweepIInv, SweepTypeOK, LeftAloneUnlocked, Sweeping, AccountsKnown,
         PendingKnown, TodoUnnamed, Table, RunStage, SweepStage, Dir

----------------------------------------------------------------------------
(* What requests and runs do to a profile. *)

(* They leave the sweep alone, disturb a profile that they lock or enter    *)
(* into a table, unless it is safe already, and no profile but that one.   *)
Gently(p) ==
  /\ UNCHANGED jobVars
  /\ row' \in [Profile -> SUBSET Table] /\ run' \in [Profile -> RunStage]
  /\ lock' \subseteq Profile /\ dirs' \in [Profile -> SUBSET Dir]
  /\ disturbed' \subseteq (IF Sweeping THEN Watched ELSE {})
  /\ disturbed \subseteq disturbed'
  /\ lock' \subseteq lock \cup {p} /\ \A q \in Profile : q # p => row'[q] = row[q]
  /\ \/ Sweeping /\ p \in Watched => p \in disturbed'
     \/ lock' \subseteq lock /\ row'[p] \subseteq row[p]

LEMMA PeopleAreGentle ==
  ASSUME SweepTypeOK, NEW p \in Profile, People(p)
  PROVE  Gently(p)
<1>. USE DEF SweepTypeOK, Gently, jobVars, Disturbs, Sweeping, Watched, Table, RunStage, Dir
<1>1. CASE DepositProfile(p)
  BY <1>1 DEF DepositProfile
<1>2. CASE CreateClaim(p)
  BY <1>2 DEF CreateClaim
<1>3. CASE LockAndQueue(p)
  BY <1>3 DEF LockAndQueue
<1>4. CASE TakeRun(p)
  BY <1>4 DEF TakeRun
<1>5. CASE UseProfile(p)
  BY <1>5 DEF UseProfile
<1>6. CASE ResetProfile(p)
  BY <1>6 DEF ResetProfile
<1>7. CASE DropPending(p)
  BY <1>7 DEF DropPending
<1>8. CASE RejectRun(p)
  BY <1>8 DEF RejectRun
<1>9. CASE EndRun(p)
  BY <1>9 DEF EndRun
<1>10. CASE ConfirmProfile(p)
  BY <1>10 DEF ConfirmProfile
<1>11. CASE DeleteProfile(p)
  BY <1>11 DEF DeleteProfile
<1>. QED BY <1>1, <1>2, <1>3, <1>4, <1>5, <1>6, <1>7, <1>8, <1>9, <1>10, <1>11 DEF People

LEMMA PeopleKeep ==
  ASSUME SweepIInv, NEW p \in Profile, People(p)
  PROVE  SweepIInv'
<1>. USE DEF SweepIInv, jobVars, Sweeping, Watched
<1>1. Gently(p)
  BY PeopleAreGentle
<1>2. SweepTypeOK'
  BY <1>1 DEF Gently, SweepTypeOK
<1>3. LeftAloneUnlocked'
  BY <1>1 DEF Gently, LeftAloneUnlocked
<1>4. ASSUME Sweeping, NEW q \in Watched, q \notin disturbed'
      PROVE  q \notin disturbed /\ row'[q] \subseteq row[q]
  BY <1>1, <1>4 DEF Gently, SweepTypeOK
<1>5. AccountsKnown' /\ PendingKnown'
  BY <1>1, <1>4 DEF Gently, AccountsKnown, PendingKnown
<1>6. TodoUnnamed'
  BY <1>1, <1>4 DEF Gently, TodoUnnamed, SweepTypeOK
<1>. QED BY <1>2, <1>3, <1>5, <1>6

----------------------------------------------------------------------------
(* What the sweep does. *)

LEMMA JobKeeps ==
  ASSUME SweepIInv, StartSweep \/ Sweep \/ TrashAges
  PROVE  SweepIInv'
<1>. USE DEF SweepIInv, SweepTypeOK, LeftAloneUnlocked, AccountsKnown, PendingKnown, TodoUnnamed,
             Sweeping, Watched, peopleVars, jobVars, SweepStage, Dir
<1>1. CASE StartSweep
  BY <1>1 DEF StartSweep, TasksInFlight
<1>2. CASE ReadTable("accounts", "pending")
  BY <1>2 DEF ReadTable
<1>3. CASE ReadTable("pending", "list")
  BY <1>3 DEF ReadTable
<1>4. CASE ListProfiles
  BY <1>4 DEF ListProfiles, Table
<1>5. CASE \E p \in Profile : MoveToTrash(p)
  BY <1>5 DEF MoveToTrash
<1>6. CASE PurgeTrash
  BY <1>6 DEF PurgeTrash
<1>7. CASE TrashAges
  BY <1>7 DEF TrashAges
<1>. QED BY <1>1, <1>2, <1>3, <1>4, <1>5, <1>6, <1>7 DEF Sweep

LEMMA SweepStutter ==
  ASSUME SweepIInv, UNCHANGED sweepVars
  PROVE  SweepIInv'
  BY DEF SweepIInv, SweepTypeOK, LeftAloneUnlocked, AccountsKnown, PendingKnown, TodoUnnamed,
         Sweeping, Watched, sweepVars

(* SweepIInv is inductive. *)
THEOREM SweepInvariant == SweepSpec => []SweepIInv
<1>1. SweepIInv /\ [SweepNext]_sweepVars => SweepIInv'
  BY PeopleKeep, JobKeeps, SweepStutter DEF SweepNext
<1>. QED BY SweepInitOK, <1>1, PTL DEF SweepSpec

(* Every variable of the sweep has its type, and nothing is left to move    *)
(* when it is over.                                                        *)
THEOREM SweepTypeCorrect == SweepSpec => []SweepTypeOK
<1>1. SweepIInv => SweepTypeOK
  BY DEF SweepIInv
<1>. QED BY SweepInvariant, <1>1, PTL

(* Between the look at the locks and the move of a directory requests and   *)
(* runs may do anything: a profile in use is moved only if one of them      *)
(* dealt with it, or SQLite failed a SELECT of this sweep.                 *)
THEOREM SweepingSparesProfiles == SweepSpec => SweepSparesProfiles
<1>1. ASSUME SweepIInv, NEW p \in Profile, MoveToTrash(p), InUse(p)
      PROVE  p \in disturbed
  BY <1>1 DEF SweepIInv, LeftAloneUnlocked, TodoUnnamed, Sweeping, Watched, MoveToTrash, InUse
<1>2. SweepIInv /\ [SweepNext]_sweepVars =>
        [\A p \in Profile : MoveToTrash(p) /\ "user_data" \in dirs[p] /\ InUse(p)
           => p \in disturbed]_sweepVars
  BY <1>1
<1>. QED BY SweepInvariant, <1>2, PTL DEF SweepSpec, SweepSparesProfiles
=============================================================================
