---------------------------- MODULE ProfileSweep ----------------------------
(***************************************************************************)
(* The sweep of browser profiles (main.py, sweep_orphan_profiles) among    *)
(* what creates, uses and removes profiles: deposits, runs, confirmations  *)
(* and deletions.  The sweep is a thread of the web process; it takes one  *)
(* look at the locks, one at each of two tables and one at the directory,  *)
(* while requests and the worker go on.                                    *)
(*                                                                         *)
(* A profile stands for its account and its pending credential: an account *)
(* has one profile, a deposit for it uses that one, and any other deposit   *)
(* draws a new one.  What a run does with its account is left to the other *)
(* modules, as are the account's queues.                                   *)
(***************************************************************************)
EXTENDS FiniteSets

CONSTANTS Profile

VARIABLES
  row,       \* the tables that name a profile
  run,       \* where the run is that uses it
  lock,      \* profiles whose account has its task_lock
  dirs,      \* directories of a profile: in user_data, in trash, in old trash
  sweep,     \* stage of the sweep
  known,     \* what _known_profile_ids has read so far
  todo,      \* directories still to be moved
  disturbed  \* history: profiles, out of those it may still move, that requests have
             \* dealt with since its check; or all, if a SELECT of it has failed

sweepVars == <<row, run, lock, dirs, sweep, known, todo, disturbed>>
peopleVars == <<row, run, lock, dirs>>
jobVars == <<sweep, known, todo>>

Table == {"pending", "accounts"}
RunStage == {"none", "created", "queued", "running"}
SweepStage == {"idle", "accounts", "pending", "list", "move"}
Dir == {"user_data", "trash", "old"}

(* Every variable has its type; nothing is left to move when the sweep is over. *)
SweepTypeOK ==
  /\ row \in [Profile -> SUBSET Table]
  /\ run \in [Profile -> RunStage]
  /\ lock \subseteq Profile
  /\ dirs \in [Profile -> SUBSET Dir]
  /\ sweep \in SweepStage
  /\ known \subseteq Profile
  /\ todo \subseteq (IF sweep = "move" THEN Profile ELSE {})
  /\ disturbed \subseteq
       (CASE sweep = "idle" -> {} [] sweep = "move" -> todo [] OTHER -> Profile)

SweepInit ==
  /\ row = [p \in Profile |-> {}]
  /\ run = [p \in Profile |-> "none"]
  /\ lock = {}
  /\ dirs = [p \in Profile |-> {}]
  /\ sweep = "idle"
  /\ known = {} /\ todo = {}
  /\ disturbed = {}

----------------------------------------------------------------------------
Disturbs(p) ==
  disturbed' = disturbed \cup (IF sweep = "idle" \/ (sweep = "move" /\ p \notin todo)
                               THEN {} ELSE {p})

(* deposit: the pending credential first, then the lock, then the queue.  A *)
(* profile that is not an account's is a new one.                          *)
DepositProfile(p) ==
  /\ row[p] = {"accounts"} \/ (row[p] = {} /\ dirs[p] = {})
  /\ run[p] = "none"
  /\ row' = [row EXCEPT ![p] = @ \cup {"pending"}]
  /\ run' = [run EXCEPT ![p] = "created"]
  /\ Disturbs(p)
  /\ UNCHANGED <<lock, dirs, jobVars>>

(* A claim run of an account is created. *)
CreateClaim(p) ==
  /\ "accounts" \in row[p] /\ run[p] = "none"
  /\ run' = [run EXCEPT ![p] = "created"]
  /\ Disturbs(p)
  /\ UNCHANGED <<row, lock, dirs, jobVars>>

(* _enqueue_task, or the worker's dispatch of a scheduled run. *)
LockAndQueue(p) ==
  /\ run[p] = "created"
  /\ run' = [run EXCEPT ![p] = "queued"]
  /\ lock' = lock \cup {p}
  /\ Disturbs(p)
  /\ UNCHANGED <<row, dirs, jobVars>>

(* main_loop takes the run, and takes its lock again. *)
TakeRun(p) ==
  /\ run[p] = "queued"
  /\ run' = [run EXCEPT ![p] = "running"]
  /\ lock' = lock \cup {p}
  /\ Disturbs(p)
  /\ UNCHANGED <<row, dirs, jobVars>>

(* The browser writes its profile. *)
UseProfile(p) ==
  /\ run[p] = "running"
  /\ dirs' = [dirs EXCEPT ![p] = @ \cup {"user_data"}]
  /\ UNCHANGED <<row, run, lock, jobVars, disturbed>>

(* reset_profile_for_retry, before the run is queued again under its lock. *)
ResetProfile(p) ==
  /\ run[p] = "running"
  /\ run' = [run EXCEPT ![p] = "queued"]
  /\ dirs' = [dirs EXCEPT ![p] = @ \ {"user_data"}]
  /\ UNCHANGED <<row, lock, jobVars, disturbed>>

(* update_task to failed or manual_required drops the pending credential   *)
(* before the run has ended, and any deposit drops one that has expired.   *)
DropPending(p) ==
  /\ "pending" \in row[p]
  /\ row' = [row EXCEPT ![p] = @ \ {"pending"}]
  /\ UNCHANGED <<run, lock, dirs, jobVars, disturbed>>

(* The account has its lock already, or the run could not be queued. *)
RejectRun(p) ==
  /\ run[p] = "created"
  /\ run' = [run EXCEPT ![p] = "none"]
  /\ UNCHANGED <<row, lock, dirs, jobVars, disturbed>>

(* The finally clause of main_loop, and its except clause for a run that    *)
(* could not be started.                                                   *)
EndRun(p) ==
  /\ run[p] \in {"queued", "running"}
  /\ run' = [run EXCEPT ![p] = "none"]
  /\ lock' = lock \ {p}
  /\ UNCHANGED <<row, dirs, jobVars, disturbed>>

(* confirm_pending_account saves the profile, unless the account exists and *)
(* keeps its own (COALESCE).  The run has succeeded by then, but main_loop  *)
(* may not have come to its finally clause yet.                            *)
ConfirmProfile(p) ==
  /\ "pending" \in row[p] /\ run[p] \in {"running", "none"}
  /\ \E kept \in {{}, {"accounts"}} :
       row' = [row EXCEPT ![p] = (@ \ {"pending"}) \cup kept]
  /\ Disturbs(p)
  /\ UNCHANGED <<run, lock, dirs, jobVars>>

(* _perform_physical_delete: the row, the directory and the lock, also when *)
(* a run is in flight.                                                     *)
DeleteProfile(p) ==
  /\ "accounts" \in row[p]
  /\ row' = [row EXCEPT ![p] = @ \ {"accounts"}]
  /\ dirs' = [dirs EXCEPT ![p] = @ \ {"user_data"}]
  /\ lock' = lock \ {p}
  /\ UNCHANGED <<run, jobVars, disturbed>>

People(p) ==
  \/ DepositProfile(p) \/ CreateClaim(p) \/ LockAndQueue(p) \/ TakeRun(p) \/ UseProfile(p)
  \/ ResetProfile(p) \/ DropPending(p) \/ RejectRun(p) \/ EndRun(p) \/ ConfirmProfile(p)
  \/ DeleteProfile(p)

----------------------------------------------------------------------------
(* Mutated form: only the queue is looked at. *)
TasksQueued == \E p \in Profile : run[p] = "queued"

TasksInFlight == lock # {} \/ \E p \in Profile : run[p] = "queued"

(* With a task in flight the whole round is skipped. *)
StartSweep ==
  /\ sweep = "idle"
  /\ ~ TasksInFlight
  /\ sweep' = "accounts"
  /\ UNCHANGED <<peopleVars, known, todo, disturbed>>

(* One SELECT of _known_profile_ids.  An error of SQLite is suppressed, and *)
(* the table counts as empty.                                              *)
ReadTable(table, next) ==
  /\ sweep = table
  /\ sweep' = next
  /\ \/ /\ known' = known \cup {p \in Profile : table \in row[p]}
        /\ UNCHANGED disturbed
     \/ /\ disturbed' = Profile
        /\ UNCHANGED known
  /\ UNCHANGED <<peopleVars, todo>>

ListProfiles ==
  /\ sweep = "list"
  /\ sweep' = "move"
  /\ todo' = {p \in Profile : "user_data" \in dirs[p]} \ known
  /\ known' = {}
  /\ disturbed' = disturbed \cap todo'
  /\ UNCHANGED peopleVars

(* A directory that is gone, or cannot be moved, stays out of it. *)
MoveToTrash(p) ==
  /\ sweep = "move"
  /\ p \in todo
  /\ todo' = todo \ {p}
  /\ dirs' = [dirs EXCEPT ![p] = IF "user_data" \in @
                                 THEN (@ \ {"user_data"}) \cup {"trash"} ELSE @]
  /\ disturbed' = disturbed \ {p}
  /\ UNCHANGED <<row, run, lock, sweep, known>>

(* Mutated form: the trash is left alone. *)
KeepTrash ==
  /\ sweep = "move"
  /\ todo = {}
  /\ sweep' = "idle"
  /\ UNCHANGED <<peopleVars, known, todo, disturbed>>

(* When all are moved, what has been in the trash for long enough is gone.  *)
PurgeTrash ==
  /\ sweep = "move"
  /\ todo = {}
  /\ sweep' = "idle"
  /\ dirs' = [p \in Profile |-> dirs[p] \ {"old"}]
  /\ UNCHANGED <<row, run, lock, known, todo, disturbed>>

(* PROFILE_TRASH_RETENTION_DAYS pass. *)
TrashAges ==
  /\ \E p \in Profile : "trash" \in dirs[p]
  /\ dirs' = [p \in Profile |-> IF "trash" \in dirs[p]
                                THEN (dirs[p] \ {"trash"}) \cup {"old"} ELSE dirs[p]]
  /\ UNCHANGED <<row, run, lock, jobVars, disturbed>>

Sweep ==
  \/ ReadTable("accounts", "pending") \/ ReadTable("pending", "list")
  \/ ListProfiles \/ (\E p \in Profile : MoveToTrash(p)) \/ PurgeTrash

SweepNext == (\E p \in Profile : People(p)) \/ StartSweep \/ Sweep \/ TrashAges

SweepSpec == SweepInit /\ [][SweepNext]_sweepVars

(* A sweep that has begun goes on, and time passes. *)
SweepFairness == WF_sweepVars(Sweep) /\ WF_sweepVars(TrashAges)

FairSweepSpec == SweepSpec /\ SweepFairness

----------------------------------------------------------------------------
(* A row names the profile, or a run that holds its lock uses it. *)
InUse(p) == row[p] # {} \/ (run[p] # "none" /\ p \in lock)

(* The sweep takes a profile in use only if a request dealt with it after   *)
(* the sweep's look at the locks, or a SELECT failed.  In particular the    *)
(* run of a failed verification, whose pending credential is gone already,  *)
(* keeps its profile until it has ended.                                   *)
SweepSparesProfiles ==
  [][\A p \in Profile : MoveToTrash(p) /\ "user_data" \in dirs[p] /\ InUse(p)
       => p \in disturbed]_sweepVars

Leftover(p) == dirs[p] # {} /\ row[p] = {} /\ run[p] = "none"

(* A profile that nothing refers to any more, with the login of its user,   *)
(* is gone in the end, if ever again a sweep finds no task in flight.       *)
LeftoversGo ==
  []<><<StartSweep>>_sweepVars => \A p \in Profile : Leftover(p) ~> dirs[p] = {} \/ InUse(p)
=============================================================================
