---------------------------- MODULE SecureStore ----------------------------
(***************************************************************************)
(* The SQLite store shared by the web process and the worker               *)
(* (app/secure_store.py).  sqlite3 opens a transaction at the first write  *)
(* of a connection, so what a function SELECTs before is read outside it:  *)
(* an action here is what one transaction writes, its parameters are what  *)
(* the function has read, and what it reads is an operator of its own.     *)
(* Next lets any client write with anything it may have read at any time   *)
(* before: what is invariant here holds for every interleaving of web      *)
(* handlers, scheduler jobs and worker steps.                              *)
(*                                                                         *)
(* A row that does not exist is None.  Passwords, tokens, time stamps and  *)
(* messages are left out: a credential or a profile is named by the run    *)
(* that brought it (both are fresh random values).                         *)
(***************************************************************************)
EXTENDS Integers, FiniteSets

CONSTANTS
  User,         \* people; an e-mail address is a user and how often it was redacted
  Run,          \* run ids (uuid4 in the code, numbered in order of creation here)
  Cycle,        \* promotion cycle ids, each the hash of a set of games
  Title,        \* game titles
  Games,        \* Games[c]: the titles of cycle c
  MaxRemovals,  \* bound: how often one address is redacted
  MaxRetries,   \* bound: retries recorded in retry_data
  Written,      \* the states that clients write: TaskState, or fewer for TLC
  Reported,     \* the game states that clients report: GameState, or fewer
  None          \* SQL NULL, and "no such row"

Mode == {"verify", "claim"}

TaskState == {"scheduled", "queued", "running", "deferred",
              "succeeded", "failed", "manual_required"}

GameState == {"claimed", "owned", "failed", "deferred", "unconfirmed"}

SuccessfulGameStates == {"claimed", "owned"}

(* redacted_email gives a new address of the same user that nobody can log *)
(* in with.                                                                *)
Address == [user : User, removals : 0 .. MaxRemovals]

Redacted(a) == [a EXCEPT !.removals = @ + 1]

(* profile is the profile_id of the run's row of pending_credentials: it is *)
(* chosen with the run and never changes.                                   *)
TaskRow == [email : Address, mode : Mode, state : TaskState,
            cycle : Cycle \cup {None}, retries : 0 .. MaxRetries,
            profile : Run \cup {None}]

PendingState == {"fresh", "expired"}

AccountRow == [credential : Run, profile : Run]

ASSUME StoreAssumption ==
  /\ Run \subseteq Nat
  /\ Games \in [Cycle -> SUBSET Title]
  /\ MaxRemovals \in Nat
  /\ MaxRetries \in Nat
  /\ Written \subseteq TaskState
  /\ Reported \subseteq GameState
  /\ None \notin Run /\ None \notin Cycle /\ None \notin GameState
  /\ None \notin TaskRow /\ None \notin PendingState /\ None \notin AccountRow

VARIABLES
  taskRuns,     \* task_runs, by run id
  pending,      \* pending_credentials, by run id
  accounts,     \* accounts, by address
  results,      \* task_game_results, by run id and title
  assignments,  \* claim_cycle_assignments: the run, by address and cycle
  completions,  \* claim_cycle_completions: the run, by address and cycle
  activeCycle   \* promotion_state, the cycle the scheduler last saw

storeVars == <<taskRuns, pending, accounts, results, assignments, completions,
               activeCycle>>

(* The type invariant of the store. *)
StoreTypeOK ==
  /\ taskRuns \in [Run -> TaskRow \cup {None}]
  /\ pending \in [Run -> PendingState \cup {None}]
  /\ accounts \in [Address -> AccountRow \cup {None}]
  /\ results \in [Run -> [Title -> GameState \cup {None}]]
  /\ assignments \in [Address -> [Cycle -> Run \cup {None}]]
  /\ completions \in [Address -> [Cycle -> Run \cup {None}]]
  /\ activeCycle \in Cycle \cup {None}

StoreInit ==
  /\ taskRuns = [r \in Run |-> None]
  /\ pending = [r \in Run |-> None]
  /\ accounts = [a \in Address |-> None]
  /\ results = [r \in Run |-> [t \in Title |-> None]]
  /\ assignments = [a \in Address |-> [c \in Cycle |-> None]]
  /\ completions = [a \in Address |-> [c \in Cycle |-> None]]
  /\ activeCycle = None

TaskIds == {r \in Run : taskRuns[r] # None}

(* Run ids are handed out in order. *)
IsFresh(S) ==
  /\ S \cap TaskIds = {}
  /\ \A r \in S, q \in Run \ (S \cup TaskIds) : r < q

(* The run of address a claims cycle c: what an assignment stands for. *)
Claims(r, a, c) ==
  /\ taskRuns[r] # None
  /\ taskRuns[r].email = a
  /\ taskRuns[r].mode = "claim"
  /\ taskRuns[r].cycle = c

----------------------------------------------------------------------------
(* Credentials and task runs *)

(* create_task_run purges the expired credentials, then inserts a queued    *)
(* run and, when a password came with it, a pending credential for 24 hours *)
(* that reuses the account's profile or gets a fresh one.                   *)
CreateTaskRun(r, a, m) ==
  /\ IsFresh({r})
  /\ m = "claim" => accounts[a] # None
  /\ taskRuns' = [taskRuns EXCEPT ![r] =
       [email |-> a, mode |-> m, state |-> "queued", cycle |-> None, retries |-> 0,
        profile |-> IF m = "claim" THEN None
                    ELSE IF accounts[a] # None THEN accounts[a].profile ELSE r]]
  /\ pending' = [q \in Run |-> IF q = r /\ m = "verify" THEN "fresh"
                               ELSE IF pending[q] = "expired" THEN None
                               ELSE pending[q]]
  /\ UNCHANGED <<accounts, results, assignments, completions, activeCycle>>

(* 24 hours pass for a pending credential. *)
CredentialExpires(r) ==
  /\ pending[r] = "fresh"
  /\ pending' = [pending EXCEPT ![r] = "expired"]
  /\ UNCHANGED <<taskRuns, accounts, results, assignments, completions, activeCycle>>

(* What load_task_context finds: "expired" and "unavailable" raise          *)
(* CredentialError.                                                         *)
TaskContext(r) ==
  CASE pending[r] = "expired" -> "expired"
    [] pending[r] = "fresh" -> "ready"
    [] pending[r] = None /\ accounts[taskRuns[r].email] # None -> "ready"
    [] OTHER -> "unavailable"

(* Its only effect: an expired credential is deleted and committed. *)
LoadTaskContext(r) ==
  /\ r \in TaskIds
  /\ pending' = IF TaskContext(r) = "expired"
                THEN [pending EXCEPT ![r] = None] ELSE pending
  /\ UNCHANGED <<taskRuns, accounts, results, assignments, completions, activeCycle>>

(* Mutated form: a run that needs a person keeps its credential. *)
UpdateTaskKeepsCredential(r, s, n) ==
  /\ r \in TaskIds
  /\ taskRuns' = [taskRuns EXCEPT ![r].state = s, ![r].retries = n]
  /\ pending' = IF s = "failed" THEN [pending EXCEPT ![r] = None] ELSE pending
  /\ UNCHANGED <<accounts, results, assignments, completions, activeCycle>>

(* update_task writes the state without looking at the old one, and drops   *)
(* the credential of a run that ends in failed or manual_required.          *)
UpdateTask(r, s, n) ==
  /\ r \in TaskIds
  /\ taskRuns' = [taskRuns EXCEPT ![r].state = s, ![r].retries = n]
  /\ pending' = IF s \in {"failed", "manual_required"}
                THEN [pending EXCEPT ![r] = None] ELSE pending
  /\ UNCHANGED <<accounts, results, assignments, completions, activeCycle>>

(* A call that leaves retry_data alone. *)
SetState(r, s) == r \in TaskIds /\ UpdateTask(r, s, taskRuns[r].retries)

(* Mutated form: the upsert takes its credential from any pending row. *)
ConfirmAnyPending(r, a) ==
  /\ \E q \in Run :
       /\ pending[q] # None
       /\ accounts' = [accounts EXCEPT ![a] =
            [credential |-> q,
             profile |-> IF accounts[a] # None THEN accounts[a].profile
                         ELSE taskRuns[q].profile]]
  /\ pending' = [pending EXCEPT ![r] = None]
  /\ UNCHANGED <<taskRuns, results, assignments, completions, activeCycle>>

(* What confirm_pending_account writes after it has read the run, its       *)
(* address a and its pending credential.  (An expired credential raises,    *)
(* and the DELETE before the raise is rolled back.)                         *)
ConfirmPendingAccount(r, a) ==
  /\ accounts' = [accounts EXCEPT ![a] =
       [credential |-> r,
        profile |-> IF accounts[a] # None THEN accounts[a].profile
                    ELSE taskRuns[r].profile]]
  /\ pending' = [pending EXCEPT ![r] = None]
  /\ UNCHANGED <<taskRuns, results, assignments, completions, activeCycle>>

(* record_game_result; overwrite is FALSE when the web handler calls it. *)
RecordGameResult(r, t, g, overwrite) ==
  /\ r \in TaskIds
  /\ results' = IF overwrite \/ results[r][t] = None
                THEN [results EXCEPT ![r][t] = g] ELSE results
  /\ UNCHANGED <<taskRuns, pending, accounts, assignments, completions, activeCycle>>

----------------------------------------------------------------------------
(* Promotion cycles *)

(* set_active_promotion_cycle *)
SetActivePromotionCycle(c) ==
  /\ activeCycle' = c
  /\ UNCHANGED <<taskRuns, pending, accounts, results, assignments, completions>>

(* The scheduled runs that cancel_obsolete_scheduled_runs(c) selects: the   *)
(* join needs an assignment of another cycle.                               *)
ObsoleteRuns(c) ==
  {r \in TaskIds : /\ taskRuns[r].state = "scheduled"
                   /\ \E a \in Address, d \in Cycle \ {c} : assignments[a][d] = r}

(* Its UPDATE of the runs S that it selected, whatever they have become. *)
CancelObsoleteScheduledRuns(S) ==
  /\ taskRuns' = [r \in Run |-> IF r \in S THEN [taskRuns[r] EXCEPT !.state = "failed"]
                                ELSE taskRuns[r]]
  /\ UNCHANGED <<pending, accounts, results, assignments, completions, activeCycle>>

(* The accounts that create_cycle_assignments(c) selects. *)
Unassigned(c) ==
  {a \in Address : /\ accounts[a] # None
                   /\ assignments[a][c] = None
                   /\ completions[a][c] = None}

(* The foreign key and the primary key of claim_cycle_assignments. *)
CanAssign(c, due) ==
  \A a \in due : accounts[a] # None /\ assignments[a][c] = None

(* It gives each account it selected a scheduled claim run; one key that is *)
(* violated rolls all of them back.                                         *)
CreateCycleAssignments(c, due) ==
  /\ CanAssign(c, due)
  /\ \E f \in [due -> Run] :
       /\ \A a, b \in due : f[a] = f[b] => a = b
       /\ IsFresh({f[a] : a \in due})
       /\ taskRuns' = [r \in Run |->
            IF \E a \in due : f[a] = r
            THEN [email |-> CHOOSE a \in due : f[a] = r, mode |-> "claim",
                  state |-> "scheduled", cycle |-> c, retries |-> 0, profile |-> None]
            ELSE taskRuns[r]]
       /\ assignments' = [a \in Address |->
            IF a \in due THEN [assignments[a] EXCEPT ![c] = f[a]]
            ELSE assignments[a]]
  /\ UNCHANGED <<pending, accounts, results, completions, activeCycle>>

(* scheduled_cycle_runs: the assigned runs of cycle c that still wait. *)
ScheduledCycleRuns(c) ==
  {r \in TaskIds : /\ taskRuns[r].state = "scheduled"
                   /\ \E a \in Address : assignments[a][c] = r}

(* cycle_run_dispatch_status: KeyError, RuntimeError or the run's address.  *)
CycleRunDispatchStatus(r) ==
  IF ~ \E a \in Address, c \in Cycle : assignments[a][c] = r THEN "missing"
  ELSE IF \/ taskRuns[r].state # "scheduled"
          \/ ~ \E a \in Address : activeCycle # None /\ assignments[a][activeCycle] = r
       THEN "obsolete"
       ELSE "dispatchable"

(* task_cycle_is_active *)
TaskCycleIsActive(r) == taskRuns[r].cycle \in {None, activeCycle}

(* What mark_cycle_complete_if_ready reads: every expected title of the     *)
(* run's cycle, still the active one, is claimed or owned.  (It returns     *)
(* TRUE at once for a run without a cycle.)                                 *)
CycleReady(r) ==
  LET c == taskRuns[r].cycle
  IN c # None /\ c = activeCycle
     /\ \A t \in Games[c] : results[r][t] \in SuccessfulGameStates

(* What it writes, for the address a it has read; the foreign key needs the *)
(* account.                                                                 *)
MarkCycleComplete(r, a) ==
  LET c == taskRuns[r].cycle
  IN
  /\ accounts[a] # None
  /\ completions' = IF completions[a][c] = None
                    THEN [completions EXCEPT ![a][c] = r] ELSE completions
  /\ UNCHANGED <<taskRuns, pending, accounts, results, assignments, activeCycle>>

----------------------------------------------------------------------------
(* Deletion *)

(* Mutated form: the rows of task_runs keep the deleted address. *)
DeleteAccountKeepsRuns(a) ==
  /\ a.removals < MaxRemovals
  /\ accounts' = [accounts EXCEPT ![a] = None]
  /\ assignments' = [assignments EXCEPT ![a] = [c \in Cycle |-> None]]
  /\ completions' = [completions EXCEPT ![a] = [c \in Cycle |-> None]]
  /\ UNCHANGED <<taskRuns, pending, results, activeCycle>>

(* Mutated form: no cascade, as without PRAGMA foreign_keys. *)
DeleteAccountWithoutCascade(a) ==
  /\ a.removals < MaxRemovals
  /\ accounts' = [accounts EXCEPT ![a] = None]
  /\ taskRuns' = [r \in Run |->
       IF taskRuns[r] # None /\ taskRuns[r].email = a
       THEN [taskRuns[r] EXCEPT !.email = Redacted(a)] ELSE taskRuns[r]]
  /\ UNCHANGED <<pending, results, assignments, completions, activeCycle>>

(* delete_account_record: assignments and completions go with the account   *)
(* (ON DELETE CASCADE), the runs keep their rows under the redacted         *)
(* address, pending credentials are not touched.  That the account exists   *)
(* has been read before.                                                    *)
DeleteAccountRecord(a) ==
  /\ a.removals < MaxRemovals
  /\ accounts' = [accounts EXCEPT ![a] = None]
  /\ assignments' = [assignments EXCEPT ![a] = [c \in Cycle |-> None]]
  /\ completions' = [completions EXCEPT ![a] = [c \in Cycle |-> None]]
  /\ taskRuns' = [r \in Run |->
       IF taskRuns[r] # None /\ taskRuns[r].email = a
       THEN [taskRuns[r] EXCEPT !.email = Redacted(a)] ELSE taskRuns[r]]
  /\ UNCHANGED <<pending, results, activeCycle>>

----------------------------------------------------------------------------
(* Any client, any order.  What a client passes on is something it may have *)
(* read: an address a run has or had, runs that were scheduled for a cycle, *)
(* accounts that were there.  Only claim runs report games (deploy.py ends  *)
(* a verify run after the login).                                           *)

CycleRuns == {r \in TaskIds : taskRuns[r].cycle # None}

Confirms(r, a) ==
  /\ taskRuns[r].mode = "verify"
  /\ taskRuns[r].email.user = a.user
  /\ ConfirmPendingAccount(r, a)

Completes(r, a) ==
  /\ taskRuns[r].email.user = a.user
  /\ MarkCycleComplete(r, a)

StoreNext ==
  \/ \E r \in Run, a \in Address, m \in Mode : CreateTaskRun(r, a, m)
  \/ \E r \in Run : CredentialExpires(r)
  \/ \E r \in Run : LoadTaskContext(r)
  \/ \E r \in TaskIds, s \in Written, n \in 0 .. MaxRetries : UpdateTask(r, s, n)
  \/ \E r \in TaskIds, a \in Address : Confirms(r, a)
  \/ \E r \in TaskIds, t \in Title, g \in Reported, overwrite \in BOOLEAN :
       taskRuns[r].mode = "claim" /\ RecordGameResult(r, t, g, overwrite)
  \/ \E c \in Cycle : SetActivePromotionCycle(c)
  \/ \E S \in SUBSET CycleRuns : CancelObsoleteScheduledRuns(S)
  \/ \E c \in Cycle, due \in SUBSET Address : CreateCycleAssignments(c, due)
  \/ \E r \in CycleRuns, a \in Address : Completes(r, a)
  \/ \E a \in Address : DeleteAccountRecord(a)

StoreSpec == StoreInit /\ [][StoreNext]_storeVars

----------------------------------------------------------------------------
(* Properties *)

(* A pending credential survives only while its run can still use it: a run *)
(* that failed or was handed to a person has none (update_task,             *)
(* cancel_obsolete_scheduled_runs and create_task_run together).            *)
NoCredentialAfterFailure ==
  \A r \in TaskIds :
    pending[r] # None => taskRuns[r].state \notin {"failed", "manual_required"}

(* Whatever confirmations, deletions and re-registrations interleave, an    *)
(* account's credential and browser profile were brought by a run of the    *)
(* same user: two users never share a login state.                          *)
UserIsolation ==
  \A a \in Address : accounts[a] # None =>
    /\ taskRuns[accounts[a].credential] # None
    /\ taskRuns[accounts[a].credential].email.user = a.user
    /\ taskRuns[accounts[a].profile] # None
    /\ taskRuns[accounts[a].profile].email.user = a.user

(* An address that was never redacted has at most one claim run per cycle,  *)
(* even across deletion and re-registration, so a cycle is not claimed      *)
(* twice for one account (README: completed accounts are not claimed again  *)
(* in the same cycle).                                                      *)
OneClaimRunPerCycle ==
  \A q, r \in TaskIds, a \in Address, c \in Cycle :
    a.removals = 0 /\ Claims(q, a, c) /\ Claims(r, a, c) => q = r

(* An assignment points at the claim run of its own address and cycle, a    *)
(* completion at one of the same user and cycle, and only existing accounts *)
(* have them (the foreign keys, the cascade and the redaction of task_runs  *)
(* taken together).  A completion written by a run that read its address    *)
(* before a deletion may outlive it: its run is then redacted.              *)
ReferencesMatch ==
  \A a \in Address, c \in Cycle :
    /\ assignments[a][c] # None =>
         accounts[a] # None /\ Claims(assignments[a][c], a, c)
    /\ completions[a][c] # None =>
         /\ accounts[a] # None
         /\ taskRuns[completions[a][c]] # None
         /\ taskRuns[completions[a][c]].cycle = c
         /\ taskRuns[completions[a][c]].email.user = a.user

=============================================================================
