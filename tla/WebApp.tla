------------------------------- MODULE WebApp -------------------------------
(***************************************************************************)
(* The web process (main.py): request handlers running in a thread pool    *)
(* and the promotion refresh job.  A handler is cut wherever another       *)
(* process can act between two of its database transactions or Redis       *)
(* commands.  Requests that change nothing (a wrong password, a busy       *)
(* account, an unknown token) take no step.                                *)
(***************************************************************************)
EXTENDS RedisQueues

CONSTANTS
  Thread,       \* bound: handlers in flight at the same time
  MaxDeposits   \* bound: verify runs users ask for

VARIABLES
  handler,      \* what each thread is doing, and what it has read so far
  refresh       \* the refresh job, its cycle, the runs and accounts it has read

webVars == <<handler, refresh>>

IdleHandler == [op |-> "idle", run |-> None, email |-> None]

IdleRefresh == [op |-> "idle", cycle |-> None, runs |-> {}, due |-> {}]

HandlerOp == {"idle", "enqueue", "push", "duplicate", "confirm", "save", "nuke",
              "delete", "unlock"}

RefreshOp == {"idle", "select", "cancel", "unschedule", "assign", "insert", "read",
              "persist"}

WebTypeOK ==
  /\ handler \in [Thread -> [op : HandlerOp, run : Run \cup {None},
                             email : Address \cup {None}]]
  /\ refresh \in [op : RefreshOp, cycle : Cycle \cup {None}, runs : SUBSET Run,
                  due : SUBSET Address]

WebInit ==
  /\ handler = [t \in Thread |-> IdleHandler]
  /\ refresh = IdleRefresh

Turn(t, op, r, a) ==
  handler' = [handler EXCEPT ![t] = [op |-> op, run |-> r, email |-> a]]

Done(t) == handler' = [handler EXCEPT ![t] = IdleHandler]

----------------------------------------------------------------------------
(* POST /api/deposit *)

(* The account has no lock, the password is right: a verify run is created. *)
Deposit(t, a) ==
  /\ handler[t].op = "idle"
  /\ a.removals = 0
  /\ a \notin taskLock
  /\ Cardinality({r \in TaskIds : taskRuns[r].mode = "verify"}) < MaxDeposits
  /\ \E r \in Run :
       /\ CreateTaskRun(r, a, "verify")
       /\ Turn(t, "enqueue", r, a)
  /\ UNCHANGED <<redisVars, faults, refresh>>

(* Mutated form: the lock is read and then set, without NX. *)
EnqueueTaskWithoutNX(t) ==
  /\ handler[t].op = "enqueue"
  /\ SetLock(handler[t].email)
  /\ Turn(t, "push", handler[t].run, handler[t].email)
  /\ UNCHANGED <<storeVars, faults, refresh>>

(* _enqueue_task: SET NX decides which of two concurrent deposits goes on. *)
EnqueueTask(t) ==
  /\ handler[t].op = "enqueue"
  /\ \/ /\ handler[t].email \notin taskLock
        /\ SetLock(handler[t].email)
        /\ Turn(t, "push", handler[t].run, handler[t].email)
     \/ /\ handler[t].email \in taskLock
        /\ Turn(t, "duplicate", handler[t].run, handler[t].email)
        /\ UNCHANGED redisVars
  /\ UNCHANGED <<storeVars, faults, refresh>>

(* The run goes to the queue. *)
PushTask(t) ==
  /\ handler[t].op = "push"
  /\ RPush(handler[t].run)
  /\ Done(t)
  /\ UNCHANGED <<storeVars, faults, refresh>>

(* The SET or the RPUSH raises, with or without having been applied, and    *)
(* the request fails.  For the RPUSH the lock is given back, unless that    *)
(* raises too.                                                              *)
EnqueueFails(t) ==
  /\ Suffer("redis")
  /\ \/ /\ handler[t].op = "enqueue"
        /\ taskLock' \in {taskLock, taskLock \cup {handler[t].email}}
        /\ UNCHANGED taskQueue
     \/ /\ handler[t].op = "push"
        /\ taskQueue' \in {taskQueue, Append(taskQueue, handler[t].run)}
        /\ taskLock' \in {taskLock, taskLock \ {handler[t].email}}
  /\ Done(t)
  /\ UNCHANGED <<storeVars, scheduledQueue, retryQueue, retryPending, refresh>>

(* The run that lost the race is marked failed (duplicate_task). *)
RejectDuplicate(t) ==
  /\ handler[t].op = "duplicate"
  /\ SetState(handler[t].run, "failed")
  /\ Done(t)
  /\ UNCHANGED <<redisVars, faults, refresh>>

----------------------------------------------------------------------------
(* POST /api/confirm_success *)

(* task_for_token reads the run. *)
ReadSucceededRun(t, r) ==
  /\ handler[t].op = "idle"
  /\ r \in TaskIds
  /\ taskRuns[r].mode = "verify"
  /\ taskRuns[r].state = "succeeded"
  /\ pending[r] # None
  /\ Turn(t, "confirm", r, taskRuns[r].email)
  /\ UNCHANGED <<storeVars, redisVars, faults, refresh>>

(* confirm_pending_account reads its credential; an expired one is refused. *)
ReadPending(t) ==
  /\ handler[t].op = "confirm"
  /\ IF pending[handler[t].run] = "fresh"
     THEN Turn(t, "save", handler[t].run, handler[t].email)
     ELSE Done(t)
  /\ UNCHANGED <<storeVars, redisVars, faults, refresh>>

(* The account is written under the address read before. *)
SaveAccount(t) ==
  /\ handler[t].op = "save"
  /\ ConfirmPendingAccount(handler[t].run, handler[t].email)
  /\ Done(t)
  /\ UNCHANGED <<redisVars, faults, refresh>>

----------------------------------------------------------------------------
(* POST /api/delete_account and POST /api/nuke_account.  At the bound on    *)
(* removals a request is refused like one for an account that is not there. *)

CanDelete(a) == accounts[a] # None /\ a.removals < MaxRemovals

(* The user's token names the account. *)
DeleteAccount(t, a) ==
  /\ handler[t].op = "idle"
  /\ CanDelete(a)
  /\ Suffer("deletion")
  /\ Turn(t, "delete", None, a)
  /\ UNCHANGED <<storeVars, redisVars, refresh>>

(* The worker names the address itself. *)
NukeAccount(t) ==
  /\ handler[t].op = "nuke"
  /\ IF CanDelete(handler[t].email)
     THEN Turn(t, "delete", None, handler[t].email) ELSE Done(t)
  /\ UNCHANGED <<storeVars, redisVars, faults, refresh>>

(* Mutated form: only the row of accounts goes. *)
RemoveAccountRowOnly(t) ==
  /\ handler[t].op = "delete"
  /\ accounts' = [accounts EXCEPT ![handler[t].email] = None]
  /\ Turn(t, "unlock", None, handler[t].email)
  /\ UNCHANGED <<taskRuns, pending, results, assignments, completions, activeCycle,
                 redisVars, faults, refresh>>

(* _perform_physical_delete: the database first, the Redis key in a later   *)
(* step.                                                                    *)
RemoveAccount(t) ==
  /\ handler[t].op = "delete"
  /\ DeleteAccountRecord(handler[t].email)
  /\ Turn(t, "unlock", None, handler[t].email)
  /\ UNCHANGED <<redisVars, faults, refresh>>

(* r.delete(task_lock:<ref>, retry_pending:<ref>): the second key is named  *)
(* by run everywhere else, so only the lock goes.                           *)
DropLock(t) ==
  /\ handler[t].op = "unlock"
  /\ DeleteLock(handler[t].email)
  /\ Done(t)
  /\ UNCHANGED <<storeVars, faults, refresh>>

(* The DELETE raises after the records are gone. *)
DropLockFails(t) ==
  /\ handler[t].op = "unlock"
  /\ Suffer("redis")
  /\ DeleteLock(handler[t].email) \/ UNCHANGED redisVars
  /\ Done(t)
  /\ UNCHANGED <<storeVars, refresh>>

----------------------------------------------------------------------------
(* refresh_promotion_cycle, run hourly under a lock of its own: which       *)
(* cycle the stores answer with is up to them.                              *)

ActivateCycle(c) ==
  /\ refresh.op = "idle"
  /\ SetActivePromotionCycle(c)
  /\ refresh' = [IdleRefresh EXCEPT !.op = "select", !.cycle = c]
  /\ UNCHANGED <<redisVars, faults, handler>>

(* cancel_obsolete_scheduled_runs selects runs, if there are any ... *)
SelectObsolete ==
  /\ refresh.op = "select"
  /\ LET runs == ObsoleteRuns(refresh.cycle)
     IN refresh' = [refresh EXCEPT !.op = IF runs = {} THEN "assign" ELSE "cancel",
                                   !.runs = runs]
  /\ UNCHANGED <<storeVars, redisVars, faults, handler>>

(* ... updates them, and then they leave the sorted set one by one. *)
CancelObsolete ==
  /\ refresh.op = "cancel"
  /\ CancelObsoleteScheduledRuns(refresh.runs)
  /\ refresh' = [refresh EXCEPT !.op = "unschedule"]
  /\ UNCHANGED <<redisVars, faults, handler>>

UnscheduleObsolete ==
  /\ refresh.op = "unschedule"
  /\ \/ \E r \in refresh.runs :
          /\ Unschedule({r})
          /\ refresh' = [refresh EXCEPT !.runs = @ \ {r}]
     \/ /\ refresh.runs = {}
        /\ refresh' = [refresh EXCEPT !.op = "assign"]
        /\ UNCHANGED redisVars
  /\ UNCHANGED <<storeVars, faults, handler>>

(* create_cycle_assignments reads the accounts that are due ... *)
SelectDue ==
  /\ refresh.op = "assign"
  /\ activeCycle = refresh.cycle
  /\ refresh' = [refresh EXCEPT !.op = "insert", !.due = Unassigned(refresh.cycle)]
  /\ UNCHANGED <<storeVars, redisVars, faults, handler>>

(* Mutated form: only the runs created now are written to Redis. *)
AssignRunsPersistCreated ==
  /\ refresh.op = "insert"
  /\ CreateCycleAssignments(refresh.cycle, refresh.due)
  /\ refresh' = [refresh EXCEPT !.op = "persist", !.due = {},
                                !.runs = {r \in Run : taskRuns[r] # taskRuns'[r]}]
  /\ UNCHANGED <<redisVars, faults, handler>>

(* ... and inserts their runs; an account deleted meanwhile ends the job. *)
AssignRuns ==
  /\ refresh.op = "insert"
  /\ \/ /\ CreateCycleAssignments(refresh.cycle, refresh.due)
        /\ refresh' = [refresh EXCEPT !.op = "read", !.due = {}]
     \/ /\ ~ CanAssign(refresh.cycle, refresh.due)
        /\ refresh' = IdleRefresh
        /\ UNCHANGED storeVars
  /\ UNCHANGED <<redisVars, faults, handler>>

(* scheduled_cycle_runs is read in one step ... *)
ReadScheduledRuns ==
  /\ refresh.op = "read"
  /\ refresh' = [refresh EXCEPT !.op = "persist",
                                !.runs = ScheduledCycleRuns(refresh.cycle)]
  /\ UNCHANGED <<storeVars, redisVars, faults, handler>>

(* ... and _persist_scheduled_runs adds what was read in another. *)
PersistScheduledRuns ==
  /\ refresh.op = "persist"
  /\ Schedule(refresh.runs)
  /\ refresh' = IdleRefresh
  /\ UNCHANGED <<storeVars, faults, handler>>

(* Any exception ends the job, whatever it had done; a ZADD may have been   *)
(* applied.                                                                 *)
RefreshFails ==
  /\ refresh.op # "idle"
  /\ Suffer("redis")
  /\ UNCHANGED redisVars \/ (refresh.op = "persist" /\ Schedule(refresh.runs))
  /\ refresh' = IdleRefresh
  /\ UNCHANGED <<storeVars, handler>>

----------------------------------------------------------------------------
(* The container restarts the process: handlers and the job are gone. *)
WebCrash ==
  /\ Suffer("crash")
  /\ handler' = [t \in Thread |-> IdleHandler]
  /\ refresh' = IdleRefresh
  /\ UNCHANGED <<storeVars, redisVars>>

Handle(t) ==
  \/ EnqueueTask(t) \/ PushTask(t) \/ RejectDuplicate(t)
  \/ ReadPending(t) \/ SaveAccount(t)
  \/ NukeAccount(t) \/ RemoveAccount(t) \/ DropLock(t)

HandlerFails(t) == EnqueueFails(t) \/ DropLockFails(t)

Request(t) ==
  \/ \E a \in Address : Deposit(t, a) \/ DeleteAccount(t, a)
  \/ \E r \in Run : ReadSucceededRun(t, r)

RefreshStep ==
  \/ SelectObsolete \/ CancelObsolete \/ UnscheduleObsolete
  \/ SelectDue \/ AssignRuns
  \/ ReadScheduledRuns \/ PersistScheduledRuns

WebNext ==
  \/ \E t \in Thread : Handle(t) \/ Request(t) \/ HandlerFails(t)
  \/ \E c \in Cycle : ActivateCycle(c)
  \/ RefreshStep
  \/ RefreshFails
  \/ WebCrash

=============================================================================
