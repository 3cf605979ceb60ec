------------------------------- MODULE Kiosk -------------------------------
(***************************************************************************)
(* The whole kiosk: the web process, the worker, the SQLite store and the  *)
(* Redis keys they share.  Users act when they like, processes interleave  *)
(* step by step, and faults strike as often as FaultLimit allows.          *)
(***************************************************************************)
EXTENDS WebApp, Worker

kioskVars == <<storeVars, redisVars, faults, webVars, worker>>

(* Between them the two processes write every state of a run; every address *)
(* is one.                                                                 *)
ASSUME KioskAssumption == Written = TaskState /\ None \notin Address

KioskTypeOK ==
  /\ StoreTypeOK
  /\ RedisTypeOK
  /\ WebTypeOK
  /\ WorkerTypeOK

KioskInit == StoreInit /\ RedisInit /\ WebInit /\ WorkerInit

(* POST /api/nuke_account reaches a handler.  The worker waits 5 seconds    *)
(* for the answer at most, so it may go on before the handler acts.         *)
RequestNuke(t) ==
  /\ At("reject")
  /\ handler[t].op = "idle"
  /\ Suffer("deletion")
  /\ Turn(t, "nuke", None, worker.email)
  /\ GoTo("final")
  /\ UNCHANGED <<storeVars, redisVars, refresh>>

(* 24 hours pass, or the 9000 seconds of a lock. *)
TimePasses ==
  \/ \E r \in Run : Suffer("lapse") /\ CredentialExpires(r) /\ UNCHANGED redisVars
  \/ \E a \in Address : LockExpires(a) /\ UNCHANGED storeVars

KioskNext ==
  \/ WebNext /\ UNCHANGED worker
  \/ WorkerNext /\ UNCHANGED webVars
  \/ \E t \in Thread : RequestNuke(t)
  \/ TimePasses /\ UNCHANGED <<webVars, worker>>

KioskSpec == KioskInit /\ [][KioskNext]_kioskVars

(* Processes that are scheduled keep going, and the refresh job comes back  *)
(* every hour; users owe nothing.  The worker's loop empties both sorted    *)
(* sets of what is due before every BLPOP, so what keeps falling due is     *)
(* taken in the end, and so is what waits in task_queue.                    *)
KioskFairness ==
  /\ WF_kioskVars(WorkerStep /\ UNCHANGED webVars)
  /\ WF_kioskVars(RefreshStep /\ UNCHANGED worker)
  /\ WF_kioskVars((\E c \in Cycle : ActivateCycle(c)) /\ UNCHANGED worker)
  /\ \A t \in Thread : WF_kioskVars(Handle(t) /\ UNCHANGED worker)
  /\ SF_kioskVars((\E r \in Run : TakeScheduled(r)) /\ UNCHANGED webVars)
  /\ SF_kioskVars((\E r \in Run : TakeRetry(r)) /\ UNCHANGED webVars)
  /\ SF_kioskVars(PopTask /\ UNCHANGED webVars)

FairKioskSpec == KioskSpec /\ KioskFairness

----------------------------------------------------------------------------
(* Where a run is *)

(* Places of the worker's loop where it has a run that left the scheduler.  *)
Underway == WorkerPc \ {"idle", "status", "lock", "cancel", "restore"}

(* Runs on their way to, in, or out of the worker's hands.                  *)
InFlight ==
  Waiting \cup retryQueue
    \cup {handler[t].run : t \in {u \in Thread : handler[u].op = "push"}}
    \cup {r \in {worker.run} : worker.pc \in Underway}

InState(r, S) == taskRuns[r] # None /\ taskRuns[r].state \in S

(* Some queue, the worker or a handler has the run. *)
Held(r) ==
  \/ r \in InFlight
  \/ worker.run = r
  \/ \E t \in Thread : handler[t].run = r

----------------------------------------------------------------------------
(* Safety *)

(* As long as no lock outlives its TTL, no command fails, no process dies   *)
(* and no account is deleted, a run in flight holds the lock of its account *)
(* (task_lock with retry_pending: main.py _enqueue_task, worker.py          *)
(* move_due_scheduled_tasks and the finally clause of main_loop).           *)
LockCoversWork ==
  Never({"expiry", "redis", "crash", "deletion"}) =>
    \A r \in InFlight : taskRuns[r].email \in taskLock

(* One account never has two runs in flight: _enqueue_task's docstring says *)
(* it deduplicates queued and running work for one account.                 *)
DedupPerAccount ==
  \A q, r \in InFlight : taskRuns[q].email = taskRuns[r].email => q = r

(* It is so under the conditions of LockCoversWork, and then no run is      *)
(* queued twice either: nobody shares a browser profile.                    *)
OneRunPerAccount ==
  Never({"expiry", "redis", "crash", "deletion"}) =>
    /\ DedupPerAccount
    /\ \A i, j \in DOMAIN taskQueue : taskQueue[i] = taskQueue[j] => i = j
    /\ Waiting \cap retryQueue = {}

(* Unless a process dies or Redis fails, no run is forgotten: what is       *)
(* queued, running or deferred is in a queue or in somebody's hands, and so *)
(* is what is scheduled once the refresh job is through, if its account is  *)
(* not deleted meanwhile.                                                   *)
NoStrandedRun ==
  Never({"redis", "crash"}) =>
    \A r \in Run :
      /\ InState(r, {"queued", "running", "deferred"}) => Held(r)
      /\ /\ InState(r, {"scheduled"})
         /\ refresh.op = "idle"
         /\ Never({"deletion"})
         => r \in scheduledQueue \/ worker.run = r

(* A cycle is complete for an account only when every game of it is claimed *)
(* or owned, and it stays that way (mark_cycle_complete_if_ready against    *)
(* later attempts that overwrite results).                                  *)
CompletionSound ==
  Never({"redis", "crash"}) =>
    \A a \in Address, c \in Cycle : completions[a][c] # None =>
      \A t \in Games[c] : results[completions[a][c]][t] \in SuccessfulGameStates

(* Once its user has been told that a verification succeeded, nothing       *)
(* changes the verdict, so the credential stays there to be confirmed.      *)
VerdictStands ==
  [][\A r \in Run :
       InState(r, {"succeeded"}) /\ taskRuns[r].mode = "verify"
         => InState(r, {"succeeded"})']_kioskVars

(* A run, as the calls of run_task for it see it. *)
RunPhase(r) ==
  IF taskRuns[r] = None \/ InState(r, {"scheduled", "queued", "deferred"})
  THEN "waiting" ELSE taskRuns[r].state

Expected(r) ==
  IF taskRuns[r] = None \/ taskRuns[r].cycle = None THEN {} ELSE Games[taskRuns[r].cycle]

(* Places where run_task is at work and has not written its outcome. *)
Calling == {"work", "requeued", "postponed", "error", "uncaught", "complete", "done"}

Call(r) == INSTANCE Attempts WITH
  called <- worker.run = r /\ worker.pc \in Calling,
  state <- RunPhase(r),
  mode <- IF taskRuns[r] = None THEN None ELSE taskRuns[r].mode,
  expected <- Expected(r),
  retries <- IF taskRuns[r] = None THEN 0 ELSE taskRuns[r].retries,
  results <- results[r],
  games <- IF worker.run = r THEN worker.games ELSE NoGames

(* Whatever fails, dies, expires or is deleted around it, a run is written  *)
(* by run_task as Attempts says: retries are counted, results come from a   *)
(* call for a claim run only, and nothing but a call that verified the      *)
(* account, or found every title of the cycle recorded, makes it succeed.   *)
CallsKeepToAttempts ==
  /\ \A r \in Run : Call(r)!AttemptsInit
  /\ [][\A r \in Run : UNCHANGED Call(r)!attemptVars \/ Call(r)!AttemptsNext]_kioskVars

----------------------------------------------------------------------------
(* What the program says of itself and does not keep *)

(* A deleted account has no record any more (README, on deleting an         *)
(* account): nothing is ever saved under a redacted address.                *)
DeletionIsFinal ==
  \A a \in Address : a.removals > 0 => accounts[a] = None

----------------------------------------------------------------------------
(* Liveness, under FairKioskSpec *)

(* What is queued, running or waiting for a retry comes to an end, unless a *)
(* process dies or Redis fails.                                             *)
RunsEnd ==
  \A r \in Run :
    InState(r, {"queued", "running", "deferred"})
      ~> InState(r, {"succeeded", "failed", "manual_required"})
         \/ ~ Never({"redis", "crash"})

(* Whichever process dies, a scheduled run comes back to the sorted set     *)
(* until it is dispatched or cancelled: the hourly refresh writes it to     *)
(* Redis again.                                                             *)
ScheduledRunsComeBack ==
  \A r \in Run : InState(r, {"scheduled"})
                 ~> r \in scheduledQueue \/ ~ InState(r, {"scheduled"})

(* A scheduled run is dispatched, or cancelled when its cycle is over; a    *)
(* dead process may leave the account locked, and then it is not.           *)
ScheduledRunsMoveOn ==
  \A r \in Run : InState(r, {"scheduled"})
                 ~> ~ InState(r, {"scheduled"}) \/ ~ Never({"crash"})

(* An account is not locked for good. *)
LocksAreReleased ==
  \A a \in Address : a \in taskLock ~> a \notin taskLock \/ ~ Never({"redis", "crash"})

=============================================================================
