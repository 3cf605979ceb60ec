------------------------------- MODULE Worker -------------------------------
(***************************************************************************)
(* The worker process (worker.py main_loop and run_task): one loop that    *)
(* dispatches due claim runs, moves due retries, and executes the runs of  *)
(* task_queue one at a time in a browser.  A step ends wherever the web    *)
(* process can act, or a fault can strike, before the next effect.         *)
(*                                                                         *)
(* What the browser reports is any sequence of game results followed by    *)
(* any of the outcomes of run_task; the retry counters, one per kind of    *)
(* error, are one counter.                                                 *)
(***************************************************************************)
EXTENDS RedisQueues

VARIABLE worker   \* the loop's place, its run, and what it has read so far

WorkerPc == {"idle", "status", "lock", "queue", "push", "cancel", "restore",
             "retry", "load", "claim", "stale", "badcontext", "unlock", "work",
             "requeued", "postponed", "error", "uncaught", "reject", "complete",
             "done", "release", "final"}

NoGames == [t \in Title |-> None]

(* email, retries and games are the worker's own copies: task_data and the  *)
(* game_results dict of one call of run_task.  owner is the address that    *)
(* mark_cycle_complete_if_ready reads.                                      *)
IdleWorker == [pc |-> "idle", run |-> None, email |-> None, retries |-> 0,
               games |-> NoGames, owner |-> None]

WorkerTypeOK ==
  worker \in [pc : WorkerPc, run : Run \cup {None}, email : Address \cup {None},
              retries : 0 .. MaxRetries, games : [Title -> GameState \cup {None}],
              owner : Address \cup {None}]

WorkerInit == worker = IdleWorker

At(pc) == worker.pc = pc

GoTo(pc) == worker' = [worker EXCEPT !.pc = pc]

GoIdle == worker' = IdleWorker

----------------------------------------------------------------------------
(* move_due_scheduled_tasks *)

(* The ZREM that decides who dispatches the run. *)
TakeScheduled(r) ==
  /\ At("idle")
  /\ r \in scheduledQueue
  /\ Unschedule({r})
  /\ worker' = [worker EXCEPT !.pc = "status", !.run = r]
  /\ UNCHANGED <<storeVars, faults>>

(* cycle_run_dispatch_status; KeyError leaves lock_key empty. *)
ReadStatus ==
  /\ At("status")
  /\ LET status == CycleRunDispatchStatus(worker.run)
     IN \/ /\ status = "dispatchable"
           /\ worker' = [worker EXCEPT !.pc = "lock",
                                       !.email = taskRuns[worker.run].email]
        \/ status = "obsolete" /\ GoTo("cancel")
        \/ status = "missing" /\ GoTo("restore")
  /\ UNCHANGED <<storeVars, redisVars, faults>>

(* SET NX; a busy account's run goes back for a minute. *)
LockScheduled ==
  /\ At("lock")
  /\ \/ /\ worker.email \notin taskLock
        /\ SetLock(worker.email)
        /\ GoTo("queue")
     \/ /\ worker.email \in taskLock
        /\ Schedule({worker.run})
        /\ GoIdle
  /\ UNCHANGED <<storeVars, faults>>

(* The SET raises, with or without having been applied: lock_key is         *)
(* assigned already.                                                        *)
LockScheduledFails ==
  /\ At("lock")
  /\ Suffer("redis")
  /\ SetLock(worker.email) \/ UNCHANGED redisVars
  /\ GoTo("restore")
  /\ UNCHANGED storeVars

QueueScheduled ==
  /\ At("queue")
  /\ SetState(worker.run, "queued")
  /\ GoTo("push")
  /\ UNCHANGED <<redisVars, faults>>

PushScheduled ==
  /\ At("push")
  /\ RPush(worker.run)
  /\ GoIdle
  /\ UNCHANGED <<storeVars, faults>>

(* RPUSH raises, with or without having been applied. *)
PushScheduledFails ==
  /\ At("push")
  /\ Suffer("redis")
  /\ RPush(worker.run) \/ UNCHANGED redisVars
  /\ GoTo("restore")
  /\ UNCHANGED storeVars

(* except RuntimeError *)
CancelScheduled ==
  /\ At("cancel")
  /\ SetState(worker.run, "failed")
  /\ GoIdle
  /\ UNCHANGED <<redisVars, faults>>

(* except Exception: give the lock back, if lock_key is set, and put the    *)
(* run back for a minute.                                                   *)
RestoreScheduled ==
  /\ At("restore")
  /\ SetState(worker.run, "scheduled")
  /\ taskLock' = taskLock \ {worker.email}
  /\ scheduledQueue' = scheduledQueue \cup {worker.run}
  /\ GoIdle
  /\ UNCHANGED <<taskQueue, retryQueue, retryPending, faults>>

----------------------------------------------------------------------------
(* move_due_retry_tasks.  An exception here leaves main_loop and restarts   *)
(* the process: that is WorkerCrash.  PushRetry is one step, as what a      *)
(* fault can leave out after its RPUSH, mark and state, BeginTask writes.   *)

TakeRetry(r) ==
  /\ At("idle")
  /\ r \in retryQueue
  /\ retryQueue' = retryQueue \ {r}
  /\ worker' = [worker EXCEPT !.pc = "retry", !.run = r]
  /\ UNCHANGED <<storeVars, taskQueue, scheduledQueue, taskLock, retryPending, faults>>

PushRetry ==
  /\ At("retry")
  /\ taskQueue' = Append(taskQueue, worker.run)
  /\ retryPending' = retryPending \ {worker.run}
  /\ SetState(worker.run, "queued")
  /\ GoIdle
  /\ UNCHANGED <<scheduledQueue, retryQueue, taskLock, faults>>

----------------------------------------------------------------------------
(* main_loop: BLPOP, the task's context, and the lock *)

(* Mutated form: the run is read and stays in the queue. *)
PopTaskKeeps ==
  /\ At("idle")
  /\ taskQueue # << >>
  /\ worker' = [worker EXCEPT !.pc = "load", !.run = Head(taskQueue)]
  /\ UNCHANGED <<storeVars, redisVars, faults>>

PopTask ==
  /\ At("idle")
  /\ taskQueue # << >>
  /\ taskQueue' = Tail(taskQueue)
  /\ worker' = [worker EXCEPT !.pc = "load", !.run = Head(taskQueue)]
  /\ UNCHANGED <<storeVars, scheduledQueue, retryQueue, taskLock, retryPending, faults>>

(* The server pops the run, the reply is lost with the connection: the      *)
(* exception is caught and the loop goes on.                                *)
PopLost ==
  /\ At("idle")
  /\ taskQueue # << >>
  /\ Suffer("redis")
  /\ taskQueue' = Tail(taskQueue)
  /\ UNCHANGED <<storeVars, scheduledQueue, retryQueue, taskLock, retryPending, worker>>

(* load_task_context, then task_cycle_is_active on the retry_data it read. *)
LoadContext ==
  LET r == worker.run
      context == TaskContext(r)
  IN
  /\ At("load")
  /\ LoadTaskContext(r)
  /\ \/ /\ context # "ready"
        /\ GoTo("badcontext")
     \/ /\ context = "ready"
        /\ worker' = [worker EXCEPT
             !.pc = IF TaskCycleIsActive(r) THEN "claim" ELSE "stale",
             !.email = taskRuns[r].email,
             !.retries = taskRuns[r].retries]
  /\ UNCHANGED <<redisVars, faults>>

(* Mutated form: the run keeps the state queued. *)
FailUnstartedUnmarked ==
  /\ At("stale")
  /\ GoTo("unlock")
  /\ UNCHANGED <<storeVars, redisVars, faults>>

(* A run of a cycle that is over fails ... *)
FailUnstarted ==
  /\ At("stale")
  /\ SetState(worker.run, "failed")
  /\ GoTo("unlock")
  /\ UNCHANGED <<redisVars, faults>>

(* Mutated form: the lock is left to its TTL. *)
UnlockUnstartedForgets ==
  /\ At("unlock")
  /\ GoIdle
  /\ UNCHANGED <<storeVars, redisVars, faults>>

(* ... and gives the lock of its context back. *)
UnlockUnstarted ==
  /\ At("unlock")
  /\ DeleteLock(worker.email)
  /\ GoIdle
  /\ UNCHANGED <<storeVars, faults>>

(* The except clause of main_loop: there is no context, a command before    *)
(* run_task raised, or run_task itself.  The counters are not written.      *)
FailUncaught ==
  /\ worker.pc \in {"badcontext", "uncaught"}
  /\ SetState(worker.run, "failed")
  /\ GoTo("release")
  /\ UNCHANGED <<redisVars, faults>>

(* The lock of the address that the row has now goes, retry or not, and the *)
(* finally clause follows if there was a context.                           *)
ReleaseUncaught ==
  /\ At("release")
  /\ DeleteLock(taskRuns[worker.run].email)
  /\ \/ worker.email = None /\ GoIdle
     \/ worker.email # None /\ GoTo("final")
  /\ UNCHANGED <<storeVars, faults>>

(* Mutated form: retry_pending outlives the start of the retry. *)
BeginTaskKeepsMark ==
  /\ At("claim")
  /\ UpdateTask(worker.run, "running", worker.retries)
  /\ SetLock(worker.email)
  /\ GoTo("work")
  /\ UNCHANGED faults

(* The lock is taken again, whoever holds it, and run_task begins. *)
BeginTask ==
  /\ At("claim")
  /\ retryPending' = retryPending \ {worker.run}
  /\ taskLock' = taskLock \cup {worker.email}
  /\ UpdateTask(worker.run, "running", worker.retries)
  /\ GoTo("work")
  /\ UNCHANGED <<taskQueue, scheduledQueue, retryQueue, faults>>

(* A Redis command raises before run_task. *)
BeginTaskFails ==
  /\ At("claim")
  /\ Suffer("redis")
  /\ retryPending' \in {retryPending, retryPending \ {worker.run}}
  /\ taskLock' \in {taskLock, taskLock \cup {worker.email}}
  /\ GoTo("badcontext")
  /\ UNCHANGED <<storeVars, taskQueue, scheduledQueue, retryQueue>>

----------------------------------------------------------------------------
(* run_task *)

(* A GAME_RESULT line: into the dict and into the store.  A second pass of  *)
(* the browser tells a game again, and the later word stands.               *)
RecordResult(t, g) ==
  /\ At("work")
  /\ taskRuns[worker.run].cycle # None
  /\ t \in Games[taskRuns[worker.run].cycle]
  /\ RecordGameResult(worker.run, t, g, TRUE)
  /\ worker' = [worker EXCEPT !.games[t] = g]
  /\ UNCHANGED <<redisVars, faults>>

(* schedule_cookie_invalid_retry: straight back to the queue ... *)
RetryNow ==
  /\ At("work")
  /\ worker.retries < MaxRetries
  /\ taskQueue' = Append(taskQueue, worker.run)
  /\ retryPending' = retryPending \cup {worker.run}
  /\ GoTo("requeued")
  /\ UNCHANGED <<storeVars, scheduledQueue, retryQueue, taskLock, faults>>

(* Mutated form: no limit on the number of retries. *)
RetryLaterUnlimited ==
  /\ At("work")
  /\ retryQueue' = retryQueue \cup {worker.run}
  /\ retryPending' = retryPending \cup {worker.run}
  /\ GoTo("postponed")
  /\ UNCHANGED <<storeVars, taskQueue, scheduledQueue, taskLock, faults>>

(* ... schedule_failure_retry: after a delay. *)
RetryLater ==
  /\ At("work")
  /\ worker.retries < MaxRetries
  /\ retryQueue' = retryQueue \cup {worker.run}
  /\ retryPending' = retryPending \cup {worker.run}
  /\ GoTo("postponed")
  /\ UNCHANGED <<storeVars, taskQueue, scheduledQueue, taskLock, faults>>

(* The command that queues the run for its retry raises, or one that comes  *)
(* after it, each with or without having been applied.  The attempt is in   *)
(* the dict by then, or only in the copy that some branches make of it.     *)
(* run_task ends in its except clause, or, when the retry is that of a hard *)
(* timeout, in that of main_loop.                                           *)
RetryFails ==
  /\ At("work")
  /\ worker.retries < MaxRetries
  /\ Suffer("redis")
  /\ \/ UNCHANGED <<taskQueue, retryQueue, retryPending>>
     \/ /\ \/ /\ taskQueue' = Append(taskQueue, worker.run)
              /\ UNCHANGED retryQueue
           \/ /\ retryQueue' = retryQueue \cup {worker.run}
              /\ UNCHANGED taskQueue
        /\ retryPending' \in {retryPending, retryPending \cup {worker.run}}
  /\ \E pc \in {"error", "uncaught"}, counted \in 0 .. 1 :
       worker' = [worker EXCEPT !.pc = pc, !.retries = @ + counted]
  /\ UNCHANGED <<storeVars, scheduledQueue, taskLock>>

(* set_task_feedback raises before it writes the row. *)
FeedbackFails ==
  /\ worker.pc \in {"work", "done", "error"}
  /\ Suffer("redis")
  /\ GoTo(IF At("error") THEN "uncaught" ELSE "error")
  /\ UNCHANGED <<storeVars, redisVars>>

(* Mutated form: the counter is not written back. *)
RecordRetryUncounted ==
  /\ worker.pc \in {"requeued", "postponed"}
  /\ SetState(worker.run, IF At("requeued") THEN "queued" ELSE "deferred")
  /\ GoTo("final")
  /\ UNCHANGED <<redisVars, faults>>

(* The state and the counter follow. *)
RecordRetry ==
  /\ worker.pc \in {"requeued", "postponed"}
  /\ UpdateTask(worker.run, IF At("requeued") THEN "queued" ELSE "deferred",
                worker.retries + 1)
  /\ GoTo("final")
  /\ UNCHANGED <<redisVars, faults>>

(* No retry, or no retry left. *)
GiveUp(s) ==
  /\ At("work")
  /\ s \in {"failed", "manual_required"}
  /\ SetState(worker.run, s)
  /\ GoTo("final")
  /\ UNCHANGED <<redisVars, faults>>

(* except Exception: the counters are written as they are in the dict. *)
SystemError ==
  /\ At("error")
  /\ UpdateTask(worker.run, "failed", worker.retries)
  /\ GoTo("final")
  /\ UNCHANGED <<redisVars, faults>>

(* Epic refuses the login: the run fails, and the web process is asked to   *)
(* delete the account (nuke_account_immediately).                           *)
RejectCredentials ==
  /\ At("work")
  /\ SetState(worker.run, "failed")
  /\ GoTo("reject")
  /\ UNCHANGED <<redisVars, faults>>

(* The request cannot be sent. *)
NukeRequestLost ==
  /\ At("reject")
  /\ GoTo("final")
  /\ UNCHANGED <<storeVars, redisVars, faults>>

VerifyPassed ==
  /\ At("work")
  /\ taskRuns[worker.run].mode = "verify"
  /\ GoTo("done")
  /\ UNCHANGED <<storeVars, redisVars, faults>>

ReadOwner ==
  worker' = [worker EXCEPT !.pc = "complete", !.owner = taskRuns[worker.run].email]

(* Mutated form: the run is completed on the word of the browser, whatever  *)
(* was recorded.                                                            *)
ClaimDoneAnyway ==
  /\ At("work")
  /\ taskRuns[worker.run].mode = "claim"
  /\ ReadOwner
  /\ UNCHANGED <<storeVars, redisVars, faults>>

(* No game of this attempt failed: the cycle is complete if every title of  *)
(* it is recorded, else a person has to look.                               *)
ClaimDone ==
  /\ At("work")
  /\ taskRuns[worker.run].mode = "claim"
  /\ \A t \in Title : worker.games[t] \in SuccessfulGameStates \cup {None}
  /\ \/ /\ CycleReady(worker.run)
        /\ ReadOwner
        /\ UNCHANGED storeVars
     \/ /\ ~ CycleReady(worker.run)
        /\ SetState(worker.run, "manual_required")
        /\ GoTo("final")
  /\ UNCHANGED <<redisVars, faults>>

(* The completion is inserted, unless the account is gone meanwhile. *)
CompleteCycle ==
  /\ At("complete")
  /\ \/ /\ MarkCycleComplete(worker.run, worker.owner)
        /\ GoTo("done")
     \/ /\ accounts[worker.owner] = None
        /\ GoTo("error")
        /\ UNCHANGED storeVars
  /\ UNCHANGED <<redisVars, faults>>

Succeed ==
  /\ At("done")
  /\ SetState(worker.run, "succeeded")
  /\ GoTo("final")
  /\ UNCHANGED <<redisVars, faults>>

(* Mutated form: the lock is dropped although a retry is pending. *)
FinishAlways ==
  /\ At("final")
  /\ DeleteLock(worker.email)
  /\ GoIdle
  /\ UNCHANGED <<storeVars, faults>>

(* The finally clause of main_loop: the lock goes unless a retry of this    *)
(* run is pending.                                                          *)
Finish ==
  /\ At("final")
  /\ \/ worker.run \notin retryPending /\ DeleteLock(worker.email)
     \/ worker.run \in retryPending /\ UNCHANGED redisVars
  /\ GoIdle
  /\ UNCHANGED <<storeVars, faults>>

----------------------------------------------------------------------------
(* The container restarts the process. *)
WorkerCrash ==
  /\ ~ At("idle")
  /\ Suffer("crash")
  /\ GoIdle
  /\ UNCHANGED <<storeVars, redisVars>>

(* What the loop does next, once it has taken a run, whatever the browser   *)
(* tells it: the browser owes no result.                                    *)
WorkerStep ==
  \/ ReadStatus \/ LockScheduled \/ QueueScheduled \/ PushScheduled
  \/ CancelScheduled \/ RestoreScheduled
  \/ PushRetry
  \/ LoadContext \/ FailUnstarted \/ UnlockUnstarted \/ BeginTask
  \/ FailUncaught \/ ReleaseUncaught
  \/ RetryNow \/ RetryLater \/ RecordRetry
  \/ \E s \in TaskState : GiveUp(s)
  \/ SystemError \/ RejectCredentials \/ NukeRequestLost
  \/ VerifyPassed \/ ClaimDone \/ CompleteCycle \/ Succeed
  \/ Finish

WorkerFault ==
  \/ LockScheduledFails \/ PushScheduledFails \/ PopLost \/ BeginTaskFails
  \/ RetryFails \/ FeedbackFails
  \/ WorkerCrash

WorkerNext ==
  \/ \E r \in Run : TakeScheduled(r) \/ TakeRetry(r)
  \/ PopTask
  \/ WorkerStep
  \/ \E t \in Title, g \in Reported : RecordResult(t, g)
  \/ WorkerFault

=============================================================================
