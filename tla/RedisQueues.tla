---------------------------- MODULE RedisQueues ----------------------------
(***************************************************************************)
(* The keys through which the web process and the worker exchange work:    *)
(*   task_queue               list of run ids, RPUSH and BLPOP             *)
(*   task_scheduled_queue     sorted set of claim runs waiting their turn  *)
(*   task_retry_queue         sorted set of runs waiting for a retry       *)
(*   task_lock:<account>      one account has work queued or running       *)
(*   retry_pending:<run>      the run just executed has a retry waiting    *)
(* Scores (due times) are left out: an entry that nobody has taken yet is  *)
(* one that was not due.  Redis itself is outside src/; these are the      *)
(* commands the program uses.                                              *)
(***************************************************************************)
EXTENDS SecureStore, Sequences

CONSTANT FaultLimit   \* bound: how often each kind of fault may happen

VARIABLES taskQueue, scheduledQueue, retryQueue, taskLock, retryPending,
          faults      \* faults[k]: how often fault k has happened

redisVars == <<taskQueue, scheduledQueue, retryQueue, taskLock, retryPending>>

(* expiry: a lock outlives its 9000 seconds.  redis: a command fails or its *)
(* reply is lost.  crash: a process is restarted by its container.          *)
(* deletion: a user deletes an account.  lapse: a pending credential turns  *)
(* 24 hours old.                                                            *)
FaultKind == {"expiry", "redis", "crash", "deletion", "lapse"}

ASSUME FaultAssumption == FaultLimit \in [FaultKind -> Nat]

Suffer(k) ==
  /\ faults[k] < FaultLimit[k]
  /\ faults' = [faults EXCEPT ![k] = @ + 1]

Never(S) == \A k \in S : faults[k] = 0

RedisTypeOK ==
  /\ taskQueue \in Seq(Run)
  /\ scheduledQueue \subseteq Run
  /\ retryQueue \subseteq Run
  /\ taskLock \subseteq Address
  /\ retryPending \subseteq Run
  /\ faults \in [FaultKind -> Nat]

RedisInit ==
  /\ taskQueue = << >>
  /\ scheduledQueue = {}
  /\ retryQueue = {}
  /\ taskLock = {}
  /\ retryPending = {}
  /\ faults = [k \in FaultKind |-> 0]

Waiting == {taskQueue[i] : i \in DOMAIN taskQueue}

(* The commands, each leaving the other keys alone. *)
RPush(r) ==
  /\ taskQueue' = Append(taskQueue, r)
  /\ UNCHANGED <<scheduledQueue, retryQueue, taskLock, retryPending>>

SetLock(a) ==
  /\ taskLock' = taskLock \cup {a}
  /\ UNCHANGED <<taskQueue, scheduledQueue, retryQueue, retryPending>>

DeleteLock(a) ==
  /\ taskLock' = taskLock \ {a}
  /\ UNCHANGED <<taskQueue, scheduledQueue, retryQueue, retryPending>>

Schedule(S) ==
  /\ scheduledQueue' = scheduledQueue \cup S
  /\ UNCHANGED <<taskQueue, retryQueue, taskLock, retryPending>>

Unschedule(S) ==
  /\ scheduledQueue' = scheduledQueue \ S
  /\ UNCHANGED <<taskQueue, retryQueue, taskLock, retryPending>>

(* The TTL of a lock runs out.  The other keys outlive their use. *)
LockExpires(a) ==
  /\ a \in taskLock
  /\ Suffer("expiry")
  /\ DeleteLock(a)

=============================================================================
