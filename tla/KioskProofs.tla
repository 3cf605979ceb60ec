---------------------------- MODULE KioskProofs ----------------------------
(***************************************************************************)
(* The kiosk implements the store: whatever the web process and the worker *)
(* do, and whatever fails, each of their steps is one that StoreSpec       *)
(* allows a client.  What is proved of the store thus holds of the kiosk.  *)
(*                                                                         *)
(* A client may pass on only what it may have read.  The invariant says    *)
(* so of everything that handlers, job, worker and queues remember.        *)
(*                                                                         *)
(* A second invariant, LockIInv, follows the lock of an account from one   *)
(* holder to the next: only one run of an account is ever in flight.       *)
(*                                                                         *)
(* A third, LedgerIInv, keeps a ledger of every run, from the handler or   *)
(* the job that creates it to the worker that writes its end: where it is, *)
(* in how many copies, and who may still change its state.                 *)
(*                                                                         *)
(* A fourth, CallIInv, says what a call of run_task may rely on while the  *)
(* rest of the program goes on: with it, each call is one that Attempts    *)
(* allows.                                                                 *)
(***************************************************************************)
EXTENDS Kiosk, SecureStoreProofs

(* What is queued exists. *)
QueueKnown == taskQueue \in Seq(Run) /\ Waiting \subseteq TaskIds

KeysKnown ==
  /\ scheduledQueue \subseteq TaskIds
  /\ retryQueue \subseteq TaskIds
  /\ retryPending \subseteq TaskIds
  /\ taskLock \subseteq Address

FaultsCounted == faults \in [FaultKind -> Nat]

(* A handler has the run and the address it needs for what comes next: a    *)
(* confirmation those of one user, a deletion an account that it may redact. *)
HandlerKnows(t) ==
  /\ handler[t].op \in {"enqueue", "push", "duplicate", "confirm", "save"} =>
       handler[t].run \in TaskIds
  /\ handler[t].op # "idle" => handler[t].email \in Address
  /\ handler[t].op \in {"confirm", "save"} =>
       /\ taskRuns[handler[t].run].mode = "verify"
       /\ taskRuns[handler[t].run].email.user = handler[t].email.user
  /\ handler[t].op = "delete" => handler[t].email.removals < MaxRemovals

HandlersKnow == \A t \in Thread : HandlerKnows(t)

HandlersTyped ==
  handler \in [Thread -> [op : HandlerOp, run : Run \cup {None}, email : Address \cup {None}]]

(* The job knows its cycle; what it is about to cancel are runs of a cycle. *)
RefreshKnows ==
  /\ refresh.op # "idle" => refresh.cycle \in Cycle
  /\ refresh.runs \subseteq TaskIds
  /\ refresh.op = "cancel" => refresh.runs \subseteq CycleRuns

RefreshTyped ==
  refresh \in [op : RefreshOp, cycle : Cycle \cup {None}, runs : SUBSET Run, due : SUBSET Address]

(* The worker has a run, its address where it uses it, a retry left where it *)
(* counts one, and the owner of a cycle's run where it completes the cycle. *)
WorkerKnows ==
  /\ ~ At("idle") => worker.run \in TaskIds
  /\ worker.pc \in {"lock", "claim", "work", "reject"} => worker.email \in Address
  /\ worker.pc \in {"requeued", "postponed"} => worker.retries < MaxRetries
  /\ At("complete") =>
       /\ worker.owner \in Address
       /\ worker.run \in CycleRuns
       /\ taskRuns[worker.run].email.user = worker.owner.user

RedisPart == QueueKnown /\ KeysKnown /\ FaultsCounted

HandlersPart == HandlersTyped /\ HandlersKnow

RefreshPart == RefreshTyped /\ RefreshKnows

WorkerPart == WorkerTypeOK /\ WorkerKnows

KioskIInv == StoreIInv /\ RedisPart /\ HandlersPart /\ RefreshPart /\ WorkerPart

----------------------------------------------------------------------------
(* What is read stays true *)

(* A step of the store. *)
StoreStep == [StoreNext]_storeVars

LEMMA KnowledgeLasts ==
  ASSUME StoreIInv, StoreStep
  PROVE  /\ TaskIds \subseteq TaskIds'
         /\ CycleRuns \subseteq CycleRuns'
         /\ \A r \in TaskIds : /\ taskRuns'[r].mode = taskRuns[r].mode
                               /\ taskRuns'[r].email.user = taskRuns[r].email.user
                               /\ taskRuns'[r].cycle = taskRuns[r].cycle
  BY RunsPersist DEF StoreStep, TaskIds, CycleRuns

LEMMA RowTyped ==
  ASSUME StoreIInv, NEW r \in TaskIds
  PROVE  /\ r \in Run /\ taskRuns[r] \in TaskRow /\ taskRuns[r] # None
         /\ taskRuns[r].email \in Address /\ taskRuns[r].retries \in 0 .. MaxRetries
  BY DEF StoreIInv, StoreTypeOK, TaskIds, TaskRow

LEMMA QueueKept ==
  ASSUME KioskIInv, StoreStep, UNCHANGED taskQueue
  PROVE  QueueKnown'
  BY KnowledgeLasts DEF KioskIInv, RedisPart, QueueKnown, Waiting

LEMMA QueuePushed ==
  ASSUME KioskIInv, StoreStep, NEW r \in TaskIds, taskQueue' = Append(taskQueue, r)
  PROVE  QueueKnown'
<1>1. taskQueue \in Seq(Run) /\ r \in Run
  BY DEF KioskIInv, RedisPart, QueueKnown, TaskIds
<1>2. taskQueue' \in Seq(Run)
  BY <1>1
<1>3. ASSUME NEW i \in DOMAIN taskQueue' PROVE taskQueue'[i] \in TaskIds'
  <2>1. taskQueue'[i] = r \/ (i \in DOMAIN taskQueue /\ taskQueue'[i] = taskQueue[i])
    BY <1>1
  <2> QED BY <2>1, KnowledgeLasts DEF KioskIInv, RedisPart, QueueKnown, Waiting
<1> QED BY <1>2, <1>3 DEF QueueKnown, Waiting

LEMMA QueuePopped ==
  ASSUME KioskIInv, StoreStep, taskQueue # << >>, taskQueue' = Tail(taskQueue)
  PROVE  QueueKnown' /\ Head(taskQueue) \in TaskIds
<1>1. taskQueue \in Seq(Run) /\ taskQueue # << >>
  BY DEF KioskIInv, RedisPart, QueueKnown
<1>2. taskQueue' \in Seq(Run)
  BY <1>1
<1>3. ASSUME NEW i \in DOMAIN taskQueue' PROVE taskQueue'[i] \in TaskIds'
  <2>1. i + 1 \in DOMAIN taskQueue /\ taskQueue'[i] = taskQueue[i + 1]
    BY <1>1
  <2> QED BY <2>1, KnowledgeLasts DEF KioskIInv, RedisPart, QueueKnown, Waiting
<1>4. Head(taskQueue) \in TaskIds
  <2>1. 1 \in DOMAIN taskQueue /\ Head(taskQueue) = taskQueue[1]
    BY <1>1
  <2> QED BY <2>1 DEF KioskIInv, RedisPart, QueueKnown, Waiting
<1> QED BY <1>2, <1>3, <1>4 DEF QueueKnown, Waiting

(* The sets grow by what is known, and shrink. *)
LEMMA KeysKept ==
  ASSUME KioskIInv, StoreStep, NEW S \in SUBSET TaskIds, NEW L \in SUBSET Address,
         scheduledQueue' \subseteq scheduledQueue \cup S,
         retryQueue' \subseteq retryQueue \cup S,
         retryPending' \subseteq retryPending \cup S,
         taskLock' \subseteq taskLock \cup L
  PROVE  KeysKnown'
  BY KnowledgeLasts DEF KioskIInv, RedisPart, KeysKnown

LEMMA FaultsKept ==
  ASSUME KioskIInv, UNCHANGED faults \/ \E k \in FaultKind : Suffer(k)
  PROVE  FaultsCounted'
  BY FaultAssumption DEF KioskIInv, RedisPart, FaultsCounted, Suffer

LEMMA HandlersKept ==
  ASSUME KioskIInv, StoreStep, UNCHANGED handler
  PROVE  HandlersPart'
  BY KnowledgeLasts DEF KioskIInv, HandlersPart, HandlersTyped, HandlersKnow, HandlerKnows

LEMMA RefreshKept ==
  ASSUME KioskIInv, StoreStep, UNCHANGED refresh
  PROVE  RefreshPart'
  BY KnowledgeLasts DEF KioskIInv, RefreshPart, RefreshTyped, RefreshKnows

LEMMA WorkerKept ==
  ASSUME KioskIInv, StoreStep, UNCHANGED worker
  PROVE  WorkerPart'
  BY KnowledgeLasts DEF KioskIInv, WorkerPart, WorkerTypeOK, WorkerKnows, At

----------------------------------------------------------------------------
(* Every step is one of the store *)

LEMMA UpdateIsStep ==
  ASSUME NEW r \in TaskIds, NEW s \in TaskState, NEW n \in 0 .. MaxRetries, UpdateTask(r, s, n)
  PROVE  StoreStep
<1>1. \E q \in TaskIds, z \in Written, k \in 0 .. MaxRetries : UpdateTask(q, z, k)
  BY KioskAssumption
<1> QED BY <1>1 DEF StoreStep, StoreNext

LEMMA SetStateIsStep ==
  ASSUME StoreIInv, NEW r \in TaskIds, NEW s \in TaskState, SetState(r, s)
  PROVE  StoreStep
  BY RowTyped, UpdateIsStep DEF SetState

LEMMA DepositIsStep ==
  ASSUME NEW t \in Thread, NEW a \in Address, Deposit(t, a)
  PROVE  StoreStep
<1>1. \E r \in Run, b \in Address, m \in Mode : CreateTaskRun(r, b, m)
  BY DEF Deposit, Mode
<1> QED BY <1>1 DEF StoreStep, StoreNext

LEMMA RejectDuplicateIsStep ==
  ASSUME KioskIInv, NEW t \in Thread, RejectDuplicate(t)
  PROVE  StoreStep
<1>1. handler[t].run \in TaskIds
  BY DEF KioskIInv, HandlersPart, HandlersKnow, HandlerKnows, RejectDuplicate
<1> QED BY <1>1, SetStateIsStep DEF KioskIInv, RejectDuplicate, TaskState

LEMMA SaveAccountIsStep ==
  ASSUME KioskIInv, NEW t \in Thread, SaveAccount(t)
  PROVE  StoreStep
<1>1. /\ handler[t].run \in TaskIds /\ handler[t].email \in Address
      /\ Confirms(handler[t].run, handler[t].email)
  BY DEF KioskIInv, HandlersPart, HandlersKnow, HandlerKnows, SaveAccount, Confirms
<1> QED BY <1>1 DEF StoreStep, StoreNext

LEMMA RemoveAccountIsStep ==
  ASSUME KioskIInv, NEW t \in Thread, RemoveAccount(t)
  PROVE  StoreStep
<1>1. handler[t].email \in Address /\ DeleteAccountRecord(handler[t].email)
  BY DEF KioskIInv, HandlersPart, HandlersKnow, HandlerKnows, RemoveAccount
<1> QED BY <1>1 DEF StoreStep, StoreNext

LEMMA ThreadIsStep ==
  ASSUME KioskIInv, NEW t \in Thread, Handle(t) \/ Request(t) \/ HandlerFails(t)
  PROVE  StoreStep
<1>1. CASE \E a \in Address : Deposit(t, a)   BY <1>1, DepositIsStep
<1>2. CASE RejectDuplicate(t)                BY <1>2, RejectDuplicateIsStep
<1>3. CASE SaveAccount(t)                    BY <1>3, SaveAccountIsStep
<1>4. CASE RemoveAccount(t)                  BY <1>4, RemoveAccountIsStep
<1>5. CASE \/ EnqueueTask(t) \/ PushTask(t) \/ HandlerFails(t) \/ ReadPending(t)
           \/ NukeAccount(t) \/ DropLock(t)
           \/ (\E a \in Address : DeleteAccount(t, a)) \/ (\E r \in Run : ReadSucceededRun(t, r))
  BY <1>5
  DEF EnqueueTask, PushTask, HandlerFails, EnqueueFails, DropLockFails, ReadPending, NukeAccount,
      DropLock, DeleteAccount, ReadSucceededRun, StoreStep, storeVars
<1> QED BY <1>1, <1>2, <1>3, <1>4, <1>5 DEF Handle, Request

LEMMA CancelObsoleteIsStep ==
  ASSUME KioskIInv, CancelObsolete
  PROVE  StoreStep
<1>1. refresh.runs \in SUBSET CycleRuns
  BY DEF KioskIInv, RefreshPart, RefreshKnows, CancelObsolete
<1> QED BY <1>1 DEF CancelObsolete, StoreStep, StoreNext

LEMMA AssignRunsIsStep ==
  ASSUME KioskIInv, AssignRuns
  PROVE  StoreStep
<1>1. refresh.cycle \in Cycle /\ refresh.due \in SUBSET Address
  BY DEF KioskIInv, RefreshPart, RefreshKnows, RefreshTyped, AssignRuns
<1> QED BY <1>1 DEF AssignRuns, StoreStep, StoreNext, storeVars

LEMMA RefreshIsStep ==
  ASSUME KioskIInv,
         RefreshStep \/ RefreshFails \/ WebCrash \/ \E c \in Cycle : ActivateCycle(c)
  PROVE  StoreStep
<1>1. CASE \E c \in Cycle : ActivateCycle(c)
  BY <1>1 DEF ActivateCycle, StoreStep, StoreNext
<1>2. CASE CancelObsolete  BY <1>2, CancelObsoleteIsStep
<1>3. CASE AssignRuns      BY <1>3, AssignRunsIsStep
<1>4. CASE \/ SelectObsolete \/ UnscheduleObsolete \/ SelectDue \/ ReadScheduledRuns
           \/ PersistScheduledRuns \/ RefreshFails \/ WebCrash
  BY <1>4 DEF SelectObsolete, UnscheduleObsolete, SelectDue, ReadScheduledRuns,
              PersistScheduledRuns, RefreshFails, WebCrash, StoreStep, storeVars
<1> QED BY <1>1, <1>2, <1>3, <1>4 DEF RefreshStep

(* The worker sets the state of a run it has. *)
LEMMA WorkerSetsState ==
  ASSUME KioskIInv, ~ At("idle"), NEW s \in TaskState, SetState(worker.run, s)
  PROVE  StoreStep
  BY SetStateIsStep DEF KioskIInv, WorkerPart, WorkerKnows

LEMMA WorkerUpdates ==
  ASSUME KioskIInv, ~ At("idle"), NEW s \in TaskState, NEW n \in 0 .. MaxRetries,
         UpdateTask(worker.run, s, n)
  PROVE  StoreStep
  BY UpdateIsStep DEF KioskIInv, WorkerPart, WorkerKnows

LEMMA RecordResultIsStep ==
  ASSUME KioskIInv, NEW t \in Title, NEW g \in Reported, RecordResult(t, g)
  PROVE  StoreStep
<1>1. worker.run \in TaskIds
  BY DEF KioskIInv, WorkerPart, WorkerKnows, RecordResult, At
<1>2. taskRuns[worker.run].mode = "claim"
  BY <1>1, RowTyped DEF KioskIInv, StoreIInv, CycleRunsClaim, RecordResult
<1> QED BY <1>1, <1>2 DEF RecordResult, StoreStep, StoreNext

LEMMA CompleteCycleIsStep ==
  ASSUME KioskIInv, CompleteCycle
  PROVE  StoreStep
<1>1. CASE MarkCycleComplete(worker.run, worker.owner)
  <2>1. worker.run \in CycleRuns /\ worker.owner \in Address /\ Completes(worker.run, worker.owner)
    BY <1>1 DEF KioskIInv, WorkerPart, WorkerKnows, CompleteCycle, Completes
  <2> QED BY <2>1 DEF StoreStep, StoreNext
<1>2. CASE UNCHANGED storeVars
  BY <1>2 DEF StoreStep
<1> QED BY <1>1, <1>2 DEF CompleteCycle

LEMMA WorkerIsStep ==
  ASSUME KioskIInv, WorkerNext
  PROVE  StoreStep
<1>. USE DEF At, TaskState
<1>1. CASE QueueScheduled     BY <1>1, WorkerSetsState DEF QueueScheduled
<1>2. CASE CancelScheduled    BY <1>2, WorkerSetsState DEF CancelScheduled
<1>3. CASE RestoreScheduled   BY <1>3, WorkerSetsState DEF RestoreScheduled
<1>4. CASE PushRetry          BY <1>4, WorkerSetsState DEF PushRetry
<1>5. CASE LoadContext
  <2>1. LoadTaskContext(worker.run) /\ worker.run \in Run
    BY <1>5 DEF LoadContext, LoadTaskContext, TaskIds
  <2> QED BY <2>1 DEF StoreStep, StoreNext
<1>6. CASE FailUnstarted \/ FailUncaught
  BY <1>6, WorkerSetsState DEF FailUnstarted, FailUncaught
<1>7. CASE BeginTask
  <2>1. worker.retries \in 0 .. MaxRetries
    BY DEF KioskIInv, WorkerPart, WorkerTypeOK
  <2> QED BY <1>7, <2>1, WorkerUpdates DEF BeginTask
<1>8. CASE \E t \in Title, g \in Reported : RecordResult(t, g)
  BY <1>8, RecordResultIsStep
<1>9. CASE RecordRetry
  <2>1. worker.retries + 1 \in 0 .. MaxRetries
    BY <1>9, StoreAssumption
    DEF StoreAssumption, KioskIInv, WorkerPart, WorkerTypeOK, WorkerKnows, RecordRetry
  <2> QED BY <1>9, <2>1, WorkerUpdates DEF RecordRetry
<1>10. CASE \E s \in TaskState : GiveUp(s)
  BY <1>10, WorkerSetsState DEF GiveUp
<1>11. CASE SystemError
  <2>1. worker.retries \in 0 .. MaxRetries
    BY DEF KioskIInv, WorkerPart, WorkerTypeOK
  <2> QED BY <1>11, <2>1, WorkerUpdates DEF SystemError
<1>12. CASE RejectCredentials BY <1>12, WorkerSetsState DEF RejectCredentials
<1>13. CASE ClaimDone
  <2>1. SetState(worker.run, "manual_required") \/ UNCHANGED storeVars
    BY <1>13 DEF ClaimDone
  <2> QED BY <1>13, <2>1, WorkerSetsState DEF ClaimDone, StoreStep
<1>14. CASE CompleteCycle     BY <1>14, CompleteCycleIsStep
<1>15. CASE Succeed           BY <1>15, WorkerSetsState DEF Succeed
<1>16. CASE \/ (\E r \in Run : TakeScheduled(r) \/ TakeRetry(r)) \/ PopTask \/ ReadStatus
            \/ LockScheduled \/ PushScheduled \/ UnlockUnstarted \/ ReleaseUncaught \/ RetryNow
            \/ RetryLater \/ NukeRequestLost \/ VerifyPassed \/ Finish
  BY <1>16 DEF TakeScheduled, TakeRetry, PopTask, ReadStatus, LockScheduled, PushScheduled,
       UnlockUnstarted, ReleaseUncaught, RetryNow, RetryLater, NukeRequestLost, VerifyPassed,
       Finish, StoreStep, storeVars
<1>17. CASE WorkerFault
  BY <1>17 DEF WorkerFault, LockScheduledFails, PushScheduledFails, PopLost, BeginTaskFails,
       RetryFails, FeedbackFails, WorkerCrash, StoreStep, storeVars
<1> QED BY <1>1, <1>2, <1>3, <1>4, <1>5, <1>6, <1>7, <1>8, <1>9, <1>10, <1>11, <1>12, <1>13,
           <1>14, <1>15, <1>16, <1>17 DEF WorkerNext, WorkerStep

(* Each step of the kiosk is one of the store, or leaves it alone. *)
LEMMA KioskImplementsStep ==
  ASSUME KioskIInv, [KioskNext]_kioskVars
  PROVE  StoreStep
<1>1. CASE \E t \in Thread : Handle(t) \/ Request(t) \/ HandlerFails(t)
  BY <1>1, ThreadIsStep
<1>2. CASE RefreshStep \/ RefreshFails \/ WebCrash \/ \E c \in Cycle : ActivateCycle(c)
  BY <1>2, RefreshIsStep
<1>3. CASE WorkerNext
  BY <1>3, WorkerIsStep
<1>4. CASE \E t \in Thread : RequestNuke(t)
  BY <1>4 DEF RequestNuke, StoreStep
<1>5. CASE TimePasses
  BY <1>5 DEF TimePasses, StoreStep, StoreNext
<1>6. CASE UNCHANGED kioskVars
  BY <1>6 DEF kioskVars, StoreStep
<1> QED BY <1>1, <1>2, <1>3, <1>4, <1>5, <1>6 DEF KioskNext, WebNext

----------------------------------------------------------------------------
(* The web process *)

(* A request that goes on with what its step has found out. *)
LEMMA HandlersTurn ==
  ASSUME KioskIInv, StoreStep, NEW t \in Thread,
         handler' \in [Thread -> [op : HandlerOp, run : Run \cup {None},
                                  email : Address \cup {None}]],
         \A u \in Thread \ {t} : handler'[u] = handler[u], HandlerKnows(t)'
  PROVE  HandlersPart'
<1>1. ASSUME NEW u \in Thread, u # t PROVE HandlerKnows(u)'
  BY <1>1, KnowledgeLasts DEF KioskIInv, HandlersPart, HandlersKnow, HandlerKnows
<1> QED BY <1>1 DEF HandlersPart, HandlersTyped, HandlersKnow

LEMMA HandlersDone ==
  ASSUME KioskIInv, StoreStep, NEW t \in Thread, Done(t)
  PROVE  HandlersPart'
<1>1. handler' \in [Thread -> [op : HandlerOp, run : Run \cup {None},
                              email : Address \cup {None}]]
  BY DEF Done, IdleHandler, HandlerOp, KioskIInv, HandlersPart, HandlersTyped
<1>2. HandlerKnows(t)'
  BY DEF Done, IdleHandler, HandlerKnows, KioskIInv, HandlersPart, HandlersTyped
<1>3. \A u \in Thread \ {t} : handler'[u] = handler[u]
  BY DEF Done, KioskIInv, HandlersPart, HandlersTyped
<1> QED BY <1>1, <1>2, <1>3, HandlersTurn

LEMMA TurnTurns ==
  ASSUME KioskIInv, NEW t \in Thread, NEW op \in HandlerOp, NEW r \in Run \cup {None},
         NEW a \in Address, Turn(t, op, r, a)
  PROVE  /\ handler' \in [Thread -> [op : HandlerOp, run : Run \cup {None},
                                    email : Address \cup {None}]]
         /\ \A u \in Thread \ {t} : handler'[u] = handler[u]
         /\ handler'[t] = [op |-> op, run |-> r, email |-> a]
  BY DEF Turn, KioskIInv, HandlersPart, HandlersTyped

(* It goes on with the run and the address it has. *)
LEMMA TurnKeepsRun ==
  ASSUME KioskIInv, StoreStep, NEW t \in Thread,
         handler[t].op \in {"enqueue", "confirm"},
         NEW op \in {"push", "duplicate", "save"},
         op = "save" => handler[t].op = "confirm",
         Turn(t, op, handler[t].run, handler[t].email)
  PROVE  HandlersPart'
<1>1. handler[t].run \in TaskIds /\ handler[t].run \in Run /\ handler[t].email \in Address
  BY DEF KioskIInv, HandlersPart, HandlersKnow, HandlerKnows, TaskIds
<1>2. /\ handler' \in [Thread -> [op : HandlerOp, run : Run \cup {None},
                                 email : Address \cup {None}]]
      /\ \A u \in Thread \ {t} : handler'[u] = handler[u]
      /\ handler'[t] = [op |-> op, run |-> handler[t].run, email |-> handler[t].email]
  BY <1>1 DEF HandlerOp, Turn, KioskIInv, HandlersPart, HandlersTyped
<1>3. HandlerKnows(t)'
  BY <1>1, <1>2, KnowledgeLasts DEF KioskIInv, HandlersPart, HandlersKnow, HandlerKnows
<1> QED BY <1>2, <1>3, HandlersTurn

(* It goes on with the address alone. *)
LEMMA TurnKeepsAddress ==
  ASSUME KioskIInv, StoreStep, NEW t \in Thread, NEW op \in {"nuke", "delete", "unlock"},
         NEW a \in Address, op = "delete" => a.removals < MaxRemovals,
         Turn(t, op, None, a)
  PROVE  HandlersPart'
<1>1. /\ handler' \in [Thread -> [op : HandlerOp, run : Run \cup {None},
                                 email : Address \cup {None}]]
      /\ \A u \in Thread \ {t} : handler'[u] = handler[u]
      /\ handler'[t] = [op |-> op, run |-> None, email |-> a]
  BY TurnTurns DEF HandlerOp
<1>2. HandlerKnows(t)'
  BY <1>1 DEF HandlerKnows
<1> QED BY <1>1, <1>2, HandlersTurn

LEMMA DepositHandlers ==
  ASSUME KioskIInv, StoreStep, NEW t \in Thread, NEW a \in Address, Deposit(t, a)
  PROVE  HandlersPart'
<1>1. PICK r \in Run : CreateTaskRun(r, a, "verify") /\ Turn(t, "enqueue", r, a)
  BY DEF Deposit
<1>2. /\ handler' \in [Thread -> [op : HandlerOp, run : Run \cup {None},
                                 email : Address \cup {None}]]
      /\ \A u \in Thread \ {t} : handler'[u] = handler[u]
      /\ handler'[t] = [op |-> "enqueue", run |-> r, email |-> a]
  BY <1>1, TurnTurns DEF HandlerOp
<1>3. r \in TaskIds'
  <2> DEFINE p == IF accounts[a] # None THEN accounts[a].profile ELSE r
  <2>1. p \in Run \cup {None}
    BY DEF KioskIInv, StoreIInv, StoreTypeOK, AccountRow
  <2>2. taskRuns'[r] = [email |-> a, mode |-> "verify", state |-> "queued", cycle |-> None,
                        retries |-> 0, profile |-> p]
    BY <1>1 DEF CreateTaskRun, KioskIInv, StoreIInv, StoreTypeOK
  <2>3. taskRuns'[r] \in TaskRow
    BY <2>1, <2>2, StoreAssumption DEF StoreAssumption, TaskRow, Mode, TaskState
  <2> QED BY <2>2, <2>3, StoreAssumption DEF StoreAssumption, TaskIds
<1>4. HandlerKnows(t)'
  BY <1>2, <1>3 DEF HandlerKnows
<1> QED BY <1>2, <1>4, HandlersTurn

LEMMA ReadSucceededRunHandlers ==
  ASSUME KioskIInv, StoreStep, NEW t \in Thread, NEW r \in Run, ReadSucceededRun(t, r)
  PROVE  HandlersPart'
<1>1. r \in TaskIds /\ taskRuns[r].email \in Address
  BY RowTyped DEF ReadSucceededRun, KioskIInv
<1>2. /\ handler' \in [Thread -> [op : HandlerOp, run : Run \cup {None},
                                 email : Address \cup {None}]]
      /\ \A u \in Thread \ {t} : handler'[u] = handler[u]
      /\ handler'[t] = [op |-> "confirm", run |-> r, email |-> taskRuns[r].email]
  BY <1>1 DEF HandlerOp, ReadSucceededRun, Turn, KioskIInv, HandlersPart, HandlersTyped
<1>3. HandlerKnows(t)'
  BY <1>1, <1>2, KnowledgeLasts DEF KioskIInv, HandlerKnows, ReadSucceededRun
<1> QED BY <1>2, <1>3, HandlersTurn

LEMMA ThreadHandlers ==
  ASSUME KioskIInv, StoreStep, NEW t \in Thread, Handle(t) \/ Request(t) \/ HandlerFails(t)
  PROVE  HandlersPart'
<1>0. handler[t].op # "idle" => handler[t].email \in Address
  BY DEF KioskIInv, HandlersPart, HandlersKnow, HandlerKnows
<1>1. CASE EnqueueTask(t)
  BY <1>1, TurnKeepsRun DEF EnqueueTask
<1>2. CASE PushTask(t) \/ HandlerFails(t) \/ RejectDuplicate(t) \/ SaveAccount(t) \/ DropLock(t)
  BY <1>2, HandlersDone
  DEF PushTask, HandlerFails, EnqueueFails, DropLockFails, RejectDuplicate, SaveAccount, DropLock
<1>3. CASE ReadPending(t)
  BY <1>3, TurnKeepsRun, HandlersDone DEF ReadPending
<1>4. CASE NukeAccount(t)
  BY <1>0, <1>4, TurnKeepsAddress, HandlersDone DEF NukeAccount, CanDelete
<1>5. CASE RemoveAccount(t)
  BY <1>0, <1>5, TurnKeepsAddress DEF RemoveAccount
<1>6. CASE \E a \in Address : Deposit(t, a)
  BY <1>6, DepositHandlers
<1>7. CASE \E a \in Address : DeleteAccount(t, a)
  BY <1>7, TurnKeepsAddress DEF DeleteAccount, CanDelete
<1>8. CASE \E r \in Run : ReadSucceededRun(t, r)
  BY <1>8, ReadSucceededRunHandlers
<1> QED BY <1>1, <1>2, <1>3, <1>4, <1>5, <1>6, <1>7, <1>8 DEF Handle, Request

(* The keys that a handler touches. *)
LEMMA ThreadKeys ==
  ASSUME KioskIInv, StoreStep, NEW t \in Thread, Handle(t) \/ Request(t) \/ HandlerFails(t)
  PROVE  RedisPart'
<1>0. /\ handler[t].op # "idle" => handler[t].email \in Address
      /\ handler[t].op = "push" => handler[t].run \in TaskIds
  BY DEF KioskIInv, HandlersPart, HandlersKnow, HandlerKnows
<1>1. QueueKnown'
  <2>1. CASE PushTask(t)
    BY <1>0, <2>1, QueuePushed DEF PushTask, RPush
  <2>2. CASE HandlerFails(t)
    BY <1>0, <2>2, QueuePushed, QueueKept
    DEF HandlerFails, EnqueueFails, DropLockFails, DeleteLock, redisVars
  <2>3. CASE ~ PushTask(t) /\ ~ HandlerFails(t)
    BY <2>3, QueueKept DEF Handle, Request, EnqueueTask, RejectDuplicate, ReadPending,
       SaveAccount, NukeAccount, RemoveAccount, DropLock, Deposit, DeleteAccount,
       ReadSucceededRun, redisVars, SetLock, DeleteLock
  <2> QED BY <2>1, <2>2, <2>3
<1>2. KeysKnown'
  <2>. DEFINE L == taskLock' \ taskLock
  <2>1. L \subseteq Address
    BY <1>0 DEF Handle, Request, HandlerFails, EnqueueFails, DropLockFails, EnqueueTask,
       PushTask, RPush, RejectDuplicate, ReadPending, SaveAccount, NukeAccount, RemoveAccount,
       DropLock, Deposit, DeleteAccount, ReadSucceededRun, redisVars, SetLock, DeleteLock
  <2>2. UNCHANGED <<scheduledQueue, retryQueue, retryPending>>
    BY DEF Handle, Request, HandlerFails, EnqueueFails, DropLockFails, EnqueueTask,
       PushTask, RPush, RejectDuplicate, ReadPending, SaveAccount, NukeAccount, RemoveAccount,
       DropLock, Deposit, DeleteAccount, ReadSucceededRun, redisVars, SetLock, DeleteLock
  <2> QED BY <2>1, <2>2, KnowledgeLasts DEF KioskIInv, RedisPart, KeysKnown
<1>3. FaultsCounted'
  BY FaultsKept
  DEF Handle, Request, HandlerFails, EnqueueFails, DropLockFails, EnqueueTask, PushTask,
      RejectDuplicate, ReadPending, SaveAccount, NukeAccount, RemoveAccount, DropLock, Deposit,
      DeleteAccount, ReadSucceededRun, FaultKind
<1> QED BY <1>1, <1>2, <1>3 DEF RedisPart

LEMMA ThreadKeeps ==
  ASSUME KioskIInv, StoreStep, StoreIInv', NEW t \in Thread, UNCHANGED worker,
         Handle(t) \/ Request(t) \/ HandlerFails(t)
  PROVE  KioskIInv'
<1>1. UNCHANGED refresh
  BY DEF Handle, Request, HandlerFails, EnqueueFails, DropLockFails, EnqueueTask, PushTask,
      RejectDuplicate, ReadPending, SaveAccount, NukeAccount, RemoveAccount, DropLock, Deposit,
      DeleteAccount, ReadSucceededRun
<1> QED BY <1>1, ThreadHandlers, ThreadKeys, RefreshKept, WorkerKept DEF KioskIInv

(* The runs that the job selects are runs of a cycle. *)
LEMMA AssignedAreKnown ==
  ASSUME StoreIInv, NEW a \in Address, NEW c \in Cycle, NEW r \in Run, assignments[a][c] = r
  PROVE  r \in TaskIds /\ r \in CycleRuns
  BY StoreAssumption
  DEF StoreAssumption, StoreIInv, ReferencesMatch, Claims, TaskIds, CycleRuns

LEMMA JobRefresh ==
  ASSUME KioskIInv, StoreStep,
         RefreshStep \/ RefreshFails \/ WebCrash \/ \E c \in Cycle : ActivateCycle(c)
  PROVE  RefreshPart'
<1>. USE DEF RefreshPart, RefreshTyped, RefreshKnows, RefreshOp
<1>0. RefreshPart /\ StoreIInv /\ TaskIds \subseteq Run /\ CycleRuns \subseteq TaskIds
  BY DEF KioskIInv, TaskIds, CycleRuns
<1>1. CASE \E c \in Cycle : ActivateCycle(c)
  BY <1>0, <1>1 DEF ActivateCycle, IdleRefresh
<1>2. CASE SelectObsolete
  <2>1. ObsoleteRuns(refresh.cycle) \subseteq CycleRuns
    BY <1>0, AssignedAreKnown DEF ObsoleteRuns, TaskIds
  <2>2. refresh' = [refresh EXCEPT !.op = IF ObsoleteRuns(refresh.cycle) = {}
                                            THEN "assign" ELSE "cancel",
                                   !.runs = ObsoleteRuns(refresh.cycle)]
    BY <1>2 DEF SelectObsolete
  <2> QED BY <1>0, <1>2, <2>1, <2>2, KnowledgeLasts DEF SelectObsolete
<1>3. CASE CancelObsolete
  BY <1>0, <1>3, KnowledgeLasts DEF CancelObsolete
<1>4. CASE UnscheduleObsolete
  BY <1>0, <1>4, KnowledgeLasts DEF UnscheduleObsolete
<1>5. CASE SelectDue
  <2>1. Unassigned(refresh.cycle) \subseteq Address
    BY DEF Unassigned
  <2> QED BY <1>0, <1>5, <2>1, KnowledgeLasts DEF SelectDue
<1>6. CASE AssignRuns
  <2>1. CASE refresh' = IdleRefresh
    BY <2>1 DEF IdleRefresh
  <2>2. CASE refresh.op = "insert" /\ refresh' = [refresh EXCEPT !.op = "read", !.due = {}]
    BY <1>0, <2>2, KnowledgeLasts
  <2> QED BY <1>6, <2>1, <2>2 DEF AssignRuns
<1>7. CASE ReadScheduledRuns
  <2>1. ScheduledCycleRuns(refresh.cycle) \subseteq TaskIds
    BY DEF ScheduledCycleRuns
  <2> QED BY <1>0, <1>7, <2>1, KnowledgeLasts DEF ReadScheduledRuns
<1>8. CASE PersistScheduledRuns \/ RefreshFails \/ WebCrash
  BY <1>8 DEF PersistScheduledRuns, RefreshFails, WebCrash, IdleRefresh
<1> QED BY <1>1, <1>2, <1>3, <1>4, <1>5, <1>6, <1>7, <1>8 DEF RefreshStep

LEMMA JobKeys ==
  ASSUME KioskIInv, StoreStep,
         RefreshStep \/ RefreshFails \/ WebCrash \/ \E c \in Cycle : ActivateCycle(c)
  PROVE  RedisPart'
<1>. USE DEF RefreshStep, ActivateCycle, SelectObsolete, CancelObsolete, UnscheduleObsolete,
             SelectDue, AssignRuns, ReadScheduledRuns, PersistScheduledRuns, RefreshFails,
             WebCrash, redisVars, Schedule, Unschedule
<1>1. QueueKnown'
  BY QueueKept
<1>2. KeysKnown'
  <2>1. refresh.runs \in SUBSET TaskIds
    BY DEF KioskIInv, RefreshPart, RefreshKnows
  <2>2. /\ scheduledQueue' \subseteq scheduledQueue \cup refresh.runs
        /\ UNCHANGED <<retryQueue, retryPending, taskLock>>
    OBVIOUS
  <2> QED BY <2>1, <2>2, KnowledgeLasts DEF KioskIInv, RedisPart, KeysKnown
<1>3. FaultsCounted'
  BY FaultsKept DEF FaultKind
<1> QED BY <1>1, <1>2, <1>3 DEF RedisPart

LEMMA JobKeeps ==
  ASSUME KioskIInv, StoreStep, StoreIInv', UNCHANGED worker,
         RefreshStep \/ RefreshFails \/ WebCrash \/ \E c \in Cycle : ActivateCycle(c)
  PROVE  KioskIInv'
<1>1. HandlersPart'
  <2>1. CASE WebCrash
    BY <2>1 DEF WebCrash, IdleHandler, HandlerOp, HandlersPart, HandlersTyped, HandlersKnow,
       HandlerKnows
  <2>2. CASE UNCHANGED handler
    BY <2>2, HandlersKept
  <2> QED BY <2>1, <2>2 DEF RefreshStep, ActivateCycle, SelectObsolete, CancelObsolete,
          UnscheduleObsolete, SelectDue, AssignRuns, ReadScheduledRuns, PersistScheduledRuns,
          RefreshFails
<1> QED BY <1>1, JobRefresh, JobKeys, WorkerKept DEF KioskIInv

----------------------------------------------------------------------------
(* The worker *)

LEMMA GoToKeeps ==
  ASSUME KioskIInv, StoreStep, ~ At("idle"), NEW pc \in WorkerPc \ {"idle", "complete"}, GoTo(pc),
         pc \in {"lock", "claim", "work", "reject"} => worker.email \in Address,
         pc \in {"requeued", "postponed"} => worker.retries < MaxRetries
  PROVE  WorkerPart'
<1>1. WorkerTypeOK /\ worker.run \in TaskIds
  BY DEF KioskIInv, WorkerPart, WorkerKnows
<1>2. WorkerTypeOK'
  BY <1>1 DEF GoTo, WorkerTypeOK
<1>3. /\ worker'.pc = pc /\ worker'.run = worker.run /\ worker'.email = worker.email
      /\ worker'.retries = worker.retries
  BY <1>1 DEF GoTo, WorkerTypeOK
<1> QED BY <1>1, <1>2, <1>3, KnowledgeLasts DEF WorkerPart, WorkerKnows, At, KioskIInv

LEMMA GoIdleKeeps ==
  ASSUME GoIdle
  PROVE  WorkerPart'
<1>1. NoGames \in [Title -> GameState \cup {None}] /\ 0 \in 0 .. MaxRetries
  BY StoreAssumption DEF StoreAssumption, NoGames
<1> QED BY <1>1 DEF GoIdle, IdleWorker, WorkerPart, WorkerTypeOK, WorkerKnows, WorkerPc, At

(* The worker takes a run. *)
LEMMA TakeKeeps ==
  ASSUME KioskIInv, StoreStep, NEW r \in TaskIds, NEW pc \in {"status", "retry", "load"},
         worker' = [worker EXCEPT !.pc = pc, !.run = r]
  PROVE  WorkerPart'
<1>1. WorkerTypeOK /\ r \in Run
  BY DEF KioskIInv, WorkerPart, TaskIds
<1>2. WorkerTypeOK'
  BY <1>1 DEF WorkerTypeOK, WorkerPc
<1>3. worker'.pc = pc /\ worker'.run = r
  BY <1>1 DEF WorkerTypeOK
<1> QED BY <1>2, <1>3, KnowledgeLasts DEF WorkerPart, WorkerKnows, At, KioskIInv

LEMMA ReadStatusKeeps ==
  ASSUME KioskIInv, StoreStep, ReadStatus
  PROVE  WorkerPart'
<1>1. CASE worker' = [worker EXCEPT !.pc = "lock", !.email = taskRuns[worker.run].email]
  <2>1. WorkerTypeOK /\ worker.run \in TaskIds /\ taskRuns[worker.run].email \in Address
    BY RowTyped DEF KioskIInv, WorkerPart, WorkerKnows, ReadStatus, At
  <2>2. WorkerTypeOK'
    BY <1>1, <2>1 DEF WorkerTypeOK, WorkerPc
  <2>3. worker'.pc = "lock" /\ worker'.run = worker.run /\ worker'.email \in Address
    BY <1>1, <2>1 DEF WorkerTypeOK
  <2> QED BY <2>1, <2>2, <2>3, KnowledgeLasts DEF WorkerPart, WorkerKnows, At, KioskIInv
<1>2. CASE GoTo("cancel") \/ GoTo("restore")
  BY <1>2, GoToKeeps DEF ReadStatus, At, WorkerPc
<1> QED BY <1>1, <1>2 DEF ReadStatus

LEMMA LoadContextKeeps ==
  ASSUME KioskIInv, StoreStep, LoadContext
  PROVE  WorkerPart'
<1>1. CASE GoTo("badcontext")
  BY <1>1, GoToKeeps DEF LoadContext, At, WorkerPc
<1>2. CASE worker' = [worker EXCEPT
                        !.pc = IF TaskCycleIsActive(worker.run) THEN "claim" ELSE "stale",
                        !.email = taskRuns[worker.run].email,
                        !.retries = taskRuns[worker.run].retries]
  <2>1. /\ WorkerTypeOK /\ worker.run \in TaskIds /\ taskRuns[worker.run].email \in Address
        /\ taskRuns[worker.run].retries \in 0 .. MaxRetries
    BY RowTyped DEF KioskIInv, WorkerPart, WorkerKnows, LoadContext, At
  <2>2. WorkerTypeOK'
    BY <1>2, <2>1 DEF WorkerTypeOK, WorkerPc
  <2>3. worker'.pc \in {"claim", "stale"} /\ worker'.run = worker.run /\ worker'.email \in Address
    BY <1>2, <2>1 DEF WorkerTypeOK
  <2> QED BY <2>1, <2>2, <2>3, KnowledgeLasts DEF WorkerPart, WorkerKnows, At, KioskIInv
<1> QED BY <1>1, <1>2 DEF LoadContext

LEMMA RetryFailsKeeps ==
  ASSUME KioskIInv, StoreStep, RetryFails
  PROVE  WorkerPart'
<1>1. WorkerTypeOK /\ worker.run \in TaskIds
  BY DEF KioskIInv, WorkerPart, WorkerKnows, RetryFails, At
<1>2. PICK pc \in {"error", "uncaught"}, counted \in 0 .. 1 :
        worker' = [worker EXCEPT !.pc = pc, !.retries = @ + counted]
  BY DEF RetryFails
<1>3. worker.retries + counted \in 0 .. MaxRetries
  BY <1>1, StoreAssumption DEF StoreAssumption, RetryFails, WorkerTypeOK
<1>4. WorkerTypeOK'
  BY <1>1, <1>2, <1>3 DEF WorkerTypeOK, WorkerPc
<1>5. worker'.pc \in {"error", "uncaught"} /\ worker'.run = worker.run
  BY <1>1, <1>2 DEF WorkerTypeOK
<1> QED BY <1>1, <1>4, <1>5, KnowledgeLasts DEF WorkerPart, WorkerKnows, At, KioskIInv

LEMMA RecordResultKeeps ==
  ASSUME KioskIInv, StoreStep, NEW t \in Title, NEW g \in Reported, RecordResult(t, g)
  PROVE  WorkerPart'
<1>1. WorkerTypeOK /\ worker.run \in TaskIds /\ worker.email \in Address /\ g \in GameState
  BY StoreAssumption
  DEF StoreAssumption, KioskIInv, WorkerPart, WorkerKnows, RecordResult, At
<1>2. worker' = [worker EXCEPT !.games = [worker.games EXCEPT ![t] = g]] /\ worker.pc = "work"
  BY <1>1 DEF RecordResult, At, WorkerTypeOK
<1>3. WorkerTypeOK'
  <2>1. [worker.games EXCEPT ![t] = g] \in [Title -> GameState \cup {None}]
    BY <1>1 DEF WorkerTypeOK
  <2> QED BY <1>1, <1>2, <2>1 DEF WorkerTypeOK
<1>4. worker'.pc = "work" /\ worker'.run = worker.run /\ worker'.email = worker.email
  BY <1>1, <1>2 DEF WorkerTypeOK
<1> QED BY <1>1, <1>3, <1>4, KnowledgeLasts DEF WorkerPart, WorkerKnows, At, KioskIInv

LEMMA ClaimDoneKeeps ==
  ASSUME KioskIInv, StoreStep, ClaimDone
  PROVE  WorkerPart'
<1>1. CASE GoTo("final")
  BY <1>1, GoToKeeps DEF ClaimDone, At, WorkerPc
<1>2. CASE ReadOwner /\ CycleReady(worker.run)
  <2>1. /\ WorkerTypeOK /\ worker.run \in TaskIds /\ taskRuns[worker.run].email \in Address
        /\ worker.run \in CycleRuns
    BY <1>2, RowTyped DEF KioskIInv, WorkerPart, WorkerKnows, ClaimDone, At, CycleReady, CycleRuns
  <2>2. WorkerTypeOK'
    BY <1>2, <2>1 DEF WorkerTypeOK, WorkerPc, ReadOwner
  <2>3. /\ worker'.pc = "complete" /\ worker'.run = worker.run
        /\ worker'.owner = taskRuns[worker.run].email
    BY <1>2, <2>1 DEF WorkerTypeOK, ReadOwner
  <2> QED BY <2>1, <2>2, <2>3, KnowledgeLasts DEF WorkerPart, WorkerKnows, At, KioskIInv
<1> QED BY <1>1, <1>2 DEF ClaimDone

LEMMA WorkerMoves ==
  ASSUME KioskIInv, StoreStep, WorkerNext
  PROVE  WorkerPart'
<1>0. /\ scheduledQueue \subseteq TaskIds /\ retryQueue \subseteq TaskIds
      /\ worker.pc \in {"lock", "claim", "work", "reject"} => worker.email \in Address
  BY DEF KioskIInv, RedisPart, KeysKnown, WorkerPart, WorkerKnows
<1>. USE DEF At, WorkerPc
<1>1. CASE \E r \in Run : TakeScheduled(r) \/ TakeRetry(r)
  BY <1>0, <1>1, TakeKeeps DEF TakeScheduled, TakeRetry
<1>2. CASE PopTask
  BY <1>2, TakeKeeps, QueuePopped DEF PopTask
<1>3. CASE ReadStatus     BY <1>3, ReadStatusKeeps
<1>4. CASE LockScheduled  BY <1>4, GoToKeeps, GoIdleKeeps DEF LockScheduled
<1>5. CASE QueueScheduled BY <1>5, GoToKeeps DEF QueueScheduled
<1>6. CASE \/ PushScheduled \/ CancelScheduled \/ RestoreScheduled \/ PushRetry
           \/ UnlockUnstarted \/ Finish \/ WorkerCrash
  BY <1>6, GoIdleKeeps DEF PushScheduled, CancelScheduled, RestoreScheduled, PushRetry,
     UnlockUnstarted, Finish, WorkerCrash
<1>7. CASE LoadContext    BY <1>7, LoadContextKeeps
<1>8. CASE FailUnstarted \/ FailUncaught
  BY <1>8, GoToKeeps DEF FailUnstarted, FailUncaught
<1>9. CASE BeginTask      BY <1>0, <1>9, GoToKeeps DEF BeginTask
<1>10. CASE \E t \in Title, g \in Reported : RecordResult(t, g)
  BY <1>10, RecordResultKeeps
<1>11. CASE RetryNow \/ RetryLater
  BY <1>11, GoToKeeps DEF RetryNow, RetryLater
<1>12. CASE RecordRetry   BY <1>12, GoToKeeps DEF RecordRetry
<1>13. CASE (\E s \in TaskState : GiveUp(s)) \/ SystemError \/ NukeRequestLost \/ Succeed
  BY <1>13, GoToKeeps DEF GiveUp, SystemError, NukeRequestLost, Succeed
<1>14. CASE RejectCredentials
  BY <1>0, <1>14, GoToKeeps DEF RejectCredentials
<1>15. CASE VerifyPassed  BY <1>15, GoToKeeps DEF VerifyPassed
<1>16. CASE ClaimDone     BY <1>16, ClaimDoneKeeps
<1>17. CASE CompleteCycle BY <1>17, GoToKeeps DEF CompleteCycle
<1>18. CASE LockScheduledFails \/ PushScheduledFails \/ BeginTaskFails \/ FeedbackFails
  BY <1>18, GoToKeeps DEF LockScheduledFails, PushScheduledFails, BeginTaskFails, FeedbackFails
<1>19. CASE PopLost       BY <1>19, WorkerKept DEF PopLost
<1>20. CASE RetryFails    BY <1>20, RetryFailsKeeps
<1>21. CASE ReleaseUncaught
  BY <1>21, GoToKeeps, GoIdleKeeps DEF ReleaseUncaught
<1> QED BY <1>1, <1>2, <1>3, <1>4, <1>5, <1>6, <1>7, <1>8, <1>9, <1>10, <1>11, <1>12, <1>13,
           <1>14, <1>15, <1>16, <1>17, <1>18, <1>19, <1>20, <1>21
        DEF WorkerNext, WorkerStep, WorkerFault

(* What the worker takes from the queues and puts back. *)
LEMMA WorkerQueue ==
  ASSUME KioskIInv, StoreStep, WorkerNext
  PROVE  QueueKnown'
<1>0. ~ At("idle") => worker.run \in TaskIds
  BY DEF KioskIInv, WorkerPart, WorkerKnows
<1>1. CASE PushScheduled \/ PushRetry \/ RetryNow
  BY <1>0, <1>1, QueuePushed DEF PushScheduled, PushRetry, RetryNow, RPush, At
<1>2. CASE PushScheduledFails \/ RetryFails
  BY <1>0, <1>2, QueuePushed, QueueKept DEF PushScheduledFails, RetryFails, RPush, redisVars, At
<1>3. CASE PopTask \/ PopLost
  BY <1>3, QueuePopped DEF PopTask, PopLost
<1>4. CASE UNCHANGED taskQueue
  BY <1>4, QueueKept
<1> QED BY <1>1, <1>2, <1>3, <1>4
        DEF WorkerNext, WorkerStep, WorkerFault, TakeScheduled, TakeRetry, ReadStatus,
            LockScheduled, QueueScheduled, CancelScheduled, RestoreScheduled, LoadContext,
            FailUnstarted, UnlockUnstarted, FailUncaught, ReleaseUncaught, BeginTask, RecordResult,
            RetryLater, RecordRetry, GiveUp, SystemError, RejectCredentials, NukeRequestLost,
            VerifyPassed, ClaimDone, CompleteCycle, Succeed, Finish, LockScheduledFails,
            BeginTaskFails, FeedbackFails, WorkerCrash, redisVars, SetLock, DeleteLock, Schedule, Unschedule

LEMMA WorkerKeys ==
  ASSUME KioskIInv, StoreStep, WorkerNext
  PROVE  KeysKnown'
<1>. DEFINE R == {r \in {worker.run} : ~ At("idle")}
            L == {a \in {worker.email} : worker.pc \in {"lock", "claim"}}
<1>0. R \in SUBSET TaskIds /\ L \in SUBSET Address
  BY DEF KioskIInv, WorkerPart, WorkerKnows
<1>1. /\ scheduledQueue' \subseteq scheduledQueue \cup R
      /\ retryQueue' \subseteq retryQueue \cup R
      /\ retryPending' \subseteq retryPending \cup R
      /\ taskLock' \subseteq taskLock \cup L
  <2>. USE DEF redisVars, RPush, SetLock, DeleteLock, Schedule, Unschedule, At
  <2>1. CASE LockScheduled \/ RestoreScheduled
    BY <2>1 DEF LockScheduled, RestoreScheduled
  <2>2. CASE BeginTask
    BY <2>2 DEF BeginTask
  <2>3. CASE RetryNow \/ RetryLater \/ RetryFails
    BY <2>3 DEF RetryNow, RetryLater, RetryFails
  <2>4. CASE PushScheduledFails
    BY <2>4 DEF PushScheduledFails
  <2>5. CASE /\ scheduledQueue' \subseteq scheduledQueue /\ retryQueue' \subseteq retryQueue
             /\ retryPending' \subseteq retryPending /\ taskLock' \subseteq taskLock
    BY <2>5
  <2> QED BY <2>1, <2>2, <2>3, <2>4, <2>5
          DEF WorkerNext, WorkerStep, WorkerFault, TakeScheduled, TakeRetry, PopTask, ReadStatus,
              QueueScheduled, PushScheduled, PushRetry, CancelScheduled, LoadContext,
              FailUnstarted, UnlockUnstarted, FailUncaught, ReleaseUncaught, RecordResult,
              RecordRetry, GiveUp, SystemError, RejectCredentials, NukeRequestLost, VerifyPassed,
              ClaimDone, CompleteCycle, Succeed, Finish, LockScheduledFails, PopLost,
              BeginTaskFails, FeedbackFails, WorkerCrash
<1> QED BY <1>0, <1>1, KnowledgeLasts DEF KioskIInv, RedisPart, KeysKnown

LEMMA WorkerKeeps ==
  ASSUME KioskIInv, StoreStep, StoreIInv', UNCHANGED webVars, WorkerNext
  PROVE  KioskIInv'
<1>1. FaultsCounted'
  BY FaultsKept
  DEF WorkerNext, WorkerStep, WorkerFault, TakeScheduled, TakeRetry, PopTask, ReadStatus,
      LockScheduled, QueueScheduled, PushScheduled, PushRetry, CancelScheduled,
      RestoreScheduled, LoadContext, FailUnstarted, UnlockUnstarted, FailUncaught,
      ReleaseUncaught, BeginTask, RecordResult, RetryNow, RetryLater, RecordRetry, GiveUp,
      SystemError, RejectCredentials, NukeRequestLost, VerifyPassed, ClaimDone, CompleteCycle,
      Succeed, Finish, LockScheduledFails, PushScheduledFails, PopLost, BeginTaskFails,
      RetryFails, FeedbackFails, WorkerCrash,
      FaultKind
<1>2. RedisPart'
  BY <1>1, WorkerQueue, WorkerKeys DEF RedisPart
<1> QED BY <1>2, WorkerMoves, HandlersKept, RefreshKept DEF KioskIInv, webVars

----------------------------------------------------------------------------
(* The kiosk *)

LEMMA RequestNukeKeeps ==
  ASSUME KioskIInv, StoreStep, StoreIInv', NEW t \in Thread, RequestNuke(t)
  PROVE  KioskIInv'
<1>1. worker.email \in Address /\ ~ At("idle")
  BY DEF RequestNuke, KioskIInv, WorkerPart, WorkerKnows, At
<1>2. HandlersPart'
  BY <1>1, TurnKeepsAddress DEF RequestNuke
<1>3. WorkerPart'
  BY <1>1, GoToKeeps DEF RequestNuke, WorkerPc
<1>4. RedisPart'
  BY QueueKept, FaultsKept, KnowledgeLasts
  DEF RequestNuke, redisVars, RedisPart, KeysKnown, FaultKind, KioskIInv
<1> QED BY <1>2, <1>3, <1>4, RefreshKept DEF RequestNuke, KioskIInv

LEMMA TimeKeeps ==
  ASSUME KioskIInv, StoreStep, StoreIInv', UNCHANGED <<webVars, worker>>, TimePasses
  PROVE  KioskIInv'
<1>1. /\ UNCHANGED <<taskQueue, scheduledQueue, retryQueue, retryPending>>
      /\ taskLock' \subseteq taskLock
      /\ \E k \in FaultKind : Suffer(k)
  BY DEF TimePasses, redisVars, LockExpires, DeleteLock, FaultKind
<1>2. RedisPart'
  BY <1>1, QueueKept, FaultsKept, KnowledgeLasts DEF RedisPart, KeysKnown, KioskIInv
<1> QED BY <1>2, HandlersKept, RefreshKept, WorkerKept DEF KioskIInv, webVars

LEMMA KioskInitOK == KioskInit => KioskIInv
<1>. SUFFICES ASSUME KioskInit PROVE KioskIInv
  OBVIOUS
<1>1. StoreIInv
  BY InitInvariant DEF KioskInit
<1>2. RedisPart
  BY DEF KioskInit, RedisInit, RedisPart, QueueKnown, KeysKnown, FaultsCounted, Waiting
<1>3. HandlersPart /\ RefreshPart
  BY DEF KioskInit, WebInit, IdleHandler, IdleRefresh, HandlersPart, HandlersTyped, HandlersKnow,
     HandlerKnows, RefreshPart, RefreshTyped, RefreshKnows, HandlerOp, RefreshOp
<1>4. WorkerPart
  <2>1. NoGames \in [Title -> GameState \cup {None}] /\ 0 \in 0 .. MaxRetries
    BY StoreAssumption DEF StoreAssumption, NoGames
  <2> QED BY <2>1 DEF KioskInit, WorkerInit, IdleWorker, WorkerPart, WorkerTypeOK, WorkerKnows,
          WorkerPc, At
<1> QED BY <1>1, <1>2, <1>3, <1>4 DEF KioskIInv

LEMMA KioskStepKeeps ==
  ASSUME KioskIInv, [KioskNext]_kioskVars
  PROVE  KioskIInv' /\ [StoreNext]_storeVars
<1>1. StoreStep
  BY KioskImplementsStep
<1>2. StoreIInv'
  BY <1>1, NextType, PendingMatchStep, ProfileMatchStep, CycleRunsClaimStep, ReferencesMatchStep,
     AssignedOnceStep, UserIsolationStep DEF KioskIInv, StoreIInv, StoreStep
<1>. SUFFICES KioskIInv'
  BY <1>1 DEF StoreStep
<1>3. CASE WebNext /\ UNCHANGED worker
  BY <1>1, <1>2, <1>3, ThreadKeeps, JobKeeps DEF WebNext
<1>4. CASE WorkerNext /\ UNCHANGED webVars
  BY <1>1, <1>2, <1>4, WorkerKeeps
<1>5. CASE \E t \in Thread : RequestNuke(t)
  BY <1>1, <1>2, <1>5, RequestNukeKeeps
<1>6. CASE TimePasses /\ UNCHANGED <<webVars, worker>>
  BY <1>1, <1>2, <1>6, TimeKeeps
<1>7. CASE UNCHANGED kioskVars
  <2>1. RedisPart'
    BY <1>1, <1>7, QueueKept, FaultsKept, KnowledgeLasts
    DEF kioskVars, redisVars, RedisPart, KeysKnown, KioskIInv
  <2> QED BY <1>1, <1>2, <1>7, <2>1, HandlersKept, RefreshKept, WorkerKept
          DEF KioskIInv, kioskVars, webVars
<1> QED BY <1>3, <1>4, <1>5, <1>6, <1>7 DEF KioskNext

(* What handlers, job, worker and queues remember is true of the store.     *)
THEOREM KioskInvariant == KioskSpec => []KioskIInv
BY KioskInitOK, KioskStepKeeps, PTL DEF KioskSpec

(* Every variable of the composed kiosk keeps its type: no run is queued,   *)
(* locked for or executed that does not exist, no retry exceeds its limit.  *)
THEOREM KioskTypeCorrect == KioskSpec => []KioskTypeOK
<1>1. KioskIInv => KioskTypeOK
  BY DEF KioskIInv, KioskTypeOK, StoreIInv, RedisPart, QueueKnown, KeysKnown, FaultsCounted,
     RedisTypeOK, HandlersPart, HandlersTyped, RefreshPart, RefreshTyped, WebTypeOK, WorkerPart,
     TaskIds
<1> QED BY <1>1, KioskInvariant, PTL

(* Web process and worker, with all their interleavings, crashes, lost      *)
(* replies and expiries, write to the store only what StoreSpec allows.     *)
THEOREM KioskImplementsStore == KioskSpec => StoreSpec
<1>1. KioskInit => StoreInit
  BY DEF KioskInit
<1> QED BY <1>1, KioskInvariant, KioskStepKeeps, PTL DEF KioskSpec, StoreSpec

(* What is proved of the store holds of the kiosk: users do not share their *)
(* login, a failed run keeps no password, references match, and a cycle is  *)
(* claimed once for an account.                                             *)
THEOREM KioskKeepsStore ==
  KioskSpec =>
    [](UserIsolation /\ NoCredentialAfterFailure /\ ReferencesMatch /\ OneClaimRunPerCycle)
BY KioskImplementsStore, UsersAreIsolated, CredentialsAreDropped, ReferencesAlwaysMatch,
   CyclesAreClaimedOnce, PTL

----------------------------------------------------------------------------
(* The lock of an account *)

(* The conditions of LockCoversWork. *)
Clear == Never({"expiry", "redis", "crash", "deletion"})

Mail(r) == taskRuns[r].email

Pushes(t) == handler[t].op = "push"

(* Holders of an address: an entry of a queue, a handler before its RPUSH,  *)
(* and the worker, until it ends the run or has put it into a queue again.  *)
HoldingPc == {"queue", "push", "retry", "load", "claim", "stale", "badcontext", "release",
              "unlock", "work", "error", "reject", "complete", "done"}

WorkerHolds == worker.pc \in HoldingPc \/ (At("final") /\ worker.run \notin retryPending)

(* Nobody deletes anything, and handlers use the address of their run. *)
HandlersQuiet ==
  \A t \in Thread :
    /\ handler[t].op \notin {"nuke", "delete", "unlock"}
    /\ handler[t].op \in {"enqueue", "push"} => handler[t].email = Mail(handler[t].run)

(* So does the worker, where it has one; run_task raises nothing. *)
WorkerMail ==
  /\ worker.pc \in {"idle", "status", "retry", "load", "badcontext", "release", "cancel",
                    "restore"} =>
       worker.email = None
  /\ worker.pc \in {"lock", "queue", "push", "claim", "stale", "unlock", "work", "requeued",
                    "postponed", "error", "reject", "complete", "done", "final"} =>
       worker.email = Mail(worker.run)
  /\ ~ At("uncaught")

(* retry_pending tells the finally clause whether the run is in a queue.    *)
MarksTell ==
  /\ worker.pc \in {"work", "error", "reject", "complete", "done"} =>
       worker.run \notin retryPending
  /\ worker.pc \in {"requeued", "postponed"} => worker.run \in retryPending
  /\ worker.pc \in {"requeued", "postponed", "final"} /\ worker.run \in retryPending =>
       worker.run \in Waiting \cup retryQueue

(* Every holder has the lock, and is the only one of its address. *)
LocksHeld ==
  /\ \A i \in DOMAIN taskQueue : Mail(taskQueue[i]) \in taskLock
  /\ \A r \in retryQueue : Mail(r) \in taskLock
  /\ \A t \in Thread : Pushes(t) => Mail(handler[t].run) \in taskLock
  /\ WorkerHolds => Mail(worker.run) \in taskLock

EntriesDiffer ==
  \A i, j \in DOMAIN taskQueue : i # j => Mail(taskQueue[i]) # Mail(taskQueue[j])

EntriesAlone ==
  \A i \in DOMAIN taskQueue :
    /\ \A r \in retryQueue : Mail(taskQueue[i]) # Mail(r)
    /\ \A t \in Thread : Pushes(t) => Mail(taskQueue[i]) # Mail(handler[t].run)
    /\ WorkerHolds => Mail(taskQueue[i]) # Mail(worker.run)

OthersDiffer ==
  /\ \A q, r \in retryQueue : q # r => Mail(q) # Mail(r)
  /\ \A t, u \in Thread : t # u /\ Pushes(t) /\ Pushes(u) =>
       Mail(handler[t].run) # Mail(handler[u].run)
  /\ \A r \in retryQueue :
       /\ \A t \in Thread : Pushes(t) => Mail(r) # Mail(handler[t].run)
       /\ WorkerHolds => Mail(r) # Mail(worker.run)
  /\ \A t \in Thread : Pushes(t) /\ WorkerHolds => Mail(handler[t].run) # Mail(worker.run)

HoldersApart == EntriesDiffer /\ EntriesAlone /\ OthersDiffer

LockPart == HandlersQuiet /\ WorkerMail /\ MarksTell /\ LocksHeld /\ HoldersApart

LockIInv == KioskIInv /\ (Clear => LockPart)

(* What ends the conditions ends them for good. *)
LEMMA FaultsMove ==
  ASSUME KioskIInv, [KioskNext]_kioskVars
  PROVE  UNCHANGED faults \/ \E k \in FaultKind : Suffer(k)
<1>. USE DEF FaultKind
<1>1. CASE \E t \in Thread : Handle(t) \/ Request(t) \/ HandlerFails(t)
  BY <1>1
  DEF Handle, Request, HandlerFails, EnqueueFails, DropLockFails, EnqueueTask, PushTask,
      RejectDuplicate, ReadPending, SaveAccount, NukeAccount, RemoveAccount, DropLock, Deposit,
      DeleteAccount, ReadSucceededRun
<1>2. CASE RefreshStep \/ RefreshFails \/ WebCrash \/ \E c \in Cycle : ActivateCycle(c)
  BY <1>2 DEF RefreshStep, ActivateCycle, SelectObsolete, CancelObsolete, UnscheduleObsolete,
     SelectDue, AssignRuns, ReadScheduledRuns, PersistScheduledRuns, RefreshFails, WebCrash
<1>3. CASE WorkerNext
  BY <1>3
  DEF WorkerNext, WorkerStep, WorkerFault, TakeScheduled, TakeRetry, PopTask, ReadStatus,
      LockScheduled, QueueScheduled, PushScheduled, PushRetry, CancelScheduled,
      RestoreScheduled, LoadContext, FailUnstarted, UnlockUnstarted, FailUncaught,
      ReleaseUncaught, BeginTask, RecordResult, RetryNow, RetryLater, RecordRetry, GiveUp,
      SystemError, RejectCredentials, NukeRequestLost, VerifyPassed, ClaimDone, CompleteCycle,
      Succeed, Finish, LockScheduledFails, PushScheduledFails, PopLost, BeginTaskFails,
      RetryFails, FeedbackFails, WorkerCrash
<1>4. CASE \E t \in Thread : RequestNuke(t)
  BY <1>4 DEF RequestNuke
<1>5. CASE TimePasses
  BY <1>5 DEF TimePasses, LockExpires
<1>6. CASE UNCHANGED kioskVars
  BY <1>6 DEF kioskVars
<1> QED BY <1>1, <1>2, <1>3, <1>4, <1>5, <1>6 DEF KioskNext, WebNext

LEMMA ClearBefore ==
  ASSUME KioskIInv, [KioskNext]_kioskVars, Clear'
  PROVE  Clear
  BY FaultsMove DEF KioskIInv, RedisPart, FaultsCounted, Suffer, Clear, Never, FaultKind

LEMMA NotSuffered ==
  ASSUME KioskIInv, NEW k \in {"expiry", "redis", "crash", "deletion"}, Suffer(k)
  PROVE  ~ Clear'
  BY DEF KioskIInv, RedisPart, FaultsCounted, Suffer, Clear, Never, FaultKind

(* Only a deletion gives a run another address.                             *)
LEMMA UpdateMails ==
  ASSUME KioskIInv, NEW q \in TaskIds, NEW s, NEW n, UpdateTask(q, s, n)
  PROVE  \A r \in TaskIds : Mail(r)' = Mail(r)
  BY DEF UpdateTask, Mail, TaskIds, KioskIInv, StoreIInv, StoreTypeOK, TaskRow

LEMMA AssignMails ==
  ASSUME KioskIInv, NEW c, NEW due \in SUBSET Address, CreateCycleAssignments(c, due)
  PROVE  \A r \in TaskIds : Mail(r)' = Mail(r)
<1>1. PICK f \in [due -> Run] :
        /\ IsFresh({f[a] : a \in due})
        /\ taskRuns' = [r \in Run |->
             IF \E a \in due : f[a] = r
             THEN [email |-> CHOOSE a \in due : f[a] = r, mode |-> "claim",
                   state |-> "scheduled", cycle |-> c, retries |-> 0, profile |-> None]
             ELSE taskRuns[r]]
  BY DEF CreateCycleAssignments
<1>2. ASSUME NEW r \in TaskIds PROVE taskRuns'[r] = taskRuns[r]
  BY <1>1 DEF IsFresh, TaskIds
<1> QED BY <1>2 DEF Mail

LEMMA ThreadMails ==
  ASSUME KioskIInv, NEW t \in Thread, Handle(t) \/ Request(t) \/ HandlerFails(t), ~ RemoveAccount(t)
  PROVE  \A r \in TaskIds : Mail(r)' = Mail(r)
<1>1. CASE \E a \in Address : Deposit(t, a)
  BY <1>1 DEF Deposit, CreateTaskRun, IsFresh, Mail, TaskIds, KioskIInv, StoreIInv, StoreTypeOK
<1>2. CASE RejectDuplicate(t)
  BY <1>2, UpdateMails DEF RejectDuplicate, SetState
<1>3. CASE UNCHANGED taskRuns
  BY <1>3 DEF Mail
<1> QED BY <1>1, <1>2, <1>3
        DEF Handle, Request, HandlerFails, EnqueueFails, DropLockFails, EnqueueTask, PushTask,
            ReadPending, SaveAccount, ConfirmPendingAccount, NukeAccount, DropLock, DeleteAccount,
            ReadSucceededRun, storeVars

LEMMA JobMails ==
  ASSUME KioskIInv,
         RefreshStep \/ RefreshFails \/ WebCrash \/ \E c \in Cycle : ActivateCycle(c)
  PROVE  \A r \in TaskIds : Mail(r)' = Mail(r)
<1>1. CASE CancelObsolete
  <2>1. refresh.runs \subseteq TaskIds
    BY DEF KioskIInv, RefreshPart, RefreshKnows
  <2> QED BY <1>1, <2>1 DEF CancelObsolete, CancelObsoleteScheduledRuns, Mail, TaskIds, KioskIInv,
          StoreIInv, StoreTypeOK, TaskRow
<1>2. CASE AssignRuns
  <2>1. refresh.due \in SUBSET Address
    BY DEF KioskIInv, RefreshPart, RefreshTyped
  <2>2. CASE UNCHANGED storeVars
    BY <2>2 DEF storeVars, Mail
  <2> QED BY <1>2, <2>1, <2>2, AssignMails DEF AssignRuns
<1>3. CASE UNCHANGED taskRuns
  BY <1>3 DEF Mail
<1> QED BY <1>1, <1>2, <1>3
        DEF RefreshStep, ActivateCycle, SetActivePromotionCycle, SelectObsolete,
            UnscheduleObsolete, SelectDue, ReadScheduledRuns, PersistScheduledRuns, RefreshFails,
            WebCrash, storeVars

LEMMA WorkerMails ==
  ASSUME KioskIInv, WorkerNext
  PROVE  \A r \in TaskIds : Mail(r)' = Mail(r)
<1>1. CASE \E s, n : worker.run \in TaskIds /\ UpdateTask(worker.run, s, n)
  BY <1>1, UpdateMails
<1>2. CASE UNCHANGED taskRuns
  BY <1>2 DEF Mail
<1>3. CASE \/ QueueScheduled \/ CancelScheduled \/ RestoreScheduled \/ PushRetry \/ FailUnstarted
           \/ FailUncaught \/ BeginTask \/ RecordRetry \/ (\E s \in TaskState : GiveUp(s)) \/ SystemError
           \/ RejectCredentials \/ ClaimDone \/ Succeed
  <2>1. CASE ClaimDone
    BY <1>1, <1>2, <2>1 DEF ClaimDone, SetState, UpdateTask, storeVars
  <2> QED BY <1>1, <1>3, <2>1 DEF QueueScheduled, CancelScheduled, RestoreScheduled, PushRetry,
          FailUnstarted, FailUncaught, BeginTask, RecordRetry, GiveUp, SystemError,
          RejectCredentials, Succeed,
          SetState, UpdateTask
<1> QED BY <1>2, <1>3
        DEF WorkerNext, WorkerStep, WorkerFault, TakeScheduled, TakeRetry, PopTask, ReadStatus,
            LockScheduled, PushScheduled, LoadContext, LoadTaskContext, UnlockUnstarted,
            ReleaseUncaught, RecordResult, RecordGameResult, RetryNow, RetryLater, NukeRequestLost, VerifyPassed,
            CompleteCycle, MarkCycleComplete, Finish, LockScheduledFails, PushScheduledFails,
            PopLost, BeginTaskFails, RetryFails, FeedbackFails, WorkerCrash, storeVars

----------------------------------------------------------------------------
(* How holders change: one gets the lock, hands it on, or gives it back *)

MailsStay == \A r \in TaskIds : Mail(r)' = Mail(r)

Holders == LocksHeld /\ HoldersApart

LEMMA HoldersKnown ==
  ASSUME KioskIInv
  PROVE  /\ \A i \in DOMAIN taskQueue : taskQueue[i] \in TaskIds
         /\ \A r \in retryQueue : r \in TaskIds
         /\ \A t \in Thread : Pushes(t) => handler[t].run \in TaskIds
         /\ ~ At("idle") => worker.run \in TaskIds
         /\ WorkerHolds => worker.run \in TaskIds
  BY DEF KioskIInv, RedisPart, QueueKnown, KeysKnown, Waiting, HandlersPart, HandlersKnow,
         HandlerKnows, Pushes, WorkerPart, WorkerKnows, WorkerHolds, HoldingPc, At

(* Handlers that are not at their RPUSH, or were before already. *)
PushersStay ==
  \A t \in Thread : Pushes(t)' => Pushes(t) /\ handler'[t].run = handler[t].run

WorkerStays == WorkerHolds' => WorkerHolds /\ worker'.run = worker.run

LEMMA HoldersStay ==
  ASSUME KioskIInv, Holders, MailsStay, UNCHANGED <<taskQueue, retryQueue>>,
         PushersStay, WorkerStays, taskLock \subseteq taskLock'
  PROVE  Holders'
  BY HoldersKnown
  DEF Holders, LocksHeld, HoldersApart, EntriesDiffer, EntriesAlone, OthersDiffer, MailsStay,
      PushersStay, WorkerStays, Mail

(* SET NX: nobody else holds what is not locked. *)
LEMMA HandlerLocks ==
  ASSUME KioskIInv, Holders, MailsStay, UNCHANGED <<taskQueue, retryQueue>>, NEW t \in Thread,
         handler'[t].run = handler[t].run, handler[t].run \in TaskIds,
         Mail(handler[t].run) \notin taskLock,
         \A u \in Thread \ {t} : handler'[u] = handler[u],
         WorkerStays, taskLock' = taskLock \cup {Mail(handler[t].run)}
  PROVE  Holders'
<1>1. \A u \in Thread \ {t} : Pushes(u)' = Pushes(u)
  BY DEF Pushes
<1> QED BY <1>1, HoldersKnown
        DEF Holders, LocksHeld, HoldersApart, EntriesDiffer, EntriesAlone, OthersDiffer,
            MailsStay, WorkerStays, Mail

LEMMA WorkerLocks ==
  ASSUME KioskIInv, Holders, MailsStay, UNCHANGED <<taskQueue, retryQueue>>, PushersStay,
         worker'.run = worker.run, worker.run \in TaskIds,
         Mail(worker.run) \notin taskLock, taskLock' = taskLock \cup {Mail(worker.run)}
  PROVE  Holders'
  BY HoldersKnown
  DEF Holders, LocksHeld, HoldersApart, EntriesDiffer, EntriesAlone, OthersDiffer, MailsStay,
      PushersStay, Mail

LEMMA Appended ==
  ASSUME KioskIInv, NEW r \in TaskIds, taskQueue' = Append(taskQueue, r)
  PROVE  /\ DOMAIN taskQueue' = DOMAIN taskQueue \cup {Len(taskQueue) + 1}
         /\ Len(taskQueue) + 1 \notin DOMAIN taskQueue
         /\ taskQueue'[Len(taskQueue) + 1] = r
         /\ \A i \in DOMAIN taskQueue : taskQueue'[i] = taskQueue[i]
<1>1. taskQueue \in Seq(Run) /\ r \in Run
  BY DEF KioskIInv, RedisPart, QueueKnown, TaskIds
<1>2. /\ taskQueue' \in Seq(Run) /\ Len(taskQueue') = Len(taskQueue) + 1
      /\ taskQueue'[Len(taskQueue) + 1] = r
      /\ \A i \in 1 .. Len(taskQueue) : taskQueue'[i] = taskQueue[i]
  BY <1>1
<1>3. Len(taskQueue) \in Nat
  BY <1>1
<1>4. DOMAIN taskQueue = 1 .. Len(taskQueue) /\ DOMAIN taskQueue' = 1 .. Len(taskQueue) + 1
  BY <1>1, <1>2
<1> QED BY <1>2, <1>3, <1>4

LEMMA HandlerHandsOver ==
  ASSUME KioskIInv, Holders, MailsStay, NEW t \in Thread, Pushes(t), ~ Pushes(t)',
         \A u \in Thread \ {t} : handler'[u] = handler[u],
         taskQueue' = Append(taskQueue, handler[t].run),
         UNCHANGED <<retryQueue, taskLock>>, WorkerStays
  PROVE  Holders'
<1>1. \A u \in Thread \ {t} : Pushes(u)' = Pushes(u)
  BY DEF Pushes
<1>2. handler[t].run \in TaskIds
  BY HoldersKnown
<1>. DEFINE n == Len(taskQueue) + 1
<1>3. /\ DOMAIN taskQueue' = DOMAIN taskQueue \cup {n} /\ n \notin DOMAIN taskQueue
      /\ taskQueue'[n] = handler[t].run
      /\ \A i \in DOMAIN taskQueue : taskQueue'[i] = taskQueue[i]
  BY <1>2, Appended
<1>. HIDE DEF n
<1>4. \A u \in Thread : Pushes(u)' => u # t /\ Pushes(u) /\ handler'[u].run = handler[u].run
  BY <1>1
<1>5. LocksHeld'
  BY <1>2, <1>3, <1>4, HoldersKnown DEF Holders, LocksHeld, MailsStay, WorkerStays, Mail
<1>6. HoldersApart'
  <2>1. EntriesDiffer'
    BY <1>2, <1>3, <1>4, HoldersKnown
    DEF Holders, HoldersApart, EntriesDiffer, EntriesAlone, MailsStay, WorkerStays, Mail
  <2>2. EntriesAlone'
    BY <1>2, <1>3, <1>4, HoldersKnown
    DEF Holders, HoldersApart, EntriesAlone, OthersDiffer, MailsStay, WorkerStays, Mail
  <2>3. OthersDiffer'
    BY <1>2, <1>3, <1>4, HoldersKnown
    DEF Holders, HoldersApart, OthersDiffer, MailsStay, WorkerStays, Mail
  <2> QED BY <2>1, <2>2, <2>3 DEF HoldersApart
<1> QED BY <1>5, <1>6 DEF Holders

LEMMA WorkerHandsOver ==
  ASSUME KioskIInv, Holders, MailsStay, PushersStay, WorkerHolds, ~ WorkerHolds',
         taskQueue' = Append(taskQueue, worker.run), UNCHANGED <<retryQueue, taskLock>>
  PROVE  Holders'
<1>2. worker.run \in TaskIds
  BY HoldersKnown
<1>. DEFINE n == Len(taskQueue) + 1
<1>3. /\ DOMAIN taskQueue' = DOMAIN taskQueue \cup {n} /\ n \notin DOMAIN taskQueue
      /\ taskQueue'[n] = worker.run
      /\ \A i \in DOMAIN taskQueue : taskQueue'[i] = taskQueue[i]
  BY <1>2, Appended
<1>. HIDE DEF n
<1>5. LocksHeld'
  BY <1>2, <1>3, HoldersKnown DEF Holders, LocksHeld, MailsStay, PushersStay, Mail
<1>6. HoldersApart'
  <2>1. EntriesDiffer'
    BY <1>2, <1>3, HoldersKnown
    DEF Holders, HoldersApart, EntriesDiffer, EntriesAlone, MailsStay, PushersStay, Mail
  <2>2. EntriesAlone'
    BY <1>2, <1>3, HoldersKnown
    DEF Holders, HoldersApart, EntriesAlone, OthersDiffer, MailsStay, PushersStay, Mail
  <2>3. OthersDiffer'
    BY <1>2, <1>3, HoldersKnown
    DEF Holders, HoldersApart, OthersDiffer, MailsStay, PushersStay, Mail
  <2> QED BY <2>1, <2>2, <2>3 DEF HoldersApart
<1> QED BY <1>5, <1>6 DEF Holders

LEMMA WorkerDefers ==
  ASSUME KioskIInv, Holders, MailsStay, PushersStay, WorkerHolds, ~ WorkerHolds',
         retryQueue' = retryQueue \cup {worker.run}, UNCHANGED <<taskQueue, taskLock>>
  PROVE  Holders'
  BY HoldersKnown
  DEF Holders, LocksHeld, HoldersApart, EntriesDiffer, EntriesAlone, OthersDiffer, MailsStay,
      PushersStay, Mail

LEMMA WorkerTakesDeferred ==
  ASSUME KioskIInv, Holders, MailsStay, PushersStay, NEW r \in retryQueue,
         worker'.run = r, retryQueue' = retryQueue \ {r}, UNCHANGED <<taskQueue, taskLock>>
  PROVE  Holders'
  BY HoldersKnown
  DEF Holders, LocksHeld, HoldersApart, EntriesDiffer, EntriesAlone, OthersDiffer, MailsStay,
      PushersStay, Mail

LEMMA WorkerPops ==
  ASSUME KioskIInv, Holders, MailsStay, PushersStay, taskQueue # << >>,
         worker'.run = Head(taskQueue), taskQueue' = Tail(taskQueue),
         UNCHANGED <<retryQueue, taskLock>>
  PROVE  Holders'
<1>1. taskQueue \in Seq(Run) /\ taskQueue # << >>
  BY DEF KioskIInv, RedisPart, QueueKnown
<1>2. 1 \in DOMAIN taskQueue /\ worker'.run = taskQueue[1]
  BY <1>1
<1>3. \A i \in DOMAIN taskQueue' : /\ i + 1 \in DOMAIN taskQueue /\ i + 1 # 1
                                  /\ taskQueue'[i] = taskQueue[i + 1]
                                  /\ i \in Nat
  BY <1>1
<1>4. \A i, j \in DOMAIN taskQueue' : i # j => i + 1 # j + 1
  BY <1>3
<1>5. LocksHeld'
  BY <1>2, <1>3, <1>4, HoldersKnown
  DEF Holders, LocksHeld, HoldersApart, EntriesDiffer, EntriesAlone, MailsStay, PushersStay, Mail
<1>6. HoldersApart'
  <2>1. EntriesDiffer'
    BY <1>2, <1>3, <1>4, HoldersKnown
    DEF Holders, HoldersApart, EntriesDiffer, MailsStay, PushersStay, Mail
  <2>2. EntriesAlone'
    BY <1>2, <1>3, <1>4, HoldersKnown
    DEF Holders, HoldersApart, EntriesDiffer, EntriesAlone, MailsStay, PushersStay, Mail
  <2>3. OthersDiffer'
    BY <1>2, <1>3, <1>4, HoldersKnown
    DEF Holders, HoldersApart, EntriesAlone, OthersDiffer, MailsStay, PushersStay, Mail
  <2> QED BY <2>1, <2>2, <2>3 DEF HoldersApart
<1> QED BY <1>5, <1>6 DEF Holders

(* The lock goes with the only holder of its address. *)
LEMMA WorkerUnlocks ==
  ASSUME KioskIInv, Holders, MailsStay, PushersStay, WorkerHolds, ~ WorkerHolds',
         taskLock' = taskLock \ {Mail(worker.run)}, UNCHANGED <<taskQueue, retryQueue>>
  PROVE  Holders'
  BY HoldersKnown
  DEF Holders, LocksHeld, HoldersApart, EntriesDiffer, EntriesAlone, OthersDiffer, MailsStay,
      PushersStay, Mail

----------------------------------------------------------------------------
(* The web process and the locks *)

LEMMA WorkerSame ==
  ASSUME KioskIInv, LockPart, MailsStay, UNCHANGED <<worker, retryPending, retryQueue>>,
         Waiting \subseteq Waiting'
  PROVE  WorkerMail' /\ MarksTell' /\ WorkerStays
<1>1. ~ At("idle") => worker.run \in TaskIds
  BY HoldersKnown
<1>2. WorkerMail'
  BY <1>1 DEF LockPart, WorkerMail, MailsStay, At, Mail
<1>3. MarksTell'
  BY DEF LockPart, MarksTell, At
<1>4. WorkerStays
  BY DEF WorkerStays, WorkerHolds, At
<1> QED BY <1>2, <1>3, <1>4

LEMMA HandlersSame ==
  ASSUME KioskIInv, LockPart, MailsStay, UNCHANGED handler
  PROVE  HandlersQuiet' /\ PushersStay
<1>1. HandlersQuiet'
  BY
  DEF LockPart, HandlersQuiet, MailsStay, Mail, KioskIInv, HandlersPart, HandlersKnow,
      HandlerKnows
<1>2. PushersStay
  BY DEF PushersStay, Pushes
<1> QED BY <1>1, <1>2

(* A handler moves, and neither deletes nor gets to its RPUSH.               *)
LEMMA HandlerTurnsAside ==
  ASSUME KioskIInv, LockPart, MailsStay, NEW t \in Thread,
         \A u \in Thread \ {t} : handler'[u] = handler[u],
         handler'[t].op \in {"idle", "enqueue", "duplicate", "confirm", "save"},
         handler'[t].op = "enqueue" => handler'[t].email = Mail(handler[t].run)'
  PROVE  HandlersQuiet' /\ PushersStay
<1>1. ASSUME NEW u \in Thread, u # t
      PROVE  /\ handler'[u].op \notin {"nuke", "delete", "unlock"}
             /\ handler'[u].op \in {"enqueue", "push"} => handler'[u].email = Mail(handler[u].run)'
  BY <1>1 DEF LockPart, HandlersQuiet, MailsStay, Mail, KioskIInv, HandlersPart, HandlersKnow,
     HandlerKnows
<1>2. HandlersQuiet'
  BY <1>1 DEF HandlersQuiet, Mail
<1>3. PushersStay
  BY DEF PushersStay, Pushes
<1> QED BY <1>2, <1>3

LEMMA DoneTurns ==
  ASSUME KioskIInv, NEW t \in Thread, Done(t)
  PROVE  /\ \A u \in Thread \ {t} : handler'[u] = handler[u]
         /\ handler'[t].op = "idle"
  BY DEF Done, IdleHandler, KioskIInv, HandlersPart, HandlersTyped

LEMMA TurnTurnsTo ==
  ASSUME KioskIInv, NEW t \in Thread, NEW op, NEW r, NEW a, Turn(t, op, r, a)
  PROVE  /\ \A u \in Thread \ {t} : handler'[u] = handler[u]
         /\ handler'[t].op = op /\ handler'[t].run = r /\ handler'[t].email = a
  BY DEF Turn, KioskIInv, HandlersPart, HandlersTyped

(* A step of a handler that touches no key. *)
LEMMA HandlerAsideLocks ==
  ASSUME KioskIInv, LockPart, MailsStay, NEW t \in Thread, UNCHANGED <<worker, redisVars>>,
         \A u \in Thread \ {t} : handler'[u] = handler[u],
         handler'[t].op \in {"idle", "enqueue", "duplicate", "confirm", "save"},
         handler'[t].op = "enqueue" => handler'[t].email = Mail(handler[t].run)'
  PROVE  LockPart'
<1>1. HandlersQuiet' /\ PushersStay
  BY HandlerTurnsAside
<1>2. UNCHANGED <<taskQueue, retryQueue, taskLock, retryPending>>
  BY DEF redisVars
<1>3. Waiting \subseteq Waiting'
  BY <1>2 DEF Waiting
<1>4. WorkerMail' /\ MarksTell' /\ WorkerStays
  BY <1>2, <1>3, WorkerSame
<1>5. Holders'
  BY <1>1, <1>2, <1>4, HoldersStay DEF LockPart, Holders
<1> QED BY <1>1, <1>4, <1>5 DEF LockPart, Holders

LEMMA DepositLocks ==
  ASSUME KioskIInv, LockPart, MailsStay, NEW t \in Thread, NEW a \in Address, Deposit(t, a),
         UNCHANGED worker
  PROVE  LockPart'
<1>1. PICK r \in Run : CreateTaskRun(r, a, "verify") /\ Turn(t, "enqueue", r, a)
  BY DEF Deposit
<1>2. Mail(r)' = a
  BY <1>1 DEF CreateTaskRun, Mail, KioskIInv, StoreIInv, StoreTypeOK
<1>3. /\ \A u \in Thread \ {t} : handler'[u] = handler[u]
      /\ handler'[t].op = "enqueue" /\ handler'[t].run = r /\ handler'[t].email = a
  BY <1>1, TurnTurnsTo
<1> QED BY <1>2, <1>3, HandlerAsideLocks DEF Deposit, Mail

LEMMA EnqueueLocks ==
  ASSUME KioskIInv, LockPart, MailsStay, NEW t \in Thread, EnqueueTask(t), UNCHANGED worker
  PROVE  LockPart'
<1>0. /\ handler[t].run \in TaskIds /\ handler[t].email = Mail(handler[t].run)
      /\ handler[t].op = "enqueue"
  BY DEF KioskIInv, HandlersPart, HandlersKnow, HandlerKnows, LockPart, HandlersQuiet, EnqueueTask
<1>1. CASE /\ handler[t].email \notin taskLock /\ SetLock(handler[t].email)
           /\ Turn(t, "push", handler[t].run, handler[t].email)
  <2>1. /\ \A u \in Thread \ {t} : handler'[u] = handler[u]
        /\ handler'[t].op = "push" /\ handler'[t].run = handler[t].run
        /\ handler'[t].email = handler[t].email
    BY <1>1 DEF Turn, KioskIInv, HandlersPart, HandlersTyped
  <2>2. /\ UNCHANGED <<taskQueue, retryQueue, retryPending>>
        /\ taskLock' = taskLock \cup {Mail(handler[t].run)}
    BY <1>0, <1>1 DEF SetLock
  <2>3. Waiting \subseteq Waiting'
    BY <2>2 DEF Waiting
  <2>4. WorkerMail' /\ MarksTell' /\ WorkerStays
    BY <2>2, <2>3, WorkerSame
  <2>5. Holders'
    BY <1>0, <1>1, <2>1, <2>2, <2>4, HandlerLocks DEF LockPart, Holders
  <2>6. HandlersQuiet'
    <3>1. ASSUME NEW u \in Thread, u # t
          PROVE  /\ handler'[u].op \notin {"nuke", "delete", "unlock"}
                 /\ handler'[u].op \in {"enqueue", "push"} =>
                      handler'[u].email = Mail(handler[u].run)'
      BY <2>1, <3>1 DEF LockPart, HandlersQuiet, MailsStay, Mail, KioskIInv, HandlersPart,
         HandlersKnow, HandlerKnows
    <3>2. handler'[t].email = Mail(handler[t].run)'
      BY <1>0, <2>1 DEF MailsStay, Mail
    <3> QED BY <2>1, <3>1, <3>2 DEF HandlersQuiet, Mail
  <2> QED BY <2>4, <2>5, <2>6 DEF LockPart, Holders
<1>2. CASE Turn(t, "duplicate", handler[t].run, handler[t].email) /\ UNCHANGED redisVars
  <2>1. (\A u \in Thread \ {t} : handler'[u] = handler[u]) /\ handler'[t].op = "duplicate"
    BY <1>2 DEF Turn, KioskIInv, HandlersPart, HandlersTyped
  <2> QED BY <1>2, <2>1, HandlerAsideLocks
<1> QED BY <1>1, <1>2 DEF EnqueueTask

LEMMA PushLocks ==
  ASSUME KioskIInv, LockPart, MailsStay, NEW t \in Thread, PushTask(t), UNCHANGED worker
  PROVE  LockPart'
<1>0. handler[t].run \in TaskIds /\ Pushes(t)
  BY DEF KioskIInv, HandlersPart, HandlersKnow, HandlerKnows, PushTask, Pushes
<1>1. (\A u \in Thread \ {t} : handler'[u] = handler[u]) /\ handler'[t].op = "idle"
  BY DoneTurns DEF PushTask
<1>2. /\ taskQueue' = Append(taskQueue, handler[t].run)
      /\ UNCHANGED <<retryQueue, taskLock, retryPending>>
  BY DEF PushTask, RPush
<1>3. Waiting \subseteq Waiting'
  BY <1>0, <1>2, Appended DEF Waiting
<1>4. WorkerMail' /\ MarksTell' /\ WorkerStays
  BY <1>2, <1>3, WorkerSame
<1>5. ~ Pushes(t)'
  BY <1>1 DEF Pushes
<1>6. Holders'
  BY <1>0, <1>1, <1>2, <1>4, <1>5, HandlerHandsOver DEF LockPart, Holders
<1>7. HandlersQuiet'
  BY <1>1, HandlerTurnsAside
<1> QED BY <1>4, <1>6, <1>7 DEF LockPart, Holders

LEMMA ThreadLocks ==
  ASSUME KioskIInv, LockPart, MailsStay, Clear', NEW t \in Thread, UNCHANGED worker,
         Handle(t) \/ Request(t) \/ HandlerFails(t)
  PROVE  LockPart'
<1>1. CASE EnqueueTask(t)
  BY <1>1, EnqueueLocks
<1>2. CASE PushTask(t)
  BY <1>2, PushLocks
<1>3. CASE RejectDuplicate(t) \/ SaveAccount(t)
  <2>1. Done(t) /\ UNCHANGED redisVars
    BY <1>3 DEF RejectDuplicate, SaveAccount
  <2> QED BY <2>1, DoneTurns, HandlerAsideLocks
<1>4. CASE ReadPending(t)
  <2>1. CASE Done(t)
    BY <1>4, <2>1, DoneTurns, HandlerAsideLocks DEF ReadPending
  <2>2. CASE Turn(t, "save", handler[t].run, handler[t].email)
    <3>1. (\A u \in Thread \ {t} : handler'[u] = handler[u]) /\ handler'[t].op = "save"
      BY <2>2 DEF Turn, KioskIInv, HandlersPart, HandlersTyped
    <3> QED BY <1>4, <3>1, HandlerAsideLocks DEF ReadPending
  <2> QED BY <1>4, <2>1, <2>2 DEF ReadPending
<1>5. CASE \E r \in Run : ReadSucceededRun(t, r)
  <2>1. PICK r \in Run : ReadSucceededRun(t, r)
    BY <1>5
  <2>2. (\A u \in Thread \ {t} : handler'[u] = handler[u]) /\ handler'[t].op = "confirm"
    BY <2>1 DEF ReadSucceededRun, Turn, KioskIInv, HandlersPart, HandlersTyped
  <2> QED BY <2>1, <2>2, HandlerAsideLocks DEF ReadSucceededRun
<1>6. CASE \E a \in Address : Deposit(t, a)
  BY <1>6, DepositLocks
<1>7. CASE \/ NukeAccount(t) \/ RemoveAccount(t) \/ DropLock(t)
  BY <1>7 DEF LockPart, HandlersQuiet, NukeAccount, RemoveAccount, DropLock
<1>8. CASE HandlerFails(t) \/ \E a \in Address : DeleteAccount(t, a)
  BY <1>8, NotSuffered DEF HandlerFails, EnqueueFails, DropLockFails, DeleteAccount
<1> QED BY <1>1, <1>2, <1>3, <1>4, <1>5, <1>6, <1>7, <1>8 DEF Handle, Request

(* The job writes to the sorted set only, and dies with its process only.   *)
LEMMA JobLocks ==
  ASSUME KioskIInv, LockPart, MailsStay, Clear', UNCHANGED worker,
         RefreshStep \/ RefreshFails \/ WebCrash \/ \E c \in Cycle : ActivateCycle(c)
  PROVE  LockPart'
<1>1. CASE RefreshFails \/ WebCrash
  BY <1>1, NotSuffered DEF RefreshFails, WebCrash
<1>2. CASE RefreshStep \/ \E c \in Cycle : ActivateCycle(c)
  <2>1. UNCHANGED <<handler, taskQueue, retryQueue, taskLock, retryPending>>
    BY <1>2 DEF RefreshStep, ActivateCycle, SelectObsolete, CancelObsolete, UnscheduleObsolete,
       SelectDue, AssignRuns, ReadScheduledRuns, PersistScheduledRuns, redisVars, Schedule,
       Unschedule
  <2>2. Waiting \subseteq Waiting'
    BY <2>1 DEF Waiting
  <2>3. WorkerMail' /\ MarksTell' /\ WorkerStays
    BY <2>1, <2>2, WorkerSame
  <2>4. HandlersQuiet' /\ PushersStay
    BY <2>1, HandlersSame
  <2>5. Holders'
    BY <2>1, <2>3, <2>4, HoldersStay DEF LockPart, Holders
  <2> QED BY <2>3, <2>4, <2>5 DEF LockPart, Holders
<1> QED BY <1>1, <1>2

----------------------------------------------------------------------------
(* The worker and the locks *)

LEMMA GoToMoves ==
  ASSUME KioskIInv, NEW pc, GoTo(pc)
  PROVE  worker'.pc = pc /\ worker'.run = worker.run /\ worker'.email = worker.email
  BY DEF GoTo, KioskIInv, WorkerPart, WorkerTypeOK

LEMMA GoIdleMoves ==
  ASSUME GoIdle
  PROVE  WorkerMail' /\ MarksTell' /\ ~ WorkerHolds' /\ WorkerStays
  BY DEF GoIdle, IdleWorker, WorkerMail, MarksTell, WorkerHolds, HoldingPc, WorkerStays, At

(* The worker's holding is as before. *)
LEMMA WorkerAsideLocks ==
  ASSUME KioskIInv, LockPart, MailsStay, UNCHANGED <<handler, taskQueue, retryQueue>>,
         taskLock \subseteq taskLock', WorkerStays, WorkerMail', MarksTell'
  PROVE  LockPart'
<1>1. HandlersQuiet' /\ PushersStay
  BY HandlersSame
<1>2. Holders'
  BY <1>1, HoldersStay DEF LockPart, Holders
<1> QED BY <1>1, <1>2 DEF LockPart, Holders

(* Inside run_task no mark is set, until a retry is. *)
LEMMA WorkingLocks ==
  ASSUME KioskIInv, LockPart, MailsStay, UNCHANGED <<handler, redisVars>>,
         worker.pc \in {"work", "error", "reject", "complete", "done"},
         worker'.pc \in {"work", "error", "reject", "complete", "done", "final"},
         worker'.run = worker.run, worker'.email = worker.email
  PROVE  LockPart'
<1>1. worker.run \in TaskIds
  BY DEF KioskIInv, WorkerPart, WorkerKnows, At
<1>2. UNCHANGED <<taskQueue, retryQueue, taskLock, retryPending>>
  BY DEF redisVars
<1>3. worker.run \notin retryPending /\ worker.email = Mail(worker.run)
  BY DEF LockPart, MarksTell, WorkerMail
<1>4. WorkerMail'
  BY <1>1, <1>3 DEF WorkerMail, MailsStay, Mail, At
<1>5. MarksTell'
  BY <1>2, <1>3 DEF MarksTell
<1>6. WorkerStays
  BY DEF WorkerStays, WorkerHolds, HoldingPc
<1> QED BY <1>2, <1>4, <1>5, <1>6, WorkerAsideLocks

(* The other moves of the worker that touch no key. *)
LEMMA MovingLocks ==
  ASSUME KioskIInv, LockPart, MailsStay, UNCHANGED <<handler, redisVars>>, NEW pc, GoTo(pc),
         \/ At("status") /\ pc \in {"cancel", "restore"}
         \/ At("queue") /\ pc = "push"
         \/ At("load") /\ pc = "badcontext"
         \/ At("stale") /\ pc = "unlock"
         \/ At("badcontext") /\ pc = "release"
         \/ worker.pc \in {"requeued", "postponed"} /\ pc = "final"
  PROVE  LockPart'
<1>1. worker.run \in TaskIds
  BY DEF KioskIInv, WorkerPart, WorkerKnows, At
<1>2. UNCHANGED <<taskQueue, retryQueue, taskLock, retryPending>>
  BY DEF redisVars
<1>3. worker'.pc = pc /\ worker'.run = worker.run /\ worker'.email = worker.email
  BY GoToMoves
<1>4. WorkerMail'
  <2>1. Mail(worker.run)' = Mail(worker.run)
    BY <1>1, <1>3 DEF MailsStay, Mail
  <2> QED BY <1>3, <2>1 DEF LockPart, WorkerMail, At
<1>5. MarksTell'
  BY <1>2, <1>3 DEF LockPart, MarksTell, Waiting, At
<1>6. WorkerStays
  BY <1>2, <1>3 DEF LockPart, MarksTell, WorkerStays, WorkerHolds, HoldingPc, At
<1> QED BY <1>2, <1>4, <1>5, <1>6, WorkerAsideLocks

LEMMA TakeScheduledLocks ==
  ASSUME KioskIInv, LockPart, MailsStay, UNCHANGED handler, NEW r \in Run, TakeScheduled(r)
  PROVE  LockPart'
<1>1. /\ worker'.pc = "status" /\ worker'.email = None
      /\ UNCHANGED <<taskQueue, retryQueue, taskLock>>
  BY DEF TakeScheduled, Unschedule, LockPart, WorkerMail, At, KioskIInv, WorkerPart, WorkerTypeOK
<1> QED BY <1>1, WorkerAsideLocks
        DEF WorkerMail, MarksTell, WorkerStays, WorkerHolds, HoldingPc, At

LEMMA ReadStatusLocks ==
  ASSUME KioskIInv, LockPart, MailsStay, UNCHANGED handler, ReadStatus
  PROVE  LockPart'
<1>1. CASE worker' = [worker EXCEPT !.pc = "lock", !.email = taskRuns[worker.run].email]
  <2>1. worker.run \in TaskIds
    BY DEF KioskIInv, WorkerPart, WorkerKnows, ReadStatus, At
  <2>2. worker'.pc = "lock" /\ worker'.run = worker.run /\ worker'.email = Mail(worker.run)
    BY <1>1 DEF KioskIInv, WorkerPart, WorkerTypeOK, Mail
  <2>3. WorkerMail' /\ MarksTell' /\ WorkerStays
    BY <2>1, <2>2
    DEF WorkerMail, MarksTell, WorkerStays, WorkerHolds, HoldingPc, MailsStay, Mail, At
  <2> QED BY <2>3, WorkerAsideLocks DEF ReadStatus, redisVars
<1>2. CASE GoTo("cancel") \/ GoTo("restore")
  BY <1>2, MovingLocks DEF ReadStatus
<1> QED BY <1>1, <1>2 DEF ReadStatus

LEMMA LockScheduledLocks ==
  ASSUME KioskIInv, LockPart, MailsStay, UNCHANGED handler, LockScheduled
  PROVE  LockPart'
<1>0. worker.run \in TaskIds /\ worker.email = Mail(worker.run)
  BY DEF KioskIInv, WorkerPart, WorkerKnows, LockPart, WorkerMail, LockScheduled, At
<1>1. CASE worker.email \notin taskLock /\ SetLock(worker.email) /\ GoTo("queue")
  <2>1. worker'.pc = "queue" /\ worker'.run = worker.run /\ worker'.email = worker.email
    BY <1>1, GoToMoves
  <2>2. /\ UNCHANGED <<taskQueue, retryQueue>>
        /\ taskLock' = taskLock \cup {Mail(worker.run)}
    BY <1>0, <1>1 DEF SetLock
  <2>3. WorkerMail' /\ MarksTell'
    BY <1>0, <2>1 DEF WorkerMail, MarksTell, MailsStay, Mail, At
  <2>4. HandlersQuiet' /\ PushersStay
    BY HandlersSame
  <2>5. Holders'
    BY <1>0, <1>1, <2>1, <2>2, <2>4, WorkerLocks DEF LockPart, Holders
  <2> QED BY <2>3, <2>4, <2>5 DEF LockPart, Holders
<1>2. CASE Schedule({worker.run}) /\ GoIdle
  BY <1>2, GoIdleMoves, WorkerAsideLocks DEF Schedule
<1> QED BY <1>1, <1>2 DEF LockScheduled

(* Without deletions no assignment is missing; were one, no lock would go.  *)
LEMMA RestoreScheduledLocks ==
  ASSUME KioskIInv, LockPart, MailsStay, UNCHANGED handler, RestoreScheduled
  PROVE  LockPart'
<1>1. worker.email = None
  BY DEF LockPart, WorkerMail, RestoreScheduled, At
<1>2. taskLock' = taskLock
  BY <1>1, KioskAssumption DEF KioskIInv, RedisPart, KeysKnown, RestoreScheduled
<1> QED BY <1>2, GoIdleMoves, WorkerAsideLocks DEF RestoreScheduled

LEMMA LoadContextLocks ==
  ASSUME KioskIInv, LockPart, MailsStay, UNCHANGED handler, LoadContext
  PROVE  LockPart'
<1>1. CASE GoTo("badcontext")
  BY <1>1, MovingLocks DEF LoadContext
<1>2. CASE worker' = [worker EXCEPT
                        !.pc = IF TaskCycleIsActive(worker.run) THEN "claim" ELSE "stale",
                        !.email = taskRuns[worker.run].email,
                        !.retries = taskRuns[worker.run].retries]
  <2>1. worker.run \in TaskIds
    BY DEF KioskIInv, WorkerPart, WorkerKnows, LoadContext, At
  <2>2. /\ worker'.pc \in {"claim", "stale"} /\ worker'.run = worker.run
        /\ worker'.email = Mail(worker.run)
    BY <1>2 DEF KioskIInv, WorkerPart, WorkerTypeOK, Mail
  <2>3. WorkerMail' /\ MarksTell' /\ WorkerStays
    BY <2>1, <2>2 DEF LoadContext, WorkerMail, MarksTell, WorkerStays, WorkerHolds, HoldingPc,
       MailsStay, Mail, At
  <2> QED BY <2>3, WorkerAsideLocks DEF LoadContext, redisVars
<1> QED BY <1>1, <1>2 DEF LoadContext

LEMMA BeginTaskLocks ==
  ASSUME KioskIInv, LockPart, MailsStay, UNCHANGED handler, BeginTask
  PROVE  LockPart'
<1>0. worker.run \in TaskIds /\ worker.email = Mail(worker.run)
  BY DEF KioskIInv, WorkerPart, WorkerKnows, LockPart, WorkerMail, BeginTask, At
<1>1. worker'.pc = "work" /\ worker'.run = worker.run /\ worker'.email = worker.email
  BY GoToMoves DEF BeginTask
<1>2. worker'.run \notin retryPending'
  BY <1>1 DEF BeginTask
<1>3. WorkerMail' /\ MarksTell' /\ WorkerStays
  BY <1>0, <1>1, <1>2 DEF BeginTask, WorkerMail, MarksTell, WorkerStays, WorkerHolds, HoldingPc,
     MailsStay, Mail, At
<1> QED BY <1>3, WorkerAsideLocks DEF BeginTask

(* The run goes to the queue, and its holding with it. *)
LEMMA HandOverLocks ==
  ASSUME KioskIInv, LockPart, MailsStay, UNCHANGED handler, WorkerHolds, ~ WorkerHolds',
         taskQueue' = Append(taskQueue, worker.run), UNCHANGED <<retryQueue, taskLock>>,
         WorkerMail', MarksTell'
  PROVE  LockPart'
<1>1. HandlersQuiet' /\ PushersStay
  BY HandlersSame
<1>2. Holders'
  BY <1>1, WorkerHandsOver DEF LockPart, Holders
<1> QED BY <1>1, <1>2 DEF LockPart, Holders

LEMMA PushesLocks ==
  ASSUME KioskIInv, LockPart, MailsStay, UNCHANGED handler, PushScheduled \/ PushRetry
  PROVE  LockPart'
<1>1. WorkerHolds
  BY DEF PushScheduled, PushRetry, WorkerHolds, HoldingPc, At
<1>2. /\ taskQueue' = Append(taskQueue, worker.run) /\ UNCHANGED <<retryQueue, taskLock>>
      /\ GoIdle
  BY DEF PushScheduled, PushRetry, RPush
<1> QED BY <1>1, <1>2, GoIdleMoves, HandOverLocks

LEMMA RetryNowLocks ==
  ASSUME KioskIInv, LockPart, MailsStay, UNCHANGED handler, RetryNow
  PROVE  LockPart'
<1>0. worker.run \in TaskIds /\ worker.email = Mail(worker.run)
  BY DEF KioskIInv, WorkerPart, WorkerKnows, LockPart, WorkerMail, RetryNow, At
<1>1. worker'.pc = "requeued" /\ worker'.run = worker.run /\ worker'.email = worker.email
  BY GoToMoves DEF RetryNow
<1>2. WorkerHolds /\ ~ WorkerHolds'
  BY <1>1 DEF RetryNow, WorkerHolds, HoldingPc, At
<1>3. WorkerMail'
  BY <1>0, <1>1 DEF WorkerMail, MailsStay, Mail, At
<1>4. MarksTell'
  <2>1. worker'.run \in Waiting'
    BY <1>0, <1>1, Appended DEF RetryNow, Waiting
  <2> QED BY <1>1, <2>1 DEF RetryNow, MarksTell
<1> QED BY <1>2, <1>3, <1>4, HandOverLocks DEF RetryNow

LEMMA RetryLaterLocks ==
  ASSUME KioskIInv, LockPart, MailsStay, UNCHANGED handler, RetryLater
  PROVE  LockPart'
<1>0. worker.run \in TaskIds /\ worker.email = Mail(worker.run)
  BY DEF KioskIInv, WorkerPart, WorkerKnows, LockPart, WorkerMail, RetryLater, At
<1>1. worker'.pc = "postponed" /\ worker'.run = worker.run /\ worker'.email = worker.email
  BY GoToMoves DEF RetryLater
<1>2. WorkerHolds /\ ~ WorkerHolds'
  BY <1>1 DEF RetryLater, WorkerHolds, HoldingPc, At
<1>3. WorkerMail'
  BY <1>0, <1>1 DEF WorkerMail, MailsStay, Mail, At
<1>4. MarksTell'
  BY <1>1 DEF RetryLater, MarksTell
<1>5. HandlersQuiet' /\ PushersStay
  BY HandlersSame
<1>6. Holders'
  BY <1>2, <1>5, WorkerDefers DEF LockPart, Holders, RetryLater
<1> QED BY <1>3, <1>4, <1>5, <1>6 DEF LockPart, Holders

LEMMA TakesLocks ==
  ASSUME KioskIInv, LockPart, MailsStay, UNCHANGED handler,
         PopTask \/ \E r \in Run : TakeRetry(r)
  PROVE  LockPart'
<1>1. worker'.pc \in {"load", "retry"} /\ worker'.email = None
  BY DEF PopTask, TakeRetry, LockPart, WorkerMail, At, KioskIInv, WorkerPart, WorkerTypeOK
<1>2. WorkerMail' /\ MarksTell'
  BY <1>1 DEF WorkerMail, MarksTell, At
<1>3. HandlersQuiet' /\ PushersStay
  BY HandlersSame
<1>4. Holders'
  <2>1. CASE PopTask
    <3>1. worker'.run = Head(taskQueue)
      BY <2>1 DEF PopTask, KioskIInv, WorkerPart, WorkerTypeOK
    <3> QED BY <1>3, <2>1, <3>1, WorkerPops DEF PopTask, LockPart, Holders
  <2>2. CASE \E r \in Run : TakeRetry(r)
    <3>1. PICK r \in Run : TakeRetry(r)
      BY <2>2
    <3>2. worker'.run = r
      BY <3>1 DEF TakeRetry, KioskIInv, WorkerPart, WorkerTypeOK
    <3> QED BY <1>3, <3>1, <3>2, WorkerTakesDeferred DEF TakeRetry, LockPart, Holders
  <2> QED BY <2>1, <2>2
<1> QED BY <1>2, <1>3, <1>4 DEF LockPart, Holders

(* The worker ends a run that it still holds, or one that is queued again.  *)
LEMMA EndsLocks ==
  ASSUME KioskIInv, LockPart, MailsStay, UNCHANGED handler,
         UnlockUnstarted \/ ReleaseUncaught \/ Finish
  PROVE  LockPart'
<1>0. GoIdle /\ worker.run \in TaskIds
  BY DEF UnlockUnstarted, ReleaseUncaught, Finish, KioskIInv, WorkerPart, WorkerKnows, LockPart,
         WorkerMail, At
<1>1. CASE At("final") /\ worker.run \in retryPending
  <2>1. UNCHANGED redisVars
    BY <1>1 DEF UnlockUnstarted, ReleaseUncaught, Finish, At
  <2> QED BY <1>0, <2>1, GoIdleMoves, WorkerAsideLocks DEF redisVars
<1>2. CASE worker.pc \in {"unlock", "release"} \/ (At("final") /\ worker.run \notin retryPending)
  <2>1. WorkerHolds
    BY <1>2 DEF WorkerHolds, HoldingPc, At
  <2>2. /\ taskLock' = taskLock \ {Mail(worker.run)}
        /\ UNCHANGED <<taskQueue, retryQueue>>
    BY <1>2, KioskAssumption
    DEF UnlockUnstarted, ReleaseUncaught, Finish, DeleteLock, LockPart, WorkerMail, Mail, At
  <2>3. HandlersQuiet' /\ PushersStay
    BY HandlersSame
  <2>4. Holders'
    BY <1>0, <2>1, <2>2, <2>3, GoIdleMoves, WorkerUnlocks DEF LockPart, Holders
  <2> QED BY <1>0, <2>3, <2>4, GoIdleMoves DEF LockPart, Holders
<1> QED BY <1>1, <1>2 DEF UnlockUnstarted, ReleaseUncaught, Finish, At

LEMMA WorkerLocksKept ==
  ASSUME KioskIInv, LockPart, MailsStay, Clear', UNCHANGED webVars, WorkerNext
  PROVE  LockPart'
<1>. UNCHANGED handler
  BY DEF webVars
<1>1. CASE \E r \in Run : TakeScheduled(r)  BY <1>1, TakeScheduledLocks
<1>2. CASE PopTask \/ \E r \in Run : TakeRetry(r)
  BY <1>2, TakesLocks
<1>3. CASE ReadStatus                     BY <1>3, ReadStatusLocks
<1>4. CASE LockScheduled                  BY <1>4, LockScheduledLocks
<1>5. CASE QueueScheduled                 BY <1>5, MovingLocks DEF QueueScheduled
<1>6. CASE PushScheduled \/ PushRetry     BY <1>6, PushesLocks
<1>7. CASE CancelScheduled
  BY <1>7, GoIdleMoves, WorkerAsideLocks DEF CancelScheduled, redisVars
<1>8. CASE RestoreScheduled               BY <1>8, RestoreScheduledLocks
<1>9. CASE LoadContext                    BY <1>9, LoadContextLocks
<1>10. CASE FailUnstarted                 BY <1>10, MovingLocks DEF FailUnstarted
<1>11. CASE UnlockUnstarted \/ ReleaseUncaught \/ Finish
  BY <1>11, EndsLocks
<1>12. CASE BeginTask                     BY <1>12, BeginTaskLocks
<1>13. CASE \E t \in Title, g \in Reported : RecordResult(t, g)
  <2>1. PICK t \in Title, g \in Reported : RecordResult(t, g)
    BY <1>13
  <2>2. /\ worker.pc = "work" /\ worker'.pc = "work" /\ worker'.run = worker.run
        /\ worker'.email = worker.email
    BY <2>1 DEF RecordResult, At, KioskIInv, WorkerPart, WorkerTypeOK
  <2> QED BY <2>1, <2>2, WorkingLocks DEF RecordResult
<1>14. CASE RetryNow                      BY <1>14, RetryNowLocks
<1>15. CASE RetryLater                    BY <1>15, RetryLaterLocks
<1>16. CASE RecordRetry                   BY <1>16, MovingLocks DEF RecordRetry
<1>17. CASE (\E s \in TaskState : GiveUp(s)) \/ SystemError \/ NukeRequestLost \/ Succeed
  BY <1>17, GoToMoves, WorkingLocks DEF GiveUp, SystemError, NukeRequestLost, Succeed, At
<1>18. CASE RejectCredentials \/ VerifyPassed \/ CompleteCycle
  BY <1>18, GoToMoves, WorkingLocks DEF RejectCredentials, VerifyPassed, CompleteCycle, At
<1>19. CASE ClaimDone
  <2>1. CASE GoTo("final")
    BY <1>19, <2>1, GoToMoves, WorkingLocks DEF ClaimDone, At
  <2>2. CASE ReadOwner
    <3>1. worker'.pc = "complete" /\ worker'.run = worker.run /\ worker'.email = worker.email
      BY <2>2 DEF ReadOwner, KioskIInv, WorkerPart, WorkerTypeOK
    <3> QED BY <1>19, <3>1, WorkingLocks DEF ClaimDone, At
  <2> QED BY <1>19, <2>1, <2>2 DEF ClaimDone
<1>20. CASE WorkerFault
  BY <1>20, NotSuffered DEF WorkerFault, LockScheduledFails, PushScheduledFails, PopLost,
     BeginTaskFails, RetryFails, FeedbackFails, WorkerCrash
<1>21. CASE FailUncaught
  <2>1. At("badcontext")
    BY <1>21 DEF FailUncaught, LockPart, WorkerMail, At
  <2> QED BY <1>21, <2>1, MovingLocks DEF FailUncaught
<1> QED BY <1>1, <1>2, <1>3, <1>4, <1>5, <1>6, <1>7, <1>8, <1>9, <1>10, <1>11, <1>12, <1>13,
           <1>14, <1>15, <1>16, <1>17, <1>18, <1>19, <1>20, <1>21
        DEF WorkerNext, WorkerStep

----------------------------------------------------------------------------
(* The kiosk and the locks *)

(* Nothing but an entry of a credential changes, or of no lock. *)
LEMMA StillLocks ==
  ASSUME KioskIInv, LockPart, UNCHANGED <<taskRuns, redisVars, webVars, worker>>
  PROVE  LockPart'
<1>1. MailsStay /\ UNCHANGED handler
  BY DEF MailsStay, Mail, webVars
<1>2. UNCHANGED <<taskQueue, retryQueue, taskLock, retryPending>>
  BY DEF redisVars
<1>3. WorkerMail' /\ MarksTell' /\ WorkerStays
  BY <1>1, <1>2, WorkerSame DEF Waiting
<1> QED BY <1>1, <1>2, <1>3, WorkerAsideLocks

LEMMA LockInit == KioskInit => LockPart
  BY DEF KioskInit, RedisInit, WebInit, WorkerInit, IdleHandler, IdleWorker, LockPart,
     HandlersQuiet, WorkerMail, MarksTell, LocksHeld, HoldersApart, EntriesDiffer, EntriesAlone,
     OthersDiffer, WorkerHolds, HoldingPc, Pushes, At

LEMMA LockStep ==
  ASSUME LockIInv, [KioskNext]_kioskVars
  PROVE  LockIInv'
<1>1. KioskIInv /\ KioskIInv'
  BY KioskStepKeeps DEF LockIInv
<1>. SUFFICES ASSUME Clear' PROVE LockPart'
  BY <1>1 DEF LockIInv
<1>2. Clear /\ LockPart
  BY <1>1, ClearBefore DEF LockIInv
<1>3. CASE \E t \in Thread : (Handle(t) \/ Request(t) \/ HandlerFails(t)) /\ UNCHANGED worker
  <2>1. PICK t \in Thread : (Handle(t) \/ Request(t) \/ HandlerFails(t)) /\ UNCHANGED worker
    BY <1>3
  <2>2. ~ RemoveAccount(t)
    BY <1>2 DEF LockPart, HandlersQuiet, RemoveAccount
  <2>3. MailsStay
    BY <1>1, <2>1, <2>2, ThreadMails DEF MailsStay
  <2> QED BY <1>1, <1>2, <2>1, <2>3, ThreadLocks
<1>4. CASE /\ RefreshStep \/ RefreshFails \/ WebCrash \/ \E c \in Cycle : ActivateCycle(c)
           /\ UNCHANGED worker
  <2>1. MailsStay
    BY <1>1, <1>4, JobMails DEF MailsStay
  <2> QED BY <1>1, <1>2, <1>4, <2>1, JobLocks
<1>5. CASE WorkerNext /\ UNCHANGED webVars
  <2>1. MailsStay
    BY <1>1, <1>5, WorkerMails DEF MailsStay
  <2> QED BY <1>1, <1>2, <1>5, <2>1, WorkerLocksKept
<1>6. CASE \E t \in Thread : RequestNuke(t)
  BY <1>1, <1>6, NotSuffered DEF RequestNuke
<1>7. CASE TimePasses /\ UNCHANGED <<webVars, worker>>
  <2>1. UNCHANGED <<taskRuns, redisVars>>
    BY <1>1, <1>7, NotSuffered DEF TimePasses, LockExpires, CredentialExpires
  <2> QED BY <1>1, <1>2, <1>7, <2>1, StillLocks
<1>8. CASE UNCHANGED kioskVars
  BY <1>1, <1>2, <1>8, StillLocks DEF kioskVars, storeVars
<1> QED BY <1>3, <1>4, <1>5, <1>6, <1>7, <1>8 DEF KioskNext, WebNext

LEMMA LockInvariant == KioskSpec => []LockIInv
<1>1. KioskInit => LockIInv
  BY KioskInitOK, LockInit DEF LockIInv
<1> QED BY <1>1, LockStep, PTL DEF KioskSpec

(* What is in flight is what holds its address. *)
LEMMA InFlightHolds ==
  ASSUME KioskIInv, LockPart, NEW r \in InFlight
  PROVE  \/ r \in Waiting
         \/ r \in retryQueue
         \/ \E t \in Thread : Pushes(t) /\ handler[t].run = r
         \/ WorkerHolds /\ worker.run = r
  BY DEF LockPart, InFlight, Pushes, WorkerHolds, HoldingPc, Underway, WorkerPc, MarksTell, WorkerMail,
     At, KioskIInv, WorkerPart, WorkerTypeOK

(* A run in flight holds the lock of its account, for every number of       *)
(* handlers and accounts, unless a TTL runs out, Redis fails, a process     *)
(* dies or an account is deleted.                                           *)
THEOREM LocksCoverWork == KioskSpec => []LockCoversWork
<1>1. ASSUME LockIInv PROVE LockCoversWork
  BY <1>1, InFlightHolds
  DEF LockIInv, LockPart, LocksHeld, LockCoversWork, Clear, Waiting, Mail
<1> QED BY <1>1, LockInvariant, PTL

(* Under the same conditions no account has two runs in flight, so no two   *)
(* browsers share a profile, and no run is queued twice.                    *)
THEOREM OneRunForAccount == KioskSpec => []OneRunPerAccount
<1>1. ASSUME LockIInv, Clear PROVE DedupPerAccount
  <2>. SUFFICES ASSUME NEW q \in InFlight, NEW r \in InFlight, Mail(q) = Mail(r) PROVE q = r
    BY DEF DedupPerAccount, Mail
  <2> QED BY <1>1, InFlightHolds
        DEF LockIInv, LockPart, HoldersApart, EntriesDiffer, EntriesAlone, OthersDiffer, Waiting
<1>2. ASSUME LockIInv, Clear
      PROVE  /\ \A i, j \in DOMAIN taskQueue : taskQueue[i] = taskQueue[j] => i = j
             /\ Waiting \cap retryQueue = {}
  BY <1>2 DEF LockIInv, LockPart, HoldersApart, EntriesDiffer, EntriesAlone, Waiting
<1>3. LockIInv => OneRunPerAccount
  BY <1>1, <1>2 DEF OneRunPerAccount, Clear
<1> QED BY <1>3, LockInvariant, PTL

----------------------------------------------------------------------------
(* The ledger of runs *)

(* The conditions of CompletionSound and of NoStrandedRun. *)
Calm == Never({"redis", "crash"})

Undisturbed == Never({"redis", "crash", "deletion"})

InQueues == Waiting \cup retryQueue

(* A handler has a run that it created and that is not queued yet. *)
Sends(t) == handler[t].op \in {"enqueue", "push", "duplicate"}

VerifyRuns == {r \in TaskIds : taskRuns[r].mode = "verify"}

(* The store counts on one copy of these: a lost reply of Redis may double  *)
(* a claim run in the queue, but no verify run.                             *)
Tracked(r) == r \in TaskIds /\ (Calm \/ r \in VerifyRuns)

Scheduled(r) == InState(r, {"scheduled"})

Unsettled(r) == InState(r, {"queued", "running", "deferred"})

Verified(r) == r \in VerifyRuns /\ InState(r, {"succeeded"})

AssignedFor(r, c) == \E a \in Address : assignments[a][c] = r

Assigned(r) == \E c \in Cycle : AssignedFor(r, c)

(* The worker may still dispatch it. *)
Ahead(r) == Scheduled(r) /\ Assigned(r)

(* Some handler has the run, and has not queued it yet. *)
Sent(r) == \E t \in Thread : Sends(t) /\ handler[t].run = r

(* The worker has the run, at one of these places. *)
Doing(r, S) == worker.run = r /\ worker.pc \in S

DispatchPc == {"status", "lock", "queue", "push", "cancel", "restore"}

(* Here the run that the worker has is in no queue. *)
AlonePc == {"lock", "queue", "push", "retry", "load", "claim", "stale", "badcontext",
            "unlock", "work", "reject", "complete", "done"}

(* Here it is not queued, running or deferred. *)
SettledPc == {"idle", "lock", "queue", "unlock", "release", "reject", "final"}

(* A run that has completed its cycle is not executed again: it is here. *)
RestPc == {"status", "cancel", "restore", "complete", "done", "error", "uncaught", "release",
           "final"}

(* The refresh job will find it among the scheduled runs of its cycle. *)
ToBeRead(r) == refresh.op = "read" /\ AssignedFor(r, refresh.cycle)

(* Every game of the run's cycle is recorded as claimed or owned. *)
AllRecorded(r) ==
  \A t \in Games[taskRuns[r].cycle] : results[r][t] \in SuccessfulGameStates

Completer(r) == \E a \in Address, c \in Cycle : completions[a][c] = r

(* What the ledger says of one run.  Runs of a cycle are dispatched, verify *)
(* runs are sent by handlers.                                               *)
Origin(r) ==
  /\ r \in scheduledQueue \cup refresh.runs \/ Doing(r, DispatchPc) => r \in CycleRuns
  /\ Sent(r) => r \in VerifyRuns

(* Handler, queue or worker: one of them has it. *)
OneHolder(r) ==
  /\ Sent(r) => r \notin InQueues /\ worker.run # r
  /\ Doing(r, AlonePc) /\ Tracked(r) => r \notin InQueues

(* A run is dispatched once: what the scheduler has ahead of it is nowhere  *)
(* else, and what it puts back for want of an assignment gets none.         *)
DispatchedOnce(r) ==
  Calm =>
    /\ Ahead(r) => /\ r \notin InQueues
                   /\ worker.run = r => worker.pc \in {"status", "lock", "queue", "cancel"}
    /\ Doing(r, {"restore"}) => ~ Assigned(r)

(* Nobody has a verified run any more. *)
VerdictKept(r) ==
  Verified(r) => r \notin InQueues /\ ~ Sent(r) /\ (worker.run = r => At("final"))

(* RecordRetry comes after the run has been queued for its retry. *)
RetryQueued(r) == Doing(r, {"requeued", "postponed"}) => r \in InQueues

Remembered(r) ==
  Calm /\ Unsettled(r) =>
    r \in InQueues \/ Sent(r) \/ (worker.run = r /\ worker.pc \notin SettledPc)

(* Who is scheduled has an assignment, and is in the sorted set, with the   *)
(* worker, or with the refresh job, which owes the set what it assigned.    *)
Placed(r) ==
  Undisturbed =>
    /\ r \in scheduledQueue \cup refresh.runs \/ Doing(r, DispatchPc) => Assigned(r)
    /\ refresh.op = "unschedule" /\ r \in refresh.runs => ~ Scheduled(r)
    /\ Scheduled(r) =>
         /\ Assigned(r)
         /\ \/ r \in scheduledQueue \/ worker.run = r
            \/ ToBeRead(r)
            \/ refresh.op = "persist" /\ r \in refresh.runs

CompleterRests(r) ==
  Calm =>
    /\ Doing(r, {"complete"}) => AllRecorded(r)
    /\ Completer(r) => /\ AllRecorded(r)
                       /\ r \notin InQueues
                       /\ ~ Ahead(r)
                       /\ worker.run = r => worker.pc \in RestPc

RunLedger(r) ==
  /\ Origin(r) /\ OneHolder(r) /\ DispatchedOnce(r) /\ VerdictKept(r) /\ RetryQueued(r)
  /\ Remembered(r) /\ Placed(r) /\ CompleterRests(r)

(* A run that counts is queued once. *)
EntriesOnce ==
  /\ \A i, j \in DOMAIN taskQueue : i # j /\ Tracked(taskQueue[i]) => taskQueue[i] # taskQueue[j]
  /\ \A r \in retryQueue : Tracked(r) => r \notin Waiting

SendersApart ==
  \A t, u \in Thread : t # u /\ Sends(t) /\ Sends(u) => handler[t].run # handler[u].run

(* Deletions need to be asked for. *)
NoDeletion == Undisturbed => \A t \in Thread : handler[t].op \notin {"nuke", "delete"}

IdleHasNone == At("idle") => worker.run = None

LedgerPart ==
  /\ EntriesOnce /\ SendersApart /\ NoDeletion /\ IdleHasNone
  /\ \A r \in Run : RunLedger(r)

LedgerIInv == KioskIInv /\ LedgerPart

(* What a step does to the runs, in the words of the ledger. *)
CalmStays == (Calm' => Calm) /\ (Undisturbed' => Undisturbed)

RunsStay ==
  /\ TaskIds' = TaskIds /\ VerifyRuns' = VerifyRuns /\ CycleRuns' = CycleRuns
  /\ \A r \in Run : taskRuns[r] # None => taskRuns'[r].cycle = taskRuns[r].cycle

StateStays(r) ==
  /\ Scheduled(r)' <=> Scheduled(r)
  /\ Unsettled(r)' <=> Unsettled(r)
  /\ Verified(r)' <=> Verified(r)

(* Run x is given state s. *)
Becomes(x, s) ==
  /\ Scheduled(x)' <=> s = "scheduled"
  /\ Unsettled(x)' <=> s \in {"queued", "running", "deferred"}
  /\ Verified(x)' <=> x \in VerifyRuns /\ s = "succeeded"

Marked(x, s) == Becomes(x, s) /\ \A r \in Run \ {x} : StateStays(r)

AssignmentStays(r) ==
  /\ Assigned(r)' <=> Assigned(r)
  /\ \A c \in Cycle : AssignedFor(r, c)' <=> AssignedFor(r, c)

(* A run that completes a cycle is one that was created. *)
CompletionStays(r) ==
  /\ Completer(r)' <=> Completer(r)
  /\ Completer(r) \/ r \in TaskIds => (AllRecorded(r)' <=> AllRecorded(r))

LEMMA RunsSame ==
  ASSUME UNCHANGED taskRuns
  PROVE  RunsStay /\ \A r \in Run : StateStays(r)
  BY DEF RunsStay, StateStays, TaskIds, VerifyRuns, CycleRuns, Scheduled, Unsettled, Verified,
         InState

LEMMA RunMarked ==
  ASSUME KioskIInv, NEW x \in TaskIds, NEW s \in TaskState, NEW n \in 0 .. MaxRetries,
         UpdateTask(x, s, n)
  PROVE  RunsStay /\ Marked(x, s) /\ UNCHANGED <<assignments, completions, results>>
<1>1. /\ taskRuns \in [Run -> TaskRow \cup {None}]
      /\ taskRuns' = [taskRuns EXCEPT ![x].state = s, ![x].retries = n]
      /\ x \in Run /\ taskRuns[x] \in TaskRow /\ taskRuns[x] # None
  BY RowTyped DEF KioskIInv, StoreIInv, StoreTypeOK, UpdateTask
<1>2. \A r \in Run \ {x} : taskRuns'[r] = taskRuns[r]
  BY <1>1
<1>3. /\ taskRuns'[x].state = s /\ taskRuns'[x].mode = taskRuns[x].mode
      /\ taskRuns'[x].cycle = taskRuns[x].cycle
  <2>1. taskRuns'[x] = [taskRuns[x] EXCEPT !.state = s, !.retries = n]
    BY <1>1
  <2> QED BY <1>1, <2>1 DEF TaskRow
<1>4. taskRuns'[x] # None
  <2>1. StoreStep
    BY UpdateIsStep
  <2>2. x \in TaskIds'
    BY <2>1, KnowledgeLasts DEF KioskIInv
  <2> QED BY <2>2 DEF TaskIds
<1>5. RunsStay
  <2>1. \A r \in Run : /\ (taskRuns'[r] # None) = (taskRuns[r] # None)
                      /\ taskRuns'[r].mode = taskRuns[r].mode
                      /\ taskRuns'[r].cycle = taskRuns[r].cycle
    BY <1>1, <1>2, <1>3, <1>4
  <2> QED BY <2>1 DEF RunsStay, TaskIds, VerifyRuns, CycleRuns
<1>6. Marked(x, s)
  BY <1>1, <1>2, <1>3, <1>4, <1>5 DEF RunsStay, Marked, Becomes, StateStays, Scheduled,
                                      Unsettled, Verified, InState
<1> QED BY <1>5, <1>6 DEF UpdateTask

LEMMA AssignmentsSame ==
  ASSUME UNCHANGED assignments
  PROVE  \A r \in Run : AssignmentStays(r)
  BY DEF AssignmentStays, Assigned, AssignedFor

LEMMA CompletersKnown ==
  ASSUME KioskIInv, NEW r \in Run, Completer(r)
  PROVE  r \in TaskIds
  BY StoreAssumption DEF StoreAssumption, KioskIInv, StoreIInv, ReferencesMatch, StoreTypeOK,
                         Completer,
     TaskIds

LEMMA CompletionsSame ==
  ASSUME KioskIInv, RunsStay, UNCHANGED <<completions, results>>
  PROVE  \A r \in Run : CompletionStays(r)
  BY CompletersKnown DEF CompletionStays, RunsStay, TaskIds, Completer, AllRecorded

----------------------------------------------------------------------------
(* The queues *)

TrackedStays == \A r \in TaskIds : Tracked(r)' => Tracked(r)

LEMMA TrackedBefore ==
  ASSUME CalmStays, RunsStay
  PROVE  TrackedStays
  BY DEF CalmStays, RunsStay, TrackedStays, Tracked

LEMMA QueuesKnown ==
  ASSUME KioskIInv
  PROVE  InQueues \subseteq TaskIds
  BY DEF KioskIInv, RedisPart, QueueKnown, KeysKnown, InQueues

LEMMA QueuesSame ==
  ASSUME KioskIInv, EntriesOnce, TrackedStays, UNCHANGED <<taskQueue, retryQueue>>
  PROVE  InQueues' = InQueues /\ EntriesOnce'
<1>1. Waiting' = Waiting
  BY DEF Waiting
<1>2. \A i \in DOMAIN taskQueue : taskQueue[i] \in TaskIds
  BY HoldersKnown
<1>3. \A r \in retryQueue : r \in TaskIds
  BY HoldersKnown
<1> QED BY <1>1, <1>2, <1>3 DEF EntriesOnce, TrackedStays, InQueues

(* RPUSH of a run that is in no queue, if it counts. *)
LEMMA QueuesAppend ==
  ASSUME KioskIInv, EntriesOnce, TrackedStays, NEW x \in TaskIds, Tracked(x) => x \notin InQueues,
         taskQueue' = Append(taskQueue, x), UNCHANGED retryQueue
  PROVE  InQueues' = InQueues \cup {x} /\ EntriesOnce'
<1>. DEFINE n == Len(taskQueue) + 1
<1>1. /\ DOMAIN taskQueue' = DOMAIN taskQueue \cup {n} /\ n \notin DOMAIN taskQueue
      /\ taskQueue'[n] = x
      /\ \A i \in DOMAIN taskQueue : taskQueue'[i] = taskQueue[i]
  BY Appended
<1>. HIDE DEF n
<1>2. Waiting' = Waiting \cup {x}
  BY <1>1 DEF Waiting
<1>3. \A i \in DOMAIN taskQueue : taskQueue[i] \in TaskIds /\ taskQueue[i] \in InQueues
  BY HoldersKnown DEF InQueues, Waiting
<1>4. \A r \in retryQueue : r \in TaskIds /\ r \in InQueues
  BY HoldersKnown DEF InQueues
<1>5. ASSUME NEW i \in DOMAIN taskQueue', NEW j \in DOMAIN taskQueue', i # j,
             Tracked(taskQueue[i])'
      PROVE  taskQueue'[i] # taskQueue'[j]
  <2>1. CASE i = n
    BY <1>1, <1>3, <1>5, <2>1 DEF TrackedStays
  <2>2. CASE j = n
    BY <1>1, <1>3, <1>5, <2>2 DEF TrackedStays
  <2>3. CASE i # n /\ j # n
    BY <1>1, <1>3, <1>5, <2>3 DEF TrackedStays, EntriesOnce
  <2> QED BY <2>1, <2>2, <2>3
<1>6. \A r \in retryQueue' : Tracked(r)' => r \notin Waiting'
  BY <1>2, <1>4 DEF TrackedStays, EntriesOnce
<1> QED BY <1>2, <1>5, <1>6 DEF EntriesOnce, InQueues

LEMMA QueuesDefer ==
  ASSUME KioskIInv, EntriesOnce, TrackedStays, NEW x \in TaskIds, Tracked(x) => x \notin InQueues,
         retryQueue' = retryQueue \cup {x}, UNCHANGED taskQueue
  PROVE  InQueues' = InQueues \cup {x} /\ EntriesOnce'
<1>1. Waiting' = Waiting
  BY DEF Waiting
<1>2. \A i \in DOMAIN taskQueue : taskQueue[i] \in TaskIds
  BY HoldersKnown
<1>3. \A r \in retryQueue : r \in TaskIds
  BY HoldersKnown
<1> QED BY <1>1, <1>2, <1>3 DEF EntriesOnce, TrackedStays, InQueues

(* BLPOP: of a run that counts nothing is left. *)
LEMMA QueuesPop ==
  ASSUME KioskIInv, EntriesOnce, TrackedStays, taskQueue # << >>, taskQueue' = Tail(taskQueue),
         UNCHANGED retryQueue
  PROVE  /\ InQueues' \subseteq InQueues /\ InQueues \subseteq InQueues' \cup {Head(taskQueue)}
         /\ Tracked(Head(taskQueue)) => Head(taskQueue) \notin InQueues'
         /\ EntriesOnce'
<1>1. taskQueue \in Seq(Run) /\ taskQueue # << >>
  BY DEF KioskIInv, RedisPart, QueueKnown
<1>. DEFINE x == Head(taskQueue)
<1>2. 1 \in DOMAIN taskQueue /\ x = taskQueue[1]
  BY <1>1
<1>3. /\ \A i \in DOMAIN taskQueue' : /\ i + 1 \in DOMAIN taskQueue /\ i + 1 # 1
                                     /\ taskQueue'[i] = taskQueue[i + 1]
                                     /\ i \in Nat
      /\ \A i \in DOMAIN taskQueue : i # 1 => /\ i - 1 \in DOMAIN taskQueue'
                                              /\ taskQueue'[i - 1] = taskQueue[i]
  BY <1>1
<1>4. \A i, j \in DOMAIN taskQueue' : i # j => i + 1 # j + 1
  BY <1>3
<1>. HIDE DEF x
<1>5. Waiting' \subseteq Waiting /\ Waiting \subseteq Waiting' \cup {x}
  <2>1. ASSUME NEW i \in DOMAIN taskQueue PROVE taskQueue[i] \in Waiting' \cup {x}
    BY <1>2, <1>3 DEF Waiting
  <2>2. ASSUME NEW i \in DOMAIN taskQueue' PROVE taskQueue'[i] \in Waiting
    BY <1>3 DEF Waiting
  <2> QED BY <2>1, <2>2 DEF Waiting
<1>6. ASSUME Tracked(x) PROVE x \notin Waiting'
  <2>1. Tracked(taskQueue[1])
    BY <1>2, <1>6
  <2>2. \A j \in DOMAIN taskQueue : j # 1 => taskQueue[1] # taskQueue[j]
    BY <1>2, <2>1 DEF EntriesOnce
  <2> QED BY <1>2, <1>3, <2>2 DEF Waiting
<1>7. Tracked(x) => x \notin retryQueue
  BY <1>2 DEF EntriesOnce, Waiting
<1>8. ASSUME NEW i \in DOMAIN taskQueue', NEW j \in DOMAIN taskQueue', i # j,
             Tracked(taskQueue[i])'
      PROVE  taskQueue'[i] # taskQueue'[j]
  <2>1. Tracked(taskQueue[i + 1])
    BY <1>3, <1>8, HoldersKnown DEF TrackedStays
  <2> QED BY <1>3, <1>4, <1>8, <2>1 DEF EntriesOnce
<1>9. \A r \in retryQueue' : Tracked(r)' => r \notin Waiting'
  BY <1>5, HoldersKnown DEF EntriesOnce, TrackedStays
<1> QED BY <1>5, <1>6, <1>7, <1>8, <1>9 DEF EntriesOnce, InQueues, x

LEMMA QueuesTake ==
  ASSUME KioskIInv, EntriesOnce, TrackedStays, NEW x \in retryQueue,
         retryQueue' = retryQueue \ {x}, UNCHANGED taskQueue
  PROVE  /\ InQueues' \subseteq InQueues /\ InQueues \subseteq InQueues' \cup {x}
         /\ Tracked(x) => x \notin InQueues'
         /\ EntriesOnce'
<1>1. Waiting' = Waiting
  BY DEF Waiting
<1>2. \A i \in DOMAIN taskQueue : taskQueue[i] \in TaskIds
  BY HoldersKnown
<1>3. \A r \in retryQueue : r \in TaskIds
  BY HoldersKnown
<1> QED BY <1>1, <1>2, <1>3 DEF EntriesOnce, TrackedStays, InQueues

----------------------------------------------------------------------------
(* Runs that a step has nothing to do with *)

(* A run is in one state, and has one mode. *)
LEMMA StatesDiffer ==
  ASSUME NEW r
  PROVE  /\ ~ (Scheduled(r) /\ Unsettled(r))
         /\ ~ (Verified(r) /\ (Scheduled(r) \/ Unsettled(r)))
  BY DEF Scheduled, Unsettled, Verified, InState

LEMMA ModesDiffer ==
  ASSUME KioskIInv, NEW r \in CycleRuns
  PROVE  r \notin VerifyRuns
  BY DEF KioskIInv, StoreIInv, CycleRunsClaim, VerifyRuns, CycleRuns, TaskIds

(* A step that leaves run r where it is, and as it is.  Assignments and     *)
(* completions go with a deleted account, and handlers with their process.  *)
Untouched(r) ==
  /\ StateStays(r)
  /\ (r \in TaskIds)' <=> r \in TaskIds
  /\ (r \in VerifyRuns)' <=> r \in VerifyRuns
  /\ (r \in CycleRuns)' <=> r \in CycleRuns
  /\ Assigned(r)' => Assigned(r)
  /\ Undisturbed' => AssignmentStays(r)
  /\ Completer(r)' => Completer(r)
  /\ Completer(r) \/ r \in TaskIds => (AllRecorded(r)' <=> AllRecorded(r))
  /\ (r \in InQueues)' <=> r \in InQueues
  /\ Sent(r)' => Sent(r)
  /\ Calm' /\ Sent(r) => Sent(r)'
  /\ (worker.run = r)' <=> worker.run = r
  /\ worker.run = r => worker'.pc = worker.pc

LEMMA UntouchedLedger ==
  ASSUME KioskIInv, CalmStays, NEW r \in Run, RunLedger(r), Untouched(r)
  PROVE  /\ \A S : Doing(r, S)' <=> Doing(r, S)
         /\ Sent(r)' => (r \in VerifyRuns)'
         /\ OneHolder(r)' /\ DispatchedOnce(r)' /\ VerdictKept(r)' /\ RetryQueued(r)'
         /\ Remembered(r)' /\ CompleterRests(r)'
<1>1. \A S : Doing(r, S)' <=> Doing(r, S)
  BY DEF Doing, Untouched
<1>2. Ahead(r)' => Ahead(r)
  BY DEF Ahead, Untouched, StateStays
<1>3. Tracked(r)' => Tracked(r)
  BY DEF Tracked, CalmStays, Untouched
<1>. USE DEF Untouched, RunLedger, CalmStays
<1>4. (Sent(r)' => (r \in VerifyRuns)') /\ OneHolder(r)'
  BY <1>1, <1>3 DEF Origin, OneHolder
<1>5. DispatchedOnce(r)'
  BY <1>1, <1>2 DEF DispatchedOnce
<1>6. VerdictKept(r)' /\ RetryQueued(r)' /\ Remembered(r)'
  BY <1>1 DEF VerdictKept, RetryQueued, Remembered, StateStays, SettledPc, At
<1>7. CompleterRests(r)'
  <2>1. Doing(r, {"complete"}) => r \in TaskIds
    BY DEF Doing, KioskIInv, WorkerPart, WorkerKnows, At
  <2> QED BY <1>1, <1>2, <2>1 DEF CompleterRests, RestPc
<1> QED BY <1>1, <1>4, <1>5, <1>6, <1>7

(* Nor has the step a part in the scheduling of run r. *)
Aside(r) ==
  /\ Untouched(r)
  /\ (r \in scheduledQueue)' <=> r \in scheduledQueue
  /\ UNCHANGED refresh \/ (refresh'.runs \subseteq refresh.runs /\ ~ Undisturbed')

LEMMA ReadsCycle ==
  ASSUME KioskIInv, refresh.op = "read"
  PROVE  refresh.cycle \in Cycle
  BY DEF KioskIInv, RefreshPart, RefreshKnows

LEMMA AsideLedger ==
  ASSUME KioskIInv, CalmStays, NEW r \in Run, RunLedger(r), Aside(r)
  PROVE  RunLedger(r)'
<1>1. Untouched(r)
  BY DEF Aside
<1>2. Origin(r)'
  BY <1>1, UntouchedLedger DEF RunLedger, Origin, Aside, Untouched, DispatchPc
<1>3. Placed(r)'
  <2>1. CASE UNCHANGED refresh /\ Undisturbed'
    <3>1. ToBeRead(r)' <=> ToBeRead(r)
      BY <1>1, <2>1, ReadsCycle DEF ToBeRead, Untouched, AssignmentStays
    <3> QED BY <1>1, <2>1, <3>1, UntouchedLedger
            DEF RunLedger, Placed, Aside, Untouched, StateStays, AssignmentStays, CalmStays,
                DispatchPc
  <2> QED BY <2>1 DEF Aside, Placed
<1> QED BY <1>1, <1>2, <1>3, UntouchedLedger DEF RunLedger

----------------------------------------------------------------------------
(* The worker and the ledger *)

(* The handlers that have a run keep it. *)
SendersStay ==
  \A t \in Thread : /\ Sends(t)' <=> Sends(t)
                    /\ Sends(t) => handler'[t].run = handler[t].run

LEMMA SendersSame ==
  ASSUME SendersStay
  PROVE  (SendersApart => SendersApart') /\ \A r : Sent(r)' <=> Sent(r)
  BY DEF SendersStay, SendersApart, Sent

(* A step of the worker is about one run. *)
About(x) ==
  /\ CalmStays /\ RunsStay /\ SendersStay /\ (NoDeletion => NoDeletion')
  /\ UNCHANGED <<refresh, assignments>>
  /\ worker.run \in {x, None} /\ worker'.run \in {x, None}
  /\ \A r \in Run \ {x} : StateStays(r) /\ CompletionStays(r)

LEMMA WorkerLedger ==
  ASSUME KioskIInv, LedgerPart, NEW x \in TaskIds, About(x), EntriesOnce', IdleHasNone',
         \A r \in Run \ {x} : /\ (r \in InQueues)' <=> r \in InQueues
                              /\ (r \in scheduledQueue)' <=> r \in scheduledQueue,
         RunLedger(x)'
  PROVE  LedgerPart'
<1>1. \A r \in Run : AssignmentStays(r)
  BY AssignmentsSame DEF About
<1>2. (SendersApart => SendersApart') /\ \A r : Sent(r)' <=> Sent(r)
  BY SendersSame DEF About
<1>3. ASSUME NEW r \in Run \ {x} PROVE RunLedger(r)'
  <2>1. r # None /\ worker.run # r /\ worker'.run # r
    BY StoreAssumption DEF StoreAssumption, About
  <2>2. Untouched(r)
    BY <1>1, <1>2, <2>1 DEF Untouched, About, RunsStay, AssignmentStays, CompletionStays
  <2>3. Aside(r)
    BY <2>2 DEF Aside, About
  <2> QED BY <2>3, AsideLedger DEF About, LedgerPart
<1> QED BY <1>2, <1>3 DEF LedgerPart, About

(* The run of the step, as the ledger sees it. *)
LEMMA Seen ==
  ASSUME KioskIInv, LedgerPart, NEW x \in TaskIds, About(x)
  PROVE  /\ x \in Run /\ x # None /\ RunLedger(x)
         /\ AssignmentStays(x) /\ (Sent(x)' <=> Sent(x)) /\ (ToBeRead(x)' <=> ToBeRead(x))
         /\ (Calm' => Calm) /\ (Undisturbed' => Undisturbed) /\ (Undisturbed => Calm)
         /\ (x \in VerifyRuns)' <=> x \in VerifyRuns
         /\ (x \in CycleRuns)' <=> x \in CycleRuns
         /\ x \in CycleRuns => x \notin VerifyRuns
         /\ Tracked(x) <=> Calm \/ x \in VerifyRuns
         /\ Tracked(x)' => Tracked(x)
         /\ Ahead(x) <=> Assigned(x) /\ Scheduled(x)
         /\ Ahead(x)' <=> Assigned(x) /\ Scheduled(x)'
         /\ ~ (Scheduled(x) /\ Unsettled(x))
         /\ Verified(x) => x \in VerifyRuns
<1>1. x \in Run /\ x # None /\ RunLedger(x)
  BY StoreAssumption DEF StoreAssumption, TaskIds, LedgerPart
<1>2. AssignmentStays(x) /\ (Sent(x)' <=> Sent(x)) /\ (ToBeRead(x)' <=> ToBeRead(x))
  BY <1>1, AssignmentsSame, SendersSame, ReadsCycle DEF About, ToBeRead, AssignmentStays
<1>3. (Calm' => Calm) /\ (Undisturbed' => Undisturbed) /\ (Undisturbed => Calm)
  BY DEF About, CalmStays, Calm, Undisturbed, Never
<1> QED BY <1>1, <1>2, <1>3, StatesDiffer, ModesDiffer
        DEF About, RunsStay, Tracked, Ahead, AssignmentStays, Verified

(* The worker goes on with its run, and the queues stay as they are. *)
LEMMA GoesOn ==
  ASSUME KioskIInv, LedgerPart, NEW x \in TaskIds, About(x), worker.run = x, worker'.run = x,
         UNCHANGED <<taskQueue, retryQueue, scheduledQueue>>, CompletionStays(x),
         \/ /\ StateStays(x)
            /\ \/ At("status") /\ worker'.pc = "cancel"
               \/ At("status") /\ worker'.pc = "lock" /\ Ahead(x)
               \/ At("status") /\ worker'.pc = "restore" /\ ~ Assigned(x)
               \/ At("lock") /\ worker'.pc = "queue"
               \/ At("lock") /\ worker'.pc = "restore" /\ ~ Calm' /\ ~ Undisturbed'
               \/ At("push") /\ worker'.pc = "restore" /\ ~ Calm' /\ ~ Undisturbed'
               \/ At("load") /\ worker'.pc \in {"badcontext", "claim", "stale"}
               \/ At("claim") /\ worker'.pc = "badcontext"
               \/ At("reject") /\ worker'.pc = "final"
               \/ At("work") /\ worker'.pc = "done"
               \/ At("work") /\ worker'.pc = "complete" /\ AllRecorded(x)
               \/ worker.pc \in {"work", "done"} /\ worker'.pc = "error"
               \/ worker.pc \in {"work", "error"} /\ worker'.pc = "uncaught"
               \/ At("complete") /\ worker'.pc = "error"
               \/ At("release") /\ worker'.pc = "final"
         \/ At("queue") /\ worker'.pc = "push" /\ Becomes(x, "queued")
         \/ At("stale") /\ worker'.pc = "unlock" /\ Becomes(x, "failed")
         \/ /\ worker.pc \in {"badcontext", "uncaught"} /\ worker'.pc = "release"
            /\ Becomes(x, "failed")
         \/ At("claim") /\ worker'.pc = "work" /\ Becomes(x, "running")
         \/ At("requeued") /\ worker'.pc = "final" /\ Becomes(x, "queued")
         \/ At("postponed") /\ worker'.pc = "final" /\ Becomes(x, "deferred")
         \/ /\ At("work") /\ worker'.pc \in {"final", "reject"}
            /\ \E s \in {"failed", "manual_required"} : Becomes(x, s)
         \/ At("error") /\ worker'.pc = "final" /\ Becomes(x, "failed")
         \/ At("done") /\ worker'.pc = "final" /\ Becomes(x, "succeeded")
  PROVE  LedgerPart'
<1>1. InQueues' = InQueues /\ EntriesOnce'
  BY TrackedBefore, QueuesSame DEF LedgerPart, About
<1>2. IdleHasNone'
  BY DEF IdleHasNone, At
<1>. USE <1>1, Seen
     DEF RunLedger, At, Doing, StateStays, Becomes, AssignmentStays, CompletionStays
<1>3. Origin(x)'
  BY DEF Origin, About, DispatchPc
<1>4. OneHolder(x)'
  BY DEF OneHolder, AlonePc, DispatchedOnce, Origin, DispatchPc
<1>5. DispatchedOnce(x)'
  BY DEF DispatchedOnce
<1>6. VerdictKept(x)' /\ RetryQueued(x)'
  BY DEF VerdictKept, RetryQueued, OneHolder, AlonePc
<1>7. Remembered(x)'
  BY DEF Remembered, RetryQueued, SettledPc
<1>8. Placed(x)'
  BY DEF Placed, DispatchPc, About
<1>9. CompleterRests(x)'
  BY DEF CompleterRests, RestPc
<1> QED BY <1>2, <1>3, <1>4, <1>5, <1>6, <1>7, <1>8, <1>9, WorkerLedger

(* The worker is through with its run, or gives it back to the scheduler. *)
LEMMA LetsGo ==
  ASSUME KioskIInv, LedgerPart, NEW x \in TaskIds, About(x), worker.run = x,
         worker'.run = None, worker'.pc = "idle",
         UNCHANGED <<taskQueue, retryQueue>>, CompletionStays(x),
         \/ /\ StateStays(x) /\ UNCHANGED scheduledQueue
            /\ worker.pc \in {"unlock", "release", "final"} \/ (~ Calm' /\ ~ Undisturbed')
         \/ At("lock") /\ StateStays(x) /\ scheduledQueue' = scheduledQueue \cup {x}
         \/ At("cancel") /\ Becomes(x, "failed") /\ UNCHANGED scheduledQueue
         \/ At("restore") /\ Becomes(x, "scheduled") /\ scheduledQueue' = scheduledQueue \cup {x}
  PROVE  LedgerPart'
<1>1. InQueues' = InQueues /\ EntriesOnce'
  BY TrackedBefore, QueuesSame DEF LedgerPart, About
<1>2. IdleHasNone'
  BY DEF IdleHasNone
<1>. USE <1>1, Seen
     DEF RunLedger, At, Doing, StateStays, Becomes, AssignmentStays, CompletionStays
<1>3. Origin(x)' /\ OneHolder(x)' /\ RetryQueued(x)'
  BY DEF Origin, OneHolder, RetryQueued, About, DispatchPc
<1>4. DispatchedOnce(x)'
  BY DEF DispatchedOnce
<1>5. VerdictKept(x)'
  BY DEF VerdictKept
<1>6. Remembered(x)'
  BY DEF Remembered, SettledPc
<1>7. Placed(x)'
  BY DEF Placed, DispatchedOnce, DispatchPc, About
<1>8. CompleterRests(x)'
  BY DEF CompleterRests, DispatchedOnce, RestPc
<1> QED BY <1>2, <1>3, <1>4, <1>5, <1>6, <1>7, <1>8, WorkerLedger

(* The worker queues its run, for now or for later. *)
LEMMA Queues ==
  ASSUME KioskIInv, LedgerPart, NEW x \in TaskIds, About(x), worker.run = x,
         UNCHANGED scheduledQueue, CompletionStays(x),
         \/ taskQueue' = Append(taskQueue, x) /\ UNCHANGED retryQueue
         \/ retryQueue' = retryQueue \cup {x} /\ UNCHANGED taskQueue,
         \/ At("push") /\ worker'.pc = "idle" /\ worker'.run = None /\ StateStays(x)
         \/ At("retry") /\ worker'.pc = "idle" /\ worker'.run = None /\ Becomes(x, "queued")
         \/ /\ At("push") /\ worker'.pc = "restore" /\ worker'.run = x /\ StateStays(x)
            /\ ~ Calm' /\ ~ Undisturbed'
         \/ /\ At("work") /\ worker'.pc \in {"requeued", "postponed"} /\ worker'.run = x
            /\ StateStays(x)
         \/ /\ At("work") /\ worker'.pc \in {"error", "uncaught"} /\ worker'.run = x
            /\ StateStays(x) /\ ~ Calm' /\ ~ Undisturbed'
  PROVE  LedgerPart'
<1>1. Tracked(x) => x \notin InQueues
  BY Seen DEF RunLedger, OneHolder, Doing, AlonePc, At
<1>2. InQueues' = InQueues \cup {x} /\ EntriesOnce'
  BY <1>1, TrackedBefore, QueuesAppend, QueuesDefer DEF LedgerPart, About
<1>3. IdleHasNone'
  BY DEF IdleHasNone, At
<1>. USE <1>2, Seen
     DEF RunLedger, At, Doing, StateStays, Becomes, AssignmentStays, CompletionStays
<1>4. Origin(x)' /\ RetryQueued(x)' /\ Remembered(x)'
  BY DEF Origin, RetryQueued, Remembered, About, DispatchPc
<1>5. OneHolder(x)'
  BY DEF OneHolder, AlonePc
<1>6. DispatchedOnce(x)'
  BY DEF DispatchedOnce
<1>7. VerdictKept(x)'
  BY DEF VerdictKept
<1>8. Placed(x)'
  BY DEF Placed, DispatchedOnce, DispatchPc, About
<1>9. CompleterRests(x)'
  BY DEF CompleterRests, RestPc
<1> QED BY <1>2, <1>3, <1>4, <1>5, <1>6, <1>7, <1>8, <1>9, WorkerLedger

(* The worker takes a run out of a queue, or would have. *)
LEMMA TakesOut ==
  ASSUME KioskIInv, LedgerPart, NEW x \in TaskIds, About(x), At("idle"),
         UNCHANGED scheduledQueue, CompletionStays(x), StateStays(x),
         \/ taskQueue # << >> /\ x = Head(taskQueue) /\ taskQueue' = Tail(taskQueue)
            /\ UNCHANGED retryQueue
         \/ x \in retryQueue /\ retryQueue' = retryQueue \ {x} /\ UNCHANGED taskQueue,
         \/ worker'.pc \in {"load", "retry"} /\ worker'.run = x
         \/ UNCHANGED worker /\ ~ Calm' /\ ~ Undisturbed'
  PROVE  LedgerPart'
<1>1. TrackedStays /\ EntriesOnce
  BY TrackedBefore DEF About, LedgerPart
<1>2. /\ InQueues' \subseteq InQueues /\ InQueues \subseteq InQueues' \cup {x}
      /\ Tracked(x) => x \notin InQueues'
      /\ EntriesOnce'
  BY <1>1, QueuesPop, QueuesTake
<1>3. x \in InQueues
  <2>1. CASE taskQueue # << >> /\ x = Head(taskQueue)
    <3>1. taskQueue \in Seq(Run)
      BY DEF KioskIInv, RedisPart, QueueKnown
    <3>2. 1 \in DOMAIN taskQueue /\ x = taskQueue[1]
      BY <2>1, <3>1
    <3> QED BY <3>2 DEF InQueues, Waiting
  <2> QED BY <2>1 DEF InQueues
<1>4. worker.run = None /\ IdleHasNone'
  BY DEF IdleHasNone, LedgerPart, At
<1>. USE <1>2, <1>3, <1>4, Seen
     DEF RunLedger, At, Doing, StateStays, AssignmentStays, CompletionStays
<1>5. Origin(x)' /\ RetryQueued(x)'
  BY DEF Origin, RetryQueued, About, DispatchPc
<1>6. OneHolder(x)'
  BY DEF OneHolder, AlonePc
<1>7. DispatchedOnce(x)' /\ VerdictKept(x)'
  BY DEF DispatchedOnce, VerdictKept
<1>8. Remembered(x)'
  BY DEF Remembered, SettledPc
<1>9. Placed(x)'
  BY DEF Placed, DispatchPc, About
<1>10. CompleterRests(x)'
  BY DEF CompleterRests, RestPc
<1> QED BY <1>2, <1>4, <1>5, <1>6, <1>7, <1>8, <1>9, <1>10, WorkerLedger

LEMMA TakesFromSchedule ==
  ASSUME KioskIInv, LedgerPart, NEW x \in scheduledQueue, x \in TaskIds, About(x), At("idle"),
         scheduledQueue' = scheduledQueue \ {x}, CompletionStays(x), StateStays(x),
         UNCHANGED <<taskQueue, retryQueue>>, worker'.pc = "status", worker'.run = x
  PROVE  LedgerPart'
<1>1. InQueues' = InQueues /\ EntriesOnce'
  BY TrackedBefore, QueuesSame DEF LedgerPart, About
<1>2. worker.run = None /\ IdleHasNone'
  BY DEF IdleHasNone, LedgerPart, At
<1>. USE <1>1, <1>2, Seen
     DEF RunLedger, At, Doing, StateStays, AssignmentStays, CompletionStays
<1>3. Origin(x)' /\ RetryQueued(x)'
  BY DEF Origin, RetryQueued, About, DispatchPc
<1>4. OneHolder(x)' /\ VerdictKept(x)'
  BY DEF OneHolder, VerdictKept, Origin, AlonePc
<1>5. DispatchedOnce(x)'
  BY DEF DispatchedOnce
<1>6. Remembered(x)'
  BY DEF Remembered, SettledPc
<1>7. Placed(x)'
  BY DEF Placed, DispatchPc, About
<1>8. CompleterRests(x)'
  BY DEF CompleterRests, RestPc
<1> QED BY <1>1, <1>2, <1>3, <1>4, <1>5, <1>6, <1>7, <1>8, WorkerLedger

(* The run at work gets a result, or completes its cycle. *)
LEMMA WorksOn ==
  ASSUME KioskIInv, LedgerPart, NEW x \in TaskIds, About(x), worker.run = x, worker'.run = x,
         UNCHANGED <<taskQueue, retryQueue, scheduledQueue>>, StateStays(x),
         \/ At("work") /\ worker'.pc = "work" /\ (Completer(x)' <=> Completer(x))
         \/ At("complete") /\ worker'.pc = "done" /\ (AllRecorded(x)' <=> AllRecorded(x))
  PROVE  LedgerPart'
<1>1. InQueues' = InQueues /\ EntriesOnce'
  BY TrackedBefore, QueuesSame DEF LedgerPart, About
<1>2. IdleHasNone'
  BY DEF IdleHasNone, At
<1>. USE <1>1, <1>2, Seen DEF RunLedger, At, Doing, StateStays, AssignmentStays
<1>3. Origin(x)' /\ RetryQueued(x)'
  BY DEF Origin, RetryQueued, About, DispatchPc
<1>4. OneHolder(x)' /\ VerdictKept(x)'
  BY DEF OneHolder, VerdictKept, AlonePc
<1>5. DispatchedOnce(x)'
  BY DEF DispatchedOnce
<1>6. Remembered(x)'
  BY DEF Remembered, SettledPc
<1>7. Placed(x)'
  BY DEF Placed, DispatchPc, About
<1>8. CompleterRests(x)'
  BY DEF CompleterRests, DispatchedOnce, OneHolder, AlonePc, RestPc
<1> QED BY <1>2, <1>1, <1>3, <1>4, <1>5, <1>6, <1>7, <1>8, WorkerLedger

----------------------------------------------------------------------------
(* What disturbs the conditions. *)
LEMMA Disturbs ==
  ASSUME KioskIInv, Suffer("redis") \/ Suffer("crash")
  PROVE  ~ Calm' /\ ~ Undisturbed'
  BY DEF KioskIInv, RedisPart, FaultsCounted, Suffer, Calm, Undisturbed, Never, FaultKind

LEMMA DeletionDisturbs ==
  ASSUME KioskIInv, Suffer("deletion")
  PROVE  ~ Undisturbed'
  BY DEF KioskIInv, RedisPart, FaultsCounted, Suffer, Undisturbed, Never, FaultKind

LEMMA CalmBefore ==
  ASSUME KioskIInv, [KioskNext]_kioskVars
  PROVE  CalmStays
  BY FaultsMove
  DEF KioskIInv, RedisPart, FaultsCounted, Suffer, CalmStays, Calm, Undisturbed, Never, FaultKind

LEMMA AboutStill ==
  ASSUME KioskIInv, CalmStays, UNCHANGED <<handler, refresh>>, NEW x \in TaskIds,
         UNCHANGED <<taskRuns, assignments, results, completions>>,
         worker.run \in {x, None}, worker'.run \in {x, None}
  PROVE  About(x) /\ StateStays(x) /\ CompletionStays(x)
<1>1. x \in Run
  BY DEF TaskIds
<1> QED BY <1>1, RunsSame, CompletionsSame DEF About, SendersStay, Sends, NoDeletion, CalmStays

LEMMA AboutMarked ==
  ASSUME KioskIInv, CalmStays, UNCHANGED <<handler, refresh>>, NEW x \in TaskIds,
         NEW s \in TaskState, NEW n \in 0 .. MaxRetries, UpdateTask(x, s, n),
         worker.run \in {x, None}, worker'.run \in {x, None}
  PROVE  About(x) /\ Becomes(x, s) /\ CompletionStays(x)
<1>1. x \in Run
  BY DEF TaskIds
<1> QED BY <1>1, RunMarked, CompletionsSame
        DEF About, Marked, SendersStay, Sends, NoDeletion, CalmStays

LEMMA AboutSet ==
  ASSUME KioskIInv, CalmStays, UNCHANGED <<handler, refresh>>, NEW x \in TaskIds,
         NEW s \in TaskState, SetState(x, s), worker.run \in {x, None}, worker'.run \in {x, None}
  PROVE  About(x) /\ Becomes(x, s) /\ CompletionStays(x)
  BY RowTyped, AboutMarked DEF SetState, KioskIInv

(* Where the worker is not idle, it has a run. *)
LEMMA WorkerHasRun ==
  ASSUME KioskIInv, ~ At("idle")
  PROVE  worker.run \in TaskIds
  BY DEF KioskIInv, WorkerPart, WorkerKnows

LEMMA TypedWorker ==
  ASSUME KioskIInv
  PROVE  DOMAIN worker = {"pc", "run", "email", "retries", "games", "owner"}
  BY DEF KioskIInv, WorkerPart, WorkerTypeOK

LEMMA DispatchLedger ==
  ASSUME KioskIInv, LedgerPart, CalmStays, UNCHANGED <<handler, refresh>>,
         \/ (\E r \in Run : TakeScheduled(r)) \/ ReadStatus \/ LockScheduled \/ LockScheduledFails
         \/ QueueScheduled \/ PushScheduled \/ PushScheduledFails
         \/ CancelScheduled \/ RestoreScheduled
  PROVE  LedgerPart'
<1>. USE DEF TaskState
<1>1. ASSUME NEW r \in Run, TakeScheduled(r) PROVE LedgerPart'
  <2>1. At("idle") /\ r \in scheduledQueue /\ r \in TaskIds /\ worker.run = None
    BY <1>1 DEF TakeScheduled, KioskIInv, RedisPart, KeysKnown, LedgerPart, IdleHasNone
  <2>2. worker'.pc = "status" /\ worker'.run = r
    BY <1>1, TypedWorker DEF TakeScheduled
  <2>3. /\ UNCHANGED <<taskQueue, retryQueue, taskRuns, assignments, results, completions>>
        /\ scheduledQueue' = scheduledQueue \ {r}
    BY <1>1 DEF TakeScheduled, Unschedule, storeVars
  <2> QED BY <2>1, <2>2, <2>3, AboutStill, TakesFromSchedule
<1>. DEFINE x == worker.run
<1>2. CASE ReadStatus
  <2>1. At("status") /\ x \in TaskIds
    BY <1>2, WorkerHasRun DEF ReadStatus, At
  <2>2. /\ UNCHANGED <<taskQueue, retryQueue, scheduledQueue>>
        /\ UNCHANGED <<taskRuns, assignments, results, completions>>
    BY <1>2 DEF ReadStatus, storeVars, redisVars
  <2>3. /\ worker'.run = x
        /\ \/ worker'.pc = "cancel"
           \/ worker'.pc = "lock" /\ Ahead(x)
           \/ worker'.pc = "restore" /\ ~ Assigned(x)
    <3>1. CASE ~ Assigned(x)
      BY <1>2, <3>1, TypedWorker DEF ReadStatus, CycleRunDispatchStatus, GoTo, Assigned, AssignedFor
    <3>2. CASE Assigned(x)
      BY <1>2, <2>1, <3>2, TypedWorker
      DEF ReadStatus, CycleRunDispatchStatus, GoTo, Assigned, AssignedFor, Ahead, Scheduled,
          InState,
          TaskIds
    <3> QED BY <3>1, <3>2
  <2> QED BY <2>1, <2>2, <2>3, AboutStill, GoesOn
<1>3. CASE LockScheduled
  <2>1. At("lock") /\ x \in TaskIds
    BY <1>3, WorkerHasRun DEF LockScheduled, At
  <2>2. UNCHANGED <<taskQueue, retryQueue, taskRuns, assignments, results, completions>>
    BY <1>3 DEF LockScheduled, SetLock, Schedule, storeVars
  <2>3. CASE SetLock(worker.email) /\ GoTo("queue")
    <3>1. UNCHANGED scheduledQueue /\ worker'.pc = "queue" /\ worker'.run = x
      BY <2>3, TypedWorker DEF SetLock, GoTo
    <3> QED BY <2>1, <2>2, <3>1, AboutStill, GoesOn
  <2>4. CASE Schedule({x}) /\ GoIdle
    <3>1. /\ scheduledQueue' = scheduledQueue \cup {x}
          /\ worker'.pc = "idle" /\ worker'.run = None
      BY <2>4 DEF Schedule, GoIdle, IdleWorker
    <3> QED BY <2>1, <2>2, <3>1, AboutStill, LetsGo
  <2> QED BY <1>3, <2>3, <2>4 DEF LockScheduled
<1>4. CASE LockScheduledFails
  <2>1. At("lock") /\ x \in TaskIds /\ ~ Calm' /\ ~ Undisturbed'
    BY <1>4, WorkerHasRun, Disturbs DEF LockScheduledFails, At
  <2>2. /\ UNCHANGED <<taskQueue, retryQueue, scheduledQueue>>
        /\ UNCHANGED <<taskRuns, assignments, results, completions>>
        /\ worker'.pc = "restore" /\ worker'.run = x
    BY <1>4, TypedWorker DEF LockScheduledFails, SetLock, GoTo, storeVars, redisVars
  <2> QED BY <2>1, <2>2, AboutStill, GoesOn
<1>5. CASE QueueScheduled
  <2>1. At("queue") /\ x \in TaskIds /\ SetState(x, "queued")
    BY <1>5, WorkerHasRun DEF QueueScheduled, At
  <2>2. /\ UNCHANGED <<taskQueue, retryQueue, scheduledQueue>>
        /\ worker'.pc = "push" /\ worker'.run = x
    BY <1>5, TypedWorker DEF QueueScheduled, GoTo, redisVars
  <2> QED BY <2>1, <2>2, AboutSet, GoesOn
<1>6. CASE PushScheduled
  <2>1. At("push") /\ x \in TaskIds
    BY <1>6, WorkerHasRun DEF PushScheduled, At
  <2>2. /\ taskQueue' = Append(taskQueue, x)
        /\ UNCHANGED <<retryQueue, scheduledQueue, taskRuns, assignments, results, completions>>
        /\ worker'.pc = "idle" /\ worker'.run = None
    BY <1>6 DEF PushScheduled, RPush, GoIdle, IdleWorker, storeVars
  <2> QED BY <2>1, <2>2, AboutStill, Queues
<1>7. CASE PushScheduledFails
  <2>1. At("push") /\ x \in TaskIds /\ ~ Calm' /\ ~ Undisturbed'
    BY <1>7, WorkerHasRun, Disturbs DEF PushScheduledFails, At
  <2>2. /\ UNCHANGED <<retryQueue, scheduledQueue, taskRuns, assignments, results, completions>>
        /\ taskQueue' = Append(taskQueue, x) \/ UNCHANGED taskQueue
        /\ worker'.pc = "restore" /\ worker'.run = x
    BY <1>7, TypedWorker DEF PushScheduledFails, RPush, GoTo, storeVars, redisVars
  <2> QED BY <2>1, <2>2, AboutStill, GoesOn, Queues
<1>8. CASE CancelScheduled
  <2>1. At("cancel") /\ x \in TaskIds /\ SetState(x, "failed")
    BY <1>8, WorkerHasRun DEF CancelScheduled, At
  <2>2. /\ UNCHANGED <<taskQueue, retryQueue, scheduledQueue>>
        /\ worker'.pc = "idle" /\ worker'.run = None
    BY <1>8 DEF CancelScheduled, GoIdle, IdleWorker, redisVars
  <2> QED BY <2>1, <2>2, AboutSet, LetsGo
<1>9. CASE RestoreScheduled
  <2>1. At("restore") /\ x \in TaskIds /\ SetState(x, "scheduled")
    BY <1>9, WorkerHasRun DEF RestoreScheduled, At
  <2>2. /\ UNCHANGED <<taskQueue, retryQueue>> /\ scheduledQueue' = scheduledQueue \cup {x}
        /\ worker'.pc = "idle" /\ worker'.run = None
    BY <1>9 DEF RestoreScheduled, GoIdle, IdleWorker
  <2> QED BY <2>1, <2>2, AboutSet, LetsGo
<1> QED BY <1>1, <1>2, <1>3, <1>4, <1>5, <1>6, <1>7, <1>8, <1>9

LEMMA TakingLedger ==
  ASSUME KioskIInv, LedgerPart, CalmStays, UNCHANGED <<handler, refresh>>,
         (\E r \in Run : TakeRetry(r)) \/ PushRetry \/ PopTask \/ PopLost
  PROVE  LedgerPart'
<1>1. ASSUME NEW r \in Run, TakeRetry(r) PROVE LedgerPart'
  <2>1. At("idle") /\ r \in retryQueue /\ r \in TaskIds /\ worker.run = None
    BY <1>1 DEF TakeRetry, KioskIInv, RedisPart, KeysKnown, LedgerPart, IdleHasNone
  <2>2. worker'.pc = "retry" /\ worker'.run = r
    BY <1>1, TypedWorker DEF TakeRetry
  <2>3. /\ UNCHANGED <<taskQueue, scheduledQueue, taskRuns, assignments, results, completions>>
        /\ retryQueue' = retryQueue \ {r}
    BY <1>1 DEF TakeRetry, storeVars
  <2> QED BY <2>1, <2>2, <2>3, AboutStill, TakesOut
<1>2. CASE PushRetry
  <2>. DEFINE x == worker.run
  <2>1. At("retry") /\ x \in TaskIds /\ SetState(x, "queued")
    BY <1>2, WorkerHasRun DEF PushRetry, At
  <2>2. /\ taskQueue' = Append(taskQueue, x) /\ UNCHANGED <<retryQueue, scheduledQueue>>
        /\ worker'.pc = "idle" /\ worker'.run = None
    BY <1>2 DEF PushRetry, GoIdle, IdleWorker
  <2> QED BY <2>1, <2>2, AboutSet, Queues DEF TaskState
<1>3. CASE PopTask \/ PopLost
  <2>. DEFINE x == Head(taskQueue)
  <2>1. /\ At("idle") /\ taskQueue # << >> /\ taskQueue' = Tail(taskQueue) /\ worker.run = None
        /\ UNCHANGED <<retryQueue, scheduledQueue, taskRuns, assignments, results, completions>>
    BY <1>3 DEF PopTask, PopLost, LedgerPart, IdleHasNone, storeVars
  <2>2. x \in TaskIds
    <3>1. taskQueue \in Seq(Run)
      BY DEF KioskIInv, RedisPart, QueueKnown
    <3>2. 1 \in DOMAIN taskQueue /\ x = taskQueue[1]
      BY <2>1, <3>1
    <3> QED BY <3>2, HoldersKnown
  <2>3. \/ worker'.pc = "load" /\ worker'.run = x
        \/ UNCHANGED worker /\ ~ Calm' /\ ~ Undisturbed'
    BY <1>3, TypedWorker, Disturbs DEF PopTask, PopLost
  <2>. HIDE DEF x
  <2>4. worker'.run \in {x, None}
    BY <2>1, <2>3
  <2> QED BY <2>1, <2>2, <2>3, <2>4, AboutStill, TakesOut DEF x
<1> QED BY <1>1, <1>2, <1>3

LEMMA StartLedger ==
  ASSUME KioskIInv, LedgerPart, CalmStays, UNCHANGED <<handler, refresh>>,
         \/ LoadContext \/ FailUnstarted \/ UnlockUnstarted \/ FailUncaught \/ ReleaseUncaught
         \/ BeginTask \/ BeginTaskFails
  PROVE  LedgerPart'
<1>. DEFINE x == worker.run
<1>1. CASE LoadContext
  <2>1. At("load") /\ x \in TaskIds
    BY <1>1, WorkerHasRun DEF LoadContext, At
  <2>2. /\ UNCHANGED <<taskQueue, retryQueue, scheduledQueue>>
        /\ UNCHANGED <<taskRuns, assignments, results, completions>>
        /\ worker'.pc \in {"badcontext", "claim", "stale"} /\ worker'.run = x
    BY <1>1, TypedWorker DEF LoadContext, LoadTaskContext, GoTo, redisVars
  <2> QED BY <2>1, <2>2, AboutStill, GoesOn
<1>2. CASE FailUnstarted \/ FailUncaught
  <2>1. x \in TaskIds /\ SetState(x, "failed")
    BY <1>2, WorkerHasRun DEF FailUnstarted, FailUncaught, At
  <2>2. /\ UNCHANGED <<taskQueue, retryQueue, scheduledQueue>>
        /\ worker'.run = x
        /\ \/ At("stale") /\ worker'.pc = "unlock"
           \/ worker.pc \in {"badcontext", "uncaught"} /\ worker'.pc = "release"
    BY <1>2, TypedWorker DEF FailUnstarted, FailUncaught, GoTo, redisVars
  <2> QED BY <2>1, <2>2, AboutSet, GoesOn DEF TaskState
<1>3. CASE UnlockUnstarted \/ ReleaseUncaught
  <2>1. worker.pc \in {"unlock", "release"} /\ x \in TaskIds
    BY <1>3, WorkerHasRun DEF UnlockUnstarted, ReleaseUncaught, At
  <2>2. /\ UNCHANGED <<taskQueue, retryQueue, scheduledQueue>>
        /\ UNCHANGED <<taskRuns, assignments, results, completions>>
        /\ \/ worker'.pc = "idle" /\ worker'.run = None
           \/ At("release") /\ worker'.pc = "final" /\ worker'.run = x
    BY <1>3, TypedWorker
    DEF UnlockUnstarted, ReleaseUncaught, DeleteLock, GoTo, GoIdle, IdleWorker, storeVars
  <2>3. CASE worker'.pc = "idle" /\ worker'.run = None
    BY <2>1, <2>2, <2>3, AboutStill, LetsGo DEF At
  <2>4. CASE At("release") /\ worker'.pc = "final" /\ worker'.run = x
    BY <2>1, <2>2, <2>4, AboutStill, GoesOn
  <2> QED BY <2>2, <2>3, <2>4
<1>4. CASE BeginTask
  <2>1. At("claim") /\ x \in TaskIds /\ UpdateTask(x, "running", worker.retries)
    BY <1>4, WorkerHasRun DEF BeginTask, At
  <2>2. /\ UNCHANGED <<taskQueue, retryQueue, scheduledQueue>>
        /\ worker'.pc = "work" /\ worker'.run = x
    BY <1>4, TypedWorker DEF BeginTask, GoTo
  <2>3. worker.retries \in 0 .. MaxRetries
    BY DEF KioskIInv, WorkerPart, WorkerTypeOK
  <2> QED BY <2>1, <2>2, <2>3, AboutMarked, GoesOn DEF TaskState
<1>5. CASE BeginTaskFails
  <2>1. At("claim") /\ x \in TaskIds
    BY <1>5, WorkerHasRun DEF BeginTaskFails, At
  <2>2. /\ UNCHANGED <<taskQueue, retryQueue, scheduledQueue>>
        /\ UNCHANGED <<taskRuns, assignments, results, completions>>
        /\ worker'.pc = "badcontext" /\ worker'.run = x
    BY <1>5, TypedWorker DEF BeginTaskFails, GoTo, storeVars, redisVars
  <2> QED BY <2>1, <2>2, AboutStill, GoesOn
<1> QED BY <1>1, <1>2, <1>3, <1>4, <1>5

(* run_task: the steps that queue the run again. *)
LEMMA RetryLedger ==
  ASSUME KioskIInv, LedgerPart, CalmStays, UNCHANGED <<handler, refresh>>,
         RetryNow \/ RetryLater \/ RetryFails \/ RecordRetry
  PROVE  LedgerPart'
<1>. DEFINE x == worker.run
<1>1. CASE RetryNow \/ RetryLater \/ RetryFails
  <2>1. At("work") /\ x \in TaskIds
    BY <1>1, WorkerHasRun DEF RetryNow, RetryLater, RetryFails, At
  <2>2. /\ UNCHANGED <<scheduledQueue, taskRuns, assignments, results, completions>>
        /\ \/ taskQueue' = Append(taskQueue, x) /\ UNCHANGED retryQueue
           \/ retryQueue' = retryQueue \cup {x} /\ UNCHANGED taskQueue
           \/ RetryFails /\ UNCHANGED <<taskQueue, retryQueue>>
    BY <1>1 DEF RetryNow, RetryLater, RetryFails, storeVars
  <2>3. /\ worker'.run = x
        /\ \/ worker'.pc \in {"requeued", "postponed"}
           \/ worker'.pc \in {"error", "uncaught"} /\ ~ Calm' /\ ~ Undisturbed'
    BY <1>1, TypedWorker, Disturbs DEF RetryNow, RetryLater, RetryFails, GoTo
  <2>4. CASE RetryFails /\ UNCHANGED <<taskQueue, retryQueue>>
    <3>1. worker'.pc \in {"error", "uncaught"}
      BY <2>4, TypedWorker DEF RetryFails
    <3> QED BY <2>1, <2>2, <2>3, <2>4, <3>1, AboutStill, GoesOn DEF At
  <2> QED BY <2>1, <2>2, <2>3, <2>4, AboutStill, Queues
<1>2. CASE RecordRetry
  <2>1. /\ worker.pc \in {"requeued", "postponed"} /\ x \in TaskIds
        /\ UpdateTask(x, IF At("requeued") THEN "queued" ELSE "deferred", worker.retries + 1)
    BY <1>2, WorkerHasRun DEF RecordRetry, At
  <2>2. /\ UNCHANGED <<taskQueue, retryQueue, scheduledQueue>>
        /\ worker'.pc = "final" /\ worker'.run = x
    BY <1>2, TypedWorker DEF RecordRetry, GoTo, redisVars
  <2>3. worker.retries + 1 \in 0 .. MaxRetries
    BY <2>1, StoreAssumption
    DEF StoreAssumption, KioskIInv, WorkerPart, WorkerTypeOK, WorkerKnows
  <2>4. CASE At("requeued")
    <3>1. About(x) /\ Becomes(x, "queued") /\ CompletionStays(x)
      BY <2>1, <2>2, <2>3, <2>4, AboutMarked DEF TaskState
    <3> QED BY <2>1, <2>2, <2>4, <3>1, GoesOn
  <2>5. CASE At("postponed")
    <3>1. About(x) /\ Becomes(x, "deferred") /\ CompletionStays(x)
      BY <2>1, <2>2, <2>3, <2>5, AboutMarked DEF TaskState, At
    <3> QED BY <2>1, <2>2, <2>5, <3>1, GoesOn
  <2> QED BY <2>1, <2>4, <2>5 DEF At
<1> QED BY <1>1, <1>2

(* run_task: the steps that end it otherwise. *)
LEMMA OutcomeLedger ==
  ASSUME KioskIInv, LedgerPart, CalmStays, UNCHANGED <<handler, refresh>>,
         \/ (\E s \in TaskState : GiveUp(s)) \/ SystemError \/ RejectCredentials
         \/ NukeRequestLost \/ VerifyPassed \/ ClaimDone \/ Succeed \/ FeedbackFails
  PROVE  LedgerPart'
<1>. DEFINE x == worker.run
<1>1. ~ At("idle") /\ x \in TaskIds
  BY WorkerHasRun DEF GiveUp, SystemError, RejectCredentials, NukeRequestLost, VerifyPassed,
     ClaimDone, Succeed, FeedbackFails, At
<1>2. UNCHANGED <<taskQueue, retryQueue, scheduledQueue>>
  BY DEF GiveUp, SystemError, RejectCredentials, NukeRequestLost, VerifyPassed, ClaimDone, Succeed,
         FeedbackFails, redisVars
<1>3. ASSUME NEW s \in TaskState, SetState(x, s), worker'.run = x,
             \/ /\ At("work") /\ worker'.pc \in {"final", "reject"}
                /\ s \in {"failed", "manual_required"}
             \/ At("done") /\ worker'.pc = "final" /\ s = "succeeded"
      PROVE  LedgerPart'
  <2>1. About(x) /\ Becomes(x, s) /\ CompletionStays(x)
    BY <1>1, <1>3, AboutSet
  <2> QED BY <1>1, <1>2, <1>3, <2>1, GoesOn
<1>4. CASE ClaimDone
  <2>1. CASE SetState(x, "manual_required") /\ GoTo("final")
    BY <1>3, <1>4, <2>1, TypedWorker DEF ClaimDone, GoTo, TaskState
  <2>2. CASE CycleReady(x) /\ ReadOwner /\ UNCHANGED storeVars
    <3>1. /\ At("work") /\ worker'.pc = "complete" /\ worker'.run = x
          /\ UNCHANGED <<taskRuns, assignments, results, completions>>
          /\ AllRecorded(x)
      BY <1>4, <2>2, TypedWorker DEF ClaimDone, ReadOwner, CycleReady, AllRecorded, storeVars
    <3> QED BY <1>1, <1>2, <3>1, AboutStill, GoesOn
  <2> QED BY <1>4, <2>1, <2>2 DEF ClaimDone
<1>5. CASE NukeRequestLost \/ VerifyPassed \/ FeedbackFails
  <2>1. /\ UNCHANGED <<taskRuns, assignments, results, completions>> /\ worker'.run = x
        /\ \/ At("reject") /\ worker'.pc = "final"
           \/ At("work") /\ worker'.pc = "done"
           \/ worker.pc \in {"work", "done"} /\ worker'.pc = "error"
           \/ At("error") /\ worker'.pc = "uncaught"
    BY <1>5, TypedWorker DEF NukeRequestLost, VerifyPassed, FeedbackFails, GoTo, storeVars, At
  <2> QED BY <1>1, <1>2, <2>1, AboutStill, GoesOn DEF At
<1>6. CASE (\E s \in TaskState : GiveUp(s)) \/ RejectCredentials \/ Succeed
  BY <1>3, <1>6, TypedWorker DEF GiveUp, RejectCredentials, Succeed, GoTo, TaskState
<1>7. CASE SystemError
  <2>1. /\ At("error") /\ UpdateTask(x, "failed", worker.retries)
        /\ worker'.pc = "final" /\ worker'.run = x
    BY <1>7, TypedWorker DEF SystemError, GoTo
  <2>2. worker.retries \in 0 .. MaxRetries
    BY DEF KioskIInv, WorkerPart, WorkerTypeOK
  <2> QED BY <1>1, <1>2, <2>1, <2>2, AboutMarked, GoesOn DEF TaskState
<1> QED BY <1>4, <1>5, <1>6, <1>7

LEMMA RecordsLedger ==
  ASSUME KioskIInv, LedgerPart, CalmStays, UNCHANGED <<handler, refresh>>,
         NEW t \in Title, NEW g \in Reported, RecordResult(t, g)
  PROVE  LedgerPart'
<1>. DEFINE x == worker.run
<1>1. At("work") /\ x \in TaskIds /\ x \in Run
  BY WorkerHasRun DEF RecordResult, At, TaskIds
<1>2. /\ UNCHANGED <<taskQueue, retryQueue, scheduledQueue, taskRuns, assignments, completions>>
      /\ worker'.pc = "work" /\ worker'.run = x
  BY <1>1, TypedWorker DEF RecordResult, RecordGameResult, redisVars, At
<1>3. \A r \in Run \ {x} : results'[r] = results[r]
  BY DEF RecordResult, RecordGameResult, KioskIInv, StoreIInv, StoreTypeOK
<1>4. RunsStay /\ \A r \in Run : StateStays(r)
  BY <1>2, RunsSame
<1>5. \A r \in Run \ {x} : CompletionStays(r)
  BY <1>2, <1>3 DEF CompletionStays, Completer, AllRecorded
<1>6. Completer(x)' <=> Completer(x)
  BY <1>2 DEF Completer
<1>7. About(x)
  BY <1>2, <1>4, <1>5 DEF About, SendersStay, Sends, NoDeletion, CalmStays
<1> QED BY <1>1, <1>2, <1>4, <1>6, <1>7, WorksOn

LEMMA CompletesLedger ==
  ASSUME KioskIInv, LedgerPart, CalmStays, UNCHANGED <<handler, refresh>>, CompleteCycle
  PROVE  LedgerPart'
<1>. DEFINE x == worker.run
<1>1. At("complete") /\ x \in TaskIds /\ x \in Run /\ x # None
  BY WorkerHasRun, StoreAssumption DEF StoreAssumption, CompleteCycle, At, TaskIds
<1>2. UNCHANGED <<taskQueue, retryQueue, scheduledQueue>> /\ worker'.run = x
  BY TypedWorker DEF CompleteCycle, GoTo, redisVars
<1>3. CASE UNCHANGED storeVars /\ GoTo("error")
  <2>1. UNCHANGED <<taskRuns, assignments, results, completions>> /\ worker'.pc = "error"
    BY <1>3, TypedWorker DEF GoTo, storeVars
  <2> QED BY <1>1, <1>2, <2>1, AboutStill, GoesOn
<1>4. CASE MarkCycleComplete(x, worker.owner) /\ GoTo("done")
  <2>1. /\ UNCHANGED <<taskRuns, assignments, results>> /\ worker'.pc = "done"
        /\ \/ UNCHANGED completions
           \/ /\ completions[worker.owner][taskRuns[x].cycle] = None
              /\ completions' = [completions EXCEPT ![worker.owner][taskRuns[x].cycle] = x]
    BY <1>4, TypedWorker DEF MarkCycleComplete, GoTo
  <2>2. RunsStay /\ \A r \in Run : StateStays(r)
    BY <2>1, RunsSame
  <2>3. ASSUME NEW r \in Run \ {x} PROVE Completer(r)' <=> Completer(r)
    <3>1. r # None /\ completions \in [Address -> [Cycle -> Run \cup {None}]]
      BY StoreAssumption DEF StoreAssumption, KioskIInv, StoreIInv, StoreTypeOK
    <3>2. \A a \in Address, c \in Cycle : completions'[a][c] = r <=> completions[a][c] = r
      BY <2>1, <3>1
    <3> QED BY <3>2 DEF Completer
  <2>4. \A r : AllRecorded(r)' <=> AllRecorded(r)
    BY <2>1 DEF AllRecorded
  <2>5. About(x)
    BY <1>2, <2>1, <2>2, <2>3, <2>4 
    DEF About, CompletionStays, SendersStay, Sends, NoDeletion, CalmStays
  <2> QED BY <1>1, <1>2, <2>1, <2>2, <2>4, <2>5, WorksOn
<1> QED BY <1>3, <1>4 DEF CompleteCycle

LEMMA WorkerEndsLedger ==
  ASSUME KioskIInv, LedgerPart, CalmStays, UNCHANGED <<handler, refresh>>, Finish \/ WorkerCrash
  PROVE  LedgerPart'
<1>. DEFINE x == worker.run
<1>1. x \in TaskIds
  BY WorkerHasRun DEF Finish, WorkerCrash, At
<1>2. /\ UNCHANGED <<taskQueue, retryQueue, scheduledQueue>>
      /\ UNCHANGED <<taskRuns, assignments, results, completions>>
      /\ worker'.pc = "idle" /\ worker'.run = None
  BY DEF Finish, WorkerCrash, DeleteLock, GoIdle, IdleWorker, storeVars, redisVars
<1>3. worker.pc = "final" \/ (~ Calm' /\ ~ Undisturbed')
  BY Disturbs DEF Finish, WorkerCrash, At
<1> QED BY <1>1, <1>2, <1>3, AboutStill, LetsGo

LEMMA WorkerLedgerKept ==
  ASSUME KioskIInv, LedgerPart, CalmStays, UNCHANGED webVars, WorkerNext
  PROVE  LedgerPart'
<1>1. UNCHANGED <<handler, refresh>>
  BY DEF webVars
<1> QED BY <1>1, DispatchLedger, TakingLedger, StartLedger, RetryLedger, OutcomeLedger,
RecordsLedger,
           CompletesLedger, WorkerEndsLedger
        DEF WorkerNext, WorkerStep, WorkerFault

----------------------------------------------------------------------------
(* The web process and the ledger *)

(* No run is queued, taken or written. *)
RunsAlone ==
  UNCHANGED <<taskQueue, retryQueue, taskRuns, assignments, results, completions, worker>>

LEMMA RunsAloneStill ==
  ASSUME KioskIInv, LedgerPart, CalmStays, RunsAlone
  PROVE  /\ EntriesOnce' /\ IdleHasNone'
         /\ \A r \in Run : (Sent(r)' => Sent(r)) /\ (Calm' /\ Sent(r) => Sent(r)') => Untouched(r)
<1>1. RunsStay /\ \A r \in Run : StateStays(r) /\ AssignmentStays(r) /\ CompletionStays(r)
  BY RunsSame, AssignmentsSame, CompletionsSame DEF RunsAlone
<1>2. InQueues' = InQueues /\ EntriesOnce'
  BY <1>1, TrackedBefore, QueuesSame DEF LedgerPart, RunsAlone
<1>3. IdleHasNone'
  BY DEF RunsAlone, LedgerPart, IdleHasNone, At
<1>4. \A r \in Run : (Sent(r)' => Sent(r)) /\ (Calm' /\ Sent(r) => Sent(r)') => Untouched(r)
  BY <1>1, <1>2 DEF Untouched, RunsStay, RunsAlone, AssignmentStays, CompletionStays
<1> QED BY <1>2, <1>3, <1>4

(* A request moves on, or fails. *)
LEMMA RequestMoves ==
  ASSUME KioskIInv, LedgerPart, CalmStays, RunsAlone, UNCHANGED <<scheduledQueue, refresh>>,
         NEW t \in Thread, \A u \in Thread \ {t} : handler'[u] = handler[u],
         Sends(t)' => Sends(t) /\ handler'[t].run = handler[t].run,
         Calm' /\ Sends(t) => Sends(t)',
         Undisturbed' => handler'[t].op \notin {"nuke", "delete"}
  PROVE  LedgerPart'
<1>1. \A u \in Thread : u # t => (Sends(u)' <=> Sends(u))
  BY DEF Sends
<1>2. \A r \in Run : (Sent(r)' => Sent(r)) /\ (Calm' /\ Sent(r) => Sent(r)')
  BY <1>1 DEF Sent
<1>3. \A r \in Run : Aside(r)
  BY <1>2, RunsAloneStill DEF Aside
<1>4. SendersApart'
  BY <1>1 DEF LedgerPart, SendersApart
<1>5. NoDeletion'
  BY DEF LedgerPart, NoDeletion, CalmStays
<1> QED BY <1>3, <1>4, <1>5, AsideLedger, RunsAloneStill DEF LedgerPart

(* RPUSH of the run of a deposit, or its rejection as a duplicate. *)
LEMMA RequestHandsOver ==
  ASSUME KioskIInv, LedgerPart, CalmStays, UNCHANGED <<scheduledQueue, refresh, worker>>,
         NEW t \in Thread, \A u \in Thread \ {t} : handler'[u] = handler[u],
         handler'[t].op = "idle", Sends(t), NEW x \in TaskIds, x = handler[t].run,
         UNCHANGED <<retryQueue, assignments, results, completions>>,
         \/ taskQueue' = Append(taskQueue, x) /\ UNCHANGED taskRuns
         \/ UNCHANGED taskQueue /\ SetState(x, "failed")
  PROVE  LedgerPart'
<1>1. /\ RunsStay /\ \A r \in Run \ {x} : StateStays(r)
      /\ \A r \in Run : AssignmentStays(r) /\ CompletionStays(r)
      /\ \/ taskQueue' = Append(taskQueue, x) /\ StateStays(x)
         \/ UNCHANGED taskQueue /\ Becomes(x, "failed")
  <2>1. x \in Run
    BY DEF TaskIds
  <2>2. CASE SetState(x, "failed") /\ UNCHANGED taskQueue
    BY <2>2, RowTyped, RunMarked, AssignmentsSame, CompletionsSame
    DEF SetState, TaskState, KioskIInv, Marked
  <2>3. CASE UNCHANGED taskRuns /\ taskQueue' = Append(taskQueue, x)
    BY <2>1, <2>3, RunsSame, AssignmentsSame, CompletionsSame
  <2> QED BY <2>2, <2>3
<1>2. /\ x \in Run /\ RunLedger(x) /\ Sent(x) /\ worker.run # x
      /\ x \in VerifyRuns /\ x \notin CycleRuns /\ x \notin InQueues
  BY ModesDiffer DEF TaskIds, LedgerPart, RunLedger, OneHolder, Origin, Sent
<1>3. /\ InQueues' \subseteq InQueues \cup {x} /\ InQueues \subseteq InQueues'
      /\ (Unsettled(x)' => x \in InQueues')
      /\ EntriesOnce'
  <2>1. CASE taskQueue' = Append(taskQueue, x)
    BY <1>1, <1>2, <2>1, TrackedBefore, QueuesAppend DEF LedgerPart
  <2>2. CASE UNCHANGED taskQueue /\ Becomes(x, "failed")
    BY <1>1, <2>2, TrackedBefore, QueuesSame DEF LedgerPart, Becomes
  <2> QED BY <1>1, <2>1, <2>2
<1>4. ~ Sends(t)' /\ \A u \in Thread : u # t => (Sends(u)' <=> Sends(u))
  BY DEF Sends
<1>5. ~ Sent(x)' /\ \A r \in Run \ {x} : Sent(r)' <=> Sent(r)
  BY <1>4 DEF LedgerPart, SendersApart, Sent
<1>6. ASSUME NEW r \in Run \ {x} PROVE RunLedger(r)'
  <2>1. Untouched(r)
    BY <1>1, <1>3, <1>5 DEF Untouched, RunsStay, AssignmentStays, CompletionStays
  <2> QED BY <2>1, AsideLedger DEF Aside, LedgerPart
<1>7. RunLedger(x)'
  <2>1. ~ Assigned(x) /\ ~ Completer(x)
    BY <1>2, StoreAssumption
    DEF Assigned, AssignedFor, Completer, StoreAssumption, KioskIInv, StoreIInv, ReferencesMatch,
        Claims, CycleRuns, TaskIds
  <2>2. ~ Assigned(x)' /\ ~ Completer(x)' /\ ~ Ahead(x)' /\ \A S : ~ Doing(x, S)'
    BY <1>1, <1>2, <2>1 DEF AssignmentStays, CompletionStays, Ahead, Doing
  <2>3. x \notin scheduledQueue' /\ x \notin refresh'.runs
    BY <1>2 DEF RunLedger, Origin
  <2>4. ~ Verified(x)' /\ (Undisturbed' => ~ Scheduled(x)')
    BY <1>1, <1>2, <2>1 DEF RunLedger, VerdictKept, Placed, CalmStays, StateStays, Becomes
  <2> QED BY <1>2, <1>3, <1>5, <2>2, <2>3, <2>4
          DEF RunLedger, Origin, OneHolder, DispatchedOnce, VerdictKept, RetryQueued, Remembered,
              Placed, CompleterRests
<1>8. SendersApart' /\ NoDeletion' /\ IdleHasNone'
  BY <1>4 DEF LedgerPart, SendersApart, NoDeletion, IdleHasNone, CalmStays, At
<1> QED BY <1>3, <1>6, <1>7, <1>8 DEF LedgerPart

LEMMA SendersHaveRuns ==
  ASSUME KioskIInv, NEW t \in Thread, Sends(t)
  PROVE  handler[t].run \in TaskIds
  BY DEF KioskIInv, HandlersPart, HandlersKnow, HandlerKnows, Sends

(* A run that does not exist yet is nowhere. *)
LEMMA Unborn ==
  ASSUME KioskIInv, NEW x \in Run \ TaskIds
  PROVE  /\ x \notin InQueues /\ x \notin scheduledQueue /\ x \notin refresh.runs
         /\ ~ Sent(x) /\ ~ Assigned(x) /\ ~ Completer(x)
         /\ ~ At("idle") => worker.run # x
<1>1. x \notin InQueues /\ x \notin scheduledQueue /\ x \notin refresh.runs
  BY DEF KioskIInv, RedisPart, QueueKnown, KeysKnown, RefreshPart, RefreshKnows, InQueues
<1>2. ~ Sent(x)
  BY SendersHaveRuns DEF Sent
<1>3. ~ Assigned(x) /\ ~ Completer(x)
  BY StoreAssumption
  DEF Assigned, AssignedFor, Completer, StoreAssumption, KioskIInv, StoreIInv, ReferencesMatch,
      Claims, TaskIds
<1>4. ~ At("idle") => worker.run # x
  BY DEF KioskIInv, WorkerPart, WorkerKnows
<1> QED BY <1>1, <1>2, <1>3, <1>4

LEMMA DepositLedger ==
  ASSUME KioskIInv, LedgerPart, CalmStays, NEW t \in Thread, NEW a \in Address, Deposit(t, a),
         UNCHANGED worker
  PROVE  LedgerPart'
<1>1. PICK x \in Run : CreateTaskRun(x, a, "verify") /\ Turn(t, "enqueue", x, a)
  BY DEF Deposit
<1>2. /\ UNCHANGED <<taskQueue, retryQueue, scheduledQueue, refresh>>
      /\ UNCHANGED <<assignments, results, completions>>
      /\ ~ Sends(t)
  BY <1>1 DEF Deposit, CreateTaskRun, redisVars, Sends
<1>3. /\ x \notin TaskIds /\ \A r \in Run \ {x} : taskRuns'[r] = taskRuns[r]
      /\ taskRuns'[x] # None /\ taskRuns'[x].mode = "verify" /\ taskRuns'[x].state = "queued"
      /\ taskRuns'[x].cycle = None
  <2>1. taskRuns' = [taskRuns EXCEPT ![x] =
          [email |-> a, mode |-> "verify", state |-> "queued", cycle |-> None, retries |-> 0,
           profile |-> IF accounts[a] # None THEN accounts[a].profile ELSE x]]
    BY <1>1 DEF CreateTaskRun
  <2>2. taskRuns \in [Run -> TaskRow \cup {None}] /\ x \notin TaskIds
    BY <1>1 DEF KioskIInv, StoreIInv, StoreTypeOK, CreateTaskRun, IsFresh
  <2>3. /\ taskRuns'[x].mode = "verify" /\ taskRuns'[x].state = "queued"
        /\ taskRuns'[x].cycle = None
    BY <2>1, <2>2
  <2>4. x \in TaskIds'
    <3>3. taskRuns'[x] = [email |-> a, mode |-> "verify", state |-> "queued", cycle |-> None,
            retries |-> 0, profile |-> IF accounts[a] # None THEN accounts[a].profile ELSE x]
      BY <2>1, <2>2
    <3>4. taskRuns'[x] \in TaskRow
      <4>1. (IF accounts[a] # None THEN accounts[a].profile ELSE x) \in Run \cup {None}
        BY DEF KioskIInv, StoreIInv, StoreTypeOK, AccountRow
      <4>2. 0 \in 0 .. MaxRetries
        BY StoreAssumption DEF StoreAssumption
      <4> QED BY <3>3, <4>1, <4>2 DEF TaskRow, Mode, TaskState
    <3> QED BY <3>4, StoreAssumption DEF StoreAssumption, TaskIds
  <2> QED BY <2>1, <2>2, <2>3, <2>4 DEF TaskIds
<1>4. /\ \A u \in Thread \ {t} : handler'[u] = handler[u]
      /\ handler'[t].op = "enqueue" /\ handler'[t].run = x
  BY <1>1, TurnTurnsTo
<1>5. x \in VerifyRuns' /\ x \notin CycleRuns' /\ Unsettled(x)' /\ ~ Scheduled(x)' /\ ~ Verified(x)'
  BY <1>3 DEF VerifyRuns, CycleRuns, TaskIds, Unsettled, Scheduled, Verified, InState
<1>6. ASSUME NEW r \in Run \ {x}
      PROVE  /\ (r \in TaskIds)' <=> r \in TaskIds
             /\ (r \in VerifyRuns)' <=> r \in VerifyRuns
             /\ (r \in CycleRuns)' <=> r \in CycleRuns
             /\ StateStays(r)
  <2>1. taskRuns'[r] = taskRuns[r]
    BY <1>3
  <2>2. (r \in TaskIds)' <=> r \in TaskIds
    BY <2>1 DEF TaskIds
  <2>3. (r \in VerifyRuns)' <=> r \in VerifyRuns
    BY <2>1, <2>2 DEF VerifyRuns
  <2>4. (r \in CycleRuns)' <=> r \in CycleRuns
    BY <2>1, <2>2 DEF CycleRuns
  <2> QED BY <2>1, <2>2, <2>3, <2>4 DEF StateStays, Scheduled, Unsettled, Verified, InState
<1>7. InQueues' = InQueues /\ EntriesOnce'
  <2>1. TrackedStays
    <3>1. ASSUME NEW r \in TaskIds PROVE r \in Run \ {x}
      BY <1>3 DEF TaskIds
    <3> QED BY <1>6, <3>1 DEF TrackedStays, Tracked, CalmStays
  <2> QED BY <1>2, <2>1, QueuesSame DEF LedgerPart
<1>8. Sends(t)' /\ \A u \in Thread : u # t => (Sends(u)' <=> Sends(u))
  BY <1>4 DEF Sends
<1>9. Sent(x)' /\ \A r \in Run \ {x} : Sent(r)' <=> Sent(r)
  BY <1>2, <1>4, <1>8 DEF Sent
<1>10. ASSUME NEW r \in Run \ {x} PROVE RunLedger(r)'
  <2>1. AssignmentStays(r)
    BY <1>2, AssignmentsSame
  <2>2. /\ Completer(r)' <=> Completer(r)
        /\ Completer(r) \/ r \in TaskIds => (AllRecorded(r)' <=> AllRecorded(r))
    BY <1>2, <1>3 DEF Completer, AllRecorded
  <2>3. Untouched(r)
    BY <1>6, <1>7, <1>9, <2>1, <2>2 DEF Untouched, AssignmentStays
  <2> QED BY <1>2, <2>3, AsideLedger DEF Aside, LedgerPart
<1>11. RunLedger(x)'
  <2>1. worker.run # x
    BY <1>3, Unborn, StoreAssumption DEF LedgerPart, IdleHasNone, StoreAssumption
  <2>2. ~ Assigned(x)' /\ ~ Completer(x)'
    BY <1>2, <1>3, Unborn DEF Assigned, AssignedFor, Completer
  <2>3. \A S : ~ Doing(x, S)'
    BY <2>1 DEF Doing
  <2> QED BY <1>2, <1>3, <1>5, <1>7, <1>9, <2>1, <2>2, <2>3, Unborn
          DEF RunLedger, Origin, OneHolder, DispatchedOnce, VerdictKept, RetryQueued, Remembered,
              Placed, CompleterRests, Ahead
<1>12. SendersApart'
  BY <1>3, <1>4, <1>8, SendersHaveRuns DEF LedgerPart, SendersApart
<1>13. NoDeletion' /\ IdleHasNone'
  BY <1>4 DEF LedgerPart, NoDeletion, IdleHasNone, CalmStays, At
<1> QED BY <1>7, <1>10, <1>11, <1>12, <1>13 DEF LedgerPart

(* A deletion changes addresses, and takes assignments and completions away. *)
LEMMA RemoveLedger ==
  ASSUME KioskIInv, LedgerPart, CalmStays, NEW t \in Thread, RemoveAccount(t), UNCHANGED worker
  PROVE  LedgerPart'
<1>. DEFINE gone == handler[t].email
<1>1. /\ handler[t].op = "delete" /\ gone \in Address /\ DeleteAccountRecord(gone)
      /\ Turn(t, "unlock", None, gone)
      /\ UNCHANGED <<taskQueue, retryQueue, scheduledQueue, refresh>>
  BY DEF RemoveAccount, KioskIInv, HandlersPart, HandlersKnow, HandlerKnows, redisVars
<1>2. /\ \A u \in Thread \ {t} : handler'[u] = handler[u]
      /\ handler'[t].op = "unlock"
  BY <1>1, TurnTurnsTo
<1>3. ~ Undisturbed'
  BY <1>1 DEF LedgerPart, NoDeletion, CalmStays
<1>4. \A u \in Thread : (Sends(u)' <=> Sends(u)) /\ (Sends(u) => handler'[u] = handler[u])
  BY <1>1, <1>2 DEF Sends
<1>5. \A r \in Run : Sent(r)' <=> Sent(r)
  BY <1>4 DEF Sent
<1>6. ASSUME NEW r \in Run
      PROVE  /\ (taskRuns'[r] # None) <=> (taskRuns[r] # None)
             /\ taskRuns[r] # None => /\ taskRuns'[r].mode = taskRuns[r].mode
                                     /\ taskRuns'[r].state = taskRuns[r].state
                                     /\ taskRuns'[r].cycle = taskRuns[r].cycle
  <2>1. taskRuns'[r] = IF taskRuns[r] # None /\ taskRuns[r].email = gone
                       THEN [taskRuns[r] EXCEPT !.email = Redacted(gone)] ELSE taskRuns[r]
    BY <1>1 DEF DeleteAccountRecord
  <2>2. taskRuns[r] \in TaskRow \cup {None}
    BY DEF KioskIInv, StoreIInv, StoreTypeOK
  <2>3. r \in TaskIds => r \in TaskIds'
    <3>1. StoreStep
      BY RemoveAccountIsStep
    <3> QED BY <3>1, KnowledgeLasts DEF KioskIInv
  <2> QED BY <2>1, <2>2, <2>3 DEF TaskRow, TaskIds
<1>7. RunsStay
  BY <1>6 DEF RunsStay, TaskIds, VerifyRuns, CycleRuns
<1>8. \A r \in Run : StateStays(r)
  BY <1>6, <1>7 DEF StateStays, RunsStay, Scheduled, Unsettled, Verified, InState
<1>9. InQueues' = InQueues /\ EntriesOnce'
  BY <1>1, <1>7, TrackedBefore, QueuesSame DEF LedgerPart
<1>10. ASSUME NEW r \in Run
       PROVE  (Assigned(r)' => Assigned(r)) /\ (Completer(r)' => Completer(r))
  <2>1. r # None
    BY StoreAssumption DEF StoreAssumption
  <2>2. \A b \in Address, c \in Cycle : assignments'[b][c] = r => assignments[b][c] = r
    BY <1>1, <2>1 DEF DeleteAccountRecord, KioskIInv, StoreIInv, StoreTypeOK
  <2>3. \A b \in Address, c \in Cycle : completions'[b][c] = r => completions[b][c] = r
    BY <1>1, <2>1 DEF DeleteAccountRecord, KioskIInv, StoreIInv, StoreTypeOK
  <2>4. Assigned(r)' => Assigned(r)
    BY <2>2 DEF Assigned, AssignedFor
  <2>5. Completer(r)' => Completer(r)
    BY <2>3 DEF Completer
  <2> QED BY <2>4, <2>5
<1>11. \A r \in Run : Completer(r) \/ r \in TaskIds => (AllRecorded(r)' <=> AllRecorded(r))
  BY <1>1, <1>7, CompletersKnown DEF AllRecorded, RunsStay, DeleteAccountRecord, TaskIds
<1>12. \A r \in Run : Untouched(r)
  BY <1>3, <1>5, <1>7, <1>8, <1>9, <1>10, <1>11 DEF Untouched, RunsStay
<1>13. \A r \in Run : RunLedger(r)'
  BY <1>1, <1>12, AsideLedger DEF Aside, LedgerPart
<1>14. SendersApart' /\ NoDeletion' /\ IdleHasNone'
  BY <1>3, <1>4 DEF LedgerPart, SendersApart, NoDeletion, IdleHasNone, At
<1> QED BY <1>9, <1>13, <1>14 DEF LedgerPart

(* The worker asks for a deletion, and ends its run. *)
LEMMA RequestNukeLedger ==
  ASSUME KioskIInv, LedgerPart, CalmStays, NEW t \in Thread, RequestNuke(t)
  PROVE  LedgerPart'
<1>. DEFINE x == worker.run
<1>1. /\ At("reject") /\ x \in TaskIds /\ ~ Undisturbed'
      /\ handler[t].op = "idle" /\ Turn(t, "nuke", None, worker.email)
  BY WorkerHasRun, DeletionDisturbs DEF RequestNuke, At
<1>2. /\ UNCHANGED <<taskQueue, retryQueue, scheduledQueue, refresh>>
      /\ UNCHANGED <<taskRuns, assignments, results, completions>>
      /\ worker'.pc = "final" /\ worker'.run = x
  BY TypedWorker DEF RequestNuke, GoTo, storeVars, redisVars
<1>3. (\A u \in Thread \ {t} : handler'[u] = handler[u]) /\ handler'[t].op = "nuke"
  BY <1>1, TurnTurnsTo
<1>4. SendersStay /\ NoDeletion'
  BY <1>1, <1>3 DEF SendersStay, Sends, NoDeletion
<1>5. x \in Run /\ RunsStay /\ \A r \in Run : StateStays(r) /\ CompletionStays(r)
  BY <1>1, <1>2, RunsSame, CompletionsSame DEF TaskIds
<1>6. About(x)
  BY <1>2, <1>4, <1>5 DEF About
<1> QED BY <1>1, <1>2, <1>5, <1>6, GoesOn

LEMMA ThreadLedger ==
  ASSUME KioskIInv, LedgerPart, CalmStays, UNCHANGED worker, NEW t \in Thread,
         Handle(t) \/ Request(t) \/ HandlerFails(t)
  PROVE  LedgerPart'
<1>1. CASE EnqueueTask(t)
  <2>1. /\ handler[t].op = "enqueue" /\ RunsAlone /\ UNCHANGED <<scheduledQueue, refresh>>
        /\ \E op \in {"push", "duplicate"} : Turn(t, op, handler[t].run, handler[t].email)
    BY <1>1 DEF EnqueueTask, SetLock, RunsAlone, storeVars, redisVars
  <2> QED BY <2>1, TurnTurnsTo, RequestMoves DEF Sends
<1>2. CASE PushTask(t)
  <2>1. /\ Sends(t) /\ Done(t) /\ taskQueue' = Append(taskQueue, handler[t].run)
        /\ UNCHANGED <<scheduledQueue, refresh, retryQueue>>
        /\ UNCHANGED <<taskRuns, assignments, results, completions>>
    BY <1>2 DEF PushTask, RPush, Sends, storeVars
  <2> QED BY <2>1, DoneTurns, SendersHaveRuns, RequestHandsOver
<1>3. CASE RejectDuplicate(t)
  <2>1. /\ Sends(t) /\ Done(t) /\ SetState(handler[t].run, "failed")
        /\ UNCHANGED <<scheduledQueue, refresh, retryQueue, taskQueue>>
        /\ UNCHANGED <<assignments, results, completions>>
    BY <1>3 DEF RejectDuplicate, SetState, UpdateTask, Sends, redisVars
  <2> QED BY <2>1, DoneTurns, SendersHaveRuns, RequestHandsOver
<1>4. CASE HandlerFails(t)
  <2>1. /\ UNCHANGED <<scheduledQueue, retryQueue, refresh>> /\ Done(t) /\ ~ Calm'
        /\ UNCHANGED <<taskRuns, assignments, results, completions>>
    BY <1>4, Disturbs
    DEF HandlerFails, EnqueueFails, DropLockFails, DeleteLock, storeVars, redisVars
  <2>2. CASE UNCHANGED taskQueue
    BY <2>1, <2>2, DoneTurns, RequestMoves DEF RunsAlone, Sends
  <2>3. CASE Sends(t) /\ taskQueue' = Append(taskQueue, handler[t].run)
    BY <2>1, <2>3, DoneTurns, SendersHaveRuns, RequestHandsOver
  <2> QED BY <1>4, <2>2, <2>3
          DEF HandlerFails, EnqueueFails, DropLockFails, DeleteLock, redisVars, Sends
<1>5. CASE \/ ReadPending(t) \/ SaveAccount(t) \/ NukeAccount(t) \/ DropLock(t)
           \/ (\E a \in Address : DeleteAccount(t, a)) \/ (\E r \in Run : ReadSucceededRun(t, r))
  <2>1. RunsAlone /\ UNCHANGED <<scheduledQueue, refresh>> /\ ~ Sends(t)
    BY <1>5 DEF ReadPending, SaveAccount, ConfirmPendingAccount, NukeAccount, DropLock, DeleteLock,
       DeleteAccount, ReadSucceededRun, RunsAlone, Sends, storeVars, redisVars
  <2>2. \/ Done(t)
        \/ \E op \in {"save", "confirm"} : \E r, a : Turn(t, op, r, a)
        \/ handler[t].op = "nuke" /\ \E r, a : Turn(t, "delete", r, a)
        \/ ~ Undisturbed' /\ \E r, a : Turn(t, "delete", r, a)
    BY <1>5, DeletionDisturbs DEF ReadPending, SaveAccount, NukeAccount, DropLock, DeleteAccount,
       ReadSucceededRun
  <2>3. /\ \A u \in Thread \ {t} : handler'[u] = handler[u]
        /\ handler'[t].op \in {"idle", "save", "confirm", "delete"}
        /\ handler'[t].op = "delete" => handler[t].op = "nuke" \/ ~ Undisturbed'
    BY <2>2, DoneTurns, TurnTurnsTo
  <2>4. Undisturbed' => handler[t].op # "nuke"
    BY DEF LedgerPart, NoDeletion, CalmStays
  <2> QED BY <2>1, <2>3, <2>4, RequestMoves DEF Sends
<1>6. CASE \E a \in Address : Deposit(t, a)
  BY <1>6, DepositLedger
<1>7. CASE RemoveAccount(t)
  BY <1>7, RemoveLedger
<1> QED BY <1>1, <1>2, <1>3, <1>4, <1>5, <1>6, <1>7 DEF Handle, Request

(* The job goes on, or ends, without touching a run. *)
LEMMA JobMovesOn ==
  ASSUME KioskIInv, LedgerPart, CalmStays, RunsAlone, UNCHANGED handler,
         \A r \in Run : Origin(r)' /\ Placed(r)'
  PROVE  LedgerPart'
<1>1. \A u \in Thread : Sends(u)' <=> Sends(u)
  BY DEF Sends
<1>2. \A r \in Run : Sent(r)' <=> Sent(r)
  BY <1>1 DEF Sent
<1>3. \A r \in Run : Untouched(r)
  BY <1>2, RunsAloneStill
<1>4. \A r \in Run : RunLedger(r)'
  BY <1>3, UntouchedLedger DEF LedgerPart, RunLedger
<1>5. SendersApart' /\ NoDeletion'
  BY <1>1 DEF LedgerPart, SendersApart, NoDeletion, CalmStays
<1> QED BY <1>4, <1>5, RunsAloneStill DEF LedgerPart

(* What Origin and Placed say once the job has moved. *)
LEMMA PlaceKept ==
  ASSUME KioskIInv, CalmStays, RunsAlone, UNCHANGED handler, NEW r \in Run, RunLedger(r),
         scheduledQueue' \subseteq scheduledQueue \cup refresh.runs,
         r \in refresh'.runs => r \in CycleRuns /\ (Undisturbed' => Assigned(r)),
         Undisturbed' /\ refresh'.op = "unschedule" /\ r \in refresh'.runs => ~ Scheduled(r),
         Undisturbed' /\ Scheduled(r) =>
           \/ r \in scheduledQueue' \/ worker.run = r \/ ToBeRead(r)'
           \/ refresh'.op = "persist" /\ r \in refresh'.runs
  PROVE  Origin(r)' /\ Placed(r)'
<1>1. /\ (r \in CycleRuns)' <=> r \in CycleRuns
      /\ (r \in VerifyRuns)' <=> r \in VerifyRuns
      /\ StateStays(r) /\ AssignmentStays(r)
  BY RunsSame, AssignmentsSame DEF RunsAlone, RunsStay
<1>2. /\ \A S : Doing(r, S)' <=> Doing(r, S)
      /\ Sent(r)' <=> Sent(r)
  BY DEF Doing, RunsAlone, Sent, Sends
<1>3. Origin(r)'
  BY <1>1, <1>2 DEF RunLedger, Origin, DispatchPc
<1>4. Placed(r)'
  BY <1>1, <1>2 DEF RunLedger, Placed, CalmStays, StateStays, AssignmentStays, RunsAlone, DispatchPc
<1> QED BY <1>3, <1>4

(* What the job selects is assigned, and so are the runs of a cycle. *)
LEMMA SelectedRuns ==
  ASSUME KioskIInv, NEW r, NEW c,
         r \in ObsoleteRuns(c) \/ (r \in ScheduledCycleRuns(c) /\ c \in Cycle)
  PROVE  r \in CycleRuns /\ Assigned(r)
<1>1. r \in TaskIds /\ r \in Run /\ \E a \in Address, d \in Cycle : assignments[a][d] = r
  BY DEF ObsoleteRuns, ScheduledCycleRuns, TaskIds
<1> QED BY <1>1, AssignedAreKnown DEF KioskIInv, Assigned, AssignedFor

LEMMA TypedRefresh ==
  ASSUME KioskIInv
  PROVE  DOMAIN refresh = {"op", "cycle", "runs", "due"}
  BY DEF KioskIInv, RefreshPart, RefreshTyped

LEMMA ReadingLedger ==
  ASSUME KioskIInv, LedgerPart, CalmStays, UNCHANGED worker,
         \/ (\E c \in Cycle : ActivateCycle(c)) \/ SelectObsolete \/ UnscheduleObsolete
         \/ SelectDue \/ ReadScheduledRuns \/ PersistScheduledRuns
  PROVE  LedgerPart'
<1>1. RunsAlone /\ UNCHANGED handler
  BY DEF ActivateCycle, SetActivePromotionCycle, SelectObsolete, UnscheduleObsolete, Unschedule,
     SelectDue, ReadScheduledRuns, PersistScheduledRuns, Schedule, RunsAlone, storeVars, redisVars
<1>2. SUFFICES ASSUME NEW r \in Run PROVE Origin(r)' /\ Placed(r)'
  BY <1>1, JobMovesOn
<1>3. /\ RunLedger(r) /\ (Undisturbed' => Undisturbed)
      /\ r \in refresh.runs => r \in CycleRuns
      /\ Undisturbed /\ r \in refresh.runs => Assigned(r)
      /\ Undisturbed /\ Scheduled(r) =>
           /\ Assigned(r)
           /\ \/ r \in scheduledQueue \/ worker.run = r \/ ToBeRead(r)
              \/ refresh.op = "persist" /\ r \in refresh.runs
  BY DEF LedgerPart, RunLedger, Origin, Placed, CalmStays
<1>4. CASE \E c \in Cycle : ActivateCycle(c)
  <2>1. /\ refresh.op = "idle" /\ refresh'.op = "select" /\ refresh'.runs = {}
        /\ UNCHANGED scheduledQueue
    BY <1>4 DEF ActivateCycle, IdleRefresh, redisVars
  <2> QED BY <1>1, <1>3, <2>1, PlaceKept DEF ToBeRead
<1>5. CASE SelectObsolete
  <2>1. /\ refresh.op = "select" /\ refresh'.op \in {"assign", "cancel"}
        /\ refresh'.runs = ObsoleteRuns(refresh.cycle) /\ UNCHANGED scheduledQueue
    BY <1>5, TypedRefresh DEF SelectObsolete, redisVars
  <2>2. r \in refresh'.runs => r \in CycleRuns /\ Assigned(r)
    BY <2>1, SelectedRuns
  <2> QED BY <1>1, <1>3, <2>1, <2>2, PlaceKept DEF ToBeRead
<1>6. CASE UnscheduleObsolete
  <2>1. /\ refresh.op = "unschedule" /\ refresh'.op \in {"unschedule", "assign"}
        /\ refresh'.runs \subseteq refresh.runs /\ scheduledQueue' \subseteq scheduledQueue
        /\ r \in scheduledQueue => r \in refresh.runs \/ r \in scheduledQueue'
    BY <1>6, TypedRefresh DEF UnscheduleObsolete, Unschedule, redisVars
  <2>2. Undisturbed /\ r \in refresh.runs => ~ Scheduled(r)
    BY <1>3, <2>1 DEF RunLedger, Placed
  <2> QED BY <1>1, <1>3, <2>1, <2>2, PlaceKept DEF ToBeRead
<1>7. CASE SelectDue
  <2>1. /\ refresh.op = "assign" /\ refresh'.op = "insert" /\ refresh'.runs = refresh.runs
        /\ UNCHANGED scheduledQueue
    BY <1>7, TypedRefresh DEF SelectDue, redisVars
  <2> QED BY <1>1, <1>3, <2>1, PlaceKept DEF ToBeRead
<1>8. CASE ReadScheduledRuns
  <2>1. /\ refresh.op = "read" /\ refresh'.op = "persist" /\ refresh.cycle \in Cycle
        /\ refresh'.runs = ScheduledCycleRuns(refresh.cycle) /\ UNCHANGED scheduledQueue
    BY <1>8, TypedRefresh DEF ReadScheduledRuns, redisVars, KioskIInv, RefreshPart, RefreshKnows
  <2>2. Scheduled(r) /\ ToBeRead(r) => r \in refresh'.runs
    BY <2>1 DEF Scheduled, InState, ToBeRead, AssignedFor, ScheduledCycleRuns, TaskIds
  <2>3. r \in refresh'.runs => r \in CycleRuns /\ Assigned(r)
    BY <2>1, SelectedRuns
  <2> QED BY <1>1, <1>3, <2>1, <2>2, <2>3, PlaceKept
<1>9. CASE PersistScheduledRuns
  <2>1. /\ refresh.op = "persist" /\ refresh'.op = "idle" /\ refresh'.runs = {}
        /\ scheduledQueue' = scheduledQueue \cup refresh.runs
    BY <1>9 DEF PersistScheduledRuns, Schedule, IdleRefresh
  <2> QED BY <1>1, <1>3, <2>1, PlaceKept DEF ToBeRead
<1> QED BY <1>4, <1>5, <1>6, <1>7, <1>8, <1>9

LEMMA JobDiesLedger ==
  ASSUME KioskIInv, LedgerPart, CalmStays, UNCHANGED worker, RefreshFails \/ WebCrash
  PROVE  LedgerPart'
<1>1. /\ RunsAlone /\ ~ Calm' /\ ~ Undisturbed'
      /\ refresh'.runs = {} /\ scheduledQueue' \subseteq scheduledQueue \cup refresh.runs
      /\ UNCHANGED handler \/ \A t \in Thread : handler'[t].op = "idle"
  BY Disturbs
  DEF RefreshFails, WebCrash, IdleRefresh, IdleHandler, Schedule, RunsAlone, storeVars, redisVars
<1>2. \A u \in Thread : Sends(u)' => Sends(u) /\ handler'[u].run = handler[u].run
  BY <1>1 DEF Sends
<1>3. \A r \in Run : Sent(r)' => Sent(r)
  BY <1>2 DEF Sent
<1>4. ASSUME NEW r \in Run PROVE RunLedger(r)'
  <2>1. Untouched(r) /\ RunLedger(r)
    BY <1>1, <1>3, RunsAloneStill DEF LedgerPart
  <2>2. Origin(r)'
    BY <1>1, <2>1, UntouchedLedger DEF RunLedger, Origin, Untouched, DispatchPc
  <2>3. Placed(r)'
    BY <1>1 DEF Placed
  <2> QED BY <2>1, <2>2, <2>3, UntouchedLedger DEF RunLedger
<1>5. SendersApart' /\ NoDeletion'
  BY <1>1, <1>2 DEF LedgerPart, SendersApart, NoDeletion
<1> QED BY <1>1, <1>4, <1>5, RunsAloneStill DEF LedgerPart

(* The UPDATE of the obsolete runs. *)
LEMMA CancelLedger ==
  ASSUME KioskIInv, LedgerPart, CalmStays, UNCHANGED worker, CancelObsolete
  PROVE  LedgerPart'
<1>. DEFINE S == refresh.runs
<1>1. /\ refresh.op = "cancel" /\ S \subseteq CycleRuns /\ S \subseteq TaskIds
      /\ refresh'.op = "unschedule" /\ refresh'.runs = S
      /\ UNCHANGED <<taskQueue, retryQueue, scheduledQueue, handler>>
      /\ UNCHANGED <<assignments, results, completions>>
  BY TypedRefresh DEF CancelObsolete, CancelObsoleteScheduledRuns, redisVars, KioskIInv,
                      RefreshPart,
     RefreshKnows
<1>2. ASSUME NEW r \in Run
      PROVE  /\ (taskRuns'[r] # None) <=> (taskRuns[r] # None)
             /\ taskRuns[r] # None => /\ taskRuns'[r].mode = taskRuns[r].mode
                                     /\ taskRuns'[r].cycle = taskRuns[r].cycle
             /\ r \in S => taskRuns'[r].state = "failed"
             /\ r \notin S => taskRuns'[r] = taskRuns[r]
  <2>1. taskRuns'[r] = IF r \in S THEN [taskRuns[r] EXCEPT !.state = "failed"] ELSE taskRuns[r]
    BY DEF CancelObsolete, CancelObsoleteScheduledRuns
  <2>2. taskRuns[r] \in TaskRow \cup {None} /\ (r \in S => taskRuns[r] # None)
    BY <1>1 DEF KioskIInv, StoreIInv, StoreTypeOK, TaskIds
  <2>3. r \in TaskIds => r \in TaskIds'
    <3>1. StoreStep
      BY CancelObsoleteIsStep
    <3> QED BY <3>1, KnowledgeLasts DEF KioskIInv
  <2> QED BY <2>1, <2>2, <2>3 DEF TaskRow, TaskIds
<1>3. RunsStay
  BY <1>2 DEF RunsStay, TaskIds, VerifyRuns, CycleRuns
<1>4. ASSUME NEW r \in Run
      PROVE  /\ r \notin S => StateStays(r)
             /\ r \in S => ~ Scheduled(r)' /\ ~ Unsettled(r)' /\ ~ Verified(r)'
  <2>1. CASE r \in S
    BY <1>2, <2>1 DEF Scheduled, Unsettled, Verified, InState
  <2>2. CASE r \notin S
    <3>1. taskRuns'[r] = taskRuns[r] /\ ((r \in VerifyRuns)' <=> r \in VerifyRuns)
      BY <1>2, <1>3, <2>2 DEF RunsStay
    <3> QED BY <2>2, <3>1 DEF StateStays, Scheduled, Unsettled, Verified, InState
  <2> QED BY <2>1, <2>2
<1>5. /\ InQueues' = InQueues /\ EntriesOnce'
      /\ \A r \in Run : AssignmentStays(r) /\ CompletionStays(r)
  BY <1>1, <1>3, TrackedBefore, QueuesSame, AssignmentsSame, CompletionsSame DEF LedgerPart
<1>6. /\ \A r \in Run : Sent(r)' <=> Sent(r)
      /\ \A r \in Run : \A P : Doing(r, P)' <=> Doing(r, P)
  BY <1>1 DEF Sent, Sends, Doing
<1>7. ASSUME NEW r \in Run, r \notin S PROVE RunLedger(r)'
  <2>1. Untouched(r)
    BY <1>3, <1>4, <1>5, <1>6, <1>7 DEF Untouched, RunsStay, AssignmentStays, CompletionStays
  <2>2. Origin(r)'
    BY <1>1, <1>3, <1>6, <1>7 DEF LedgerPart, RunLedger, Origin, RunsStay, DispatchPc
  <2>3. Placed(r)'
    BY <1>1, <1>5, <1>6, <1>7, <2>1
    DEF LedgerPart, RunLedger, Placed, ToBeRead, CalmStays, Untouched, StateStays, AssignmentStays,
        DispatchPc
  <2> QED BY <2>1, <2>2, <2>3, UntouchedLedger DEF LedgerPart, RunLedger
<1>8. ASSUME NEW r \in S PROVE RunLedger(r)'
  <2>1. /\ r \in Run /\ r \in TaskIds /\ RunLedger(r)
        /\ ~ Scheduled(r)' /\ ~ Unsettled(r)' /\ ~ Verified(r)'
    BY <1>1, <1>4, <1>8 DEF TaskIds, LedgerPart
  <2>2. ~ Ahead(r)' /\ (Tracked(r)' => Tracked(r))
    BY <1>3, <2>1 DEF Ahead, Tracked, CalmStays, RunsStay
  <2>3. AssignmentStays(r) /\ CompletionStays(r)
    BY <1>5, <2>1
  <2>. USE <1>1, <1>3, <1>5, <1>6, <2>1, <2>2, <2>3
       DEF RunLedger, CalmStays, AssignmentStays, CompletionStays
  <2>4. Origin(r)'
    BY DEF Origin, RunsStay, DispatchPc
  <2>5. OneHolder(r)' /\ RetryQueued(r)'
    BY DEF OneHolder, RetryQueued, AlonePc
  <2>6. DispatchedOnce(r)' /\ VerdictKept(r)' /\ Remembered(r)'
    BY DEF DispatchedOnce, VerdictKept, Remembered
  <2>7. Placed(r)'
    BY DEF Placed, DispatchPc
  <2>8. CompleterRests(r)'
    BY DEF CompleterRests, RestPc
  <2> QED BY <2>4, <2>5, <2>6, <2>7, <2>8
<1>9. SendersApart' /\ NoDeletion' /\ IdleHasNone'
  BY <1>1 DEF LedgerPart, SendersApart, Sends, NoDeletion, IdleHasNone, CalmStays, At
<1> QED BY <1>5, <1>7, <1>8, <1>9 DEF LedgerPart

(* The INSERT of the new runs, and of their assignments. *)
LEMMA AssignLedger ==
  ASSUME KioskIInv, LedgerPart, CalmStays, UNCHANGED worker, refresh.op = "insert",
         CreateCycleAssignments(refresh.cycle, refresh.due),
         refresh'.op = "read", refresh'.runs = refresh.runs, refresh'.cycle = refresh.cycle,
         UNCHANGED <<redisVars, handler>>
  PROVE  LedgerPart'
<1>0. PICK d, k : d = refresh.due /\ k = refresh.cycle
  OBVIOUS
<1>1. PICK f : AssignsRuns(k, d, f)
  BY <1>0, AssignmentDraws
<1>. DEFINE New == {f[a] : a \in d}
<1>2. /\ d \subseteq Address /\ k \in Cycle /\ f \in [d -> Run]
      /\ New \subseteq Run /\ New \cap TaskIds = {}
      /\ refresh'.op = "read" /\ refresh'.runs = refresh.runs /\ refresh'.cycle = k
      /\ UNCHANGED <<taskQueue, retryQueue, scheduledQueue, results, completions>>
      /\ \A a \in d : assignments[a][k] = None
  <2>1. /\ d \subseteq Address /\ k \in Cycle
        /\ refresh'.op = "read" /\ refresh'.runs = refresh.runs /\ refresh'.cycle = k
    BY <1>0 DEF KioskIInv, RefreshPart, RefreshTyped, RefreshKnows
  <2>2. /\ f \in [d -> Run] /\ New \cap TaskIds = {}
    BY <1>1 DEF AssignsRuns, IsFresh
  <2> QED BY <1>0, <2>1, <2>2 DEF CreateCycleAssignments, CanAssign, redisVars
<1>3. ASSUME NEW r \in Run
      PROVE  /\ r \notin New => taskRuns'[r] = taskRuns[r]
             /\ r \in New => /\ taskRuns'[r] # None
                             /\ taskRuns'[r].mode = "claim" /\ taskRuns'[r].state = "scheduled"
                             /\ taskRuns'[r].cycle = k
  <2>1. CASE r \in New
    <3>. DEFINE row == [email |-> CHOOSE a \in d : f[a] = r, mode |-> "claim",
                        state |-> "scheduled", cycle |-> k, retries |-> 0, profile |-> None]
    <3>1. taskRuns'[r] = row
      BY <1>1, <2>1 DEF AssignsRuns
    <3>2. (CHOOSE a \in d : f[a] = r) \in Address
      BY <1>2, <2>1
    <3>3. row \in TaskRow
      BY <1>2, <3>2, ClaimRowType
    <3>4. row.mode = "claim" /\ row.state = "scheduled" /\ row.cycle = k
      OBVIOUS
    <3>. HIDE DEF row
    <3> QED BY <2>1, <3>1, <3>3, <3>4, StoreAssumption DEF StoreAssumption
  <2>2. CASE r \notin New
    BY <1>1, <2>2 DEF AssignsRuns
  <2> QED BY <2>1, <2>2
<1>4. \A a \in Address, c \in Cycle :
        assignments'[a][c] = IF a \in d /\ c = k THEN f[a] ELSE assignments[a][c]
  BY <1>1, <1>2 DEF AssignsRuns, KioskIInv, StoreIInv, StoreTypeOK
<1>. HIDE DEF New
<1>5. ASSUME NEW r \in Run \ New PROVE AssignmentStays(r)
  <2>1. r # None
    BY StoreAssumption DEF StoreAssumption
  <2>2. \A a \in d : f[a] # r
    BY DEF New
  <2>3. \A a \in Address, c \in Cycle : assignments'[a][c] = r <=> assignments[a][c] = r
    BY <1>2, <1>4, <2>1, <2>2
  <2> QED BY <2>3 DEF AssignmentStays, Assigned, AssignedFor
<1>6. ASSUME NEW r \in New PROVE AssignedFor(r, k)' /\ Assigned(r)'
  <2>1. PICK a \in d : f[a] = r
    BY DEF New
  <2>2. a \in Address /\ assignments'[a][k] = r
    BY <1>2, <1>4, <2>1
  <2> QED BY <1>2, <2>2 DEF Assigned, AssignedFor
<1>7. ASSUME NEW r \in Run \ New
      PROVE  /\ taskRuns'[r] = taskRuns[r]
             /\ (r \in TaskIds)' <=> r \in TaskIds
             /\ (r \in VerifyRuns)' <=> r \in VerifyRuns
             /\ (r \in CycleRuns)' <=> r \in CycleRuns
             /\ StateStays(r)
  <2>1. taskRuns'[r] = taskRuns[r]
    BY <1>3
  <2>2. (r \in TaskIds)' <=> r \in TaskIds
    BY <2>1 DEF TaskIds
  <2>3. (r \in VerifyRuns)' <=> r \in VerifyRuns
    BY <2>1, <2>2 DEF VerifyRuns
  <2>4. (r \in CycleRuns)' <=> r \in CycleRuns
    BY <2>1, <2>2 DEF CycleRuns
  <2> QED BY <2>1, <2>2, <2>3, <2>4 DEF StateStays, Scheduled, Unsettled, Verified, InState
<1>8. InQueues' = InQueues /\ EntriesOnce'
  <2>1. TrackedStays
    <3>1. ASSUME NEW r \in TaskIds PROVE r \in Run \ New
      BY <1>2 DEF TaskIds
    <3> QED BY <1>7, <3>1 DEF TrackedStays, Tracked, CalmStays
  <2> QED BY <1>2, <2>1, QueuesSame DEF LedgerPart
<1>9. \A r \in Run : Sent(r)' <=> Sent(r)
  BY DEF Sent, Sends
<1>10. ASSUME NEW r \in Run \ New PROVE RunLedger(r)'
  <2>1. AssignmentStays(r)
    BY <1>5
  <2>2. /\ Completer(r)' <=> Completer(r)
        /\ Completer(r) \/ r \in TaskIds => (AllRecorded(r)' <=> AllRecorded(r))
    BY <1>2, <1>7 DEF Completer, AllRecorded
  <2>3. Untouched(r)
    BY <1>7, <1>8, <1>9, <2>1, <2>2 DEF Untouched, AssignmentStays
  <2>4. RunLedger(r) /\ \A S : Doing(r, S)' <=> Doing(r, S)
    BY <2>3, UntouchedLedger DEF LedgerPart
  <2>5. Origin(r)'
    BY <1>2, <1>7, <1>9, <2>4 DEF RunLedger, Origin, DispatchPc
  <2>6. Placed(r)'
    BY <1>2, <1>7, <2>1, <2>4
    DEF RunLedger, Placed, ToBeRead, CalmStays, StateStays, AssignmentStays, DispatchPc
  <2> QED BY <2>3, <2>4, <2>5, <2>6, UntouchedLedger DEF RunLedger
<1>11. ASSUME NEW r \in New PROVE RunLedger(r)'
  <2>1. r \in Run \ TaskIds /\ r # None
    BY <1>2, StoreAssumption DEF StoreAssumption
  <2>2. worker.run # r
    BY <2>1, Unborn DEF LedgerPart, IdleHasNone
  <2>3. /\ r \notin InQueues' /\ r \notin scheduledQueue' /\ r \notin refresh'.runs
        /\ ~ Sent(r)' /\ ~ Completer(r)'
    BY <1>2, <1>8, <1>9, <2>1, Unborn DEF Completer
  <2>4. \A S : ~ Doing(r, S)'
    BY <2>2 DEF Doing
  <2>5. ~ Unsettled(r)' /\ ~ Verified(r)'
    BY <1>3, <2>1 DEF Unsettled, Verified, InState
  <2>6. Assigned(r)' /\ ToBeRead(r)'
    <3>1. AssignedFor(r, k)' /\ Assigned(r)'
      BY <1>6
    <3> QED BY <1>2, <3>1 DEF ToBeRead, AssignedFor
  <2> QED BY <1>2, <2>2, <2>3, <2>4, <2>5, <2>6
          DEF RunLedger, Origin, OneHolder, DispatchedOnce, VerdictKept, RetryQueued, Remembered,
              Placed, CompleterRests
<1>12. SendersApart' /\ NoDeletion' /\ IdleHasNone'
  BY DEF LedgerPart, SendersApart, Sends, NoDeletion, IdleHasNone, CalmStays, At
<1> QED BY <1>8, <1>10, <1>11, <1>12 DEF LedgerPart

LEMMA JobLedger ==
  ASSUME KioskIInv, LedgerPart, CalmStays, UNCHANGED worker,
         RefreshStep \/ RefreshFails \/ WebCrash \/ \E c \in Cycle : ActivateCycle(c)
  PROVE  LedgerPart'
<1>1. CASE AssignRuns /\ CreateCycleAssignments(refresh.cycle, refresh.due)
  <2>1. refresh.op = "insert" /\ UNCHANGED <<redisVars, handler>>
    BY <1>1 DEF AssignRuns
  <2>2. refresh' = [refresh EXCEPT !.op = "read", !.due = {}]
    BY <1>1 DEF AssignRuns, CreateCycleAssignments
  <2>3. refresh'.op = "read" /\ refresh'.runs = refresh.runs /\ refresh'.cycle = refresh.cycle
    BY <2>2, TypedRefresh
  <2>. HIDE <2>2
  <2> QED BY <1>1, <2>1, <2>3, AssignLedger
<1>2. CASE AssignRuns /\ ~ CreateCycleAssignments(refresh.cycle, refresh.due)
  <2>1. /\ refresh.op = "insert" /\ refresh'.op = "idle" /\ refresh'.runs = {}
        /\ RunsAlone /\ UNCHANGED <<scheduledQueue, handler>>
    BY <1>2 DEF AssignRuns, IdleRefresh, RunsAlone, storeVars, redisVars
  <2>2. ASSUME NEW r \in Run PROVE Origin(r)' /\ Placed(r)'
    <3>1. RunLedger(r) /\ (Undisturbed' => Undisturbed)
      BY DEF LedgerPart, CalmStays
    <3>2. Undisturbed' /\ Scheduled(r) => r \in scheduledQueue' \/ worker.run = r
      BY <2>1, <3>1 DEF RunLedger, Placed, ToBeRead
    <3> QED BY <2>1, <3>1, <3>2, PlaceKept
  <2> QED BY <2>1, <2>2, JobMovesOn
<1>3. CASE RefreshStep /\ ~ AssignRuns
  BY <1>3, ReadingLedger, CancelLedger DEF RefreshStep
<1>4. CASE \E c \in Cycle : ActivateCycle(c)
  BY <1>4, ReadingLedger
<1> QED BY <1>1, <1>2, <1>3, <1>4, JobDiesLedger

LEMMA StillLedger ==
  ASSUME KioskIInv, LedgerPart, CalmStays,
         UNCHANGED <<taskRuns, assignments, results, completions, taskQueue, retryQueue>>,
         UNCHANGED <<scheduledQueue, handler, refresh, worker>>
  PROVE  LedgerPart'
<1>1. RunsAlone /\ \A r \in Run : Sent(r)' <=> Sent(r)
  BY DEF RunsAlone, Sent, Sends
<1>2. \A r \in Run : Aside(r)
  BY <1>1, RunsAloneStill DEF Aside
<1>3. SendersApart' /\ NoDeletion'
  BY DEF LedgerPart, SendersApart, Sends, NoDeletion, CalmStays
<1> QED BY <1>1, <1>2, <1>3, AsideLedger, RunsAloneStill DEF LedgerPart

LEMMA LedgerInit == KioskInit => LedgerPart
<1>. SUFFICES ASSUME KioskInit PROVE LedgerPart
  OBVIOUS
<1>1. /\ taskRuns = [r \in Run |-> None] /\ taskQueue = << >> /\ retryQueue = {}
      /\ scheduledQueue = {} /\ refresh.op = "idle" /\ refresh.runs = {}
      /\ worker.run = None /\ worker.pc = "idle" /\ \A t \in Thread : handler[t].op = "idle"
      /\ \A a \in Address, c \in Cycle : assignments[a][c] = None /\ completions[a][c] = None
  BY DEF KioskInit, StoreInit, RedisInit, WebInit, WorkerInit, IdleHandler, IdleWorker, IdleRefresh
<1>2. EntriesOnce /\ SendersApart /\ NoDeletion /\ IdleHasNone
  BY <1>1 DEF EntriesOnce, SendersApart, Sends, NoDeletion, IdleHasNone
<1>3. ASSUME NEW r \in Run PROVE RunLedger(r)
  <2>1. r # None
    BY StoreAssumption DEF StoreAssumption
  <2>2. ~ Scheduled(r) /\ ~ Unsettled(r) /\ ~ Verified(r) /\ ~ Ahead(r)
    BY <1>1 DEF Scheduled, Unsettled, Verified, InState, Ahead
  <2>3. ~ Sent(r) /\ ~ Completer(r) /\ \A S : ~ Doing(r, S)
    BY <1>1, <2>1 DEF Sent, Sends, Completer, Doing
  <2> QED BY <1>1, <2>1, <2>2, <2>3
          DEF RunLedger, Origin, OneHolder, DispatchedOnce, VerdictKept, RetryQueued, Remembered,
              Placed, CompleterRests
<1> QED BY <1>2, <1>3 DEF LedgerPart

LEMMA LedgerStep ==
  ASSUME LedgerIInv, [KioskNext]_kioskVars
  PROVE  LedgerIInv'
<1>. KioskIInv /\ LedgerPart
  BY DEF LedgerIInv
<1>1. KioskIInv' /\ CalmStays
  BY KioskStepKeeps, CalmBefore
<1>. SUFFICES LedgerPart'
  BY <1>1 DEF LedgerIInv
<1>2. CASE \E t \in Thread : (Handle(t) \/ Request(t) \/ HandlerFails(t)) /\ UNCHANGED worker
  BY <1>1, <1>2, ThreadLedger
<1>3. CASE /\ RefreshStep \/ RefreshFails \/ WebCrash \/ \E c \in Cycle : ActivateCycle(c)
           /\ UNCHANGED worker
  BY <1>1, <1>3, JobLedger
<1>4. CASE WorkerNext /\ UNCHANGED webVars
  BY <1>1, <1>4, WorkerLedgerKept
<1>5. CASE \E t \in Thread : RequestNuke(t)
  BY <1>1, <1>5, RequestNukeLedger
<1>6. CASE TimePasses /\ UNCHANGED <<webVars, worker>>
  BY <1>1, <1>6, StillLedger
  DEF TimePasses, LockExpires, CredentialExpires, DeleteLock, storeVars, redisVars, webVars
<1>7. CASE UNCHANGED kioskVars
  BY <1>1, <1>7, StillLedger DEF kioskVars, storeVars, redisVars, webVars
<1> QED BY <1>2, <1>3, <1>4, <1>5, <1>6, <1>7 DEF KioskNext, WebNext

LEMMA LedgerInvariant == KioskSpec => []LedgerIInv
<1>1. KioskInit => LedgerIInv
  BY KioskInitOK, LedgerInit DEF LedgerIInv
<1> QED BY <1>1, LedgerStep, PTL DEF KioskSpec

(* Unless a process dies or Redis fails, every run that is queued, running  *)
(* or deferred is in a queue or in somebody's hands, and every scheduled    *)
(* one is in the sorted set or with the worker once the refresh job is      *)
(* through, for every number of handlers, runs and cycles.                  *)
THEOREM NoRunIsStranded == KioskSpec => []NoStrandedRun
<1>1. ASSUME LedgerIInv, Never({"redis", "crash"}), NEW r \in Run,
             InState(r, {"queued", "running", "deferred"})
      PROVE  Held(r)
  <2>1. r \in InQueues \/ Sent(r) \/ worker.run = r
    BY <1>1 DEF LedgerIInv, LedgerPart, RunLedger, Remembered, Calm, Unsettled
  <2> QED BY <2>1 DEF Held, InFlight, InQueues, Sent
<1>2. ASSUME LedgerIInv, Never({"redis", "crash"}), NEW r \in Run, InState(r, {"scheduled"}),
             refresh.op = "idle", Never({"deletion"})
      PROVE  r \in scheduledQueue \/ worker.run = r
  <2>1. Undisturbed /\ Scheduled(r) /\ ~ ToBeRead(r)
    BY <1>2 DEF Undisturbed, Never, Scheduled, ToBeRead
  <2> QED BY <1>2, <2>1 DEF LedgerIInv, LedgerPart, RunLedger, Placed
<1>3. LedgerIInv => NoStrandedRun
  BY <1>1, <1>2 DEF NoStrandedRun
<1> QED BY <1>3, LedgerInvariant, PTL

(* Unless a process dies or Redis fails, a cycle that is complete for an    *)
(* account has every game recorded as claimed or owned, and no later        *)
(* attempt of a run overwrites that.                                        *)
THEOREM CompletionsAreSound == KioskSpec => []CompletionSound
<1>1. ASSUME LedgerIInv, Never({"redis", "crash"}), NEW a \in Address, NEW c \in Cycle,
             completions[a][c] # None, NEW t \in Games[c]
      PROVE  results[completions[a][c]][t] \in SuccessfulGameStates
  <2>1. PICK r : r = completions[a][c]
    OBVIOUS
  <2>2. r \in Run /\ taskRuns[r].cycle = c
    BY <1>1, <2>1 DEF LedgerIInv, KioskIInv, StoreIInv, StoreTypeOK, ReferencesMatch, TaskIds
  <2>3. AllRecorded(r)
    BY <1>1, <2>1, <2>2 DEF LedgerIInv, LedgerPart, RunLedger, CompleterRests, Calm, Completer
  <2> QED BY <1>1, <2>1, <2>2, <2>3 DEF AllRecorded
<1>2. LedgerIInv => CompletionSound
  BY <1>1 DEF CompletionSound
<1> QED BY <1>2, LedgerInvariant, PTL

----------------------------------------------------------------------------
(* Verdicts *)

VerdictStays(r) == InState(r, {"succeeded"})'

(* Nobody has a verified run that could still write its state. *)
LEMMA VerifiedRest ==
  ASSUME KioskIInv, LedgerPart, NEW r \in Run, Verified(r)
  PROVE  /\ \A t \in Thread : Sends(t) => handler[t].run # r
         /\ ~ At("final") => worker.run # r
         /\ r \in TaskIds /\ r \notin CycleRuns /\ taskRuns[r].state = "succeeded"
  BY ModesDiffer DEF LedgerPart, RunLedger, VerdictKept, Sent, Verified, VerifyRuns, InState

LEMMA SameRowStays ==
  ASSUME KioskIInv, NEW r \in Run, Verified(r), taskRuns'[r] = taskRuns[r]
  PROVE  VerdictStays(r)
  BY DEF Verified, VerdictStays, InState

LEMMA UpdateKeepsOthers ==
  ASSUME KioskIInv, NEW q \in TaskIds, NEW s, NEW n, UpdateTask(q, s, n), NEW r \in Run, r # q
  PROVE  taskRuns'[r] = taskRuns[r]
  BY DEF UpdateTask, KioskIInv, StoreIInv, StoreTypeOK

LEMMA ThreadKeepsVerdict ==
  ASSUME KioskIInv, LedgerPart, NEW r \in Run, Verified(r), NEW t \in Thread,
         Handle(t) \/ Request(t) \/ HandlerFails(t)
  PROVE  VerdictStays(r)
<1>1. CASE \E a \in Address : Deposit(t, a)
  <2>1. PICK a \in Address, x \in Run : CreateTaskRun(x, a, "verify")
    BY <1>1 DEF Deposit
  <2>2. x # r
    BY <2>1, VerifiedRest DEF CreateTaskRun, IsFresh
  <2>3. taskRuns'[r] = taskRuns[r]
    BY <2>1, <2>2 DEF CreateTaskRun, KioskIInv, StoreIInv, StoreTypeOK
  <2> QED BY <2>3, SameRowStays
<1>2. CASE RejectDuplicate(t)
  <2>1. Sends(t)
    BY <1>2 DEF RejectDuplicate, Sends
  <2>2. taskRuns'[r] = taskRuns[r]
    BY <1>2, <2>1, VerifiedRest, UpdateKeepsOthers DEF RejectDuplicate, SetState
  <2> QED BY <2>2, SameRowStays
<1>3. CASE RemoveAccount(t)
  <2>1. handler[t].email \in Address
    BY <1>3 DEF RemoveAccount, KioskIInv, HandlersPart, HandlersKnow, HandlerKnows
  <2>2. r \in TaskIds'
    <3>1. StoreStep
      BY <1>3, RemoveAccountIsStep
    <3> QED BY <3>1, KnowledgeLasts, VerifiedRest DEF KioskIInv
  <2>3. taskRuns'[r].state = taskRuns[r].state
    BY <1>3, VerifiedRest
    DEF RemoveAccount, DeleteAccountRecord, KioskIInv, StoreIInv, StoreTypeOK, TaskRow
  <2> QED BY <2>2, <2>3, VerifiedRest DEF VerdictStays, InState, TaskIds
<1>4. CASE UNCHANGED taskRuns
  BY <1>4, SameRowStays
<1> QED BY <1>1, <1>2, <1>3, <1>4
        DEF Handle, Request, HandlerFails, EnqueueFails, DropLockFails, EnqueueTask, PushTask,
            ReadPending, SaveAccount, ConfirmPendingAccount, NukeAccount, DropLock, DeleteAccount,
            ReadSucceededRun, storeVars

LEMMA JobKeepsVerdict ==
  ASSUME KioskIInv, LedgerPart, NEW r \in Run, Verified(r),
         RefreshStep \/ RefreshFails \/ WebCrash \/ \E c \in Cycle : ActivateCycle(c)
  PROVE  VerdictStays(r)
<1>1. CASE CancelObsolete
  <2>1. r \notin refresh.runs
    BY <1>1, VerifiedRest DEF CancelObsolete, KioskIInv, RefreshPart, RefreshKnows
  <2>2. taskRuns'[r] = taskRuns[r]
    BY <1>1, <2>1 DEF CancelObsolete, CancelObsoleteScheduledRuns
  <2> QED BY <2>2, SameRowStays
<1>2. CASE AssignRuns
  <2>1. CASE CreateCycleAssignments(refresh.cycle, refresh.due)
    <3>1. PICK f : AssignsRuns(refresh.cycle, refresh.due, f)
      BY <2>1, AssignmentDraws
    <3>2. \A a \in refresh.due : f[a] # r
      BY <3>1, VerifiedRest DEF AssignsRuns, IsFresh
    <3>3. taskRuns'[r] = taskRuns[r]
      BY <3>1, <3>2 DEF AssignsRuns
    <3> QED BY <3>3, SameRowStays
  <2> QED BY <1>2, <2>1, SameRowStays DEF AssignRuns, storeVars
<1>3. CASE UNCHANGED taskRuns
  BY <1>3, SameRowStays
<1> QED BY <1>1, <1>2, <1>3
        DEF RefreshStep, ActivateCycle, SetActivePromotionCycle, SelectObsolete,
            UnscheduleObsolete, SelectDue, ReadScheduledRuns, PersistScheduledRuns, RefreshFails,
            WebCrash, storeVars

LEMMA WorkerKeepsVerdict ==
  ASSUME KioskIInv, LedgerPart, NEW r \in Run, Verified(r), WorkerNext
  PROVE  VerdictStays(r)
<1>1. CASE ~ At("final") /\ \E s, n : worker.run \in TaskIds /\ UpdateTask(worker.run, s, n)
  BY <1>1, VerifiedRest, UpdateKeepsOthers, SameRowStays
<1>2. CASE UNCHANGED taskRuns
  BY <1>2, SameRowStays
<1>3. CASE \/ QueueScheduled \/ CancelScheduled \/ RestoreScheduled \/ PushRetry \/ FailUnstarted
           \/ FailUncaught \/ BeginTask \/ RecordRetry \/ (\E s \in TaskState : GiveUp(s)) \/ SystemError
           \/ RejectCredentials \/ ClaimDone \/ Succeed
  <2>1. CASE ClaimDone
    BY <1>1, <1>2, <2>1 DEF ClaimDone, SetState, UpdateTask, storeVars, At
  <2> QED BY <1>1, <1>3, <2>1 DEF QueueScheduled, CancelScheduled, RestoreScheduled, PushRetry,
          FailUnstarted, FailUncaught, BeginTask, RecordRetry, GiveUp, SystemError,
          RejectCredentials, Succeed,
          SetState, UpdateTask, At
<1> QED BY <1>2, <1>3
        DEF WorkerNext, WorkerStep, WorkerFault, TakeScheduled, TakeRetry, PopTask, ReadStatus,
            LockScheduled, PushScheduled, LoadContext, LoadTaskContext, UnlockUnstarted,
            ReleaseUncaught, RecordResult, RecordGameResult, RetryNow, RetryLater, NukeRequestLost, VerifyPassed,
            CompleteCycle, MarkCycleComplete, Finish, LockScheduledFails, PushScheduledFails,
            PopLost, BeginTaskFails, RetryFails, FeedbackFails, WorkerCrash, storeVars

(* What a user has been told of a verification stands, in every step and    *)
(* whatever fails: no queue, handler or job has its run any more, and the   *)
(* worker only cleans up after it.                                          *)
THEOREM VerdictsStand == KioskSpec => VerdictStands
<1>1. ASSUME LedgerIInv, [KioskNext]_kioskVars, NEW r \in Run, InState(r, {"succeeded"}),
             taskRuns[r].mode = "verify"
      PROVE  InState(r, {"succeeded"})'
  <2>1. KioskIInv /\ LedgerPart /\ Verified(r)
    BY <1>1 DEF LedgerIInv, Verified, VerifyRuns, InState, TaskIds
  <2>2. CASE \E t \in Thread : Handle(t) \/ Request(t) \/ HandlerFails(t)
    BY <2>1, <2>2, ThreadKeepsVerdict DEF VerdictStays
  <2>3. CASE RefreshStep \/ RefreshFails \/ WebCrash \/ \E c \in Cycle : ActivateCycle(c)
    BY <2>1, <2>3, JobKeepsVerdict DEF VerdictStays
  <2>4. CASE WorkerNext
    BY <2>1, <2>4, WorkerKeepsVerdict DEF VerdictStays
  <2>5. CASE UNCHANGED taskRuns
    BY <2>1, <2>5, SameRowStays DEF VerdictStays
  <2> QED BY <1>1, <2>2, <2>3, <2>4, <2>5
          DEF KioskNext, WebNext, RequestNuke, TimePasses, LockExpires, CredentialExpires,
              kioskVars, storeVars
<1>. DEFINE Stand == \A r \in Run :
                       InState(r, {"succeeded"}) /\ taskRuns[r].mode = "verify"
                         => InState(r, {"succeeded"})'
<1>2. LedgerIInv /\ [KioskNext]_kioskVars => [Stand]_kioskVars
  BY <1>1
<1> QED BY <1>2, LedgerInvariant, PTL DEF KioskSpec, VerdictStands

----------------------------------------------------------------------------
(* Calls *)

(* A run, as Attempts sees it. *)
ModeOf(r) == IF taskRuns[r] = None THEN None ELSE taskRuns[r].mode

RetriesOf(r) == IF taskRuns[r] = None THEN 0 ELSE taskRuns[r].retries

CalledFor(r) == worker.run = r /\ worker.pc \in Calling

GamesOf(r) == IF worker.run = r THEN worker.games ELSE NoGames

(* Here run_task has raised, or is about to write that it failed ... *)
FailingPc == {"error", "uncaught"}

(* ... and here the outcome is written, and the dict not yet gone. *)
EndingPc == {"reject", "release", "final"}

(* The dict is a call's own: outside of run_task there is nothing in it.    *)
DictIsOwn == worker.pc \notin Calling \cup EndingPc => worker.games = NoGames

(* The copy of the counter that the worker counts on is still the row's; it *)
(* is one ahead, at most, when scheduling the retry it counts has failed.   *)
CopyIsCurrent ==
  worker.pc \in Calling \cup {"claim"} =>
    \/ worker.retries = RetriesOf(worker.run)
    \/ worker.pc \in FailingPc /\ worker.retries = RetriesOf(worker.run) + 1

(* What makes a claim run succeed, once found, is true until it is written. *)
Earned(r) ==
  /\ ModeOf(r) = "claim"
  /\ \A t \in Title : worker.games[t] \in SuccessfulGameStates \cup {None}
  /\ \A t \in Expected(r) : results[r][t] \in SuccessfulGameStates

SuccessIsFound ==
  /\ At("complete") => Earned(worker.run)
  /\ At("done") => ModeOf(worker.run) = "verify" \/ Earned(worker.run)

CallPart == DictIsOwn /\ CopyIsCurrent /\ SuccessIsFound

CallIInv == LedgerIInv /\ CallPart

(* The phase that a state of the row is. *)
PhaseOf(s) == IF s \in {"scheduled", "queued", "deferred"} THEN "waiting" ELSE s

KeepsRow(r) ==
  /\ ModeOf(r)' = ModeOf(r) /\ Expected(r)' = Expected(r)
  /\ RetriesOf(r)' = RetriesOf(r) /\ results'[r] = results[r]

RowStays(r) == KeepsRow(r) /\ RunPhase(r)' = RunPhase(r)

LEMMA SameRow ==
  ASSUME NEW r, taskRuns'[r] = taskRuns[r], results'[r] = results[r]
  PROVE  RowStays(r)
  BY DEF RowStays, KeepsRow, RunPhase, ModeOf, Expected, RetriesOf, InState

LEMMA RowLives ==
  ASSUME KioskIInv, StoreStep, NEW r \in TaskIds
  PROVE  r \in Run /\ taskRuns[r] # None /\ taskRuns'[r] # None /\ taskRuns[r] \in TaskRow
<1>1. r \in TaskIds'
  BY KnowledgeLasts DEF KioskIInv
<1> QED BY <1>1, RowTyped DEF KioskIInv, TaskIds

(* A row whose state, counter or address is written. *)
LEMMA RowWritten ==
  ASSUME KioskIInv, StoreStep, NEW r \in TaskIds, UNCHANGED results,
         taskRuns'[r].mode = taskRuns[r].mode, taskRuns'[r].cycle = taskRuns[r].cycle
  PROVE  /\ ModeOf(r)' = ModeOf(r) /\ ModeOf(r) \in Mode
         /\ Expected(r)' = Expected(r)
         /\ RetriesOf(r)' = taskRuns'[r].retries /\ RetriesOf(r) = taskRuns[r].retries
         /\ RunPhase(r)' = PhaseOf(taskRuns'[r].state)
         /\ RunPhase(r) = PhaseOf(taskRuns[r].state)
         /\ results'[r] = results[r]
<1>1. taskRuns[r] # None /\ taskRuns'[r] # None /\ taskRuns[r] \in TaskRow
  BY RowLives
<1> QED BY <1>1 DEF ModeOf, Expected, RetriesOf, RunPhase, PhaseOf, InState, TaskRow

LEMMA RowUpdated ==
  ASSUME KioskIInv, NEW x \in TaskIds, NEW s \in TaskState, NEW n \in 0 .. MaxRetries,
         UpdateTask(x, s, n)
  PROVE  /\ \A r \in Run \ {x} : RowStays(r)
         /\ ModeOf(x)' = ModeOf(x) /\ ModeOf(x) \in Mode
         /\ Expected(x)' = Expected(x)
         /\ RetriesOf(x)' = n /\ RetriesOf(x) = taskRuns[x].retries
         /\ RunPhase(x)' = PhaseOf(s)
         /\ results' = results
<1>1. UNCHANGED results /\ StoreStep
  BY UpdateIsStep DEF UpdateTask
<1>2. ASSUME NEW r \in Run, r # x PROVE RowStays(r)
  BY <1>1, <1>2, UpdateKeepsOthers, SameRow
<1>3. taskRuns'[x] = [taskRuns[x] EXCEPT !.state = s, !.retries = n]
  BY RowTyped DEF UpdateTask, KioskIInv, StoreIInv, StoreTypeOK
<1>4. /\ taskRuns'[x].mode = taskRuns[x].mode /\ taskRuns'[x].cycle = taskRuns[x].cycle
      /\ taskRuns'[x].state = s /\ taskRuns'[x].retries = n
  BY <1>3, RowTyped DEF TaskRow, KioskIInv
<1> QED BY <1>1, <1>2, <1>4, RowWritten

(* What steps of other processes do to a run. *)
Born(r) ==
  /\ r \notin TaskIds
  /\ ModeOf(r) = None /\ ModeOf(r)' \in Mode
  /\ Expected(r)' \subseteq Title
  /\ RetriesOf(r)' = RetriesOf(r)
  /\ RunPhase(r)' = RunPhase(r)
  /\ results'[r] = results[r]

Ended(r) ==
  /\ KeepsRow(r)
  /\ RunPhase(r)' = "failed"
  /\ ModeOf(r) = "claim" \/ worker.run # r

ElsewhereMoves(r) == RowStays(r) \/ Born(r) \/ Ended(r)

LEMMA NewRow ==
  ASSUME NEW r \in Run, r \notin TaskIds, NEW row \in TaskRow, taskRuns'[r] = row,
         row.retries = 0, row.state \in {"scheduled", "queued"}, results'[r] = results[r]
  PROVE  Born(r)
<1>1. row # None
  BY StoreAssumption DEF StoreAssumption
<1>2. row.cycle # None => Games[row.cycle] \subseteq Title
  BY StoreAssumption DEF StoreAssumption, TaskRow
<1> QED BY <1>1, <1>2 DEF Born, TaskIds, ModeOf, Expected, RetriesOf, RunPhase, InState, TaskRow

LEMMA ThreadMovesRun ==
  ASSUME KioskIInv, LedgerPart, NEW r \in Run, NEW t \in Thread,
         Handle(t) \/ Request(t) \/ HandlerFails(t)
  PROVE  ElsewhereMoves(r)
<1>0. StoreStep
  BY ThreadIsStep
<1>1. CASE \E a \in Address : Deposit(t, a)
  <2>1. PICK a \in Address, x \in Run : CreateTaskRun(x, a, "verify")
    BY <1>1 DEF Deposit
  <2>2. UNCHANGED results /\ x \notin TaskIds
    BY <2>1 DEF CreateTaskRun, IsFresh
  <2>3. CASE x = r
    <3> DEFINE p == IF accounts[a] # None THEN accounts[a].profile ELSE r
               row == [email |-> a, mode |-> "verify", state |-> "queued", cycle |-> None,
                       retries |-> 0, profile |-> p]
    <3>1. p \in Run \cup {None}
      BY DEF KioskIInv, StoreIInv, StoreTypeOK, AccountRow
    <3>2. taskRuns'[r] = row
      BY <2>1, <2>3 DEF CreateTaskRun, KioskIInv, StoreIInv, StoreTypeOK
    <3>3. row \in TaskRow /\ row.retries = 0 /\ row.state = "queued"
      BY <3>1, StoreAssumption DEF StoreAssumption, TaskRow, Mode, TaskState
    <3> HIDE DEF row
    <3> QED BY <2>2, <2>3, <3>2, <3>3, NewRow DEF ElsewhereMoves
  <2>4. CASE x # r
    <3>1. taskRuns'[r] = taskRuns[r]
      BY <2>1, <2>4 DEF CreateTaskRun, KioskIInv, StoreIInv, StoreTypeOK
    <3> QED BY <2>2, <3>1, SameRow DEF ElsewhereMoves
  <2> QED BY <2>3, <2>4
<1>2. CASE RejectDuplicate(t)
  <2> DEFINE x == handler[t].run
  <2>1. x \in TaskIds /\ x \in Run /\ UpdateTask(x, "failed", taskRuns[x].retries)
    BY <1>2 DEF RejectDuplicate, SetState, TaskIds
  <2>2. worker.run # x
    BY <1>2, <2>1
    DEF LedgerPart, RunLedger, OneHolder, Sent, Sends, RejectDuplicate
  <2>3. taskRuns[x].retries \in 0 .. MaxRetries
    BY <2>1, RowTyped DEF KioskIInv
  <2> HIDE DEF x
  <2>4. CASE x = r
    BY <2>1, <2>2, <2>3, <2>4, RowUpdated DEF ElsewhereMoves, Ended, KeepsRow, PhaseOf, TaskState
  <2>5. CASE x # r
    BY <2>1, <2>3, <2>5, RowUpdated DEF ElsewhereMoves, TaskState
  <2> QED BY <2>4, <2>5
<1>3. CASE RemoveAccount(t)
  <2>1. UNCHANGED results
    BY <1>3 DEF RemoveAccount, DeleteAccountRecord
  <2>2. CASE r \in TaskIds
    <3>1. \/ taskRuns'[r] = taskRuns[r]
          \/ taskRuns'[r] = [taskRuns[r] EXCEPT !.email = Redacted(handler[t].email)]
      BY <1>3 DEF RemoveAccount, DeleteAccountRecord
    <3>2. taskRuns[r] \in TaskRow
      BY <2>2, RowTyped DEF KioskIInv
    <3>3. /\ taskRuns'[r].mode = taskRuns[r].mode /\ taskRuns'[r].cycle = taskRuns[r].cycle
          /\ taskRuns'[r].state = taskRuns[r].state /\ taskRuns'[r].retries = taskRuns[r].retries
      BY <3>1, <3>2 DEF TaskRow
    <3> QED BY <1>0, <2>1, <2>2, <3>3, RowWritten DEF ElsewhereMoves, RowStays, KeepsRow
  <2>3. CASE r \notin TaskIds
    <3>1. taskRuns'[r] = taskRuns[r]
      BY <1>3, <2>3 DEF RemoveAccount, DeleteAccountRecord, TaskIds
    <3> QED BY <2>1, <3>1, SameRow DEF ElsewhereMoves
  <2> QED BY <2>2, <2>3
<1>4. CASE UNCHANGED <<taskRuns, results>>
  BY <1>4, SameRow DEF ElsewhereMoves
<1> QED BY <1>1, <1>2, <1>3, <1>4
        DEF Handle, Request, HandlerFails, EnqueueFails, DropLockFails, EnqueueTask, PushTask,
            ReadPending, SaveAccount, ConfirmPendingAccount, NukeAccount, DropLock, DeleteAccount,
            ReadSucceededRun, storeVars

LEMMA JobMovesRun ==
  ASSUME KioskIInv, NEW r \in Run,
         RefreshStep \/ RefreshFails \/ WebCrash \/ \E c \in Cycle : ActivateCycle(c)
  PROVE  ElsewhereMoves(r)
<1>0. StoreStep
  BY RefreshIsStep
<1>1. CASE CancelObsolete
  <2>1. UNCHANGED results /\ refresh.runs \subseteq CycleRuns
    BY <1>1 DEF CancelObsolete, CancelObsoleteScheduledRuns, KioskIInv, RefreshPart, RefreshKnows
  <2>2. CASE r \in refresh.runs
    <3>1. r \in TaskIds /\ taskRuns[r].mode = "claim" /\ taskRuns[r] \in TaskRow
      BY <2>1, <2>2, RowTyped DEF CycleRuns, KioskIInv, StoreIInv, CycleRunsClaim
    <3>2. taskRuns'[r] = [taskRuns[r] EXCEPT !.state = "failed"]
      BY <1>1, <2>2 DEF CancelObsolete, CancelObsoleteScheduledRuns
    <3>3. /\ taskRuns'[r].mode = taskRuns[r].mode /\ taskRuns'[r].cycle = taskRuns[r].cycle
          /\ taskRuns'[r].state = "failed" /\ taskRuns'[r].retries = taskRuns[r].retries
      BY <3>1, <3>2 DEF TaskRow
    <3>4. ModeOf(r) = "claim"
      BY <3>1 DEF ModeOf, TaskIds
    <3> QED BY <1>0, <2>1, <3>1, <3>3, <3>4, RowWritten
            DEF ElsewhereMoves, Ended, KeepsRow, PhaseOf
  <2>3. CASE r \notin refresh.runs
    <3>1. taskRuns'[r] = taskRuns[r]
      BY <1>1, <2>3 DEF CancelObsolete, CancelObsoleteScheduledRuns
    <3> QED BY <2>1, <3>1, SameRow DEF ElsewhereMoves
  <2> QED BY <2>2, <2>3
<1>2. CASE AssignRuns /\ CreateCycleAssignments(refresh.cycle, refresh.due)
  <2>1. refresh.cycle \in Cycle /\ refresh.due \in SUBSET Address /\ UNCHANGED results
    BY <1>2
    DEF KioskIInv, RefreshPart, RefreshKnows, RefreshTyped, AssignRuns, CreateCycleAssignments
  <2>2. PICK f : AssignsRuns(refresh.cycle, refresh.due, f)
    BY <1>2, AssignmentDraws
  <2>3. CASE \E a \in refresh.due : f[a] = r
    <3>1. PICK a \in refresh.due : f[a] = r
      BY <2>3
    <3> DEFINE row == [email |-> a, mode |-> "claim", state |-> "scheduled",
                       cycle |-> refresh.cycle, retries |-> 0, profile |-> None]
    <3>2. a \in Address /\ taskRuns'[r] = row /\ row \in TaskRow
      BY <2>1, <2>2, <3>1, ClaimRow, ClaimRowType
    <3>3. r \notin TaskIds
      BY <2>2, <3>1 DEF AssignsRuns, IsFresh
    <3>4. row.retries = 0 /\ row.state = "scheduled"
      OBVIOUS
    <3> HIDE DEF row
    <3> QED BY <2>1, <3>2, <3>3, <3>4, NewRow DEF ElsewhereMoves
  <2>4. CASE ~ \E a \in refresh.due : f[a] = r
    <3>1. taskRuns'[r] = taskRuns[r]
      BY <2>2, <2>4 DEF AssignsRuns
    <3> QED BY <2>1, <3>1, SameRow DEF ElsewhereMoves
  <2> QED BY <2>3, <2>4
<1>3. CASE UNCHANGED <<taskRuns, results>>
  BY <1>3, SameRow DEF ElsewhereMoves
<1> QED BY <1>1, <1>2, <1>3
        DEF RefreshStep, ActivateCycle, SetActivePromotionCycle, SelectObsolete, AssignRuns,
            UnscheduleObsolete, SelectDue, ReadScheduledRuns, PersistScheduledRuns, RefreshFails,
            WebCrash, storeVars

LEMMA StutterCall ==
  ASSUME NEW r \in Run, RowStays(r), CalledFor(r)' <=> CalledFor(r), GamesOf(r)' = GamesOf(r)
  PROVE  UNCHANGED Call(r)!attemptVars
  BY DEF RowStays, KeepsRow, CalledFor, GamesOf, ModeOf, RetriesOf, Call!attemptVars

(* The steps of the web process, and of time, as Attempts has them. *)
LEMMA ElsewhereCall ==
  ASSUME KioskIInv, LedgerPart, NEW r \in Run, ElsewhereMoves(r), UNCHANGED worker
  PROVE  UNCHANGED Call(r)!attemptVars \/ Call(r)!AttemptsNext
<1>1. (CalledFor(r)' <=> CalledFor(r)) /\ GamesOf(r)' = GamesOf(r)
  BY DEF CalledFor, GamesOf
<1>2. CASE RowStays(r)
  BY <1>1, <1>2, StutterCall
<1>3. CASE Born(r)
  <2>1. Call(r)!Create
    BY <1>1, <1>3
    DEF Born, Mode, CalledFor, GamesOf, ModeOf, RetriesOf, Call!Create
  <2> QED BY <2>1 DEF Call!AttemptsNext
<1>4. CASE Ended(r)
  <2>1. CASE ModeOf(r) = "claim"
    <3>1. Call(r)!Cancel
      BY <1>1, <1>4, <2>1
      DEF Ended, KeepsRow, CalledFor, GamesOf, ModeOf, RetriesOf, Call!Cancel
    <3> QED BY <3>1 DEF Call!AttemptsNext
  <2>2. CASE worker.run # r
    <3>1. Call(r)!SetBetween
      BY <1>1, <1>4, <2>2
      DEF Ended, KeepsRow, CalledFor, GamesOf, ModeOf, RetriesOf, Call!SetBetween
    <3> QED BY <3>1 DEF Call!AttemptsNext
  <2> QED BY <1>4, <2>1, <2>2 DEF Ended
<1> QED BY <1>2, <1>3, <1>4 DEF ElsewhereMoves

LEMMA ElsewherePart ==
  ASSUME KioskIInv, CallPart, \A r \in Run : ElsewhereMoves(r), UNCHANGED worker
  PROVE  CallPart'
<1>1. CASE worker.pc \in Calling \cup {"claim"}
  <2>1. worker.run \in TaskIds /\ worker.run \in Run
    BY <1>1 DEF KioskIInv, WorkerPart, WorkerKnows, At, Calling, TaskIds
  <2>2. KeepsRow(worker.run)
    BY <2>1 DEF ElsewhereMoves, RowStays, Born, Ended
  <2> QED BY <2>2 DEF KeepsRow, CallPart, DictIsOwn, CopyIsCurrent, SuccessIsFound, Earned, At
<1>2. CASE worker.pc \notin Calling \cup {"claim"}
  BY <1>2 DEF CallPart, DictIsOwn, CopyIsCurrent, SuccessIsFound, At, Calling
<1> QED BY <1>1, <1>2

(* The worker's fields, after a step that moves on or lets go. *)
LEMMA WorkerGoes ==
  ASSUME KioskIInv, NEW pc, GoTo(pc)
  PROVE  /\ worker'.pc = pc /\ worker'.run = worker.run /\ worker'.games = worker.games
         /\ worker'.retries = worker.retries
  BY DEF GoTo, KioskIInv, WorkerPart, WorkerTypeOK

LEMMA WorkerRests ==
  ASSUME GoIdle
  PROVE  worker'.pc = "idle" /\ worker'.run = None /\ worker'.games = NoGames
  BY DEF GoIdle, IdleWorker

LEMMA WorkerOnRun ==
  ASSUME KioskIInv, ~ At("idle")
  PROVE  worker.run \in TaskIds /\ worker.run \in Run /\ worker.run # None
  BY StoreAssumption DEF StoreAssumption, KioskIInv, WorkerPart, WorkerKnows, TaskIds

(* A step that writes nothing that Attempts sees. *)
Unseen ==
  /\ UNCHANGED <<taskRuns, results>>
  /\ \A r \in Run : (CalledFor(r)' <=> CalledFor(r)) /\ GamesOf(r)' = GamesOf(r)

KeptToAttempts == \A r \in Run : UNCHANGED Call(r)!attemptVars \/ Call(r)!AttemptsNext

LEMMA UnseenCall ==
  ASSUME Unseen
  PROVE  KeptToAttempts
  BY SameRow, StutterCall DEF Unseen, KeptToAttempts

(* Only the run that the worker has is concerned. *)
LEMMA OneCall ==
  ASSUME NEW r \in Run, worker.run = r, worker'.run \in {r, None},
         \A q \in Run \ {r} : RowStays(q),
         Call(r)!AttemptsNext
  PROVE  KeptToAttempts
<1>1. ASSUME NEW q \in Run, q # r PROVE UNCHANGED Call(q)!attemptVars
  <2>1. worker.run # q /\ worker'.run # q
    BY <1>1, StoreAssumption DEF StoreAssumption
  <2>2. (CalledFor(q)' <=> CalledFor(q)) /\ GamesOf(q)' = GamesOf(q)
    BY <2>1 DEF CalledFor, GamesOf
  <2> QED BY <1>1, <2>2, StutterCall
<1> QED BY <1>1 DEF KeptToAttempts

LEMMA RestingPart ==
  ASSUME GoIdle
  PROVE  CallPart'
  BY WorkerRests DEF CallPart, DictIsOwn, CopyIsCurrent, SuccessIsFound, At, Calling

(* Outside of run_task the worker moves on with an empty dict. *)
LEMMA AsidePart ==
  ASSUME KioskIInv, CallPart,
         \/ GoIdle
         \/ /\ worker.pc \notin Calling \cup EndingPc
            /\ \E pc \in WorkerPc \ (Calling \cup {"claim"}) : GoTo(pc)
         \/ \E pc \in EndingPc : GoTo(pc)
  PROVE  CallPart'
<1>1. CASE GoIdle
  BY <1>1, RestingPart
<1>2. CASE /\ worker.pc \notin Calling \cup EndingPc
           /\ \E pc \in WorkerPc \ (Calling \cup {"claim"}) : GoTo(pc)
  BY <1>2, WorkerGoes
  DEF CallPart, DictIsOwn, CopyIsCurrent, SuccessIsFound, At, Calling, EndingPc
<1>3. CASE \E pc \in EndingPc : GoTo(pc)
  BY <1>3, WorkerGoes
  DEF CallPart, DictIsOwn, CopyIsCurrent, SuccessIsFound, At, Calling, EndingPc
<1> QED BY <1>1, <1>2, <1>3

(* Steps before run_task that write the state. *)
LEMMA AsideCall ==
  ASSUME KioskIInv, CallPart, ~ At("idle"),
         worker.pc \notin Calling \cup EndingPc,
         NEW s \in {"scheduled", "queued", "failed"}, SetState(worker.run, s),
         GoIdle \/ \E pc \in WorkerPc \ (Calling \cup {"claim"}) : GoTo(pc)
  PROVE  KeptToAttempts /\ CallPart'
<1>0. CallPart'
  BY AsidePart
<1>1. PICK r \in Run : r = worker.run
  BY WorkerOnRun
<1>2. /\ r \in TaskIds /\ r # None /\ taskRuns[r].retries \in 0 .. MaxRetries
      /\ s \in TaskState /\ UpdateTask(r, s, taskRuns[r].retries)
  BY <1>1, WorkerOnRun, RowTyped DEF KioskIInv, TaskState, SetState
<1>3. /\ \A q \in Run \ {r} : RowStays(q)
      /\ KeepsRow(r) /\ RunPhase(r)' \in {"waiting", "failed"}
  BY <1>2, RowUpdated DEF KeepsRow, PhaseOf
<1>4. /\ worker'.run \in {r, None}
      /\ ~ CalledFor(r) /\ ~ CalledFor(r)' /\ GamesOf(r)' = GamesOf(r)
  BY <1>1, <1>2, WorkerGoes, WorkerRests DEF CalledFor, GamesOf, CallPart, DictIsOwn
<1>5. Call(r)!SetBetween
  BY <1>3, <1>4 DEF KeepsRow, CalledFor, GamesOf, ModeOf, RetriesOf, Call!SetBetween
<1>6. Call(r)!AttemptsNext
  BY <1>5 DEF Call!AttemptsNext
<1> QED BY <1>0, <1>1, <1>3, <1>4, <1>6, OneCall

(* Steps outside of run_task that write nothing to the store. *)
LEMMA QuietCall ==
  ASSUME KioskIInv, CallPart, ~ At("idle"),
         UNCHANGED <<taskRuns, results>>,
         \/ /\ worker.pc \notin Calling \cup EndingPc
            /\ GoIdle \/ \E pc \in WorkerPc \ (Calling \cup {"claim"}) : GoTo(pc)
         \/ worker.pc \in {"reject", "release"} /\ GoTo("final")
  PROVE  KeptToAttempts /\ CallPart'
<1>1. CallPart'
  BY AsidePart DEF EndingPc
<1>2. Unseen
  BY WorkerGoes, WorkerRests, WorkerOnRun
  DEF Unseen, CalledFor, GamesOf, CallPart, DictIsOwn, Calling, EndingPc
<1> QED BY <1>1, <1>2, UnseenCall

(* The worker takes a run. *)
LEMMA TakeCall ==
  ASSUME KioskIInv, LedgerPart, CallPart, At("idle"), UNCHANGED <<taskRuns, results>>,
         NEW r \in Run, NEW pc \in {"status", "retry", "load"},
         worker' = [worker EXCEPT !.pc = pc, !.run = r]
  PROVE  KeptToAttempts /\ CallPart'
<1>1. /\ worker'.pc = pc /\ worker'.run = r /\ worker'.games = NoGames
      /\ worker.games = NoGames /\ worker.run = None
  BY DEF KioskIInv, WorkerPart, WorkerTypeOK, LedgerPart, IdleHasNone, CallPart, DictIsOwn, At,
         Calling, EndingPc
<1>2. Unseen
  BY <1>1 DEF Unseen, CalledFor, GamesOf, Calling, At
<1>3. CallPart'
  BY <1>1 DEF CallPart, DictIsOwn, CopyIsCurrent, SuccessIsFound, At, Calling
<1> QED BY <1>2, <1>3, UnseenCall

(* The worker takes its copies. *)
LEMMA ReadsCall ==
  ASSUME KioskIInv, CallPart,
         ReadStatus \/ LoadContext \/ BeginTaskFails
  PROVE  KeptToAttempts /\ CallPart'
<1>1. UNCHANGED <<taskRuns, results>> /\ ~ At("idle") /\ worker.pc \in {"status", "load", "claim"}
  BY DEF ReadStatus, LoadContext, LoadTaskContext, BeginTaskFails, storeVars, At
<1>2. worker.games = NoGames /\ WorkerTypeOK /\ worker.run \in TaskIds
  BY <1>1, WorkerOnRun DEF CallPart, DictIsOwn, Calling, EndingPc, KioskIInv, WorkerPart
<1>3. CASE \E pc \in {"cancel", "restore", "badcontext"} : GoTo(pc)
  BY <1>1, <1>3, QuietCall DEF WorkerPc, Calling, EndingPc
<1>4. ASSUME worker'.pc \in {"lock", "badcontext", "stale", "claim"},
             worker'.run = worker.run, worker'.games = NoGames,
             worker'.pc = "claim" => worker'.retries = taskRuns[worker.run].retries
      PROVE  KeptToAttempts /\ CallPart'
  <2>1. Unseen
    BY <1>1, <1>2, <1>4 DEF Unseen, CalledFor, GamesOf, Calling
  <2>2. PICK r \in Run : r = worker.run
    BY <1>1, WorkerOnRun
  <2>3. RetriesOf(r)' = taskRuns[r].retries
    BY <1>1, <1>2, <2>2 DEF RetriesOf, TaskIds
  <2>4. CallPart'
    BY <1>4, <2>2, <2>3 DEF CallPart, DictIsOwn, CopyIsCurrent, SuccessIsFound, At, Calling
  <2> QED BY <2>1, <2>4, UnseenCall
<1>5. CASE worker' = [worker EXCEPT !.pc = "lock", !.email = taskRuns[worker.run].email]
  BY <1>2, <1>4, <1>5 DEF WorkerTypeOK
<1>6. CASE worker' = [worker EXCEPT
                        !.pc = IF TaskCycleIsActive(worker.run) THEN "claim" ELSE "stale",
                        !.email = taskRuns[worker.run].email,
                        !.retries = taskRuns[worker.run].retries]
  BY <1>2, <1>4, <1>6 DEF WorkerTypeOK
<1> QED BY <1>3, <1>5, <1>6 DEF ReadStatus, LoadContext, BeginTaskFails

(* A call begins. *)
LEMMA BeginCall ==
  ASSUME KioskIInv, CallPart, BeginTask
  PROVE  KeptToAttempts /\ CallPart'
<1>1. PICK r \in Run : r = worker.run
  BY WorkerOnRun DEF BeginTask, At
<1>2. /\ r \in TaskIds /\ worker.retries \in 0 .. MaxRetries
      /\ UpdateTask(r, "running", worker.retries)
      /\ worker.games = NoGames /\ worker.retries = RetriesOf(r)
      /\ worker.pc = "claim"
  BY <1>1, WorkerOnRun
  DEF BeginTask, At, KioskIInv, WorkerPart, WorkerTypeOK, CallPart, DictIsOwn, CopyIsCurrent,
      Calling, EndingPc, FailingPc
<1>3. /\ \A q \in Run \ {r} : RowStays(q)
      /\ KeepsRow(r) /\ RunPhase(r)' = "running"
  BY <1>2, RowUpdated DEF KeepsRow, PhaseOf, TaskState
<1>4. /\ worker'.pc = "work" /\ worker'.run = r /\ worker'.games = NoGames
      /\ worker'.retries = worker.retries
  BY <1>1, <1>2, WorkerGoes DEF BeginTask
<1>5. Call(r)!Begin
  BY <1>1, <1>2, <1>3, <1>4
  DEF KeepsRow, ModeOf, RetriesOf, Calling, Call!Begin, Call!NoGames, NoGames
<1>6. Call(r)!AttemptsNext
  BY <1>5 DEF Call!AttemptsNext
<1>7. CallPart'
  BY <1>2, <1>3, <1>4
  DEF KeepsRow, CallPart, DictIsOwn, CopyIsCurrent, SuccessIsFound, At, Calling
<1> QED BY <1>1, <1>3, <1>4, <1>6, <1>7, OneCall

(* A call that goes on, or has found what makes the run succeed. *)
LEMMA WorkingCall ==
  ASSUME KioskIInv, CallPart, UNCHANGED <<taskRuns, results>>,
         worker.pc \in Calling, worker'.pc \in Calling,
         NEW r \in Run, worker.run = r, worker'.run = r, worker'.games = worker.games,
         worker.pc \in FailingPc => worker'.pc \in FailingPc,
         \/ worker'.retries = worker.retries
         \/ /\ worker.pc = "work" /\ worker'.pc \in FailingPc
            /\ worker'.retries = worker.retries + 1,
         SuccessIsFound'
  PROVE  KeptToAttempts /\ CallPart'
<1>1. Unseen
  BY DEF Unseen, CalledFor, GamesOf
<1>2. RetriesOf(r)' = RetriesOf(r)
  BY DEF RetriesOf
<1>3. CallPart'
  BY <1>2 DEF CallPart, DictIsOwn, CopyIsCurrent, FailingPc
<1> QED BY <1>1, <1>3, UnseenCall

LEMMA GoesOnCall ==
  ASSUME KioskIInv, CallPart,
         \/ RetryNow \/ RetryLater \/ RetryFails \/ FeedbackFails \/ VerifyPassed \/ CompleteCycle
         \/ ClaimDone /\ CycleReady(worker.run)
  PROVE  KeptToAttempts /\ CallPart'
<1>0. UNCHANGED <<taskRuns, results>> /\ worker.pc \in Calling /\ ~ At("idle")
  BY DEF RetryNow, RetryLater, RetryFails, FeedbackFails, VerifyPassed, CompleteCycle, MarkCycleComplete,
         ClaimDone, storeVars, At, Calling
<1>1. PICK r \in Run : r = worker.run
  BY <1>0, WorkerOnRun
<1>2. /\ r \in TaskIds /\ ModeOf(r) = taskRuns[r].mode
      /\ ModeOf(r)' = ModeOf(r) /\ Expected(r)' = Expected(r) /\ results' = results
  BY <1>0, <1>1, WorkerOnRun DEF ModeOf, Expected, TaskIds
<1>3. CASE \/ At("work") /\ \E pc \in {"requeued", "postponed"} : GoTo(pc)
           \/ \E pc \in FailingPc : GoTo(pc)
  <2>1. PICK pc \in {"requeued", "postponed", "error", "uncaught"} :
          GoTo(pc) /\ (At("work") \/ pc \in FailingPc)
    BY <1>3 DEF FailingPc
  <2>2. /\ worker'.pc = pc /\ worker'.run = r /\ worker'.games = worker.games
        /\ worker'.retries = worker.retries
    BY <1>1, <2>1, WorkerGoes
  <2>3. SuccessIsFound'
    BY <2>2 DEF SuccessIsFound, At
  <2> QED BY <1>0, <1>1, <2>1, <2>2, <2>3, WorkingCall DEF Calling, FailingPc, At
<1>4. CASE GoTo("done") /\ (VerifyPassed \/ CompleteCycle)
  <2>1. ModeOf(r) = "verify" \/ Earned(r)
    BY <1>1, <1>2, <1>4 DEF VerifyPassed, CompleteCycle, CallPart, SuccessIsFound, At
  <2>2. /\ worker'.pc = "done" /\ worker'.run = r /\ worker'.games = worker.games
        /\ worker'.retries = worker.retries
    BY <1>1, <1>4, WorkerGoes
  <2>3. SuccessIsFound'
    BY <1>2, <2>1, <2>2 DEF SuccessIsFound, Earned, At
  <2>4. worker.pc \notin FailingPc
    BY <1>4 DEF VerifyPassed, CompleteCycle, FailingPc, At
  <2> QED BY <1>0, <1>1, <2>2, <2>3, <2>4, WorkingCall DEF Calling
<1>5. CASE ClaimDone /\ CycleReady(worker.run)
  <2>1. /\ worker'.pc = "complete" /\ worker'.run = r /\ worker'.games = worker.games
        /\ worker'.retries = worker.retries
    BY <1>1, <1>5 DEF ClaimDone, ReadOwner, KioskIInv, WorkerPart, WorkerTypeOK
  <2>2. Earned(r)
    BY <1>1, <1>2, <1>5 DEF Earned, ClaimDone, CycleReady, Expected, TaskIds
  <2>3. SuccessIsFound'
    BY <1>2, <2>1, <2>2 DEF SuccessIsFound, Earned, At
  <2>4. worker.pc \notin FailingPc
    BY <1>5 DEF ClaimDone, FailingPc, At
  <2> QED BY <1>0, <1>1, <2>1, <2>3, <2>4, WorkingCall DEF Calling
<1>6. CASE RetryFails
  <2>1. PICK pc \in FailingPc, counted \in 0 .. 1 :
          worker' = [worker EXCEPT !.pc = pc, !.retries = @ + counted]
    BY <1>6 DEF RetryFails, FailingPc
  <2>2. worker.pc = "work" /\ WorkerTypeOK /\ worker.retries \in Nat
    BY <1>6, StoreAssumption
    DEF StoreAssumption, RetryFails, At, KioskIInv, WorkerPart, WorkerTypeOK
  <2>3. /\ worker'.pc = pc /\ worker'.run = r /\ worker'.games = worker.games
        /\ worker'.retries = worker.retries + counted
    BY <1>1, <2>1, <2>2 DEF WorkerTypeOK
  <2>4. SuccessIsFound'
    BY <2>3 DEF SuccessIsFound, FailingPc, At
  <2>5. worker'.retries = worker.retries \/ worker'.retries = worker.retries + 1
    BY <2>2, <2>3
  <2> QED BY <1>0, <1>1, <2>2, <2>3, <2>4, <2>5, WorkingCall DEF Calling, FailingPc
<1> QED BY <1>3, <1>4, <1>5, <1>6
        DEF RetryNow, RetryLater, FeedbackFails, VerifyPassed, CompleteCycle, FailingPc

(* A result is recorded. *)
LEMMA RecordCall ==
  ASSUME KioskIInv, CallPart, NEW t \in Title, NEW g \in Reported, RecordResult(t, g)
  PROVE  KeptToAttempts /\ CallPart'
<1>1. PICK r \in Run : r = worker.run
  BY WorkerOnRun DEF RecordResult, At
<1>2. r \in TaskIds /\ worker.pc = "work" /\ WorkerTypeOK /\ g \in GameState
  BY <1>1, WorkerOnRun, StoreAssumption
  DEF StoreAssumption, RecordResult, At, KioskIInv, WorkerPart
<1>3. ModeOf(r) = "claim" /\ t \in Expected(r)
  BY <1>1, <1>2
  DEF RecordResult, ModeOf, Expected, TaskIds, KioskIInv, StoreIInv, CycleRunsClaim
<1>4. /\ UNCHANGED taskRuns
      /\ results'[r] = [results[r] EXCEPT ![t] = g]
      /\ \A q \in Run \ {r} : results'[q] = results[q]
  BY <1>1 DEF RecordResult, RecordGameResult, KioskIInv, StoreIInv, StoreTypeOK
<1>5. /\ \A q \in Run \ {r} : RowStays(q)
      /\ ModeOf(r)' = ModeOf(r) /\ Expected(r)' = Expected(r)
      /\ RetriesOf(r)' = RetriesOf(r) /\ RunPhase(r)' = RunPhase(r)
  BY <1>4, SameRow DEF ModeOf, Expected, RetriesOf, RunPhase, InState
<1>6. /\ worker'.pc = "work" /\ worker'.run = r /\ worker'.retries = worker.retries
      /\ worker'.games = [worker.games EXCEPT ![t] = g]
  BY <1>1, <1>2 DEF RecordResult, WorkerTypeOK
<1>7. Call(r)!Record(t, g)
  BY <1>1, <1>2, <1>3, <1>4, <1>5, <1>6 DEF ModeOf, RetriesOf, Calling, Call!Record
<1>8. Call(r)!AttemptsNext
  BY <1>2, <1>7 DEF Call!AttemptsNext
<1>9. CallPart'
  BY <1>1, <1>2, <1>5, <1>6
  DEF CallPart, DictIsOwn, CopyIsCurrent, SuccessIsFound, At, Calling, FailingPc
<1> QED BY <1>1, <1>5, <1>6, <1>8, <1>9, OneCall

(* A call writes its outcome. *)
LEMMA SettlesCall ==
  ASSUME KioskIInv, CallPart, worker.pc \in Calling, NEW r \in Run, worker.run = r,
         NEW s \in TaskState, NEW n \in 0 .. MaxRetries, UpdateTask(r, s, n),
         \E pc \in EndingPc : GoTo(pc)
  PROVE  /\ Call(r)!Settle(PhaseOf(s))
         /\ ModeOf(r) \in Mode
         /\ RetriesOf(r)' = n
         /\ \/ worker.retries = RetriesOf(r)
            \/ worker.pc \in FailingPc /\ worker.retries = RetriesOf(r) + 1
         /\ RetriesOf(r) = taskRuns[r].retries
         /\ worker'.run = r
         /\ \A q \in Run \ {r} : RowStays(q)
         /\ CallPart'
<1>1. CallPart'
  BY AsidePart
<1>2. r \in TaskIds
  BY WorkerOnRun DEF At, Calling
<1>3. worker'.run = r /\ worker'.games = worker.games /\ worker'.pc \notin Calling
  BY WorkerGoes DEF Calling, EndingPc
<1>4. /\ \A q \in Run \ {r} : RowStays(q)
      /\ ModeOf(r)' = ModeOf(r) /\ Expected(r)' = Expected(r) /\ RunPhase(r)' = PhaseOf(s)
      /\ results' = results /\ RetriesOf(r)' = n /\ RetriesOf(r) = taskRuns[r].retries
      /\ ModeOf(r) \in Mode
  BY <1>2, RowUpdated
<1>5. Call(r)!Settle(PhaseOf(s))
  BY <1>3, <1>4 DEF ModeOf, Call!Settle
<1>6. \/ worker.retries = RetriesOf(r)
      \/ worker.pc \in FailingPc /\ worker.retries = RetriesOf(r) + 1
  BY DEF CallPart, CopyIsCurrent
<1> QED BY <1>1, <1>3, <1>4, <1>5, <1>6

LEMMA OutcomeCall ==
  ASSUME KioskIInv, CallPart,
         \/ RecordRetry \/ (\E s \in TaskState : GiveUp(s)) \/ SystemError \/ RejectCredentials
         \/ Succeed
         \/ ClaimDone /\ ~ CycleReady(worker.run)
         \/ FailUncaught /\ At("uncaught")
  PROVE  KeptToAttempts /\ CallPart'
<1>0. /\ worker.pc \in Calling /\ ~ At("idle")
      /\ \E pc \in EndingPc : GoTo(pc)
  BY DEF RecordRetry, GiveUp, SystemError, RejectCredentials, Succeed, ClaimDone, FailUncaught,
         At, Calling, EndingPc
<1>1. PICK r \in Run : r = worker.run
  BY <1>0, WorkerOnRun
<1>2. r \in TaskIds /\ taskRuns[r].retries \in 0 .. MaxRetries
  BY <1>0, <1>1, WorkerOnRun, RowTyped DEF KioskIInv
<1>3. ASSUME Call(r)!AttemptsNext, worker'.run = r, \A q \in Run \ {r} : RowStays(q)
      PROVE  KeptToAttempts
  BY <1>1, <1>3, OneCall
<1>4. CASE RecordRetry
  <2> DEFINE s == IF At("requeued") THEN "queued" ELSE "deferred"
             n == worker.retries + 1
  <2>1. /\ worker.retries < MaxRetries /\ worker.retries \in Nat /\ n \in 0 .. MaxRetries
        /\ UpdateTask(r, s, n) /\ s \in TaskState /\ PhaseOf(s) = "waiting"
    BY <1>1, <1>4, StoreAssumption
    DEF StoreAssumption, KioskIInv, WorkerPart, WorkerKnows, WorkerTypeOK, RecordRetry, TaskState,
        PhaseOf
  <2> HIDE DEF s
  <2>2. /\ Call(r)!Settle(PhaseOf(s)) /\ RetriesOf(r)' = n /\ worker.retries = RetriesOf(r)
        /\ worker'.run = r /\ (\A q \in Run \ {r} : RowStays(q)) /\ CallPart'
    BY <1>0, <1>1, <1>4, <2>1, SettlesCall DEF RecordRetry, FailingPc, At
  <2>3. Call(r)!Retry
    BY <2>1, <2>2 DEF RetriesOf, Call!Retry
  <2> QED BY <1>3, <2>2, <2>3 DEF Call!AttemptsNext
<1>5. ASSUME NEW s \in TaskState \ {"scheduled", "queued", "deferred"}, SetState(r, s)
      PROVE  /\ Call(r)!Settle(s) /\ RetriesOf(r)' = RetriesOf(r) /\ ModeOf(r) \in Mode
             /\ worker'.run = r /\ (\A q \in Run \ {r} : RowStays(q)) /\ CallPart'
  <2>1. PhaseOf(s) = s /\ UpdateTask(r, s, taskRuns[r].retries)
    BY <1>5 DEF PhaseOf, SetState
  <2> QED BY <1>0, <1>1, <1>2, <2>1, SettlesCall
<1>6. CASE \E s \in {"failed", "manual_required"} : SetState(r, s)
  <2>1. PICK s \in {"failed", "manual_required"} : SetState(r, s)
    BY <1>6
  <2>2. /\ Call(r)!Settle(s) /\ RetriesOf(r)' = RetriesOf(r)
        /\ worker'.run = r /\ (\A q \in Run \ {r} : RowStays(q)) /\ CallPart'
    BY <1>5, <2>1 DEF TaskState
  <2>3. Call(r)!GiveUp
    BY <2>2 DEF RetriesOf, Call!GiveUp
  <2> QED BY <1>3, <2>2, <2>3 DEF Call!AttemptsNext
<1>7. CASE Succeed
  <2>1. /\ Call(r)!Settle("succeeded") /\ RetriesOf(r)' = RetriesOf(r)
        /\ worker'.run = r /\ (\A q \in Run \ {r} : RowStays(q)) /\ CallPart'
    BY <1>1, <1>5, <1>7 DEF Succeed, TaskState
  <2>2. ModeOf(r) = "verify" \/ Earned(r)
    BY <1>1, <1>7 DEF Succeed, CallPart, SuccessIsFound
  <2>3. CASE ModeOf(r) = "verify"
    <3>1. Call(r)!Verified
      BY <2>1, <2>3 DEF ModeOf, RetriesOf, Call!Verified
    <3> QED BY <1>3, <2>1, <3>1 DEF Call!AttemptsNext
  <2>4. CASE Earned(r)
    <3>1. Call(r)!Claimed
      BY <1>1, <2>1, <2>4 DEF Earned, ModeOf, RetriesOf, Call!Claimed
    <3> QED BY <1>3, <2>1, <3>1 DEF Call!AttemptsNext
  <2> QED BY <2>2, <2>3, <2>4
<1>8. CASE SystemError
  <2>1. worker.retries \in 0 .. MaxRetries /\ RetriesOf(r) \in 0 .. MaxRetries
    BY <1>2, RowTyped DEF RetriesOf, KioskIInv, WorkerPart, WorkerTypeOK, TaskIds
  <2>2. /\ Call(r)!Settle("failed") /\ RetriesOf(r)' = worker.retries
        /\ worker.retries = RetriesOf(r) \/ worker.retries = RetriesOf(r) + 1
        /\ worker'.run = r /\ (\A q \in Run \ {r} : RowStays(q)) /\ CallPart'
    BY <1>0, <1>1, <1>8, <2>1, SettlesCall DEF SystemError, TaskState, PhaseOf
  <2>3. CASE worker.retries = RetriesOf(r)
    <3>1. Call(r)!GiveUp
      BY <2>2, <2>3 DEF RetriesOf, Call!GiveUp
    <3> QED BY <1>3, <2>2, <3>1 DEF Call!AttemptsNext
  <2>4. CASE worker.retries = RetriesOf(r) + 1
    <3>1. RetriesOf(r) < MaxRetries
      BY <2>1, <2>4, StoreAssumption DEF StoreAssumption
    <3>2. Call(r)!FailToRetry
      BY <2>2, <2>4, <3>1 DEF RetriesOf, Call!FailToRetry
    <3> QED BY <1>3, <2>2, <3>2 DEF Call!AttemptsNext
  <2> QED BY <2>2, <2>3, <2>4
<1> QED BY <1>1, <1>4, <1>6, <1>7, <1>8 DEF GiveUp, RejectCredentials, ClaimDone, FailUncaught

(* A call has returned, or the process dies. *)
LEMMA ForgetCall ==
  ASSUME KioskIInv, ~ At("idle"), GoIdle, UNCHANGED <<taskRuns, results>>
  PROVE  KeptToAttempts /\ CallPart'
<1>1. PICK r \in Run : r = worker.run /\ r # None
  BY WorkerOnRun
<1>2. worker'.run = None /\ \A q \in Run : RowStays(q)
  BY WorkerRests, SameRow
<1>3. Call(r)!Forget
  BY <1>1, <1>2
  DEF RowStays, KeepsRow, ModeOf, RetriesOf, Call!Forget, Call!NoGames, NoGames
<1>4. Call(r)!AttemptsNext
  BY <1>3 DEF Call!AttemptsNext
<1> QED BY <1>1, <1>2, <1>4, OneCall, RestingPart

LEMMA WorkerCall ==
  ASSUME KioskIInv, LedgerPart, CallPart, WorkerNext
  PROVE  KeptToAttempts /\ CallPart'
<1>1. CASE \/ QueueScheduled \/ CancelScheduled \/ RestoreScheduled \/ PushRetry \/ FailUnstarted
           \/ FailUncaught /\ At("badcontext")
  BY <1>1, AsideCall
  DEF QueueScheduled, CancelScheduled, RestoreScheduled, PushRetry, FailUnstarted, FailUncaught,
      At, Calling, EndingPc, WorkerPc
<1>2. CASE \/ LockScheduled \/ LockScheduledFails \/ PushScheduled \/ PushScheduledFails
           \/ UnlockUnstarted \/ NukeRequestLost
  BY <1>2, QuietCall
  DEF LockScheduled, LockScheduledFails, PushScheduled, PushScheduledFails, UnlockUnstarted,
      NukeRequestLost, At, Calling, EndingPc, WorkerPc, storeVars
<1>3. CASE PopTask \/ \E r \in Run : TakeScheduled(r) \/ TakeRetry(r)
  <2>1. PopTask => Head(taskQueue) \in Run
    BY DEF PopTask, KioskIInv, RedisPart, QueueKnown
  <2> QED BY <1>3, <2>1, TakeCall DEF PopTask, TakeScheduled, TakeRetry, storeVars
<1>4. CASE PopLost
  <2>1. Unseen
    BY <1>4 DEF PopLost, Unseen, CalledFor, GamesOf, storeVars
  <2>2. CallPart'
    BY <1>4 DEF PopLost, storeVars, CallPart, DictIsOwn, CopyIsCurrent, SuccessIsFound, Earned,
                RetriesOf, ModeOf, Expected, At
  <2> QED BY <2>1, <2>2, UnseenCall
<1>5. CASE ReadStatus \/ LoadContext \/ BeginTaskFails
  BY <1>5, ReadsCall
<1>6. CASE BeginTask
  BY <1>6, BeginCall
<1>7. CASE \E t \in Title, g \in Reported : RecordResult(t, g)
  BY <1>7, RecordCall
<1>8. CASE \/ RetryNow \/ RetryLater \/ RetryFails \/ FeedbackFails \/ VerifyPassed
           \/ CompleteCycle
           \/ ClaimDone /\ CycleReady(worker.run)
  BY <1>8, GoesOnCall
<1>9. CASE \/ RecordRetry \/ (\E s \in TaskState : GiveUp(s)) \/ SystemError
           \/ RejectCredentials \/ Succeed
           \/ ClaimDone /\ ~ CycleReady(worker.run)
           \/ FailUncaught /\ At("uncaught")
  BY <1>9, OutcomeCall
<1>10. CASE Finish \/ WorkerCrash
  BY <1>10, ForgetCall DEF Finish, WorkerCrash, At, storeVars
<1>11. CASE ReleaseUncaught
  BY <1>11, ForgetCall, QuietCall DEF ReleaseUncaught, At, storeVars
<1>12. CASE FailUncaught
  BY <1>1, <1>9, <1>12 DEF FailUncaught, At
<1> QED BY <1>1, <1>2, <1>3, <1>4, <1>5, <1>6, <1>7, <1>8, <1>9, <1>10, <1>11, <1>12
        DEF WorkerNext, WorkerStep, WorkerFault

LEMMA CallStep ==
  ASSUME LedgerIInv, CallPart, [KioskNext]_kioskVars
  PROVE  KeptToAttempts /\ CallPart'
<1>. KioskIInv /\ LedgerPart
  BY DEF LedgerIInv
<1>1. CASE (\A r \in Run : ElsewhereMoves(r)) /\ UNCHANGED worker
  BY <1>1, ElsewhereCall, ElsewherePart DEF KeptToAttempts
<1>2. CASE \E t \in Thread : (Handle(t) \/ Request(t) \/ HandlerFails(t)) /\ UNCHANGED worker
  BY <1>1, <1>2, ThreadMovesRun
<1>3. CASE /\ RefreshStep \/ RefreshFails \/ WebCrash \/ \E c \in Cycle : ActivateCycle(c)
           /\ UNCHANGED worker
  BY <1>1, <1>3, JobMovesRun
<1>4. CASE WorkerNext
  BY <1>4, WorkerCall
<1>5. CASE \E t \in Thread : RequestNuke(t)
  BY <1>5, QuietCall DEF RequestNuke, At, storeVars
<1>6. CASE UNCHANGED <<taskRuns, results, worker>>
  BY <1>1, <1>6, SameRow DEF ElsewhereMoves
<1> QED BY <1>2, <1>3, <1>4, <1>5, <1>6
        DEF KioskNext, WebNext, TimePasses, LockExpires, CredentialExpires, storeVars, kioskVars

LEMMA CallInit ==
  ASSUME KioskInit
  PROVE  CallPart /\ \A r \in Run : Call(r)!AttemptsInit
<1>1. /\ worker.pc = "idle" /\ worker.run = None /\ worker.games = NoGames
      /\ \A r \in Run : r # None /\ taskRuns[r] = None /\ results[r] = NoGames
  BY StoreAssumption
  DEF StoreAssumption, KioskInit, StoreInit, WorkerInit, IdleWorker, NoGames
<1>2. CallPart
  BY <1>1 DEF CallPart, DictIsOwn, CopyIsCurrent, SuccessIsFound, At, Calling
<1>3. ASSUME NEW r \in Run PROVE Call(r)!AttemptsInit
  BY <1>1 DEF Call!AttemptsInit, Call!NoGames, NoGames, RunPhase, Expected, InState, Calling
<1> QED BY <1>2, <1>3

(* In every reachable state the worker counts on a counter that is the      *)
(* row's, or one ahead of it once scheduling the retry that it counts has    *)
(* failed; it writes games into a dict that was empty when the call began,   *)
(* and is about to write a success only of a run that has earned it.        *)
THEOREM CallInvariant == KioskSpec => []CallIInv
<1>1. KioskInit => CallPart
  BY CallInit
<1>2. CallIInv /\ [KioskNext]_kioskVars => CallPart'
  BY CallStep DEF CallIInv
<1> QED BY <1>1, <1>2, LedgerInvariant, PTL DEF KioskSpec, CallIInv

(* Whatever fails, dies, expires or is deleted around them, and however     *)
(* many runs, handlers and cycles there are, the calls of run_task keep to  *)
(* Attempts, each for its run.                                              *)
THEOREM CallsKeepToTheirRuns == KioskSpec => CallsKeepToAttempts
<1>1. KioskInit => \A r \in Run : Call(r)!AttemptsInit
  BY CallInit
<1>2. CallIInv /\ [KioskNext]_kioskVars => [KeptToAttempts]_kioskVars
  BY CallStep DEF CallIInv
<1> QED BY <1>1, <1>2, CallInvariant, PTL DEF KioskSpec, CallsKeepToAttempts, KeptToAttempts

=============================================================================
