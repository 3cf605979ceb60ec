------------------------------- MODULE RunTask -------------------------------
(***************************************************************************)
(* The life of one run of the active cycle: every attempt of worker.py's   *)
(* run_task, what it makes of the browser's lines, the retry it schedules  *)
(* or the verdict it writes, over retry counters kept per kind of error.   *)
(* Worker models the same function within the loop and its queues, with a  *)
(* single counter and any order of outcomes; here the queues, locks and    *)
(* delays are left out: a run that waits for a retry gets it.              *)
(*                                                                         *)
(* The branch for the output of older versions of deploy.py is left out:   *)
(* this browser never finds games without a result for one of them.        *)
(***************************************************************************)
EXTENDS BrowserTask

CONSTANTS
  HardTimeouts,   \* bound: attempts that run into TASK_TIMEOUT_SECONDS
  LostReports     \* bound: attempts in which /api/report_game stays out of reach

ASSUME RunTaskAssumption == HardTimeouts \in Nat /\ LostReports \in Nat

VARIABLES
  run,            \* the row of task_runs and its task_game_results
  history,        \* the titles that the table logs has for the account
  task,           \* the local variables of run_task
  mishaps         \* hard timeouts and lost reports so far

taskVars == <<run, history, task, mishaps>>

runVars == <<browserVars, taskVars>>

(* schedule_failure_retry's policies, COOKIE_INVALID_MAX_RETRIES, and the   *)
(* limit on partial retries.                                                *)
RetryKind ==
  {"captcha_invalid", "login_page_timeout", "captcha_failed", "captcha_unsolved",
   "provider_timeout", "network_timeout", "driver_crash", "page_timeout",
   "task_deadline", "checkout_failed", "cookie_invalid", "partial"}

RetryLimit ==
  [k \in RetryKind |->
     IF k \in {"provider_timeout", "network_timeout", "driver_crash"} THEN 2 ELSE 1]

(* The errors for which run_task asks for a delayed retry at once. *)
RecoverableError ==
  {"network_timeout", "driver_crash", "provider_timeout", "captcha_failed",
   "captcha_unsolved", "captcha_invalid", "login_page_timeout", "page_timeout"}

(* nuke in ERROR_TYPE_MESSAGES. *)
NukeError == {"invalid_credentials", "account_locked"}

Verdict == {"succeeded", "failed", "manual_required"}

RunState == {"queued", "running", "deferred"} \cup Verdict

RunRow == [state : RunState, mode : {"claim", "verify"},
           retries : [RetryKind -> 0 .. 2], targets : SUBSET Title,
           results : [Title -> GameStatus \cup {None}], nuked : BOOLEAN]

WithinLimits == \A k \in RetryKind : run.retries[k] <= RetryLimit[k]

Task == [pc : {"idle", "read", "report", "decide"},
         results : [Title -> GameStatus \cup {None}],
         error : ErrorType \cup GameCollectError \cup {None},
         fatal : BOOLEAN, critical : BOOLEAN, owned : BOOLEAN, login : BOOLEAN,
         missed : SUBSET Title]

NoResults == [t \in Title |-> None]

NoTask == [pc |-> "idle", results |-> NoResults, error |-> None, fatal |-> FALSE,
           critical |-> FALSE, owned |-> FALSE, login |-> FALSE, missed |-> {}]

RunTaskTypeOK ==
  /\ BrowserTypeOK
  /\ run \in RunRow /\ WithinLimits
  /\ history \subseteq Title
  /\ task \in Task
  /\ mishaps \in [timeouts : 0 .. HardTimeouts, reports : 0 .. LostReports]

RunTaskInit ==
  /\ BrowserInit
  /\ \E m \in {"claim", "verify"} :
       run = [state |-> "queued", mode |-> m, retries |-> [k \in RetryKind |-> 0],
              targets |-> {}, results |-> NoResults, nuked |-> FALSE]
  /\ history = {}
  /\ task = NoTask
  /\ mishaps = [timeouts |-> 0, reports |-> 0]

AtTask(pc) == task.pc = pc

(* run_task returns; of its variables only these two are looked at after.   *)
Forget == task' = [NoTask EXCEPT !.fatal = task.fatal, !.owned = task.owned]

Return ==
  /\ Forget
  /\ UNCHANGED <<browserVars, history, mishaps>>

----------------------------------------------------------------------------
(* The start of an attempt *)

Waiting == AtTask("idle") /\ run.state \in {"queued", "deferred"}

(* Mutated form: the browser is not told that the run only verifies. *)
StartTaskClaiming ==
  /\ Waiting
  /\ run' = [run EXCEPT !.state = "running"]
  /\ task' = [NoTask EXCEPT !.pc = "read"]
  /\ Start(FALSE, run.targets)
  /\ pipe' = << >>
  /\ UNCHANGED <<epicVars, history, mishaps>>

StartTask ==
  /\ Waiting
  /\ run' = [run EXCEPT !.state = "running"]
  /\ task' = [NoTask EXCEPT !.pc = "read"]
  /\ Start(run.mode = "verify", run.targets)
  /\ pipe' = << >>
  /\ UNCHANGED <<epicVars, history, mishaps>>

(* ensure_warp_ready gives up. *)
WarpUnavailable ==
  /\ Waiting
  /\ run' = [run EXCEPT !.state = "failed"]
  /\ UNCHANGED <<browserVars, history, task, mishaps>>

----------------------------------------------------------------------------
(* One line of output *)

(* The line at the head of the pipe is of that kind. *)
Reads(kind) ==
  /\ AtTask("read")
  /\ pipe # << >>
  /\ Head(pipe).kind = kind
  /\ pipe' = Tail(pipe)

(* A line that is only noted. *)
Notes(kind, noted) ==
  /\ Reads(kind)
  /\ task' = noted
  /\ UNCHANGED <<epicVars, browser, run, history, mishaps>>

(* ERROR_TYPE and FINAL_ERROR. *)
ReadError ==
  \/ Notes("error", [task EXCEPT !.error = Head(pipe).what,
                                 !.fatal = @ \/ Head(pipe).what \in NukeError])
  \/ Notes("final", [task EXCEPT !.error = Head(pipe).what])

(* GAME_ERROR: a cause that is known already is not forgotten. *)
ReadGameError ==
  Notes("game", [task EXCEPT !.error =
    IF Head(pipe).what = "unknown_error" /\ @ \in {"driver_crash", "page_timeout"}
      THEN @ ELSE Head(pipe).what])

ReadPhrase ==
  \/ Notes("timeout", [task EXCEPT !.error = "page_timeout", !.critical = TRUE])
  \/ Notes("slow", [task EXCEPT !.critical = TRUE])
  \/ Notes("driver", [task EXCEPT !.error = "driver_crash"])
  \/ Notes("owned", [task EXCEPT !.owned = TRUE, !.critical = FALSE])
  \/ Notes("done", [task EXCEPT !.critical = FALSE])
  \/ Notes("login", [task EXCEPT !.login = TRUE])

(* GAME_RESULT: into the dict, and into the store over what was there. *)
ReadGameResult ==
  /\ Reads("result")
  /\ LET line == Head(pipe)
     IN /\ task' = [task EXCEPT !.results[line.title] = line.what]
        /\ run' = [run EXCEPT !.results[line.title] = line.what]
  /\ UNCHANGED <<epicVars, browser, history, mishaps>>

(* A refused password: the run fails, the browser is stopped, and the web   *)
(* process is asked to delete the account.                                  *)
ReadCredentials ==
  /\ AtTask("read")
  /\ pipe # << >>
  /\ Head(pipe).kind = "credentials"
  /\ Killed
  /\ run' = [run EXCEPT !.state = "failed", !.nuked = TRUE]
  /\ Forget
  /\ UNCHANGED <<epicVars, history, mishaps>>

(* The output ends. *)
EndOfOutput ==
  /\ AtTask("read")
  /\ pipe = << >>
  /\ InBrowser("exit")
  /\ task' = [task EXCEPT !.pc = "report"]
  /\ UNCHANGED <<browserVars, run, history, mishaps>>

----------------------------------------------------------------------------
(* After the output *)

Successful == {t \in Title : task.results[t] \in SuccessfulGameStates}

Failed == {t \in Title : task.results[t] \in FailedGameStates}

(* Mutated form: the titles are reported only when no retry follows. *)
ReportSettledOnly ==
  /\ AtTask("report")
  /\ history' = IF task.error \in RecoverableError THEN history ELSE history \cup Successful
  /\ task' = [task EXCEPT !.pc = "decide"]
  /\ UNCHANGED <<browserVars, run, mishaps>>

(* report_success for each of them, before anything else: history is        *)
(* complete, or the web process stays out of reach for some.                *)
ReportSuccess ==
  /\ AtTask("report")
  /\ \E missed \in SUBSET Successful :
       /\ history' = history \cup (Successful \ missed)
       /\ task' = [task EXCEPT !.pc = "decide", !.missed = missed]
       /\ \/ missed = {} /\ UNCHANGED mishaps
          \/ /\ missed # {}
             /\ mishaps.reports < LostReports
             /\ mishaps' = [mishaps EXCEPT !.reports = @ + 1]
  /\ UNCHANGED <<browserVars, run>>

(* Mutated form: the last retry is granted once more. *)
CanRetryOnceMore(kind) == run.retries[kind] <= RetryLimit[kind]

CanRetry(kind) == run.retries[kind] < RetryLimit[kind]

EndWith(s) == run' = [run EXCEPT !.state = s] /\ Return

RetryFor(kind, targets) ==
  /\ run' = [run EXCEPT !.state = IF kind = "cookie_invalid" THEN "queued" ELSE "deferred",
                        !.retries[kind] = @ + 1, !.targets = targets]
  /\ Return

RetryAtOnce ==
  /\ AtTask("decide")
  /\ ~ task.fatal
  /\ task.error \in RecoverableError \cup {"cookie_invalid"}

(* Mutated form: the counter is read and never written. *)
RetryForErrorUncounted ==
  /\ RetryAtOnce
  /\ \/ /\ CanRetry(task.error)
        /\ EndWith("deferred")
     \/ /\ ~ CanRetry(task.error)
        /\ EndWith("failed")

(* Mutated form: an error without a policy gets that of page_timeout. *)
RetryForErrorByDefault ==
  LET kind == IF task.error \in RetryKind THEN task.error ELSE "page_timeout"
  IN /\ AtTask("decide")
     /\ task.error # None
     /\ CanRetry(kind)
     /\ RetryFor(kind, run.targets)

(* schedule_cookie_invalid_retry, or schedule_failure_retry with the error. *)
RetryForError ==
  /\ RetryAtOnce
  /\ \/ /\ CanRetry(task.error)
        /\ RetryFor(task.error, run.targets)
     \/ /\ ~ CanRetry(task.error)
        /\ EndWith(IF task.error \in {"captcha_invalid", "captcha_failed", "captcha_unsolved"}
                     THEN "manual_required" ELSE "failed")

Settles == AtTask("decide") /\ ~ RetryAtOnce

(* A process that ended badly without a word. *)
HasError == task.error # None \/ browser.code # 0

MayRetryAll == Successful = {} /\ Failed # {} /\ ~ task.fatal /\ CanRetry("checkout_failed")

(* Nothing was claimed: the failed games are tried again. *)
RetryFailedGames ==
  /\ Settles
  /\ MayRetryAll
  /\ RetryFor("checkout_failed", Failed)

MayRetryPartial ==
  /\ Failed # {}
  /\ task.missed = {}
  /\ CanRetry("partial")
  /\ CanRetry("checkout_failed")

(* Some were claimed: the others are tried again, once. *)
RetryPartial ==
  /\ Settles
  /\ Successful # {}
  /\ MayRetryPartial
  /\ run' = [run EXCEPT !.state = "deferred", !.targets = Failed,
                        !.retries["partial"] = @ + 1, !.retries["checkout_failed"] = @ + 1]
  /\ Return

FailPartial ==
  /\ Settles
  /\ Successful # {}
  /\ Failed # {} \/ task.missed # {} \/ HasError
  /\ ~ MayRetryPartial
  /\ EndWith("failed")

(* mark_cycle_complete_if_ready *)
CycleReady == \A t \in Title : run.results[t] \in SuccessfulGameStates

(* Mutated form: the run is done when this attempt is. *)
CompleteAttempt ==
  /\ Settles
  /\ Successful # {} /\ Failed = {} /\ task.missed = {} /\ ~ HasError
  /\ EndWith("succeeded")

(* All that was reported is claimed. *)
Complete ==
  /\ Settles
  /\ Successful # {} /\ Failed = {} /\ task.missed = {} /\ ~ HasError
  /\ EndWith(IF CycleReady THEN "succeeded" ELSE "manual_required")

NothingClaimed == Settles /\ Successful = {} /\ ~ MayRetryAll

FailWithError ==
  /\ NothingClaimed
  /\ HasError
  /\ EndWith("failed")

(* The browser found nothing left to claim. *)
CompleteOwned ==
  /\ NothingClaimed
  /\ ~ HasError
  /\ task.owned /\ ~ task.critical
  /\ EndWith(IF CycleReady THEN "succeeded" ELSE "manual_required")

(* A verify run has only logged in; a claim run with nothing to tell fails. *)
FinishPlain ==
  /\ NothingClaimed
  /\ ~ HasError
  /\ ~ task.owned \/ task.critical
  /\ EndWith(IF run.mode = "verify" /\ task.login /\ ~ task.critical
               THEN "succeeded" ELSE "failed")

(* subprocess.TimeoutExpired: the browser is killed with what it has not    *)
(* been asked for, or does not end after its last line.                     *)
HardTimeout ==
  /\ AtTask("read")
  /\ mishaps.timeouts < HardTimeouts
  /\ mishaps' = [mishaps EXCEPT !.timeouts = @ + 1]
  /\ Killed
  /\ run' = IF CanRetry("task_deadline")
              THEN [run EXCEPT !.state = "deferred", !.retries["task_deadline"] = @ + 1]
              ELSE [run EXCEPT !.state = "failed"]
  /\ Forget
  /\ UNCHANGED <<epicVars, history>>

----------------------------------------------------------------------------

(* What the worker does once it has begun an attempt. *)
TaskStep ==
  \/ ReadError \/ ReadGameError \/ ReadPhrase \/ ReadGameResult \/ ReadCredentials
  \/ EndOfOutput \/ ReportSuccess
  \/ RetryForError \/ RetryFailedGames \/ RetryPartial \/ FailPartial
  \/ Complete \/ FailWithError \/ CompleteOwned \/ FinishPlain

RunTaskNext ==
  \/ BrowserStep /\ UNCHANGED taskVars
  \/ \E t \in Title : EpicDelivers(t) /\ UNCHANGED taskVars
  \/ StartTask \/ WarpUnavailable
  \/ TaskStep
  \/ HardTimeout

RunTaskSpec == RunTaskInit /\ [][RunTaskNext]_runVars

(* A run that waits is started, the worker reads on, and the browser writes *)
(* on: one that does not is killed after TASK_TIMEOUT_SECONDS.              *)
RunTaskFairness ==
  /\ WF_runVars(StartTask \/ WarpUnavailable)
  /\ WF_runVars(TaskStep)
  /\ WF_runVars((BrowserStep /\ UNCHANGED taskVars) \/ HardTimeout)

FairRunTaskSpec == RunTaskSpec /\ RunTaskFairness

----------------------------------------------------------------------------
(* Properties *)

Recorded == {t \in Title : run.results[t] \in SuccessfulGameStates}

(* What is recorded as claimed or owned is in the account's library: no     *)
(* result is read off a click, a disabled button or a lost order            *)
(* (_product_is_owned, _confirm_checkout_success). Only the cart's success  *)
(* page is taken to speak for every game whose button was clicked.          *)
UnownedRecordIsPresumed == Recorded \ Owned \subseteq presumed

(* A claim run succeeds only when the account owns every game of the cycle, *)
(* over however many attempts they came in (mark_cycle_complete_if_ready),  *)
(* but for games that the cart's success page was taken to speak for.       *)
UnownedSuccessIsPresumed ==
  run.state = "succeeded" /\ run.mode = "claim" => Title \subseteq Owned \cup presumed

(* Between attempts and at the end, every game recorded as claimed is in    *)
(* the history table, whatever error came after it (the successes are       *)
(* reported before run_task looks for a reason to retry).                   *)
ClaimsReachHistory == AtTask("idle") => Recorded \subseteq history

(* The same as long as no attempt runs into its hard timeout and the web    *)
(* process answers.                                                         *)
ClaimsReachHistoryInTime ==
  mishaps = [timeouts |-> 0, reports |-> 0] => ClaimsReachHistory

(* An account that Epic refused for good is not tried again: the kinds of    *)
(* error that nuke an account leave no way to a further attempt, unless the *)
(* browser hangs after it told of them.                                     *)
FatalIsFinal ==
  task.fatal /\ AtTask("idle") /\ mishaps.timeouts = 0 => run.state \in Verdict

(* An account that owns every game when the browser finds nothing to claim  *)
(* ends as a success.                                                       *)
OwnedRunsSucceed ==
  run.state = "manual_required" /\ task.owned => ~ (Title \subseteq Owned)

(* Every run ends: the retries of all kinds together are finite, and no     *)
(* sequence of lines leaves the worker without a branch to take.            *)
RunEnds == <>(run.state \in Verdict)

(* The run, as its budget of retries sees it. *)
Phase ==
  IF ~ AtTask("idle") THEN "attempt"
  ELSE IF run.state \in Verdict THEN "closed" ELSE "waiting"

Left == [k \in RetryKind |-> RetryLimit[k] - run.retries[k]]

Budget == INSTANCE RetryBudget
  WITH Kind <- RetryKind, Limit <- RetryLimit, phase <- Phase, left <- Left

(* Every further attempt is paid for out of the limits of                   *)
(* schedule_failure_retry, and a verdict is final.                          *)
RetriesArePaidFor == Budget!BudgetSpec

(* The run as Worker has it: with one counter of retries, which cannot pass *)
(* the sum of the limits.                                                   *)
Retries(limit) ==
  {c \in (RetryKind \ {"partial"}) \X (1 .. 2) : c[2] <= limit[c[1]]}

Call == INSTANCE Attempts WITH
  GameState <- GameStatus,
  MaxRetries <- Cardinality(Retries(RetryLimit)),
  called <- ~ AtTask("idle"),
  state <- IF run.state \in {"queued", "deferred"} THEN "waiting" ELSE run.state,
  mode <- run.mode,
  expected <- Title,
  retries <- Cardinality(Retries(run.retries)),
  results <- run.results,
  games <- task.results

(* The outcomes that Worker lets run_task have are all that the browser's   *)
(* output and the retry policies can lead to.                               *)
KeepsToAttempts == Call!AttemptsSpec

=============================================================================
