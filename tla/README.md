# A verification project for epic-awesome-gamer

The repository is a kiosk that claims the weekly free games of the Epic store
for the accounts its users deposit.  This directory holds TLA+ models of its
core, the TLC configurations that check them, and proofs checked by TLAPS.
Everything is translated from the source: `PROJECT.json` gives, for every
definition, the lines it stands for.

## 1. Inventory

| Component | State | Operations | Interacts with |
|---|---|---|---|
| SQLite store (`app/secure_store.py`) | `accounts`, `task_runs`, `pending_credentials`, `task_game_results`, `promotion_state`, `claim_cycle_assignments`, `claim_cycle_completions` | create, load, update and confirm a run; record results; activate, assign, cancel and complete a cycle; delete an account | opened by the web process and by the worker, one short connection per call |
| Redis keys | `task_queue`, `task_scheduled_queue`, `task_retry_queue`, `task_lock:<account>`, `retry_pending:<run>` | single commands | the only channel from the web process to the worker |
| Web requests (`main.py`) | none between requests | deposit, confirm, delete, nuke | thread pool: several requests at once |
| Promotion refresh (`main.py`) | its own lock | hourly: new cycle, cancel, assign, write to Redis | races with the worker's dispatch |
| Worker loop (`worker.py`) | one run at a time | dispatch scheduled runs, move retries, `BLPOP`, execute, finish | asks the web process to delete accounts |
| Run outcome (`worker.py` `run_task`) | retry counters in `retry_data`, results, locals of an attempt | parse the browser's output, report, retry, give up, complete | browser's output; store, queues, `report_game` |
| WARP probe and recycling (`main.py`) | Redis hashes and keys with TTLs: failures in a row, cooldowns, a cursor | every ten minutes: probe all egresses, restart some; every six hours: restart the next one while nothing runs | the worker's runs use the egresses; supervisor of the container |
| WARP egress control of the worker (`worker.py`) | the egress of a run, in `retry_data`; a cooldown mark in Redis | check the egress before an attempt, recover it, move on after a network error | container's control interface, Docker |
| Process control (`worker.py`) | child processes | read output under a deadline, kill, reap | browser |
| Profile sweep (`main.py`) | directories of profiles, and a trash of them | move to the trash what no row names, purge what is old | races with deposits, confirmations, deletions and runs |
| Abuse limits (`main.py`) | rate counters, bans | middleware | none |
| Provider router (`app/provider_router.py`, `app/settings.py`) | per process: failures, circuits, services excluded; in Redis: a second circuit | one request along a chain of services under one deadline | captcha solvers; concurrent calls; later processes |
| Browser process: login, checkout, entry (`app/services`, `app/deploy.py`) | page, order history, outcome of each game | log in, look at the orders, claim one game after the other, buy the cart | Epic; the worker, through lines of text only |
| Migration and rollback (`scripts/`) | database, profiles, quarantine, an encrypted backup and a manifest | move everything to sealed credentials and uuids, and back | none: the services are stopped |

What is hard here:

* SQLite and Redis are written one after the other and never together, so a
  crash or a failed command leaves them apart.
* Python's `sqlite3` opens a transaction at the first write of a connection: a
  function that selects and then writes has read outside of its transaction.
* The account's lock is taken by deposits and by the dispatcher, taken again by
  the worker, and dropped in seven places, some of them under an address that
  has changed meanwhile.
* A retry leaves the lock on purpose, and `retry_pending` tells the end of the
  run so.
* An account can be deleted, by its user or on the worker's request, at any time.
* The worker knows of an attempt only what it finds in the browser's log.  Some
  twenty phrases set a handful of variables, later lines win over earlier ones,
  and the attempt may end after any of them.
* Epic completes an order in its own time, and the order history may be out of
  reach: an attempt can end before the game it claimed is there to be seen.
* A run is several attempts, which look at different sets of games and share
  only the counters, the results and the target games in the store.
* Two jobs of the web process and the worker restart the same egresses, each
  with a cooldown of its own, one written before the restart and one after.
* The sweep looks at locks, tables and directories one after the other while
  profiles are created, used and deleted.
* Calls to model services share failure counters in memory and in Redis, and a
  chain of services has to share one deadline.
* No transaction spans the database and the tree of profiles that the migration
  and the rollback change; either may fail or die at any step, and be started
  again.

What makes each part correct is stated in section 4; `PROJECT.json` lists the
hazards one by one with the properties that cover them, or why none does.

## 2. Modules

    SecureStore ── RedisQueues ─┬─ WebApp ─┐
         │                      └─ Worker ─┴─ Kiosk ─┬─ MCKiosk
         ├─ MCSecureStore                            │
         └─ SecureStoreProofs ───────────────────────┴─ KioskProofs

    BrowserTask ── RunTask ─┬─ MCRunTask
                      :     └─ RunTaskProofs
                 RetryBudget   (abstract: RunTask implements it)

    Attempts     (abstract: what a call of run_task may do to its run;
                  implemented by RunTask, and for every run by Kiosk)

    WarpEgress ───┬─ MCUpkeep
    WarpRecovery ─┤
    ProfileSweep ─┘        each with its proofs: WarpEgressProofs,
                           WarpRecoveryProofs, ProfileSweepProofs

    ProviderRouter ─┬─ MCProviderRouter      Migration ─┬─ MCMigration
                    └─ ProviderRouterProofs             └─ MigrationProofs

**SecureStore** is the store under any client.  Its actions are the
transactions.  Where a function reads before its first write, the model has an
operator for what is read (`ObsoleteRuns`, `Unassigned`, `CycleReady`,
`TaskContext`) and an action, with that as its parameter, for what is written
(`CancelObsoleteScheduledRuns(S)`, `CreateCycleAssignments(c, due)`,
`MarkCycleComplete(r, a)`, `ConfirmPendingAccount(r, a)`).  `StoreNext` passes
on anything a client may have read at any earlier time.  It serves as the
abstract specification: `Kiosk` is checked and proved to implement `StoreSpec`.

* An address is a user and how often it was redacted, since `redacted_email` is
  a function of the address: deleting an account and registering again brings
  the same address back, and deleting it again gives the same placeholder.
* A credential and a profile are named by the run that brought them, as both
  are fresh random values.  A run's row carries the `profile_id` of its pending
  credential, which is chosen with the run and never changes.
* Passwords, tokens, times and messages are left out.  That a user knows the
  password or token is taken for granted: requests without them change nothing.

**RedisQueues** has the keys, the commands on them, and the budget of faults.
Redis is outside the sources; the commands are those the program issues.  A
command that raises may have been applied or not, unless the code goes on in the
same way after both.
Scores are left out: an entry that is not taken is one that is not due.

**WebApp** has the request handlers and the refresh job, cut wherever another
process can act between two transactions or commands.  `handler[t]` and
`refresh` hold what a request has read so far.  `Deposit` creates the run after
the check of the lock; `EnqueueTask`, `PushTask`, `EnqueueFails` and
`RejectDuplicate` are `_enqueue_task` and its caller.  `ReadSucceededRun`,
`ReadPending` and `SaveAccount` are one confirmation.  `RemoveAccount` and
`DropLock` (or `DropLockFails`) are `_perform_physical_delete`.  `ActivateCycle` to
`PersistScheduledRuns` are `refresh_promotion_cycle`.  In `Deposit` the checks
of lock and password stand with the insert: a lock that is taken in between is
found by `EnqueueTask`, and a password that changes in between only decides
whether the request goes on.

**Worker** has the loop: `TakeScheduled` to `RestoreScheduled` are
`move_due_scheduled_tasks`, `TakeRetry` and `PushRetry` are
`move_due_retry_tasks`, `PopTask` to `BeginTaskFails` and `Finish` are
`main_loop`, with `FailUnstarted` and `UnlockUnstarted` for a cycle that is over
and `FailUncaught` and `ReleaseUncaught` for its except clause; the rest is
`run_task`.  A retry is counted in the dict before it is scheduled
(`worker.py:600, 668`): when a command raises after that (`RetryFails`), the
except clause writes the failed row with the counter of the attempt that may
never come (`SystemError`).  Any feedback may raise before it writes the row
(`FeedbackFails`).  The browser may report any results and end
in any outcome of `run_task`; there is one retry counter where the code has one
per kind of error.  `retries`, `games` and `email` are the worker's own copies
(`task_data`, `game_results`), written back to the row as the code does.
`RecordResult` may come any number of times, also for a title that this attempt
has told of already, as a second look at the remaining games prints its result
again; it is no part of `WorkerStep`, because the browser owes nobody a result.
`LoadContext` joins `load_task_context` and `task_cycle_is_active`: only a
change of the active cycle could come between, and it commutes with the first.

**Kiosk** composes them: web steps leave the worker alone and the other way
round, and `RequestNuke` is the one call from the worker to a handler.  The
worker goes on when 5 seconds are over, so nothing orders its next steps and
those of the handler.

**BrowserTask** is the browser process of one attempt, the account at Epic, and
the pipe between browser and worker.  `epic` has for each game whether it is
in the cart, ordered or owned; `browser` has the place of the process (`login`,
`claim`, `games`, `checkout`, `cart`, `bought`), what it was handed in its environment, the games
it has still to look at and the outcome of the others; `pipe` has the lines
that the worker reacts to, and no others.  A line is a kind (one of the texts
`run_task` looks for), an error or a result, and a title.  What a page shows,
how a login or a dialog goes and how long anything takes are choices, so every
order of lines that the sources can produce is there.  `browser.slow` bounds how
often a login tells of a wait that it got over.  Modelled of Epic: an order
completes at any time or never (`EpicDelivers`), and order history, product page
and the success page of a single checkout show only what is owned.

The cart is another matter, and the model follows the code in it.  The click that
puts a game into the cart is not verified (`AddToCart`: it may be lost),
`_empty_cart` may take a game out again and Epic may take no order
(`CheckOutCart`), and the cart's success page makes the browser tell every game
whose button was clicked as claimed (`BuyCart`), also one that was not in that
cart.  `presumed` is a history variable with those games.

**RunTask** is `run_task` over all attempts of one run, from the row `queued` to
its verdict, with the queues, locks and delays of `Worker` left out: a run that
waits for a retry may start again at any time.  `run` is the row of `task_runs`
with its results, target games and retry counters, `task` has the locals of
the attempt, `history` the titles in the table `logs`.  One action reads one
line (`ReadError` to `ReadCredentials`); `ReportSuccess` is the loop of
`report_success`, which comes before any decision; each branch after it is an
action (`RetryForError` to `FinishPlain`), whose guards exclude each other as
the early returns do.  `HardTimeout` is `TimeoutExpired`.  `Worker` keeps its
own, coarser picture of the same function: any results, any outcome, one
counter.  `Attempts` says what the two pictures have in common.

**RetryBudget** is what the retry policies promise: an attempt after the first
is paid for with one unit, at least, of a budget per kind of error.  `RunTask` is
checked and proved to implement it (`Phase` and `Left` are the mapping).

**Attempts** is what a call of `run_task` may do to the run it was called for,
whatever happens to that run in between: begin with an empty dict, record games
of its cycle if it is a claim run, and settle the state once, as a counted
further attempt, a failure, a verified account, or a claimed cycle.  Claimed
means that no game of this call failed and every title of the cycle is recorded
as claimed or owned, in whichever call.  Between calls the others may set the
state, and never to a success.  `RunTask` implements it with one run and the
browser's whole output (`KeepsToAttempts`); the kiosk implements it for every
run at once, with queues, locks, other processes and faults
(`CallsKeepToAttempts`).  So the two pictures of `run_task` agree on what the
rest of the program can see of a call.  `RunTask` counts several retries per
error where `Worker` has one counter; the mapping adds them up.

`Cancel` was not there at first.  With two cycles and one Redis failure TLC
found a run that the refresh job had selected as obsolete, that the worker then
dispatched and began, and that the job marked failed while its browser was at
work: the UPDATE of `cancel_obsolete_scheduled_runs` does not look at the state
again (`secure_store.py:630-643`).  The call goes on and writes its own outcome
over it.  `Attempts` allows exactly this, and for claim runs only; a run that
verifies an account is never disturbed.

**WarpEgress** has `probe_warp_egresses` and `recycle_warp_egress`, coroutines
of one event loop that give way only where they await a probe or a restart.
`SendProbes` sends the probes of a round and `GatherProbes` has their answers; an
egress may go down or come up in between, and what it answered then is stale
(`MayAnswer`: it has failed for sure only if it was down all the while).  `BeginProbeRestart` and
`ProbeRestartEnds` are one restart before and after its await,
`BeginRecycle` and `RecycleAccepted` or `RecycleRefused` that of the recycling.
A tick (`ProbeTick`) is the interval of the probe, and cooldowns are the ticks
they have left.  One run of the worker, with its lock, stands for all of them:
the recycling asks only whether there is any.  `hidden` marks a run that the
recycling could not see, as it came after the look at the locks or had lost its
lock to a deletion.  What the worker does to an egress is one of the ways in
which its health changes; `WebCrash` is a restart of the web process.

**WarpRecovery** is the worker's side of it, for the one run it works on:
`CheckPasses` to `CheckGivesUp` are `ensure_warp_ready`, `ControlAccepted` to
`RecoveryFails` are `restart_warp_container`, and `RetryNetwork` and
`RetryOther` say which egress the next attempt gets.  Without a configured proxy
all of it returns at once, which is left out.

**ProfileSweep** is `sweep_orphan_profiles`, cut at its look at the locks, its
two SELECTs, its listing of the directory and its moves, among the requests and
runs that create, use and remove profiles (`People`).  A profile stands for its
account, and `row` for the tables that name it: a deposit for an account reuses
its profile, and then both do.  A run may be confirmed before the worker has come
to its finally clause.  `disturbed` holds the profiles that a deposit, a
confirmation or a run dealt with after the look at the locks, and all of them
when a SELECT has failed, which the code takes for an empty table.

**ProviderRouter** is `ProviderRouter.request` with its callers in
`app/settings.py`.  `StartCaptcha` filters the chain by what this process and
Redis know of its services, `Proceed` is the loop's way to the next service, and
`Answer`, `Reject` and `Fail` are what a service may do, together with what is
recorded of it in memory and in Redis.  A step is what the event loop does
between two awaits, synchronous Redis commands included; each list of those
commands may end early when Redis fails.  Deadlines, circuits and TTLs are the
ticks they have left.  `NewProcess` is the browser process of the next run, which
has nothing but Redis.  Calls that are not for a captcha have one service and no
filter.  That service is mirrored in Redis too, where nothing looks for it, and
`patched_generate`'s switch to a fallback model has no effect on a structured
call, since the router puts the model of the service into it: both are left out.

**Migration** has both scripts, one action per step: `PlanMigration` to the end
of `migrate_secure_storage.py`, with the undoing of its moves, and
`PlanRollback` to the end of `rollback_secure_storage.py`, with that of its own.
Every step may fail instead (`Fault`), also while moves are undone, and the
process may die after any (`Crash`); then either script may be started again.  A
directory is known by the name it had first, `at` says where it is.  `Verify` is
the last look at the rows, outside the try block: it finds the rows that the
UPDATE missed, as it looks for the normalized address and an old row may have its
address as it was typed (`normal` is false then), and it may fail by itself.  The
variables of a script are lost with it, an open transaction is rolled back, and
backup and manifest stay.

Definitions that begin with "Mutated form" in their comment are faulty
variants of the definition that follows or is near them, used to see that each
property notices a fault.  No action uses them.

## 3. Runs

All runs take seconds to four minutes with two workers; `run_claims` and
`run_errors` are the largest, with 900,000 and 700,000 states.

| Run | Question | Bounds |
|---|---|---|
| `store_any_client` | Do the store's invariants hold whatever its clients do, and is a cycle claimed once? | 2 users, 3 runs, 2 cycles, 1 game, each address redacted once |
| `kiosk_faults` | With failures: is no run forgotten, are verdicts and completions sound, is every step one of `StoreSpec`, does each call keep to `Attempts`? | 1 user, 2 runs, 2 cycles, 1 deposit, 1 retry; any two of a Redis failure, a crash and a deletion |
| `kiosk_dedup` | Does one account have one run in flight? | 2 request threads, 3 runs, 2 deposits, 1 retry, no fault |
| `kiosk_liveness` | Do scheduled runs survive a crash, and a change of cycle? | 3 runs, 2 cycles, 1 deposit, one crash |
| `kiosk_retries` | Do retried runs end and give the lock back? | 2 runs, 2 retries, results claimed or failed; one expired lock, one expired credential |
| `run_claims` | Can anything but the cart's success page record a game that is not owned, or let a run succeed without it; do claims reach the history; does each call keep to `Attempts`? | 2 games, unknown errors at login, claims broken off by timeouts of pages or elements; all retry limits as in the code |
| `run_errors` | Does every run end, is every further attempt paid for, is a refused account left alone? | 1 game, 4 login errors, 5 claim errors, 1 hard timeout, 1 lost report |
| `migration` | Is every profile kept apart and given back, whichever step fails, also after crashes? | 2 addresses, 3 uuids, 2 migrations, any number of rollbacks; one failing step per script, 2 crashes; every mixture of old, half treated and sealed accounts and of addresses not normalized at the start |
| `providers` | Do deadline and circuits hold for concurrent calls and over several processes, and does every service come back? | chain of 2 and the plain service, each of them configured, 2 calls at once; threshold 3, circuit of 2 ticks, deadline of 1; one Redis failure |
| `upkeep` | Do probe, recycling and recovery restart what they should and nothing else; does the sweep take what nobody uses and only that? | 2 egresses, 2 failures before a restart, one restart per round, cooldown 2, one crash; 3 checks, 2 requests to the control interface, one restart of the container, 2 retries; 2 profiles |
| `kiosk_ghost`, `run_owned` | sentences of the repository that the code does not keep | see section 6; 1 game |

Why these bounds are enough:

* One user suffices wherever locks and queues are concerned: locks are per
  account, and the worker treats runs one at a time.  Two users are needed for
  `UserIsolation`, and `store_any_client` has them.
* Two runs make a claim run and a verify run of one account, three add a second
  deposit.  In `store_any_client` three are enough for a second registration: a
  confirmation that read its run before the account was deleted brings the
  address back, and the third run is what a cycle could be claimed with twice.
* One game decides whether a cycle is complete, as the condition is "every title".
* `MaxRemovals = 1`: an address is redacted once.  A deletion of the redacted
  address is refused at the bound like one of an account that does not exist.
* `FaultLimit` bounds each kind of fault.  Two faults of different kinds may
  come together in one behaviour, two of the same kind may not.  The theorems
  about safety hold for any bounds.
* Two cycles in `kiosk_faults` let a cycle end while its run is read, queued or
  executed; with one, `cancel_obsolete_scheduled_runs` has nothing to do there.
* When all of `Run` is used, the refresh job stays at its insert.  That is a cut
  of the model, which safety does not mind; the liveness runs have a run to
  spare for every assignment, so there it does not happen.
* Symmetry is used for users and cycles, for threads, for games, and for
  addresses and uuids, in safety runs only.
* Two games make the difference between all, some and none, for the cycle, for
  target games and for partial retries, and a title more or less in the order
  history.  `run_errors` asks about errors and counters, where one game tells
  success from failure.
* `LoginError` and `ClaimError` bound the errors of a run: every counter and every
  limit multiplies the states.  The runs have one error, or more, for each way
  the worker treats them: retried twice, once, once with a person to look after
  it, at once after a reset, not at all, or followed by the account's deletion.
  The theorems hold for all of them.
* `PipeSize = 1`: the browser writes when the pipe is empty.  A longer pipe only
  delays the worker, which decides nothing before the output ends, except for a
  refused password, after which the browser has nothing left to do, and a hard
  timeout, which may come at every line anyway.  The proofs hold for any size.
* Two addresses and three uuids let a migration give a new name to one account
  while the other has one already, or while the third name belongs to an orphan
  or to a migration before it.  Two migrations and two crashes make one that is
  started again over the remains of the first and dies as well.
* Two calls and a threshold of three are the code's proportions: fewer calls at
  once than failures that open a circuit, which `RouterCircuitIdle` is about.  A
  circuit outlasts a deadline, so that a call may begin and end within it.
* Two egresses suffice to tell the one being restarted from another, and to make
  one wait when the budget of a round is one.  A cooldown of two ticks spans the
  round after a restart, like the code's 15 minutes with a round in every ten.
  `Cooldown * RoundBudget >= WarpCount` is what `DownIsRestarted` needs; the
  code's defaults allow four egresses in that sense, see section 6.
* Two profiles: one the sweep may take while another is disturbed.
* `upkeep` checks three modules that share no variable, one of them (`focus`) in
  each behaviour.
* `HardTimeouts` and `LostReports` count over all attempts of the run.
* Deadlock is not checked: when users have made their requests the kiosk waits,
  and a run that has its verdict is over.

Fairness, in `KioskFairness`, and why the code justifies it:

* Weak fairness of the worker's steps, of each handler and of the refresh job:
  a process that is scheduled goes on.  Faults and requests have none.
* Weak fairness of `ActivateCycle`: the scheduler runs the job every hour, and
  its lock in Redis has a TTL.
* None of `RecordResult`: a browser need not tell of any game.
* Strong fairness of taking a due scheduled run, a due retry, and a queued run,
  each as a whole: every turn of the loop first empties both sorted sets of what
  is due and then pops.  It is not assumed of one particular run.

Fairness, in `RunTaskFairness`: a run that waits is started (what `Worker`'s
loop does, and `RunsEnd` is about); the worker reads on and decides; and the
browser goes on, or is killed by `TASK_TIMEOUT_SECONDS`: the deadline in
`iter_process_output` is what justifies it of a process that hangs.  Nothing is
assumed of Epic or of any outcome.

Fairness of the others, each weak:

* `WarpFairness`: the scheduler runs the probe once in a tick, and its requests
  and restarts have time-outs.  Nothing is assumed of the recycling, which any
  run in flight may keep from acting.
* `RecoveryFairness`: every request, poll and wait of the worker has a time-out.
  An egress may change at any time.
* `SweepFairness`: a sweep that has begun goes on, and time passes.  That a sweep
  begins at all is a premise of `LeftoversGo`, since it needs a moment without
  any task in flight.
* `ProviderFairness`: time passes, `asyncio.timeout` fires when a deadline is
  over, and the process of a run ends at the latest by its hard timeout.

In `MCUpkeep` each holds under its own `focus`.

## 4. Properties

In `SecureStore`: `NoCredentialAfterFailure` (a run that failed or waits for a
person keeps no password), `UserIsolation` (credential and browser profile of an
account were brought by the same user), `ReferencesMatch` (assignments and
completions mean what they say), `OneClaimRunPerCycle` (no second claim run in
a cycle, even after deletion and registration).  The last three relate four
tables that no single function keeps together.

In `Kiosk`, safety: `LockCoversWork`, `OneRunPerAccount`, `NoStrandedRun`,
`CompletionSound`, `VerdictStands` (no step takes back a verification the user
was told of), and `StoreSpec` (every step of the whole is a transaction the
store allows, so that what is proved of `StoreSpec` holds of the kiosk), and
`CallsKeepToAttempts` (what a run has been through, calls that died included, is
what `Attempts` allows).  Several of them begin with `Never(...)`, the faults under
which the code does not keep them:

* with an expired lock, a Redis failure, a crash or a deletion, one account can
  have two runs in flight;
* with a crash or a Redis failure a run can be lost between two queues, and the
  code repairs this for scheduled runs only.

In `Kiosk`, liveness: `RunsEnd`, `LocksAreReleased`, `ScheduledRunsComeBack`
(after any crash, thanks to the hourly refresh), `ScheduledRunsMoveOn` (not
after a crash: a dead process may leave the account locked for 2.5 hours; the
model has no clock and lets that lock stay).  The number of deposits is bounded,
so a scheduled run does get its turn; with deposits that never stop it need not,
because the dispatcher only asks once a minute whether the lock is free.

In `RunTask`: `UnownedRecordIsPresumed` (a game recorded as claimed or owned is
in the library, unless the cart's success page came without it: no click, no
disabled button, no late order and no stale line of an earlier attempt can do
it), `UnownedSuccessIsPresumed` (the same of a claim run that succeeds and the
games of its cycle, over however many attempts), `ClaimsReachHistoryInTime` (no retry
and no error loses a claim from the user's history, short of a hard timeout or
a web process out of reach), `FatalIsFinal` (an account that Epic refused is
not tried again), `RunEnds`, `RetriesArePaidFor` (`RetryBudget`), and
`KeepsToAttempts`.

In `WarpEgress`: `RecycleSparesRuns` (the preventive restart takes the egress of
no run it could see, through queueing, retries and deletions, although the
restart is awaited for up to 90 seconds), `ProbeNeedsRow` (one failed probe
restarts nothing, whatever was restarted or crashed in between), `RestartsApart`
(a reported restart protects the egress from both jobs for its cooldown), and
`DownIsRestarted` (liveness).  In `WarpRecovery`: `ContainerSpared` (the nested
retries do not multiply the restarts that disturb every egress), and `ChecksEnd`
(liveness: an egress out of reach does not hold the only worker).

In `ProfileSweep`: `SweepSparesProfiles` (a profile that a row names or a locked
run uses is taken only if a request dealt with it after the sweep's look at the
locks, or SQLite failed), and `LeftoversGo` (liveness: a profile with a user's
login does not stay once nothing refers to it).

In `ProviderRouter`: `BudgetKept` (no chain of hanging services outlasts the
deadline), `RouterCircuitIdle` (the router's own circuits never act on captcha
services, as `settings` excludes a service first), `CircuitGuards` (three
failures in a row, in whatever processes, keep a service out until its time is
over, unless Redis missed an event of it), and `ProvidersComeBack` (liveness).

In `Migration`: `ProfilesApart` (no directory is moved onto another one),
`MigrationKeepsProfiles` (a migration that ended, well or not, leaves every
account the profile it had), `FailedMigrationUndone` (what fails within the try
block is undone but for committed profiles; what fails in the last look at the
rows has moved the orphans, to its own quarantine, and nothing else),
`NoAddressOnDisk`
(what the migration is for), and `RollbackRestores` (rows and directories are
what they were when the backup was made, also after scripts that died).

## 5. Proofs

`SecureStoreProofs` proves the five theorems `StoreTypeCorrect`,
`CredentialsAreDropped`, `UsersAreIsolated`, `ReferencesAlwaysMatch` and
`CyclesAreClaimedOnce` of `StoreSpec` for any sets of users, runs, cycles and
titles, finite or not, and any bounds.  The only assumption is
`StoreAssumption`: the constants have their types and `None` is none of their
values.

The invariant that carries them is `StoreIInv`:

* `StoreTypeOK`;
* `PendingMatch`: a pending credential belongs to a verify run that did not
  fail.  `NoCredentialAfterFailure` alone is not inductive, because
  `cancel_obsolete_scheduled_runs` writes `failed` without dropping a
  credential: it only ever meets runs of a cycle, and those are claim runs;
* `CycleRunsClaim`: only claim runs have a cycle, which is what that step needs;
* `ProfileMatch`: the profile a verify run brings belongs to its user, although
  it may be one that an earlier run of the same user made;
* `UserIsolation`, which `ProfileMatch` needs where a run reuses the profile of
  the account, and which needs `ProfileMatch` where a confirmation inserts it;
* `ReferencesMatch`;
* `AssignedOnce`: a claim run of an address that was never redacted is the one
  assigned for its cycle.  `OneClaimRunPerCycle` follows at once.

Each conjunct has its own step lemma.  `RunsPersist` says what no step changes of
an existing run, `RunsAppear` where new runs come from, `AccountsPersist` that
only its deletion takes an account away; the step lemmas stand on these three.

`KioskProofs` proves `KioskTypeCorrect`, `KioskImplementsStore`
(`KioskSpec => StoreSpec`) and, with the theorems above, `KioskKeepsStore`, for any
number of users, runs, threads and faults.  To `StoreAssumption` come
`FaultAssumption` (the bounds of faults are numbers) and `KioskAssumption` (the two
processes write every state of a run, and `None` is no address).  A step of a process is a step of the
store only if what it passes on is what a client may have read, often several
steps ago and before other processes' writes.  `KioskIInv` says that of all that
is remembered: `QueueKnown` and `KeysKnown` (queued runs exist), `HandlersKnow` (a
handler that confirms has a verify run and an address of one user; one that
deletes an account it may redact), `RefreshKnows` (what the job will cancel are
runs of a cycle, which needs `ReferencesMatch` where it selects them) and
`WorkerKnows` (the worker has a run, its address where it locks it, a retry left
where it counts one, and the owner of a cycle's run where it completes it).
`KnowledgeLasts` is why this stays true while others write: no step of the store
takes a run away or changes its mode, cycle or user.

It also proves `LocksCoverWork` and `OneRunForAccount`, from the same assumptions.
A lock has no owner in the code: it is a key, set by one process and deleted by
another, often several steps and queues later.  So the invariant `LockIInv` says
who holds an address: an entry of `task_queue`, one of `task_retry_queue`, a
handler before its RPUSH, and the worker (`WorkerHolds`) until it ends the run or
has put it back.  `LocksHeld` says that every holder's address is locked,
`HoldersApart` that no two holders share one; each step takes, passes on or gives
up one holding, so each has its lemma (`HandlerLocks`, `WorkerHandsOver`,
`WorkerUnlocks` and so on).  `WorkerMail` and `HandlersQuiet` say that a process
uses the address of its run, which only a deletion would change, and `MarksTell`
that `retry_pending` is set exactly when the run is in a queue again, so that the
finally clause of `main_loop` keeps the lock then and only then.  All of this is
claimed while no lock has expired, no command failed, no process died and no
account was deleted (`Clear`); a deletion, for one, drops the lock of a run in flight.

Three more theorems are `NoRunIsStranded`, `CompletionsAreSound` and
`VerdictsStand`.  They are about what happens to one run between its creation and
its end, which nothing in the code keeps together: its state is in the database,
its entries are in three queues, and handlers, refresh job and worker each hold
copies.  The invariant `LedgerIInv` is the ledger of every run:

* `OneHolder`, `EntriesOnce` and `SendersApart`: a run is with the handler that
  created it, in one queue, or with the worker.  When the reply to a push is
  lost, a scheduled run is dispatched again and has two entries; nobody pushes a
  verify run again, so for these it holds in any case;
* `DispatchedOnce`: a scheduled run that still has its assignment is in no queue
  but the sorted set, so the worker does not dispatch what it is executing;
* `VerdictKept`: a verified run is nowhere but with the worker in its finally
  clause.  `VerdictStands` follows for every step and every fault: whoever could
  change the state of a run would have to hold it;
* `Remembered` and `Placed`: an unsettled run is in a queue or in somebody's
  hands; a scheduled one has its assignment and is in the sorted set, with the
  worker, or with the refresh job, which has still to read it or to write it
  there.  That gives `NoStrandedRun`, unless a process dies or Redis fails
  (`Calm`), for scheduled runs also unless an account is deleted
  (`Undisturbed`);
* `RetryQueued`: the row is changed for a retry only after the run was pushed;
* `CompleterRests`: a run that has completed its cycle has every game recorded,
  is in no queue, and is not read again by a worker that could record something
  else.  That gives `CompletionSound`, as no later attempt overwrites a result.

`Origin`, `NoDeletion` and `IdleHasNone` say where runs come from and when nobody
has one.  Each action has lemmas for the conjuncts it disturbs; where it leaves the
run alone, `RunsStay`, `StateStays` and `AssignmentStays` carry the rest.

The last theorem, `CallsKeepToTheirRuns`, is that the kiosk implements
`Attempts` for each of its runs (`KioskSpec => CallsKeepToAttempts`).  A call works on
copies: the counter it counts on was read before the call began, the games it
decides about are in a dict of the process, and it asks whether the cycle is
complete several steps before it writes the success.  All the while requests,
the refresh job and time go on writing to the same tables.  The invariant
`CallIInv` adds to `LedgerIInv` what a call may rely on:

* `DictIsOwn`: outside of a call the dict is empty, so a call never decides by
  the games of an earlier one;
* `CopyIsCurrent`: from the moment the worker has loaded the context until it
  settles the run, its copy of the counter is the row's, or one ahead of it when
  a retry was counted and scheduling it failed;
* `SuccessIsFound`: what makes the run succeed is still true when it is written.
  `ClaimDone` reads the results and the active cycle, `CompleteCycle` inserts the
  completion and `Succeed` writes the state, three transactions of their own.

Every step of the others leaves a run as it was, creates it, or marks it failed
(`ElsewhereMoves`), and only the run of a claim can be marked so while a call is on:
a duplicate that a handler rejects is still the handler's own, by `OneHolder`.

`RunTaskProofs` proves of `RunTaskSpec`, for any finite set of games, any errors
and any bounds: `RunTypeCorrect` (with the retry limits), `RecordsAreTrue`,
`SuccessIsEarned`, `ClaimsAreReported`, `RefusalIsFinal`, and two refinements,
`RetriesArePaid` (`RetryBudget`) and `CallsKeepToTheirRun` (`Attempts`).  The assumptions are `BrowserAssumption` (the games
are finitely many, as lines are written for a set of them, and `None` is none
of the values) and `RunTaskAssumption`.  The invariant is `RunIInv`:

* `RunTaskTypeOK`;
* `LinesAreTrue`: a line in the pipe that tells of a claimed or owned game is
  true or was presumed, which carries what the browser saw over to the worker;
* `UnownedRecordIsPresumed`, inductive with it, since nothing takes a game away;
* `RefusedFirst`: the lines of a failed login are in the pipe only when the
  browser has ended in its login, with no result read and none to be read.
  `ReadCredentials` leaves `run_task` without reporting, so a recorded game
  would be missing from the history if a result could come before it;
* `RunningIsRun`: the row says `running` exactly while `run_task` is at work, so
  that a verdict is not given while results are still read;
* `CheckoutHasGame`: a checkout is for one of the games;
* `ClaimsAreAtHand`: a recorded game is in the history or among the results of
  the attempt that is not yet reported.  `ClaimsReachHistoryInTime` is the part
  of it that is left when no attempt is on;
* `UnownedSuccessIsPresumed`, which needs the one before where the worker asks
  whether the cycle is complete.

Each action of browser and worker has its own step lemma.  `RefusalIsFinal`
stands on `RunIInv` and `FatalIsLast`: when the worker knows of a refusal, the
browser has ended and left no result.  That matters because the partial retry,
unlike every other one, does not ask whether an error was fatal.
`RetriesArePaid` maps every step to one of `RetryBudget` or to a stutter, with
the invariant before and after the step.  `CallsKeepToTheirRun` does the same for
`Attempts`, whose single counter is the number of retries recorded over all
kinds of error (`Retries`): lemmas about the cardinality of that set say that a
counted retry adds exactly one and that the policies bound the sum.

`WarpEgressProofs` proves `WarpTypeCorrect`, `RecyclingSparesRuns`,
`ProbingNeedsRow` and `RestartsKeepApart` for any number of egresses and any
thresholds, from `WarpAssumption` (numbers, and at least one egress and one
failure).  The invariant is `WarpIInv`: `WarpTypeOK`; `UnlockedIsHidden` (a run
without its lock is one the recycling cannot see) and `RecycleSparesRuns`;
`KeyComesFirst` (the probe sets the cooldown before it waits for its restart) and
`KeyOutlasts` (the key lives at least as long as the cooldown of a reported
restart), which give `RestartsApart`; and `StreakIsFresh` (a streak belongs to an
egress that failed in the last round), which gives `ProbeNeedsRow`.

`WarpRecoveryProofs` proves `RecoveryTypeCorrect` and `ContainerIsSpared` for any
number of egresses and any limits, from `RecoveryAssumption` (numbers, and at
least one egress, check and control request).  `ContainerSpared` is not inductive:
it is bounded by the retries of the run, while restarts happen three loops below.
The invariant `RecoveryIInv` keeps the account: `RestartsArePaid` counts the
recoveries that are over by where the run is (a retry stands for the check before
it, a move for the network error that caused it) and adds the restarts of the one
under way; `RecoveredOnce` (a check has one recovery), `RoomToResume` (a recovery
has a check or a retry left to go back to), `FallsAtHand` and `MovesAreRetries`
say that no step is counted twice or not at all.

`ProfileSweepProofs` proves `SweepTypeCorrect` and `SweepingSparesProfiles` for
any set of profiles, with no assumption.  A profile left alone gets no lock and
enters no table; it can only lose a row or its run.  So what the sweep
saw once stays true, as `SweepIInv` says step by step of its reads:
`LeftAloneUnlocked` (after the look at the locks), `AccountsKnown` and
`PendingKnown` (after each table) and `TodoUnnamed` (after the listing).

`ProviderRouterProofs` proves `ProviderTypeCorrect`, `BudgetIsKept`,
`RouterCircuitStaysIdle` and `CircuitAlwaysGuards` for any chain, keys,
thresholds, times and finite set of calls, from `ProviderAssumption`.  The
invariant is `ProviderIInv`: `ProviderTypeOK`; `BudgetAddsUp` (what a call has
left and what it has lasted make up its budget); `CircuitLasts` (the TTL of a
circuit and the age of the last failure add up to its full time);
`ChainGoesDown` (a call turns to later services only, so it fails each at most
once); `FailuresCounted` (a service with a failure is excluded, and its failures
and the calls that can still fail it are no more than the calls there may be);
and `RouterCircuitIdle`, which `FailuresCounted` needs and implies in turn.

`MigrationProofs` proves `MigrationTypeCorrect`, `ProfilesStayApart`,
`ProfilesAreKept`, `FailuresAreUndone`, `AddressesAreGone` and `RollbacksRestore` for
any addresses, uuids and bounds, from `MigrationAssumption` (addresses are no uuids,
and `None` is none of the values).  For the first two, only the rollback moves
directories without another look at its targets, so the invariant `MigrationIInv` has, besides
`MigrationTypeOK` and `ProfilesApart`: `PlanIsSafe` (the targets of its plan are
free and differ); `ManifestParts` (no address is an account and an orphan of one
manifest), which is why they differ; `OrphansAreStrangers`, which carries that
from the plan of the migration to its manifest; `EveryoneIsMapped` and
`Prepared`, which say that what a script uses is there.

The last four compare the storage at the end of a script with what it was when the
latest backup was written, however many scripts have failed or died in between.
The invariant `MoveIInv` adds to `MigrationIInv`:

* `ManifestFits` and `BackupFits`: manifest and backup are about that storage; a
  new uuid is the name of nothing that was there, and the orphans are exactly the
  directories that no row named.  `PlanFits` carries that from the plan to the
  manifest, `AreasKnown` that the quarantine is a fresh one;
* `Located`: every directory is where it was, or where a move that the manifest
  names takes it (`Displaces`), or where undoing one takes it.  The lemma
  `MovesPair` is why this tells something: a place is the origin of at most one
  such move or the target of at most one, and never both;
* `MovesFit`, `HandsFit` and `CommitFits`: while a migration runs, what it has
  moved is noted in `moved` or `isolated` with its origin.  Before the commit all
  else is untouched and the rows are the old ones (`Uncommitted`), after it the
  profiles of the normalized addresses (`WasNormal`) have been renamed and their
  rows are sealed (`Committed`).  The last look at the rows begins there, so when
  it fails every directory that has moved is one of these or in `isolated`.  A failure of the
  undoing keeps its note, so the script ends as stuck and not as failed;
* `LoopsFit`: what the loops of quarantine and migration have still to treat is in
  `todo`, so at the end no orphan and no address is left in `user_data`;
* `RollbackFits`: what is not where it was (`Astray`) is in the plan of the
  rollback until it is moved back, and nothing is when the database is restored.
  This needs no promise of an earlier script, only `Located`, which is why a
  rollback also heals what a crash or a stuck migration left.

The four properties are conjuncts of it (`Results`), as nothing else tells of a
script that has ended.  TLC has checked `MoveIInv` on the instance of `MCMigration`
before the proof.

Type invariants are shown by their theorems, for every module; only that of the
kiosk is also part of a run.

Every safety property and every action property of the passing runs is a
theorem.

Model-checked only: all liveness (`RunsEnd`, `LocksAreReleased`,
`ScheduledRunsComeBack`, `ScheduledRunsMoveOn`, `RunEnds`, `DownIsRestarted`,
`ChecksEnd`, `LeftoversGo`, `ProvidersComeBack`), which needs fairness and ENABLED,
that the provers do not treat.

## 6. Where the code and its text disagree

Two that runs show:

* `kiosk_ghost`: deleting an account removes its records (`README.md:178`).  A
  verification under way at that time can be confirmed afterwards, and its
  credential is saved under the redacted address.
* `run_owned`: that all games are in the library already is a success
  (`worker.py:1080`, `epic_games_service.py:49`).  The browser reports no result
  for a game it leaves out, so a first attempt that finds nothing to claim
  cannot complete the cycle and ends as `manual_required` (`worker.py:1764`).

The others were met while modelling and follow from the code they name.
Where a property depends on one, its statement or its run excludes it.

Runs:

* The worker may cancel a run of the active cycle with the message that the
  cycle has changed (`worker.py:734`).  The refresh job reads the scheduled
  runs, the worker dispatches one, and the job writes it to the sorted set again
  (`main.py:770`).  If it is still queued or running then, it is marked failed
  and is executed nevertheless.
* `_enqueue_task` is said to deduplicate queued and running work of an account
  (`main.py:213`).  A deletion drops the lock of a run in flight, and from then
  on runs drop each other's locks.  Without deletions and faults it is so
  (`OneRunPerAccount`).
* Games that succeeded are recorded first (`README.md:159`).  A browser that
  hangs after a claimed game is killed, and the handler of `TimeoutExpired`
  reports nothing (`worker.py:1806`).  The retry leaves the game out, as the
  order history has it by then, so it never gets there.
* A navigation timeout of the login page is to be retried as `page_timeout` and
  not to become an unknown error (the comment at `epic_games_service.py:615`).
  `_login` returns `UNKNOWN` for it (`epic_authorization_service.py:806`), and
  the run fails (`LoginPageTimesOut`, then `FailWithError`).
* `account_locked` is marked as an error that deletes the account
  (`worker.py:985-988, 1466`), but nothing does: the mark only stops retries.

* A failed row may count an attempt that was never made: the counter is raised
  before the retry is scheduled, and written when that fails.

The cart:

* A run is to be complete only when all games of the cycle are confirmed as
  claimed or owned (`worker.py:1715`), and games are not to be told as claimed
  that the user did not get (`epic_games_service.py:1097-1101`).  The cart's
  success page is taken to speak for every game whose cart button was clicked
  (`epic_games_service.py:1687-1691`).  With two such games and one lost click the
  other game is recorded as claimed, reported, and the cycle is complete.  The
  properties say that this is the only way to it.

Egresses:

* Probe and recycling are said not to get in each other's way (`main.py:1068`).
  The recycling sets the shared cooldown only after its restart was accepted, so
  the probe may restart the same egress while that restart is awaited.
* The probe restarts the first egresses of a round up to its budget
  (`main.py:909-912`), and those come up again after 15 minutes, in the
  second round after.  When more than four of the ten stay broken, the later
  ones are never restarted.  `DownIsRestarted` assumes that the rounds of one
  cooldown can restart them all, which the default values (ten egresses, two
  restarts in a round, 600 and 900 seconds) do not meet.
* The probe does not look at runs: it may restart an egress under one.
  `RecycleSparesRuns` is about the recycling only.
* The web process takes an egress for working when its trace says `warp=on`
  (`main.py:786-788`), the worker when it gets an answer (`worker.py:327`).
* The docstring of `ensure_warp_ready` says at most one recovery, the comment at
  its call five attempts (`worker.py:1373`): five checks and one recovery.

Services:

* The comment at `provider_router.py:135-136` ends a request at a rejected key
  since all services share one, while `README.md:106-114` and `.env.example`
  give the Gemini service a key of its own: a wrong one keeps the others from
  being asked.
* `request` catches time-outs and connection errors, but not a service that
  hangs up without an answer (`httpx.RemoteProtocolError`): there the next
  service is not tried and nothing is counted (`Reject`).

Migration:

* A rollback moves the profile of an account that was sealed before the
  migration to the account's address, where its restored row does not point
  (`rollback_secure_storage.py:101-107`); `RollbackRestores` leaves these out.
* After a crash of the migration with profiles already renamed, a second
  migration finds directories whose names no row knows and quarantines them as
  orphans.  A rollback of the first migration would have brought them back.
* The last look at the rows stands after the try block that undoes the moves
  (`migrate_secure_storage.py:290-292`).  When it raises, the script ends as
  failed with the rows committed and the orphans in quarantine.  An old address
  that is not as `normalize_email` writes it leads there in every case: the
  UPDATE does not find its row (`migrate_secure_storage.py:172`).
* When only the modes of the files cannot be set, after the commit, the
  quarantine is given back and the profiles stay renamed, as the rows say.

## 7. Not modelled, and the plan

Left out for good: pages and presentation, log files and redaction of log
lines, metrics, the model benchmark, installation and container files.
Container restarts enter as crashes.  Encryption, tokens and their expiry are
left out: they decide who may ask, not what happens then.  `retry_pending` and
the queues have TTLs or lifetimes beyond their use and do not expire in the
model.  An exception in `move_due_retry_tasks` leaves `main_loop` and restarts
the process; it is a `WorkerCrash`.

In the migration a move is one rename: the copy and removal between two file
systems (`migrate_secure_storage.py:99-104`) is not cut in two.  Of two old rows
that differ only in the spelling of one address only one would be found; the
model has no two such rows.

The abuse limits, the statistics and the pages keep state that no task reads.
The captcha solvers are sequences of clicks in a picture, whose retries are
bounded by the login that calls them; what they share, the model services, is in
`ProviderRouter`.  Of the settings only that state is modelled, the rest is
configuration.

Open:

* `RunTask` in place of `Worker`'s picture of `run_task`.  Both are proved to keep to
  `Attempts`; what `Attempts` does not tell (which error leads to which outcome,
  the history table) is known of one run by itself only, and `report_game` next to a
  deletion is in no model.
* The inside of what `BrowserTask` leaves to choice: the states of a checkout and of a
  login, with their retries and deadlines.
* The weighing of several promotion responses, and what a cycle that changes and
  changes back leaves over (`secure_store.py:572`: an assignment of the first
  time keeps its cancelled run).
* A bound on how often a run can be put off before it ends, which would be the
  safety part of `RunsEnd`.
