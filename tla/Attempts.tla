------------------------------ MODULE Attempts ------------------------------
(***************************************************************************)
(* What a call of worker.py's run_task may do to the run it was called     *)
(* for, whatever the rest of the program does to that run in between.      *)
(* RunTask, which has the browser's output and a counter per kind of       *)
(* error, and Worker, which has the queues, the locks, the other runs and  *)
(* the faults, both implement it.                                          *)
(***************************************************************************)
EXTENDS Integers

CONSTANTS
  Title,                 \* game titles
  GameState,             \* what may be recorded of a game
  SuccessfulGameStates,  \* the states of a game that is in the library
  MaxRetries,            \* retries that the policies pay for
  None

VARIABLES
  called,     \* a call of run_task has begun and not settled the run's state
  state,      \* of the row: "waiting" in any queue, or before there is a row
  mode,       \* "verify" or "claim", None before there is a row
  expected,   \* the titles of the run's cycle
  retries,    \* retries recorded in the row
  results,    \* task_game_results
  games       \* the game_results dict of the call

attemptVars == <<called, state, mode, expected, retries, results, games>>

NoGames == [t \in Title |-> None]

AttemptsInit ==
  /\ called = FALSE
  /\ state = "waiting"
  /\ mode \in {"verify", "claim", None}
  /\ expected \subseteq Title
  /\ retries = 0
  /\ results = NoGames
  /\ games = NoGames

(* The row is inserted. *)
Create ==
  /\ mode = None
  /\ mode' \in {"verify", "claim"}
  /\ expected' \subseteq Title
  /\ UNCHANGED <<called, state, retries, results, games>>

(* Between calls the scheduler, the loop and the request handlers set the   *)
(* state, and never to a success.                                           *)
SetBetween ==
  /\ ~ called
  /\ state' \in {"waiting", "failed"}
  /\ UNCHANGED <<called, mode, expected, retries, results, games>>

(* The run of a cycle that is over is cancelled.  Who does so has looked at *)
(* the run before: a call for it may have begun meanwhile, and goes on.     *)
Cancel ==
  /\ mode = "claim"
  /\ state' = "failed"
  /\ UNCHANGED <<called, mode, expected, retries, results, games>>

(* A call begins, with a dict of its own. *)
Begin ==
  /\ ~ called
  /\ games = NoGames
  /\ called' = TRUE
  /\ state' = "running"
  /\ UNCHANGED <<mode, expected, retries, results, games>>

(* Only a call for a claim run learns of games, and of games of its cycle. *)
Record(t, g) ==
  /\ called
  /\ mode = "claim"
  /\ t \in expected
  /\ results' = [results EXCEPT ![t] = g]
  /\ games' = [games EXCEPT ![t] = g]
  /\ UNCHANGED <<called, state, mode, expected, retries>>

(* A call settles the state; its dict goes at once or later. *)
Settle(s) ==
  /\ called
  /\ called' = FALSE
  /\ state' = s
  /\ games' \in {games, NoGames}
  /\ UNCHANGED <<mode, expected, results>>

(* A further attempt is counted, as long as there is one. *)
Retry ==
  /\ Settle("waiting")
  /\ retries < MaxRetries
  /\ retries' = retries + 1

GiveUp ==
  /\ Settle("failed") \/ Settle("manual_required")
  /\ UNCHANGED retries

(* An attempt is counted before it is scheduled: when that fails, the run   *)
(* is failed and the attempt may be counted.                                *)
FailToRetry ==
  /\ Settle("failed")
  /\ retries < MaxRetries
  /\ retries' = retries + 1

Verified ==
  /\ mode = "verify"
  /\ Settle("succeeded")
  /\ UNCHANGED retries

(* No game of this call failed, and every title of the cycle is recorded as *)
(* claimed or owned, in whichever call.                                     *)
Claimed ==
  /\ mode = "claim"
  /\ \A t \in Title : games[t] \in SuccessfulGameStates \cup {None}
  /\ \A t \in expected : results[t] \in SuccessfulGameStates
  /\ Settle("succeeded")
  /\ UNCHANGED retries

(* The call has returned, or dies with its process. *)
Forget ==
  /\ called' = FALSE
  /\ games' = NoGames
  /\ UNCHANGED <<state, mode, expected, retries, results>>

AttemptsNext ==
  \/ Create \/ SetBetween \/ Cancel \/ Begin
  \/ \E t \in Title, g \in GameState : Record(t, g)
  \/ Retry \/ GiveUp \/ FailToRetry \/ Verified \/ Claimed \/ Forget

AttemptsSpec == AttemptsInit /\ [][AttemptsNext]_attemptVars

=============================================================================
