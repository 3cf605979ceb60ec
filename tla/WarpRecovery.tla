---------------------------- MODULE WarpRecovery ----------------------------
(***************************************************************************)
(* What the worker does about the WARP egress of a run (worker.py): the    *)
(* choice of the egress, ensure_warp_ready before the browser starts, and  *)
(* restart_warp_for_retry after a network error.  Both use the recovery of *)
(* restart_warp_container: restarts of the one egress through the control  *)
(* interface, then the whole container.  There is one worker, and all of   *)
(* this blocks it.  Other causes, the jobs of WarpEgress among them, may   *)
(* change at any time what can be reached.                                 *)
(***************************************************************************)
EXTENDS Naturals

CONSTANTS
  ExitCount,      \* WARP_PROXY_COUNT
  Checks,         \* WARP_MAX_RETRIES
  ControlTries,   \* WARP_CONTROL_RESTART_RETRIES
  Fallbacks,      \* WARP_CONTAINER_FALLBACK_RESTARTS
  Retries         \* bound: retries of a run, over all errors

ASSUME RecoveryAssumption ==
  /\ ExitCount \in Nat \ {0} /\ Checks \in Nat \ {0} /\ ControlTries \in Nat \ {0}
  /\ Fallbacks \in Nat /\ Retries \in Nat

Exit == 0 .. ExitCount - 1

VARIABLES
  reach,    \* egresses that check_warp_proxy gets through
  attempt,  \* the worker's run, and where it is
  mark,     \* warp:last_restart_at, within WARP_RESTART_COOLDOWN_SECONDS
  spent     \* history: restarts of the container for this run

recoveryVars == <<reach, attempt, mark, spent>>

Purpose == {"check", "retry"}
Place == {"idle", "check", "control", "fallback", "running", "waiting"}
Attempt == [pc : Place, for : Purpose, at : Exit, moves : 0 .. Retries, retries : 0 .. Retries,
            checks : 0 .. Checks, recovered : BOOLEAN,
            tries : 0 .. ControlTries, falls : 0 .. Fallbacks]

(* Every variable has its type; no number of attempts is exceeded. *)
RecoveryTypeOK ==
  /\ reach \subseteq Exit
  /\ attempt \in Attempt
  /\ mark \subseteq Exit
  /\ spent \in Nat

NoAttempt == [pc |-> "idle", for |-> "check", at |-> 0, moves |-> 0, retries |-> 0,
              checks |-> 0, recovered |-> FALSE, tries |-> 0, falls |-> 0]

RecoveryInit ==
  /\ reach = Exit
  /\ attempt = NoAttempt
  /\ mark = {}
  /\ spent = 0

At(place) == attempt.pc = place

----------------------------------------------------------------------------
(* A new run goes to the egress of its address. *)
StartAttempt(e) ==
  /\ At("idle")
  /\ attempt' = [NoAttempt EXCEPT !.pc = "check", !.at = e, !.checks = 1]
  /\ spent' = 0
  /\ UNCHANGED <<reach, mark>>

(* A retry goes to the egress that retry_data names. *)
ResumeAttempt ==
  /\ At("waiting")
  /\ attempt' = [attempt EXCEPT !.pc = "check", !.checks = 1, !.recovered = FALSE]
  /\ UNCHANGED <<reach, mark, spent>>

CheckPasses ==
  /\ At("check")
  /\ attempt.at \in reach
  /\ attempt' = [attempt EXCEPT !.pc = "running", !.checks = 0, !.recovered = FALSE]
  /\ UNCHANGED <<reach, mark, spent>>

Recover(purpose) ==
  [attempt EXCEPT !.pc = "control", !.for = purpose, !.tries = 0, !.falls = 0]

(* Mutated form: polling after the recovery is not counted. *)
CheckFailsUncounted ==
  /\ At("check")
  /\ attempt.checks < Checks
  /\ attempt' = IF attempt.recovered THEN attempt ELSE Recover("check")
  /\ UNCHANGED <<reach, mark, spent>>

(* Mutated form: every failure starts a recovery. *)
CheckFailsRecovering ==
  /\ At("check")
  /\ attempt.checks < Checks
  /\ attempt' = Recover("check")
  /\ UNCHANGED <<reach, mark, spent>>

(* A check may fail although the egress works.  The first failure starts the *)
(* one recovery of this check.                                              *)
CheckFails ==
  /\ At("check")
  /\ attempt.checks < Checks
  /\ attempt' = IF attempt.recovered THEN [attempt EXCEPT !.checks = @ + 1]
                                     ELSE Recover("check")
  /\ UNCHANGED <<reach, mark, spent>>

(* warp_unavailable: the run fails. *)
CheckGivesUp ==
  /\ At("check")
  /\ attempt.checks = Checks
  /\ attempt' = NoAttempt
  /\ spent' = 0
  /\ UNCHANGED <<reach, mark>>

----------------------------------------------------------------------------
(* next_retry_warp_index; the run gives the worker back. *)
MoveOn ==
  [attempt EXCEPT !.pc = "waiting", !.at = (@ + 1) % ExitCount, !.moves = @ + 1,
                  !.retries = @ + 1, !.tries = 0, !.falls = 0]

(* The end of restart_warp_container.  Only a success marks the egress. *)
Resume(ok) ==
  IF attempt.for = "check"
    THEN /\ attempt' = [attempt EXCEPT !.pc = "check", !.recovered = TRUE, !.checks = @ + 1,
                                       !.tries = 0, !.falls = 0]
         /\ UNCHANGED mark
    ELSE /\ attempt' = MoveOn
         /\ mark' = IF ok THEN mark \cup {attempt.at} ELSE mark

(* Anything may come of a restart of one egress, and wait_for_warp_recovery *)
(* reports a success only if it gets through.                              *)
Restarted(ok) ==
  \E up \in BOOLEAN :
    /\ ok => up
    /\ reach' = IF up THEN reach \cup {attempt.at} ELSE reach \ {attempt.at}

Fall == attempt' = [attempt EXCEPT !.pc = "fallback"] /\ UNCHANGED mark

(* The control interface accepts: there is no second request. *)
ControlAccepted ==
  /\ At("control")
  /\ \E ok \in BOOLEAN : Restarted(ok) /\ (IF ok THEN Resume(TRUE) ELSE Fall)
  /\ UNCHANGED spent

(* A 5xx, or no answer; the restart may be under way nevertheless. *)
ControlRefused ==
  /\ At("control")
  /\ \E ok \in BOOLEAN :
       /\ Restarted(ok)
       /\ \/ ok /\ Resume(TRUE)
          \/ /\ ~ ok
             /\ attempt.tries + 1 < ControlTries
             /\ attempt' = [attempt EXCEPT !.tries = @ + 1]
             /\ UNCHANGED mark
          \/ ~ ok /\ attempt.tries + 1 = ControlTries /\ Fall
  /\ UNCHANGED spent

(* docker restart, which all egresses go through. *)
RestartContainer ==
  /\ At("fallback")
  /\ attempt.falls < Fallbacks
  /\ spent' = spent + 1
  /\ \/ \E up \in SUBSET Exit :
          /\ reach' = up
          /\ \/ attempt.at \in up /\ Resume(TRUE)
             \/ attempt' = [attempt EXCEPT !.falls = @ + 1] /\ UNCHANGED mark
     \/ attempt' = [attempt EXCEPT !.falls = @ + 1] /\ UNCHANGED <<reach, mark>>

RecoveryFails ==
  /\ At("fallback")
  /\ attempt.falls = Fallbacks
  /\ Resume(FALSE)
  /\ UNCHANGED <<reach, spent>>

----------------------------------------------------------------------------
(* network_timeout and driver_crash restart the egress, unless a run had it *)
(* restarted a short time ago.                                             *)
RetryNetwork ==
  /\ At("running")
  /\ attempt.retries < Retries
  /\ attempt' = IF attempt.at \in mark THEN MoveOn ELSE Recover("retry")
  /\ UNCHANGED <<reach, mark, spent>>

(* Any other retry: retry_data gets the egress of this attempt. *)
RetryOther ==
  /\ At("running")
  /\ attempt.retries < Retries
  /\ attempt' = [attempt EXCEPT !.pc = "waiting", !.retries = @ + 1]
  /\ UNCHANGED <<reach, mark, spent>>

EndAttempt ==
  /\ At("running")
  /\ attempt' = NoAttempt
  /\ spent' = 0
  /\ UNCHANGED <<reach, mark>>

ReachChanges(e) ==
  /\ reach' = IF e \in reach THEN reach \ {e} ELSE reach \cup {e}
  /\ UNCHANGED <<attempt, mark, spent>>

MarkExpires(e) ==
  /\ e \in mark
  /\ mark' = mark \ {e}
  /\ UNCHANGED <<reach, attempt, spent>>

(* The worker until it gives the run back. *)
RecoveryStep ==
  \/ CheckPasses \/ CheckFails \/ CheckGivesUp
  \/ ControlAccepted \/ ControlRefused \/ RestartContainer \/ RecoveryFails

RecoveryNext ==
  \/ RecoveryStep
  \/ (\E e \in Exit : StartAttempt(e)) \/ ResumeAttempt
  \/ RetryNetwork \/ RetryOther \/ EndAttempt
  \/ (\E e \in Exit : ReachChanges(e) \/ MarkExpires(e))

RecoverySpec == RecoveryInit /\ [][RecoveryNext]_recoveryVars

(* Every request and every wait of the worker has a time-out. *)
RecoveryFairness == WF_recoveryVars(RecoveryStep)

FairRecoverySpec == RecoverySpec /\ RecoveryFairness

----------------------------------------------------------------------------
(* The whole container is restarted at most Fallbacks times for each time   *)
(* the run is started, and as often for each network error it has had.      *)
ContainerSpared ==
  spent <= Fallbacks * (1 + attempt.retries + attempt.moves
                          + (IF attempt.for = "retry" /\ attempt.pc \in {"control", "fallback"}
                             THEN 1 ELSE 0))

(* The one worker does not stay with an egress that cannot be reached: a    *)
(* check, with all of its recovery, comes to an end.                        *)
ChecksEnd ==
  At("check") ~> At("running") \/ At("idle")
=============================================================================
