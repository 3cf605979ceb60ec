------------------------- MODULE WarpRecoveryProofs -------------------------
(***************************************************************************)
(* The nested retries of the worker's recovery do not multiply, for any    *)
(* number of egresses and any limits: each recovery is paid for by the     *)
(* start of an attempt or by a network error, and by nothing else.         *)
(***************************************************************************)
EXTENDS WarpRecovery, TLAPS

Recovering == attempt.pc \in {"control", "fallback"}

(* The recoveries this run has ended, or has had no need of.  Each retry    *)
(* stands for the check before it, each move for its network error.        *)
Recoveries ==
  attempt.retries + attempt.moves
    + (IF At("running") \/ attempt.recovered \/ (Recovering /\ attempt.for = "retry")
       THEN 1 ELSE 0)

(* Their restarts of the container, and those of a recovery under way. *)
RestartsArePaid == spent <= Fallbacks * Recoveries + attempt.falls

(* Only the recovery that fell back to the container has restarted it. *)
FallsAtHand == attempt.falls > 0 => At("fallback")

(* A recovery under way is the first of its check, or for a retry. *)
RecoveredOnce == attempt.recovered => At("check")

(* There is a check, or a retry, left to go back to. *)
RoomToResume ==
  Recovering => IF attempt.for = "check" THEN attempt.checks < Checks
                                         ELSE attempt.retries < Retries

(* The run moves to another egress only with a retry. *)
MovesAreRetries == attempt.moves <= attempt.retries

RecoveryIInv ==
  /\ RecoveryTypeOK
  /\ RestartsArePaid
  /\ FallsAtHand
  /\ RecoveredOnce
  /\ RoomToResume
  /\ MovesAreRetries

----------------------------------------------------------------------------
(* Restarts for n recoveries; stated once, as no prover likes to multiply.  *)
LEMMA OneMore ==
  ASSUME NEW n \in Nat
  PROVE  /\ Fallbacks * n \in Nat
         /\ Fallbacks * (n + 1) = Fallbacks * n + Fallbacks
         /\ Fallbacks * (n + 2) = Fallbacks * n + Fallbacks + Fallbacks
         /\ Fallbacks * 0 = 0
  BY RecoveryAssumption DEF RecoveryAssumption

LEMMA ExitsWrap ==
  /\ 0 \in Exit
  /\ \A e \in Exit : (e + 1) % ExitCount \in Exit
  BY RecoveryAssumption DEF RecoveryAssumption, Exit

LEMMA NoAttemptFits ==
  /\ NoAttempt \in Attempt
  /\ attempt = NoAttempt /\ spent = 0 /\ reach \subseteq Exit /\ mark \subseteq Exit
       => RecoveryIInv
<1>1. NoAttempt \in Attempt
  BY ExitsWrap, RecoveryAssumption DEF RecoveryAssumption, NoAttempt, Attempt, Place, Purpose
<1>2. ASSUME attempt = NoAttempt, spent = 0, reach \subseteq Exit, mark \subseteq Exit
      PROVE  RecoveryIInv
  <2>1. /\ attempt.pc = "idle" /\ attempt.for = "check" /\ attempt.recovered = FALSE
        /\ attempt.moves = 0 /\ attempt.retries = 0 /\ attempt.falls = 0
    BY <1>2 DEF NoAttempt
  <2>2. Recoveries = 0
    BY <2>1 DEF Recoveries, At, Recovering
  <2>3. RestartsArePaid
    BY <1>2, <2>1, <2>2, OneMore DEF RestartsArePaid
  <2>4. FallsAtHand /\ RecoveredOnce /\ RoomToResume /\ MovesAreRetries
    BY <2>1 DEF FallsAtHand, RecoveredOnce, RoomToResume, MovesAreRetries, Recovering, At
  <2> QED BY <1>1, <1>2, <2>3, <2>4 DEF RecoveryIInv, RecoveryTypeOK
<1> QED BY <1>1, <1>2

----------------------------------------------------------------------------
(* What the recoveries end in. *)

(* A recovery that ends is one more that the run has paid for, and all of   *)
(* its restarts of the container were within Fallbacks.                    *)
LEMMA ResumeKeeps ==
  ASSUME RecoveryIInv, NEW ok \in BOOLEAN, Recovering, Resume(ok),
         reach' \subseteq Exit, spent' \in Nat,
         spent' <= Fallbacks * Recoveries + Fallbacks
  PROVE  RecoveryIInv'
<1>. USE DEF RecoveryIInv, RecoveryTypeOK
<1>0. /\ attempt \in Attempt /\ Checks \in Nat /\ Retries \in Nat /\ Fallbacks \in Nat
      /\ ControlTries \in Nat /\ attempt.recovered = FALSE
      /\ attempt.retries \in Nat /\ attempt.moves \in Nat
  BY RecoveryAssumption DEF RecoveryAssumption, RecoveredOnce, Recovering, At, Attempt
<1>1. CASE attempt.for = "check"
  <2>1. /\ attempt' = [attempt EXCEPT !.pc = "check", !.recovered = TRUE, !.checks = @ + 1,
                                      !.tries = 0, !.falls = 0]
        /\ mark' = mark
    BY <1>1 DEF Resume
  <2>0. attempt.checks + 1 \in 0 .. Checks /\ 0 \in 0 .. ControlTries /\ 0 \in 0 .. Fallbacks
    BY <1>0, <1>1 DEF Attempt, RoomToResume
  <2>2. attempt' \in Attempt
    BY <1>0, <2>0, <2>1 DEF Attempt, Place
  <2>3. /\ attempt'.pc = "check" /\ attempt'.falls = 0 /\ attempt'.recovered = TRUE
        /\ attempt'.moves = attempt.moves /\ attempt'.retries = attempt.retries
    BY <1>0, <2>1 DEF Attempt
  <2>4. Recoveries' = Recoveries + 1 /\ Recoveries \in Nat
    BY <1>0, <1>1, <2>3 DEF Recoveries, At, Recovering
  <2>5. RestartsArePaid'
    BY <1>0, <2>3, <2>4, OneMore DEF RestartsArePaid
  <2>6. (FallsAtHand /\ RecoveredOnce /\ RoomToResume /\ MovesAreRetries)'
    BY <2>3 DEF FallsAtHand, RecoveredOnce, RoomToResume, MovesAreRetries, Recovering, At
  <2> QED BY <2>1, <2>2, <2>5, <2>6
<1>2. CASE attempt.for = "retry"
  <2>1. attempt' = MoveOn /\ mark' \subseteq Exit
    BY <1>0, <1>2 DEF Resume, Attempt
  <2>0. /\ attempt.moves + 1 \in 0 .. Retries /\ attempt.retries + 1 \in 0 .. Retries
        /\ (attempt.at + 1) % ExitCount \in Exit /\ 0 \in 0 .. ControlTries /\ 0 \in 0 .. Fallbacks
    BY <1>0, <1>2, ExitsWrap DEF Attempt, RoomToResume, MovesAreRetries
  <2>2. attempt' \in Attempt
    BY <1>0, <2>0, <2>1 DEF MoveOn, Attempt, Place
  <2>3. /\ attempt'.pc = "waiting" /\ attempt'.falls = 0 /\ attempt'.recovered = FALSE
        /\ attempt'.moves = attempt.moves + 1 /\ attempt'.retries = attempt.retries + 1
    BY <1>0, <2>1 DEF Attempt, MoveOn
  <2>4. Recoveries' = Recoveries + 1 /\ Recoveries \in Nat
    <3>1. Recoveries = attempt.retries + attempt.moves + 1
      BY <1>2 DEF Recoveries, Recovering
    <3>2. Recoveries' = attempt'.retries + attempt'.moves
      BY <1>0, <2>3 DEF Recoveries, At, Recovering
    <3> QED BY <1>0, <2>3, <3>1, <3>2
  <2>5. RestartsArePaid'
    BY <1>0, <2>3, <2>4, OneMore DEF RestartsArePaid
  <2>6. (FallsAtHand /\ RecoveredOnce /\ RoomToResume /\ MovesAreRetries)'
    BY <1>0, <2>3 DEF FallsAtHand, RecoveredOnce, RoomToResume, MovesAreRetries, Recovering, At
  <2> QED BY <2>1, <2>2, <2>5, <2>6
<1> QED BY <1>0, <1>1, <1>2 DEF Attempt, Purpose

(* The steps that restart no container, and may pay for one more recovery.  *)
LEMMA QuietSteps ==
  ASSUME RecoveryIInv, UNCHANGED spent, reach' \subseteq Exit, mark' \subseteq Exit,
         attempt' \in Attempt, Recoveries \in Nat, Recoveries' \in {Recoveries, Recoveries + 1},
         attempt'.falls = attempt.falls,
         (FallsAtHand /\ RecoveredOnce /\ RoomToResume /\ MovesAreRetries)'
  PROVE  RecoveryIInv'
<1>1. spent \in Nat /\ attempt.falls \in Nat /\ Fallbacks \in Nat
  BY RecoveryAssumption DEF RecoveryAssumption, RecoveryIInv, RecoveryTypeOK, Attempt
<1>2. RestartsArePaid'
  BY <1>1, OneMore DEF RecoveryIInv, RestartsArePaid
<1> QED BY <1>2 DEF RecoveryIInv, RecoveryTypeOK

(* What is known of an attempt, and of a place outside a recovery. *)
LEMMA AttemptFacts ==
  ASSUME RecoveryIInv
  PROVE  /\ attempt \in Attempt /\ Recoveries \in Nat
         /\ 0 \in 0 .. Checks /\ 1 \in 0 .. Checks
         /\ 0 \in 0 .. ControlTries /\ 0 \in 0 .. Fallbacks
         /\ ~ At("fallback") => attempt.falls = 0
<1>1. attempt \in Attempt
  BY DEF RecoveryIInv, RecoveryTypeOK
<1>2. attempt.retries \in Nat /\ attempt.moves \in Nat /\ attempt.falls \in Nat
  BY <1>1, RecoveryAssumption DEF RecoveryAssumption, Attempt
<1> QED BY <1>1, <1>2, RecoveryAssumption
        DEF RecoveryAssumption, Recoveries, RecoveryIInv, FallsAtHand

LEMMA StartAttemptKeeps ==
  ASSUME RecoveryIInv, NEW e \in Exit, StartAttempt(e)
  PROVE  RecoveryIInv'
<1>. USE DEF StartAttempt
<1>1. attempt' \in Attempt
  BY AttemptFacts, NoAttemptFits DEF Attempt, Place
<1>2. /\ attempt'.pc = "check" /\ attempt'.recovered = FALSE /\ attempt'.falls = 0
      /\ attempt'.moves = 0 /\ attempt'.retries = 0
  BY DEF NoAttempt
<1>3. Recoveries' = 0
  BY <1>2 DEF Recoveries, At, Recovering
<1>4. RestartsArePaid'
  BY <1>2, <1>3, OneMore DEF RestartsArePaid
<1>5. (FallsAtHand /\ RecoveredOnce /\ RoomToResume /\ MovesAreRetries)'
  BY <1>2 DEF FallsAtHand, RecoveredOnce, RoomToResume, MovesAreRetries, Recovering, At
<1> QED BY <1>1, <1>4, <1>5 DEF RecoveryIInv, RecoveryTypeOK

LEMMA ResumeAttemptKeeps ==
  ASSUME RecoveryIInv, ResumeAttempt
  PROVE  RecoveryIInv'
<1>. USE DEF ResumeAttempt
<1>1. attempt' \in Attempt
  BY AttemptFacts DEF Attempt, Place
<1>2. /\ attempt.pc = "waiting" /\ attempt'.pc = "check"
      /\ attempt'.recovered = FALSE /\ attempt'.falls = attempt.falls /\ attempt.falls = 0
      /\ attempt'.moves = attempt.moves /\ attempt'.retries = attempt.retries
      /\ attempt.recovered = FALSE
  BY AttemptFacts DEF Attempt, At, RecoveryIInv, RecoveredOnce
<1>3. Recoveries' = Recoveries
  BY <1>2 DEF Recoveries, At, Recovering
<1>4. (FallsAtHand /\ RecoveredOnce /\ RoomToResume /\ MovesAreRetries)'
  BY <1>2 DEF RecoveryIInv, FallsAtHand, RecoveredOnce, RoomToResume, MovesAreRetries, Recovering, At
<1> QED BY <1>1, <1>2, <1>3, <1>4, QuietSteps, AttemptFacts DEF RecoveryIInv, RecoveryTypeOK

LEMMA CheckPassesKeeps ==
  ASSUME RecoveryIInv, CheckPasses
  PROVE  RecoveryIInv'
<1>. USE DEF CheckPasses
<1>1. attempt' \in Attempt
  BY AttemptFacts DEF Attempt, Place
<1>2. /\ attempt.pc = "check" /\ attempt'.pc = "running"
      /\ attempt'.recovered = FALSE /\ attempt'.falls = attempt.falls /\ attempt.falls = 0
      /\ attempt'.moves = attempt.moves /\ attempt'.retries = attempt.retries
      /\ attempt.retries \in Nat /\ attempt.moves \in Nat
  BY AttemptFacts, RecoveryAssumption DEF RecoveryAssumption, Attempt, At
<1>3. Recoveries' \in {Recoveries, Recoveries + 1}
  <2>1. Recoveries' = attempt.retries + attempt.moves + 1
    BY <1>2 DEF Recoveries, At
  <2>2. Recoveries = attempt.retries + attempt.moves + (IF attempt.recovered THEN 1 ELSE 0)
    BY <1>2 DEF Recoveries, At, Recovering
  <2> QED BY <1>2, <2>1, <2>2
<1>4. (FallsAtHand /\ RecoveredOnce /\ RoomToResume /\ MovesAreRetries)'
  BY <1>2 DEF RecoveryIInv, FallsAtHand, RecoveredOnce, RoomToResume, MovesAreRetries, Recovering, At
<1> QED BY <1>1, <1>2, <1>3, <1>4, QuietSteps, AttemptFacts DEF RecoveryIInv, RecoveryTypeOK

(* A recovery begins: for a check that had none, or for a network error.    *)
LEMMA RecoverKeeps ==
  ASSUME RecoveryIInv, NEW purpose \in Purpose, attempt' = Recover(purpose),
         UNCHANGED <<reach, mark, spent>>, ~ attempt.recovered,
         \/ purpose = "check" /\ At("check") /\ attempt.checks < Checks
         \/ purpose = "retry" /\ At("running") /\ attempt.retries < Retries
  PROVE  RecoveryIInv'
<1>1. attempt' \in Attempt
  BY AttemptFacts DEF Recover, Attempt, Place
<1>2. /\ attempt'.pc = "control" /\ attempt'.for = purpose /\ attempt'.recovered = FALSE
      /\ attempt'.falls = attempt.falls /\ attempt.falls = 0
      /\ attempt'.moves = attempt.moves /\ attempt'.retries = attempt.retries
      /\ attempt'.checks = attempt.checks
  BY AttemptFacts DEF Recover, Attempt, At
<1>3. Recoveries' = Recoveries
  BY <1>2 DEF Recoveries, At, Recovering
<1>4. (FallsAtHand /\ RecoveredOnce /\ RoomToResume /\ MovesAreRetries)'
  BY <1>2 DEF RecoveryIInv, FallsAtHand, RecoveredOnce, RoomToResume, MovesAreRetries, Recovering, At
<1> QED BY <1>1, <1>2, <1>3, <1>4, QuietSteps, AttemptFacts DEF RecoveryIInv, RecoveryTypeOK

LEMMA CheckFailsKeeps ==
  ASSUME RecoveryIInv, CheckFails
  PROVE  RecoveryIInv'
<1>. USE DEF CheckFails
<1>1. CASE attempt.recovered
  <2>0. attempt.checks + 1 \in 0 .. Checks
    BY AttemptFacts, RecoveryAssumption DEF RecoveryAssumption, Attempt
  <2>1. attempt' \in Attempt
    BY <1>1, <2>0, AttemptFacts DEF Attempt
  <2>2. /\ attempt'.pc = attempt.pc /\ attempt'.for = attempt.for /\ attempt.pc = "check"
        /\ attempt'.recovered = attempt.recovered /\ attempt'.falls = attempt.falls
        /\ attempt'.moves = attempt.moves /\ attempt'.retries = attempt.retries
    BY <1>1, AttemptFacts DEF Attempt, At
  <2>3. Recoveries' = Recoveries
    BY <2>2 DEF Recoveries, At, Recovering
  <2>4. (FallsAtHand /\ RecoveredOnce /\ RoomToResume /\ MovesAreRetries)'
    BY <2>2 DEF RecoveryIInv, FallsAtHand, RecoveredOnce, RoomToResume, MovesAreRetries,
               Recovering, At
  <2> QED BY <2>1, <2>2, <2>3, <2>4, QuietSteps, AttemptFacts DEF RecoveryIInv, RecoveryTypeOK
<1>2. CASE ~ attempt.recovered
  BY <1>2, RecoverKeeps DEF Purpose
<1> QED BY <1>1, <1>2

(* The run is over. *)
LEMMA EndKeeps ==
  ASSUME RecoveryIInv, attempt' = NoAttempt, spent' = 0, UNCHANGED <<reach, mark>>
  PROVE  RecoveryIInv'
<1>1. /\ attempt'.pc = "idle" /\ attempt'.for = "check" /\ attempt'.recovered = FALSE
      /\ attempt'.moves = 0 /\ attempt'.retries = 0 /\ attempt'.falls = 0
  BY DEF NoAttempt
<1>2. Recoveries' = 0
  BY <1>1 DEF Recoveries, At, Recovering
<1>3. RestartsArePaid'
  BY <1>1, <1>2, OneMore DEF RestartsArePaid
<1>4. (FallsAtHand /\ RecoveredOnce /\ RoomToResume /\ MovesAreRetries)'
  BY <1>1 DEF FallsAtHand, RecoveredOnce, RoomToResume, MovesAreRetries, Recovering, At
<1> QED BY <1>3, <1>4, NoAttemptFits DEF RecoveryIInv, RecoveryTypeOK

LEMMA RetryNetworkKeeps ==
  ASSUME RecoveryIInv, RetryNetwork
  PROVE  RecoveryIInv'
<1>. USE DEF RetryNetwork
<1>0. attempt.recovered = FALSE /\ attempt.falls = 0 /\ attempt.pc = "running"
  BY AttemptFacts DEF RecoveryIInv, RecoveredOnce, At, Attempt
<1>1. CASE attempt.at \in mark
  <2>0. /\ attempt.moves + 1 \in 0 .. Retries /\ attempt.retries + 1 \in 0 .. Retries
        /\ (attempt.at + 1) % ExitCount \in Exit
    BY AttemptFacts, ExitsWrap, RecoveryAssumption
    DEF RecoveryAssumption, Attempt, RecoveryIInv, MovesAreRetries
  <2>1. attempt' \in Attempt
    BY <1>1, <2>0, AttemptFacts DEF MoveOn, Attempt, Place
  <2>2. /\ attempt'.pc = "waiting" /\ attempt'.falls = attempt.falls /\ attempt'.recovered = FALSE
        /\ attempt'.moves = attempt.moves + 1 /\ attempt'.retries = attempt.retries + 1
        /\ attempt.moves \in Nat /\ attempt.retries \in Nat
    BY <1>0, <1>1, AttemptFacts, RecoveryAssumption DEF RecoveryAssumption, MoveOn, Attempt
  <2>3. Recoveries' = Recoveries + 1
    <3>1. Recoveries = attempt.retries + attempt.moves + 1
      BY <1>0 DEF Recoveries, At
    <3>2. Recoveries' = attempt'.retries + attempt'.moves
      BY <2>2 DEF Recoveries, At, Recovering
    <3> QED BY <2>2, <3>1, <3>2
  <2>4. (FallsAtHand /\ RecoveredOnce /\ RoomToResume /\ MovesAreRetries)'
    BY <1>0, <2>2 DEF RecoveryIInv, FallsAtHand, RecoveredOnce, RoomToResume, MovesAreRetries,
                     Recovering, At
  <2> QED BY <2>1, <2>2, <2>3, <2>4, QuietSteps, AttemptFacts DEF RecoveryIInv, RecoveryTypeOK
<1>2. CASE attempt.at \notin mark
  BY <1>0, <1>2, RecoverKeeps DEF Purpose
<1> QED BY <1>1, <1>2

LEMMA RetryOtherKeeps ==
  ASSUME RecoveryIInv, RetryOther
  PROVE  RecoveryIInv'
<1>. USE DEF RetryOther
<1>0. /\ attempt.recovered = FALSE /\ attempt.falls = 0 /\ attempt.pc = "running"
      /\ attempt.moves \in Nat /\ attempt.retries \in Nat
      /\ attempt.retries + 1 \in 0 .. Retries
  BY AttemptFacts, RecoveryAssumption
  DEF RecoveryAssumption, RecoveryIInv, RecoveredOnce, At, Attempt
<1>1. attempt' \in Attempt
  BY <1>0, AttemptFacts DEF Attempt, Place
<1>2. /\ attempt'.pc = "waiting" /\ attempt'.falls = attempt.falls /\ attempt'.recovered = FALSE
      /\ attempt'.moves = attempt.moves /\ attempt'.retries = attempt.retries + 1
  BY <1>0, AttemptFacts DEF Attempt
<1>3. Recoveries' = Recoveries
  <2>1. Recoveries = attempt.retries + attempt.moves + 1
    BY <1>0 DEF Recoveries, At
  <2>2. Recoveries' = attempt'.retries + attempt'.moves
    BY <1>0, <1>2 DEF Recoveries, At, Recovering
  <2> QED BY <1>0, <1>2, <2>1, <2>2
<1>4. (FallsAtHand /\ RecoveredOnce /\ RoomToResume /\ MovesAreRetries)'
  BY <1>0, <1>2 DEF RecoveryIInv, FallsAtHand, RecoveredOnce, RoomToResume, MovesAreRetries,
                   Recovering, At
<1> QED BY <1>1, <1>2, <1>3, <1>4, QuietSteps, AttemptFacts DEF RecoveryIInv, RecoveryTypeOK

----------------------------------------------------------------------------
(* Within a recovery *)

(* A recovery that goes on, at another place or with another try.           *)
LEMMA GoesOn ==
  ASSUME RecoveryIInv, At("control"), NEW place \in {"control", "fallback"},
         NEW tries \in 0 .. ControlTries,
         attempt' = [attempt EXCEPT !.pc = place, !.tries = tries],
         UNCHANGED <<mark, spent>>, reach' \subseteq Exit
  PROVE  RecoveryIInv'
<1>1. attempt' \in Attempt
  BY AttemptFacts DEF Attempt, Place
<1>2. /\ attempt.pc = "control" /\ attempt'.pc = place /\ attempt'.for = attempt.for
      /\ attempt'.recovered = attempt.recovered /\ attempt'.falls = attempt.falls
      /\ attempt.falls = 0 /\ attempt'.checks = attempt.checks
      /\ attempt'.moves = attempt.moves /\ attempt'.retries = attempt.retries
  BY AttemptFacts DEF Attempt, At
<1>3. Recoveries' = Recoveries
  BY <1>2 DEF Recoveries, At, Recovering
<1>4. (FallsAtHand /\ RecoveredOnce /\ RoomToResume /\ MovesAreRetries)'
  BY <1>2 DEF RecoveryIInv, FallsAtHand, RecoveredOnce, RoomToResume, MovesAreRetries, Recovering, At
<1> QED BY <1>1, <1>2, <1>3, <1>4, QuietSteps, AttemptFacts DEF RecoveryIInv, RecoveryTypeOK

(* At its control requests the recovery has restarted no container.         *)
LEMMA ControlResumes ==
  ASSUME RecoveryIInv, At("control"), NEW ok \in BOOLEAN, Resume(ok),
         UNCHANGED spent, reach' \subseteq Exit
  PROVE  RecoveryIInv'
<1>1. spent \in Nat /\ spent <= Fallbacks * Recoveries + Fallbacks
  <2>1. attempt.falls = 0
    BY AttemptFacts DEF At
  <2> QED BY <2>1, AttemptFacts, OneMore, RecoveryAssumption
          DEF RecoveryAssumption, RecoveryIInv, RecoveryTypeOK, RestartsArePaid
<1>2. Recovering
  BY DEF At, Recovering
<1> QED BY <1>1, <1>2, ResumeKeeps

LEMMA RestartedInRange ==
  ASSUME RecoveryIInv, NEW ok \in BOOLEAN, Restarted(ok)
  PROVE  reach' \subseteq Exit
  BY AttemptFacts DEF Restarted, Attempt, RecoveryIInv, RecoveryTypeOK

LEMMA FallGoesOn ==
  ASSUME RecoveryIInv, At("control"), Fall, UNCHANGED spent, reach' \subseteq Exit
  PROVE  RecoveryIInv'
<1>1. attempt' = [attempt EXCEPT !.pc = "fallback", !.tries = attempt.tries]
  BY AttemptFacts DEF Fall, Attempt
<1>2. attempt.tries \in 0 .. ControlTries
  BY AttemptFacts DEF Attempt
<1> QED BY <1>1, <1>2, GoesOn DEF Fall

LEMMA ControlAcceptedKeeps ==
  ASSUME RecoveryIInv, ControlAccepted
  PROVE  RecoveryIInv'
<1>1. PICK ok \in BOOLEAN : Restarted(ok) /\ (IF ok THEN Resume(TRUE) ELSE Fall)
  BY DEF ControlAccepted
<1>2. reach' \subseteq Exit
  BY <1>1, RestartedInRange
<1>3. CASE ok
  BY <1>1, <1>2, <1>3, ControlResumes DEF ControlAccepted
<1>4. CASE ~ ok
  BY <1>1, <1>2, <1>4, FallGoesOn DEF ControlAccepted
<1> QED BY <1>3, <1>4

LEMMA ControlRefusedKeeps ==
  ASSUME RecoveryIInv, ControlRefused
  PROVE  RecoveryIInv'
<1>1. PICK ok \in BOOLEAN :
        /\ Restarted(ok)
        /\ \/ ok /\ Resume(TRUE)
           \/ /\ ~ ok /\ attempt.tries + 1 < ControlTries
              /\ attempt' = [attempt EXCEPT !.tries = @ + 1]
              /\ UNCHANGED mark
           \/ ~ ok /\ attempt.tries + 1 = ControlTries /\ Fall
  BY DEF ControlRefused
<1>2. reach' \subseteq Exit
  BY <1>1, RestartedInRange
<1>3. CASE Resume(TRUE)
  BY <1>2, <1>3, ControlResumes DEF ControlRefused
<1>4. CASE /\ attempt.tries + 1 < ControlTries
           /\ attempt' = [attempt EXCEPT !.tries = @ + 1]
           /\ UNCHANGED mark
  <2>1. attempt.tries + 1 \in 0 .. ControlTries
    BY <1>4, AttemptFacts, RecoveryAssumption DEF RecoveryAssumption, Attempt
  <2>2. attempt' = [attempt EXCEPT !.pc = "control", !.tries = attempt.tries + 1]
    BY <1>4, AttemptFacts DEF ControlRefused, At, Attempt
  <2> QED BY <1>2, <1>4, <2>1, <2>2, GoesOn DEF ControlRefused
<1>5. CASE Fall
  BY <1>2, <1>5, FallGoesOn DEF ControlRefused
<1> QED BY <1>1, <1>3, <1>4, <1>5

(* The restart that a recovery may still make is within Fallbacks. *)
LEMMA RestartContainerKeeps ==
  ASSUME RecoveryIInv, RestartContainer
  PROVE  RecoveryIInv'
<1>. USE DEF RestartContainer
<1>0. /\ attempt.falls \in Nat /\ spent \in Nat /\ Fallbacks \in Nat /\ spent' \in Nat
      /\ attempt.falls + 1 \in 0 .. Fallbacks /\ reach' \subseteq Exit
  <2>1. Fallbacks \in Nat /\ attempt.falls \in 0 .. Fallbacks
    BY AttemptFacts, RecoveryAssumption DEF RecoveryAssumption, Attempt
  <2>2. spent \in Nat /\ reach \subseteq Exit
    BY DEF RecoveryIInv, RecoveryTypeOK
  <2>3. reach' \subseteq Exit
    BY <2>2
  <2> QED BY <2>1, <2>2, <2>3
<1>1. spent' <= Fallbacks * Recoveries + attempt.falls + 1
  BY <1>0, AttemptFacts, OneMore DEF RecoveryIInv, RestartsArePaid
<1>2. CASE Resume(TRUE)
  <2>1. spent' <= Fallbacks * Recoveries + Fallbacks
    BY <1>0, <1>1, AttemptFacts, OneMore
  <2>2. Recovering
    BY DEF At, Recovering
  <2> QED BY <1>0, <1>2, <2>1, <2>2, ResumeKeeps
<1>3. CASE attempt' = [attempt EXCEPT !.falls = @ + 1] /\ UNCHANGED mark
  <2>1. attempt' \in Attempt
    BY <1>0, <1>3, AttemptFacts DEF Attempt
  <2>2. /\ attempt'.pc = attempt.pc /\ attempt'.for = attempt.for /\ attempt.pc = "fallback"
        /\ attempt'.recovered = attempt.recovered /\ attempt'.falls = attempt.falls + 1
        /\ attempt'.checks = attempt.checks
        /\ attempt'.moves = attempt.moves /\ attempt'.retries = attempt.retries
    BY <1>3, AttemptFacts DEF Attempt, At
  <2>3. Recoveries' = Recoveries
    BY <2>2 DEF Recoveries, At, Recovering
  <2>4. RestartsArePaid'
    BY <1>0, <1>1, <2>2, <2>3, AttemptFacts, OneMore DEF RestartsArePaid
  <2>5. (FallsAtHand /\ RecoveredOnce /\ RoomToResume /\ MovesAreRetries)'
    BY <2>2 DEF RecoveryIInv, FallsAtHand, RecoveredOnce, RoomToResume, MovesAreRetries,
               Recovering, At
  <2> QED BY <1>0, <1>3, <2>1, <2>4, <2>5 DEF RecoveryIInv, RecoveryTypeOK
<1> QED BY <1>2, <1>3

LEMMA RecoveryFailsKeeps ==
  ASSUME RecoveryIInv, RecoveryFails
  PROVE  RecoveryIInv'
<1>1. /\ spent' \in Nat /\ reach' \subseteq Exit
      /\ spent' <= Fallbacks * Recoveries + Fallbacks
  BY AttemptFacts DEF RecoveryFails, RecoveryIInv, RecoveryTypeOK, RestartsArePaid
<1>2. Recovering /\ Resume(FALSE)
  BY DEF RecoveryFails, At, Recovering
<1> QED BY <1>1, <1>2, ResumeKeeps

(* What others do to the egresses, and the end of a mark. *)
LEMMA OthersKeep ==
  ASSUME RecoveryIInv, UNCHANGED <<attempt, spent>>, reach' \subseteq Exit, mark' \subseteq Exit
  PROVE  RecoveryIInv'
<1>1. Recoveries' = Recoveries
  BY DEF Recoveries, At, Recovering
<1> QED BY <1>1 DEF RecoveryIInv, RecoveryTypeOK, RestartsArePaid, FallsAtHand, RecoveredOnce,
        RoomToResume, MovesAreRetries, Recovering, At

LEMMA RecoveryStepKeeps ==
  RecoveryIInv /\ [RecoveryNext]_recoveryVars => RecoveryIInv'
<1>. SUFFICES ASSUME RecoveryIInv, [RecoveryNext]_recoveryVars PROVE RecoveryIInv'
  OBVIOUS
<1>0. reach \subseteq Exit /\ mark \subseteq Exit
  BY DEF RecoveryIInv, RecoveryTypeOK
<1>1. CASE CheckPasses     BY <1>1, CheckPassesKeeps
<1>2. CASE CheckFails      BY <1>2, CheckFailsKeeps
<1>3. CASE CheckGivesUp    BY <1>3, EndKeeps DEF CheckGivesUp
<1>4. CASE ControlAccepted BY <1>4, ControlAcceptedKeeps
<1>5. CASE ControlRefused  BY <1>5, ControlRefusedKeeps
<1>6. CASE RestartContainer BY <1>6, RestartContainerKeeps
<1>7. CASE RecoveryFails   BY <1>7, RecoveryFailsKeeps
<1>8. CASE \E e \in Exit : StartAttempt(e)
  BY <1>8, StartAttemptKeeps
<1>9. CASE ResumeAttempt   BY <1>9, ResumeAttemptKeeps
<1>10. CASE RetryNetwork   BY <1>10, RetryNetworkKeeps
<1>11. CASE RetryOther     BY <1>11, RetryOtherKeeps
<1>12. CASE EndAttempt     BY <1>12, EndKeeps DEF EndAttempt
<1>13. CASE \E e \in Exit : ReachChanges(e) \/ MarkExpires(e)
  BY <1>0, <1>13, OthersKeep DEF ReachChanges, MarkExpires
<1>14. CASE UNCHANGED recoveryVars
  BY <1>0, <1>14, OthersKeep DEF recoveryVars
<1> QED BY <1>1, <1>2, <1>3, <1>4, <1>5, <1>6, <1>7, <1>8, <1>9, <1>10, <1>11, <1>12, <1>13, <1>14
        DEF RecoveryNext, RecoveryStep

----------------------------------------------------------------------------
(* The recoveries of a run are paid for, and never more than its limits.    *)
THEOREM RecoveryInvariant == RecoverySpec => []RecoveryIInv
<1>1. RecoveryInit => RecoveryIInv
  BY NoAttemptFits DEF RecoveryInit
<1> QED BY <1>1, RecoveryStepKeeps, PTL DEF RecoverySpec

(* Checks, control requests and retries stay within their limits.           *)
THEOREM RecoveryTypeCorrect == RecoverySpec => []RecoveryTypeOK
<1>1. RecoveryIInv => RecoveryTypeOK
  BY DEF RecoveryIInv
<1> QED BY <1>1, RecoveryInvariant, PTL

(* The container that all egresses share is restarted Fallbacks times for   *)
(* each start of a run and each of its network errors, and not more often,  *)
(* whatever checks, control requests and restarts fail.                     *)
THEOREM ContainerIsSpared == RecoverySpec => []ContainerSpared
<1>1. RecoveryIInv => ContainerSpared
  <2>. SUFFICES ASSUME RecoveryIInv PROVE ContainerSpared
    OBVIOUS
  <2>. DEFINE base == attempt.retries + attempt.moves
  <2>1. /\ attempt.retries \in Nat /\ attempt.moves \in Nat /\ attempt.falls \in 0 .. Fallbacks
        /\ Fallbacks \in Nat /\ spent \in Nat /\ base \in Nat
    BY AttemptFacts, RecoveryAssumption DEF RecoveryAssumption, Attempt, RecoveryIInv, RecoveryTypeOK
  <2>2. spent <= Fallbacks * Recoveries + attempt.falls
    BY DEF RecoveryIInv, RestartsArePaid
  <2>3. CASE attempt.for = "retry" /\ Recovering
    <3>1. Recoveries = base + 1
      BY <2>3 DEF Recoveries
    <3>2. spent <= Fallbacks * (base + 2)
      BY <2>1, <2>2, <3>1, OneMore
    <3>3. 1 + attempt.retries + attempt.moves + 1 = base + 2
      BY <2>1
    <3> QED BY <2>3, <3>2, <3>3 DEF ContainerSpared, Recovering
  <2>4. CASE ~ (attempt.for = "retry" /\ Recovering)
    <3>1. spent <= Fallbacks * (base + 1)
      <4>1. CASE At("running") \/ attempt.recovered
        <5>1. Recoveries = base + 1 /\ attempt.falls = 0
          BY <2>4, <4>1, AttemptFacts DEF Recoveries, RecoveryIInv, RecoveredOnce, At
        <5> QED BY <2>1, <2>2, <5>1, OneMore
      <4>2. CASE ~ (At("running") \/ attempt.recovered)
        <5>1. Recoveries = base
          BY <2>1, <2>4, <4>2 DEF Recoveries
        <5> QED BY <2>1, <2>2, <5>1, OneMore
      <4> QED BY <4>1, <4>2
    <3>2. 1 + attempt.retries + attempt.moves + 0 = base + 1
      BY <2>1
    <3> QED BY <2>4, <3>1, <3>2 DEF ContainerSpared, Recovering
  <2> QED BY <2>3, <2>4
<1> QED BY <1>1, RecoveryInvariant, PTL
=============================================================================
