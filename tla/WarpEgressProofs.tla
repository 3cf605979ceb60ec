-------------------------- MODULE WarpEgressProofs --------------------------
(***************************************************************************)
(* What the probe and the recycling of egresses keep for any number of     *)
(* egresses, any thresholds and any budget.                                *)
(***************************************************************************)
EXTENDS WarpEgress, TLAPS

(* A run that is not hidden from the recycling has its lock. *)
UnlockedIsHidden == task.pc # "none" /\ ~ task.locked => task.hidden

(* A probe that waits for its restart has set the key. *)
KeyComesFirst == probe.pc = "await" => cooldown[probe.at] = Cooldown

(* The key of the cooldown outlasts the cooldown of a reported restart. *)
KeyOutlasts == \A e \in Egress : recent[e] <= cooldown[e]

(* A streak ends with an answer. *)
StreakIsFresh == \A e \in Egress : streak[e] > 0 => e \in failed

WarpIInv ==
  /\ WarpTypeOK
  /\ UnlockedIsHidden
  /\ RecycleSparesRuns
  /\ KeyComesFirst
  /\ KeyOutlasts
  /\ StreakIsFresh

(* Arithmetic of egresses *)
LEMMA EgressesWrap ==
  /\ 0 \in Egress
  /\ \A n \in Nat : n % WarpCount \in Egress
  /\ \A e \in Egress : (e + 1) % WarpCount \in Egress
  /\ Egress \subseteq Nat
  BY WarpAssumption DEF WarpAssumption, Egress

LEMMA WarpInitOK == WarpInit => WarpIInv
  BY EgressesWrap, WarpAssumption
  DEF WarpAssumption, WarpInit, WarpIInv, WarpTypeOK, UnlockedIsHidden, RecycleSparesRuns, KeyComesFirst,
     KeyOutlasts, StreakIsFresh, Health, ProbeState, RecycleState, TaskState, ProbeOff, RecycleOff,
     NoRun, Recycling

LEMMA Bounds ==
  /\ 0 \in 0 .. Failures
  /\ 0 \in 0 .. RoundBudget /\ RoundBudget \in 0 .. RoundBudget
  /\ 0 \in 0 .. Cooldown /\ Cooldown \in 0 .. Cooldown
  BY WarpAssumption DEF WarpAssumption

(* The jobs at rest, and a run whose look is over *)
LEMMA RestIsTyped ==
  ASSUME WarpTypeOK
  PROVE  /\ ProbeOff \in ProbeState
         /\ RecycleOff \in RecycleState
         /\ NoRun \in TaskState
         /\ [task EXCEPT !.hidden = @ /\ ~ task.locked] \in TaskState
<1>2. ProbeOff \in ProbeState
  BY Bounds, EgressesWrap DEF ProbeOff, ProbeState
<1>3. [task EXCEPT !.hidden = @ /\ ~ task.locked] \in TaskState
  <2>1. (task.hidden /\ ~ task.locked) \in BOOLEAN
    OBVIOUS
  <2>. QED BY <2>1 DEF WarpTypeOK, TaskState
<1>. QED BY <1>2, <1>3, EgressesWrap DEF RecycleOff, RecycleState, NoRun, TaskState

(* The types *)
LEMMA CursorStays ==
  ASSUME cursor \in Egress
  PROVE  NextCursor \in Egress
  BY EgressesWrap DEF NextCursor

LEMMA GatherProbesTypes ==
  ASSUME WarpTypeOK, GatherProbes
  PROVE  WarpTypeOK'
<1>1. PICK bad \in SUBSET Egress :
        /\ failed' = bad
        /\ streak' = [e \in Egress |-> IF e \in bad THEN Saturated(streak[e] + 1) ELSE 0]
        /\ probe' = [pc |-> "restart", at |-> 0, left |-> RoundBudget,
                     todo |-> {e \in bad : streak[e] + 1 >= Failures}]
  BY DEF GatherProbes
<1>2. \A e \in Egress : Saturated(streak[e] + 1) \in 0 .. Failures
  BY WarpAssumption DEF WarpAssumption, WarpTypeOK, Saturated
<1>3. streak' \in [Egress -> 0 .. Failures]
  <2>2. \A e \in Egress : (IF e \in bad THEN Saturated(streak[e] + 1) ELSE 0) \in 0 .. Failures
    BY <1>2, Bounds
  <2>. QED BY <1>1, <2>2
<1>4. probe' \in ProbeState
  <2>2. {e \in bad : streak[e] + 1 >= Failures} \in SUBSET Egress
    OBVIOUS
  <2>. QED BY <1>1, <2>2, Bounds, EgressesWrap, Zenon DEF ProbeState
<1>. QED BY <1>1, <1>3, <1>4 DEF GatherProbes, WarpTypeOK

LEMMA SendProbesTypes ==
  ASSUME WarpTypeOK, SendProbes
  PROVE  WarpTypeOK'
<1>1. {e \in Egress : health[e] = "down"} \in SUBSET Egress
  OBVIOUS
<1>2. probe' \in ProbeState
  BY <1>1, Bounds, EgressesWrap, Zenon DEF SendProbes, ProbeState
<1>. QED BY <1>2 DEF SendProbes, WarpTypeOK, redisVars

(* An answer only takes an egress off the list of a probe. *)
LEMMA AnswersKeepProbe ==
  ASSUME WarpTypeOK, MayAnswer
  PROVE  probe' \in ProbeState /\ probe'.pc = probe.pc /\ probe'.at = probe.at
  BY DEF MayAnswer, WarpTypeOK, ProbeState

LEMMA RestartTypes ==
  ASSUME WarpTypeOK, ProbeStep \/ SkipRecycle \/ BeginRecycle \/ RecycleRefused \/ RecycleAccepted
  PROVE  WarpTypeOK'
<1>1. CASE SendProbes \/ GatherProbes BY <1>1, SendProbesTypes, GatherProbesTypes
<1>2. ASSUME NEW e \in Egress, BeginProbeRestart(e) PROVE WarpTypeOK'
  <2>1. probe' \in ProbeState
    BY <1>2, WarpAssumption DEF WarpAssumption, BeginProbeRestart, WarpTypeOK, ProbeState
  <2>. QED BY <1>2, <2>1, WarpAssumption DEF WarpAssumption, BeginProbeRestart, WarpTypeOK, Health
<1>3. CASE ProbeRestartEnds
  BY <1>3, WarpAssumption DEF WarpAssumption, ProbeRestartEnds, WarpTypeOK, ProbeState
<1>4. CASE ProbeRoundEnds
  BY <1>4, RestIsTyped DEF ProbeRoundEnds, WarpTypeOK, redisVars
<1>5. CASE SkipRecycle
  BY <1>5, CursorStays DEF SkipRecycle, WarpTypeOK
<1>6. CASE BeginRecycle
  BY <1>6, CursorStays DEF BeginRecycle, WarpTypeOK, RecycleState, Health
<1>7. CASE RecycleRefused
  BY <1>7, RestIsTyped, AnswersKeepProbe DEF RecycleRefused, WarpTypeOK, redisVars
<1>8. CASE RecycleAccepted
  <2>1. task' \in TaskState /\ recycle' \in RecycleState
    BY <1>8, RestIsTyped DEF RecycleAccepted
  <2>2. /\ cooldown' \in [Egress -> 0 .. Cooldown] /\ recent' \in [Egress -> 0 .. Cooldown]
        /\ streak' \in [Egress -> 0 .. Failures]
        /\ health' \in [Egress -> Health]
    BY <1>8, Bounds DEF RecycleAccepted, WarpTypeOK
  <2>. QED BY <1>8, <2>1, <2>2, AnswersKeepProbe DEF RecycleAccepted, WarpTypeOK
<1>. QED BY <1>1, <1>2, <1>3, <1>4, <1>5, <1>6, <1>7, <1>8 DEF ProbeStep

LEMMA TaskTypes ==
  ASSUME WarpTypeOK,
         \/ ArriveTask \/ TakeTask \/ RetryTask \/ EndTask \/ DropTaskLock
  PROVE  WarpTypeOK'
<1>1. task' \in TaskState
  <2>1. CASE ArriveTask BY <2>1 DEF ArriveTask, TaskState, Recycling
  <2>2. CASE TakeTask BY <2>2 DEF TakeTask, TaskState, WarpTypeOK, Recycling
  <2>3. CASE RetryTask BY <2>3 DEF RetryTask, TaskState, WarpTypeOK
  <2>4. CASE EndTask BY <2>4 DEF EndTask, TaskState, NoRun
  <2>5. CASE DropTaskLock BY <2>5 DEF DropTaskLock, TaskState, WarpTypeOK
  <2>. QED BY <2>1, <2>2, <2>3, <2>4, <2>5
<1>2. UNCHANGED warpJobs
  BY DEF ArriveTask, TakeTask, RetryTask, EndTask, DropTaskLock
<1>. QED BY <1>1, <1>2 DEF WarpTypeOK, warpJobs, redisVars

LEMMA OtherTypes ==
  ASSUME WarpTypeOK, (\E e \in Egress : HealthChanges(e)) \/ ProbeTick \/ WebCrash
  PROVE  WarpTypeOK'
<1>1. ASSUME NEW e \in Egress, HealthChanges(e) PROVE WarpTypeOK'
  BY <1>1, AnswersKeepProbe DEF HealthChanges, WarpTypeOK, redisVars
<1>2. CASE ProbeTick
  BY <1>2, WarpAssumption DEF WarpAssumption, ProbeTick, WarpTypeOK, Down
<1>3. CASE WebCrash
  <2>1. task' \in TaskState /\ recycle' \in RecycleState /\ probe' \in ProbeState
    BY <1>3, RestIsTyped DEF WebCrash
  <2>2. crashes' \in 0 .. CrashLimit
    <3>1. crashes < CrashLimit /\ crashes' = crashes + 1
      BY <1>3 DEF WebCrash
    <3>2. crashes \in 0 .. CrashLimit
      BY DEF WarpTypeOK
    <3>. QED BY <3>1, <3>2, WarpAssumption DEF WarpAssumption
  <2>. QED BY <1>3, <2>1, <2>2 DEF WebCrash, WarpTypeOK, redisVars
<1>. QED BY <1>1, <1>2, <1>3

LEMMA WarpTypesStep ==
  ASSUME WarpTypeOK, [WarpNext]_warpVars
  PROVE  WarpTypeOK'
<1>1. CASE UNCHANGED warpVars BY <1>1 DEF warpVars, WarpTypeOK
<1>. QED BY <1>1, RestartTypes, TaskTypes, OtherTypes DEF WarpNext

----------------------------------------------------------------------------
(* The history *)

LEMMA HiddenStep ==
  ASSUME WarpTypeOK, UnlockedIsHidden, RecycleSparesRuns, [WarpNext]_warpVars
  PROVE  UnlockedIsHidden' /\ RecycleSparesRuns'
<1> USE DEF UnlockedIsHidden, RecycleSparesRuns, Recycling
<1>1. CASE UNCHANGED <<task, recycle>>
  BY <1>1
<1>2. CASE BeginRecycle
  BY <1>2 DEF BeginRecycle, TaskInFlight
<1>3. ASSUME RecycleRefused \/ RecycleAccepted \/ WebCrash
      PROVE  UnlockedIsHidden' /\ RecycleSparesRuns'
  <2>1. task' = [task EXCEPT !.hidden = @ /\ ~ task.locked] /\ recycle' = RecycleOff
    BY <1>3 DEF RecycleRefused, RecycleAccepted, WebCrash
  <2>2. task'.pc = task.pc /\ task'.locked = task.locked
        /\ task'.hidden = (task.hidden /\ ~ task.locked)
    BY <2>1 DEF WarpTypeOK, TaskState
  <2>. QED BY <2>1, <2>2 DEF RecycleOff
<1>4. CASE ArriveTask
  BY <1>4 DEF ArriveTask, warpJobs
<1>5. CASE TakeTask
  <2>1. task'.locked = TRUE /\ task'.hidden = (task.hidden /\ Recycling) /\ recycle' = recycle
    BY <1>5 DEF TakeTask, warpJobs, WarpTypeOK, TaskState
  <2>. QED BY <1>5, <2>1 DEF TakeTask
<1>6. CASE RetryTask
  <2>1. task.pc = "running" /\ task'.locked = task.locked /\ task'.hidden = task.hidden
        /\ recycle' = recycle
    BY <1>6 DEF RetryTask, warpJobs, WarpTypeOK, TaskState
  <2>. QED BY <2>1
<1>7. CASE EndTask
  BY <1>7 DEF EndTask, NoRun
<1>8. CASE DropTaskLock
  BY <1>8 DEF DropTaskLock, WarpTypeOK, TaskState
<1>9. ASSUME ProbeStep \/ ProbeTick \/ SkipRecycle \/ \E e \in Egress : HealthChanges(e)
      PROVE  UNCHANGED <<task, recycle>>
  BY <1>9 DEF ProbeStep, SendProbes, GatherProbes, BeginProbeRestart, ProbeRestartEnds, ProbeRoundEnds,
     ProbeTick, SkipRecycle, HealthChanges
<1>10. CASE UNCHANGED warpVars
  BY <1>1, <1>10 DEF warpVars
<1>. QED BY <1>1, <1>2, <1>3, <1>4, <1>5, <1>6, <1>7, <1>8, <1>9, <1>10 DEF WarpNext

LEMMA KeyStep ==
  ASSUME WarpTypeOK, KeyComesFirst, KeyOutlasts, [WarpNext]_warpVars
  PROVE  KeyComesFirst' /\ KeyOutlasts'
<1> USE DEF KeyComesFirst, KeyOutlasts
<1>1. CASE UNCHANGED <<recent, cooldown>> /\ probe'.pc = probe.pc /\ probe'.at = probe.at
  BY <1>1
<1>2. CASE SendProbes \/ GatherProbes
  BY <1>2 DEF SendProbes, GatherProbes, redisVars
<1>3. ASSUME NEW d \in Egress, BeginProbeRestart(d) PROVE KeyComesFirst' /\ KeyOutlasts'
  <2>1. cooldown' = [cooldown EXCEPT ![d] = Cooldown] /\ recent' = recent /\ probe'.at = d
    BY <1>3 DEF BeginProbeRestart
  <2>2. \A e \in Egress : recent[e] <= Cooldown
    BY WarpAssumption DEF WarpAssumption, WarpTypeOK
  <2>. QED BY <2>1, <2>2 DEF WarpTypeOK
<1>4. CASE ProbeRestartEnds
  <2>1. probe.pc = "await" /\ probe'.pc = "restart" /\ cooldown' = cooldown
    BY <1>4 DEF ProbeRestartEnds, WarpTypeOK, ProbeState
  <2>2. recent' = [recent EXCEPT ![probe.at] = Cooldown] \/ recent' = recent
    BY <1>4 DEF ProbeRestartEnds
  <2>3. Cooldown <= Cooldown
    BY WarpAssumption DEF WarpAssumption
  <2>. QED BY <2>1, <2>2, <2>3 DEF WarpTypeOK
<1>5. CASE RecycleAccepted
  <2>1. /\ cooldown' = [cooldown EXCEPT ![recycle.at] = Cooldown]
        /\ recent' = [recent EXCEPT ![recycle.at] = Cooldown]
        /\ probe'.pc = probe.pc /\ probe'.at = probe.at
    BY <1>5, AnswersKeepProbe DEF RecycleAccepted
  <2>2. Cooldown <= Cooldown
    BY WarpAssumption DEF WarpAssumption
  <2>3. probe.at \in Egress
    BY DEF WarpTypeOK, ProbeState
  <2>. QED BY <2>1, <2>2, <2>3 DEF WarpTypeOK
<1>6. CASE ProbeTick
  <2>1. \A e \in Egress : recent'[e] = Down(recent[e]) /\ cooldown'[e] = Down(cooldown[e])
    BY <1>6 DEF ProbeTick
  <2>2. \A e \in Egress : recent[e] \in Nat /\ cooldown[e] \in Nat
    BY WarpAssumption DEF WarpAssumption, WarpTypeOK
  <2>3. \A m, n \in Nat : m <= n => Down(m) <= Down(n)
    BY DEF Down
  <2>4. probe'.pc = "idle"
    BY <1>6 DEF ProbeTick
  <2>. QED BY <2>1, <2>2, <2>3, <2>4
<1>7. CASE ProbeRoundEnds \/ WebCrash
  BY <1>7 DEF ProbeRoundEnds, WebCrash, ProbeOff, redisVars
<1>8. ASSUME \/ SkipRecycle \/ BeginRecycle \/ RecycleRefused
             \/ \E e \in Egress : HealthChanges(e)
             \/ ArriveTask \/ TakeTask \/ RetryTask \/ EndTask \/ DropTaskLock
      PROVE  UNCHANGED <<recent, cooldown>> /\ probe'.pc = probe.pc /\ probe'.at = probe.at
  BY <1>8, AnswersKeepProbe DEF SkipRecycle, BeginRecycle, RecycleRefused, HealthChanges, ArriveTask, TakeTask,
     RetryTask, EndTask, DropTaskLock, warpJobs, redisVars
<1>9. CASE UNCHANGED warpVars
  BY <1>1, <1>9 DEF warpVars
<1>. QED BY <1>1, <1>2, <1>3, <1>4, <1>5, <1>6, <1>7, <1>8, <1>9 DEF WarpNext, ProbeStep

LEMMA StreakStep ==
  ASSUME WarpTypeOK, StreakIsFresh, [WarpNext]_warpVars
  PROVE  StreakIsFresh'
<1> USE DEF StreakIsFresh
<1>1. CASE UNCHANGED <<streak, failed>>
  BY <1>1
<1>2. CASE GatherProbes
  BY <1>2 DEF GatherProbes
<1>3. ASSUME ProbeRestartEnds \/ RecycleAccepted
      PROVE  StreakIsFresh'
  <2>1. failed' = failed
    BY <1>3 DEF ProbeRestartEnds, RecycleAccepted
  <2>2. streak' = streak \/ \E d : streak' = [streak EXCEPT ![d] = 0]
    BY <1>3 DEF ProbeRestartEnds, RecycleAccepted
  <2>. QED BY <2>1, <2>2 DEF WarpTypeOK
<1>4. ASSUME \/ SendProbes \/ \E e \in Egress : BeginProbeRestart(e)
             \/ ProbeRoundEnds \/ ProbeTick \/ WebCrash
             \/ SkipRecycle \/ BeginRecycle \/ RecycleRefused
             \/ \E e \in Egress : HealthChanges(e)
             \/ ArriveTask \/ TakeTask \/ RetryTask \/ EndTask \/ DropTaskLock
      PROVE  UNCHANGED <<streak, failed>>
  BY <1>4 DEF SendProbes, BeginProbeRestart, ProbeRoundEnds, ProbeTick, WebCrash, SkipRecycle, BeginRecycle,
     RecycleRefused, HealthChanges, ArriveTask, TakeTask, RetryTask, EndTask, DropTaskLock,
     warpJobs, redisVars
<1>5. CASE UNCHANGED warpVars
  BY <1>1, <1>5 DEF warpVars
<1>. QED BY <1>1, <1>2, <1>3, <1>4, <1>5 DEF WarpNext, ProbeStep

----------------------------------------------------------------------------
(* The theorems *)

(* WarpIInv is inductive. *)
THEOREM WarpInvariant == WarpSpec => []WarpIInv
<1>1. WarpIInv /\ [WarpNext]_warpVars => WarpIInv'
  BY WarpTypesStep, HiddenStep, KeyStep, StreakStep DEF WarpIInv
<1>. QED BY WarpInitOK, <1>1, PTL DEF WarpSpec

(* Every variable of the two jobs has its type: budget, streaks, cooldowns  *)
(* and cursor keep within their limits.                                     *)
THEOREM WarpTypeCorrect == WarpSpec => []WarpTypeOK
<1>1. WarpIInv => WarpTypeOK
  BY DEF WarpIInv
<1>. QED BY WarpInvariant, <1>1, PTL

(* The preventive restart takes no egress away from a run that was there    *)
(* when recycle_warp_egress looked at the queue and the locks.              *)
THEOREM RecyclingSparesRuns == WarpSpec => []RecycleSparesRuns
<1>1. WarpIInv => RecycleSparesRuns
  BY DEF WarpIInv
<1>. QED BY WarpInvariant, <1>1, PTL

(* An egress that the probe restarts has failed in two rounds in a row,     *)
(* whatever was restarted, crashed or recycled in between.                  *)
THEOREM ProbingNeedsRow == WarpSpec => ProbeNeedsRow
<1>1. ASSUME WarpIInv, GatherProbes, Failures > 1
      PROVE  probe'.todo \subseteq failed \cap failed'
  <2>1. PICK bad \in SUBSET Egress :
          failed' = bad /\ probe'.todo = {e \in bad : streak[e] + 1 >= Failures}
    BY <1>1 DEF GatherProbes
  <2>2. \A e \in bad : streak[e] + 1 >= Failures => streak[e] > 0
    BY <1>1, WarpAssumption DEF WarpAssumption, WarpIInv, WarpTypeOK
  <2>. QED BY <1>1, <2>1, <2>2 DEF WarpIInv, StreakIsFresh
<1>2. WarpIInv => [GatherProbes /\ Failures > 1 => probe'.todo \subseteq failed \cap failed']_warpVars
  BY <1>1
<1>. QED BY WarpInvariant, <1>2, PTL DEF ProbeNeedsRow

(* Within the cooldown of a restart that was reported as done, neither job  *)
(* begins another one of the same egress.                                   *)
THEOREM RestartsKeepApart == WarpSpec => RestartsApart
<1>1. ASSUME WarpIInv, NEW e \in Egress,
             BeginProbeRestart(e) \/ (BeginRecycle /\ NextCursor = e)
      PROVE  recent[e] = 0
  <2>1. cooldown[e] = 0
    BY <1>1 DEF BeginProbeRestart, IsNext, Ready, BeginRecycle
  <2>2. recent[e] \in Nat /\ recent[e] <= cooldown[e]
    BY <1>1, WarpAssumption DEF WarpAssumption, WarpIInv, WarpTypeOK, KeyOutlasts
  <2>. QED BY <2>1, <2>2
<1>2. WarpIInv => [\A e \in Egress : BeginProbeRestart(e) \/ (BeginRecycle /\ NextCursor = e)
                     => recent[e] = 0]_warpVars
  BY <1>1
<1>. QED BY WarpInvariant, <1>2, PTL DEF RestartsApart
=============================================================================
