----------------------------- MODULE WarpEgress -----------------------------
(***************************************************************************)
(* The two jobs of the web process that restart WARP egresses (main.py):   *)
(* probe_warp_egresses, which restarts what failed again and again, and    *)
(* recycle_warp_egress, which restarts one egress after the other while    *)
(* nothing runs.  Both are coroutines of one event loop and give way only  *)
(* where they await a probe or a restart.  A run of the worker stands for  *)
(* all of them; what the worker itself does to an egress is one of the     *)
(* ways its health changes (see WarpRecovery).                             *)
(*                                                                         *)
(* A tick is WARP_PROBE_INTERVAL_SECONDS.  The locks of the two jobs keep  *)
(* a second web process out, of which there is none; the lock that a crash *)
(* leaves behind costs the next process its first round.                   *)
(***************************************************************************)
EXTENDS Naturals

CONSTANTS
  WarpCount,      \* WARP_PROXY_COUNT
  Failures,       \* WARP_PROBE_FAILURES_BEFORE_RESTART
  RoundBudget,    \* WARP_PROBE_MAX_RESTARTS_PER_ROUND
  Cooldown,       \* WARP_PROBE_RESTART_COOLDOWN_SECONDS, in ticks
  CrashLimit      \* bound: crashes of the web process

Egress == 0 .. WarpCount - 1

ASSUME WarpAssumption ==
  /\ WarpCount \in Nat \ {0}
  /\ Failures \in Nat \ {0}
  /\ RoundBudget \in Nat /\ Cooldown \in Nat /\ CrashLimit \in Nat

VARIABLES
  health,    \* does the trace through an egress answer warp=on
  streak,    \* warp:probe_failures, up to Failures
  cooldown,  \* warp:probe_restart_cooldown: the ticks it has left
  cursor,    \* warp:recycle_cursor
  due,       \* the round of this tick is still to come
  probe,     \* probe_warp_egresses
  recycle,   \* recycle_warp_egress
  task,      \* a run of the worker, and its lock
  crashes,   \* crashes so far
  failed,    \* history: egresses that failed in the last round
  recent     \* history: ticks left of the cooldown of a reported restart

warpVars == <<health, streak, cooldown, cursor, due, probe, recycle, task, crashes,
              failed, recent>>
redisVars == <<streak, cooldown, cursor>>

Health == {"on", "down"}
ProbeState == [pc : {"idle", "gather", "restart", "await"}, at : Egress, todo : SUBSET Egress,
               left : 0 .. RoundBudget]
RecycleState == [pc : {"idle", "await"}, at : Egress]
TaskState == [pc : {"none", "queued", "running"}, locked : BOOLEAN, hidden : BOOLEAN]

(* Every variable has its type; no budget or cooldown is overdrawn. *)
WarpTypeOK ==
  /\ health \in [Egress -> Health]
  /\ streak \in [Egress -> 0 .. Failures]
  /\ cooldown \in [Egress -> 0 .. Cooldown]
  /\ cursor \in Egress
  /\ due \in BOOLEAN
  /\ probe \in ProbeState
  /\ recycle \in RecycleState
  /\ task \in TaskState
  /\ crashes \in 0 .. CrashLimit
  /\ failed \subseteq Egress
  /\ recent \in [Egress -> 0 .. Cooldown]

ProbeOff == [pc |-> "idle", at |-> 0, todo |-> {}, left |-> 0]
RecycleOff == [pc |-> "idle", at |-> 0]
NoRun == [pc |-> "none", locked |-> FALSE, hidden |-> FALSE]

WarpInit ==
  /\ health = [e \in Egress |-> "on"]
  /\ streak = [e \in Egress |-> 0]
  /\ cooldown = [e \in Egress |-> 0]
  /\ cursor = 0
  /\ due = TRUE
  /\ probe = ProbeOff
  /\ recycle = RecycleOff
  /\ task = NoRun
  /\ crashes = 0
  /\ failed = {}
  /\ recent = [e \in Egress |-> 0]

----------------------------------------------------------------------------
(* The probe. *)

Saturated(n) == IF n > Failures THEN Failures ELSE n

(* The probes are sent.  todo has the egresses that have been down since.   *)
SendProbes ==
  /\ due
  /\ probe.pc = "idle"
  /\ due' = FALSE
  /\ probe' = [pc |-> "gather", at |-> 0, left |-> RoundBudget,
               todo |-> {e \in Egress : health[e] = "down"}]
  /\ UNCHANGED <<health, redisVars, recycle, task, crashes, failed, recent>>

(* An egress that works again while its probe is out may answer it. *)
MayAnswer ==
  probe' = IF probe.pc = "gather"
           THEN [probe EXCEPT !.todo = {e \in @ : health'[e] = "down"}] ELSE probe

(* Mutated form: an answer does not end a row of failures. *)
GatherProbesWithoutReset ==
  /\ probe.pc = "gather"
  /\ \E bad \in SUBSET Egress :
       /\ probe.todo \subseteq bad
       /\ failed' = bad
       /\ streak' = [e \in Egress |-> IF e \in bad THEN Saturated(streak[e] + 1) ELSE streak[e]]
       /\ probe' = [pc |-> "restart", at |-> 0, left |-> RoundBudget,
                    todo |-> {e \in bad : streak[e] + 1 >= Failures}]
  /\ UNCHANGED <<health, cooldown, cursor, due, recycle, task, crashes, recent>>

(* All answers are in.  An egress that was down all the while has failed;   *)
(* any other may have answered, though it is down by now, or have failed    *)
(* by a time-out.                                                          *)
GatherProbes ==
  /\ probe.pc = "gather"
  /\ \E bad \in SUBSET Egress :
       /\ probe.todo \subseteq bad
       /\ failed' = bad
       /\ streak' = [e \in Egress |-> IF e \in bad THEN Saturated(streak[e] + 1) ELSE 0]
       /\ probe' = [pc |-> "restart", at |-> 0, left |-> RoundBudget,
                    todo |-> {e \in bad : streak[e] + 1 >= Failures}]
  /\ UNCHANGED <<health, cooldown, cursor, due, recycle, task, crashes, recent>>

IsNext(e, S) == e \in S /\ \A d \in S : e <= d

(* Mutated form: the loop ends at the first egress that has its cooldown. *)
ReadyUpToCooled == {e \in probe.todo : \A d \in probe.todo : d <= e => cooldown[d] = 0}

(* The egresses of this round whose restart the cooldown does not forbid. *)
Ready == {e \in probe.todo : cooldown[e] = 0}

(* The key is set first, then the restart is asked for. *)
BeginProbeRestart(e) ==
  /\ probe.pc = "restart"
  /\ probe.left > 0
  /\ IsNext(e, Ready)
  /\ cooldown' = [cooldown EXCEPT ![e] = Cooldown]
  /\ probe' = [pc |-> "await", at |-> e, left |-> probe.left - 1,
               todo |-> {d \in probe.todo : d > e}]
  /\ health' = [health EXCEPT ![e] = "down"]
  /\ UNCHANGED <<streak, cursor, due, recycle, task, crashes, failed, recent>>

(* Whatever the supervisor says, the egress may work or not. *)
ProbeRestartEnds ==
  /\ probe.pc = "await"
  /\ probe' = [probe EXCEPT !.pc = "restart"]
  /\ \E h \in Health : health' = [health EXCEPT ![probe.at] = h]
  /\ \/ /\ streak' = [streak EXCEPT ![probe.at] = 0]
        /\ recent' = [recent EXCEPT ![probe.at] = Cooldown]
     \/ UNCHANGED <<streak, recent>>
  /\ UNCHANGED <<cooldown, cursor, due, recycle, task, crashes, failed>>

ProbeRoundEnds ==
  /\ probe.pc = "restart"
  /\ probe.left = 0 \/ Ready = {}
  /\ probe' = ProbeOff
  /\ UNCHANGED <<health, redisVars, due, recycle, task, crashes, failed, recent>>

----------------------------------------------------------------------------
(* The recycling. *)

(* Mutated form: a run counts only as long as it is queued. *)
TaskInQueue == task.pc = "queued"

(* task_queue is not empty, or there is a task_lock. *)
TaskInFlight == task.pc = "queued" \/ task.locked

NextCursor == (cursor + 1) % WarpCount

SkipRecycle ==
  /\ recycle.pc = "idle"
  /\ ~ TaskInFlight
  /\ cursor' = NextCursor
  /\ cooldown[NextCursor] > 0
  /\ UNCHANGED <<health, streak, cooldown, due, probe, recycle, task, crashes, failed, recent>>

BeginRecycle ==
  /\ recycle.pc = "idle"
  /\ ~ TaskInFlight
  /\ cursor' = NextCursor
  /\ cooldown[NextCursor] = 0
  /\ recycle' = [pc |-> "await", at |-> NextCursor]
  /\ health' = [health EXCEPT ![NextCursor] = "down"]
  /\ UNCHANGED <<streak, cooldown, due, probe, task, crashes, failed, recent>>

RecycleRefused ==
  /\ recycle.pc = "await"
  /\ recycle' = RecycleOff
  /\ \E h \in Health : health' = [health EXCEPT ![recycle.at] = h]
  /\ MayAnswer
  /\ task' = [task EXCEPT !.hidden = @ /\ ~ task.locked]
  /\ UNCHANGED <<redisVars, due, crashes, failed, recent>>

(* Mutated form: the recycled egress gets no cooldown. *)
RecycleUnmarked ==
  /\ recycle.pc = "await"
  /\ recycle' = RecycleOff
  /\ \E h \in Health : health' = [health EXCEPT ![recycle.at] = h]
  /\ MayAnswer
  /\ task' = [task EXCEPT !.hidden = @ /\ ~ task.locked]
  /\ streak' = [streak EXCEPT ![recycle.at] = 0]
  /\ recent' = [recent EXCEPT ![recycle.at] = Cooldown]
  /\ UNCHANGED <<cooldown, cursor, due, crashes, failed>>

RecycleAccepted ==
  /\ recycle.pc = "await"
  /\ recycle' = RecycleOff
  /\ \E h \in Health : health' = [health EXCEPT ![recycle.at] = h]
  /\ MayAnswer
  /\ task' = [task EXCEPT !.hidden = @ /\ ~ task.locked]
  /\ cooldown' = [cooldown EXCEPT ![recycle.at] = Cooldown]
  /\ streak' = [streak EXCEPT ![recycle.at] = 0]
  /\ recent' = [recent EXCEPT ![recycle.at] = Cooldown]
  /\ UNCHANGED <<cursor, due, crashes, failed>>

----------------------------------------------------------------------------
(* Runs, time, faults. *)

warpJobs == <<health, redisVars, due, probe, recycle, crashes, failed, recent>>

Recycling == recycle.pc = "await"

(* The lock comes before the entry of the queue.  hidden says that the look *)
(* of the recycling at locks and queue came too early, or that a deletion   *)
(* had dropped the lock by then.                                           *)
ArriveTask ==
  /\ task.pc = "none"
  /\ task' = [pc |-> "queued", locked |-> TRUE, hidden |-> Recycling]
  /\ UNCHANGED warpJobs

TakeTask ==
  /\ task.pc = "queued"
  /\ task' = [task EXCEPT !.pc = "running", !.locked = TRUE, !.hidden = @ /\ Recycling]
  /\ UNCHANGED warpJobs

(* A retry keeps the lock. *)
RetryTask ==
  /\ task.pc = "running"
  /\ task' = [task EXCEPT !.pc = "queued"]
  /\ UNCHANGED warpJobs

EndTask ==
  /\ task.pc = "running"
  /\ task' = NoRun
  /\ UNCHANGED warpJobs

(* The account of the run is deleted, and its lock with it. *)
DropTaskLock ==
  /\ task.locked
  /\ task' = [task EXCEPT !.locked = FALSE, !.hidden = TRUE]
  /\ UNCHANGED warpJobs

HealthChanges(e) ==
  /\ \E h \in Health : health[e] # h /\ health' = [health EXCEPT ![e] = h]
  /\ MayAnswer
  /\ UNCHANGED <<redisVars, due, recycle, task, crashes, failed, recent>>

Down(n) == IF n > 0 THEN n - 1 ELSE 0

(* A round, and a restart of it, is over well within a tick. *)
ProbeTick ==
  /\ ~ due
  /\ probe.pc = "idle"
  /\ due' = TRUE
  /\ cooldown' = [e \in Egress |-> Down(cooldown[e])]
  /\ recent' = [e \in Egress |-> Down(recent[e])]
  /\ UNCHANGED <<health, streak, cursor, probe, recycle, task, crashes, failed>>

(* The web process starts again; the lock of the last round is still there. *)
WebCrash ==
  /\ crashes < CrashLimit
  /\ crashes' = crashes + 1
  /\ probe' = ProbeOff
  /\ recycle' = RecycleOff
  /\ due' = FALSE
  /\ task' = [task EXCEPT !.hidden = @ /\ ~ task.locked]
  /\ UNCHANGED <<health, redisVars, failed, recent>>

ProbeStep ==
  \/ SendProbes \/ GatherProbes \/ (\E e \in Egress : BeginProbeRestart(e))
  \/ ProbeRestartEnds \/ ProbeRoundEnds

WarpNext ==
  \/ ProbeStep \/ ProbeTick
  \/ SkipRecycle \/ BeginRecycle \/ RecycleRefused \/ RecycleAccepted
  \/ ArriveTask \/ TakeTask \/ RetryTask \/ EndTask \/ DropTaskLock
  \/ (\E e \in Egress : HealthChanges(e)) \/ WebCrash

WarpSpec == WarpInit /\ [][WarpNext]_warpVars

(* The scheduler runs the probe, and its restarts have a time-out. *)
WarpFairness == WF_warpVars(ProbeStep) /\ WF_warpVars(ProbeTick)

FairWarpSpec == WarpSpec /\ WarpFairness

----------------------------------------------------------------------------
(* The preventive restart takes no egress away from a run that was there    *)
(* when recycle_warp_egress looked: not from a queued one, a running one or *)
(* one that waits for its retry.                                           *)
RecycleSparesRuns ==
  task.pc # "none" /\ Recycling => task.hidden

(* A single failed probe restarts nothing, unless one is enough: an egress  *)
(* that the probe restarts has failed in this round and in the last one.    *)
ProbeNeedsRow ==
  [][GatherProbes /\ Failures > 1 => probe'.todo \subseteq failed \cap failed']_warpVars

(* After a restart that was reported as done, neither job begins another    *)
(* one of the same egress before the cooldown is over.                      *)
RestartsApart ==
  [][\A e \in Egress : BeginProbeRestart(e) \/ (BeginRecycle /\ NextCursor = e)
       => recent[e] = 0]_warpVars

BeingRestarted(e) ==
  (probe.pc = "await" /\ probe.at = e) \/ (recycle.pc = "await" /\ recycle.at = e)

(* An egress does not stay down unnoticed: it works again or is restarted,  *)
(* as long as the rounds of one cooldown can restart them all.             *)
DownIsRestarted ==
  \A e \in Egress : health[e] = "down" ~> health[e] = "on" \/ BeingRestarted(e)
=============================================================================
