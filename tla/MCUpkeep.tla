------------------------------ MODULE MCUpkeep ------------------------------
(***************************************************************************)
(* The egresses and the profiles, checked side by side.  The three modules *)
(* share no variable, so only one of them moves in a behaviour: the states *)
(* add up, and each keeps the fairness it asks for.                        *)
(***************************************************************************)
EXTENDS WarpEgress, WarpRecovery, ProfileSweep

VARIABLE focus

upkeepVars == <<focus, warpVars, recoveryVars, sweepVars>>

Init ==
  /\ focus \in {"egress", "recovery", "sweep"}
  /\ WarpInit /\ RecoveryInit /\ SweepInit

Next ==
  /\ \/ focus = "egress" /\ WarpNext /\ UNCHANGED <<recoveryVars, sweepVars>>
     \/ focus = "recovery" /\ RecoveryNext /\ UNCHANGED <<warpVars, sweepVars>>
     \/ focus = "sweep" /\ SweepNext /\ UNCHANGED <<warpVars, recoveryVars>>
  /\ UNCHANGED focus

(* WarpFairness, RecoveryFairness and SweepFairness, each under its focus. *)
Fairness ==
  /\ WF_warpVars(focus = "egress" /\ ProbeStep) /\ WF_warpVars(focus = "egress" /\ ProbeTick)
  /\ WF_recoveryVars(focus = "recovery" /\ RecoveryStep)
  /\ WF_sweepVars(focus = "sweep" /\ Sweep) /\ WF_sweepVars(focus = "sweep" /\ TrashAges)

Spec == Init /\ [][Next]_upkeepVars /\ Fairness

=============================================================================
