------------------------------ MODULE MCKiosk ------------------------------
(* Values for the constants of Kiosk. *)
EXTENDS Kiosk, TLC

CONSTANTS hades, thread1, thread2

MCGames == [c \in Cycle |-> {hades}]

Faults(e, r, c, d, l) ==
  [k \in FaultKind |-> CASE k = "expiry" -> e [] k = "redis" -> r
                         [] k = "crash" -> c [] k = "deletion" -> d [] OTHER -> l]

NoFaults == Faults(0, 0, 0, 0, 0)

CommandCrashDeletion == Faults(0, 1, 1, 1, 0)

OneDeletion == Faults(0, 0, 0, 1, 0)

OneCrash == Faults(0, 0, 1, 0, 0)

Expiries == Faults(1, 0, 0, 0, 1)

(* Any two of the three faults strike, in any order. *)
AtMostTwoFaults ==
  faults["redis"] + faults["crash"] + faults["deletion"] <= 2

Threads == Permutations({thread1, thread2})

Cycles == Permutations(Cycle)
=============================================================================
