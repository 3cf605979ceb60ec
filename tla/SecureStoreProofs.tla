------------------------- MODULE SecureStoreProofs -------------------------
(***************************************************************************)
(* What SecureStore keeps invariant for any number of users, runs, cycles  *)
(* and titles, and any interleaving of its operations.                     *)
(***************************************************************************)
EXTENDS SecureStore, TLAPS

(* A pending credential belongs to a verify run that can still use it.      *)
PendingMatch ==
  \A r \in Run : pending[r] # None =>
    /\ taskRuns[r] # None
    /\ taskRuns[r].mode = "verify"
    /\ taskRuns[r].state \notin {"failed", "manual_required"}

(* The profile of a verify run was brought by a run of the same user.       *)
ProfileMatch ==
  \A r \in Run : taskRuns[r] # None /\ taskRuns[r].mode = "verify" =>
    /\ taskRuns[r].profile \in Run
    /\ taskRuns[taskRuns[r].profile] # None
    /\ taskRuns[taskRuns[r].profile].email.user = taskRuns[r].email.user

(* Only claim runs have a cycle. *)
CycleRunsClaim ==
  \A r \in Run :
    taskRuns[r] # None /\ taskRuns[r].cycle # None => taskRuns[r].mode = "claim"

(* A claim run of an address that was never redacted is the one assigned.   *)
AssignedOnce ==
  \A r \in Run, a \in Address, c \in Cycle :
    a.removals = 0 /\ Claims(r, a, c) => assignments[a][c] = r

StoreIInv ==
  /\ StoreTypeOK
  /\ PendingMatch
  /\ ProfileMatch
  /\ CycleRunsClaim
  /\ ReferencesMatch
  /\ AssignedOnce
  /\ UserIsolation

----------------------------------------------------------------------------
(* Types *)

LEMMA RedactedType ==
  ASSUME NEW a \in Address, a.removals < MaxRemovals
  PROVE  Redacted(a) \in Address /\ Redacted(a).user = a.user /\ Redacted(a).removals > 0
  BY StoreAssumption DEF Redacted, Address

LEMMA InitType == StoreInit => StoreTypeOK
  BY StoreAssumption DEF StoreInit, StoreTypeOK

LEMMA CreateTaskRunType ==
  ASSUME StoreTypeOK, NEW r \in Run, NEW a \in Address, NEW m \in Mode,
         CreateTaskRun(r, a, m)
  PROVE  StoreTypeOK'
<1> DEFINE p == IF m = "claim" THEN None
                ELSE IF accounts[a] # None THEN accounts[a].profile ELSE r
<1>1. taskRuns' \in [Run -> TaskRow \cup {None}]
  <2>1. p \in Run \cup {None}
    BY DEF StoreTypeOK, AccountRow
  <2>2. [email |-> a, mode |-> m, state |-> "queued", cycle |-> None, retries |-> 0,
         profile |-> p] \in TaskRow
    BY <2>1, StoreAssumption DEF TaskRow, Mode, TaskState
  <2> QED  BY <2>2 DEF StoreTypeOK, CreateTaskRun
<1>2. pending' \in [Run -> PendingState \cup {None}]
  BY DEF StoreTypeOK, CreateTaskRun, PendingState
<1> QED  BY <1>1, <1>2 DEF StoreTypeOK, CreateTaskRun

LEMMA UpdateTaskType ==
  ASSUME StoreTypeOK, NEW r \in TaskIds, NEW s \in Written, NEW n \in 0 .. MaxRetries,
         UpdateTask(r, s, n)
  PROVE  StoreTypeOK'
<1> DEFINE row == [taskRuns[r] EXCEPT !.state = s, !.retries = n]
<1>1. taskRuns' \in [Run -> TaskRow \cup {None}]
  <2>1. r \in Run /\ taskRuns[r] \in TaskRow
    BY DEF StoreTypeOK, TaskIds
  <2>2. row \in TaskRow
    BY <2>1, StoreAssumption DEF TaskRow
  <2>3. taskRuns' = [taskRuns EXCEPT ![r] = row]
    BY <2>1 DEF StoreTypeOK, UpdateTask
  <2> QED  BY <2>1, <2>2, <2>3 DEF StoreTypeOK
<1>2. pending' \in [Run -> PendingState \cup {None}]
  BY DEF StoreTypeOK, UpdateTask
<1> QED  BY <1>1, <1>2 DEF StoreTypeOK, UpdateTask

(* What create_cycle_assignments writes, with the fresh runs f it draws.    *)
AssignsRuns(c, due, f) ==
  /\ f \in [due -> Run]
  /\ \A a, b \in due : f[a] = f[b] => a = b
  /\ IsFresh({f[a] : a \in due})
  /\ taskRuns' = [r \in Run |->
       IF \E a \in due : f[a] = r
       THEN [email |-> CHOOSE a \in due : f[a] = r, mode |-> "claim",
             state |-> "scheduled", cycle |-> c, retries |-> 0, profile |-> None]
       ELSE taskRuns[r]]
  /\ assignments' = [a \in Address |->
       IF a \in due THEN [assignments[a] EXCEPT ![c] = f[a]]
       ELSE assignments[a]]

LEMMA AssignmentDraws ==
  ASSUME NEW c, NEW due, CreateCycleAssignments(c, due)
  PROVE  \E f : AssignsRuns(c, due, f)
  BY DEF CreateCycleAssignments, AssignsRuns

(* The row of a claim run. *)
LEMMA ClaimRowType ==
  ASSUME NEW a \in Address, NEW c \in Cycle
  PROVE  [email |-> a, mode |-> "claim", state |-> "scheduled", cycle |-> c,
          retries |-> 0, profile |-> None] \in TaskRow
  BY StoreAssumption DEF TaskRow, Mode, TaskState

LEMMA CreateCycleAssignmentsType ==
  ASSUME StoreTypeOK, NEW c \in Cycle, NEW due \in SUBSET Address,
         CreateCycleAssignments(c, due)
  PROVE  StoreTypeOK'
<1>1. PICK f : AssignsRuns(c, due, f)
  BY AssignmentDraws
<1>2. taskRuns' \in [Run -> TaskRow \cup {None}]
  <2>1. ASSUME NEW r \in Run, \E a \in due : f[a] = r
        PROVE  (CHOOSE a \in due : f[a] = r) \in Address
    BY <2>1
  <2> QED  BY <1>1, <2>1, ClaimRowType DEF StoreTypeOK, AssignsRuns
<1>3. assignments' \in [Address -> [Cycle -> Run \cup {None}]]
  BY <1>1 DEF StoreTypeOK, AssignsRuns
<1> QED  BY <1>2, <1>3 DEF StoreTypeOK, CreateCycleAssignments

LEMMA DeleteAccountRecordType ==
  ASSUME StoreTypeOK, NEW a \in Address, DeleteAccountRecord(a)
  PROVE  StoreTypeOK'
<1>1. taskRuns' \in [Run -> TaskRow \cup {None}]
  <2>1. Redacted(a) \in Address
    BY RedactedType DEF DeleteAccountRecord
  <2>2. ASSUME NEW row \in TaskRow
        PROVE  [row EXCEPT !.email = Redacted(a)] \in TaskRow
    BY <2>1 DEF TaskRow
  <2> QED  BY <2>2 DEF StoreTypeOK, DeleteAccountRecord
<1> QED  BY <1>1 DEF StoreTypeOK, DeleteAccountRecord

LEMMA MarkCycleCompleteType ==
  ASSUME StoreTypeOK, NEW r \in CycleRuns, NEW a \in Address, MarkCycleComplete(r, a)
  PROVE  StoreTypeOK'
<1>1. r \in Run /\ taskRuns[r].cycle \in Cycle
  BY DEF StoreTypeOK, CycleRuns, TaskIds, TaskRow
<1>2. completions' \in [Address -> [Cycle -> Run \cup {None}]]
  BY <1>1 DEF StoreTypeOK, MarkCycleComplete
<1> QED  BY <1>2 DEF StoreTypeOK, MarkCycleComplete

LEMMA NextType == StoreIInv /\ [StoreNext]_storeVars => StoreTypeOK'
<1> SUFFICES ASSUME StoreIInv, [StoreNext]_storeVars  PROVE StoreTypeOK'
  OBVIOUS
<1> StoreTypeOK /\ ProfileMatch
  BY DEF StoreIInv
<1>1. CASE \E r \in Run, a \in Address, m \in Mode : CreateTaskRun(r, a, m)
  BY <1>1, CreateTaskRunType
<1>2. CASE \E r \in Run : CredentialExpires(r)
  BY <1>2 DEF StoreTypeOK, CredentialExpires, PendingState
<1>3. CASE \E r \in Run : LoadTaskContext(r)
  BY <1>3 DEF StoreTypeOK, LoadTaskContext
<1>4. CASE \E r \in TaskIds, s \in Written, n \in 0 .. MaxRetries : UpdateTask(r, s, n)
  BY <1>4, UpdateTaskType
<1>5. CASE \E r \in TaskIds, a \in Address : Confirms(r, a)
  <2>1. PICK r \in TaskIds, a \in Address : Confirms(r, a)
    BY <1>5
  <2>2. r \in Run /\ taskRuns[r].profile \in Run
    BY <2>1 DEF ProfileMatch, Confirms, TaskIds
  <2>3. accounts' \in [Address -> AccountRow \cup {None}]
    BY <2>1, <2>2 DEF StoreTypeOK, Confirms, ConfirmPendingAccount, AccountRow
  <2> QED  BY <2>1, <2>3 DEF StoreTypeOK, Confirms, ConfirmPendingAccount
<1>6. CASE \E r \in TaskIds, t \in Title, g \in Reported, overwrite \in BOOLEAN :
             RecordGameResult(r, t, g, overwrite)
  <2>1. PICK r \in TaskIds, t \in Title, g \in Reported, overwrite \in BOOLEAN :
          RecordGameResult(r, t, g, overwrite)
    BY <1>6
  <2>2. results' = [results EXCEPT ![r][t] = g] \/ results' = results
    BY <2>1 DEF RecordGameResult
  <2>3. results' \in [Run -> [Title -> GameState \cup {None}]]
    <3>1. g \in GameState /\ results[r] \in [Title -> GameState \cup {None}]
      BY StoreAssumption DEF StoreTypeOK, TaskIds
    <3>2. [results[r] EXCEPT ![t] = g] \in [Title -> GameState \cup {None}]
      BY <3>1
    <3> QED  BY <2>2, <3>2 DEF StoreTypeOK
  <2> QED  BY <2>1, <2>3 DEF StoreTypeOK, RecordGameResult
<1>7. CASE \E c \in Cycle : SetActivePromotionCycle(c)
  BY <1>7 DEF StoreTypeOK, SetActivePromotionCycle
<1>8. CASE \E S \in SUBSET CycleRuns : CancelObsoleteScheduledRuns(S)
  <2>1. PICK S \in SUBSET CycleRuns : CancelObsoleteScheduledRuns(S)
    BY <1>8
  <2>2. ASSUME NEW row \in TaskRow
        PROVE  [row EXCEPT !.state = "failed"] \in TaskRow
    BY DEF TaskRow, TaskState
  <2>3. \A r \in S : taskRuns[r] \in TaskRow
    BY DEF StoreTypeOK, CycleRuns, TaskIds
  <2>4. taskRuns' \in [Run -> TaskRow \cup {None}]
    BY <2>1, <2>2, <2>3 DEF StoreTypeOK, CancelObsoleteScheduledRuns
  <2> QED  BY <2>1, <2>4 DEF StoreTypeOK, CancelObsoleteScheduledRuns
<1>9. CASE \E c \in Cycle, due \in SUBSET Address : CreateCycleAssignments(c, due)
  BY <1>9, CreateCycleAssignmentsType
<1>10. CASE \E r \in CycleRuns, a \in Address : Completes(r, a)
  BY <1>10, MarkCycleCompleteType DEF Completes, CycleRuns
<1>11. CASE \E a \in Address : DeleteAccountRecord(a)
  BY <1>11, DeleteAccountRecordType
<1>12. CASE UNCHANGED storeVars
  BY <1>12 DEF storeVars, StoreTypeOK
<1> QED
  BY <1>1, <1>2, <1>3, <1>4, <1>5, <1>6, <1>7, <1>8, <1>9, <1>10, <1>11, <1>12
     DEF StoreNext

----------------------------------------------------------------------------
(* Runs are never lost, nor do they change mode, cycle or user: only a      *)
(* deletion gives one a new address.                                        *)

LEMMA RunsPersist ==
  ASSUME StoreIInv, [StoreNext]_storeVars, NEW r \in Run, taskRuns[r] # None
  PROVE  /\ taskRuns'[r] # None
         /\ taskRuns'[r].mode = taskRuns[r].mode
         /\ taskRuns'[r].cycle = taskRuns[r].cycle
         /\ taskRuns'[r].profile = taskRuns[r].profile
         /\ taskRuns'[r].email.user = taskRuns[r].email.user
         /\ \/ taskRuns'[r].email = taskRuns[r].email
            \/ /\ DeleteAccountRecord(taskRuns[r].email)
               /\ taskRuns'[r].email = Redacted(taskRuns[r].email)
<1> DEFINE Same(row) ==
      /\ row # None
      /\ row.mode = taskRuns[r].mode
      /\ row.cycle = taskRuns[r].cycle
      /\ row.profile = taskRuns[r].profile
      /\ row.email = taskRuns[r].email
<1>1. taskRuns[r] \in TaskRow /\ taskRuns \in [Run -> TaskRow \cup {None}]
  BY DEF StoreIInv, StoreTypeOK
<1>2. SUFFICES \/ Same(taskRuns'[r])
               \/ /\ DeleteAccountRecord(taskRuns[r].email)
                  /\ taskRuns'[r] = [taskRuns[r] EXCEPT !.email = Redacted(taskRuns[r].email)]
  <2>1. CASE Same(taskRuns'[r])
    BY <2>1
  <2>2. CASE /\ DeleteAccountRecord(taskRuns[r].email)
             /\ taskRuns'[r] = [taskRuns[r] EXCEPT !.email = Redacted(taskRuns[r].email)]
    <3>1. taskRuns[r].email \in Address /\ taskRuns[r].email.removals < MaxRemovals
      BY <1>1, <2>2 DEF TaskRow, DeleteAccountRecord
    <3>2. Redacted(taskRuns[r].email).user = taskRuns[r].email.user
      BY <3>1, RedactedType
    <3>3. taskRuns'[r] # None
      <4>1. taskRuns' \in [Run -> TaskRow \cup {None}]
        BY NextType DEF StoreTypeOK
      <4>2. taskRuns'[r] \in TaskRow
        BY <1>1, <2>2, <3>1, RedactedType DEF TaskRow
      <4> QED  BY <4>2, StoreAssumption
    <3> QED  BY <1>1, <2>2, <3>2, <3>3 DEF TaskRow
  <2> QED  BY <1>2, <2>1, <2>2
<1>3. CASE UNCHANGED taskRuns
  BY <1>3
<1>4. CASE \E q \in Run, a \in Address, m \in Mode : CreateTaskRun(q, a, m)
  BY <1>1, <1>4 DEF CreateTaskRun, IsFresh, TaskIds
<1>5. CASE \E q \in TaskIds, s \in Written, n \in 0 .. MaxRetries : UpdateTask(q, s, n)
  <2>1. PICK q \in TaskIds, s \in Written, n \in 0 .. MaxRetries : UpdateTask(q, s, n)
    BY <1>5
  <2>2. CASE q = r
    <3>1. taskRuns'[r] = [taskRuns[r] EXCEPT !.state = s, !.retries = n]
      BY <1>1, <2>1, <2>2 DEF UpdateTask
    <3>2. [taskRuns[r] EXCEPT !.state = s, !.retries = n] \in TaskRow
      BY <1>1, StoreAssumption DEF TaskRow
    <3> QED  BY <1>1, <3>1, <3>2, StoreAssumption DEF TaskRow
  <2>3. CASE q # r
    BY <1>1, <2>1, <2>3 DEF UpdateTask
  <2> QED  BY <2>2, <2>3
<1>6. CASE \E S \in SUBSET CycleRuns : CancelObsoleteScheduledRuns(S)
  <2>1. taskRuns'[r] \in {taskRuns[r], [taskRuns[r] EXCEPT !.state = "failed"]}
    BY <1>6 DEF CancelObsoleteScheduledRuns
  <2>2. [taskRuns[r] EXCEPT !.state = "failed"] \in TaskRow
    BY <1>1 DEF TaskRow, TaskState
  <2> QED  BY <1>1, <2>1, <2>2, StoreAssumption DEF TaskRow
<1>7. CASE \E c \in Cycle, due \in SUBSET Address : CreateCycleAssignments(c, due)
  <2>1. PICK c \in Cycle, due \in SUBSET Address : CreateCycleAssignments(c, due)
    BY <1>7
  <2>2. PICK f : AssignsRuns(c, due, f)
    BY <2>1, AssignmentDraws
  <2>3. ~ \E a \in due : f[a] = r
    BY <2>2 DEF AssignsRuns, IsFresh, TaskIds
  <2> QED  BY <2>2, <2>3 DEF AssignsRuns
<1>8. CASE \E a \in Address : DeleteAccountRecord(a)
  <2>1. PICK a \in Address : DeleteAccountRecord(a)
    BY <1>8
  <2>2. CASE taskRuns[r].email = a
    BY <1>1, <2>1, <2>2 DEF DeleteAccountRecord
  <2>3. CASE taskRuns[r].email # a
    BY <1>1, <2>1, <2>3 DEF DeleteAccountRecord
  <2> QED  BY <2>2, <2>3
<1> QED
  BY <1>3, <1>4, <1>5, <1>6, <1>7, <1>8
     DEF StoreNext, storeVars, CredentialExpires, LoadTaskContext, Confirms,
         ConfirmPendingAccount, RecordGameResult, SetActivePromotionCycle, Completes,
         MarkCycleComplete

(* A new run is one that create_task_run or create_cycle_assignments made.  *)
LEMMA RunsAppear ==
  ASSUME StoreIInv, [StoreNext]_storeVars, NEW r \in Run,
         taskRuns[r] = None, taskRuns'[r] # None
  PROVE  \/ \E a \in Address, m \in Mode : CreateTaskRun(r, a, m)
         \/ \E c \in Cycle, due \in SUBSET Address : \E f :
              /\ CreateCycleAssignments(c, due)
              /\ AssignsRuns(c, due, f)
              /\ \E a \in due : f[a] = r
<1>1. CASE UNCHANGED taskRuns
  BY <1>1
<1>2. CASE \E q \in Run, a \in Address, m \in Mode : CreateTaskRun(q, a, m)
  <2>1. PICK q \in Run, a \in Address, m \in Mode : CreateTaskRun(q, a, m)
    BY <1>2
  <2>2. q = r
    BY <2>1 DEF CreateTaskRun, StoreIInv, StoreTypeOK
  <2> QED  BY <2>1, <2>2
<1>3. CASE \E q \in TaskIds, s \in Written, n \in 0 .. MaxRetries : UpdateTask(q, s, n)
  BY <1>3 DEF UpdateTask, TaskIds, StoreIInv, StoreTypeOK
<1>4. CASE \E S \in SUBSET CycleRuns : CancelObsoleteScheduledRuns(S)
  BY <1>4 DEF CancelObsoleteScheduledRuns, CycleRuns, TaskIds
<1>5. CASE \E c \in Cycle, due \in SUBSET Address : CreateCycleAssignments(c, due)
  <2>1. PICK c \in Cycle, due \in SUBSET Address : CreateCycleAssignments(c, due)
    BY <1>5
  <2>2. PICK f : AssignsRuns(c, due, f)
    BY <2>1, AssignmentDraws
  <2>3. \E a \in due : f[a] = r
    BY <2>2 DEF AssignsRuns
  <2> QED  BY <2>1, <2>2, <2>3
<1>6. CASE \E a \in Address : DeleteAccountRecord(a)
  BY <1>6 DEF DeleteAccountRecord
<1> QED
  BY <1>1, <1>2, <1>3, <1>4, <1>5, <1>6
     DEF StoreNext, storeVars, CredentialExpires, LoadTaskContext, Confirms,
         ConfirmPendingAccount, RecordGameResult, SetActivePromotionCycle, Completes,
         MarkCycleComplete

(* The row that create_cycle_assignments gives account a. *)
LEMMA ClaimRow ==
  ASSUME NEW c \in Cycle, NEW due \in SUBSET Address, NEW f, AssignsRuns(c, due, f),
         NEW a \in due
  PROVE  /\ f[a] \in Run
         /\ taskRuns'[f[a]] = [email |-> a, mode |-> "claim", state |-> "scheduled",
                               cycle |-> c, retries |-> 0, profile |-> None]
         /\ Claims(f[a], a, c)'
<1>1. f[a] \in Run
  BY DEF AssignsRuns
<1>2. (CHOOSE b \in due : f[b] = f[a]) = a
  BY DEF AssignsRuns
<1>3. taskRuns'[f[a]] = [email |-> a, mode |-> "claim", state |-> "scheduled",
                         cycle |-> c, retries |-> 0, profile |-> None]
  BY <1>1, <1>2 DEF AssignsRuns
<1>4. taskRuns'[f[a]] # None
  BY <1>3, ClaimRowType, StoreAssumption
<1> QED  BY <1>1, <1>3, <1>4 DEF Claims

(* Nothing but its deletion takes an account away.                          *)
LEMMA AccountsPersist ==
  ASSUME StoreIInv, [StoreNext]_storeVars, NEW a \in Address, accounts[a] # None,
         ~ DeleteAccountRecord(a)
  PROVE  accounts'[a] # None
<1>1. CASE UNCHANGED accounts
  BY <1>1
<1>2. CASE \E r \in TaskIds, b \in Address : Confirms(r, b)
  <2>1. PICK r \in TaskIds, b \in Address : Confirms(r, b)
    BY <1>2
  <2>2. CASE a = b
    <3>1. StoreTypeOK'
      BY NextType
    <3>2. accounts'[a] = [credential |-> r, profile |-> accounts[a].profile]
      BY <2>1, <2>2 DEF Confirms, ConfirmPendingAccount, StoreIInv, StoreTypeOK
    <3>3. accounts'[a] \in AccountRow
      BY <3>2 DEF StoreIInv, StoreTypeOK, AccountRow, TaskIds
    <3> QED  BY <3>3, StoreAssumption
  <2>3. CASE a # b
    BY <2>1, <2>3 DEF Confirms, ConfirmPendingAccount, StoreIInv, StoreTypeOK
  <2> QED  BY <2>2, <2>3
<1>3. CASE \E b \in Address : DeleteAccountRecord(b)
  <2>1. PICK b \in Address : DeleteAccountRecord(b)
    BY <1>3
  <2> QED  BY <2>1 DEF DeleteAccountRecord, StoreIInv, StoreTypeOK
<1> QED
  BY <1>1, <1>2, <1>3
     DEF StoreNext, storeVars, CreateTaskRun, CredentialExpires, LoadTaskContext, UpdateTask,
         RecordGameResult, SetActivePromotionCycle, CancelObsoleteScheduledRuns,
         CreateCycleAssignments, Completes, MarkCycleComplete

----------------------------------------------------------------------------
(* The parts of the inductive invariant, one by one *)

LEMMA InitInvariant == StoreInit => StoreIInv
<1>1. StoreInit => StoreTypeOK
  BY InitType
<1> QED
  BY <1>1 DEF StoreIInv, StoreInit, PendingMatch, ProfileMatch, CycleRunsClaim,
              ReferencesMatch, AssignedOnce, UserIsolation, Claims

LEMMA CycleRunsClaimStep ==
  ASSUME StoreIInv, [StoreNext]_storeVars
  PROVE  CycleRunsClaim'
<1> SUFFICES ASSUME NEW r \in Run, taskRuns'[r] # None, taskRuns'[r].cycle # None
             PROVE  taskRuns'[r].mode = "claim"
  BY DEF CycleRunsClaim
<1>1. CASE taskRuns[r] # None
  BY <1>1, RunsPersist DEF StoreIInv, CycleRunsClaim
<1>2. CASE taskRuns[r] = None
  <2>1. CASE \E a \in Address, m \in Mode : CreateTaskRun(r, a, m)
    BY <2>1 DEF CreateTaskRun, StoreIInv, StoreTypeOK
  <2>2. CASE \E c \in Cycle, due \in SUBSET Address : \E f :
               AssignsRuns(c, due, f) /\ \E a \in due : f[a] = r
    <3>1. PICK c \in Cycle, due \in SUBSET Address :
            \E f : AssignsRuns(c, due, f) /\ \E a \in due : f[a] = r
      BY <2>2
    <3>2. PICK f : AssignsRuns(c, due, f) /\ \E a \in due : f[a] = r
      BY <3>1
    <3>3. PICK a \in due : f[a] = r
      BY <3>2
    <3>4. Claims(r, a, c)'
      BY <3>2, <3>3, ClaimRow
    <3> QED  BY <3>4 DEF Claims
  <2> QED  BY <1>2, <2>1, <2>2, RunsAppear
<1> QED  BY <1>1, <1>2

(* Nothing else than a deletion touches what an assignment stands for. *)
LEMMA ClaimsPersist ==
  ASSUME StoreIInv, [StoreNext]_storeVars, NEW r \in Run, NEW a \in Address, NEW c \in Cycle,
         Claims(r, a, c), ~ DeleteAccountRecord(a)
  PROVE  Claims(r, a, c)'
  BY RunsPersist DEF Claims

(* What ProfileMatch and UserIsolation say of a run does not get lost.      *)
LEMMA OwnersPersist ==
  ASSUME StoreIInv, [StoreNext]_storeVars, NEW r \in Run, NEW u,
         taskRuns[r] # None, taskRuns[r].email.user = u
  PROVE  taskRuns'[r] # None /\ taskRuns'[r].email.user = u
  BY RunsPersist

(* What a completion stands for. *)
Completed(q, a, c) ==
  /\ taskRuns[q] # None
  /\ taskRuns[q].cycle = c
  /\ taskRuns[q].email.user = a.user

LEMMA ReferencesMatchStep ==
  ASSUME StoreIInv, [StoreNext]_storeVars
  PROVE  ReferencesMatch'
<1> SUFFICES ASSUME NEW a \in Address, NEW c \in Cycle
             PROVE  /\ assignments'[a][c] # None =>
                         accounts'[a] # None /\ Claims(assignments[a][c], a, c)'
                    /\ completions'[a][c] # None =>
                         accounts'[a] # None /\ Completed(completions[a][c], a, c)'
  BY DEF ReferencesMatch, Completed
<1>1. CASE DeleteAccountRecord(a)
  BY <1>1 DEF DeleteAccountRecord, StoreIInv, StoreTypeOK
<1>2. CASE ~ DeleteAccountRecord(a)
  <2>1. accounts[a] # None => accounts'[a] # None
    BY <1>2, AccountsPersist
  <2>2. ASSUME NEW q \in Run, Claims(q, a, c)
        PROVE  Claims(q, a, c)'
    BY <1>2, <2>2, ClaimsPersist
  <2>3. ASSUME NEW q \in Run, Completed(q, a, c)
        PROVE  Completed(q, a, c)'
    BY <2>3, RunsPersist DEF Completed
  <2>4. /\ assignments[a][c] \in Run \cup {None}
        /\ completions[a][c] \in Run \cup {None}
        /\ assignments[a][c] # None =>
             accounts[a] # None /\ Claims(assignments[a][c], a, c)
        /\ completions[a][c] # None =>
             accounts[a] # None /\ Completed(completions[a][c], a, c)
    BY DEF StoreIInv, StoreTypeOK, ReferencesMatch, Completed
  <2>5. assignments'[a][c] # None => accounts'[a] # None /\ Claims(assignments[a][c], a, c)'
    <3>1. CASE assignments'[a][c] = assignments[a][c]
      BY <2>1, <2>2, <2>4, <3>1
    <3>2. CASE \E d \in Cycle, due \in SUBSET Address : CreateCycleAssignments(d, due)
      <4>1. PICK d \in Cycle, due \in SUBSET Address : CreateCycleAssignments(d, due)
        BY <3>2
      <4>2. PICK f : AssignsRuns(d, due, f)
        BY <4>1, AssignmentDraws
      <4>3. CASE a \in due /\ c = d
        <5>1. assignments'[a][c] = f[a]
          BY <4>2, <4>3 DEF AssignsRuns, StoreIInv, StoreTypeOK
        <5>2. Claims(f[a], a, c)'
          BY <4>2, <4>3, ClaimRow
        <5>3. accounts'[a] # None
          BY <2>1, <4>1, <4>3 DEF CreateCycleAssignments, CanAssign
        <5> QED  BY <5>1, <5>2, <5>3
      <4>4. CASE ~ (a \in due /\ c = d)
        BY <3>1, <4>2, <4>4 DEF AssignsRuns, StoreIInv, StoreTypeOK
      <4> QED  BY <4>3, <4>4
    <3>3. CASE \E b \in Address : DeleteAccountRecord(b)
      BY <1>2, <3>1, <3>3 DEF DeleteAccountRecord, StoreIInv, StoreTypeOK
    <3> QED
      BY <3>1, <3>2, <3>3
         DEF StoreNext, storeVars, CreateTaskRun, CredentialExpires, LoadTaskContext,
             UpdateTask, Confirms, ConfirmPendingAccount, RecordGameResult,
             SetActivePromotionCycle, CancelObsoleteScheduledRuns, Completes,
             MarkCycleComplete
  <2>6. completions'[a][c] # None =>
          accounts'[a] # None /\ Completed(completions[a][c], a, c)'
    <3>1. CASE completions'[a][c] = completions[a][c]
      BY <2>1, <2>3, <2>4, <3>1
    <3>2. CASE \E r \in CycleRuns, b \in Address : Completes(r, b)
      <4>1. PICK r \in CycleRuns, b \in Address : Completes(r, b)
        BY <3>2
      <4>2. r \in Run /\ taskRuns[r] # None /\ taskRuns[r].cycle \in Cycle
        BY DEF CycleRuns, TaskIds, StoreIInv, StoreTypeOK, TaskRow
      <4>3. CASE a = b /\ taskRuns[r].cycle = c /\ completions[a][c] = None
        <5>1. completions'[a][c] = r /\ accounts[a] # None
          BY <4>1, <4>3 DEF Completes, MarkCycleComplete, StoreIInv, StoreTypeOK
        <5>2. Completed(r, a, c)
          BY <4>1, <4>2, <4>3 DEF Completes, Completed
        <5> QED  BY <2>1, <2>3, <4>2, <5>1, <5>2
      <4>4. CASE ~ (a = b /\ taskRuns[r].cycle = c /\ completions[a][c] = None)
        BY <3>1, <4>1, <4>2, <4>4 DEF Completes, MarkCycleComplete, StoreIInv, StoreTypeOK
      <4> QED  BY <4>3, <4>4
    <3>3. CASE \E b \in Address : DeleteAccountRecord(b)
      BY <1>2, <3>1, <3>3 DEF DeleteAccountRecord, StoreIInv, StoreTypeOK
    <3> QED
      BY <3>1, <3>2, <3>3
         DEF StoreNext, storeVars, CreateTaskRun, CredentialExpires, LoadTaskContext,
             UpdateTask, Confirms, ConfirmPendingAccount, RecordGameResult,
             SetActivePromotionCycle, CancelObsoleteScheduledRuns, CreateCycleAssignments
  <2> QED  BY <2>5, <2>6
<1> QED  BY <1>1, <1>2

LEMMA AssignedOnceStep ==
  ASSUME StoreIInv, [StoreNext]_storeVars
  PROVE  AssignedOnce'
<1> SUFFICES ASSUME NEW r \in Run, NEW a \in Address, NEW c \in Cycle,
                    a.removals = 0, Claims(r, a, c)'
             PROVE  assignments'[a][c] = r
  BY DEF AssignedOnce
<1>1. CASE taskRuns[r] # None
  <2>1. taskRuns[r] \in TaskRow /\ taskRuns[r].email \in Address
    BY <1>1 DEF StoreIInv, StoreTypeOK, TaskRow
  <2>2. taskRuns[r].email = a
    <3>1. CASE taskRuns'[r].email = taskRuns[r].email
      BY <3>1 DEF Claims
    <3>2. CASE /\ DeleteAccountRecord(taskRuns[r].email)
               /\ taskRuns'[r].email = Redacted(taskRuns[r].email)
      <4>1. Redacted(taskRuns[r].email).removals > 0
        BY <2>1, <3>2, RedactedType DEF DeleteAccountRecord
      <4>2. a = Redacted(taskRuns[r].email)
        BY <3>2 DEF Claims
      <4> QED  BY <4>1, <4>2
    <3> QED  BY <1>1, <3>1, <3>2, RunsPersist
  <2>3. Claims(r, a, c)
    BY <1>1, <2>2, RunsPersist DEF Claims
  <2>4. assignments[a][c] = r /\ r # None
    BY <2>3, StoreAssumption DEF StoreIInv, AssignedOnce
  <2>5. ~ DeleteAccountRecord(a)
    <3> SUFFICES ASSUME DeleteAccountRecord(a)  PROVE FALSE
      OBVIOUS
    <3>1. taskRuns'[r].email = Redacted(a)
      <4>1. taskRuns'[r] = [taskRuns[r] EXCEPT !.email = Redacted(a)]
        BY <1>1, <2>2 DEF DeleteAccountRecord
      <4> QED  BY <2>1, <4>1 DEF TaskRow
    <3>2. Redacted(a).removals > 0
      BY RedactedType DEF DeleteAccountRecord
    <3> QED  BY <3>1, <3>2 DEF Claims
  <2>6. CASE UNCHANGED assignments
    BY <2>4, <2>6
  <2>7. CASE \E d \in Cycle, due \in SUBSET Address : CreateCycleAssignments(d, due)
    <3>1. PICK d \in Cycle, due \in SUBSET Address : CreateCycleAssignments(d, due)
      BY <2>7
    <3>2. PICK f : AssignsRuns(d, due, f)
      BY <3>1, AssignmentDraws
    <3>3. ~ (a \in due /\ c = d)
      BY <2>4, <3>1 DEF CreateCycleAssignments, CanAssign
    <3> QED  BY <2>4, <3>2, <3>3 DEF AssignsRuns, StoreIInv, StoreTypeOK
  <2>8. CASE \E b \in Address : DeleteAccountRecord(b)
    <3>1. PICK b \in Address : DeleteAccountRecord(b)
      BY <2>8
    <3>2. b # a
      BY <2>5, <3>1
    <3> QED  BY <2>4, <3>1, <3>2 DEF DeleteAccountRecord, StoreIInv, StoreTypeOK
  <2> QED
    BY <2>6, <2>7, <2>8
       DEF StoreNext, storeVars, CreateTaskRun, CredentialExpires, LoadTaskContext,
           UpdateTask, Confirms, ConfirmPendingAccount, RecordGameResult,
           SetActivePromotionCycle, CancelObsoleteScheduledRuns, Completes,
           MarkCycleComplete
<1>2. CASE taskRuns[r] = None
  <2>1. taskRuns'[r] # None /\ taskRuns'[r].email = a /\ taskRuns'[r].cycle = c
    BY DEF Claims
  <2>2. CASE \E b \in Address, m \in Mode : CreateTaskRun(r, b, m)
    BY <2>1, <2>2, StoreAssumption DEF CreateTaskRun, StoreIInv, StoreTypeOK
  <2>3. CASE \E d \in Cycle, due \in SUBSET Address : \E f :
               AssignsRuns(d, due, f) /\ \E b \in due : f[b] = r
    <3>1. PICK d \in Cycle, due \in SUBSET Address :
            \E f : AssignsRuns(d, due, f) /\ \E b \in due : f[b] = r
      BY <2>3
    <3>3. PICK f : AssignsRuns(d, due, f) /\ \E b \in due : f[b] = r
      BY <3>1
    <3>4. PICK b \in due : f[b] = r
      BY <3>3
    <3>2. a = b /\ c = d
      <4>1. Claims(r, b, d)'
        BY <3>3, <3>4, ClaimRow
      <4> QED  BY <2>1, <4>1 DEF Claims
    <3> QED  BY <3>2, <3>3, <3>4 DEF AssignsRuns, StoreIInv, StoreTypeOK
  <2> QED  BY <1>2, <2>1, <2>2, <2>3, RunsAppear
<1> QED  BY <1>1, <1>2

LEMMA UserIsolationStep ==
  ASSUME StoreIInv, [StoreNext]_storeVars
  PROVE  UserIsolation'
<1> DEFINE Owns(q, u) == taskRuns[q] # None /\ taskRuns[q].email.user = u
<1> SUFFICES ASSUME NEW a \in Address, accounts'[a] # None
             PROVE  Owns(accounts[a].credential, a.user)' /\ Owns(accounts[a].profile, a.user)'
  BY DEF UserIsolation
<1>1. ASSUME NEW q \in Run, NEW u, Owns(q, u)
      PROVE  Owns(q, u)'
  BY <1>1, OwnersPersist
<1>2. CASE accounts'[a] = accounts[a]
  <2>1. accounts[a].credential \in Run /\ accounts[a].profile \in Run
    BY <1>2 DEF StoreIInv, StoreTypeOK, AccountRow
  <2>2. Owns(accounts[a].credential, a.user) /\ Owns(accounts[a].profile, a.user)
    BY <1>2 DEF StoreIInv, UserIsolation
  <2> QED  BY <1>1, <1>2, <2>1, <2>2
<1>3. CASE \E r \in TaskIds, b \in Address : Confirms(r, b)
  <2>1. PICK r \in TaskIds, b \in Address : Confirms(r, b)
    BY <1>3
  <2>2. CASE a = b
    <3>1. /\ r \in Run /\ taskRuns[r].profile \in Run
          /\ Owns(r, a.user) /\ Owns(taskRuns[r].profile, a.user)
      BY <2>1, <2>2 DEF Confirms, TaskIds, StoreIInv, ProfileMatch
    <3>2. accounts'[a] = [credential |-> r,
                          profile |-> IF accounts[a] # None THEN accounts[a].profile
                                      ELSE taskRuns[r].profile]
      BY <2>1, <2>2 DEF Confirms, ConfirmPendingAccount, StoreIInv, StoreTypeOK
    <3>3. CASE accounts[a] # None
      <4>1. accounts[a].profile \in Run /\ Owns(accounts[a].profile, a.user)
        BY <3>3 DEF StoreIInv, StoreTypeOK, AccountRow, UserIsolation
      <4> QED  BY <1>1, <3>1, <3>2, <3>3, <4>1
    <3>4. CASE accounts[a] = None
      BY <1>1, <3>1, <3>2, <3>4
    <3> QED  BY <3>3, <3>4
  <2>3. CASE a # b
    BY <1>2, <2>1, <2>3 DEF Confirms, ConfirmPendingAccount, StoreIInv, StoreTypeOK
  <2> QED  BY <2>2, <2>3
<1>4. CASE \E b \in Address : DeleteAccountRecord(b)
  <2>1. PICK b \in Address : DeleteAccountRecord(b)
    BY <1>4
  <2>2. a # b
    BY <2>1 DEF DeleteAccountRecord, StoreIInv, StoreTypeOK
  <2> QED  BY <1>2, <2>1, <2>2 DEF DeleteAccountRecord, StoreIInv, StoreTypeOK
<1> QED
  BY <1>2, <1>3, <1>4
     DEF StoreNext, storeVars, CreateTaskRun, CredentialExpires, LoadTaskContext, UpdateTask,
         RecordGameResult, SetActivePromotionCycle, CancelObsoleteScheduledRuns,
         CreateCycleAssignments, Completes, MarkCycleComplete

LEMMA ProfileMatchStep ==
  ASSUME StoreIInv, [StoreNext]_storeVars
  PROVE  ProfileMatch'
<1> DEFINE Owns(q, u) == taskRuns[q] # None /\ taskRuns[q].email.user = u
<1> SUFFICES ASSUME NEW r \in Run, taskRuns'[r] # None, taskRuns'[r].mode = "verify"
             PROVE  /\ taskRuns'[r].profile \in Run
                    /\ taskRuns'[taskRuns'[r].profile] # None
                    /\ taskRuns'[taskRuns'[r].profile].email.user = taskRuns'[r].email.user
  BY DEF ProfileMatch
<1>1. ASSUME NEW q \in Run, NEW u, Owns(q, u)
      PROVE  Owns(q, u)'
  BY <1>1, OwnersPersist
<1>2. CASE taskRuns[r] # None
  <2>1. /\ taskRuns[r].mode = "verify"
        /\ taskRuns'[r].profile = taskRuns[r].profile
        /\ taskRuns'[r].email.user = taskRuns[r].email.user
    BY <1>2, RunsPersist
  <2>2. taskRuns[r].profile \in Run /\ Owns(taskRuns[r].profile, taskRuns[r].email.user)
    BY <1>2, <2>1 DEF StoreIInv, ProfileMatch
  <2> QED  BY <1>1, <2>1, <2>2
<1>3. CASE taskRuns[r] = None
  <2>1. CASE \E a \in Address, m \in Mode : CreateTaskRun(r, a, m)
    <3>1. PICK a \in Address, m \in Mode : CreateTaskRun(r, a, m)
      BY <2>1
    <3>2. /\ m = "verify"
          /\ taskRuns'[r].email = a
          /\ taskRuns'[r].profile = (IF accounts[a] # None THEN accounts[a].profile ELSE r)
      BY <3>1 DEF CreateTaskRun, StoreIInv, StoreTypeOK
    <3>3. CASE accounts[a] # None
      <4>1. accounts[a].profile \in Run /\ Owns(accounts[a].profile, a.user)
        BY <3>3 DEF StoreIInv, StoreTypeOK, AccountRow, UserIsolation
      <4> QED  BY <1>1, <3>2, <3>3, <4>1
    <3>4. CASE accounts[a] = None
      BY <3>2, <3>4
    <3> QED  BY <3>3, <3>4
  <2>2. CASE \E c \in Cycle, due \in SUBSET Address : \E f :
               AssignsRuns(c, due, f) /\ \E a \in due : f[a] = r
    <3>1. PICK c \in Cycle, due \in SUBSET Address :
            \E f : AssignsRuns(c, due, f) /\ \E a \in due : f[a] = r
      BY <2>2
    <3>2. PICK f : AssignsRuns(c, due, f) /\ \E a \in due : f[a] = r
      BY <3>1
    <3>3. PICK a \in due : f[a] = r
      BY <3>2
    <3>4. Claims(r, a, c)'
      BY <3>2, <3>3, ClaimRow
    <3> QED  BY <3>4 DEF Claims
  <2> QED  BY <1>3, <2>1, <2>2, RunsAppear
<1> QED  BY <1>2, <1>3

LEMMA PendingMatchStep ==
  ASSUME StoreIInv, [StoreNext]_storeVars
  PROVE  PendingMatch'
<1> SUFFICES ASSUME NEW r \in Run, pending'[r] # None
             PROVE  /\ taskRuns'[r] # None
                    /\ taskRuns'[r].mode = "verify"
                    /\ taskRuns'[r].state \notin {"failed", "manual_required"}
  BY DEF PendingMatch
<1>1. pending[r] # None =>
        /\ taskRuns[r] \in TaskRow
        /\ taskRuns[r] # None
        /\ taskRuns[r].mode = "verify"
        /\ taskRuns[r].state \notin {"failed", "manual_required"}
  BY DEF StoreIInv, StoreTypeOK, PendingMatch
<1>2. CASE pending[r] # None /\ taskRuns'[r].state \notin {"failed", "manual_required"}
  BY <1>1, <1>2, RunsPersist
<1>3. CASE pending[r] # None /\ taskRuns'[r] = taskRuns[r]
  BY <1>1, <1>3
<1>4. CASE \E q \in Run, a \in Address, m \in Mode : CreateTaskRun(q, a, m)
  <2>1. PICK q \in Run, a \in Address, m \in Mode : CreateTaskRun(q, a, m)
    BY <1>4
  <2>2. CASE r = q
    <3>1. taskRuns[r] = None
      BY <2>1, <2>2 DEF CreateTaskRun, IsFresh, TaskIds
    <3>2. pending[r] = None
      BY <1>1, <3>1
    <3>3. m = "verify"
      BY <2>1, <2>2, <3>2 DEF CreateTaskRun
    <3>4. /\ taskRuns'[r].mode = "verify" /\ taskRuns'[r].state = "queued"
      BY <2>1, <2>2, <3>3 DEF CreateTaskRun, StoreIInv, StoreTypeOK
    <3>5. taskRuns'[r] # None
      <4>1. StoreTypeOK'
        BY NextType
      <4>2. PICK p \in Run \cup {None} :
              taskRuns'[r] = [email |-> a, mode |-> m, state |-> "queued", cycle |-> None,
                              retries |-> 0, profile |-> p]
        BY <2>1, <2>2 DEF CreateTaskRun, StoreIInv, StoreTypeOK, AccountRow
      <4>3. taskRuns'[r] \in TaskRow
        BY <4>2, StoreAssumption DEF TaskRow, TaskState
      <4> QED  BY <4>3, StoreAssumption
    <3> QED  BY <3>4, <3>5
  <2>3. CASE r # q
    <3>1. pending[r] # None /\ taskRuns'[r] = taskRuns[r]
      BY <2>1, <2>3 DEF CreateTaskRun, StoreIInv, StoreTypeOK
    <3> QED  BY <1>3, <3>1
  <2> QED  BY <2>2, <2>3
<1>5. CASE \E q \in TaskIds, s \in Written, n \in 0 .. MaxRetries : UpdateTask(q, s, n)
  <2>1. PICK q \in TaskIds, s \in Written, n \in 0 .. MaxRetries : UpdateTask(q, s, n)
    BY <1>5
  <2>2. CASE q = r
    <3>1. s \notin {"failed", "manual_required"} /\ pending'[r] = pending[r]
      BY <2>1, <2>2 DEF UpdateTask, StoreIInv, StoreTypeOK
    <3>2. taskRuns'[r] = [taskRuns[r] EXCEPT !.state = s, !.retries = n]
      BY <2>1, <2>2 DEF UpdateTask, StoreIInv, StoreTypeOK
    <3>3. taskRuns'[r].state = s
      BY <1>1, <3>1, <3>2 DEF TaskRow
    <3> QED  BY <1>2, <3>1, <3>3
  <2>3. CASE q # r
    BY <1>3, <2>1, <2>3 DEF UpdateTask, TaskIds, StoreIInv, StoreTypeOK
  <2> QED  BY <2>2, <2>3
<1>6. CASE \E q \in Run : CredentialExpires(q)
  BY <1>3, <1>6, StoreAssumption DEF CredentialExpires, PendingState, StoreIInv, StoreTypeOK
<1>7. CASE \E q \in Run : LoadTaskContext(q)
  BY <1>3, <1>7 DEF LoadTaskContext, StoreIInv, StoreTypeOK
<1>8. CASE \E q \in TaskIds, a \in Address : Confirms(q, a)
  BY <1>3, <1>8 DEF Confirms, ConfirmPendingAccount, TaskIds, StoreIInv, StoreTypeOK
<1>9. CASE \E S \in SUBSET CycleRuns : CancelObsoleteScheduledRuns(S)
  <2>1. PICK S \in SUBSET CycleRuns : CancelObsoleteScheduledRuns(S)
    BY <1>9
  <2>2. pending[r] # None
    BY <2>1 DEF CancelObsoleteScheduledRuns
  <2>3. r \notin S
    BY <1>1, <2>2 DEF CycleRuns, TaskIds, StoreIInv, CycleRunsClaim
  <2> QED  BY <1>3, <2>1, <2>2, <2>3 DEF CancelObsoleteScheduledRuns
<1>10. CASE \E c \in Cycle, due \in SUBSET Address : CreateCycleAssignments(c, due)
  <2>1. PICK c \in Cycle, due \in SUBSET Address : CreateCycleAssignments(c, due)
    BY <1>10
  <2>2. PICK f : AssignsRuns(c, due, f)
    BY <2>1, AssignmentDraws
  <2>3. pending[r] # None
    BY <2>1 DEF CreateCycleAssignments
  <2>4. ~ \E a \in due : f[a] = r
    BY <1>1, <2>2, <2>3 DEF AssignsRuns, IsFresh, TaskIds
  <2> QED  BY <1>3, <2>2, <2>3, <2>4 DEF AssignsRuns
<1>11. CASE \E a \in Address : DeleteAccountRecord(a)
  <2>1. PICK a \in Address : DeleteAccountRecord(a)
    BY <1>11
  <2>2. pending[r] # None
    BY <2>1 DEF DeleteAccountRecord
  <2>3. taskRuns'[r] \in {taskRuns[r], [taskRuns[r] EXCEPT !.email = Redacted(a)]}
    BY <2>1 DEF DeleteAccountRecord
  <2>4. taskRuns'[r].state = taskRuns[r].state
    BY <1>1, <2>2, <2>3 DEF TaskRow
  <2> QED  BY <1>1, <1>2, <2>2, <2>4
<1>12. CASE pending' = pending /\ taskRuns' = taskRuns
  BY <1>3, <1>12
<1> QED
  BY <1>4, <1>5, <1>6, <1>7, <1>8, <1>9, <1>10, <1>11, <1>12
     DEF StoreNext, storeVars, RecordGameResult, SetActivePromotionCycle, Completes,
         MarkCycleComplete

----------------------------------------------------------------------------
(* Theorems *)

LEMMA StoreInvariant == StoreSpec => []StoreIInv
<1>1. StoreInit => StoreIInv
  BY InitInvariant
<1>2. StoreIInv /\ [StoreNext]_storeVars => StoreIInv'
  BY NextType, PendingMatchStep, ProfileMatchStep, CycleRunsClaimStep,
     ReferencesMatchStep, AssignedOnceStep, UserIsolationStep DEF StoreIInv
<1> QED  BY <1>1, <1>2, PTL DEF StoreSpec

(* The store's rows always have their types.                                *)
THEOREM StoreTypeCorrect == StoreSpec => []StoreTypeOK
<1>1. StoreIInv => StoreTypeOK
  BY DEF StoreIInv
<1> QED  BY <1>1, StoreInvariant, PTL

(* No run that failed, or needs a person, keeps a password.                 *)
THEOREM CredentialsAreDropped == StoreSpec => []NoCredentialAfterFailure
<1>1. StoreIInv => NoCredentialAfterFailure
  BY DEF StoreIInv, PendingMatch, NoCredentialAfterFailure, TaskIds
<1> QED  BY <1>1, StoreInvariant, PTL

(* Two users never share a credential or a browser profile.                 *)
THEOREM UsersAreIsolated == StoreSpec => []UserIsolation
<1>1. StoreIInv => UserIsolation
  BY DEF StoreIInv
<1> QED  BY <1>1, StoreInvariant, PTL

(* Assignments and completions always point at the claim run they mean.     *)
THEOREM ReferencesAlwaysMatch == StoreSpec => []ReferencesMatch
<1>1. StoreIInv => ReferencesMatch
  BY DEF StoreIInv
<1> QED  BY <1>1, StoreInvariant, PTL

(* One claim run per account and cycle, whatever is deleted, registered     *)
(* again, cancelled or refreshed.                                           *)
THEOREM CyclesAreClaimedOnce == StoreSpec => []OneClaimRunPerCycle
<1>1. StoreIInv => OneClaimRunPerCycle
  <2> SUFFICES ASSUME StoreIInv, NEW q \in TaskIds, NEW r \in TaskIds, NEW a \in Address,
                      NEW c \in Cycle, a.removals = 0, Claims(q, a, c), Claims(r, a, c)
               PROVE  q = r
    BY DEF OneClaimRunPerCycle
  <2> QED  BY DEF StoreIInv, AssignedOnce, TaskIds
<1> QED  BY <1>1, StoreInvariant, PTL

=============================================================================
