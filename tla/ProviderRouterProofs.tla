------------------------ MODULE ProviderRouterProofs ------------------------
(***************************************************************************)
(* What the calls to model services keep for any chain, any number of      *)
(* calls at once, any thresholds and any faults of Redis.                  *)
(***************************************************************************)
EXTENDS ProviderRouter, FiniteSetTheorems, TLAPS

(* What a call has left and what it has lasted make up its budget. *)
BudgetAddsUp ==
  \A r \in Request : IF Idle(r) THEN age[r] = 0 ELSE left[r] + age[r] = Budget

(* A service with as many failures as open its circuit keeps it for as long *)
(* as the last failure is not old enough.                                  *)
CircuitLasts ==
  \A p \in Captcha \ lost : consecutive[p] = Threshold => circuit[p] + since[p] >= Circuit

(* The calls that p can still fail. *)
May(p) == {r \in Request : asking[r] = p \/ p \in ahead[r]}

(* A call turns to services further down the chain only. *)
ChainGoesDown == \A r \in Request : \A p \in ahead[r] : asking[r] # None /\ p > asking[r]

(* A service that failed is excluded from new calls, and each call that     *)
(* was under way adds one failure at most.                                 *)
FailuresCounted ==
  \A p \in Captcha : failures[p] > 0 =>
    /\ p \in unavailable
    /\ failures[p] + Cardinality(May(p)) <= Cardinality(Request)

ProviderIInv ==
  /\ ProviderTypeOK
  /\ BudgetAddsUp
  /\ CircuitLasts
  /\ ChainGoesDown
  /\ FailuresCounted
  /\ RouterCircuitIdle

LEMMA ProvidersAreNumbers ==
  /\ Captcha \subseteq Provider
  /\ Provider \subseteq Nat
  /\ Plain \in Provider /\ Plain \notin Captcha
  /\ None \notin Provider
  /\ Captcha = Provider \ {Plain}
  BY ProviderAssumption DEF ProviderAssumption, Captcha, Provider, Plain

LEMMA Counters ==
  /\ \A n \in 0 .. Threshold : UpTo(n + 1, Threshold) \in 0 .. Threshold
  /\ \A n \in 0 .. Circuit : UpTo(n + 1, Circuit) \in 0 .. Circuit
  /\ 0 \in 0 .. Threshold
  /\ 0 \in 0 .. Circuit /\ Circuit \in 0 .. Circuit
  /\ 0 \in 0 .. Budget /\ Budget \in 0 .. Budget
  /\ 0 \in 0 .. MaxFaults
  /\ 0 # Threshold
  BY ProviderAssumption DEF ProviderAssumption, UpTo

LEMMA ProviderInitOK == ProviderInit => ProviderIInv
<1> SUFFICES ASSUME ProviderInit PROVE ProviderIInv
  OBVIOUS
<1>1. ProviderTypeOK
  BY Counters DEF ProviderInit, ProviderTypeOK
<1>2. BudgetAddsUp /\ ChainGoesDown
  BY DEF ProviderInit, BudgetAddsUp, ChainGoesDown, Idle
<1>3. CircuitLasts
  BY Counters DEF ProviderInit, CircuitLasts
<1>4. FailuresCounted /\ RouterCircuitIdle
  BY ProvidersAreNumbers DEF ProviderInit, FailuresCounted, RouterCircuitIdle
<1>. QED BY <1>1, <1>2, <1>3, <1>4 DEF ProviderIInv

(* How a call ends *)
LEMMA Ends ==
  ASSUME ProviderTypeOK, NEW r \in Request, NEW b \in BOOLEAN, End(r, b)
  PROVE  /\ asking'[r] = None /\ ahead'[r] = {} /\ age'[r] = 0
         /\ \A q \in Request \ {r} : /\ asking'[q] = asking[q] /\ ahead'[q] = ahead[q]
                                     /\ left'[q] = left[q] /\ age'[q] = age[q]
  BY DEF End, ProviderTypeOK

(* How a call goes on: it ends, or asks the next service of those that rest. *)
LEMMA Proceeds ==
  ASSUME ProviderTypeOK, NEW r \in Request, NEW rest \in SUBSET Provider, NEW time \in 0 .. Budget,
         NEW waited \in Nat, Proceed(r, rest, time, waited)
  PROVE  /\ asking' \in [Request -> Provider \cup {None}]
         /\ ahead' \in [Request -> SUBSET Provider]
         /\ left' \in [Request -> 0 .. Budget]
         /\ age' \in [Request -> Nat]
         /\ timedOut' \in BOOLEAN
         /\ \A q \in Request \ {r} : /\ asking'[q] = asking[q] /\ ahead'[q] = ahead[q]
                                     /\ left'[q] = left[q] /\ age'[q] = age[q]
         /\ \/ asking'[r] = None /\ ahead'[r] = {} /\ age'[r] = 0
            \/ /\ asking'[r] \in rest
               /\ ahead'[r] = {q \in rest : q > asking'[r]}
               /\ left'[r] = time /\ age'[r] = waited
<1> DEFINE usable == {p \in rest \cap Configured : openFor'[p] = 0}
<1>1. CASE usable = {} \/ time = 0
  <2>1. End(r, TRUE)
    BY <1>1 DEF Proceed
  <2>. QED BY <2>1, Counters DEF End, ProviderTypeOK
<1>2. CASE ~ (usable = {} \/ time = 0)
  <2>1. PICK p \in usable :
          /\ asking' = [asking EXCEPT ![r] = p]
          /\ ahead' = [ahead EXCEPT ![r] = {q \in rest : q > p}]
          /\ left' = [left EXCEPT ![r] = time]
          /\ age' = [age EXCEPT ![r] = waited]
          /\ timedOut' = timedOut
    BY <1>2 DEF Proceed
  <2>2. p \in rest /\ {q \in rest : q > p} \in SUBSET Provider
    OBVIOUS
  <2>. QED BY <2>1, <2>2 DEF ProviderTypeOK
<1>. QED BY <1>1, <1>2

----------------------------------------------------------------------------
(* The types *)

MirrorTypeOK ==
  /\ consecutive \in [Captcha -> 0 .. Threshold]
  /\ circuit \in [Captcha -> 0 .. Circuit]
  /\ faults \in 0 .. MaxFaults
  /\ since \in [Captcha -> 0 .. Circuit]
  /\ lost \subseteq Captcha

LEMMA FaultTypes ==
  ASSUME ProviderTypeOK, NEW p \in Captcha, RedisFault(p)
  PROVE  faults' \in 0 .. MaxFaults /\ lost' \subseteq Captcha
  BY ProviderAssumption DEF ProviderAssumption, ProviderTypeOK, RedisFault

LEMMA RecordSuccessTypes ==
  ASSUME ProviderTypeOK, NEW p \in Captcha, RecordSuccess(p)
  PROVE  MirrorTypeOK'
<1> USE DEF ProviderTypeOK, MirrorTypeOK
<1>1. CASE /\ consecutive' = [consecutive EXCEPT ![p] = 0]
           /\ circuit' = [circuit EXCEPT ![p] = 0]
           /\ lost' = lost \ {p}
           /\ UNCHANGED faults
  BY <1>1, Counters DEF RecordSuccess
<1>2. CASE /\ RedisFault(p)
           /\ UNCHANGED circuit
           /\ consecutive' = [consecutive EXCEPT ![p] = 0] \/ UNCHANGED consecutive
  BY <1>2, Counters, FaultTypes DEF RecordSuccess
<1>. QED BY <1>1, <1>2 DEF RecordSuccess

LEMMA RecordFailureTypes ==
  ASSUME ProviderTypeOK, NEW p \in Captcha, NEW opened \in BOOLEAN, RecordFailure(p, opened)
  PROVE  MirrorTypeOK'
<1> USE DEF ProviderTypeOK, MirrorTypeOK
<1> DEFINE n == UpTo(consecutive[p] + 1, Threshold)
<1>1. n \in 0 .. Threshold
  BY Counters
<1>2. since' \in [Captcha -> 0 .. Circuit]
  BY Counters DEF RecordFailure
<1>3. CASE /\ consecutive' = [consecutive EXCEPT ![p] = n]
           /\ circuit' = IF n = Threshold \/ opened
                         THEN [circuit EXCEPT ![p] = Circuit]
                         ELSE circuit
           /\ UNCHANGED <<faults, lost>>
  BY <1>1, <1>2, <1>3, Counters
<1>4. CASE /\ RedisFault(p)
           /\ UNCHANGED circuit
           /\ consecutive' = [consecutive EXCEPT ![p] = n] \/ UNCHANGED consecutive
  BY <1>1, <1>2, <1>4, FaultTypes
<1>. QED BY <1>3, <1>4 DEF RecordFailure

LEMMA StartTypes ==
  ASSUME ProviderTypeOK, NEW r \in Request, StartCaptcha(r) \/ StartPlain(r)
  PROVE  ProviderTypeOK'
<1>1. CASE StartPlain(r)
  <2>1. Proceed(r, {Plain}, Budget, 0)
    BY <1>1 DEF StartPlain
  <2>2. {Plain} \in SUBSET Provider
    BY ProvidersAreNumbers
  <2>. QED BY <1>1, <2>1, <2>2, Proceeds, Counters DEF StartPlain, ProviderTypeOK, mirrorVars
<1>2. CASE StartCaptcha(r)
  <2>1. PICK missed \in SUBSET {p \in Captcha \ unavailable : circuit[p] > 0} :
          /\ faults + Cardinality(missed) <= MaxFaults
          /\ faults' = faults + Cardinality(missed)
          /\ Proceed(r, {p \in Captcha \ unavailable : circuit[p] > 0 => p \in missed},
                     Budget, 0)
    BY <1>2 DEF StartCaptcha
  <2>2. IsFiniteSet(Captcha)
    BY ProviderAssumption, FS_Interval DEF ProviderAssumption, Captcha
  <2>3. Cardinality(missed) \in Nat
    BY <2>1, <2>2, FS_Subset, FS_CardinalityType
  <2>4. faults' \in 0 .. MaxFaults
    BY <2>1, <2>3, ProviderAssumption DEF ProviderAssumption, ProviderTypeOK
  <2>5. {p \in Captcha \ unavailable : circuit[p] > 0 => p \in missed} \in SUBSET Provider
    BY ProvidersAreNumbers
  <2>. QED BY <1>2, <2>1, <2>4, <2>5, Proceeds, Counters DEF StartCaptcha, ProviderTypeOK
<1>. QED BY <1>1, <1>2

LEMMA AskedIsProvider ==
  ASSUME ProviderTypeOK, NEW r \in Request, ~ Idle(r)
  PROVE  asking[r] \in Provider
  BY DEF ProviderTypeOK, Idle

LEMMA EndTypes ==
  ASSUME ProviderTypeOK, NEW r \in Request, NEW b \in BOOLEAN, End(r, b)
  PROVE  /\ asking' \in [Request -> Provider \cup {None}]
         /\ ahead' \in [Request -> SUBSET Provider]
         /\ left' \in [Request -> 0 .. Budget]
         /\ age' \in [Request -> Nat]
         /\ timedOut' \in BOOLEAN
  BY Counters DEF End, ProviderTypeOK

LEMMA AnswerTypes ==
  ASSUME ProviderTypeOK, NEW r \in Request, Answer(r)
  PROVE  ProviderTypeOK'
<1>1. asking[r] \in Provider /\ End(r, FALSE)
  BY AskedIsProvider DEF Answer
<1>2. MirrorTypeOK'
  <2>1. CASE asking[r] = Plain
    BY <2>1 DEF Answer, mirrorVars, MirrorTypeOK, ProviderTypeOK
  <2>2. CASE asking[r] # Plain
    BY <1>1, <2>2, RecordSuccessTypes, ProvidersAreNumbers DEF Answer
  <2>. QED BY <2>1, <2>2
<1>3. /\ failures' \in [Provider -> 0 .. Threshold]
      /\ openFor' \in [Provider -> 0 .. Circuit]
      /\ unavailable' \subseteq Provider
  BY <1>1, Counters DEF Answer, ProviderTypeOK
<1>. QED BY <1>1, <1>2, <1>3, EndTypes DEF ProviderTypeOK, MirrorTypeOK

LEMMA RejectTypes ==
  ASSUME ProviderTypeOK, NEW r \in Request, Reject(r)
  PROVE  ProviderTypeOK'
  BY EndTypes DEF Reject, ProviderTypeOK, mirrorVars

LEMMA FailTypes ==
  ASSUME ProviderTypeOK, NEW r \in Request, Fail(r)
  PROVE  ProviderTypeOK'
<1> DEFINE p == asking[r]
           n == UpTo(failures[p] + 1, Threshold)
<1>1. p \in Provider
  BY AskedIsProvider DEF Fail
<1>2. n \in 0 .. Threshold
  BY <1>1, Counters DEF ProviderTypeOK
<1>3. MirrorTypeOK'
  <2>1. CASE p = Plain
    BY <2>1 DEF Fail, mirrorVars, MirrorTypeOK, ProviderTypeOK
  <2>2. CASE p # Plain
    <3>1. RecordFailure(p, n = Threshold) /\ (n = Threshold) \in BOOLEAN /\ p \in Captcha
      BY <1>1, <2>2, ProvidersAreNumbers DEF Fail
    <3>. QED BY <3>1, RecordFailureTypes
  <2>. QED BY <2>1, <2>2
<1>4. /\ failures' \in [Provider -> 0 .. Threshold]
      /\ openFor' \in [Provider -> 0 .. Circuit]
      /\ unavailable' \subseteq Provider
  <2>1. /\ failures' = [failures EXCEPT ![p] = n]
        /\ openFor' = IF n = Threshold THEN [openFor EXCEPT ![p] = Circuit] ELSE openFor
        /\ unavailable' = unavailable \cup {p}
    BY DEF Fail
  <2>. QED BY <1>1, <1>2, <2>1, Counters DEF ProviderTypeOK
<1>5. Proceed(r, ahead[r], left[r], age[r])
  BY DEF Fail
<1>6. ahead[r] \in SUBSET Provider /\ left[r] \in 0 .. Budget /\ age[r] \in Nat
  BY DEF ProviderTypeOK
<1>. QED BY <1>3, <1>4, <1>5, <1>6, Proceeds DEF ProviderTypeOK, MirrorTypeOK

LEMMA NewProcessTypes ==
  ASSUME ProviderTypeOK, NewProcess
  PROVE  ProviderTypeOK'
  BY Counters DEF NewProcess, ProviderTypeOK, mirrorVars

LEMMA TickTypes ==
  ASSUME ProviderTypeOK, Tick
  PROVE  ProviderTypeOK'
<1>1. \A p \in Provider : (IF openFor[p] = 0 THEN 0 ELSE openFor[p] - 1) \in 0 .. Circuit
  BY ProviderAssumption DEF ProviderAssumption, ProviderTypeOK
<1>2. \A p \in Captcha : /\ (IF circuit[p] = 0 THEN 0 ELSE circuit[p] - 1) \in 0 .. Circuit
                         /\ UpTo(since[p] + 1, Circuit) \in 0 .. Circuit
  BY ProviderAssumption, Counters DEF ProviderAssumption, ProviderTypeOK
<1>3. \A r \in Request :
        /\ (IF asking[r] = None THEN left[r] ELSE left[r] - 1) \in 0 .. Budget
        /\ (IF asking[r] = None THEN age[r] ELSE age[r] + 1) \in Nat
  BY ProviderAssumption DEF ProviderAssumption, ProviderTypeOK, Tick
<1>4. left' \in [Request -> 0 .. Budget] /\ age' \in [Request -> Nat]
  BY <1>3 DEF Tick
<1>5. /\ openFor' \in [Provider -> 0 .. Circuit]
      /\ circuit' \in [Captcha -> 0 .. Circuit]
      /\ since' \in [Captcha -> 0 .. Circuit]
  BY <1>1, <1>2 DEF Tick
<1>. QED BY <1>4, <1>5 DEF Tick, ProviderTypeOK

LEMMA ProviderTypesStep ==
  ASSUME ProviderTypeOK, [ProviderNext]_providerVars
  PROVE  ProviderTypeOK'
<1>1. CASE UNCHANGED providerVars
  BY <1>1 DEF providerVars, callVars, processVars, mirrorVars, ProviderTypeOK
<1>. QED BY <1>1, StartTypes, AnswerTypes, RejectTypes, FailTypes, NewProcessTypes, TickTypes
     DEF ProviderNext

----------------------------------------------------------------------------
(* The budget *)

LEMMA BudgetStep ==
  ASSUME ProviderTypeOK, BudgetAddsUp, [ProviderNext]_providerVars
  PROVE  BudgetAddsUp'
<1> USE DEF BudgetAddsUp, Idle
<1>1. CASE UNCHANGED callVars
  BY <1>1 DEF callVars
<1>2. ASSUME NEW r \in Request, NEW rest \in SUBSET Provider, NEW time \in 0 .. Budget,
             NEW waited \in Nat, time + waited = Budget, Proceed(r, rest, time, waited)
      PROVE  BudgetAddsUp'
  <2>1. \A q \in Request \ {r} : /\ asking'[q] = asking[q] /\ age'[q] = age[q]
                                 /\ left'[q] = left[q]
    BY <1>2, Proceeds
  <2>2. \/ asking'[r] = None /\ age'[r] = 0
        \/ asking'[r] \in Provider /\ left'[r] = time /\ age'[r] = waited
    BY <1>2, Proceeds
  <2>. QED BY <1>2, <2>1, <2>2, ProvidersAreNumbers
<1>3. ASSUME NEW r \in Request, StartPlain(r) PROVE BudgetAddsUp'
  <2>1. Proceed(r, {Plain}, Budget, 0) /\ {Plain} \in SUBSET Provider
    BY <1>3, ProvidersAreNumbers DEF StartPlain
  <2>2. Budget + 0 = Budget
    BY ProviderAssumption DEF ProviderAssumption
  <2>. QED BY <1>2, <2>1, <2>2, Counters
<1>4. ASSUME NEW r \in Request, StartCaptcha(r) PROVE BudgetAddsUp'
  <2>1. PICK rest \in SUBSET Provider : Proceed(r, rest, Budget, 0)
    <3>1. PICK missed \in SUBSET {p \in Captcha \ unavailable : circuit[p] > 0} :
            Proceed(r, {p \in Captcha \ unavailable : circuit[p] > 0 => p \in missed}, Budget, 0)
      BY <1>4 DEF StartCaptcha
    <3>. QED BY <3>1, ProvidersAreNumbers
  <2>2. Budget + 0 = Budget
    BY ProviderAssumption DEF ProviderAssumption
  <2>. QED BY <1>2, <2>1, <2>2, Counters
<1>5. ASSUME NEW r \in Request, Fail(r) PROVE BudgetAddsUp'
  <2>1. Proceed(r, ahead[r], left[r], age[r]) /\ left[r] + age[r] = Budget
    BY <1>5 DEF Fail
  <2>2. ahead[r] \in SUBSET Provider /\ left[r] \in 0 .. Budget /\ age[r] \in Nat
    BY DEF ProviderTypeOK
  <2>. QED BY <1>2, <2>1, <2>2
<1>6. ASSUME NEW r \in Request, Answer(r) \/ Reject(r) PROVE BudgetAddsUp'
  <2>1. End(r, FALSE)
    BY <1>6 DEF Answer, Reject
  <2>. QED BY <2>1, Ends
<1>7. CASE NewProcess
  BY <1>7 DEF NewProcess
<1>8. CASE Tick
  <2>1. SUFFICES ASSUME NEW r \in Request
                 PROVE  IF asking'[r] = None THEN age'[r] = 0 ELSE left'[r] + age'[r] = Budget
    OBVIOUS
  <2>2. /\ asking' = asking
        /\ left'[r] = IF asking[r] = None THEN left[r] ELSE left[r] - 1
        /\ age'[r] = IF asking[r] = None THEN age[r] ELSE age[r] + 1
        /\ left[r] \in 0 .. Budget /\ age[r] \in Nat
    BY <1>8 DEF Tick, ProviderTypeOK
  <2>. QED BY <2>2, ProviderAssumption DEF ProviderAssumption
<1>9. CASE UNCHANGED providerVars
  BY <1>1, <1>9 DEF providerVars
<1>. QED BY <1>3, <1>4, <1>5, <1>6, <1>7, <1>8, <1>9 DEF ProviderNext

----------------------------------------------------------------------------
(* The circuit in Redis *)

LEMMA CircuitStep ==
  ASSUME ProviderTypeOK, CircuitLasts, [ProviderNext]_providerVars
  PROVE  CircuitLasts'
<1> USE DEF CircuitLasts
<1>1. CASE UNCHANGED <<consecutive, circuit, since, lost>>
  BY <1>1
<1>2. ASSUME NEW q \in Captcha, RecordSuccess(q) PROVE CircuitLasts'
  <2>1. since' = since /\ \A p \in Captcha \ {q} : consecutive'[p] = consecutive[p]
                                                /\ circuit'[p] = circuit[p]
                                                /\ (p \in lost' <=> p \in lost)
    BY <1>2 DEF RecordSuccess, RedisFault, ProviderTypeOK
  <2>2. q \in lost' \/ consecutive'[q] = 0
    BY <1>2 DEF RecordSuccess, RedisFault, ProviderTypeOK
  <2>. QED BY <2>1, <2>2, Counters
<1>3. ASSUME NEW q \in Captcha, NEW opened \in BOOLEAN, RecordFailure(q, opened)
      PROVE  CircuitLasts'
  <2> DEFINE n == UpTo(consecutive[q] + 1, Threshold)
  <2>1. since' = [since EXCEPT ![q] = 0]
    BY <1>3 DEF RecordFailure
  <2>2. CASE /\ RedisFault(q)
             /\ UNCHANGED circuit
             /\ consecutive' = [consecutive EXCEPT ![q] = n] \/ UNCHANGED consecutive
    <3>1. q \in lost' /\ \A p \in Captcha \ {q} : /\ consecutive'[p] = consecutive[p]
                                                /\ circuit'[p] = circuit[p]
                                                /\ since'[p] = since[p]
                                                /\ (p \in lost' <=> p \in lost)
      BY <2>1, <2>2 DEF RedisFault, ProviderTypeOK
    <3>. QED BY <3>1
  <2>3. CASE /\ consecutive' = [consecutive EXCEPT ![q] = n]
             /\ circuit' = IF n = Threshold \/ opened
                           THEN [circuit EXCEPT ![q] = Circuit]
                           ELSE circuit
             /\ UNCHANGED <<faults, lost>>
    <3>1. \A p \in Captcha \ {q} : /\ consecutive'[p] = consecutive[p]
                                  /\ circuit'[p] = circuit[p]
                                  /\ since'[p] = since[p]
                                  /\ (p \in lost' <=> p \in lost)
      BY <2>1, <2>3 DEF ProviderTypeOK
    <3>2. consecutive'[q] = Threshold => circuit'[q] = Circuit /\ since'[q] = 0
      BY <2>1, <2>3 DEF ProviderTypeOK
    <3>3. Circuit + 0 >= Circuit
      BY ProviderAssumption DEF ProviderAssumption
    <3>. QED BY <3>1, <3>2, <3>3
  <2>. QED BY <1>3, <2>2, <2>3 DEF RecordFailure
<1>4. ASSUME NEW r \in Request, Answer(r) PROVE CircuitLasts'
  <2>1. asking[r] \in Provider
    BY <1>4, AskedIsProvider DEF Answer
  <2>. QED BY <1>1, <1>2, <1>4, <2>1, ProvidersAreNumbers DEF Answer, mirrorVars
<1>5. ASSUME NEW r \in Request, Fail(r) PROVE CircuitLasts'
  <2>1. asking[r] \in Provider
    BY <1>5, AskedIsProvider DEF Fail
  <2>2. CASE asking[r] = Plain
    BY <1>1, <1>5, <2>2 DEF Fail, mirrorVars
  <2>3. CASE asking[r] # Plain
    <3>1. PICK opened \in BOOLEAN : RecordFailure(asking[r], opened)
      BY <1>5, <2>3 DEF Fail
    <3>. QED BY <1>3, <2>1, <2>3, <3>1, ProvidersAreNumbers
  <2>. QED BY <2>2, <2>3
<1>6. CASE Tick
  <2>1. SUFFICES ASSUME NEW p \in Captcha \ lost, consecutive[p] = Threshold
                 PROVE  circuit'[p] + since'[p] >= Circuit
    BY <1>6 DEF Tick
  <2>2. circuit[p] \in 0 .. Circuit /\ since[p] \in 0 .. Circuit
        /\ circuit[p] + since[p] >= Circuit
    BY <2>1 DEF ProviderTypeOK
  <2>3. /\ circuit'[p] = IF circuit[p] = 0 THEN 0 ELSE circuit[p] - 1
        /\ since'[p] = UpTo(since[p] + 1, Circuit)
    BY <1>6, <2>1 DEF Tick
  <2>. QED BY <2>2, <2>3, ProviderAssumption DEF ProviderAssumption, UpTo
<1>7. ASSUME NewProcess \/ \E r \in Request : StartCaptcha(r) \/ StartPlain(r) \/ Reject(r)
      PROVE  UNCHANGED <<consecutive, circuit, since, lost>>
  BY <1>7 DEF NewProcess, StartCaptcha, StartPlain, Reject, mirrorVars
<1>8. CASE UNCHANGED providerVars
  BY <1>1, <1>8 DEF providerVars, mirrorVars
<1>. QED BY <1>1, <1>4, <1>5, <1>6, <1>7, <1>8 DEF ProviderNext

----------------------------------------------------------------------------
(* The circuit of the router *)

LEMMA ChainStep ==
  ASSUME ProviderTypeOK, ChainGoesDown, [ProviderNext]_providerVars
  PROVE  ChainGoesDown'
<1> USE DEF ChainGoesDown
<1>1. CASE UNCHANGED <<asking, ahead>>
  BY <1>1
<1>2. ASSUME NEW r \in Request, NEW rest \in SUBSET Provider, NEW time \in 0 .. Budget,
             NEW waited \in Nat, Proceed(r, rest, time, waited)
      PROVE  ChainGoesDown'
  <2>1. asking'[r] \in rest => asking'[r] # None
    BY ProvidersAreNumbers
  <2>. QED BY <1>2, <2>1, Proceeds
<1>3. ASSUME NEW r \in Request, StartPlain(r) \/ StartCaptcha(r) \/ Fail(r)
      PROVE  ChainGoesDown'
  <2>1. CASE StartPlain(r)
    BY <1>2, <2>1, ProvidersAreNumbers, Counters DEF StartPlain
  <2>2. CASE StartCaptcha(r)
    <3>1. PICK missed \in SUBSET {p \in Captcha \ unavailable : circuit[p] > 0} :
            Proceed(r, {p \in Captcha \ unavailable : circuit[p] > 0 => p \in missed}, Budget, 0)
      BY <2>2 DEF StartCaptcha
    <3>2. {p \in Captcha \ unavailable : circuit[p] > 0 => p \in missed} \in SUBSET Provider
      BY ProvidersAreNumbers
    <3>. QED BY <1>2, <3>1, <3>2, Counters
  <2>3. CASE Fail(r)
    BY <1>2, <2>3 DEF Fail, ProviderTypeOK
  <2>. QED BY <1>3, <2>1, <2>2, <2>3
<1>4. ASSUME NEW r \in Request, Answer(r) \/ Reject(r) PROVE ChainGoesDown'
  <2>1. End(r, FALSE)
    BY <1>4 DEF Answer, Reject
  <2>. QED BY <2>1, Ends
<1>5. CASE NewProcess
  BY <1>5 DEF NewProcess
<1>6. CASE Tick \/ UNCHANGED providerVars
  BY <1>1, <1>6 DEF Tick, providerVars, callVars
<1>. QED BY <1>3, <1>4, <1>5, <1>6 DEF ProviderNext

(* Fewer calls, smaller numbers *)
LEMMA FewerCalls ==
  ASSUME NEW S \in SUBSET Request, NEW T \in SUBSET S
  PROVE  /\ Cardinality(S) \in Nat /\ Cardinality(T) \in Nat
         /\ Cardinality(T) <= Cardinality(S)
         /\ Cardinality(S) <= Cardinality(Request) /\ Cardinality(Request) \in Nat
         /\ \A r \in S \ T : Cardinality(T) + 1 <= Cardinality(S)
<1>1. IsFiniteSet(Request) /\ IsFiniteSet(S) /\ IsFiniteSet(T)
  BY ProviderAssumption, FS_Subset DEF ProviderAssumption
<1>2. /\ Cardinality(S) \in Nat /\ Cardinality(T) \in Nat /\ Cardinality(Request) \in Nat
      /\ Cardinality(T) <= Cardinality(S) /\ Cardinality(S) <= Cardinality(Request)
  BY <1>1, FS_CardinalityType, FS_Subset
<1>3. ASSUME NEW r \in S \ T PROVE Cardinality(T) + 1 <= Cardinality(S)
  <2>1. T \in SUBSET (S \ {r}) /\ IsFiniteSet(S \ {r})
    BY <1>1, <1>3, FS_Subset
  <2>2. Cardinality(T) <= Cardinality(S \ {r})
    BY <2>1, FS_Subset
  <2>3. Cardinality(S \ {r}) = Cardinality(S) - 1
    BY <1>1, <1>3, FS_RemoveElement
  <2>. QED BY <1>2, <2>2, <2>3
<1>. QED BY <1>2, <1>3

(* A service whose failures are not counted up keeps within its bound when  *)
(* no call comes to have it ahead.                                         *)
LEMMA FewerToFail ==
  ASSUME FailuresCounted, NEW p \in Captcha, failures'[p] = failures[p], p \in unavailable',
         failures[p] > 0, May(p)' \subseteq May(p), failures[p] \in Nat
  PROVE  failures'[p] + Cardinality(May(p)') <= Cardinality(Request)
<1>1. May(p) \in SUBSET Request /\ May(p)' \in SUBSET May(p)
  BY DEF May
<1>2. Cardinality(May(p)') <= Cardinality(May(p))
      /\ Cardinality(May(p)') \in Nat /\ Cardinality(May(p)) \in Nat /\ Cardinality(Request) \in Nat
  BY <1>1, FewerCalls
<1>3. failures[p] + Cardinality(May(p)) <= Cardinality(Request)
  BY DEF FailuresCounted
<1>. QED BY <1>2, <1>3

LEMMA StartCounts ==
  ASSUME ProviderTypeOK, FailuresCounted, RouterCircuitIdle,
         NEW r \in Request, StartPlain(r) \/ StartCaptcha(r)
  PROVE  FailuresCounted' /\ RouterCircuitIdle'
<1>1. PICK rest \in SUBSET Provider :
        /\ Proceed(r, rest, Budget, 0)
        /\ \A p \in Captcha : p \in rest => p \notin unavailable
  <2>1. CASE StartPlain(r)
    BY <2>1, ProvidersAreNumbers DEF StartPlain
  <2>2. CASE StartCaptcha(r)
    <3>1. PICK missed \in SUBSET {p \in Captcha \ unavailable : circuit[p] > 0} :
            Proceed(r, {p \in Captcha \ unavailable : circuit[p] > 0 => p \in missed}, Budget, 0)
      BY <2>2 DEF StartCaptcha
    <3>. QED BY <3>1, ProvidersAreNumbers
  <2>. QED BY <2>1, <2>2
<1>2. UNCHANGED <<failures, openFor, unavailable>>
  BY DEF StartPlain, StartCaptcha
<1>3. \A p \in Captcha : p \in unavailable => May(p)' \subseteq May(p)
  <2>1. \/ asking'[r] = None /\ ahead'[r] = {}
        \/ asking'[r] \in rest /\ ahead'[r] \subseteq rest
    BY <1>1, Proceeds, Counters
  <2>2. \A q \in Request \ {r} : asking'[q] = asking[q] /\ ahead'[q] = ahead[q]
    BY <1>1, Proceeds, Counters
  <2>. QED BY <1>1, <2>1, <2>2, ProvidersAreNumbers DEF May
<1>4. FailuresCounted'
  <2>1. SUFFICES ASSUME NEW p \in Captcha, failures[p] > 0
                 PROVE  /\ p \in unavailable
                        /\ failures'[p] + Cardinality(May(p)') <= Cardinality(Request)
    BY <1>2 DEF FailuresCounted
  <2>2. p \in unavailable
    BY <2>1 DEF FailuresCounted
  <2>3. failures[p] \in Nat
    BY ProvidersAreNumbers DEF ProviderTypeOK
  <2>. QED BY <1>2, <1>3, <2>1, <2>2, <2>3, FewerToFail
<1>. QED BY <1>2, <1>4 DEF RouterCircuitIdle

LEMMA EndCounts ==
  ASSUME ProviderTypeOK, FailuresCounted, RouterCircuitIdle,
         NEW r \in Request, Answer(r) \/ Reject(r)
  PROVE  FailuresCounted' /\ RouterCircuitIdle'
<1>1. End(r, FALSE)
  BY DEF Answer, Reject
<1>2. \A p \in Captcha : May(p)' \subseteq May(p)
  BY <1>1, Ends, ProvidersAreNumbers DEF May
<1>3. \/ UNCHANGED <<failures, openFor, unavailable>>
      \/ /\ asking[r] \in Provider
         /\ failures' = [failures EXCEPT ![asking[r]] = 0]
         /\ openFor' = [openFor EXCEPT ![asking[r]] = 0]
         /\ unavailable' = unavailable \ {asking[r]}
  BY AskedIsProvider DEF Answer, Reject
<1>4. ASSUME NEW p \in Captcha
      PROVE  /\ openFor'[p] = openFor[p] \/ openFor'[p] = 0
             /\ failures'[p] > 0 => /\ failures'[p] = failures[p]
                                    /\ p \in unavailable => p \in unavailable'
  <2>1. CASE UNCHANGED <<failures, openFor, unavailable>>
    BY <2>1
  <2>2. CASE /\ asking[r] \in Provider
             /\ failures' = [failures EXCEPT ![asking[r]] = 0]
             /\ openFor' = [openFor EXCEPT ![asking[r]] = 0]
             /\ unavailable' = unavailable \ {asking[r]}
    <3>1. CASE p = asking[r]
      <4>1. failures'[p] = 0 /\ openFor'[p] = 0
        BY <2>2, <3>1 DEF ProviderTypeOK
      <4>. QED BY <4>1
    <3>2. CASE p # asking[r]
      BY <2>2, <3>2, ProvidersAreNumbers DEF ProviderTypeOK
    <3>. QED BY <3>1, <3>2
  <2>. QED BY <1>3, <2>1, <2>2
<1>5. FailuresCounted'
  <2>1. SUFFICES ASSUME NEW p \in Captcha, failures'[p] > 0
                 PROVE  /\ p \in unavailable'
                        /\ failures'[p] + Cardinality(May(p)') <= Cardinality(Request)
    BY DEF FailuresCounted
  <2>2. failures'[p] = failures[p]
    BY <1>4, <2>1
  <2>3. p \in unavailable'
    BY <1>4, <2>1, <2>2 DEF FailuresCounted
  <2>4. failures[p] \in Nat
    BY ProvidersAreNumbers DEF ProviderTypeOK
  <2>. QED BY <1>2, <2>1, <2>2, <2>3, <2>4, FewerToFail
<1>. QED BY <1>4, <1>5 DEF RouterCircuitIdle

LEMMA FailCounts ==
  ASSUME ProviderTypeOK, ChainGoesDown, FailuresCounted, RouterCircuitIdle,
         NEW r \in Request, Fail(r)
  PROVE  FailuresCounted' /\ RouterCircuitIdle'
<1> DEFINE a == asking[r]
           n == UpTo(failures[a] + 1, Threshold)
<1>1. a \in Provider
  BY AskedIsProvider DEF Fail
<1>2. /\ failures' = [failures EXCEPT ![a] = n]
      /\ openFor' = IF n = Threshold THEN [openFor EXCEPT ![a] = Circuit] ELSE openFor
      /\ unavailable' = unavailable \cup {a}
      /\ Proceed(r, ahead[r], left[r], age[r])
  BY DEF Fail
<1>3. \A q \in Provider : failures[q] \in Nat
  BY ProviderAssumption DEF ProviderAssumption, ProviderTypeOK
<1>4. failures'[a] = n /\ n \in Nat /\ n <= failures[a] + 1
  BY <1>1, <1>2, <1>3, ProviderAssumption DEF ProviderAssumption, ProviderTypeOK, UpTo
<1>5. /\ \/ asking'[r] = None /\ ahead'[r] = {}
         \/ asking'[r] \in ahead[r] /\ ahead'[r] \subseteq ahead[r]
      /\ \A q \in Request \ {r} : asking'[q] = asking[q] /\ ahead'[q] = ahead[q]
  <2>1. ahead[r] \in SUBSET Provider /\ left[r] \in 0 .. Budget /\ age[r] \in Nat
    BY DEF ProviderTypeOK
  <2>. QED BY <1>2, <2>1, Proceeds
<1>6. \A p \in Captcha : May(p)' \subseteq May(p)
  BY <1>5, ProvidersAreNumbers DEF May
<1>7. ASSUME NEW p \in Captcha, failures'[p] > 0
      PROVE  /\ p \in unavailable'
             /\ failures'[p] + Cardinality(May(p)') <= Cardinality(Request)
  <2>1. CASE p # a
    <3>1. failures'[p] = failures[p] /\ p \in Provider
      BY <1>2, <2>1, ProvidersAreNumbers DEF ProviderTypeOK
    <3>2. p \in unavailable'
      BY <1>2, <1>7, <3>1 DEF FailuresCounted
    <3>. QED BY <1>3, <1>6, <1>7, <3>1, <3>2, FewerToFail
  <2>2. CASE p = a
    <3>1. r \in May(p) /\ r \notin May(p)'
      <4>1. a \notin ahead[r]
        <5>1. a \in ahead[r] => a > a
          BY DEF ChainGoesDown
        <5>2. a \in Nat
          BY <1>1, ProvidersAreNumbers
        <5>. QED BY <5>1, <5>2
      <4>. QED BY <1>1, <1>5, <2>2, <4>1, ProvidersAreNumbers DEF May
    <3>2. May(p) \in SUBSET Request /\ May(p)' \in SUBSET May(p)
      BY <1>6 DEF May
    <3>3. /\ Cardinality(May(p)') + 1 <= Cardinality(May(p))
          /\ Cardinality(May(p)) <= Cardinality(Request)
          /\ Cardinality(May(p)') \in Nat /\ Cardinality(May(p)) \in Nat
          /\ Cardinality(Request) \in Nat
      BY <3>1, <3>2, FewerCalls
    <3>4. failures[p] > 0 => failures[p] + Cardinality(May(p)) <= Cardinality(Request)
      BY DEF FailuresCounted
    <3>5. failures[p] \in Nat /\ failures'[p] \in Nat /\ failures'[p] <= failures[p] + 1
      BY <1>1, <1>3, <1>4, <2>2
    <3>. QED BY <1>2, <2>2, <3>3, <3>4, <3>5
  <2>. QED BY <2>1, <2>2
<1>8. FailuresCounted'
  BY <1>7 DEF FailuresCounted
<1>9. RouterCircuitIdle'
  <2>1. SUFFICES ASSUME Cardinality(Request) < Threshold, NEW p \in Captcha
                 PROVE  openFor'[p] = 0
    BY DEF RouterCircuitIdle
  <2>2. openFor[p] = 0
    BY <2>1 DEF RouterCircuitIdle
  <2>3. CASE p # a
    BY <1>2, <2>2, <2>3 DEF ProviderTypeOK
  <2>4. CASE p = a
    <3>1. n # Threshold
      <4>1. SUFFICES ASSUME n = Threshold PROVE FALSE
        OBVIOUS
      <4>2. failures'[p] = Threshold /\ Threshold > 0
        BY <1>4, <2>4, <4>1, ProviderAssumption DEF ProviderAssumption
      <4>3. Threshold + Cardinality(May(p)') <= Cardinality(Request)
        BY <1>7, <4>2
      <4>4. May(p)' \in SUBSET Request
        BY <1>6 DEF May
      <4>5. Cardinality(May(p)') \in Nat /\ Cardinality(Request) \in Nat
        BY <4>4, FewerCalls
      <4>. QED BY <2>1, <4>3, <4>5, ProviderAssumption DEF ProviderAssumption
    <3>. QED BY <1>2, <2>2, <3>1
  <2>. QED BY <2>3, <2>4
<1>. QED BY <1>8, <1>9

LEMMA FailuresStep ==
  ASSUME ProviderTypeOK, ChainGoesDown, FailuresCounted, RouterCircuitIdle,
         [ProviderNext]_providerVars
  PROVE  FailuresCounted' /\ RouterCircuitIdle'
<1>1. CASE UNCHANGED providerVars
  BY <1>1 DEF providerVars, callVars, processVars, FailuresCounted, RouterCircuitIdle, May
<1>2. CASE NewProcess
  BY <1>2, ProvidersAreNumbers DEF NewProcess, FailuresCounted, RouterCircuitIdle
<1>3. CASE Tick
  <2>1. FailuresCounted'
    BY <1>3 DEF Tick, FailuresCounted, May
  <2>2. RouterCircuitIdle'
    BY <1>3, ProvidersAreNumbers DEF Tick, RouterCircuitIdle
  <2>. QED BY <2>1, <2>2
<1>. QED BY <1>1, <1>2, <1>3, StartCounts, EndCounts, FailCounts DEF ProviderNext

----------------------------------------------------------------------------
(* The theorems *)

(* ProviderIInv is inductive. *)
THEOREM ProviderInvariant == ProviderSpec => []ProviderIInv
<1>1. ProviderIInv /\ [ProviderNext]_providerVars => ProviderIInv'
  BY ProviderTypesStep, BudgetStep, CircuitStep, ChainStep, FailuresStep DEF ProviderIInv
<1>. QED BY ProviderInitOK, <1>1, PTL DEF ProviderSpec

(* Every variable of the router and of its mirror in Redis has its type, so *)
(* that counters, circuits and budgets keep within their limits.            *)
THEOREM ProviderTypeCorrect == ProviderSpec => []ProviderTypeOK
<1>1. ProviderIInv => ProviderTypeOK
  BY DEF ProviderIInv
<1>. QED BY ProviderInvariant, <1>1, PTL

(* A call takes its budget at most, however long its chain is and however   *)
(* many of its services hang.                                               *)
THEOREM BudgetIsKept == ProviderSpec => []BudgetKept
<1>1. ProviderIInv => BudgetKept
  <2>1. SUFFICES ASSUME ProviderTypeOK, BudgetAddsUp, NEW r \in Request
                 PROVE  age[r] <= Budget
    BY DEF ProviderIInv, BudgetKept
  <2>2. left[r] \in 0 .. Budget /\ age[r] \in Nat
    BY <2>1 DEF ProviderTypeOK
  <2>3. age[r] = 0 \/ left[r] + age[r] = Budget
    BY <2>1 DEF BudgetAddsUp
  <2>. QED BY <2>2, <2>3, ProviderAssumption DEF ProviderAssumption
<1>. QED BY ProviderInvariant, <1>1, PTL

(* The circuits of the router stay closed for captcha services while fewer  *)
(* calls than the threshold are under way at once.                          *)
THEOREM RouterCircuitStaysIdle == ProviderSpec => []RouterCircuitIdle
<1>1. ProviderIInv => RouterCircuitIdle
  BY DEF ProviderIInv
<1>. QED BY ProviderInvariant, <1>1, PTL

(* The circuit in Redis is closed to a service for all of its time after    *)
(* the last of so many failures in a row, in whichever processes they were. *)
THEOREM CircuitAlwaysGuards == ProviderSpec => []CircuitGuards
<1>1. ProviderIInv => CircuitGuards
  <2>1. SUFFICES ASSUME ProviderTypeOK, CircuitLasts, NEW p \in Captcha \ lost,
                        consecutive[p] = Threshold, since[p] < Circuit
                 PROVE  circuit[p] > 0
    BY DEF ProviderIInv, CircuitGuards
  <2>2. circuit[p] \in 0 .. Circuit /\ since[p] \in 0 .. Circuit
        /\ circuit[p] + since[p] >= Circuit
    BY <2>1 DEF ProviderTypeOK, CircuitLasts
  <2>. QED BY <2>1, <2>2, ProviderAssumption DEF ProviderAssumption
<1>. QED BY ProviderInvariant, <1>1, PTL
=============================================================================
