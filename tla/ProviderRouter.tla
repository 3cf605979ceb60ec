--------------------------- MODULE ProviderRouter ---------------------------
(***************************************************************************)
(* Which model service answers a call of a browser process                 *)
(* (app/provider_router.py, and its callers in app/settings.py).           *)
(*                                                                         *)
(* Two breakers watch the services.  The router of the process counts      *)
(* failures and opens a circuit; settings keeps the services that failed   *)
(* once in this process, and mirrors the events to Redis, where a second   *)
(* circuit outlives the process.  Calls for a captcha go through a chain   *)
(* of services, and through both filters; any other call has one service.  *)
(*                                                                         *)
(* The process is one event loop: what happens between two awaits is one   *)
(* step, the synchronous Redis commands included.  Time is counted in      *)
(* ticks that are left, and counters stop at the threshold they are        *)
(* compared with.  The service without a chain is recorded in Redis too,    *)
(* where no call looks for it: that is left out.                           *)
(***************************************************************************)
EXTENDS Integers, FiniteSets

CONSTANTS
  Chain,       \* the length of the captcha chain: services 1 .. Chain
  Configured,  \* the services that have a key
  Request,     \* calls the process may have under way at once
  Threshold,   \* failures that open a circuit
  Circuit,     \* ticks that a circuit stays open
  Budget,      \* ticks that a call may take
  MaxFaults,   \* bound: Redis commands that fail
  None

(* The service of all calls that are not for a captcha. *)
Plain == 0

Captcha == 1 .. Chain

Provider == {Plain} \cup Captcha

ASSUME ProviderAssumption ==
  /\ Chain \in Nat /\ Configured \subseteq Provider
  /\ Threshold \in Nat \ {0} /\ Circuit \in Nat \ {0} /\ Budget \in Nat \ {0}
  /\ MaxFaults \in Nat
  /\ IsFiniteSet(Request)
  /\ None \notin Provider

VARIABLES
  asking,       \* the service each call waits for, None: there is no such call
  ahead,        \* the services it may still turn to
  left,         \* what is left of its budget
  age,          \* history: how long it has lasted
  failures,     \* router.state[...]["failures"]
  openFor,      \* router.state[...]["open_until"]
  unavailable,  \* _CAPTCHA_SESSION_UNAVAILABLE_PROVIDERS
  timedOut,     \* _CAPTCHA_LAST_CALL_PROVIDER_TIMEOUT
  consecutive,  \* Redis: consecutive_failures of metrics:provider:<p>
  circuit,      \* Redis: TTL of metrics:provider_circuit:<p>
  faults,       \* Redis commands that have failed
  since,        \* history: ticks since the service failed last
  lost          \* history: services of which Redis missed an event

callVars == <<asking, ahead, left, age>>
processVars == <<failures, openFor, unavailable, timedOut>>
mirrorVars == <<consecutive, circuit, faults, since, lost>>
providerVars == <<callVars, processVars, mirrorVars>>

(* Every variable has its type. *)
ProviderTypeOK ==
  /\ asking \in [Request -> Provider \cup {None}]
  /\ ahead \in [Request -> SUBSET Provider]
  /\ left \in [Request -> 0 .. Budget]
  /\ age \in [Request -> Nat]
  /\ failures \in [Provider -> 0 .. Threshold]
  /\ openFor \in [Provider -> 0 .. Circuit]
  /\ unavailable \subseteq Provider
  /\ timedOut \in BOOLEAN
  /\ consecutive \in [Captcha -> 0 .. Threshold]
  /\ circuit \in [Captcha -> 0 .. Circuit]
  /\ faults \in 0 .. MaxFaults
  /\ since \in [Captcha -> 0 .. Circuit]
  /\ lost \subseteq Captcha

ProviderInit ==
  /\ asking = [r \in Request |-> None]
  /\ ahead = [r \in Request |-> {}]
  /\ left = [r \in Request |-> 0]
  /\ age = [r \in Request |-> 0]
  /\ failures = [p \in Provider |-> 0]
  /\ openFor = [p \in Provider |-> 0]
  /\ unavailable = {}
  /\ timedOut = FALSE
  /\ consecutive = [p \in Captcha |-> 0]
  /\ circuit = [p \in Captcha |-> 0]
  /\ faults = 0
  /\ since = [p \in Captcha |-> Circuit]
  /\ lost = {}

----------------------------------------------------------------------------
UpTo(n, limit) == IF n < limit THEN n ELSE limit

Idle(r) == asking[r] = None

(* The call leaves the loop; unanswered is ProviderUnavailable.            *)
End(r, unanswered) ==
  /\ asking' = [asking EXCEPT ![r] = None]
  /\ ahead' = [ahead EXCEPT ![r] = {}]
  /\ left' = [left EXCEPT ![r] = 0]
  /\ age' = [age EXCEPT ![r] = 0]
  /\ timedOut' = unanswered

(* Mutated form: the deadline is taken anew for each service. *)
ProceedWithFreshBudget(r, rest, time, waited) ==
  LET usable == {p \in rest \cap Configured : openFor'[p] = 0}
  IN  IF usable = {}
      THEN End(r, TRUE)
      ELSE \E p \in usable :
             /\ \A q \in usable : p <= q
             /\ asking' = [asking EXCEPT ![r] = p]
             /\ ahead' = [ahead EXCEPT ![r] = {q \in rest : q > p}]
             /\ left' = [left EXCEPT ![r] = Budget]
             /\ age' = [age EXCEPT ![r] = waited]
             /\ UNCHANGED timedOut

(* The loop of request looks for the next service: one without a key or    *)
(* with an open circuit is passed over, and without any time left it ends. *)
(* rest are the services not yet tried, time is what is left, waited how   *)
(* long the call has lasted.                                               *)
Proceed(r, rest, time, waited) ==
  LET usable == {p \in rest \cap Configured : openFor'[p] = 0}
  IN  IF usable = {} \/ time = 0
      THEN End(r, TRUE)
      ELSE \E p \in usable :
             /\ \A q \in usable : p <= q
             /\ asking' = [asking EXCEPT ![r] = p]
             /\ ahead' = [ahead EXCEPT ![r] = {q \in rest : q > p}]
             /\ left' = [left EXCEPT ![r] = time]
             /\ age' = [age EXCEPT ![r] = waited]
             /\ UNCHANGED timedOut

(* Mutated form: a failure in this process does not exclude a service. *)
StartCaptchaAnyway(r) ==
  /\ Idle(r)
  /\ UNCHANGED <<failures, openFor, unavailable, mirrorVars>>
  /\ Proceed(r, {p \in Captcha : circuit[p] = 0}, Budget, 0)

(* _filter_session_captcha_providers.  A circuit that cannot be read counts *)
(* as closed.                                                              *)
StartCaptcha(r) ==
  /\ Idle(r)
  /\ UNCHANGED <<failures, openFor, unavailable, consecutive, circuit, since, lost>>
  /\ \E missed \in SUBSET {p \in Captcha \ unavailable : circuit[p] > 0} :
       /\ faults + Cardinality(missed) <= MaxFaults
       /\ faults' = faults + Cardinality(missed)
       /\ Proceed(r, {p \in Captcha \ unavailable : circuit[p] > 0 => p \in missed},
                  Budget, 0)

(* Any other call: no filter, no chain. *)
StartPlain(r) ==
  /\ Idle(r)
  /\ UNCHANGED <<failures, openFor, unavailable, mirrorVars>>
  /\ Proceed(r, {Plain}, Budget, 0)

----------------------------------------------------------------------------
(* _record_provider_event.  Each is a list of commands of which a prefix is *)
(* executed when Redis fails.                                              *)
RedisFault(p) ==
  /\ faults < MaxFaults
  /\ faults' = faults + 1
  /\ lost' = lost \cup {p}

(* HSET consecutive_failures 0, DEL circuit *)
RecordSuccess(p) ==
  /\ UNCHANGED since
  /\ \/ /\ consecutive' = [consecutive EXCEPT ![p] = 0]
        /\ circuit' = [circuit EXCEPT ![p] = 0]
        /\ lost' = lost \ {p}
        /\ UNCHANGED faults
     \/ /\ RedisFault(p)
        /\ UNCHANGED circuit
        /\ \/ consecutive' = [consecutive EXCEPT ![p] = 0]
           \/ UNCHANGED consecutive

(* Mutated form: the circuit is opened when the threshold is reached, and   *)
(* not again at the failures after it has expired.                         *)
RecordFailureOnce(p, opened) ==
  /\ since' = [since EXCEPT ![p] = 0]
  /\ consecutive' = [consecutive EXCEPT ![p] = UpTo(@ + 1, Threshold)]
  /\ circuit' = IF consecutive[p] = Threshold - 1
                THEN [circuit EXCEPT ![p] = Circuit]
                ELSE circuit
  /\ UNCHANGED <<faults, lost>>

(* HINCRBY consecutive_failures 1, SETEX circuit from the threshold on, and *)
(* SETEX circuit again for circuit_opened of the router.                   *)
RecordFailure(p, opened) ==
  LET n == UpTo(consecutive[p] + 1, Threshold)
  IN  /\ since' = [since EXCEPT ![p] = 0]
      /\ \/ /\ consecutive' = [consecutive EXCEPT ![p] = n]
            /\ circuit' = IF n = Threshold \/ opened
                          THEN [circuit EXCEPT ![p] = Circuit]
                          ELSE circuit
            /\ UNCHANGED <<faults, lost>>
         \/ /\ RedisFault(p)
            /\ UNCHANGED circuit
            /\ \/ consecutive' = [consecutive EXCEPT ![p] = n]
               \/ UNCHANGED consecutive

(* Status 200 with a body that is JSON. *)
Answer(r) ==
  LET p == asking[r]
  IN  /\ ~ Idle(r)
      /\ failures' = [failures EXCEPT ![p] = 0]
      /\ openFor' = [openFor EXCEPT ![p] = 0]
      /\ unavailable' = unavailable \ {p}
      /\ IF p = Plain THEN UNCHANGED mirrorVars ELSE RecordSuccess(p)
      /\ End(r, FALSE)

(* Status 401 or 403 ends the call at once (ProviderRejected), and so does  *)
(* an error that request does not catch, such as a service that hangs up   *)
(* without an answer (httpx.RemoteProtocolError): nothing is counted.      *)
Reject(r) ==
  /\ ~ Idle(r)
  /\ End(r, FALSE)
  /\ UNCHANGED <<failures, openFor, unavailable, mirrorVars>>

(* Any other answer, a time-out, or a broken connection: the failure is     *)
(* counted and recorded, and the next service is tried.  With nothing left *)
(* of the budget this is asyncio.timeout.                                  *)
Fail(r) ==
  LET p == asking[r]
      n == UpTo(failures[p] + 1, Threshold)
  IN  /\ ~ Idle(r)
      /\ failures' = [failures EXCEPT ![p] = n]
      /\ openFor' = IF n = Threshold THEN [openFor EXCEPT ![p] = Circuit] ELSE openFor
      /\ unavailable' = unavailable \cup {p}
      /\ IF p = Plain THEN UNCHANGED mirrorVars ELSE RecordFailure(p, n = Threshold)
      /\ Proceed(r, ahead[r], left[r], age[r])

----------------------------------------------------------------------------
(* The process of a run ends, or is killed, and that of the next starts. *)
NewProcess ==
  /\ asking' = [r \in Request |-> None]
  /\ ahead' = [r \in Request |-> {}]
  /\ left' = [r \in Request |-> 0]
  /\ age' = [r \in Request |-> 0]
  /\ failures' = [p \in Provider |-> 0]
  /\ openFor' = [p \in Provider |-> 0]
  /\ unavailable' = {}
  /\ timedOut' = FALSE
  /\ UNCHANGED mirrorVars

(* Mutated form: the circuit key has no TTL. *)
TickWithoutTtl ==
  /\ \A r \in Request : asking[r] # None => left[r] > 0
  /\ left' = [r \in Request |-> IF asking[r] = None THEN left[r] ELSE left[r] - 1]
  /\ age' = [r \in Request |-> IF asking[r] = None THEN age[r] ELSE age[r] + 1]
  /\ openFor' = [p \in Provider |-> IF openFor[p] = 0 THEN 0 ELSE openFor[p] - 1]
  /\ since' = [p \in Captcha |-> UpTo(since[p] + 1, Circuit)]
  /\ UNCHANGED <<asking, ahead, failures, unavailable, timedOut, consecutive, circuit,
                 faults, lost>>

(* A tick.  A call whose budget is used up is ended before. *)
Tick ==
  /\ \A r \in Request : asking[r] # None => left[r] > 0
  /\ left' = [r \in Request |-> IF asking[r] = None THEN left[r] ELSE left[r] - 1]
  /\ age' = [r \in Request |-> IF asking[r] = None THEN age[r] ELSE age[r] + 1]
  /\ openFor' = [p \in Provider |-> IF openFor[p] = 0 THEN 0 ELSE openFor[p] - 1]
  /\ circuit' = [p \in Captcha |-> IF circuit[p] = 0 THEN 0 ELSE circuit[p] - 1]
  /\ since' = [p \in Captcha |-> UpTo(since[p] + 1, Circuit)]
  /\ UNCHANGED <<asking, ahead, failures, unavailable, timedOut, consecutive, faults, lost>>

ProviderNext ==
  \/ \E r \in Request : StartCaptcha(r) \/ StartPlain(r) \/ Answer(r) \/ Reject(r) \/ Fail(r)
  \/ NewProcess
  \/ Tick

ProviderSpec == ProviderInit /\ [][ProviderNext]_providerVars

(* Time passes, asyncio.timeout fires, and a run ends by its hard timeout.  *)
ProviderFairness ==
  /\ WF_providerVars(Tick)
  /\ WF_providerVars(NewProcess)
  /\ \A r \in Request : WF_providerVars(left[r] = 0 /\ Fail(r))

FairProviderSpec == ProviderSpec /\ ProviderFairness

----------------------------------------------------------------------------
(* A call takes its budget at most, however many services hang in turn:    *)
(* each gets what the ones before it have left.                            *)
BudgetKept == \A r \in Request : age[r] <= Budget

(* As long as fewer calls than the threshold are under way at once, the    *)
(* circuits of the router never open for a captcha service: settings       *)
(* excludes it for the rest of the process at its first failure, and each  *)
(* call that was under way adds one failure at most.                       *)
RouterCircuitIdle ==
  Cardinality(Request) < Threshold => \A p \in Captcha : openFor[p] = 0

(* A service that has failed three times in a row, in whatever processes,   *)
(* is left alone until ten minutes after the last failure (README,         *)
(* section on recovery), unless Redis missed an event.                     *)
CircuitGuards ==
  \A p \in Captcha \ lost :
    consecutive[p] = Threshold /\ since[p] < Circuit => circuit[p] > 0

(* No service is excluded for ever, neither by Redis nor by the process.   *)
ProvidersComeBack ==
  \A p \in Captcha : []<>(circuit[p] = 0 /\ p \notin unavailable)
=============================================================================
