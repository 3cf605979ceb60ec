---------------------------- MODULE RunTaskProofs ----------------------------
(***************************************************************************)
(* What RunTask keeps invariant for any games, errors and bounds, and that *)
(* it implements RetryBudget and, in what it does to its run, Attempts.    *)
(***************************************************************************)
EXTENDS RunTask, FiniteSetTheorems, TLAPS

(* The games that a line may tell as claimed or owned.                      *)
Credible == Owned \cup presumed

(* A line that the worker can use, and that is true of the account, or was  *)
(* taken to be when the cart's success page came.                           *)
Truthful(line, known) ==
  /\ line \in Line
  /\ line.kind \in {"error", "final", "game"} => line.what \in ErrorType \cup GameCollectError
  /\ line.kind = "result" =>
       /\ line.title \in Title
       /\ line.what \in GameStatus
       /\ line.what \in SuccessfulGameStates => line.title \in known

Truths(known) == {line \in Line : Truthful(line, known)}

LinesAreTrue == pipe \in Seq(Truths(Credible))

(* Kinds of lines that only a login writes, and that no login writes.       *)
LoginLine == {line \in Line : line.kind \in {"credentials", "error"}}

GameLine == {line \in Line : line.kind \in {"result", "owned"}}

NoneOf(lines, S) == \A i \in 1 .. Len(lines) : lines[i] \notin S

(* A failed login is told before any result, and then the browser ends.     *)
RefusedFirst ==
  /\ AtTask("idle") => task.results = NoResults
  /\ InBrowser("login") => task.results = NoResults /\ NoneOf(pipe, GameLine)
  /\ InBrowser("off") => pipe = << >>
  /\ InBrowser("exit") \/ NoneOf(pipe, LoginLine)
  /\ \/ NoneOf(pipe, LoginLine)
     \/ task.results = NoResults /\ NoneOf(pipe, GameLine)

(* The row says running exactly while run_task does.                        *)
RunningIsRun == AtTask("idle") <=> run.state # "running"

CheckoutHasGame == InBrowser("checkout") => browser.game \in Title

(* Where ClaimsReachHistory stands in the course of an attempt.             *)
ClaimsAreAtHand ==
  mishaps = [timeouts |-> 0, reports |-> 0] =>
    Recorded \subseteq IF task.pc \in {"read", "report"} THEN history \cup Successful ELSE history

RunIInv ==
  /\ RunTaskTypeOK
  /\ LinesAreTrue
  /\ UnownedRecordIsPresumed
  /\ UnownedSuccessIsPresumed
  /\ RefusedFirst
  /\ RunningIsRun
  /\ CheckoutHasGame
  /\ ClaimsAreAtHand

USE DEF epicVars

----------------------------------------------------------------------------
(* Lines *)

(* Errors as the browser tells them. *)
LEMMA SaysIsTrue ==
  ASSUME NEW known, NEW kind \in {"error", "final", "game"},
         NEW what \in ErrorType \cup GameCollectError
  PROVE  /\ Says(kind, what) \in Truths(known)
         /\ Says(kind, what) \notin GameLine
         /\ kind # "error" => Says(kind, what) \notin LoginLine
  BY DEF Says, Truths, Truthful, Line, LineKind, GameLine, LoginLine

LEMMA PhraseIsTrue ==
  ASSUME NEW known, NEW kind \in LineKind \ {"error", "final", "game", "result"}
  PROVE  /\ Phrase(kind) \in Truths(known)
         /\ kind # "owned" => Phrase(kind) \notin GameLine
         /\ kind # "credentials" => Phrase(kind) \notin LoginLine
  BY DEF Phrase, Says, Truths, Truthful, Line, LineKind, GameLine, LoginLine

LEMMA ResultIsTrue ==
  ASSUME NEW known, NEW t \in Title, NEW s \in GameStatus,
         s \in SuccessfulGameStates => t \in known
  PROVE  Result(t, s) \in Truths(known) /\ Result(t, s) \notin LoginLine
  BY DEF Result, Truths, Truthful, Line, LineKind, LoginLine

(* One, two or three lines. *)
LEMMA FewLines ==
  ASSUME NEW S, NEW a \in S, NEW b \in S, NEW c \in S
  PROVE  /\ << >> \in Seq(S)
         /\ <<a>> \in Seq(S)
         /\ <<a, b>> \in Seq(S)
         /\ <<a, b, c>> \in Seq(S)
  OBVIOUS

LEMMA FewLinesNoneOf ==
  ASSUME NEW S, NEW a, NEW b, NEW c, a \notin S, b \notin S, c \notin S
  PROVE  /\ NoneOf(<< >>, S)
         /\ NoneOf(<<a>>, S)
         /\ NoneOf(<<a, b>>, S)
         /\ NoneOf(<<a, b, c>>, S)
  BY DEF NoneOf

(* Sequences joined *)
LEMMA Joined ==
  ASSUME NEW T, NEW p \in Seq(T), NEW q \in Seq(T)
  PROVE  /\ p \o q \in Seq(T)
         /\ \A S : NoneOf(p \o q, S) <=> NoneOf(p, S) /\ NoneOf(q, S)
<1>1. p \o q \in Seq(T) /\ Len(p \o q) = Len(p) + Len(q) /\ Len(p) \in Nat /\ Len(q) \in Nat
  OBVIOUS
<1>2. \A i \in 1 .. Len(p) : (p \o q)[i] = p[i]
  OBVIOUS
<1>3. \A i \in 1 .. Len(q) : (p \o q)[Len(p) + i] = q[i]
  OBVIOUS
<1>4. ASSUME NEW S, NoneOf(p, S), NoneOf(q, S)
      PROVE  NoneOf(p \o q, S)
  <2>1. SUFFICES ASSUME NEW i \in 1 .. Len(p) + Len(q)
                 PROVE  (p \o q)[i] \notin S
    BY <1>1 DEF NoneOf
  <2>2. CASE i <= Len(p)
    BY <1>1, <1>2, <1>4, <2>2 DEF NoneOf
  <2>3. CASE i > Len(p)
    <3>1. i - Len(p) \in 1 .. Len(q) /\ Len(p) + (i - Len(p)) = i
      BY <1>1, <2>3
    <3>. QED BY <3>1, <1>3, <1>4 DEF NoneOf
  <2>. QED BY <1>1, <2>2, <2>3
<1>5. ASSUME NEW S, NoneOf(p \o q, S)
      PROVE  NoneOf(p, S) /\ NoneOf(q, S)
  <2>1. \A i \in 1 .. Len(q) : Len(p) + i \in 1 .. Len(p \o q)
    BY <1>1
  <2>2. \A i \in 1 .. Len(p) : i \in 1 .. Len(p \o q)
    BY <1>1
  <2>. QED BY <1>2, <1>3, <1>5, <2>1, <2>2 DEF NoneOf
<1>. QED BY <1>1, <1>4, <1>5

LEMMA EmptyJoined ==
  ASSUME NEW T, NEW p \in Seq(T)
  PROVE  << >> \o p = p
<1>1. << >> \o p \in Seq(T) /\ Len(<< >> \o p) = Len(p) /\ Len(p) \in Nat
  OBVIOUS
<1>2. \A i \in 1 .. Len(p) : (<< >> \o p)[i] = p[i]
  OBVIOUS
<1>. QED BY <1>1, <1>2

(* What is left when a line is read *)
LEMMA Read ==
  ASSUME NEW T, NEW p \in Seq(T), p # << >>
  PROVE  /\ Head(p) \in T
         /\ Tail(p) \in Seq(T)
         /\ \A S : NoneOf(p, S) => Head(p) \notin S /\ NoneOf(Tail(p), S)
<1>1. Len(p) \in Nat \ {0} /\ Head(p) = p[1] /\ Len(Tail(p)) = Len(p) - 1
  OBVIOUS
<1>2. \A i \in 1 .. Len(Tail(p)) : Tail(p)[i] = p[i + 1]
  OBVIOUS
<1>3. \A i \in 1 .. Len(Tail(p)) : i + 1 \in 1 .. Len(p)
  BY <1>1
<1>4. \A S : NoneOf(p, S) => Head(p) \notin S /\ NoneOf(Tail(p), S)
  BY <1>1, <1>2, <1>3 DEF NoneOf
<1>. QED BY <1>4

(* All orders of finitely many lines *)
LEMMA EachOfType ==
  ASSUME NEW S, IsFiniteSet(S), NEW s \in EachOf(S), NEW T, S \subseteq T
  PROVE  s \in Seq(T)
<1>1. Cardinality(S) \in Nat
  BY FS_CardinalityType
<1>2. s \in [1 .. Cardinality(S) -> T]
  BY DEF EachOf
<1>. QED BY <1>1, <1>2

LEMMA ResultsAreFinite ==
  ASSUME NEW A \in SUBSET Title, NEW s
  PROVE  IsFiniteSet(Results(A, s))
<1> DEFINE f == [t \in A |-> Result(t, s)]
<1>1. IsFiniteSet(A)
  BY FS_Subset, BrowserAssumption
<1>2. f \in Surjection(A, Results(A, s))
  BY DEF Surjection, Results
<1>. QED BY <1>1, <1>2, FS_Surjection

----------------------------------------------------------------------------
(* Steps of the browser *)

(* The effect that every one of them has. *)
Keeps ==
  /\ epic' \in [Title -> {"none", "cart", "ordered", "owned"}]
  /\ presumed' \in SUBSET Title
  /\ Credible \subseteq Credible'
  /\ browser' \in Browser
  /\ CheckoutHasGame'
  /\ browser.pc \notin {"off", "exit"}
  /\ browser'.pc # "off"
  /\ browser'.pc = "login" => browser.pc = "login"

Writes(lines) ==
  /\ lines \in Seq(Truths(Credible'))
  /\ pipe' = pipe \o lines
  /\ InBrowser("login") => NoneOf(lines, GameLine)
  /\ \/ NoneOf(lines, LoginLine)
     \/ browser.pc = "login" /\ browser'.pc = "exit"

LEMMA WritesNothing ==
  ASSUME LinesAreTrue, UNCHANGED pipe
  PROVE  \E lines : Writes(lines)
<1>1. Writes(<< >>)
  BY DEF Writes, NoneOf, LinesAreTrue, Credible, Owned
<1>. QED BY <1>1

(* One line that is no result. *)
LEMMA WritesOne ==
  ASSUME NEW l \in Truths(Credible'), l \notin GameLine, l \notin LoginLine, Say(<<l>>)
  PROVE  \E lines : Writes(lines)
<1>1. Writes(<<l>>)
  BY FewLines, FewLinesNoneOf DEF Writes, Say
<1>. QED BY <1>1

(* Up to two lines, a result among them, after the login. *)
LEMMA WritesResult ==
  ASSUME NEW k \in Truths(Credible'), k \notin LoginLine,
         NEW l \in Truths(Credible'), l \notin LoginLine,
         Say(<<l>>) \/ Say(<<k, l>>), ~ InBrowser("login")
  PROVE  \E lines : Writes(lines)
<1>1. Say(<<l>>) => Writes(<<l>>)
  BY FewLines, FewLinesNoneOf DEF Writes, Say
<1>2. Say(<<k, l>>) => Writes(<<k, l>>)
  BY FewLines, FewLinesNoneOf DEF Writes, Say
<1>. QED BY <1>1, <1>2

LEMMA BrowserOffType == BrowserOff \in Browser
<1>1. NoOutcomes \in [Title -> GameStatus \cup {"cart", None}]
  BY DEF NoOutcomes
<1>. QED BY <1>1 DEF BrowserOff, Browser, BrowserPc

LEMMA EndKeeps ==
  ASSUME RunIInv, NEW code \in 0 .. 1, End(code), browser.pc \notin {"off", "exit"}, UNCHANGED epicVars
  PROVE  Keeps /\ browser'.pc = "exit"
<1>1. browser' \in Browser /\ browser'.pc = "exit"
  <2>1. BrowserOff \in Browser
    BY BrowserOffType
  <2>2. browser' = [BrowserOff EXCEPT !.pc = "exit", !.code = code]
    BY DEF End
  <2>. QED BY <2>1, <2>2 DEF Browser, BrowserPc
<1>. QED
  BY <1>1
     DEF RunIInv, RunTaskTypeOK, BrowserTypeOK, Keeps, CheckoutHasGame, InBrowser, Credible, Owned

LEMMA TruthsAreLines ==
  ASSUME NEW known, NEW s \in Seq(Truths(known))
  PROVE  s \in Seq(Line)
<1>1. Truths(known) \subseteq Line
  BY DEF Truths
<1>. QED BY <1>1

(* What the browser says of an exception. *)
LEMMA FailuresAreTrue ==
  ASSUME NEW known, NEW end \in Failures
  PROVE  end \in Seq(Truths(known)) /\ NoneOf(end, GameLine) /\ NoneOf(end, LoginLine)
<1> DEFINE a == Phrase("driver")
           b == Says("final", "network_timeout")
           c == Says("final", "unknown")
<1>1. /\ {a, b, c} \subseteq Truths(known)
      /\ a \notin GameLine /\ b \notin GameLine /\ c \notin GameLine
      /\ a \notin LoginLine /\ b \notin LoginLine /\ c \notin LoginLine
  BY PhraseIsTrue, SaysIsTrue DEF LineKind, ErrorType
<1>2. end = <<a, b>> \/ end = <<c>>
  BY DEF Failures
<1>. HIDE DEF a, b, c
<1>. QED BY <1>1, <1>2, FewLines, FewLinesNoneOf

(* The process ends, and closing the context may have failed.               *)
LEMMA Leaves ==
  ASSUME RunIInv, browser.pc \notin {"off", "exit"}, UNCHANGED epicVars,
         NEW lines \in Seq(Truths(Credible')), NEW last \in Seq(Truths(Credible')),
         EndWithLines(lines, last),
         InBrowser("login") => NoneOf(lines, GameLine) /\ NoneOf(last, GameLine),
         NoneOf(lines, LoginLine) \/ InBrowser("login"),
         NoneOf(last, LoginLine)
  PROVE  Keeps /\ \E written : Writes(written)
<1>1. PICK end \in {last} \cup Failures : Exit(lines \o end)
  BY DEF EndWithLines
<1>2. Keeps /\ browser'.pc = "exit"
  <2>1. 0 \in 0 .. 1
    OBVIOUS
  <2>. QED BY <1>1, <2>1, EndKeeps DEF Exit
<1>3. /\ end \in Seq(Truths(Credible')) /\ NoneOf(end, LoginLine)
      /\ InBrowser("login") => NoneOf(end, GameLine)
  BY <1>1, FailuresAreTrue
<1>4. Writes(lines \o end)
  <2>1. /\ lines \o end \in Seq(Truths(Credible'))
        /\ \A S : NoneOf(lines \o end, S) <=> NoneOf(lines, S) /\ NoneOf(end, S)
    BY <1>3, Joined
  <2>2. pipe' = pipe \o (lines \o end)
    BY <1>1 DEF Exit, Say
  <2>. QED BY <1>2, <1>3, <2>1, <2>2 DEF Writes, InBrowser
<1>. QED BY <1>2, <1>4

LEMMA LoginSteps ==
  ASSUME RunIInv,
         \/ LoggedIn \/ LoginDelayed \/ LoginPageTimesOut
         \/ \E e \in LoginError : LoginFails(e)
         \/ BrowserFails \/ BrowserDies
  PROVE  Keeps /\ \E lines : Writes(lines)
<1> USE DEF RunIInv, RunTaskTypeOK, BrowserTypeOK
<1>1. CASE LoggedIn
  <2> DEFINE a == Phrase("login")
  <2>1. InBrowser("login") /\ UNCHANGED epicVars
    BY <1>1 DEF LoggedIn
  <2>2. a \in Truths(Credible') /\ a \notin GameLine /\ a \notin LoginLine
    BY PhraseIsTrue DEF LineKind
  <2>3. CASE Leave(<<a>>)
    <3>. HIDE DEF a
    <3>1. EndWithLines(<<a>>, << >>)
      BY <2>3 DEF Leave
    <3>. QED BY <2>1, <2>2, <3>1, FewLines, FewLinesNoneOf, Leaves DEF InBrowser
  <2>4. CASE Say(<<a>>) /\ Goto("claim")
    <3>1. Keeps
      BY <2>1, <2>4 DEF Goto, InBrowser, Browser, BrowserPc, Keeps, CheckoutHasGame, Credible, Owned
    <3>. QED BY <2>2, <2>4, <3>1, WritesOne
  <2>. QED BY <1>1, <2>3, <2>4 DEF LoggedIn
<1>2. CASE LoginDelayed
  <2>1. Keeps
    BY <1>2 DEF LoginDelayed, InBrowser, Browser, BrowserPc, Keeps, CheckoutHasGame, Credible, Owned
  <2>2. PICK kind \in {"timeout", "slow"} : Say(<<Phrase(kind)>>)
    BY <1>2 DEF LoginDelayed
  <2>. QED BY <2>1, <2>2, PhraseIsTrue, WritesOne DEF LineKind
<1>3. CASE LoginPageTimesOut
  <2> DEFINE a == Phrase("timeout")
             b == Says("error", "unknown")
             c == Says("final", "unknown")
  <2>1. InBrowser("login") /\ UNCHANGED epicVars /\ EndWithLines(<<a, b>>, <<c>>)
    BY <1>3 DEF LoginPageTimesOut
  <2>2. /\ {a, b, c} \subseteq Truths(Credible')
        /\ a \notin GameLine /\ b \notin GameLine /\ c \notin GameLine
        /\ c \notin LoginLine
    BY PhraseIsTrue, SaysIsTrue DEF LineKind, ErrorType
  <2>. HIDE DEF a, b, c
  <2>. QED BY <2>1, <2>2, FewLines, FewLinesNoneOf, Leaves DEF InBrowser
<1>4. CASE \E e \in LoginError : LoginFails(e)
  <2>1. PICK e \in LoginError : LoginFails(e)
    BY <1>4
  <2> DEFINE a == Phrase("credentials")
             b == Says("error", e)
             c == Says("final", e)
             head == IF e = "invalid_credentials" THEN <<a>> ELSE << >>
  <2>2. InBrowser("login") /\ UNCHANGED epicVars /\ EndWithLines(head \o <<b>>, <<c>>)
    BY <2>1 DEF LoginFails
  <2>3. /\ {a, b, c} \subseteq Truths(Credible')
        /\ a \notin GameLine /\ b \notin GameLine /\ c \notin GameLine
        /\ c \notin LoginLine
    BY BrowserAssumption, PhraseIsTrue, SaysIsTrue DEF LineKind
  <2>. HIDE DEF a, b, c
  <2>4. /\ head \in Seq(Truths(Credible')) /\ NoneOf(head, GameLine)
        /\ <<b>> \in Seq(Truths(Credible')) /\ NoneOf(<<b>>, GameLine)
        /\ <<c>> \in Seq(Truths(Credible')) /\ NoneOf(<<c>>, GameLine) /\ NoneOf(<<c>>, LoginLine)
    BY <2>3, FewLines, FewLinesNoneOf
  <2>. HIDE DEF head
  <2>5. head \o <<b>> \in Seq(Truths(Credible')) /\ NoneOf(head \o <<b>>, GameLine)
    BY <2>4, Joined
  <2>. QED BY <2>2, <2>4, <2>5, Leaves DEF InBrowser
<1>5. CASE BrowserFails
  <2>1. PICK lines \in Failures : Exit(lines)
    BY <1>5 DEF BrowserFails
  <2>2. lines \in Seq(Line)
    BY <2>1, FailuresAreTrue, TruthsAreLines
  <2>3. EndWithLines(<< >>, << >>)
    <3>1. << >> \o lines = lines
      BY <2>2, EmptyJoined
    <3>. QED BY <2>1, <3>1 DEF EndWithLines
  <2>4. browser.pc \notin {"off", "exit"} /\ UNCHANGED epicVars
    BY <1>5 DEF BrowserFails
  <2>5. << >> \in Seq(Truths(Credible')) /\ \A S : NoneOf(<< >>, S)
    BY DEF NoneOf
  <2>. QED BY <2>3, <2>4, <2>5, Leaves
<1>6. CASE BrowserDies
  <2>1. Keeps
    BY <1>6, EndKeeps DEF BrowserDies, Browser
  <2>. QED BY <1>6, <2>1, WritesNothing DEF BrowserDies, Credible, Owned
<1>. QED BY <1>1, <1>2, <1>3, <1>4, <1>5, <1>6

LEMMA LeaveWithGameError ==
  ASSUME RunIInv, NEW e \in GameCollectError, NEW kind \in {"timeout", "driver"},
         browser.pc \notin {"off", "exit"}, UNCHANGED epicVars,
         Leave(<<Says("game", e)>>) \/ Leave(<<Phrase(kind), Says("game", e)>>)
  PROVE  Keeps /\ \E lines : Writes(lines)
<1> DEFINE a == Phrase(kind)
           b == Says("game", e)
<1>1. /\ {a, b} \subseteq Truths(Credible')
      /\ a \notin GameLine /\ b \notin GameLine
      /\ a \notin LoginLine /\ b \notin LoginLine
  BY PhraseIsTrue, SaysIsTrue DEF LineKind
<1>2. EndWithLines(<<b>>, << >>) \/ EndWithLines(<<a, b>>, << >>)
  BY DEF Leave
<1>. HIDE DEF a, b
<1>3. \A lines \in {<< >>, <<b>>, <<a, b>>} :
        lines \in Seq(Truths(Credible')) /\ NoneOf(lines, GameLine) /\ NoneOf(lines, LoginLine)
  BY <1>1, FewLines, FewLinesNoneOf
<1>. QED BY <1>2, <1>3, Leaves

LEMMA ClaimSteps ==
  ASSUME RunIInv, (\E e \in ClaimError : ClaimPageFails(e)) \/ CheckOrders
  PROVE  Keeps /\ \E lines : Writes(lines)
<1> USE DEF RunIInv, RunTaskTypeOK, BrowserTypeOK
<1>1. CASE \E e \in ClaimError : ClaimPageFails(e)
  <2>1. PICK e \in ClaimError : ClaimPageFails(e)
    BY <1>1
  <2>2. /\ e \in GameCollectError
        /\ browser.pc \notin {"off", "exit"} /\ UNCHANGED epicVars
        /\ Leave(<<Says("game", e)>>)
    BY <2>1 DEF ClaimPageFails, InBrowser, GameCollectError
  <2>3. "timeout" \in {"timeout", "driver"}
    OBVIOUS
  <2>. QED BY <2>2, <2>3, LeaveWithGameError
<1>2. CASE CheckOrders
  <2>1. PICK offered \in SUBSET Title, orders \in SUBSET Owned :
         LET wanted == IF browser.targets = {} THEN Title ELSE browser.targets
             todo   == (offered \cap wanted) \ orders
             told   == IF browser.targets = {} THEN {}
                       ELSE Results(wanted \cap offered \cap orders, "owned")
                            \cup Results(wanted \ offered, "unconfirmed")
         IN \E lines \in EachOf(told) :
              \/ /\ todo = {}
                 /\ Leave(lines \o <<Phrase("owned")>>)
              \/ /\ todo # {}
                 /\ Say(lines)
                 /\ browser' = [browser EXCEPT !.pc = "games", !.todo = todo]
    BY <1>2 DEF CheckOrders
  <2> DEFINE wanted == IF browser.targets = {} THEN Title ELSE browser.targets
             todo   == (offered \cap wanted) \ orders
             told   == IF browser.targets = {} THEN {}
                       ELSE Results(wanted \cap offered \cap orders, "owned")
                            \cup Results(wanted \ offered, "unconfirmed")
             Quiet  == Truths(Credible') \ LoginLine
  <2>2. PICK lines \in EachOf(told) :
         \/ /\ todo = {}
            /\ Leave(lines \o <<Phrase("owned")>>)
         \/ /\ todo # {}
            /\ Say(lines)
            /\ browser' = [browser EXCEPT !.pc = "games", !.todo = todo]
    BY <2>1
  <2>3. InBrowser("claim") /\ UNCHANGED epicVars
    BY <1>2 DEF CheckOrders
  <2>4. wanted \subseteq Title /\ orders \subseteq Owned
    BY DEF Browser
  <2>5. IsFiniteSet(told)
    <3> DEFINE A == wanted \cap offered \cap orders
               B == wanted \ offered
    <3>1. A \in SUBSET Title /\ B \in SUBSET Title
      BY <2>4
    <3>. HIDE DEF A, B
    <3>2. IsFiniteSet(Results(A, "owned")) /\ IsFiniteSet(Results(B, "unconfirmed"))
      BY <3>1, ResultsAreFinite
    <3>3. IsFiniteSet(Results(A, "owned") \cup Results(B, "unconfirmed"))
      BY <3>2, FS_Union
    <3>. QED BY <3>3, FS_EmptySet DEF A, B
  <2>6. told \subseteq Quiet
    <3>1. ASSUME NEW t \in wanted \cap offered \cap orders
          PROVE  Result(t, "owned") \in Quiet
      <4>1. t \in Title /\ t \in Credible'
        BY <2>3, <2>4 DEF Owned, Credible
      <4>. QED BY <4>1, ResultIsTrue DEF GameStatus
    <3>2. ASSUME NEW t \in wanted \ offered
          PROVE  Result(t, "unconfirmed") \in Quiet
      <4>1. t \in Title
        BY <2>4
      <4>. QED BY <4>1, ResultIsTrue DEF GameStatus, SuccessfulGameStates
    <3>. QED BY <3>1, <3>2 DEF Results
  <2>7. Phrase("owned") \in Quiet
    BY PhraseIsTrue DEF LineKind
  <2>. HIDE DEF told
  <2>8. lines \in Seq(Quiet) /\ <<Phrase("owned")>> \in Seq(Quiet)
    BY <2>5, <2>6, <2>7, EachOfType, FewLines
  <2>9. \A s \in Seq(Quiet) : s \in Seq(Truths(Credible')) /\ NoneOf(s, LoginLine)
    BY DEF NoneOf
  <2>10. CASE Leave(lines \o <<Phrase("owned")>>)
    <3>1. lines \o <<Phrase("owned")>> \in Seq(Quiet) /\ << >> \in Seq(Quiet)
      BY <2>8, Joined
    <3>2. EndWithLines(lines \o <<Phrase("owned")>>, << >>)
      BY <2>10 DEF Leave
    <3>. QED BY <2>3, <2>9, <3>1, <3>2, Leaves DEF InBrowser
  <2>11. CASE /\ Say(lines)
              /\ browser' = [browser EXCEPT !.pc = "games", !.todo = todo]
    <3>1. Keeps
      BY <2>3, <2>11 DEF Keeps, CheckoutHasGame, InBrowser, Browser, BrowserPc, Credible, Owned
    <3>2. Writes(lines)
      BY <2>3, <2>8, <2>9, <2>11 DEF Writes, Say, InBrowser
    <3>. QED BY <3>1, <3>2
  <2>. QED BY <2>2, <2>10, <2>11
<1>. QED BY <1>1, <1>2

(* A game is settled, and one line tells how. *)
LEMMA SettleType ==
  ASSUME RunIInv, NEW t \in Title, NEW s \in GameStatus \cup {"cart"},
         browser.pc \in {"games", "checkout"}, Settle(t, s)
  PROVE  browser' \in Browser /\ browser'.pc = "games"
<1>1. [browser.outcomes EXCEPT ![t] = s] \in [Title -> GameStatus \cup {"cart", None}]
  BY DEF RunIInv, RunTaskTypeOK, BrowserTypeOK, Browser
<1>. QED
  BY <1>1 DEF RunIInv, RunTaskTypeOK, BrowserTypeOK, Settle, Browser, BrowserPc

LEMMA SettleWrites ==
  ASSUME RunIInv, NEW t \in Title, NEW s \in GameStatus,
         s \in SuccessfulGameStates => t \in Owned,
         browser.pc \in {"games", "checkout"}, Settle(t, s), UNCHANGED epicVars,
         NEW kind \in {"owned", "done"},
         Say(<<Result(t, s)>>) \/ Say(<<Phrase(kind), Result(t, s)>>)
  PROVE  Keeps /\ \E lines : Writes(lines)
<1>1. Keeps
  BY SettleType
     DEF RunIInv, RunTaskTypeOK, BrowserTypeOK, Keeps, CheckoutHasGame, InBrowser, Credible, Owned
<1>2. Phrase(kind) \in Truths(Credible') /\ Phrase(kind) \notin LoginLine
  BY PhraseIsTrue DEF LineKind
<1>3. Result(t, s) \in Truths(Credible') /\ Result(t, s) \notin LoginLine
  BY ResultIsTrue DEF Credible, Owned
<1>4. ~ InBrowser("login")
  BY DEF InBrowser
<1>. QED BY <1>1, <1>2, <1>3, <1>4, WritesResult

LEMMA GameSteps ==
  ASSUME RunIInv,
         \/ \E t \in Title : \/ \E s \in GameStatus : SkipGame(t, s)
                             \/ FindOwned(t) \/ AddToCart(t) \/ PlaceOrder(t)
         \/ ConfirmCheckout
         \/ \E s \in GameStatus : GiveUpCheckout(s)
  PROVE  Keeps /\ \E lines : Writes(lines)
<1> USE DEF RunIInv, RunTaskTypeOK, BrowserTypeOK
<1>1. ASSUME NEW t \in Title, NEW s \in GameStatus, SkipGame(t, s)
      PROVE  Keeps /\ \E lines : Writes(lines)
  <2>1. "done" \in {"owned", "done"} /\ s \notin SuccessfulGameStates
    BY <1>1 DEF SkipGame, SuccessfulGameStates
  <2>. QED BY <1>1, <2>1, SettleWrites DEF SkipGame, InBrowser
<1>2. ASSUME NEW t \in Title, FindOwned(t)
      PROVE  Keeps /\ \E lines : Writes(lines)
  <2>1. "owned" \in {"owned", "done"} /\ "owned" \in GameStatus
    BY DEF GameStatus
  <2>. QED BY <1>2, <2>1, SettleWrites DEF FindOwned, InBrowser, Owned
<1>3. ASSUME NEW t \in Title, AddToCart(t)
      PROVE  Keeps /\ \E lines : Writes(lines)
  <2>1. browser' \in Browser /\ browser'.pc = "games" /\ browser.pc = "games"
    BY <1>3, SettleType DEF AddToCart, InBrowser
  <2>2. /\ epic' \in [Title -> {"none", "cart", "ordered", "owned"}]
        /\ \A u \in Title : epic[u] = "owned" => epic'[u] = "owned"
    BY <1>3 DEF AddToCart
  <2>3. Credible \subseteq Credible' /\ UNCHANGED <<presumed, pipe>>
    BY <1>3, <2>2 DEF AddToCart, Credible, Owned
  <2>4. Keeps
    BY <2>1, <2>2, <2>3 DEF Keeps, CheckoutHasGame, InBrowser
  <2>. QED BY <2>3, <2>4, WritesNothing
<1>4. ASSUME NEW t \in Title, PlaceOrder(t)
      PROVE  Keeps /\ \E lines : Writes(lines)
  <2>1. /\ epic' \in [Title -> {"none", "cart", "ordered", "owned"}]
        /\ \A u \in Title : epic[u] = "owned" => epic'[u] = "owned"
    BY <1>4 DEF PlaceOrder
  <2>2. Credible \subseteq Credible' /\ UNCHANGED <<presumed, pipe>>
    BY <1>4, <2>1 DEF PlaceOrder, Credible, Owned
  <2>3. Keeps
    BY <1>4, <2>1, <2>2 DEF PlaceOrder, Keeps, CheckoutHasGame, InBrowser, Browser, BrowserPc
  <2>. QED BY <2>2, <2>3, WritesNothing
<1>5. CASE ConfirmCheckout
  <2>1. browser.game \in Owned /\ browser.pc = "checkout"
    BY <1>5 DEF ConfirmCheckout, CheckoutHasGame, InBrowser, Owned
  <2>2. "done" \in {"owned", "done"} /\ "claimed" \in GameStatus
    BY DEF GameStatus
  <2>. QED BY <1>5, <2>1, <2>2, SettleWrites DEF ConfirmCheckout, Owned
<1>6. ASSUME NEW s \in GameStatus, GiveUpCheckout(s)
      PROVE  Keeps /\ \E lines : Writes(lines)
  <2>1. browser.game \in Title /\ browser.pc = "checkout"
    BY <1>6 DEF GiveUpCheckout, CheckoutHasGame, InBrowser
  <2>2. "done" \in {"owned", "done"} /\ s \notin SuccessfulGameStates
    BY <1>6 DEF GiveUpCheckout, SuccessfulGameStates
  <2>. QED BY <1>6, <2>1, <2>2, SettleWrites DEF GiveUpCheckout
<1>. QED BY <1>1, <1>2, <1>3, <1>4, <1>5, <1>6

LEMMA FailureSteps ==
  ASSUME RunIInv,
         \/ NavigationFails \/ DriverCrashes \/ ElementTimesOut \/ CartButtonFails
         \/ \E e \in ClaimError : CartMeetsCaptcha(e)
  PROVE  Keeps /\ \E lines : Writes(lines)
<1> USE DEF RunIInv, RunTaskTypeOK, BrowserTypeOK
<1>1. /\ "timeout" \in {"timeout", "driver"} /\ "driver" \in {"timeout", "driver"}
      /\ {"page_timeout", "driver_crash", "unknown_error", "checkout_failed"} \subseteq GameCollectError
  BY DEF GameCollectError
<1>2. CASE NavigationFails
  <2>1. /\ Leave(<<Phrase("timeout"), Says("game", "page_timeout")>>)
        /\ browser.pc \notin {"off", "exit"} /\ UNCHANGED epicVars
    BY <1>2 DEF NavigationFails
  <2>. QED BY <1>1, <2>1, LeaveWithGameError
<1>3. CASE DriverCrashes
  <2>1. /\ Leave(<<Phrase("driver"), Says("game", "driver_crash")>>)
        /\ browser.pc \notin {"off", "exit"} /\ UNCHANGED epicVars
    BY <1>3 DEF DriverCrashes
  <2>. QED BY <1>1, <2>1, LeaveWithGameError
<1>4. CASE CartButtonFails
  <2>1. /\ Leave(<<Says("game", "checkout_failed")>>)
        /\ browser.pc \notin {"off", "exit"} /\ UNCHANGED epicVars
    BY <1>4 DEF CartButtonFails, InBrowser
  <2>. QED BY <1>1, <2>1, LeaveWithGameError
<1>8. CASE \E e \in ClaimError : CartMeetsCaptcha(e)
  <2>1. PICK e \in ClaimError : CartMeetsCaptcha(e)
    BY <1>8
  <2>2. /\ e \in GameCollectError /\ Leave(<<Says("game", e)>>)
        /\ browser.pc \notin {"off", "exit"} /\ UNCHANGED epicVars
    BY <2>1, BrowserAssumption DEF CartMeetsCaptcha
  <2>. QED BY <1>1, <2>2, LeaveWithGameError
<1>5. CASE ElementTimesOut /\ browser.pass = 1 /\ UNCHANGED pipe
      /\ browser' = [browser EXCEPT !.pc = "games", !.pass = 2, !.outcomes = NoOutcomes,
            !.todo = @ \cup {t \in Title : browser.outcomes[t] # None}]
  <2> DEFINE again == browser.todo \cup {t \in Title : browser.outcomes[t] # None}
  <2>1. NoOutcomes \in [Title -> GameStatus \cup {"cart", None}] /\ again \in SUBSET Title
    BY DEF NoOutcomes, Browser
  <2>2. browser' = [browser EXCEPT !.pc = "games", !.pass = 2, !.outcomes = NoOutcomes,
                                   !.todo = again]
    BY <1>5
  <2>3. browser.pc \notin {"off", "exit"} /\ UNCHANGED epicVars
    BY <1>5 DEF ElementTimesOut, InBrowser
  <2>. HIDE DEF again
  <2>4. \A o \in [Title -> GameStatus \cup {"cart", None}], S \in SUBSET Title :
          LET b == [browser EXCEPT !.pc = "games", !.pass = 2, !.outcomes = o, !.todo = S]
          IN b \in Browser /\ b.pc = "games"
    <3>1. 2 \in 1 .. 2
      OBVIOUS
    <3>. QED BY <3>1 DEF Browser, BrowserPc
  <2>5. browser' \in Browser /\ browser'.pc = "games"
    BY <2>1, <2>2, <2>4
  <2>6. Keeps
    BY <2>3, <2>5 DEF Keeps, CheckoutHasGame, InBrowser, Credible, Owned
  <2>. QED BY <1>5, <2>3, <2>6, WritesNothing DEF Credible, Owned
<1>6. CASE ElementTimesOut /\ Leave(<<Says("game", "unknown_error")>>)
  <2>1. browser.pc \notin {"off", "exit"} /\ UNCHANGED epicVars
    BY <1>6 DEF ElementTimesOut, InBrowser
  <2>. QED BY <1>1, <1>6, <2>1, LeaveWithGameError
<1>7. CASE ElementTimesOut
  <2>1. \/ /\ browser.pass = 1 /\ UNCHANGED pipe
           /\ browser' = [browser EXCEPT !.pc = "games", !.pass = 2, !.outcomes = NoOutcomes,
                !.todo = @ \cup {t \in Title : browser.outcomes[t] # None}]
        \/ Leave(<<Says("game", "unknown_error")>>)
    BY <1>7 DEF ElementTimesOut
  <2>. QED BY <1>5, <1>6, <1>7, <2>1
<1>. QED BY <1>2, <1>3, <1>4, <1>7, <1>8

LEMMA CartSteps ==
  ASSUME RunIInv, CheckOutCart \/ BuyCart \/ CartFails \/ FinishGames
  PROVE  Keeps /\ \E lines : Writes(lines)
<1> USE DEF RunIInv, RunTaskTypeOK, BrowserTypeOK
<1>1. CASE CheckOutCart
  <2>1. PICK kept \in SUBSET EpicCart, ordered \in BOOLEAN :
         /\ epic' = [t \in Title |->
              IF t \notin EpicCart THEN epic[t]
              ELSE IF t \notin kept THEN "none"
              ELSE IF ordered THEN "ordered" ELSE "cart"]
         /\ Goto(IF ordered THEN "bought" ELSE "cart")
    BY <1>1 DEF CheckOutCart
  <2>2. InBrowser("games") /\ UNCHANGED <<presumed, pipe>>
    BY <1>1 DEF CheckOutCart
  <2>3. /\ epic' \in [Title -> {"none", "cart", "ordered", "owned"}]
        /\ \A t \in Title : epic[t] = "owned" => epic'[t] = "owned"
    BY <2>1 DEF EpicCart
  <2>4. Credible \subseteq Credible'
    BY <2>2, <2>3 DEF Credible, Owned
  <2>5. browser' \in Browser /\ browser'.pc \in {"bought", "cart"}
    BY <2>1 DEF Goto, Browser, BrowserPc
  <2>6. Keeps
    BY <2>2, <2>3, <2>4, <2>5 DEF Keeps, CheckoutHasGame, InBrowser
  <2>. QED BY <2>2, <2>6, WritesNothing
<1>2. ASSUME NEW s \in GameStatus, SettleCart(s), browser.pc \in {"cart", "bought"},
             epic' \in [Title -> {"none", "cart", "ordered", "owned"}],
             presumed' \in SUBSET Title, Credible \subseteq Credible',
             s \in SuccessfulGameStates => InCart \subseteq Credible'
      PROVE  Keeps /\ \E lines : Writes(lines)
  <2> DEFINE Quiet == Truths(Credible') \ LoginLine
             outcomes == [t \in Title |-> IF t \in InCart THEN s ELSE browser.outcomes[t]]
  <2>1. PICK lines \in EachOf(Results(InCart, s)) : Say(lines)
    BY <1>2 DEF SettleCart
  <2>2. InCart \in SUBSET Title
    BY DEF InCart
  <2>3. IsFiniteSet(Results(InCart, s))
    BY <2>2, ResultsAreFinite
  <2>4. Results(InCart, s) \subseteq Quiet
    <3>1. ASSUME NEW t \in InCart
          PROVE  Result(t, s) \in Quiet
      BY <1>2, <2>2, ResultIsTrue
    <3>. QED BY <3>1 DEF Results
  <2>5. lines \in Seq(Quiet)
    BY <2>1, <2>3, <2>4, EachOfType
  <2>6. lines \in Seq(Truths(Credible')) /\ NoneOf(lines, LoginLine)
    BY <2>5 DEF NoneOf
  <2>7. Writes(lines)
    BY <1>2, <2>1, <2>6 DEF Writes, Say, InBrowser
  <2>8. outcomes \in [Title -> GameStatus \cup {"cart", None}]
    BY DEF Browser
  <2>9. browser' = [browser EXCEPT !.pc = "games", !.outcomes = outcomes]
    BY <1>2 DEF SettleCart
  <2>. HIDE DEF outcomes
  <2>10. browser' \in Browser /\ browser'.pc = "games"
    BY <2>8, <2>9 DEF Browser, BrowserPc
  <2>11. Keeps
    BY <1>2, <2>10 DEF Keeps, CheckoutHasGame, InBrowser
  <2>. QED BY <2>7, <2>11
<1>3. CASE BuyCart
  <2> DEFINE bought == {t \in InCart : epic[t] \in {"ordered", "owned"}}
  <2>1. /\ epic' = [t \in Title |-> IF t \in bought THEN "owned" ELSE epic[t]]
        /\ presumed' = presumed \cup (InCart \ bought)
    BY <1>3 DEF BuyCart
  <2>2. InCart \subseteq Title /\ bought \subseteq InCart
    BY DEF InCart
  <2>. HIDE DEF bought
  <2>3. /\ epic' \in [Title -> {"none", "cart", "ordered", "owned"}]
        /\ presumed' \in SUBSET Title
        /\ Owned \subseteq Owned' /\ bought \subseteq Owned'
    BY <2>1, <2>2 DEF Owned
  <2>4. Credible \subseteq Credible' /\ InCart \subseteq Credible'
    BY <2>1, <2>3 DEF Credible
  <2>5. "claimed" \in GameStatus /\ SettleCart("claimed") /\ browser.pc \in {"cart", "bought"}
    BY <1>3 DEF BuyCart, GameStatus, InBrowser
  <2>. QED BY <1>2, <2>3, <2>4, <2>5
<1>4. CASE CartFails
  <2>1. /\ SettleCart("failed") /\ browser.pc \in {"cart", "bought"} /\ UNCHANGED epicVars
        /\ "failed" \in GameStatus /\ "failed" \notin SuccessfulGameStates
    BY <1>4 DEF CartFails, GameStatus, SuccessfulGameStates
  <2>. QED BY <1>2, <2>1 DEF Credible, Owned
<1>5. CASE FinishGames
  <2>1. InBrowser("games") /\ UNCHANGED epicVars
    BY <1>5 DEF FinishGames
  <2>2. CASE Leave(<<Says("game", "checkout_failed")>>)
    <3>1. /\ "checkout_failed" \in GameCollectError /\ "timeout" \in {"timeout", "driver"}
          /\ browser.pc \notin {"off", "exit"}
      BY <2>1 DEF GameCollectError, InBrowser
    <3>. QED BY <2>1, <2>2, <3>1, LeaveWithGameError
  <2>3. CASE Leave(<<Phrase("done")>>)
    <3> DEFINE a == Phrase("done")
    <3>1. a \in Truths(Credible') /\ a \notin LoginLine /\ EndWithLines(<<a>>, << >>)
      BY <2>3, PhraseIsTrue DEF LineKind, Leave
    <3>. HIDE DEF a
    <3>2. /\ <<a>> \in Seq(Truths(Credible')) /\ << >> \in Seq(Truths(Credible'))
          /\ NoneOf(<<a>>, LoginLine) /\ NoneOf(<< >>, LoginLine)
      BY <3>1, FewLines, FewLinesNoneOf
    <3>. QED BY <2>1, <3>1, <3>2, Leaves DEF InBrowser
  <2>. QED BY <1>5, <2>2, <2>3 DEF FinishGames
<1>. QED BY <1>1, <1>3, <1>4, <1>5

LEMMA BrowserSteps ==
  ASSUME RunIInv, BrowserStep
  PROVE  Keeps /\ \E lines : Writes(lines)
  BY LoginSteps, ClaimSteps, GameSteps, FailureSteps, CartSteps DEF BrowserStep

----------------------------------------------------------------------------
(* The invariant *)

LEMMA InitInv == RunTaskInit => RunIInv
<1> SUFFICES ASSUME RunTaskInit PROVE RunIInv
  OBVIOUS
<1> USE DEF RunTaskInit, BrowserInit
<1>1. PICK m \in {"claim", "verify"} :
       run = [state |-> "queued", mode |-> m, retries |-> [k \in RetryKind |-> 0],
              targets |-> {}, results |-> NoResults, nuked |-> FALSE]
  OBVIOUS
<1>2. /\ NoResults \in [Title -> GameStatus \cup {None}]
      /\ [k \in RetryKind |-> 0] \in [RetryKind -> 0 .. 2]
  BY DEF NoResults
<1>3. run \in RunRow
  BY <1>1, <1>2 DEF RunRow, RunState
<1>4. \A k \in RetryKind : run.retries[k] = 0 /\ RetryLimit[k] \in {1, 2}
  BY <1>1 DEF RetryLimit
<1>5. WithinLimits
  BY <1>4 DEF WithinLimits
<1>6. task \in Task
  BY <1>2 DEF NoTask, Task
<1>7. browser \in Browser /\ browser.pc = "off"
  BY BrowserOffType DEF BrowserOff
<1>8. /\ epic \in [Title -> {"none", "cart", "ordered", "owned"}] /\ presumed \subseteq Title
      /\ pipe \in Seq(Line) /\ LinesAreTrue
      /\ history \subseteq Title
      /\ mishaps \in [timeouts : 0 .. HardTimeouts, reports : 0 .. LostReports]
  BY RunTaskAssumption DEF LinesAreTrue, Credible, Owned
<1>9. RunTaskTypeOK
  BY <1>3, <1>5, <1>6, <1>7, <1>8 DEF RunTaskTypeOK, BrowserTypeOK
<1>10. Recorded = {}
  BY <1>1, BrowserAssumption DEF Recorded, NoResults, SuccessfulGameStates, GameStatus
<1>11. UnownedRecordIsPresumed /\ UnownedSuccessIsPresumed /\ RunningIsRun /\ ClaimsAreAtHand
  BY <1>1, <1>10
     DEF UnownedRecordIsPresumed, UnownedSuccessIsPresumed, RunningIsRun, ClaimsAreAtHand, AtTask, NoTask
<1>12. RefusedFirst /\ CheckoutHasGame
  BY <1>7 DEF RefusedFirst, NoneOf, CheckoutHasGame, InBrowser, AtTask, NoTask
<1>. QED BY <1>8, <1>9, <1>11, <1>12 DEF RunIInv

(* A result that is true stays true. *)
LEMMA TruthsLast ==
  ASSUME Credible \subseteq Credible'
  PROVE  Truths(Credible) \subseteq Truths(Credible')
  BY DEF Truths, Truthful

LEMMA MoreLines ==
  ASSUME NEW S, NEW T, S \subseteq T, NEW s \in Seq(S)
  PROVE  s \in Seq(T)
  OBVIOUS

LEMMA BrowserInv ==
  ASSUME RunIInv, BrowserStep, UNCHANGED taskVars
  PROVE  RunIInv'
<1> USE DEF RunIInv, taskVars
<1>1. Keeps
  BY BrowserSteps
<1>2. PICK lines : Writes(lines)
  BY BrowserSteps
<1>3. Truths(Credible) \subseteq Truths(Credible') /\ Credible \subseteq Credible'
  BY <1>1, TruthsLast DEF Keeps
<1>4. pipe \in Seq(Truths(Credible')) /\ lines \in Seq(Truths(Credible')) /\ pipe' = pipe \o lines
  BY <1>2, <1>3 DEF Writes, LinesAreTrue, Credible, Owned
<1>5. LinesAreTrue'
  BY <1>4, Joined DEF LinesAreTrue, Credible, Owned
<1>6. RunTaskTypeOK'
  BY <1>1, <1>5, TruthsAreLines
     DEF RunTaskTypeOK, BrowserTypeOK, WithinLimits, Keeps, LinesAreTrue
<1>7. UnownedRecordIsPresumed' /\ UnownedSuccessIsPresumed'
  BY <1>3 DEF UnownedRecordIsPresumed, UnownedSuccessIsPresumed, Recorded, Credible
<1>8. RunningIsRun' /\ CheckoutHasGame' /\ ClaimsAreAtHand'
  BY <1>1 DEF RunningIsRun, AtTask, ClaimsAreAtHand, Recorded, Successful, Keeps
<1>9. RefusedFirst'
  <2>1. \A S : NoneOf(pipe', S) <=> NoneOf(pipe, S) /\ NoneOf(lines, S)
    BY <1>4, Joined
  <2>2. NoneOf(pipe, LoginLine) /\ ~ InBrowser("off") /\ ~ InBrowser("off")'
    BY <1>1 DEF Keeps, RefusedFirst, InBrowser
  <2>3. InBrowser("login")' => InBrowser("login")
    BY <1>1 DEF Keeps, InBrowser
  <2>4. InBrowser("login") => NoneOf(pipe', GameLine) /\ task'.results = NoResults
    BY <1>2, <2>1 DEF Writes, RefusedFirst
  <2>5. NoneOf(lines, LoginLine) \/ (InBrowser("login") /\ InBrowser("exit")')
    BY <1>2 DEF Writes, InBrowser
  <2>6. (AtTask("idle") => task.results = NoResults)'
    BY DEF RefusedFirst, AtTask
  <2>7. (InBrowser("login") => task.results = NoResults /\ NoneOf(pipe, GameLine))'
    BY <2>3, <2>4
  <2>8. (InBrowser("exit") \/ NoneOf(pipe, LoginLine))'
    BY <2>1, <2>2, <2>5
  <2>9. (NoneOf(pipe, LoginLine) \/ (task.results = NoResults /\ NoneOf(pipe, GameLine)))'
    BY <2>1, <2>2, <2>4, <2>5
  <2>. QED BY <2>2, <2>6, <2>7, <2>8, <2>9 DEF RefusedFirst
<1>. QED BY <1>1, <1>5, <1>6, <1>7, <1>8, <1>9

LEMMA DeliveryInv ==
  ASSUME RunIInv, NEW t \in Title, EpicDelivers(t), UNCHANGED taskVars
  PROVE  RunIInv'
<1> USE DEF RunIInv, taskVars, EpicDelivers
<1>1. /\ epic' \in [Title -> {"none", "cart", "ordered", "owned"}]
      /\ Credible \subseteq Credible'
  BY DEF RunTaskTypeOK, BrowserTypeOK, Credible, Owned
<1>2. Truths(Credible) \subseteq Truths(Credible') /\ Credible \subseteq Credible'
  BY <1>1, TruthsLast
<1>3. LinesAreTrue'
  <2>1. pipe \in Seq(Truths(Credible'))
    BY <1>2, MoreLines DEF LinesAreTrue
  <2>. QED BY <2>1 DEF LinesAreTrue, Credible, Owned
<1>4. RunTaskTypeOK'
  BY <1>1 DEF RunTaskTypeOK, BrowserTypeOK, WithinLimits
<1>5. UnownedRecordIsPresumed' /\ UnownedSuccessIsPresumed'
  BY <1>2 DEF UnownedRecordIsPresumed, UnownedSuccessIsPresumed, Recorded, Credible
<1>6. RunningIsRun' /\ CheckoutHasGame' /\ ClaimsAreAtHand' /\ RefusedFirst'
  BY DEF RunningIsRun, AtTask, ClaimsAreAtHand, Recorded, Successful, RefusedFirst,
         CheckoutHasGame, InBrowser
<1>. QED BY <1>3, <1>4, <1>5, <1>6

LEMMA NoTaskType ==
  ASSUME NEW fatal \in BOOLEAN, NEW owned \in BOOLEAN
  PROVE  /\ NoTask \in Task
         /\ [NoTask EXCEPT !.fatal = fatal, !.owned = owned] \in Task
<1>1. NoResults \in [Title -> GameStatus \cup {None}]
  BY DEF NoResults
<1>. QED BY <1>1 DEF NoTask, Task

LEMMA ForgetType ==
  ASSUME RunIInv, Forget
  PROVE  task' \in Task /\ task'.pc = "idle" /\ task'.results = NoResults
<1>1. task.fatal \in BOOLEAN /\ task.owned \in BOOLEAN
  BY DEF RunIInv, RunTaskTypeOK, Task
<1>2. task' \in Task
  BY <1>1, NoTaskType DEF Forget
<1>3. task'.pc = "idle" /\ task'.results = NoResults
  BY DEF Forget, NoTask
<1>. QED BY <1>2, <1>3

LEMMA LimitsType == \A k \in RetryKind : RetryLimit[k] \in {1, 2}
  BY DEF RetryLimit

LEMMA StartInv ==
  ASSUME RunIInv, StartTask
  PROVE  RunIInv'
<1> USE DEF RunIInv, StartTask, Waiting, AtTask
<1>1. /\ run' = [run EXCEPT !.state = "running"] /\ run \in RunRow
      /\ task' = [NoTask EXCEPT !.pc = "read"]
      /\ run.targets \in SUBSET Title
  BY DEF RunTaskTypeOK, RunRow
<1>2. run' \in RunRow /\ run'.state = "running" /\ run'.mode = run.mode
      /\ run'.results = run.results /\ run'.retries = run.retries
  BY <1>1 DEF RunRow, RunState
<1>3. task' \in Task /\ task'.pc = "read" /\ task'.results = NoResults
  <2>1. NoTask \in Task
    BY NoTaskType
  <2>. QED BY <1>1, <2>1 DEF Task, NoTask
<1>4. browser' \in Browser /\ browser'.pc = "login"
  <2>1. browser' = [BrowserOff EXCEPT !.pc = "login", !.verify = (run.mode = "verify"),
                                      !.targets = run.targets]
    BY DEF Start
  <2>2. BrowserOff \in Browser
    BY BrowserOffType
  <2>. QED BY <1>1, <2>1, <2>2 DEF Browser, BrowserPc
<1>5. LinesAreTrue' /\ pipe' \in Seq(Line)
  BY DEF LinesAreTrue, Credible, Owned
<1>6. RunTaskTypeOK'
  BY <1>2, <1>3, <1>4, <1>5 DEF RunTaskTypeOK, BrowserTypeOK, WithinLimits
<1>7. Recorded' = Recorded /\ Owned' = Owned
  BY <1>2 DEF Recorded, Owned
<1>8. UnownedRecordIsPresumed' /\ UnownedSuccessIsPresumed' /\ ClaimsAreAtHand'
  BY <1>2, <1>3, <1>7 DEF UnownedRecordIsPresumed, UnownedSuccessIsPresumed, ClaimsAreAtHand, Recorded
<1>9. RefusedFirst' /\ RunningIsRun' /\ CheckoutHasGame'
  BY <1>2, <1>3, <1>4 DEF RefusedFirst, RunningIsRun, CheckoutHasGame, InBrowser, NoneOf
<1>. QED BY <1>5, <1>6, <1>8, <1>9

(* run_task returns, with a verdict or a retry. *)
LEMMA ReturnInv ==
  ASSUME RunIInv,
         mishaps' = [timeouts |-> 0, reports |-> 0] => Recorded \subseteq history,
         run' \in RunRow, WithinLimits', run'.state # "running",
         run'.mode = run.mode, run'.results = run.results,
         run'.state = "succeeded" /\ run.mode = "claim" => Title \subseteq Recorded,
         Forget, UNCHANGED <<epicVars, history>>,
         mishaps' \in [timeouts : 0 .. HardTimeouts, reports : 0 .. LostReports],
         UNCHANGED <<browser, pipe>> \/ (browser' = BrowserOff /\ pipe' = << >>)
  PROVE  RunIInv'
<1> USE DEF RunIInv, AtTask
<1>1. task' \in Task /\ task'.pc = "idle" /\ task'.results = NoResults
  BY ForgetType
<1>2. browser' \in Browser /\ LinesAreTrue' /\ pipe' \in Seq(Line)
  <2>1. CASE UNCHANGED <<browser, pipe>>
    BY <2>1 DEF RunTaskTypeOK, BrowserTypeOK, LinesAreTrue, Credible, Owned
  <2>2. CASE browser' = BrowserOff /\ pipe' = << >>
    BY <2>2, BrowserOffType DEF LinesAreTrue
  <2>. QED BY <2>1, <2>2
<1>3. RunTaskTypeOK'
  BY <1>1, <1>2 DEF RunTaskTypeOK, BrowserTypeOK
<1>4. Recorded' = Recorded /\ Owned' = Owned
  BY DEF Recorded, Owned
<1>5. UnownedRecordIsPresumed' /\ UnownedSuccessIsPresumed'
  BY <1>4 DEF UnownedRecordIsPresumed, UnownedSuccessIsPresumed
<1>6. ClaimsAreAtHand'
  BY <1>1, <1>4 DEF ClaimsAreAtHand
<1>7. RunningIsRun'
  BY <1>1 DEF RunningIsRun
<1>8. RefusedFirst' /\ CheckoutHasGame'
  <2>1. CASE UNCHANGED <<browser, pipe>>
    BY <1>1, <2>1 DEF RefusedFirst, CheckoutHasGame, InBrowser
  <2>2. CASE browser' = BrowserOff /\ pipe' = << >>
    BY <1>1, <2>2 DEF RefusedFirst, CheckoutHasGame, InBrowser, BrowserOff, NoneOf
  <2>. QED BY <2>1, <2>2
<1>. QED BY <1>2, <1>3, <1>5, <1>6, <1>7, <1>8

(* At the decision, what is recorded is in the history, or it never will.   *)
LEMMA DecideInv ==
  ASSUME RunIInv, AtTask("decide"), Return,
         run' \in RunRow, WithinLimits', run'.state # "running",
         run'.mode = run.mode, run'.results = run.results,
         run'.state = "succeeded" /\ run.mode = "claim" => Title \subseteq Recorded
  PROVE  RunIInv'
<1>1. Forget /\ UNCHANGED <<epicVars, browser, pipe, history, mishaps>>
  BY DEF Return, browserVars
<1>2. /\ mishaps' \in [timeouts : 0 .. HardTimeouts, reports : 0 .. LostReports]
      /\ mishaps' = [timeouts |-> 0, reports |-> 0] => Recorded \subseteq history
  BY <1>1 DEF RunIInv, RunTaskTypeOK, ClaimsAreAtHand, AtTask
<1>. QED BY <1>1, <1>2, ReturnInv

LEMMA EndWithInv ==
  ASSUME RunIInv, AtTask("decide"), NEW s \in Verdict, EndWith(s),
         s = "succeeded" /\ run.mode = "claim" => Title \subseteq Recorded
  PROVE  RunIInv'
<1>1. run \in RunRow /\ run' = [run EXCEPT !.state = s] /\ Return
  BY DEF RunIInv, RunTaskTypeOK, EndWith
<1>2. /\ run' \in RunRow /\ run'.state = s /\ run'.mode = run.mode
      /\ run'.results = run.results /\ run'.retries = run.retries
  BY <1>1 DEF RunRow, RunState, Verdict
<1>3. WithinLimits'
  BY <1>2 DEF RunIInv, RunTaskTypeOK, WithinLimits
<1>4. s # "running"
  BY DEF Verdict
<1>. QED BY <1>1, <1>2, <1>3, <1>4, DecideInv

(* A retry that there is a budget for leaves the counters within limits.    *)
LEMMA CountedType ==
  ASSUME RunIInv, NEW kind \in RetryKind, CanRetry(kind)
  PROVE  /\ [run.retries EXCEPT ![kind] = @ + 1] \in [RetryKind -> 0 .. 2]
         /\ \A k \in RetryKind : [run.retries EXCEPT ![kind] = @ + 1][k] <= RetryLimit[k]
<1>1. run.retries \in [RetryKind -> 0 .. 2] /\ \A k \in RetryKind : run.retries[k] <= RetryLimit[k]
  BY DEF RunIInv, RunTaskTypeOK, RunRow, WithinLimits
<1>2. run.retries[kind] \in 0 .. 1 /\ run.retries[kind] + 1 <= RetryLimit[kind]
  BY <1>1, LimitsType DEF CanRetry
<1>. QED BY <1>1, <1>2

LEMMA RetryForInv ==
  ASSUME RunIInv, AtTask("decide"), NEW kind \in RetryKind, CanRetry(kind),
         NEW targets \in SUBSET Title, RetryFor(kind, targets)
  PROVE  RunIInv'
<1> DEFINE counted == [run.retries EXCEPT ![kind] = @ + 1]
           s == IF kind = "cookie_invalid" THEN "queued" ELSE "deferred"
<1>1. run \in RunRow /\ Return
  BY DEF RunIInv, RunTaskTypeOK, RetryFor
<1>2. run' = [run EXCEPT !.state = s, !.retries = counted, !.targets = targets]
  BY DEF RetryFor
<1>3. /\ counted \in [RetryKind -> 0 .. 2]
      /\ \A k \in RetryKind : counted[k] <= RetryLimit[k]
  BY CountedType
<1>4. s \in RunState /\ s # "running" /\ s # "succeeded"
  BY DEF RunState
<1>. HIDE DEF counted, s
<1>5. /\ run' \in RunRow /\ run'.state = s /\ run'.mode = run.mode
      /\ run'.results = run.results /\ run'.retries = counted
  BY <1>1, <1>2, <1>3, <1>4 DEF RunRow
<1>6. WithinLimits'
  BY <1>3, <1>5 DEF WithinLimits
<1>. QED BY <1>1, <1>4, <1>5, <1>6, DecideInv

LEMMA RetryPartialInv ==
  ASSUME RunIInv, RetryPartial
  PROVE  RunIInv'
<1> DEFINE once == [run.retries EXCEPT !["partial"] = @ + 1]
           counted == [once EXCEPT !["checkout_failed"] = @ + 1]
<1>1. /\ run \in RunRow /\ Return /\ AtTask("decide")
      /\ CanRetry("partial") /\ CanRetry("checkout_failed")
  BY DEF RunIInv, RunTaskTypeOK, RetryPartial, Settles, MayRetryPartial
<1>2. run' = [run EXCEPT !.state = "deferred", !.targets = Failed, !.retries = counted]
  BY DEF RetryPartial
<1>3. "partial" \in RetryKind /\ "checkout_failed" \in RetryKind
  BY DEF RetryKind
<1>4. /\ once \in [RetryKind -> 0 .. 2] /\ \A k \in RetryKind : once[k] <= RetryLimit[k]
      /\ once["checkout_failed"] = run.retries["checkout_failed"]
  BY <1>1, <1>3, CountedType DEF RunRow
<1>5. once["checkout_failed"] \in 0 .. 1 /\ once["checkout_failed"] + 1 <= RetryLimit["checkout_failed"]
  BY <1>1, <1>3, <1>4, LimitsType DEF CanRetry
<1>6. counted \in [RetryKind -> 0 .. 2] /\ \A k \in RetryKind : counted[k] <= RetryLimit[k]
  <2>. HIDE DEF once
  <2>. QED BY <1>3, <1>4, <1>5
<1>7. Failed \in SUBSET Title
  BY DEF Failed
<1>. HIDE DEF counted
<1>8. /\ run' \in RunRow /\ run'.state = "deferred" /\ run'.mode = run.mode
      /\ run'.results = run.results /\ run'.retries = counted
  BY <1>1, <1>2, <1>6, <1>7 DEF RunRow, RunState
<1>9. WithinLimits'
  BY <1>6, <1>8 DEF WithinLimits
<1>. QED BY <1>1, <1>8, <1>9, DecideInv

(* All that can come of the decision *)
LEMMA DecisionInv ==
  ASSUME RunIInv,
         \/ RetryForError \/ RetryFailedGames \/ RetryPartial \/ FailPartial
         \/ Complete \/ FailWithError \/ CompleteOwned \/ FinishPlain
  PROVE  RunIInv'
<1>1. {"succeeded", "failed", "manual_required"} \subseteq Verdict
  BY DEF Verdict
<1>2. CycleReady => Title \subseteq Recorded
  BY DEF CycleReady, Recorded
<1>3. CASE RetryForError
  <2>1. task.error \in RetryKind /\ run.targets \in SUBSET Title /\ AtTask("decide")
    BY <1>3 DEF RunIInv, RunTaskTypeOK, RunRow, RetryForError, RetryAtOnce, RecoverableError, RetryKind
  <2>2. CASE CanRetry(task.error) /\ RetryFor(task.error, run.targets)
    BY <2>1, <2>2, RetryForInv
  <2>3. CASE EndWith("manual_required")
    BY <1>1, <2>1, <2>3, EndWithInv
  <2>4. CASE EndWith("failed")
    BY <1>1, <2>1, <2>4, EndWithInv
  <2>. QED BY <1>3, <2>2, <2>3, <2>4 DEF RetryForError
<1>4. CASE RetryFailedGames
  <2>1. /\ "checkout_failed" \in RetryKind /\ Failed \in SUBSET Title
        /\ AtTask("decide") /\ CanRetry("checkout_failed") /\ RetryFor("checkout_failed", Failed)
    BY <1>4 DEF RetryKind, Failed, RetryFailedGames, Settles, MayRetryAll
  <2>. QED BY <2>1, RetryForInv
<1>5. CASE RetryPartial
  BY <1>5, RetryPartialInv
<1>6. CASE FailPartial
  BY <1>1, <1>6, EndWithInv DEF FailPartial, Settles
<1>7. CASE Complete
  <2>1. AtTask("decide") /\ (EndWith("manual_required") \/ (CycleReady /\ EndWith("succeeded")))
    BY <1>7 DEF Complete, Settles
  <2>. QED BY <1>1, <1>2, <2>1, EndWithInv
<1>8. CASE FailWithError
  BY <1>1, <1>8, EndWithInv DEF FailWithError, NothingClaimed, Settles
<1>9. CASE CompleteOwned
  <2>1. AtTask("decide") /\ (EndWith("manual_required") \/ (CycleReady /\ EndWith("succeeded")))
    BY <1>9 DEF CompleteOwned, NothingClaimed, Settles
  <2>. QED BY <1>1, <1>2, <2>1, EndWithInv
<1>10. CASE FinishPlain
  <2>1. AtTask("decide") /\ (EndWith("failed") \/ (run.mode = "verify" /\ EndWith("succeeded")))
    BY <1>10 DEF FinishPlain, NothingClaimed, Settles
  <2>. QED BY <1>1, <2>1, EndWithInv
<1>. QED BY <1>3, <1>4, <1>5, <1>6, <1>7, <1>8, <1>9, <1>10

(* The line that is read, and the lines after it. *)
LEMMA ReadsInv ==
  ASSUME RunIInv, NEW kind, Reads(kind)
  PROVE  /\ Truthful(Head(pipe), Credible) /\ Head(pipe).kind = kind
         /\ pipe' \in Seq(Truths(Credible)) /\ pipe' \in Seq(Line)
         /\ \A S : NoneOf(pipe, S) => Head(pipe) \notin S /\ NoneOf(pipe', S)
<1>1. pipe \in Seq(Truths(Credible)) /\ pipe # << >> /\ pipe' = Tail(pipe) /\ Head(pipe).kind = kind
  BY DEF RunIInv, LinesAreTrue, Reads
<1>2. /\ Head(pipe) \in Truths(Credible) /\ pipe' \in Seq(Truths(Credible))
      /\ \A S : NoneOf(pipe, S) => Head(pipe) \notin S /\ NoneOf(pipe', S)
  BY <1>1, Read
<1>. QED BY <1>1, <1>2, TruthsAreLines DEF Truths

LEMMA NotesInv ==
  ASSUME RunIInv, NEW kind, NEW noted, Notes(kind, noted),
         noted \in Task, noted.pc = task.pc, noted.results = task.results
  PROVE  RunIInv'
<1> USE DEF RunIInv, AtTask
<1>1. Reads(kind) /\ task' = noted /\ UNCHANGED <<epicVars, browser, run, history, mishaps>>
  BY DEF Notes
<1>2. /\ pipe' \in Seq(Truths(Credible)) /\ pipe' \in Seq(Line)
      /\ \A S : NoneOf(pipe, S) => NoneOf(pipe', S)
  BY <1>1, ReadsInv
<1>3. RunTaskTypeOK' /\ LinesAreTrue'
  BY <1>1, <1>2 DEF RunTaskTypeOK, BrowserTypeOK, WithinLimits, LinesAreTrue, Credible, Owned
<1>4. /\ UnownedRecordIsPresumed' /\ UnownedSuccessIsPresumed'
      /\ RunningIsRun' /\ CheckoutHasGame' /\ ClaimsAreAtHand'
  BY <1>1
     DEF UnownedRecordIsPresumed, UnownedSuccessIsPresumed, RunningIsRun, CheckoutHasGame,
         ClaimsAreAtHand, Recorded, Owned, Successful, InBrowser
<1>5. RefusedFirst'
  <2>1. pipe # << >>
    BY <1>1 DEF Reads
  <2>. QED BY <1>1, <1>2, <2>1 DEF RefusedFirst, InBrowser
<1>. QED BY <1>3, <1>4, <1>5

LEMMA ReadLineInv ==
  ASSUME RunIInv, ReadError \/ ReadGameError \/ ReadPhrase
  PROVE  RunIInv'
<1> DEFINE what == Head(pipe).what
           Noted(noted) == noted \in Task /\ noted.pc = task.pc /\ noted.results = task.results
<1>1. task \in Task
  BY DEF RunIInv, RunTaskTypeOK
<1>2. ASSUME NEW kind \in {"error", "final", "game"}, Reads(kind)
      PROVE  what \in ErrorType \cup GameCollectError
  BY <1>2, ReadsInv DEF Truthful
<1>3. CASE ReadError
  <2> DEFINE fatally == [task EXCEPT !.error = what, !.fatal = @ \/ what \in NukeError]
             plainly == [task EXCEPT !.error = what]
  <2>1. CASE Notes("error", fatally)
    <3>1. what \in ErrorType \cup GameCollectError
      BY <1>2, <2>1 DEF Notes
    <3>. HIDE DEF what
    <3>2. (task.fatal \/ what \in NukeError) \in BOOLEAN
      BY <1>1 DEF Task
    <3>3. Noted(fatally)
      BY <1>1, <3>1, <3>2 DEF Task
    <3>. QED BY <2>1, <3>3, NotesInv
  <2>2. CASE Notes("final", plainly)
    <3>1. what \in ErrorType \cup GameCollectError
      BY <1>2, <2>2 DEF Notes
    <3>. HIDE DEF what
    <3>2. Noted(plainly)
      BY <1>1, <3>1 DEF Task
    <3>. QED BY <2>2, <3>2, NotesInv
  <2>. QED BY <1>3, <2>1, <2>2 DEF ReadError
<1>4. CASE ReadGameError
  <2> DEFINE kept == IF what = "unknown_error" /\ task.error \in {"driver_crash", "page_timeout"}
                       THEN task.error ELSE what
             noted == [task EXCEPT !.error = kept]
  <2>1. Notes("game", noted)
    BY <1>4 DEF ReadGameError
  <2>2. what \in ErrorType \cup GameCollectError
    BY <1>2, <2>1 DEF Notes
  <2>. HIDE DEF what
  <2>3. kept \in ErrorType \cup GameCollectError
    BY <2>2 DEF GameCollectError
  <2>. HIDE DEF kept
  <2>4. Noted(noted)
    BY <1>1, <2>3 DEF Task
  <2>. QED BY <2>1, <2>4, NotesInv
<1>5. CASE ReadPhrase
  <2>1. "page_timeout" \in GameCollectError /\ "driver_crash" \in GameCollectError
    BY DEF GameCollectError
  <2> DEFINE N == {[task EXCEPT !.error = "page_timeout", !.critical = TRUE],
                   [task EXCEPT !.critical = TRUE],
                   [task EXCEPT !.error = "driver_crash"],
                   [task EXCEPT !.owned = TRUE, !.critical = FALSE],
                   [task EXCEPT !.critical = FALSE],
                   [task EXCEPT !.login = TRUE]}
  <2>2. \A noted \in N : Noted(noted)
    BY <1>1, <2>1 DEF Task
  <2>3. PICK kind \in LineKind, noted \in N : Notes(kind, noted)
    BY <1>5 DEF ReadPhrase, LineKind
  <2>. QED BY <2>2, <2>3, NotesInv
<1>. QED BY <1>3, <1>4, <1>5

LEMMA ReadGameResultInv ==
  ASSUME RunIInv, ReadGameResult
  PROVE  RunIInv'
<1> USE DEF RunIInv, AtTask
<1> DEFINE t == Head(pipe).title
           s == Head(pipe).what
<1>1. /\ Reads("result") /\ UNCHANGED <<epicVars, browser, history, mishaps>>
      /\ task' = [task EXCEPT !.results[t] = s] /\ run' = [run EXCEPT !.results[t] = s]
      /\ task \in Task /\ run \in RunRow /\ AtTask("read")
  BY DEF ReadGameResult, RunTaskTypeOK, Reads
<1>2. /\ t \in Title /\ s \in GameStatus
      /\ s \in SuccessfulGameStates => t \in Credible
      /\ Head(pipe) \in GameLine
  BY <1>1, ReadsInv DEF Truthful, GameLine
<1>3. /\ pipe' \in Seq(Truths(Credible)) /\ pipe' \in Seq(Line)
      /\ \A S : NoneOf(pipe, S) => Head(pipe) \notin S /\ NoneOf(pipe', S)
  BY <1>1, ReadsInv
<1>. HIDE DEF t, s
<1>4. /\ [task.results EXCEPT ![t] = s] \in [Title -> GameStatus \cup {None}]
      /\ [run.results EXCEPT ![t] = s] \in [Title -> GameStatus \cup {None}]
  BY <1>1, <1>2 DEF Task, RunRow
<1>5. /\ task' \in Task /\ task'.pc = task.pc /\ task'.results = [task.results EXCEPT ![t] = s]
      /\ run' \in RunRow /\ run'.state = run.state /\ run'.mode = run.mode
      /\ run'.retries = run.retries /\ run'.results = [run.results EXCEPT ![t] = s]
  BY <1>1, <1>4 DEF Task, RunRow
<1>6. RunTaskTypeOK' /\ LinesAreTrue'
  BY <1>1, <1>3, <1>5 DEF RunTaskTypeOK, BrowserTypeOK, WithinLimits, LinesAreTrue, Credible, Owned
<1>7. UnownedRecordIsPresumed'
  BY <1>1, <1>2, <1>5
     DEF UnownedRecordIsPresumed, Recorded, Credible, Owned, RunTaskTypeOK, RunRow
<1>8. UnownedSuccessIsPresumed' /\ RunningIsRun' /\ CheckoutHasGame'
  BY <1>1, <1>5 DEF UnownedSuccessIsPresumed, RunningIsRun, CheckoutHasGame, Owned, InBrowser
<1>9. ClaimsAreAtHand'
  <2>1. SUFFICES ASSUME mishaps = [timeouts |-> 0, reports |-> 0], NEW u \in Recorded'
                 PROVE  u \in history \/ u \in Successful'
    BY <1>1, <1>5 DEF ClaimsAreAtHand
  <2>2. u \in Title /\ run'.results[u] \in SuccessfulGameStates
    BY DEF Recorded
  <2>3. CASE u = t
    BY <1>1, <1>2, <1>5, <2>2, <2>3 DEF Successful, Task, RunRow
  <2>4. CASE u # t
    <3>1. u \in Recorded
      BY <1>1, <1>2, <1>5, <2>2, <2>4 DEF Recorded, RunRow
    <3>2. u \in history \/ u \in Successful
      BY <1>1, <2>1, <3>1 DEF ClaimsAreAtHand
    <3>. QED BY <1>1, <1>2, <1>5, <2>2, <2>4, <3>2 DEF Successful, Task
  <2>. QED BY <2>3, <2>4
<1>10. RefusedFirst'
  <2>1. ~ NoneOf(pipe, GameLine) /\ pipe # << >>
    BY <1>1, <1>2, <1>3 DEF Reads
  <2>2. NoneOf(pipe, LoginLine) /\ ~ InBrowser("login") /\ ~ InBrowser("off")
    BY <2>1 DEF RefusedFirst
  <2>3. NoneOf(pipe', LoginLine)
    BY <1>3, <2>2
  <2>. QED BY <1>1, <1>5, <2>2, <2>3 DEF RefusedFirst, InBrowser
<1>. QED BY <1>6, <1>7, <1>8, <1>9, <1>10

LEMMA ReadCredentialsInv ==
  ASSUME RunIInv, ReadCredentials
  PROVE  RunIInv'
<1>1. /\ AtTask("read") /\ pipe # << >> /\ Head(pipe).kind = "credentials"
      /\ run \in RunRow /\ run' = [run EXCEPT !.state = "failed", !.nuked = TRUE]
      /\ Forget /\ UNCHANGED <<epicVars, history, mishaps>>
      /\ browser' = BrowserOff /\ pipe' = << >>
  BY DEF RunIInv, RunTaskTypeOK, ReadCredentials, Killed
<1>2. /\ run' \in RunRow /\ run'.state = "failed" /\ run'.mode = run.mode
      /\ run'.results = run.results /\ run'.retries = run.retries
  BY <1>1 DEF RunRow, RunState, Verdict
<1>3. WithinLimits'
  BY <1>2 DEF RunIInv, RunTaskTypeOK, WithinLimits
<1>4. task.results = NoResults
  <2>1. pipe \in Seq(Truths(Credible))
    BY DEF RunIInv, LinesAreTrue
  <2>2. Head(pipe) \in Truths(Credible) /\ (NoneOf(pipe, LoginLine) => Head(pipe) \notin LoginLine)
    BY <1>1, <2>1, Read
  <2>3. ~ NoneOf(pipe, LoginLine)
    BY <1>1, <2>2 DEF Truths, LoginLine
  <2>. QED BY <2>3 DEF RunIInv, RefusedFirst
<1>5. Successful = {}
  BY <1>4, BrowserAssumption DEF Successful, NoResults, SuccessfulGameStates, GameStatus
<1>6. /\ mishaps' = [timeouts |-> 0, reports |-> 0] => Recorded \subseteq history
      /\ mishaps' \in [timeouts : 0 .. HardTimeouts, reports : 0 .. LostReports]
  BY <1>1, <1>5 DEF RunIInv, RunTaskTypeOK, ClaimsAreAtHand, AtTask
<1>. QED BY <1>1, <1>2, <1>3, <1>6, ReturnInv

LEMMA HardTimeoutInv ==
  ASSUME RunIInv, HardTimeout
  PROVE  RunIInv'
<1> DEFINE counted == [run.retries EXCEPT !["task_deadline"] = @ + 1]
<1>1. /\ AtTask("read") /\ run \in RunRow /\ Forget /\ UNCHANGED <<epicVars, history>>
      /\ browser' = BrowserOff /\ pipe' = << >>
      /\ mishaps.timeouts < HardTimeouts /\ mishaps' = [mishaps EXCEPT !.timeouts = @ + 1]
      /\ mishaps \in [timeouts : 0 .. HardTimeouts, reports : 0 .. LostReports]
  BY DEF RunIInv, RunTaskTypeOK, HardTimeout, Killed
<1>2. /\ mishaps' \in [timeouts : 0 .. HardTimeouts, reports : 0 .. LostReports]
      /\ mishaps'.timeouts # 0
  BY <1>1, RunTaskAssumption
<1>3. CASE /\ CanRetry("task_deadline")
           /\ run' = [run EXCEPT !.state = "deferred", !.retries = counted]
  <2>1. "task_deadline" \in RetryKind
    BY DEF RetryKind
  <2>2. /\ counted \in [RetryKind -> 0 .. 2]
        /\ \A k \in RetryKind : counted[k] <= RetryLimit[k]
    BY <1>3, <2>1, CountedType
  <2>. HIDE DEF counted
  <2>3. /\ run' \in RunRow /\ run'.state = "deferred" /\ run'.mode = run.mode
        /\ run'.results = run.results /\ run'.retries = counted
    BY <1>1, <1>3, <2>2 DEF RunRow, RunState
  <2>4. WithinLimits'
    BY <2>2, <2>3 DEF WithinLimits
  <2>. QED BY <1>1, <1>2, <2>3, <2>4, ReturnInv
<1>4. CASE run' = [run EXCEPT !.state = "failed"]
  <2>1. /\ run' \in RunRow /\ run'.state = "failed" /\ run'.mode = run.mode
        /\ run'.results = run.results /\ run'.retries = run.retries
    BY <1>1, <1>4 DEF RunRow, RunState, Verdict
  <2>2. WithinLimits'
    BY <2>1 DEF RunIInv, RunTaskTypeOK, WithinLimits
  <2>. QED BY <1>1, <1>2, <2>1, <2>2, ReturnInv
<1>. QED BY <1>3, <1>4 DEF HardTimeout

LEMMA WarpUnavailableInv ==
  ASSUME RunIInv, WarpUnavailable
  PROVE  RunIInv'
<1> USE DEF RunIInv, AtTask
<1>1. /\ task.pc = "idle" /\ run \in RunRow /\ run' = [run EXCEPT !.state = "failed"]
      /\ UNCHANGED <<epicVars, browser, pipe, history, task, mishaps>>
  BY DEF RunTaskTypeOK, WarpUnavailable, Waiting, browserVars
<1>2. /\ run' \in RunRow /\ run'.state = "failed" /\ run'.mode = run.mode
      /\ run'.results = run.results /\ run'.retries = run.retries
  BY <1>1 DEF RunRow, RunState, Verdict
<1>3. RunTaskTypeOK' /\ LinesAreTrue'
  BY <1>1, <1>2 DEF RunTaskTypeOK, BrowserTypeOK, WithinLimits, LinesAreTrue, Credible, Owned
<1>4. /\ UnownedRecordIsPresumed' /\ UnownedSuccessIsPresumed'
      /\ RunningIsRun' /\ CheckoutHasGame' /\ ClaimsAreAtHand'
  BY <1>1, <1>2 DEF UnownedRecordIsPresumed, UnownedSuccessIsPresumed, RunningIsRun, CheckoutHasGame,
                    ClaimsAreAtHand, Recorded, Owned, Successful, InBrowser
<1>5. RefusedFirst'
  BY <1>1 DEF RefusedFirst, InBrowser
<1>. QED BY <1>3, <1>4, <1>5

LEMMA EndOfOutputInv ==
  ASSUME RunIInv, EndOfOutput
  PROVE  RunIInv'
<1> USE DEF RunIInv, AtTask
<1>1. /\ task.pc = "read" /\ task \in Task /\ task' = [task EXCEPT !.pc = "report"]
      /\ UNCHANGED <<epicVars, browser, pipe, run, history, mishaps>>
  BY DEF RunTaskTypeOK, EndOfOutput, browserVars
<1>2. task' \in Task /\ task'.pc = "report" /\ task'.results = task.results
  BY <1>1 DEF Task
<1>3. RunTaskTypeOK' /\ LinesAreTrue'
  BY <1>1, <1>2 DEF RunTaskTypeOK, BrowserTypeOK, WithinLimits, LinesAreTrue, Credible, Owned
<1>4. /\ UnownedRecordIsPresumed' /\ UnownedSuccessIsPresumed'
      /\ RunningIsRun' /\ CheckoutHasGame' /\ ClaimsAreAtHand'
  BY <1>1, <1>2 DEF UnownedRecordIsPresumed, UnownedSuccessIsPresumed, RunningIsRun, CheckoutHasGame,
                    ClaimsAreAtHand, Recorded, Owned, Successful, InBrowser
<1>5. RefusedFirst'
  BY <1>1, <1>2 DEF RefusedFirst, InBrowser
<1>. QED BY <1>3, <1>4, <1>5

LEMMA ReportSuccessInv ==
  ASSUME RunIInv, ReportSuccess
  PROVE  RunIInv'
<1> USE DEF RunIInv, AtTask
<1>1. PICK missed \in SUBSET Successful :
       /\ history' = history \cup (Successful \ missed)
       /\ task' = [task EXCEPT !.pc = "decide", !.missed = missed]
       /\ \/ missed = {} /\ UNCHANGED mishaps
          \/ /\ missed # {}
             /\ mishaps.reports < LostReports
             /\ mishaps' = [mishaps EXCEPT !.reports = @ + 1]
  BY DEF ReportSuccess
<1>2. /\ task.pc = "report" /\ task \in Task /\ UNCHANGED <<epicVars, browser, pipe, run>>
      /\ missed \in SUBSET Title /\ Successful \subseteq Title
      /\ mishaps \in [timeouts : 0 .. HardTimeouts, reports : 0 .. LostReports]
  BY <1>1 DEF RunTaskTypeOK, ReportSuccess, browserVars, Successful
<1>3. task' \in Task /\ task'.pc = "decide" /\ task'.results = task.results
  BY <1>1, <1>2 DEF Task
<1>4. /\ mishaps' \in [timeouts : 0 .. HardTimeouts, reports : 0 .. LostReports]
      /\ mishaps' = [timeouts |-> 0, reports |-> 0] => missed = {} /\ mishaps = mishaps'
  BY <1>1, <1>2, RunTaskAssumption
<1>5. RunTaskTypeOK' /\ LinesAreTrue'
  BY <1>1, <1>2, <1>3, <1>4 DEF RunTaskTypeOK, BrowserTypeOK, WithinLimits, LinesAreTrue, Credible, Owned
<1>6. UnownedRecordIsPresumed' /\ UnownedSuccessIsPresumed' /\ RunningIsRun' /\ CheckoutHasGame'
  BY <1>2, <1>3 DEF UnownedRecordIsPresumed, UnownedSuccessIsPresumed, RunningIsRun, CheckoutHasGame,
                    Recorded, Owned, InBrowser
<1>7. ClaimsAreAtHand'
  BY <1>1, <1>2, <1>3, <1>4 DEF ClaimsAreAtHand, Recorded
<1>8. RefusedFirst'
  BY <1>2, <1>3 DEF RefusedFirst, InBrowser
<1>. QED BY <1>5, <1>6, <1>7, <1>8

LEMMA NextInv ==
  ASSUME RunIInv, RunTaskNext
  PROVE  RunIInv'
<1>1. CASE BrowserStep /\ UNCHANGED taskVars
  BY <1>1, BrowserInv
<1>2. CASE \E t \in Title : EpicDelivers(t) /\ UNCHANGED taskVars
  BY <1>2, DeliveryInv
<1>3. CASE StartTask \/ WarpUnavailable
  BY <1>3, StartInv, WarpUnavailableInv
<1>4. CASE TaskStep
  BY <1>4, ReadLineInv, ReadGameResultInv, ReadCredentialsInv, EndOfOutputInv,
     ReportSuccessInv, DecisionInv DEF TaskStep
<1>5. CASE HardTimeout
  BY <1>5, HardTimeoutInv
<1>. QED BY <1>1, <1>2, <1>3, <1>4, <1>5 DEF RunTaskNext

LEMMA StutterInv ==
  ASSUME RunIInv, UNCHANGED runVars
  PROVE  RunIInv'
<1> USE DEF runVars, browserVars, taskVars, RunIInv
<1>1. RunTaskTypeOK' /\ LinesAreTrue'
  BY DEF RunTaskTypeOK, BrowserTypeOK, WithinLimits, LinesAreTrue, Credible, Owned
<1>2. UnownedRecordIsPresumed' /\ UnownedSuccessIsPresumed' /\ ClaimsAreAtHand'
  BY DEF UnownedRecordIsPresumed, UnownedSuccessIsPresumed, ClaimsAreAtHand, Recorded, Owned, Successful
<1>3. RefusedFirst' /\ RunningIsRun' /\ CheckoutHasGame'
  BY DEF RefusedFirst, RunningIsRun, CheckoutHasGame, AtTask, InBrowser
<1>. QED BY <1>1, <1>2, <1>3

LEMMA RunInvariant == RunTaskSpec => []RunIInv
<1>1. RunIInv /\ [RunTaskNext]_runVars => RunIInv'
  BY NextInv, StutterInv
<1>. QED BY <1>1, InitInv, PTL DEF RunTaskSpec

----------------------------------------------------------------------------
(* Refused accounts *)

(* Once the worker knows that Epic refuses the account, the browser has     *)
(* ended and left no result, so that neither kind of retry for failed games *)
(* can come of the attempt.                                                 *)
FatalIsLast ==
  task.fatal /\ ~ AtTask("idle") =>
    InBrowser("exit") /\ task.results = NoResults /\ NoneOf(pipe, GameLine)

FatalIInv == FatalIsLast /\ FatalIsFinal

(* A decision about a refused account is a verdict.                         *)
LEMMA FatalDecision ==
  ASSUME RunIInv, FatalIsLast, task.fatal,
         \/ RetryForError \/ RetryFailedGames \/ RetryPartial \/ FailPartial
         \/ Complete \/ FailWithError \/ CompleteOwned \/ FinishPlain
  PROVE  run'.state \in Verdict
<1>1. AtTask("decide") /\ run \in RunRow
  BY DEF RunIInv, RunTaskTypeOK, RetryForError, RetryAtOnce, RetryFailedGames, RetryPartial,
         FailPartial, Complete, FailWithError, CompleteOwned, FinishPlain, NothingClaimed, Settles
<1>2. task.results = NoResults
  BY <1>1 DEF FatalIsLast, AtTask
<1>3. Successful = {}
  BY <1>2, BrowserAssumption DEF Successful, NoResults, SuccessfulGameStates, GameStatus
<1>4. ~ RetryForError /\ ~ RetryFailedGames /\ ~ RetryPartial
  BY <1>3 DEF RetryForError, RetryAtOnce, RetryFailedGames, MayRetryAll, RetryPartial
<1>5. PICK s \in Verdict : EndWith(s)
  <2>1. {"succeeded", "failed", "manual_required"} \subseteq Verdict
    BY DEF Verdict
  <2>2. EndWith("succeeded") \/ EndWith("failed") \/ EndWith("manual_required")
    BY <1>4 DEF FailPartial, Complete, FailWithError, CompleteOwned, FinishPlain
  <2>. QED BY <2>1, <2>2
<1>. QED BY <1>1, <1>5 DEF EndWith, RunRow

(* run_task returns. *)
LEMMA FatalReturn ==
  ASSUME Forget,
         task.fatal => run'.state \in Verdict \/ mishaps'.timeouts # 0
  PROVE  FatalIInv'
<1>1. task'.pc = "idle" /\ task'.fatal = task.fatal
  BY DEF Forget, NoTask
<1>. QED BY <1>1 DEF FatalIInv, FatalIsLast, FatalIsFinal, AtTask

(* A line that is read, and says nothing new of the account.                *)
LEMMA FatalKept ==
  ASSUME RunIInv, FatalIInv, NEW kind, Reads(kind), kind # "result", UNCHANGED browser,
         task'.pc = task.pc, task'.results = task.results, task'.fatal = task.fatal
  PROVE  FatalIInv'
<1>1. NoneOf(pipe, GameLine) => NoneOf(pipe', GameLine)
  BY ReadsInv
<1>. QED BY <1>1 DEF FatalIInv, FatalIsLast, FatalIsFinal, AtTask, InBrowser, Reads

(* ERROR_TYPE is what a login ends with.                                    *)
LEMMA FatalLine ==
  ASSUME RunIInv, FatalIInv, Notes("error", task'), task'.pc = task.pc,
         task'.results = task.results
  PROVE  FatalIInv'
<1>1. Reads("error") /\ UNCHANGED browser
  BY DEF Notes
<1>2. /\ Head(pipe) \in LoginLine
      /\ \A S : NoneOf(pipe, S) => Head(pipe) \notin S /\ NoneOf(pipe', S)
  BY <1>1, ReadsInv DEF LoginLine, Truthful
<1>3. ~ NoneOf(pipe, LoginLine)
  BY <1>2
<1>4. InBrowser("exit") /\ task.results = NoResults /\ NoneOf(pipe, GameLine)
  BY <1>3 DEF RunIInv, RefusedFirst
<1>5. FatalIsLast'
  BY <1>1, <1>2, <1>4 DEF FatalIsLast, InBrowser
<1>6. FatalIsFinal'
  BY <1>1 DEF FatalIsFinal, Reads, AtTask
<1>. QED BY <1>5, <1>6 DEF FatalIInv

LEMMA FatalTaskStep ==
  ASSUME RunIInv, FatalIInv, TaskStep
  PROVE  FatalIInv'
<1>1. task \in Task
  BY DEF RunIInv, RunTaskTypeOK
<1>2. CASE ReadError
  <2>1. CASE Notes("error", [task EXCEPT !.error = Head(pipe).what,
                                         !.fatal = @ \/ Head(pipe).what \in NukeError])
    <3>1. Notes("error", task') /\ task'.pc = task.pc /\ task'.results = task.results
      BY <1>1, <2>1 DEF Notes, Task
    <3>. QED BY <3>1, FatalLine
  <2>2. CASE Notes("final", [task EXCEPT !.error = Head(pipe).what])
    BY <1>1, <2>2, FatalKept DEF Notes, Task
  <2>. QED BY <1>2, <2>1, <2>2 DEF ReadError
<1>3. CASE ReadGameError
  <2>1. /\ Reads("game") /\ UNCHANGED browser
        /\ task'.pc = task.pc /\ task'.results = task.results /\ task'.fatal = task.fatal
    BY <1>1, <1>3 DEF ReadGameError, Notes, Task
  <2>. QED BY <2>1, FatalKept
<1>4. CASE ReadPhrase
  <2>1. PICK kind \in {"timeout", "slow", "driver", "owned", "done", "login"} :
          /\ Reads(kind) /\ UNCHANGED browser
          /\ task'.pc = task.pc /\ task'.results = task.results /\ task'.fatal = task.fatal
    BY <1>1, <1>4 DEF ReadPhrase, Notes, Task
  <2>. QED BY <2>1, FatalKept
<1>5. CASE ReadGameResult
  <2>1. /\ Reads("result") /\ UNCHANGED browser
        /\ task'.pc = task.pc /\ task'.fatal = task.fatal /\ task.pc = "read"
    BY <1>1, <1>5 DEF ReadGameResult, Reads, AtTask, Task
  <2>2. ~ NoneOf(pipe, GameLine)
    <3>1. Truthful(Head(pipe), Credible) /\ Head(pipe).kind = "result"
      BY <2>1, ReadsInv
    <3>2. Head(pipe) \in GameLine
      BY <3>1 DEF Truthful, GameLine
    <3>. QED BY <2>1, <3>2, ReadsInv
  <2>. QED BY <2>1, <2>2 DEF FatalIInv, FatalIsLast, FatalIsFinal, AtTask
<1>6. CASE ReadCredentials
  <2>1. Forget /\ run'.state \in Verdict
    BY <1>6 DEF ReadCredentials, RunIInv, RunTaskTypeOK, RunRow, Verdict
  <2>. QED BY <2>1, FatalReturn
<1>7. CASE EndOfOutput
  <2>1. /\ UNCHANGED <<browser, pipe>> /\ task.pc = "read" /\ task'.pc = "report"
        /\ task'.results = task.results /\ task'.fatal = task.fatal
    BY <1>1, <1>7 DEF EndOfOutput, browserVars, AtTask, Task
  <2>. QED BY <2>1 DEF FatalIInv, FatalIsLast, FatalIsFinal, AtTask, InBrowser
<1>8. CASE ReportSuccess
  <2>1. /\ UNCHANGED <<browser, pipe>> /\ task.pc = "report" /\ task'.pc = "decide"
        /\ task'.results = task.results /\ task'.fatal = task.fatal
    BY <1>1, <1>8 DEF ReportSuccess, browserVars, AtTask, Task
  <2>. QED BY <2>1 DEF FatalIInv, FatalIsLast, FatalIsFinal, AtTask, InBrowser
<1>9. CASE \/ RetryForError \/ RetryFailedGames \/ RetryPartial \/ FailPartial
           \/ Complete \/ FailWithError \/ CompleteOwned \/ FinishPlain
  <2>1. Forget
    BY <1>9 DEF RetryForError, RetryFailedGames, RetryPartial, FailPartial, Complete,
               FailWithError, CompleteOwned, FinishPlain, EndWith, RetryFor, Return
  <2>2. task.fatal => run'.state \in Verdict
    BY <1>9, FatalDecision DEF FatalIInv
  <2>. QED BY <2>1, <2>2, FatalReturn
<1>. QED BY <1>2, <1>3, <1>4, <1>5, <1>6, <1>7, <1>8, <1>9 DEF TaskStep

LEMMA FatalStep ==
  ASSUME RunIInv, FatalIInv, [RunTaskNext]_runVars
  PROVE  FatalIInv'
<1>1. CASE BrowserStep /\ UNCHANGED taskVars
  <2>1. ~ InBrowser("exit")
    BY <1>1, BrowserSteps DEF Keeps, InBrowser
  <2>. QED BY <1>1, <2>1 DEF FatalIInv, FatalIsLast, FatalIsFinal, AtTask, taskVars
<1>2. CASE \E t \in Title : EpicDelivers(t) /\ UNCHANGED taskVars
  BY <1>2 DEF EpicDelivers, FatalIInv, FatalIsLast, FatalIsFinal, AtTask, InBrowser, taskVars
<1>3. CASE StartTask
  BY <1>3 DEF StartTask, NoTask, FatalIInv, FatalIsLast, FatalIsFinal, AtTask
<1>4. CASE WarpUnavailable
  <2>1. /\ run'.state \in Verdict /\ UNCHANGED <<task, mishaps, browser, pipe>>
    BY <1>4 DEF WarpUnavailable, browserVars, RunIInv, RunTaskTypeOK, RunRow, Verdict
  <2>. QED BY <2>1 DEF FatalIInv, FatalIsLast, FatalIsFinal, AtTask, InBrowser
<1>5. CASE TaskStep
  BY <1>5, FatalTaskStep
<1>6. CASE HardTimeout
  <2>1. Forget /\ mishaps' = [mishaps EXCEPT !.timeouts = @ + 1]
        /\ mishaps \in [timeouts : 0 .. HardTimeouts, reports : 0 .. LostReports]
    BY <1>6 DEF HardTimeout, RunIInv, RunTaskTypeOK
  <2>2. mishaps'.timeouts # 0
    BY <2>1, RunTaskAssumption
  <2>. QED BY <2>1, <2>2, FatalReturn
<1>7. CASE UNCHANGED runVars
  BY <1>7 DEF runVars, browserVars, taskVars, FatalIInv, FatalIsLast, FatalIsFinal, AtTask,
              InBrowser
<1>. QED BY <1>1, <1>2, <1>3, <1>4, <1>5, <1>6, <1>7 DEF RunTaskNext

----------------------------------------------------------------------------
(* Theorems *)

(* Every variable keeps its type, the retry counters stay within the limits  *)
(* of schedule_failure_retry, and the lines in the pipe within the markers   *)
(* that run_task knows.                                                     *)
THEOREM RunTypeCorrect == RunTaskSpec => []RunTaskTypeOK
<1>1. RunIInv => RunTaskTypeOK
  BY DEF RunIInv
<1>. QED BY <1>1, RunInvariant, PTL

(* Whatever the browser does, whichever clicks are lost, and however Epic    *)
(* treats its orders and its cart: a game that is recorded as claimed or    *)
(* owned is in the account's library, unless the success page of the cart   *)
(* came for other games and was taken to speak for this one too.            *)
THEOREM RecordsAreTrue == RunTaskSpec => []UnownedRecordIsPresumed
<1>1. RunIInv => UnownedRecordIsPresumed
  BY DEF RunIInv
<1>. QED BY <1>1, RunInvariant, PTL

(* A claim run that succeeds leaves an account that owns the whole cycle,   *)
(* for any number of games and of attempts, but for games that the cart's   *)
(* success page was taken to speak for: there is no other way to succeed    *)
(* without owning a game.                                                   *)
THEOREM SuccessIsEarned == RunTaskSpec => []UnownedSuccessIsPresumed
<1>1. RunIInv => UnownedSuccessIsPresumed
  BY DEF RunIInv
<1>. QED BY <1>1, RunInvariant, PTL

(* An account that Epic refused is not tried again, unless the browser      *)
(* hangs after it told of the refusal: every branch of run_task that an     *)
(* attempt with such an error can end in gives a verdict.                   *)
THEOREM RefusalIsFinal == RunTaskSpec => []FatalIsFinal
<1>1. RunTaskInit => FatalIInv
  BY DEF RunTaskInit, NoTask, FatalIInv, FatalIsLast, FatalIsFinal
<1>2. RunIInv /\ FatalIInv /\ [RunTaskNext]_runVars => FatalIInv'
  BY FatalStep
<1>3. FatalIInv => FatalIsFinal
  BY DEF FatalIInv
<1>. QED BY <1>1, <1>2, <1>3, RunInvariant, PTL DEF RunTaskSpec

(* Without a hard timeout or a lost report, the history has every game that *)
(* was ever recorded as claimed, whatever retries and errors come in        *)
(* between.                                                                 *)
THEOREM ClaimsAreReported == RunTaskSpec => []ClaimsReachHistoryInTime
<1>1. RunIInv => ClaimsReachHistoryInTime
  BY DEF RunIInv, ClaimsAreAtHand, ClaimsReachHistoryInTime, ClaimsReachHistory, AtTask
<1>. QED BY <1>1, RunInvariant, PTL

----------------------------------------------------------------------------
(* Refinement *)

LEMMA LeftType ==
  ASSUME RunIInv
  PROVE  /\ Left \in [RetryKind -> Nat]
         /\ \A k \in RetryKind : Left[k] = RetryLimit[k] - run.retries[k] /\ run.retries[k] \in 0 .. 2
<1>1. \A k \in RetryKind : /\ run.retries[k] \in 0 .. 2 /\ run.retries[k] <= RetryLimit[k]
                           /\ RetryLimit[k] \in {1, 2}
  BY LimitsType DEF RunIInv, RunTaskTypeOK, RunRow, WithinLimits
<1>2. \A k \in RetryKind : RetryLimit[k] - run.retries[k] \in Nat
  BY <1>1
<1>. QED BY <1>1, <1>2 DEF Left

LEMMA Stays ==
  ASSUME UNCHANGED <<task, run>> \/ (~ AtTask("idle") /\ ~ AtTask("idle")' /\ run'.retries = run.retries)
  PROVE  UNCHANGED Budget!budgetVars
<1>1. run'.retries = run.retries
  OBVIOUS
<1>2. Left' = Left
  BY <1>1 DEF Left
<1>3. Phase' = Phase
  BY DEF Phase, AtTask
<1>. QED BY <1>2, <1>3 DEF Budget!budgetVars

LEMMA Closes ==
  ASSUME ~ AtTask("idle") \/ run.state \notin Verdict, AtTask("idle")', run'.state \in Verdict,
         run'.retries = run.retries
  PROVE  Budget!Close
<1>1. Left' = Left
  BY DEF Left
<1>2. Phase \in {"waiting", "attempt"} /\ Phase' = "closed"
  BY DEF Phase, AtTask
<1>. QED BY <1>1, <1>2 DEF Budget!Close

LEMMA Pays ==
  ASSUME RunIInv, RunIInv', ~ AtTask("idle"), AtTask("idle")', run'.state \in {"queued", "deferred"},
         NEW kind \in RetryKind, run'.retries[kind] = run.retries[kind] + 1,
         \A k \in RetryKind : run'.retries[k] \in {run.retries[k], run.retries[k] + 1}
  PROVE  Budget!Pay
<1>1. Phase = "attempt" /\ Phase' = "waiting"
  BY DEF Phase, AtTask, Verdict
<1>2. /\ Left \in [RetryKind -> Nat]
      /\ \A k \in RetryKind : Left[k] = RetryLimit[k] - run.retries[k] /\ run.retries[k] \in 0 .. 2
  BY LeftType
<1>3. /\ Left' \in [RetryKind -> Nat]
      /\ \A k \in RetryKind : Left'[k] = RetryLimit[k] - run'.retries[k]
  <2>1. \A k \in RetryKind : /\ run'.retries[k] \in 0 .. 2 /\ run'.retries[k] <= RetryLimit[k]
                             /\ RetryLimit[k] \in {1, 2}
    BY LimitsType DEF RunIInv, RunTaskTypeOK, RunRow, WithinLimits
  <2>2. \A k \in RetryKind : RetryLimit[k] - run'.retries[k] \in Nat
    BY <2>1
  <2>. QED BY <2>2 DEF Left
<1>4. \A k \in RetryKind : Left'[k] <= Left[k]
  BY <1>2, <1>3, LimitsType
<1>5. Left'[kind] < Left[kind]
  BY <1>2, <1>3, LimitsType
<1>. QED BY <1>1, <1>3, <1>4, <1>5 DEF Budget!Pay

LEMMA ReturnPays ==
  ASSUME RunIInv, RunIInv', NEW kind \in RetryKind, ~ AtTask("idle"),
         \E targets \in SUBSET Title : RetryFor(kind, targets)
  PROVE  Budget!Pay
<1>1. PICK targets \in SUBSET Title : RetryFor(kind, targets)
  OBVIOUS
<1> DEFINE counted == [run.retries EXCEPT ![kind] = @ + 1]
           s == IF kind = "cookie_invalid" THEN "queued" ELSE "deferred"
<1>2. run' = [run EXCEPT !.state = s, !.retries = counted, !.targets = targets]
  BY <1>1 DEF RetryFor
<1>3. run \in RunRow /\ run.retries \in [RetryKind -> 0 .. 2]
  BY DEF RunIInv, RunTaskTypeOK, RunRow
<1>. HIDE DEF counted, s
<1>4. run'.retries = counted /\ run'.state = s
  BY <1>2, <1>3 DEF RunRow
<1>5. \A k \in RetryKind : counted[k] = IF k = kind THEN run.retries[k] + 1 ELSE run.retries[k]
  BY <1>3 DEF counted
<1>6. AtTask("idle")'
  BY <1>1, ForgetType DEF RetryFor, Return, AtTask
<1>7. s \in {"queued", "deferred"}
  BY DEF s
<1>. QED BY <1>4, <1>5, <1>6, <1>7, Pays

LEMMA ReturnCloses ==
  ASSUME RunIInv, ~ AtTask("idle"), NEW s \in Verdict, EndWith(s)
  PROVE  Budget!Close
<1>1. run'.retries = run.retries /\ run'.state = s
  BY DEF RunIInv, RunTaskTypeOK, RunRow, EndWith
<1>2. AtTask("idle")'
  BY ForgetType DEF EndWith, Return, AtTask
<1>. QED BY <1>1, <1>2, Closes

LEMMA DecisionBudget ==
  ASSUME RunIInv, RunIInv',
         \/ RetryForError \/ RetryFailedGames \/ RetryPartial \/ FailPartial
         \/ Complete \/ FailWithError \/ CompleteOwned \/ FinishPlain
  PROVE  Budget!Pay \/ Budget!Close
<1>1. AtTask("decide") /\ ~ AtTask("idle")
  BY DEF RetryForError, RetryAtOnce, RetryFailedGames, RetryPartial, FailPartial, Complete,
         FailWithError, CompleteOwned, FinishPlain, NothingClaimed, Settles, AtTask
<1>2. CASE RetryForError
  <2>1. task.error \in RetryKind /\ run.targets \in SUBSET Title
    BY <1>2 DEF RunIInv, RunTaskTypeOK, RunRow, RetryForError, RetryAtOnce, RecoverableError, RetryKind
  <2>2. \/ RetryFor(task.error, run.targets) \/ EndWith("manual_required") \/ EndWith("failed")
    BY <1>2 DEF RetryForError
  <2>. QED BY <1>1, <2>1, <2>2, ReturnPays, ReturnCloses DEF Verdict
<1>3. CASE RetryFailedGames
  <2>1. "checkout_failed" \in RetryKind /\ Failed \in SUBSET Title /\ RetryFor("checkout_failed", Failed)
    BY <1>3 DEF RetryKind, Failed, RetryFailedGames
  <2>. QED BY <1>1, <2>1, ReturnPays
<1>4. CASE RetryPartial
  <2> DEFINE once == [run.retries EXCEPT !["partial"] = @ + 1]
             counted == [once EXCEPT !["checkout_failed"] = @ + 1]
  <2>1. /\ run \in RunRow /\ run.retries \in [RetryKind -> 0 .. 2] /\ Forget
        /\ run' = [run EXCEPT !.state = "deferred", !.targets = Failed, !.retries = counted]
        /\ "partial" \in RetryKind /\ "checkout_failed" \in RetryKind
    BY <1>4 DEF RunIInv, RunTaskTypeOK, RunRow, RetryPartial, Return, RetryKind
  <2>2. \A k \in RetryKind : counted[k] = IF k \in {"partial", "checkout_failed"}
                                            THEN run.retries[k] + 1 ELSE run.retries[k]
    BY <2>1
  <2>. HIDE DEF counted
  <2>3. run'.retries = counted /\ run'.state = "deferred"
    BY <2>1 DEF RunRow
  <2>4. AtTask("idle")'
    BY <2>1, ForgetType DEF AtTask
  <2>. QED BY <1>1, <2>1, <2>2, <2>3, <2>4, Pays
<1>5. CASE FailPartial \/ Complete \/ FailWithError \/ CompleteOwned \/ FinishPlain
  <2>1. PICK s \in Verdict : EndWith(s)
    <3>1. {"succeeded", "failed", "manual_required"} \subseteq Verdict
      BY DEF Verdict
    <3>2. EndWith("succeeded") \/ EndWith("failed") \/ EndWith("manual_required")
      BY <1>5 DEF FailPartial, Complete, FailWithError, CompleteOwned, FinishPlain
    <3>. QED BY <3>1, <3>2
  <2>. QED BY <1>1, <2>1, ReturnCloses
<1>. QED BY <1>2, <1>3, <1>4, <1>5

LEMMA TimeoutBudget ==
  ASSUME RunIInv, RunIInv', HardTimeout
  PROVE  Budget!Pay \/ Budget!Close
<1> DEFINE counted == [run.retries EXCEPT !["task_deadline"] = @ + 1]
<1>1. /\ run \in RunRow /\ run.retries \in [RetryKind -> 0 .. 2]
      /\ ~ AtTask("idle") /\ AtTask("idle")' /\ "task_deadline" \in RetryKind
  BY ForgetType DEF RunIInv, RunTaskTypeOK, RunRow, HardTimeout, AtTask, RetryKind
<1>2. CASE run' = [run EXCEPT !.state = "deferred", !.retries = counted]
  <2>1. \A k \in RetryKind : counted[k] = IF k = "task_deadline" THEN run.retries[k] + 1
                                                                 ELSE run.retries[k]
    BY <1>1
  <2>. HIDE DEF counted
  <2>2. run'.retries = counted /\ run'.state = "deferred"
    BY <1>1, <1>2 DEF RunRow
  <2>. QED BY <1>1, <2>1, <2>2, Pays
<1>3. CASE run' = [run EXCEPT !.state = "failed"]
  <2>1. run'.retries = run.retries /\ run'.state \in Verdict
    BY <1>1, <1>3 DEF RunRow, Verdict
  <2>. QED BY <1>1, <2>1, Closes
<1>. QED BY <1>2, <1>3 DEF HardTimeout

LEMMA StepBudget ==
  ASSUME RunIInv, RunIInv', RunTaskNext
  PROVE  [Budget!BudgetNext]_(Budget!budgetVars)
<1> USE DEF Budget!BudgetNext
<1>1. CASE (BrowserStep \/ \E t \in Title : EpicDelivers(t)) /\ UNCHANGED taskVars
  BY <1>1, Stays DEF taskVars
<1>2. CASE StartTask
  <2>1. run.retries = run'.retries
    BY <1>2 DEF RunIInv, RunTaskTypeOK, RunRow, StartTask
  <2>2. Left' = Left
    BY <2>1 DEF Left
  <2>3. Phase = "waiting" /\ Phase' = "attempt"
    BY <1>2 DEF StartTask, Waiting, AtTask, Phase, Verdict, NoTask
  <2>. QED BY <2>2, <2>3 DEF Budget!Begin
<1>3. CASE WarpUnavailable
  <2>1. /\ run.state \notin Verdict /\ AtTask("idle")' /\ run'.state \in Verdict
        /\ run'.retries = run.retries
    BY <1>3 DEF RunIInv, RunTaskTypeOK, RunRow, WarpUnavailable, Waiting, AtTask, Verdict
  <2>. QED BY <2>1, Closes
<1>4. CASE ReadError \/ ReadGameError \/ ReadPhrase \/ ReadGameResult \/ EndOfOutput \/ ReportSuccess
  <2>1. ~ AtTask("idle") /\ ~ AtTask("idle")' /\ run'.retries = run.retries
    <3>1. task \in Task /\ run \in RunRow
      BY DEF RunIInv, RunTaskTypeOK
    <3>2. CASE ReadError \/ ReadGameError \/ ReadPhrase
      BY <3>1, <3>2 DEF Task, ReadError, ReadGameError, ReadPhrase, Notes, Reads, AtTask
    <3>3. CASE ReadGameResult
      BY <3>1, <3>3 DEF Task, RunRow, ReadGameResult, Reads, AtTask
    <3>4. CASE EndOfOutput
      BY <3>1, <3>4 DEF Task, EndOfOutput, AtTask
    <3>5. CASE ReportSuccess
      BY <3>1, <3>5 DEF Task, ReportSuccess, AtTask
    <3>. QED BY <1>4, <3>2, <3>3, <3>4, <3>5
  <2>. QED BY <2>1, Stays
<1>5. CASE ReadCredentials
  <2>1. /\ ~ AtTask("idle") /\ AtTask("idle")' /\ run'.state \in Verdict
        /\ run'.retries = run.retries
    BY <1>5, ForgetType DEF RunIInv, RunTaskTypeOK, RunRow, ReadCredentials, AtTask, Verdict
  <2>. QED BY <2>1, Closes
<1>6. CASE \/ RetryForError \/ RetryFailedGames \/ RetryPartial \/ FailPartial
           \/ Complete \/ FailWithError \/ CompleteOwned \/ FinishPlain
  BY <1>6, DecisionBudget
<1>7. CASE HardTimeout
  BY <1>7, TimeoutBudget
<1>. QED BY <1>1, <1>2, <1>3, <1>4, <1>5, <1>6, <1>7 DEF RunTaskNext, TaskStep

(* Every attempt but the first is paid for out of the limits of             *)
(* schedule_failure_retry, schedule_cookie_invalid_retry and the partial    *)
(* retry, and a verdict is never taken back: run_task implements            *)
(* RetryBudget.                                                             *)
THEOREM RetriesArePaid == RunTaskSpec => RetriesArePaidFor
<1>1. RunTaskInit => Budget!BudgetInit
  <2>1. SUFFICES ASSUME RunTaskInit PROVE Budget!BudgetInit
    OBVIOUS
  <2>2. /\ run.state = "queued" /\ task.pc = "idle"
        /\ \A k \in RetryKind : run.retries[k] = 0
    BY <2>1 DEF RunTaskInit, NoTask
  <2>3. Phase = "waiting"
    BY <2>2 DEF Phase, AtTask, Verdict
  <2>4. \A k \in RetryKind : RetryLimit[k] - run.retries[k] = RetryLimit[k]
    BY <2>2, LimitsType
  <2>5. Left = RetryLimit
    BY <2>4 DEF Left, RetryLimit
  <2>. QED BY <2>3, <2>5 DEF Budget!BudgetInit
<1>2. RunIInv /\ RunIInv' /\ [RunTaskNext]_runVars => [Budget!BudgetNext]_(Budget!budgetVars)
  BY StepBudget, Stays DEF runVars, taskVars
<1>. QED BY <1>1, <1>2, RunInvariant, PTL DEF RunTaskSpec, RetriesArePaidFor, Budget!BudgetSpec

----------------------------------------------------------------------------
(* One counter for the retries of all kinds *)

LEMMA RetryKindsAreFinite == IsFiniteSet(RetryKind)
<1> DEFINE kinds ==
      <<"captcha_invalid", "login_page_timeout", "captcha_failed", "captcha_unsolved",
        "provider_timeout", "network_timeout", "driver_crash", "page_timeout",
        "task_deadline", "checkout_failed", "cookie_invalid", "partial">>
<1>1. IsFiniteSet(1 .. 12)
  <2>1. 1 \in Int /\ 12 \in Int
    OBVIOUS
  <2>. QED BY <2>1, FS_Interval, Zenon
<1>2. kinds \in Surjection(1 .. 12, RetryKind)
  <2>1. kinds \in [1 .. 12 -> RetryKind]
    BY DEF RetryKind
  <2>2. \A k \in RetryKind : \E i \in 1 .. 12 : kinds[i] = k
    BY DEF RetryKind
  <2>. QED BY <2>1, <2>2 DEF Surjection
<1>. QED BY <1>1, <1>2, FS_Surjection

LEMMA RetriesAreFinite ==
  ASSUME NEW limit
  PROVE  IsFiniteSet(Retries(limit)) /\ Cardinality(Retries(limit)) \in Nat
<1>1. IsFiniteSet(RetryKind \ {"partial"}) /\ IsFiniteSet(1 .. 2)
  BY RetryKindsAreFinite, FS_Subset, FS_Interval
<1>2. IsFiniteSet((RetryKind \ {"partial"}) \X (1 .. 2))
  BY <1>1, FS_Product
<1>3. Retries(limit) \in SUBSET ((RetryKind \ {"partial"}) \X (1 .. 2))
  BY DEF Retries
<1>4. IsFiniteSet(Retries(limit))
  BY <1>2, <1>3, FS_Subset
<1>. QED BY <1>4, FS_CardinalityType

(* A retry is one retry more, whatever becomes of the partial ones. *)
LEMMA OneMoreRetry ==
  ASSUME NEW a \in [RetryKind -> 0 .. 2], NEW b \in [RetryKind -> 0 .. 2],
         NEW kind \in RetryKind \ {"partial"}, b[kind] = a[kind] + 1,
         \A k \in RetryKind \ {kind, "partial"} : b[k] = a[k]
  PROVE  Cardinality(Retries(b)) = Cardinality(Retries(a)) + 1
<1> DEFINE new == <<kind, b[kind]>>
<1>1. new \notin Retries(a)
  BY DEF Retries
<1>2. Retries(b) = Retries(a) \cup {new}
  <2>1. ASSUME NEW k \in RetryKind \ {"partial"}, NEW n \in 1 .. 2
        PROVE  n <= b[k] <=> n <= a[k] \/ (k = kind /\ n = b[kind])
    BY <2>1
  <2>2. b[kind] \in 1 .. 2
    OBVIOUS
  <2>3. new \in (RetryKind \ {"partial"}) \X (1 .. 2)
    BY <2>2
  <2>4. \A c \in (RetryKind \ {"partial"}) \X (1 .. 2) :
          /\ c = <<c[1], c[2]>> /\ c[1] \in RetryKind \ {"partial"} /\ c[2] \in 1 .. 2
    OBVIOUS
  <2>5. \A c \in (RetryKind \ {"partial"}) \X (1 .. 2) :
          c[2] <= b[c[1]] <=> c[2] <= a[c[1]] \/ c = new
    BY <2>1, <2>4
  <2>. QED BY <2>3, <2>5 DEF Retries
<1>3. IsFiniteSet(Retries(a)) /\ Cardinality(Retries(a)) \in Nat
  BY RetriesAreFinite
<1>. HIDE DEF new
<1>. QED BY <1>1, <1>2, <1>3, FS_AddElement

LEMMA RetriesWithinLimits ==
  ASSUME NEW counts \in [RetryKind -> 0 .. 2], \A k \in RetryKind : counts[k] <= RetryLimit[k]
  PROVE  Cardinality(Retries(counts)) <= Cardinality(Retries(RetryLimit))
<1>1. \A k \in RetryKind, n \in 1 .. 2 : n <= counts[k] => n <= RetryLimit[k]
  BY LimitsType
<1>2. Retries(counts) \in SUBSET Retries(RetryLimit)
  BY <1>1 DEF Retries
<1>. QED BY <1>2, RetriesAreFinite, FS_Subset

----------------------------------------------------------------------------
(* What an attempt may learn and record *)

(* A verify run's browser logs in and ends: it tells of no game.            *)
VerifyOnlyLogsIn ==
  run.mode = "verify" =>
    /\ browser.pc \in {"off", "login", "exit"}
    /\ InBrowser("login") => browser.verify
    /\ NoneOf(pipe, GameLine)
    /\ task.results = NoResults
    /\ ~ task.owned

(* What the attempt was told is what the store has. *)
DictIsRecorded ==
  \A t \in Title : task.results[t] # None => run.results[t] = task.results[t]

CallIInv == VerifyOnlyLogsIn /\ DictIsRecorded

(* No call of run_task touches the mode of its run. *)
LEMMA ModeStays ==
  ASSUME RunIInv, [RunTaskNext]_runVars
  PROVE  run'.mode = run.mode
<1>1. run \in RunRow
  BY DEF RunIInv, RunTaskTypeOK
<1>2. CASE UNCHANGED run
  BY <1>2
<1>3. CASE StartTask \/ WarpUnavailable \/ ReadGameResult \/ ReadCredentials \/ HardTimeout
  BY <1>1, <1>3 DEF RunRow, StartTask, WarpUnavailable, ReadGameResult, ReadCredentials, HardTimeout
<1>4. CASE \/ RetryForError \/ RetryFailedGames \/ RetryPartial \/ FailPartial
           \/ Complete \/ FailWithError \/ CompleteOwned \/ FinishPlain
  BY <1>1, <1>4 DEF RunRow, RetryForError, RetryFailedGames, RetryPartial, FailPartial, Complete,
     FailWithError, CompleteOwned, FinishPlain, RetryFor, EndWith
<1>. QED BY <1>2, <1>3, <1>4 DEF RunTaskNext, TaskStep, runVars, taskVars, ReadError, ReadGameError,
        ReadPhrase, Notes, EndOfOutput, ReportSuccess

LEMMA VerifyBrowser ==
  ASSUME BrowserStep, InBrowser("login"), browser.verify, browser \in Browser
  PROVE  browser'.pc = "exit" \/ (browser'.pc = "login" /\ browser'.verify)
<1>1. CASE LoggedIn \/ LoginPageTimesOut \/ (\E e \in LoginError : LoginFails(e)) \/ BrowserFails
           \/ BrowserDies
  BY <1>1 DEF LoggedIn, LoginPageTimesOut, LoginFails, BrowserFails, BrowserDies, Leave,
     EndWithLines, Exit, End, BrowserOff
<1>2. CASE LoginDelayed
  BY <1>2 DEF LoginDelayed, InBrowser, Browser
<1>. QED BY <1>1, <1>2 DEF BrowserStep, InBrowser, ClaimPageFails, CheckOrders, SkipGame, FindOwned,
        AddToCart, PlaceOrder, ConfirmCheckout, GiveUpCheckout, NavigationFails, DriverCrashes,
        ElementTimesOut, CartButtonFails, CheckOutCart, BuyCart, CartFails, CartMeetsCaptcha, FinishGames

LEMMA VerifyBrowserStep ==
  ASSUME RunIInv, VerifyOnlyLogsIn, BrowserStep, UNCHANGED taskVars
  PROVE  VerifyOnlyLogsIn'
<1>1. SUFFICES ASSUME run.mode = "verify" PROVE VerifyOnlyLogsIn'
  BY DEF VerifyOnlyLogsIn, taskVars
<1>2. InBrowser("login") /\ browser.verify
  BY <1>1, BrowserSteps DEF VerifyOnlyLogsIn, Keeps, InBrowser
<1>3. browser'.pc = "exit" \/ (browser'.pc = "login" /\ browser'.verify)
  BY <1>2, VerifyBrowser DEF RunIInv, RunTaskTypeOK, BrowserTypeOK
<1>4. PICK lines : Writes(lines)
  BY BrowserSteps
<1>5. pipe \in Seq(Truths(Credible')) /\ lines \in Seq(Truths(Credible')) /\ pipe' = pipe \o lines
  BY <1>4, BrowserSteps, TruthsLast DEF Writes, Keeps, RunIInv, LinesAreTrue
<1>6. NoneOf(pipe', GameLine)
  BY <1>1, <1>2, <1>4, <1>5, Joined DEF Writes, VerifyOnlyLogsIn
<1>. QED BY <1>1, <1>3, <1>6 DEF VerifyOnlyLogsIn, InBrowser, taskVars

LEMMA DictReturns ==
  ASSUME RunIInv, Forget
  PROVE  DictIsRecorded'
  BY ForgetType, BrowserAssumption DEF DictIsRecorded, NoResults

(* run_task returns, or the browser is killed first. *)
LEMMA VerifyReturns ==
  ASSUME RunIInv, VerifyOnlyLogsIn, Forget, run'.mode = run.mode,
         UNCHANGED <<browser, pipe>> \/ Killed
  PROVE  VerifyOnlyLogsIn'
<1>1. task'.results = NoResults /\ task'.owned = task.owned
  BY ForgetType DEF Forget, NoTask
<1>2. CASE UNCHANGED <<browser, pipe>>
  BY <1>1, <1>2 DEF VerifyOnlyLogsIn, InBrowser
<1>3. CASE Killed
  BY <1>1, <1>3 DEF VerifyOnlyLogsIn, InBrowser, Killed, BrowserOff, NoneOf
<1>. QED BY <1>2, <1>3

(* A line of a verify run that is read tells of no game. *)
LEMMA VerifyReads ==
  ASSUME RunIInv, VerifyOnlyLogsIn, NEW kind, Reads(kind), run.mode = "verify"
  PROVE  kind \notin {"result", "owned"} /\ NoneOf(pipe', GameLine)
<1>1. /\ Head(pipe) \in Line
      /\ NoneOf(pipe, GameLine) => Head(pipe) \notin GameLine /\ NoneOf(pipe', GameLine)
  BY ReadsInv DEF Truthful
<1>. QED BY <1>1 DEF VerifyOnlyLogsIn, GameLine, Reads

LEMMA CallLineInv ==
  ASSUME RunIInv, CallIInv, ReadError \/ ReadGameError \/ ReadPhrase
  PROVE  CallIInv'
<1>1. task \in Task
  BY DEF RunIInv, RunTaskTypeOK
<1>2. /\ UNCHANGED <<browser, run>> /\ task'.results = task.results
      /\ \/ \E kind \in LineKind : Reads(kind) /\ task'.owned = task.owned
         \/ Reads("owned")
  BY <1>1 DEF ReadError, ReadGameError, ReadPhrase, Notes, Task, LineKind
<1>3. DictIsRecorded'
  BY <1>2 DEF CallIInv, DictIsRecorded
<1>4. VerifyOnlyLogsIn'
  <2>1. SUFFICES ASSUME run.mode = "verify" PROVE VerifyOnlyLogsIn'
    BY <1>2 DEF VerifyOnlyLogsIn
  <2>2. task'.owned = task.owned /\ NoneOf(pipe', GameLine)
    BY <1>2, <2>1, VerifyReads DEF CallIInv
  <2>. QED BY <1>2, <2>1, <2>2 DEF CallIInv, VerifyOnlyLogsIn, InBrowser
<1>. QED BY <1>3, <1>4 DEF CallIInv

LEMMA CallResultInv ==
  ASSUME RunIInv, CallIInv, ReadGameResult
  PROVE  CallIInv' /\ run.mode = "claim"
<1> DEFINE t == Head(pipe).title
           s == Head(pipe).what
<1>1. /\ Reads("result") /\ task \in Task /\ run \in RunRow
      /\ task' = [task EXCEPT !.results[t] = s] /\ run' = [run EXCEPT !.results[t] = s]
  BY DEF ReadGameResult, RunIInv, RunTaskTypeOK
<1>2. run.mode = "claim"
  BY <1>1, VerifyReads DEF CallIInv, RunRow
<1>. HIDE DEF t, s
<1>3. /\ task'.results = [task.results EXCEPT ![t] = s]
      /\ run'.results = [run.results EXCEPT ![t] = s] /\ run'.mode = run.mode
  BY <1>1 DEF Task, RunRow
<1>4. DictIsRecorded'
  BY <1>1, <1>3 DEF CallIInv, DictIsRecorded, Task, RunRow
<1>. QED BY <1>2, <1>3, <1>4 DEF CallIInv, VerifyOnlyLogsIn

LEMMA CallStep ==
  ASSUME RunIInv, CallIInv, [RunTaskNext]_runVars
  PROVE  CallIInv'
<1>1. run'.mode = run.mode
  BY ModeStays
<1>2. CASE BrowserStep /\ UNCHANGED taskVars
  BY <1>2, VerifyBrowserStep DEF CallIInv, DictIsRecorded, taskVars
<1>3. CASE \/ \E t \in Title : EpicDelivers(t) /\ UNCHANGED taskVars
           \/ UNCHANGED runVars
  BY <1>3 DEF EpicDelivers, runVars, browserVars, taskVars, CallIInv, DictIsRecorded,
              VerifyOnlyLogsIn, InBrowser
<1>4. CASE StartTask
  <2>1. task'.results = NoResults /\ ~ task'.owned /\ pipe' = << >>
    BY <1>4 DEF StartTask, NoTask
  <2>2. browser'.pc = "login" /\ (run.mode = "verify" => browser'.verify)
    BY <1>4 DEF StartTask, Start, BrowserOff
  <2>. QED BY <1>1, <2>1, <2>2, BrowserAssumption
          DEF CallIInv, DictIsRecorded, VerifyOnlyLogsIn, InBrowser, NoneOf, NoResults
<1>5. CASE WarpUnavailable
  <2>1. UNCHANGED <<browser, pipe, task>> /\ run'.results = run.results
    BY <1>5 DEF WarpUnavailable, browserVars, RunIInv, RunTaskTypeOK, RunRow
  <2>. QED BY <1>1, <2>1 DEF CallIInv, DictIsRecorded, VerifyOnlyLogsIn, InBrowser
<1>6. CASE ReadError \/ ReadGameError \/ ReadPhrase
  BY <1>6, CallLineInv
<1>7. CASE ReadGameResult
  BY <1>7, CallResultInv
<1>8. CASE EndOfOutput \/ ReportSuccess
  <2>1. UNCHANGED <<browser, pipe, run>> /\ task'.results = task.results /\ task'.owned = task.owned
    BY <1>8 DEF EndOfOutput, ReportSuccess, browserVars, RunIInv, RunTaskTypeOK, Task
  <2>. QED BY <2>1 DEF CallIInv, DictIsRecorded, VerifyOnlyLogsIn, InBrowser
<1>9. CASE \/ RetryForError \/ RetryFailedGames \/ RetryPartial \/ FailPartial
           \/ Complete \/ FailWithError \/ CompleteOwned \/ FinishPlain
  <2>1. Return
    BY <1>9 DEF RetryForError, RetryFailedGames, RetryPartial, FailPartial, Complete,
               FailWithError, CompleteOwned, FinishPlain, EndWith, RetryFor
  <2>. QED BY <1>1, <2>1, DictReturns, VerifyReturns DEF Return, browserVars, CallIInv
<1>10. CASE ReadCredentials \/ HardTimeout
  <2>1. Forget /\ Killed
    BY <1>10 DEF ReadCredentials, HardTimeout
  <2>. QED BY <1>1, <2>1, DictReturns, VerifyReturns DEF CallIInv
<1>. QED BY <1>2, <1>3, <1>4, <1>5, <1>6, <1>7, <1>8, <1>9, <1>10 DEF RunTaskNext, TaskStep

LEMMA CallInvariant == RunTaskSpec => []CallIInv
<1>1. RunTaskInit => CallIInv
  BY BrowserAssumption DEF RunTaskInit, BrowserInit, BrowserOff, NoTask, NoResults, CallIInv,
     VerifyOnlyLogsIn, DictIsRecorded, InBrowser, NoneOf
<1>. QED BY <1>1, CallStep, RunInvariant, PTL DEF RunTaskSpec

----------------------------------------------------------------------------
(* RunTask implements Attempts *)

LEMMA CallStays ==
  ASSUME AtTask("idle")' <=> AtTask("idle"), run'.state = run.state, run'.mode = run.mode,
         run'.retries = run.retries, run'.results = run.results, task'.results = task.results
  PROVE  UNCHANGED Call!attemptVars
<1>1. Retries(run.retries)' = Retries(run.retries)
  BY DEF Retries
<1>. QED BY <1>1 DEF Call!attemptVars

LEMMA CallSettles ==
  ASSUME RunIInv, ~ AtTask("idle"), Forget, run'.mode = run.mode, run'.results = run.results
  PROVE  /\ run'.state \in {"queued", "deferred"} => Call!Settle("waiting")
         /\ \A s \in Verdict : run'.state = s => Call!Settle(s)
<1>1. AtTask("idle")' /\ task'.results = NoResults
  BY ForgetType DEF AtTask
<1>. QED BY <1>1 DEF Call!Settle, Call!NoGames, NoResults, Verdict

LEMMA CallRetries ==
  ASSUME RunIInv, RunIInv', ~ AtTask("idle"), Forget, run'.mode = run.mode,
         run'.results = run.results, run'.state \in {"queued", "deferred"},
         NEW kind \in RetryKind \ {"partial"}, run'.retries[kind] = run.retries[kind] + 1,
         \A k \in RetryKind \ {kind, "partial"} : run'.retries[k] = run.retries[k]
  PROVE  Call!Retry
<1>1. Call!Settle("waiting")
  BY CallSettles
<1>2. /\ run.retries \in [RetryKind -> 0 .. 2] /\ run'.retries \in [RetryKind -> 0 .. 2]
      /\ \A k \in RetryKind : run'.retries[k] <= RetryLimit[k]
  BY DEF RunIInv, RunTaskTypeOK, RunRow, WithinLimits
<1>3. Cardinality(Retries(run'.retries)) = Cardinality(Retries(run.retries)) + 1
  BY <1>2, OneMoreRetry
<1>4. Cardinality(Retries(run'.retries)) <= Cardinality(Retries(RetryLimit))
  BY <1>2, RetriesWithinLimits
<1>5. /\ Cardinality(Retries(run.retries)) \in Nat
      /\ Cardinality(Retries(RetryLimit)) \in Nat
  BY RetriesAreFinite
<1>6. Retries(run.retries)' = Retries(run'.retries)
  BY DEF Retries
<1>. QED BY <1>1, <1>3, <1>4, <1>5, <1>6 DEF Call!Retry

LEMMA CallEnds ==
  ASSUME RunIInv, ~ AtTask("idle"), Forget, run'.mode = run.mode, run'.results = run.results,
         run'.retries = run.retries, run'.state \in Verdict,
         run'.state = "succeeded" =>
           \/ run.mode = "verify"
           \/ /\ run.mode = "claim" /\ Failed = {}
              /\ CycleReady
  PROVE  Call!GiveUp \/ Call!Verified \/ Call!Claimed
<1>1. Cardinality(Retries(run.retries))' = Cardinality(Retries(run.retries))
  BY DEF Retries
<1>2. CASE run'.state \in {"failed", "manual_required"}
  BY <1>1, <1>2, CallSettles DEF Call!GiveUp, Verdict
<1>3. CASE run'.state = "succeeded" /\ run.mode = "verify"
  BY <1>1, <1>3, CallSettles DEF Call!Verified, Verdict
<1>4. CASE run'.state = "succeeded" /\ run.mode = "claim"
  <2>1. \A t \in Title : task.results[t] \in SuccessfulGameStates \cup {None}
    BY <1>4 DEF Failed, FailedGameStates, RunIInv, RunTaskTypeOK, Task
  <2>2. \A t \in Title : run.results[t] \in SuccessfulGameStates
    BY <1>4 DEF CycleReady
  <2>. QED BY <1>1, <1>4, <2>1, <2>2, CallSettles DEF Call!Claimed, Verdict
<1>. QED BY <1>2, <1>3, <1>4 DEF Verdict

LEMMA CallEndsWith ==
  ASSUME RunIInv, ~ AtTask("idle"), NEW s \in Verdict, EndWith(s),
         s = "succeeded" => \/ run.mode = "verify"
                            \/ run.mode = "claim" /\ Failed = {} /\ CycleReady
  PROVE  Call!GiveUp \/ Call!Verified \/ Call!Claimed
<1>1. /\ run'.state = s /\ run'.mode = run.mode /\ run'.results = run.results
      /\ run'.retries = run.retries /\ Forget
  BY DEF RunIInv, RunTaskTypeOK, RunRow, EndWith, Return
<1>. QED BY <1>1, CallEnds

LEMMA CallRetriesFor ==
  ASSUME RunIInv, RunIInv', ~ AtTask("idle"), NEW kind \in RetryKind \ {"partial"},
         \E targets \in SUBSET Title : RetryFor(kind, targets)
  PROVE  Call!Retry
<1>1. PICK targets \in SUBSET Title : RetryFor(kind, targets)
  OBVIOUS
<1> DEFINE counted == [run.retries EXCEPT ![kind] = @ + 1]
           s == IF kind = "cookie_invalid" THEN "queued" ELSE "deferred"
<1>2. run' = [run EXCEPT !.state = s, !.retries = counted, !.targets = targets] /\ Forget
  BY <1>1 DEF RetryFor, Return
<1>3. run \in RunRow /\ run.retries \in [RetryKind -> 0 .. 2]
  BY DEF RunIInv, RunTaskTypeOK, RunRow
<1>4. s \in {"queued", "deferred"}
  OBVIOUS
<1>5. \A k \in RetryKind : counted[k] = IF k = kind THEN run.retries[k] + 1 ELSE run.retries[k]
  BY <1>3
<1>. HIDE DEF counted, s
<1>6. /\ run'.retries = counted /\ run'.state = s /\ run'.mode = run.mode
      /\ run'.results = run.results
  BY <1>2, <1>3 DEF RunRow
<1>. QED BY <1>2, <1>4, <1>5, <1>6, CallRetries

(* A claim run: a verify run has nothing claimed and nothing owned. *)
LEMMA ClaimsSomething ==
  ASSUME RunIInv, CallIInv, Successful # {} \/ task.owned
  PROVE  run.mode = "claim"
<1>1. task.results = NoResults => Successful = {}
  BY BrowserAssumption DEF Successful, NoResults, SuccessfulGameStates, GameStatus
<1>. QED BY <1>1 DEF CallIInv, VerifyOnlyLogsIn, RunIInv, RunTaskTypeOK, RunRow

LEMMA ReadyHasNoFailure ==
  ASSUME CallIInv, CycleReady
  PROVE  Failed = {}
  BY BrowserAssumption
  DEF CallIInv, DictIsRecorded, CycleReady, Failed, FailedGameStates, GameStatus,
      SuccessfulGameStates

LEMMA DecisionCall ==
  ASSUME RunIInv, RunIInv', CallIInv,
         \/ RetryForError \/ RetryFailedGames \/ RetryPartial \/ FailPartial
         \/ Complete \/ FailWithError \/ CompleteOwned \/ FinishPlain
  PROVE  Call!Retry \/ Call!GiveUp \/ Call!Verified \/ Call!Claimed
<1>1. ~ AtTask("idle")
  BY DEF RetryForError, RetryAtOnce, RetryFailedGames, RetryPartial, FailPartial, Complete,
         FailWithError, CompleteOwned, FinishPlain, NothingClaimed, Settles, AtTask
<1>2. {"succeeded", "failed", "manual_required"} \subseteq Verdict
  BY DEF Verdict
<1>3. CASE RetryForError
  <2>1. task.error \in RetryKind \ {"partial"} /\ run.targets \in SUBSET Title
    BY <1>3 DEF RunIInv, RunTaskTypeOK, RunRow, RetryForError, RetryAtOnce, RecoverableError,
                RetryKind
  <2>2. RetryFor(task.error, run.targets) \/ EndWith("manual_required") \/ EndWith("failed")
    BY <1>3 DEF RetryForError
  <2>. QED BY <1>1, <1>2, <2>1, <2>2, CallRetriesFor, CallEndsWith
<1>4. CASE RetryFailedGames
  <2>1. /\ "checkout_failed" \in RetryKind \ {"partial"} /\ Failed \in SUBSET Title
        /\ RetryFor("checkout_failed", Failed)
    BY <1>4 DEF RetryKind, Failed, RetryFailedGames
  <2>. QED BY <1>1, <2>1, CallRetriesFor
<1>5. CASE RetryPartial
  <2> DEFINE once == [run.retries EXCEPT !["partial"] = @ + 1]
             counted == [once EXCEPT !["checkout_failed"] = @ + 1]
  <2>1. /\ run \in RunRow /\ run.retries \in [RetryKind -> 0 .. 2] /\ Forget
        /\ run' = [run EXCEPT !.state = "deferred", !.targets = Failed, !.retries = counted]
        /\ "partial" \in RetryKind /\ "checkout_failed" \in RetryKind \ {"partial"}
    BY <1>5 DEF RunIInv, RunTaskTypeOK, RunRow, RetryPartial, Return, RetryKind
  <2>2. /\ counted["checkout_failed"] = run.retries["checkout_failed"] + 1
        /\ \A k \in RetryKind \ {"checkout_failed", "partial"} : counted[k] = run.retries[k]
    BY <2>1
  <2>. HIDE DEF counted
  <2>3. /\ run'.retries = counted /\ run'.state = "deferred" /\ run'.mode = run.mode
        /\ run'.results = run.results
    BY <2>1 DEF RunRow
  <2>. QED BY <1>1, <2>1, <2>2, <2>3, CallRetries
<1>6. CASE FailPartial \/ FailWithError
  BY <1>1, <1>2, <1>6, CallEndsWith DEF FailPartial, FailWithError
<1>7. CASE Complete
  <2>1. run.mode = "claim" /\ Failed = {}
    BY <1>7, ClaimsSomething DEF Complete
  <2>2. (EndWith("succeeded") /\ CycleReady) \/ EndWith("manual_required")
    BY <1>7 DEF Complete
  <2>. QED BY <1>1, <1>2, <2>1, <2>2, CallEndsWith
<1>8. CASE CompleteOwned
  <2>1. run.mode = "claim"
    BY <1>8, ClaimsSomething DEF CompleteOwned
  <2>2. (EndWith("succeeded") /\ CycleReady) \/ EndWith("manual_required")
    BY <1>8 DEF CompleteOwned
  <2>. QED BY <1>1, <1>2, <2>1, <2>2, ReadyHasNoFailure, CallEndsWith
<1>9. CASE FinishPlain
  <2>1. (EndWith("succeeded") /\ run.mode = "verify") \/ EndWith("failed")
    BY <1>9 DEF FinishPlain
  <2>. QED BY <1>1, <1>2, <2>1, CallEndsWith
<1>. QED BY <1>3, <1>4, <1>5, <1>6, <1>7, <1>8, <1>9

LEMMA TimeoutCall ==
  ASSUME RunIInv, RunIInv', HardTimeout
  PROVE  Call!Retry \/ Call!GiveUp \/ Call!Verified \/ Call!Claimed
<1> DEFINE counted == [run.retries EXCEPT !["task_deadline"] = @ + 1]
<1>1. /\ run \in RunRow /\ run.retries \in [RetryKind -> 0 .. 2] /\ Forget
      /\ ~ AtTask("idle") /\ "task_deadline" \in RetryKind \ {"partial"}
  BY DEF RunIInv, RunTaskTypeOK, RunRow, HardTimeout, AtTask, RetryKind
<1>2. CASE run' = [run EXCEPT !.state = "deferred", !.retries = counted]
  <2>1. \A k \in RetryKind : counted[k] = IF k = "task_deadline" THEN run.retries[k] + 1
                                                                 ELSE run.retries[k]
    BY <1>1
  <2>. HIDE DEF counted
  <2>2. /\ run'.retries = counted /\ run'.state = "deferred" /\ run'.mode = run.mode
        /\ run'.results = run.results
    BY <1>1, <1>2 DEF RunRow
  <2>. QED BY <1>1, <2>1, <2>2, CallRetries
<1>3. CASE run' = [run EXCEPT !.state = "failed"]
  <2>1. /\ run'.state = "failed" /\ run'.mode = run.mode /\ run'.results = run.results
        /\ run'.retries = run.retries
    BY <1>1, <1>3 DEF RunRow
  <2>. QED BY <1>1, <2>1, CallEnds DEF Verdict
<1>. QED BY <1>2, <1>3 DEF HardTimeout

LEMMA ReadGameResultCall ==
  ASSUME RunIInv, CallIInv, ReadGameResult
  PROVE  \E t \in Title, g \in GameStatus : Call!Record(t, g)
<1> DEFINE t == Head(pipe).title
           s == Head(pipe).what
<1>1. /\ Reads("result") /\ AtTask("read") /\ task \in Task /\ run \in RunRow
      /\ task' = [task EXCEPT !.results[t] = s] /\ run' = [run EXCEPT !.results[t] = s]
  BY DEF ReadGameResult, Reads, RunIInv, RunTaskTypeOK
<1>2. t \in Title /\ s \in GameStatus
  BY <1>1, ReadsInv DEF Truthful
<1>3. run.mode = "claim"
  BY CallResultInv
<1>. HIDE DEF t, s
<1>4. /\ task'.pc = "read" /\ task'.results = [task.results EXCEPT ![t] = s]
      /\ run'.state = run.state /\ run'.mode = run.mode /\ run'.retries = run.retries
      /\ run'.results = [run.results EXCEPT ![t] = s]
  BY <1>1 DEF Task, RunRow, AtTask
<1>5. Cardinality(Retries(run.retries))' = Cardinality(Retries(run.retries))
  BY <1>4 DEF Retries
<1>6. Call!Record(t, s)
  BY <1>1, <1>2, <1>3, <1>4, <1>5 DEF Call!Record, AtTask
<1>. QED BY <1>2, <1>6

LEMMA NextCall ==
  ASSUME RunIInv, RunIInv', CallIInv, RunTaskNext
  PROVE  [Call!AttemptsNext]_(Call!attemptVars)
<1>1. task \in Task /\ run \in RunRow
  BY DEF RunIInv, RunTaskTypeOK
<1>2. CASE (BrowserStep \/ \E t \in Title : EpicDelivers(t)) /\ UNCHANGED taskVars
  BY <1>2, CallStays DEF taskVars, AtTask
<1>3. CASE StartTask
  <2>1. /\ AtTask("idle") /\ ~ AtTask("idle")' /\ run.state \in {"queued", "deferred"}
        /\ task.results = NoResults /\ task'.results = NoResults
    BY <1>3 DEF StartTask, Waiting, AtTask, NoTask, RunIInv, RefusedFirst
  <2>2. /\ run'.state = "running" /\ run'.mode = run.mode /\ run'.results = run.results
        /\ run'.retries = run.retries
    BY <1>1, <1>3 DEF StartTask, RunRow
  <2>3. Cardinality(Retries(run.retries))' = Cardinality(Retries(run.retries))
    BY <2>2 DEF Retries
  <2>. QED BY <2>1, <2>2, <2>3 DEF Call!AttemptsNext, Call!Begin, Call!NoGames, NoResults
<1>4. CASE WarpUnavailable
  <2>1. /\ AtTask("idle") /\ AtTask("idle")' /\ UNCHANGED task /\ run'.state = "failed"
        /\ run'.mode = run.mode /\ run'.results = run.results /\ run'.retries = run.retries
    BY <1>1, <1>4 DEF WarpUnavailable, Waiting, AtTask, RunRow
  <2>2. Cardinality(Retries(run.retries))' = Cardinality(Retries(run.retries))
    BY <2>1 DEF Retries
  <2>. QED BY <2>1, <2>2 DEF Call!AttemptsNext, Call!SetBetween
<1>5. CASE ReadError \/ ReadGameError \/ ReadPhrase \/ EndOfOutput \/ ReportSuccess
  <2>1. UNCHANGED run /\ ~ AtTask("idle") /\ ~ AtTask("idle")' /\ task'.results = task.results
    BY <1>1, <1>5 DEF Task, ReadError, ReadGameError, ReadPhrase, Notes, Reads, EndOfOutput,
       ReportSuccess, AtTask
  <2>. QED BY <2>1, CallStays
<1>6. CASE ReadGameResult
  BY <1>6, ReadGameResultCall DEF Call!AttemptsNext
<1>7. CASE ReadCredentials
  <2>1. /\ ~ AtTask("idle") /\ Forget /\ run'.state = "failed"
        /\ run'.mode = run.mode /\ run'.results = run.results /\ run'.retries = run.retries
    BY <1>1, <1>7 DEF ReadCredentials, AtTask, RunRow
  <2>. QED BY <2>1, CallEnds DEF Verdict, Call!AttemptsNext
<1>8. CASE \/ RetryForError \/ RetryFailedGames \/ RetryPartial \/ FailPartial
           \/ Complete \/ FailWithError \/ CompleteOwned \/ FinishPlain
  BY <1>8, DecisionCall DEF Call!AttemptsNext
<1>9. CASE HardTimeout
  BY <1>9, TimeoutCall DEF Call!AttemptsNext
<1>. QED BY <1>2, <1>3, <1>4, <1>5, <1>6, <1>7, <1>8, <1>9 DEF RunTaskNext, TaskStep

LEMMA InitCall == RunTaskInit => Call!AttemptsInit
<1>1. SUFFICES ASSUME RunTaskInit PROVE Call!AttemptsInit
  OBVIOUS
<1>2. /\ AtTask("idle") /\ run.state = "queued" /\ run.mode \in {"claim", "verify"}
      /\ run.results = NoResults /\ task.results = NoResults
      /\ \A k \in RetryKind : run.retries[k] = 0
  BY <1>1 DEF RunTaskInit, NoTask, AtTask
<1>3. Cardinality(Retries(run.retries)) = 0
  <2>1. Retries(run.retries) = {}
    BY <1>2 DEF Retries
  <2>. QED BY <2>1, FS_EmptySet
<1>. QED BY <1>2, <1>3 DEF Call!AttemptsInit, Call!NoGames, NoResults

(* Whatever the browser tells, its result lines, its errors and its silence *)
(* lead a call of run_task to nothing that Attempts does not allow: the     *)
(* retries of all kinds count as one counter that has a limit, a verify run *)
(* records no game, and a claim run succeeds on the record of its whole     *)
(* cycle only.  Worker, which leaves the browser out, may take as much.     *)
THEOREM CallsKeepToTheirRun == RunTaskSpec => KeepsToAttempts
<1>1. RunIInv /\ RunIInv' /\ CallIInv /\ [RunTaskNext]_runVars
        => [Call!AttemptsNext]_(Call!attemptVars)
  BY NextCall, CallStays DEF runVars, taskVars, AtTask
<1>. QED BY <1>1, InitCall, CallInvariant, RunInvariant, PTL
        DEF RunTaskSpec, KeepsToAttempts, Call!AttemptsSpec

=============================================================================
