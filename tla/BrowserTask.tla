---------------------------- MODULE BrowserTask ----------------------------
(***************************************************************************)
(* The browser process of one attempt of a run (app/deploy.py with         *)
(* services/epic_authorization_service.py and epic_games_service.py), the  *)
(* Epic account it works on, and the pipe its console output goes through. *)
(*                                                                         *)
(* All that the worker ever learns of an attempt is the lines in the pipe. *)
(* Lines that worker.py does not react to are left out, and so are pages,  *)
(* selectors and waiting times: which way a login or a checkout goes is    *)
(* a choice.                                                               *)
(***************************************************************************)
EXTENDS Integers, Sequences, FiniteSets, Functions

CONSTANTS
  Title,        \* the games of the promotion cycle
  LoginError,   \* bound: the ErrorTypes that failed logins end with
  ClaimError,   \* bound: the GameCollectResults that break a claim off
  PipeSize,     \* bound: lines the worker may be behind when the browser writes
  None

VARIABLES
  epic,         \* what Epic knows of each game: in the cart, ordered, owned
  presumed,     \* history: told as claimed for a success page that was not theirs
  browser,      \* the process: its place, its environment, the games it works on
  pipe          \* lines written and not read

epicVars == <<epic, presumed>>

browserVars == <<epicVars, browser, pipe>>

ErrorType ==
  {"invalid_credentials", "account_locked", "eula_failed", "captcha_failed",
   "provider_timeout", "captcha_unsolved", "captcha_manual_required",
   "captcha_invalid", "login_page_timeout", "login_timeout", "network_timeout",
   "cookie_invalid", "two_factor_required", "unknown"}

GameCollectError ==
  {"eula_failed", "cookie_invalid", "captcha_failed", "provider_timeout",
   "captcha_unsolved", "checkout_failed", "unknown_error", "driver_crash",
   "page_timeout"}

GameStatus == {"claimed", "owned", "failed", "deferred", "unconfirmed"}

SuccessfulGameStates == {"claimed", "owned"}

FailedGameStates == GameStatus \ SuccessfulGameStates

ASSUME BrowserAssumption ==
  /\ IsFiniteSet(Title)
  /\ LoginError \subseteq ErrorType
  /\ ClaimError \subseteq GameCollectError
  /\ PipeSize \in Nat \ {0}
  /\ None \notin Title
  /\ None \notin ErrorType \cup GameCollectError \cup GameStatus \cup {"cart"}

(* The phrases and markers that run_task looks for. *)
LineKind == {"error", "final", "game", "result", "timeout", "slow", "driver",
             "login", "owned", "done", "credentials"}

Line == [kind : LineKind,
         what : ErrorType \cup GameCollectError \cup GameStatus \cup {None},
         title : Title \cup {None}]

Says(kind, what) == [kind |-> kind, what |-> what, title |-> None]

Phrase(kind) == Says(kind, None)

Result(t, s) == [kind |-> "result", what |-> s, title |-> t]

Results(S, s) == {Result(t, s) : t \in S}

BrowserPc == {"off", "login", "claim", "games", "checkout", "cart", "bought", "exit"}

Browser == [pc : BrowserPc, verify : BOOLEAN, targets : SUBSET Title,
            todo : SUBSET Title, game : Title \cup {None},
            outcomes : [Title -> GameStatus \cup {"cart", None}],
            pass : 1 .. 2, code : 0 .. 1, slow : BOOLEAN]

NoOutcomes == [t \in Title |-> None]

BrowserOff == [pc |-> "off", verify |-> FALSE, targets |-> {}, todo |-> {},
               game |-> None, outcomes |-> NoOutcomes, pass |-> 1, code |-> 0,
               slow |-> FALSE]

BrowserTypeOK ==
  /\ epic \in [Title -> {"none", "cart", "ordered", "owned"}]
  /\ presumed \subseteq Title
  /\ browser \in Browser
  /\ pipe \in Seq(Line)

BrowserInit ==
  /\ epic \in [Title -> {"none", "owned"}]
  /\ presumed = {}
  /\ browser = BrowserOff
  /\ pipe = << >>

Owned == {t \in Title : epic[t] = "owned"}

InBrowser(pc) == browser.pc = pc

(* A step of the browser that writes lines. *)
Say(lines) == Len(pipe) < PipeSize /\ pipe' = pipe \o lines

(* All the ways to write one line for each member of a finite set. *)
EachOf(S) == {s \in [1 .. Cardinality(S) -> S] : IsInjective(s)}

Goto(pc) == browser' = [browser EXCEPT !.pc = pc]

(* The process ends; what it had in memory is gone. *)
End(code) == browser' = [BrowserOff EXCEPT !.pc = "exit", !.code = code]

Exit(lines) == Say(lines) /\ End(0)

(* What the except clause of execute_browser_tasks, and main, tell. *)
Failures ==
  {<<Phrase("driver"), Says("final", "network_timeout")>> : e \in LoginError \cap {"network_timeout"}}
  \cup {<<Says("final", "unknown")>> : e \in LoginError \cap {"unknown"}}

(* The process ends with these last lines, unless closing the context fails. *)
EndWithLines(lines, last) == \E end \in {last} \cup Failures : Exit(lines \o end)

Leave(lines) == EndWithLines(lines, << >>)

(* Popen: what the task hands over in the environment. *)
Start(verify, targets) ==
  browser' = [BrowserOff EXCEPT !.pc = "login", !.verify = verify, !.targets = targets]

Killed == pipe' = << >> /\ browser' = BrowserOff

----------------------------------------------------------------------------
(* EpicAuthorization.invoke and _login; execute_browser_tasks *)

LoggedIn ==
  /\ InBrowser("login")
  /\ \/ browser.verify /\ Leave(<<Phrase("login")>>)
     \/ ~ browser.verify /\ Say(<<Phrase("login")>>) /\ Goto("claim")
  /\ UNCHANGED epicVars

(* The account page does not load in time but is there, or another step     *)
(* takes 30 seconds: the log tells of it, once, and the login goes on.       *)
LoginDelayed ==
  /\ InBrowser("login")
  /\ ~ browser.slow
  /\ \E kind \in {"timeout", "slow"} : Say(<<Phrase(kind)>>)
  /\ browser' = [browser EXCEPT !.slow = TRUE]
  /\ UNCHANGED epicVars

(* The login page itself does not load: the exception is caught in _login  *)
(* and told as an unknown error.                                            *)
LoginPageTimesOut ==
  /\ InBrowser("login")
  /\ "unknown" \in LoginError
  /\ EndWithLines(<<Phrase("timeout"), Says("error", "unknown")>>, <<Says("final", "unknown")>>)
  /\ UNCHANGED epicVars

(* Every other failed login; a refused password shows in the log before. *)
LoginFails(e) ==
  /\ InBrowser("login")
  /\ EndWithLines((IF e = "invalid_credentials" THEN <<Phrase("credentials")>> ELSE << >>)
                     \o <<Says("error", e)>>, <<Says("final", e)>>)
  /\ UNCHANGED epicVars

(* The except clause of execute_browser_tasks. *)
BrowserFails ==
  /\ browser.pc \in {"login", "claim"}
  /\ \E lines \in Failures : Exit(lines)
  /\ UNCHANGED epicVars

(* The process dies without a word. *)
BrowserDies ==
  /\ browser.pc \notin {"off", "exit"}
  /\ End(1)
  /\ UNCHANGED <<epicVars, pipe>>

----------------------------------------------------------------------------
(* EpicAgent.collect_epic_games *)

(* _should_ignore_task: no claim page, an agreement, a lost session. *)
ClaimPageFails(e) ==
  /\ InBrowser("claim")
  /\ e \in {"eula_failed", "cookie_invalid", "page_timeout"}
  /\ Leave(<<Says("game", e)>>)
  /\ UNCHANGED epicVars

(* _check_orders: the promotions offered, as far as the response has them, *)
(* without those that the order history shows, if it can be read at all; a *)
(* retry looks at its target games only, and tells of those that it need   *)
(* not claim.                                                               *)
CheckOrders ==
  /\ InBrowser("claim")
  /\ \E offered \in SUBSET Title, orders \in SUBSET Owned :
       LET wanted == IF browser.targets = {} THEN Title ELSE browser.targets
           todo   == (offered \cap wanted) \ orders
           told   == IF browser.targets = {} THEN {}
                     ELSE Results(wanted \cap offered \cap orders, "owned")
                          \cup Results(wanted \ offered, "unconfirmed")
       IN \E lines \in EachOf(told) :
            \/ /\ todo = {}
               /\ Leave(lines \o <<Phrase("owned")>>)
            \/ /\ todo # {}
               /\ Say(lines)
               /\ browser' = [browser EXCEPT !.pc = "games", !.todo = todo]
  /\ UNCHANGED epicVars

----------------------------------------------------------------------------
(* EpicGames.add_promotion_to_cart, one promotion after the other *)

Settle(t, s) ==
  browser' = [browser EXCEPT !.pc = "games", !.todo = @ \ {t}, !.game = None,
                             !.outcomes[t] = s]

(* Out of time, no page, no button, not to be had. *)
SkipGame(t, s) ==
  /\ InBrowser("games")
  /\ t \in browser.todo
  /\ s \in {"deferred", "failed"}
  /\ Say(<<Result(t, s)>>)
  /\ Settle(t, s)
  /\ UNCHANGED epicVars

(* The product page says that the game is in the library. *)
FindOwned(t) ==
  /\ InBrowser("games")
  /\ t \in browser.todo
  /\ epic[t] = "owned"
  /\ Say(<<Phrase("owned"), Result(t, "owned")>>)
  /\ Settle(t, "owned")
  /\ UNCHANGED epicVars

(* The button is clicked; whether the game is in the cart is not looked at. *)
AddToCart(t) ==
  /\ InBrowser("games")
  /\ t \in browser.todo
  /\ epic[t] # "owned"
  /\ epic' \in {epic, [epic EXCEPT ![t] = IF @ = "none" THEN "cart" ELSE @]}
  /\ Settle(t, "cart")
  /\ UNCHANGED <<presumed, pipe>>

(* The click fails in every way there is. *)
CartButtonFails ==
  /\ InBrowser("games")
  /\ browser.todo # {}
  /\ "checkout_failed" \in ClaimError
  /\ Leave(<<Says("game", "checkout_failed")>>)
  /\ UNCHANGED epicVars

(* The clicks of a checkout; Epic takes the order, or the click is lost. *)
PlaceOrder(t) ==
  /\ InBrowser("games")
  /\ t \in browser.todo
  /\ epic[t] # "owned"
  /\ epic' \in {epic, [epic EXCEPT ![t] = "ordered"]}
  /\ browser' = [browser EXCEPT !.pc = "checkout", !.game = t]
  /\ UNCHANGED <<presumed, pipe>>

(* Epic completes an order in its own time. *)
EpicDelivers(t) ==
  /\ epic[t] = "ordered"
  /\ epic' = [epic EXCEPT ![t] = "owned"]
  /\ UNCHANGED <<presumed, browser, pipe>>

(* Mutated form: the clicks went through, so the game counts as claimed. *)
ConfirmCheckoutBlindly ==
  /\ InBrowser("checkout")
  /\ Say(<<Phrase("done"), Result(browser.game, "claimed")>>)
  /\ Settle(browser.game, "claimed")
  /\ UNCHANGED epicVars

(* _confirm_checkout_success: the success page, the order history or the    *)
(* product page shows the game.                                             *)
ConfirmCheckout ==
  /\ InBrowser("checkout")
  /\ epic[browser.game] = "owned"
  /\ Say(<<Phrase("done"), Result(browser.game, "claimed")>>)
  /\ Settle(browser.game, "claimed")
  /\ UNCHANGED epicVars

(* None of them does, in time; or the captcha provider gave up. *)
GiveUpCheckout(s) ==
  /\ InBrowser("checkout")
  /\ s \in {"unconfirmed", "deferred"}
  /\ Say(<<Result(browser.game, s)>>)
  /\ Settle(browser.game, s)
  /\ UNCHANGED epicVars

(* A product page, or the cart, does not load in time. *)
NavigationFails ==
  /\ browser.pc \in {"games", "checkout", "cart", "bought"}
  /\ "page_timeout" \in ClaimError
  /\ Leave(<<Phrase("timeout"), Says("game", "page_timeout")>>)
  /\ UNCHANGED epicVars

DriverCrashes ==
  /\ browser.pc \in {"games", "checkout", "cart", "bought"}
  /\ "driver_crash" \in ClaimError
  /\ Leave(<<Phrase("driver"), Says("game", "driver_crash")>>)
  /\ UNCHANGED epicVars

(* An element of a product page does not appear, or the cart cannot be     *)
(* loaded again: collect_weekly_games starts over, once. Any other          *)
(* exception breaks the claim off.                                          *)
ElementTimesOut ==
  /\ \/ InBrowser("games") /\ browser.todo # {}
     \/ browser.pc \in {"cart", "bought"}
  /\ "unknown_error" \in ClaimError
  /\ \/ /\ browser.pass = 1
        /\ browser' = [browser EXCEPT !.pc = "games", !.pass = 2, !.outcomes = NoOutcomes,
             !.todo = @ \cup {t \in Title : browser.outcomes[t] # None}]
        /\ UNCHANGED pipe
     \/ Leave(<<Says("game", "unknown_error")>>)
  /\ UNCHANGED epicVars

----------------------------------------------------------------------------
(* EpicGames._purchase_free_game, and the end of collect_weekly_games *)

(* The games whose button was clicked, and those that the cart has. *)
InCart == {t \in Title : browser.outcomes[t] = "cart"}

EpicCart == {t \in Title : epic[t] = "cart"}

(* What _empty_cart takes for paid leaves the cart; Check Out, and the       *)
(* payment button: Epic takes the order of the rest or does not.            *)
CheckOutCart ==
  /\ InBrowser("games")
  /\ browser.todo = {}
  /\ InCart # {}
  /\ \E kept \in SUBSET EpicCart, ordered \in BOOLEAN :
       /\ ordered => kept # {}
       /\ epic' = [t \in Title |->
            IF t \notin EpicCart THEN epic[t]
            ELSE IF t \notin kept THEN "none"
            ELSE IF ordered THEN "ordered" ELSE "cart"]
       /\ Goto(IF ordered THEN "bought" ELSE "cart")
  /\ UNCHANGED <<presumed, pipe>>

(* A result for every game whose button was clicked. *)
SettleCart(s) ==
  /\ \E lines \in EachOf(Results(InCart, s)) : Say(lines)
  /\ browser' = [browser EXCEPT !.pc = "games",
       !.outcomes = [t \in Title |-> IF t \in InCart THEN s ELSE browser.outcomes[t]]]

(* The cart's success page: what Epic has an order of is the account's; all *)
(* the games are told as claimed, also one that was not in the cart.        *)
BuyCart ==
  /\ InBrowser("bought")
  /\ LET bought == {t \in InCart : epic[t] \in {"ordered", "owned"}}
     IN /\ epic' = [t \in Title |-> IF t \in bought THEN "owned" ELSE epic[t]]
        /\ presumed' = presumed \cup (InCart \ bought)
  /\ SettleCart("claimed")

(* The success page does not come in time. *)
CartFails ==
  /\ browser.pc \in {"cart", "bought"}
  /\ SettleCart("failed")
  /\ UNCHANGED epicVars

CartMeetsCaptcha(e) ==
  /\ browser.pc \in {"cart", "bought"}
  /\ e \in {"captcha_failed", "provider_timeout", "captcha_unsolved"}
  /\ Leave(<<Says("game", e)>>)
  /\ UNCHANGED epicVars

FinishGames ==
  /\ InBrowser("games")
  /\ browser.todo = {}
  /\ InCart = {}
  /\ IF \E t \in Title : browser.outcomes[t] \in FailedGameStates
       THEN Leave(<<Says("game", "checkout_failed")>>)
       ELSE Leave(<<Phrase("done")>>)
  /\ UNCHANGED epicVars

----------------------------------------------------------------------------
(* What the browser does on its own. *)
BrowserStep ==
  \/ LoggedIn \/ LoginDelayed \/ LoginPageTimesOut
  \/ \E e \in LoginError : LoginFails(e)
  \/ BrowserFails \/ BrowserDies
  \/ \E e \in ClaimError : ClaimPageFails(e) \/ CartMeetsCaptcha(e)
  \/ CheckOrders
  \/ \E t \in Title : \/ \E s \in GameStatus : SkipGame(t, s)
                      \/ FindOwned(t) \/ AddToCart(t) \/ PlaceOrder(t)
  \/ ConfirmCheckout
  \/ \E s \in GameStatus : GiveUpCheckout(s)
  \/ NavigationFails \/ DriverCrashes \/ ElementTimesOut
  \/ CartButtonFails \/ CheckOutCart \/ BuyCart \/ CartFails \/ FinishGames

=============================================================================
