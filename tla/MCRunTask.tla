------------------------------ MODULE MCRunTask ------------------------------
(* Values for the constants of RunTask. *)
EXTENDS RunTask, TLC

CONSTANTS hades, control

NoError == {}

(* A refused account, a session that is gone, the rest. *)
SomeLoginError == {"invalid_credentials", "account_locked", "cookie_invalid", "unknown"}

UnknownOnly == {"unknown"}

BrokenOff == {"page_timeout", "unknown_error"}

SomeClaimError ==
  {"page_timeout", "driver_crash", "captcha_failed", "checkout_failed", "unknown_error"}

Symmetric == Permutations({hades, control})
=============================================================================
