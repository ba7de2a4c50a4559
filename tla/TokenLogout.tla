----------------------------- MODULE TokenLogout -----------------------------
(***************************************************************************)
(* RefreshToken, remembering what a logout is to end: the tokens the       *)
(* user's clients hold while the store waits for its next attempt.         *)
(***************************************************************************)
EXTENDS RefreshToken

VARIABLE loggedOut   \* history: the tokens given out whose store waited at a logout

LogoutInit == TokenInit /\ loggedOut = {}

(* AuthService.Logout is RevokeAll. *)
Logout ==
  /\ RevokeAll
  /\ loggedOut' = loggedOut \union {t \in known : store[t].pc = "wait"}

LogoutNext == Logout \/ (TokenNext /\ UNCHANGED loggedOut)

LogoutSpec == LogoutInit /\ [][LogoutNext]_<<TokenVars, loggedOut>>

-----------------------------------------------------------------------------
(* token_svc_pending.go:77-78: a token whose user logged out while its     *)
(* store waited is never written; its session would come back to life.     *)
LoggedOutNotRevived == \A t \in loggedOut : t \notin Active
=============================================================================
