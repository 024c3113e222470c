------------------------------- MODULE Sessions -------------------------------
(***************************************************************************)
(* A browser tab and the server that keeps its login: the access cookie    *)
(* (15 minutes), the refresh token that renews it and is replaced each     *)
(* time, and the silent refresh of web/src/api/v1/client.ts with the calls *)
(* that wait for it (handler/auth.go, middleware/auth.go, pkg/jwt,         *)
(* kvTokenStore of pkg/cache).                                             *)
(*                                                                         *)
(* The tab runs one event at a time; what it sends, what the server does   *)
(* and what comes back are steps of their own, and an answer may be lost   *)
(* or late.  Tokens are numbered as they are handed out.                   *)
(***************************************************************************)
EXTENDS Naturals, FiniteSets

CONSTANTS
  Calls,     \* API calls under way at once
  MaxLogins, \* bound on the logins
  MaxTokens  \* bound on the refresh tokens handed out

ASSUME SessionsAssumption ==
  /\ MaxLogins \in Nat
  /\ MaxTokens \in Nat

VARIABLES
  live,    \* the server's refresh tokens that are still good
  issued,  \* refresh tokens handed out so far
  loginOf, \* the login a token descends from
  logins,  \* logins so far
  cookie,  \* does the browser hold an access token the server accepts?
  user,    \* the login the tab shows, 0 when logged out
  token,   \* the refresh token in the tab's store, 0 for none
  refresh, \* tryRefresh: refreshPromise and the exchange behind it
  call,    \* what each API call is doing
  logout,  \* the logout under way: the token it carries and its login
  ended,   \* history: logins whose logout the server answered
  crossed  \* history: logins that began, or ended, during a refresh

sessionVars ==
  <<live, issued, loginOf, logins, cookie, user, token, refresh, call, logout, ended, crossed>>

LoginIds == 1..MaxLogins
TokenIds == 1..MaxTokens
None == 0

NoLogout == [pc |-> "none", token |-> None, login |-> None]
NoRefresh == [pc |-> "none", token |-> None]

(* refreshPromise is settled and was never reset: it answers false for     *)
(* ever, because "finally" is not reached without a token.                 *)
Stale == [pc |-> "stale", token |-> None]

SessionsInit ==
  /\ live = {}
  /\ issued = 0
  /\ loginOf = [t \in TokenIds |-> None]
  /\ logins = 0
  /\ cookie = FALSE
  /\ user = None
  /\ token = None
  /\ refresh = NoRefresh
  /\ call = [c \in Calls |-> "none"]
  /\ logout = NoLogout
  /\ ended = {}
  /\ crossed = {}

-----------------------------------------------------------------------------
(* The server *)

(* store.NewRefreshToken: never seen before. *)
HandOut(login) ==
  /\ issued < MaxTokens
  /\ issued' = issued + 1
  /\ loginOf' = [loginOf EXCEPT ![issued + 1] = login]

(* Mutant: the old token stays good. *)
RotateKeeping(old, ok) ==
  IF old \in live
  THEN ok /\ HandOut(loginOf[old]) /\ live' = live \cup {issued + 1}
  ELSE ~ok /\ UNCHANGED <<issued, loginOf, live>>

(* kvTokenStore.Rotate, one script or one critical section. *)
Rotate(old, ok) ==
  IF old \in live
  THEN ok /\ HandOut(loginOf[old]) /\ live' = (live \ {old}) \cup {issued + 1}
  ELSE ~ok /\ UNCHANGED <<issued, loginOf, live>>

(* The 15 minutes of an access token are over, or a restart without        *)
(* JWT_SECRET made all of them invalid.                                    *)
AccessExpires ==
  /\ cookie
  /\ cookie' = FALSE
  /\ UNCHANGED <<live, issued, loginOf, logins, user, token, refresh, call, logout, ended, crossed>>

(* The 7 days of a refresh token are over. *)
TokenExpires ==
  /\ \E t \in live : live' = live \ {t}
  /\ UNCHANGED <<issued, loginOf, logins, cookie, user, token, refresh, call, logout, ended, crossed>>

(* A restart without Redis: the tokens were in memory. *)
TokensLost ==
  /\ live # {}
  /\ live' = {}
  /\ UNCHANGED <<issued, loginOf, logins, cookie, user, token, refresh, call, logout, ended, crossed>>

-----------------------------------------------------------------------------
(* Login and logout *)

Refreshing == refresh.pc \in {"asked", "renewed", "denied"}

(* Login or Register, and setAuth in the tab.  The tab shows its login     *)
(* page only while it is logged out.                                       *)
Login ==
  /\ user = None
  /\ logins < MaxLogins
  /\ HandOut(logins + 1)
  /\ live' = live \cup {issued'}
  /\ logins' = logins + 1
  /\ user' = logins'
  /\ token' = issued'
  /\ cookie' = TRUE
  /\ crossed' = IF Refreshing \/ logout # NoLogout
                THEN crossed \cup {user'} ELSE crossed
  /\ UNCHANGED <<refresh, call, logout, ended>>

LogoutSends ==
  /\ user # None
  /\ logout = NoLogout
  /\ logout' = [pc |-> "sent", token |-> token, login |-> user]
  /\ crossed' = IF Refreshing THEN crossed \cup {user} ELSE crossed
  /\ UNCHANGED <<live, issued, loginOf, logins, cookie, user, token, refresh, call, ended>>

clearAuth == user' = None /\ token' = None

(* Mutant: the cookie is cleared, the token stays good. *)
KeepsToken(t) == live' = live

Revokes(t) == live' = live \ {t}

(* Logout: the server revokes the token it was given and clears the        *)
(* cookie.                                                                 *)
ServerLogsOut ==
  /\ logout.pc = "sent"
  /\ Revokes(logout.token)
  /\ cookie' = FALSE
  /\ ended' = ended \cup {logout.login}
  /\ logout' = [logout EXCEPT !.pc = "answered"]
  /\ UNCHANGED <<issued, loginOf, logins, user, token, refresh, call, crossed>>

(* The tab forgets its login whether or not an answer came. *)
LogoutEnds ==
  /\ logout # NoLogout
  /\ clearAuth
  /\ logout' = NoLogout
  /\ UNCHANGED <<live, issued, loginOf, logins, cookie, refresh, call, ended, crossed>>

-----------------------------------------------------------------------------
(* API calls *)

Sends(c) ==
  /\ user # None
  /\ call[c] = "none"
  /\ call' = [call EXCEPT ![c] = "sent"]
  /\ UNCHANGED <<live, issued, loginOf, logins, cookie, user, token, refresh, logout, ended, crossed>>

(* RequiresAuth: the call is handled, or answered with 1002. *)
ServerAnswers(c) ==
  /\ call[c] \in {"sent", "replayed"}
  /\ call' = [call EXCEPT ![c] =
       CASE cookie -> "handled"
         [] ~cookie /\ call[c] = "sent" -> "refused"
         [] ~cookie /\ call[c] = "replayed" -> "refused_again"]
  /\ UNCHANGED <<live, issued, loginOf, logins, cookie, user, token, refresh, logout, ended, crossed>>

(* The result, or any failure but 1002, reaches the caller. *)
Returns(c) ==
  /\ call[c] \in {"sent", "replayed", "handled"}
  /\ call' = [call EXCEPT ![c] = "none"]
  /\ UNCHANGED <<live, issued, loginOf, logins, cookie, user, token, refresh, logout, ended, crossed>>

(* The first 1002: wait for the refresh that is under way, ask for one, or *)
(* give up and log the tab out.                                            *)
TriesRefresh(c) ==
  /\ call[c] = "refused"
  /\ \/ /\ Refreshing
        /\ call' = [call EXCEPT ![c] = "waiting"]
        /\ UNCHANGED <<user, token, refresh, crossed>>
     \/ /\ refresh = NoRefresh /\ token # None
        /\ refresh' = [pc |-> "asked", token |-> token]
        /\ call' = [call EXCEPT ![c] = "waiting"]
        /\ crossed' = IF logout = NoLogout THEN crossed
                      ELSE crossed \cup ({logout.login, user} \ {None})
        /\ UNCHANGED <<user, token>>
     \/ /\ refresh = Stale \/ (refresh = NoRefresh /\ token = None)
        /\ refresh' = Stale
        /\ call' = [call EXCEPT ![c] = "none"]
        /\ clearAuth
        /\ UNCHANGED crossed
  /\ UNCHANGED <<live, issued, loginOf, logins, cookie, logout, ended>>

(* The replayed call is refused as well: forced logout. *)
RefusedAgain(c) ==
  /\ call[c] = "refused_again"
  /\ call' = [call EXCEPT ![c] = "none"]
  /\ clearAuth
  /\ UNCHANGED <<live, issued, loginOf, logins, cookie, refresh, logout, ended, crossed>>

(* AuthHandler.Refresh; the limiter in front of it may refuse. *)
ServerRefreshes ==
  /\ refresh.pc = "asked"
  /\ \/ /\ Rotate(refresh.token, TRUE)
        /\ refresh' = [pc |-> "renewed", token |-> issued']
     \/ /\ Rotate(refresh.token, FALSE)
        /\ refresh' = [refresh EXCEPT !.pc = "denied"]
     \/ /\ refresh' = [refresh EXCEPT !.pc = "denied"]
        /\ UNCHANGED <<live, issued, loginOf>>
  /\ UNCHANGED <<logins, cookie, user, token, call, logout, ended, crossed>>

(* Mutant: only one of the calls is told. *)
FirstWaiting == IF \E c \in Calls : call[c] = "waiting"
                THEN {CHOOSE c \in Calls : call[c] = "waiting"} ELSE {}

Waiting == {c \in Calls : call[c] = "waiting"}

(* Mutant: the token that was replaced stays in the store. *)
StoresNoToken == token' = token

(* setRefreshToken *)
StoresToken == token' = refresh.token

(* The tab has the new token and replays the calls that waited for it. *)
RefreshSucceeds ==
  /\ refresh.pc = "renewed"
  /\ StoresToken
  /\ cookie' = TRUE
  /\ refresh' = NoRefresh
  /\ call' = [c \in Calls |-> IF c \in Waiting THEN "replayed" ELSE call[c]]
  /\ UNCHANGED <<live, issued, loginOf, logins, user, logout, ended, crossed>>

(* It was denied, or no answer came in 10 seconds: every call that waited  *)
(* fails and the tab is logged out.                                        *)
RefreshFails ==
  /\ Refreshing
  /\ refresh' = NoRefresh
  /\ cookie' \in IF refresh.pc = "denied" THEN {cookie, FALSE} ELSE {cookie}
  /\ call' = [c \in Calls |-> IF c \in Waiting THEN "none" ELSE call[c]]
  /\ clearAuth
  /\ UNCHANGED <<live, issued, loginOf, logins, logout, ended, crossed>>

SessionsNext ==
  \/ AccessExpires
  \/ TokenExpires
  \/ TokensLost
  \/ Login
  \/ LogoutSends
  \/ ServerLogsOut
  \/ LogoutEnds
  \/ \E c \in Calls :
       \/ Sends(c)
       \/ ServerAnswers(c)
       \/ Returns(c)
       \/ TriesRefresh(c)
       \/ RefusedAgain(c)
  \/ ServerRefreshes
  \/ RefreshSucceeds
  \/ RefreshFails

(* The network answers or times out, and the tab handles what it got. *)
SessionsFairness ==
  /\ WF_sessionVars(RefreshFails)
  /\ \A c \in Calls :
       /\ WF_sessionVars(Returns(c))
       /\ WF_sessionVars(TriesRefresh(c))
       /\ WF_sessionVars(RefusedAgain(c))

SessionsSpec == SessionsInit /\ [][SessionsNext]_sessionVars /\ SessionsFairness

-----------------------------------------------------------------------------
SessionsTypeOK ==
  /\ live \subseteq 1..issued
  /\ issued \in 0..MaxTokens
  /\ loginOf \in [TokenIds -> 0..MaxLogins]
  /\ logins \in 0..MaxLogins
  /\ cookie \in BOOLEAN
  /\ user \in 0..logins
  /\ token \in 0..issued
  /\ refresh \in [pc : {"none", "stale", "asked", "renewed", "denied"}, token : 0..issued]
  /\ call \in [Calls -> {"none", "sent", "handled", "refused", "waiting",
                         "replayed", "refused_again"}]
  /\ logout \in [pc : {"none", "sent", "answered"}, token : 0..issued, login : 0..logins]
  /\ ended \subseteq 1..logins
  /\ crossed \subseteq 1..logins

LiveOf(login) == {t \in live : loginOf[t] = login}

(* cache.go:23, handler/auth.go:162: however refreshes, logouts, restarts  *)
(* and lost answers fall, a login lives by one refresh token at a time and *)
(* what was replaced or revoked never comes back.                          *)
Chain == INSTANCE TokenChain WITH
  Sessions <- LoginIds,
  Tokens <- TokenIds,
  NoToken <- None,
  current <- [l \in LoginIds |-> IF LiveOf(l) = {} THEN None
                                 ELSE CHOOSE t \in LiveOf(l) : TRUE],
  issued <- 1..issued

LoginsFollowChain == Chain!ChainSpec

(* client.ts:96: the tab keeps the newest token of the login it shows,     *)
(* also when several calls find out at once that it must be renewed, so    *)
(* that it is not logged out for asking with a token that was replaced.    *)
TabHoldsNewest ==
  user # None /\ user \notin crossed /\ refresh.pc # "renewed" =>
    /\ token \in 1..issued
    /\ loginOf[token] = user
    /\ \A t \in 1..issued : loginOf[t] = user => t <= token

(* handler/auth.go:205 and useAuth.ts:40 (S1): a login that was ended has  *)
(* no refresh token left, unless a refresh was under way while it ended.   *)
LogoutRevokes == \A l \in ended \ crossed : LiveOf(l) = {}

(* The tab and the server agree on a login, while it lasts and once it is  *)
(* over.                                                                   *)
TabAndServerAgree == TabHoldsNewest /\ LogoutRevokes

(* client.ts:215: an expired access token is renewed and the call          *)
(* replayed: a tab that has a refresh token asks the server with it.       *)
ExpiryIsRenewed ==
  [][\A c \in Calls : call[c] = "refused" /\ call'[c] = "none" => token = None]_sessionVars

(* client.ts:93: of the calls that wait for one refresh, none is left      *)
(* waiting, whether it succeeds, is refused or never answered.             *)
EveryCallReturns == \A c \in Calls : call[c] # "none" ~> call[c] = "none"
===============================================================================
