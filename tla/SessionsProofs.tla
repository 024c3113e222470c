---------------------------- MODULE SessionsProofs ----------------------------
(***************************************************************************)
(* Proofs about Sessions for any numbers of calls, logins and tokens: the  *)
(* logins implement TokenChain, and a tab at rest and the server agree.    *)
(***************************************************************************)
EXTENDS Sessions, FiniteSetTheorems, TLAPS


(* A good token was handed out, and is the only one of its login. *)
OneTokenEach ==
  /\ issued \in 0..MaxTokens
  /\ logins \in 0..MaxLogins
  /\ live \subseteq 1..issued
  /\ loginOf \in [TokenIds -> 0..MaxLogins]
  /\ \A t \in live : loginOf[t] \in 1..logins
  /\ \A s, t \in live : loginOf[s] = loginOf[t] => s = t

(* The token a login lives by. *)
TokenOf(l) == IF LiveOf(l) = {} THEN None ELSE CHOOSE t \in LiveOf(l) : TRUE
UsableNow == [l \in LoginIds |-> TokenOf(l)]

LEMMA ChainBegins == SessionsInit => OneTokenEach
BY SessionsAssumption DEF SessionsInit, OneTokenEach, TokenIds, None

(* What a step does to the tokens: it gives a new login its first one,     *)
(* replaces one, or takes some away.                                       *)
TakesAway == live' \subseteq live /\ UNCHANGED <<issued, loginOf, logins>>

LEMMA StepKinds ==
  ASSUME OneTokenEach, [SessionsNext]_sessionVars
  PROVE  TakesAway \/ Login \/ \E old \in live : Rotate(old, TRUE) /\ UNCHANGED logins
<1>1. CASE ServerLogsOut
  BY <1>1 DEF ServerLogsOut, Revokes, TakesAway
<1>2. CASE ServerRefreshes
  BY <1>2 DEF ServerRefreshes, Rotate, TakesAway
<1>3. CASE TokenExpires \/ TokensLost
  BY <1>3 DEF TokenExpires, TokensLost, TakesAway
<1>4. CASE UNCHANGED <<live, issued, loginOf, logins>>
  BY <1>4 DEF TakesAway
<1>5. \/ UNCHANGED <<live, issued, loginOf, logins>>
      \/ ServerLogsOut \/ ServerRefreshes \/ TokenExpires \/ TokensLost \/ Login
  BY DEF SessionsNext, sessionVars, AccessExpires, LogoutSends, LogoutEnds, Sends,
         ServerAnswers, Returns, TriesRefresh, RefusedAgain, RefreshSucceeds, RefreshFails
<1> QED BY <1>1, <1>2, <1>3, <1>4, <1>5

LEMMA ChainKept == OneTokenEach /\ [SessionsNext]_sessionVars => OneTokenEach'
<1> SUFFICES ASSUME OneTokenEach, [SessionsNext]_sessionVars PROVE OneTokenEach'
  OBVIOUS
<1> USE SessionsAssumption DEF OneTokenEach, TokenIds
<1>1. CASE TakesAway
  BY <1>1 DEF TakesAway
<1>2. CASE Login
  <2>1. issued + 1 \in TokenIds /\ issued + 1 \notin live /\ logins + 1 \in 1..MaxLogins
    BY <1>2 DEF Login, HandOut
  <2> QED BY <1>2, <2>1 DEF Login, HandOut
<1>3. CASE \E old \in live : Rotate(old, TRUE) /\ UNCHANGED logins
  <2>1. PICK old \in live : Rotate(old, TRUE) /\ UNCHANGED logins
    BY <1>3
  <2>2. /\ issued + 1 \in TokenIds /\ issued + 1 \notin live
        /\ issued' = issued + 1 /\ live' = (live \ {old}) \cup {issued + 1}
        /\ loginOf' = [loginOf EXCEPT ![issued + 1] = loginOf[old]]
    BY <2>1 DEF Rotate, HandOut
  <2>3. /\ loginOf'[issued + 1] = loginOf[old]
        /\ \A t \in live : loginOf'[t] = loginOf[t] /\ t # issued + 1
    BY <2>2
  <2>4. \A s, t \in live' : loginOf'[s] = loginOf'[t] => s = t
    BY <2>2, <2>3
  <2>5. loginOf[old] \in 0..MaxLogins
    OBVIOUS
  <2>6. loginOf' \in [TokenIds -> 0..MaxLogins]
    BY <2>2, <2>5
  <2>7. \A t \in live' : loginOf'[t] \in 1..logins'
    BY <2>1, <2>2, <2>3
  <2>8. issued' \in 0..MaxTokens /\ live' \subseteq 1..issued' /\ logins' \in 0..MaxLogins
    BY <2>1, <2>2
  <2> QED BY <2>4, <2>6, <2>7, <2>8
<1> QED BY <1>1, <1>2, <1>3, StepKinds

(* A login with a good token lives by it, one without by none. *)
LEMMA TokenIsLive ==
  ASSUME OneTokenEach, NEW l \in LoginIds
  PROVE  /\ LiveOf(l) = {} => TokenOf(l) = None
         /\ \A t \in live : loginOf[t] = l => TokenOf(l) = t /\ t # None
<1>1. LiveOf(l) # {} => (CHOOSE t \in LiveOf(l) : TRUE) \in LiveOf(l)
  OBVIOUS
<1>2. LiveOf(l) # {} => TokenOf(l) \in LiveOf(l)
  BY <1>1 DEF TokenOf
<1> QED BY <1>2 DEF TokenOf, LiveOf, OneTokenEach, None

LEMMA TokenIsLiveNext ==
  ASSUME OneTokenEach', NEW l \in LoginIds
  PROVE  /\ LiveOf(l)' = {} => TokenOf(l)' = None
         /\ \A t \in live' : loginOf'[t] = l => TokenOf(l)' = t /\ t # None
<1>1. LiveOf(l)' # {} => (CHOOSE t \in LiveOf(l)' : TRUE) \in LiveOf(l)'
  OBVIOUS
<1>2. LiveOf(l)' # {} => TokenOf(l)' \in LiveOf(l)'
  BY <1>1 DEF TokenOf, LiveOf
<1> QED BY <1>2 DEF TokenOf, LiveOf, OneTokenEach, None

LEMMA ChainStep ==
  ASSUME OneTokenEach, OneTokenEach', [SessionsNext]_sessionVars
  PROVE  [Chain!ChainNext]_<<UsableNow, 1..issued>>
<1> USE SessionsAssumption
<1>1. CASE TakesAway
  <2> DEFINE over == {l \in LoginIds : LiveOf(l)' = {}}
  <2>1. ASSUME NEW l \in LoginIds
        PROVE  TokenOf(l)' = IF l \in over THEN None ELSE TokenOf(l)
    <3>1. CASE LiveOf(l)' = {}
      BY <3>1, TokenIsLiveNext
    <3>2. CASE LiveOf(l)' # {}
      <4>1. PICK t \in live' : loginOf'[t] = l
        BY <3>2 DEF LiveOf
      <4>2. t \in live /\ loginOf[t] = l
        BY <4>1, <1>1 DEF TakesAway
      <4> QED BY <3>2, <4>1, <4>2, TokenIsLive, TokenIsLiveNext
    <3> QED BY <3>1, <3>2
  <2> HIDE DEF over
  <2>2. UsableNow' = [l \in LoginIds |-> IF l \in over THEN None ELSE UsableNow[l]]
    BY <2>1 DEF UsableNow
  <2>3. over \in SUBSET LoginIds
    BY DEF over
  <2>4. 1..issued' = 1..issued
    BY <1>1 DEF TakesAway
  <2>5. Chain!End
    BY <2>2, <2>3, <2>4 DEF Chain!End, UsableNow, TokenOf
  <2> QED BY <2>5 DEF Chain!ChainNext
<1>2. CASE Login
  <2>0. PICK new : new = logins + 1
    OBVIOUS
  <2>1. /\ new \in LoginIds /\ issued + 1 \in TokenIds \ (1..issued)
        /\ issued' = issued + 1 /\ live' = live \cup {issued + 1}
        /\ loginOf' = [loginOf EXCEPT ![issued + 1] = new]
        /\ issued + 1 \notin live
    BY <1>2, <2>0 DEF Login, HandOut, OneTokenEach, LoginIds, TokenIds
  <2>2. LiveOf(new) = {}
    <3>1. \A t \in live : loginOf[t] # new
      BY <2>0 DEF OneTokenEach
    <3> QED BY <3>1 DEF LiveOf
  <2>3. TokenOf(new) = None
    BY <2>1, <2>2, TokenIsLive
  <2>4. TokenOf(new)' = issued + 1
    BY <2>1, TokenIsLiveNext DEF OneTokenEach
  <2>5. ASSUME NEW l \in LoginIds, l # new PROVE TokenOf(l)' = TokenOf(l)
    <3>1. LiveOf(l)' = LiveOf(l)
      BY <2>1, <2>5 DEF LiveOf, OneTokenEach, TokenIds
    <3> QED BY <3>1 DEF TokenOf
  <2>6. UsableNow' = [UsableNow EXCEPT ![new] = issued + 1]
    BY <2>4, <2>5 DEF UsableNow
  <2>7. 1..issued' = (1..issued) \cup {issued + 1}
    BY <2>1 DEF OneTokenEach
  <2>8. UsableNow[new] = None
    BY <2>1, <2>3 DEF UsableNow
  <2>9. Chain!Begins(new)
    BY <2>1, <2>6, <2>7, <2>8 DEF Chain!Begins, UsableNow, TokenOf
  <2> QED BY <2>1, <2>9 DEF Chain!ChainNext
<1>3. CASE \E old \in live : Rotate(old, TRUE) /\ UNCHANGED logins
  <2>1. PICK old \in live : Rotate(old, TRUE) /\ UNCHANGED logins
    BY <1>3
  <2>0. PICK me : me = loginOf[old]
    OBVIOUS
  <2>2. /\ me \in LoginIds /\ issued + 1 \in TokenIds \ (1..issued)
        /\ issued' = issued + 1 /\ live' = (live \ {old}) \cup {issued + 1}
        /\ loginOf' = [loginOf EXCEPT ![issued + 1] = me]
        /\ issued + 1 \notin live
    BY <2>0, <2>1 DEF Rotate, HandOut, OneTokenEach, LoginIds, TokenIds
  <2>3. TokenOf(me) # None
    BY <2>0, <2>2, TokenIsLive
  <2>4. TokenOf(me)' = issued + 1
    BY <2>2, TokenIsLiveNext DEF OneTokenEach
  <2>5. ASSUME NEW l \in LoginIds, l # me PROVE TokenOf(l)' = TokenOf(l)
    <3>1. LiveOf(l)' = LiveOf(l)
      BY <2>0, <2>2, <2>5 DEF LiveOf, OneTokenEach, TokenIds
    <3> QED BY <3>1 DEF TokenOf
  <2>6. UsableNow' = [UsableNow EXCEPT ![me] = issued + 1]
    BY <2>4, <2>5 DEF UsableNow
  <2>7. 1..issued' = (1..issued) \cup {issued + 1}
    BY <2>2 DEF OneTokenEach
  <2>8. UsableNow[me] # None
    BY <2>2, <2>3 DEF UsableNow
  <2>9. Chain!Renews(me)
    BY <2>2, <2>6, <2>7, <2>8 DEF Chain!Renews, UsableNow, TokenOf
  <2> QED BY <2>2, <2>9 DEF Chain!ChainNext
<1> QED BY <1>1, <1>2, <1>3, StepKinds

(* For any sizes: however refreshes, logouts, restarts and lost answers    *)
(* fall, a login lives by one refresh token at a time, and what was        *)
(* replaced or revoked never comes back.                                   *)
THEOREM LoginsImplementChain == SessionsSpec => LoginsFollowChain
<1>1. SessionsInit => Chain!ChainInit
  BY DEF SessionsInit, Chain!ChainInit, LiveOf
<1>2. OneTokenEach /\ OneTokenEach' /\ [SessionsNext]_sessionVars
        => [Chain!ChainNext]_(Chain!chainVars)
  BY ChainStep DEF Chain!chainVars, UsableNow, TokenOf
<1> QED
  BY <1>1, <1>2, ChainBegins, ChainKept, PTL
  DEF SessionsSpec, LoginsFollowChain, Chain!ChainSpec

(* The tab and the server. *)

NewestToken(t, l) ==
  /\ t \in 1..issued
  /\ loginOf[t] = l
  /\ \A s \in 1..issued : loginOf[s] = l => s <= t

(* A good token is the newest of its login; tokens are of logins there were. *)
GoodIsNewest == \A t \in live : NewestToken(t, loginOf[t])
TokensOfLogins == \A t \in 1..issued : loginOf[t] \in 1..logins

(* While the tab shows a login that nothing crossed, the refresh under way *)
(* is for its token, and what came back is its newest one.                 *)
RefreshIsForTab ==
  user # None /\ user \notin crossed =>
    /\ refresh.pc = "asked" => refresh.token = token
    /\ refresh.pc = "renewed" => NewestToken(refresh.token, user)

(* A logout that nothing crossed carries the one good token of its login,  *)
(* and no refresh is under way.                                            *)
LogoutCarriesToken ==
  logout # NoLogout /\ logout.login \notin crossed =>
    /\ ~Refreshing
    /\ logout.pc = "sent" => LiveOf(logout.login) \subseteq {logout.token}

(* A logout under way is of a login there was. *)
LogoutOfLogin == logout # NoLogout => logout.login \in 1..logins

TabInv ==
  /\ SessionsTypeOK /\ LogoutOfLogin /\ OneTokenEach /\ GoodIsNewest /\ TokensOfLogins
  /\ RefreshIsForTab /\ LogoutCarriesToken /\ TabAndServerAgree

LEMMA TabTypes ==
  ASSUME SessionsTypeOK, OneTokenEach, LogoutOfLogin, [SessionsNext]_sessionVars
  PROVE  SessionsTypeOK' /\ LogoutOfLogin'
<1> USE SessionsAssumption DEF SessionsTypeOK, None
<1>1. CASE AccessExpires \/ TokenExpires \/ TokensLost
  BY <1>1 DEF AccessExpires, TokenExpires, TokensLost, LogoutOfLogin
<1>2. CASE Login
  <2>1. /\ issued' = issued + 1 /\ issued + 1 \in TokenIds
        /\ logins' = logins + 1 /\ logins + 1 \in 1..MaxLogins
        /\ loginOf' = [loginOf EXCEPT ![issued + 1] = logins + 1]
        /\ user' = logins + 1 /\ token' = issued + 1 /\ cookie' = TRUE
        /\ live' = live \cup {issued + 1} /\ crossed' \subseteq crossed \cup {user'}
        /\ UNCHANGED <<refresh, call, logout, ended>>
    BY <1>2 DEF Login, HandOut, TokenIds
  <2> QED BY <2>1 DEF TokenIds, LogoutOfLogin
<1>3. CASE LogoutSends
  BY <1>3 DEF LogoutSends, LogoutOfLogin
<1>4. CASE ServerLogsOut \/ LogoutEnds
  <2>1. CASE ServerLogsOut
    <3>1. logout # NoLogout
      BY <2>1 DEF ServerLogsOut, NoLogout
    <3> QED BY <2>1, <3>1 DEF ServerLogsOut, Revokes, LogoutOfLogin
  <2>2. CASE LogoutEnds
    BY <1>4, <2>2 DEF LogoutEnds, clearAuth, NoLogout, LogoutOfLogin
  <2> QED BY <1>4, <2>1, <2>2
<1>5. CASE \E c \in Calls : Sends(c) \/ ServerAnswers(c) \/ Returns(c) \/ RefusedAgain(c)
  BY <1>5 DEF Sends, ServerAnswers, Returns, RefusedAgain, clearAuth, LogoutOfLogin
<1>6. ASSUME NEW c \in Calls, TriesRefresh(c) PROVE SessionsTypeOK' /\ LogoutOfLogin'
  <2>1. UNCHANGED <<live, issued, loginOf, logins, cookie, logout, ended>>
    BY <1>6 DEF TriesRefresh
  <2>2. user' \in {user, 0} /\ token' \in {token, 0} /\ (crossed' \ crossed) \subseteq 1..logins
    BY <1>6 DEF TriesRefresh, clearAuth
  <2>3. refresh' \in {refresh, [pc |-> "asked", token |-> token], [pc |-> "stale", token |-> 0]}
    BY <1>6 DEF TriesRefresh, Stale
  <2>4. refresh' \in [pc : {"none", "stale", "asked", "renewed", "denied"}, token : 0..issued']
    BY <2>1, <2>3
  <2>5. user' \in 0..logins' /\ token' \in 0..issued'
    BY <2>1, <2>2
  <2>6. \/ call' = [call EXCEPT ![c] = "waiting"]
        \/ call' = [call EXCEPT ![c] = "none"]
    BY <1>6 DEF TriesRefresh
  <2> QED BY <2>1, <2>2, <2>4, <2>5, <2>6 DEF LogoutOfLogin
<1>7. CASE ServerRefreshes
  <2>0. UNCHANGED <<logins, cookie, user, token, call, logout, ended, crossed>>
    BY <1>7 DEF ServerRefreshes
  <2>1. CASE \E old \in live : Rotate(old, TRUE) /\ refresh' = [pc |-> "renewed", token |-> issued']
    <3>1. PICK old \in live : Rotate(old, TRUE) /\ refresh' = [pc |-> "renewed", token |-> issued']
      BY <2>1
    <3>2. /\ issued' = issued + 1 /\ issued + 1 \in TokenIds
          /\ loginOf' = [loginOf EXCEPT ![issued + 1] = loginOf[old]]
          /\ live' = (live \ {old}) \cup {issued + 1}
          /\ loginOf[old] \in 0..MaxLogins
      BY <3>1 DEF Rotate, HandOut, TokenIds
    <3> QED BY <2>0, <3>1, <3>2 DEF LogoutOfLogin, TokenIds
  <2>2. CASE UNCHANGED <<live, issued, loginOf>> /\ refresh' = [refresh EXCEPT !.pc = "denied"]
    BY <2>0, <2>2 DEF LogoutOfLogin
  <2> QED BY <1>7, <2>1, <2>2 DEF ServerRefreshes, Rotate
<1>8. CASE RefreshSucceeds
  BY <1>8 DEF RefreshSucceeds, StoresToken, NoRefresh, LogoutOfLogin
<1>9. CASE RefreshFails
  <2>1. cookie' \in BOOLEAN
    BY <1>9 DEF RefreshFails
  <2>2. /\ refresh' = NoRefresh /\ user' = 0 /\ token' = 0
        /\ UNCHANGED <<live, issued, loginOf, logins, logout, ended, crossed>>
    BY <1>9 DEF RefreshFails, clearAuth
  <2>3. call' = [c \in Calls |-> IF c \in Waiting THEN "none" ELSE call[c]]
    BY <1>9 DEF RefreshFails
  <2> QED BY <2>1, <2>2, <2>3 DEF NoRefresh, LogoutOfLogin
<1>10. CASE UNCHANGED sessionVars
  BY <1>10 DEF sessionVars, LogoutOfLogin
<1> QED
  BY <1>1, <1>2, <1>3, <1>4, <1>5, <1>6, <1>7, <1>8, <1>9, <1>10 DEF SessionsNext

(* Who is the newest does not change while no token is handed out. *)
LEMMA NewestStays ==
  ASSUME UNCHANGED <<issued, loginOf>>
  PROVE  \A t, l : NewestToken(t, l)' <=> NewestToken(t, l)
BY DEF NewestToken

LEMMA GoodStaysNewest ==
  ASSUME TabInv, [SessionsNext]_sessionVars
  PROVE  GoodIsNewest' /\ TokensOfLogins'
<1> USE DEF TabInv
<1>1. CASE TakesAway
  BY <1>1, NewestStays DEF TakesAway, GoodIsNewest, TokensOfLogins
<1>2. CASE Login
  <2>1. /\ issued' = issued + 1 /\ issued + 1 \in TokenIds /\ issued \in Nat
        /\ logins' = logins + 1 /\ logins \in Nat
        /\ loginOf' = [loginOf EXCEPT ![issued + 1] = logins + 1]
        /\ live' = live \cup {issued + 1} /\ live \subseteq 1..issued
    BY <1>2, SessionsAssumption DEF Login, HandOut, TokenIds, OneTokenEach
  <2>2. /\ loginOf'[issued + 1] = logins + 1
        /\ \A t \in 1..issued : loginOf'[t] = loginOf[t] /\ loginOf[t] \in 1..logins
    BY <2>1 DEF OneTokenEach, TokenIds, TokensOfLogins
  <2> QED BY <2>1, <2>2 DEF GoodIsNewest, TokensOfLogins, NewestToken
<1>3. CASE \E old \in live : Rotate(old, TRUE) /\ UNCHANGED logins
  <2>1. PICK old \in live : Rotate(old, TRUE) /\ UNCHANGED logins
    BY <1>3
  <2>2. /\ issued' = issued + 1 /\ issued + 1 \in TokenIds /\ issued \in Nat
        /\ loginOf' = [loginOf EXCEPT ![issued + 1] = loginOf[old]]
        /\ live' = (live \ {old}) \cup {issued + 1} /\ live \subseteq 1..issued
    BY <2>1, SessionsAssumption DEF Rotate, HandOut, TokenIds, OneTokenEach
  <2>3. /\ loginOf'[issued + 1] = loginOf[old]
        /\ \A t \in 1..issued : loginOf'[t] = loginOf[t] /\ loginOf[t] \in 1..logins
        /\ \A t \in live \ {old} : loginOf[t] # loginOf[old]
    BY <2>2 DEF OneTokenEach, TokenIds, TokensOfLogins
  <2> QED BY <2>1, <2>2, <2>3 DEF GoodIsNewest, TokensOfLogins, NewestToken
<1> QED BY <1>1, <1>2, <1>3, StepKinds

(* What the tab and the server agree on, besides the types and the tokens. *)
Agreement == RefreshIsForTab /\ LogoutCarriesToken /\ TabAndServerAgree

LEMMA LessIsLive ==
  ASSUME TakesAway
  PROVE  /\ \A l : LiveOf(l)' \subseteq LiveOf(l)
         /\ \A t, l : NewestToken(t, l)' <=> NewestToken(t, l)
BY DEF TakesAway, LiveOf, NewestToken

(* Steps that at most take tokens away and log the tab out. *)
LEMMA QuietAgrees ==
  ASSUME TabInv, TakesAway, UNCHANGED <<logout, ended, crossed>>,
         \/ UNCHANGED <<user, token, refresh>>
         \/ user' = None /\ refresh' \in {refresh, NoRefresh}
  PROVE  Agreement'
<1> USE LessIsLive DEF TabInv, TabAndServerAgree
<1>1. LogoutRevokes'
  BY DEF LogoutRevokes
<1>2. LogoutCarriesToken'
  BY DEF LogoutCarriesToken, Refreshing, NoRefresh
<1>3. RefreshIsForTab'
  BY DEF RefreshIsForTab, NoRefresh
<1>4. CASE user' = None
  BY <1>1, <1>2, <1>3, <1>4 DEF Agreement, TabHoldsNewest
<1>5. CASE UNCHANGED <<user, token, refresh>>
  BY <1>1, <1>2, <1>3, <1>5 DEF Agreement, TabHoldsNewest, TakesAway
<1> QED BY <1>1, <1>2, <1>3, <1>4, <1>5

LEMMA LoginAgrees ==
  ASSUME TabInv, SessionsTypeOK', Login
  PROVE  Agreement'
<1> USE SessionsAssumption DEF TabInv, TabAndServerAgree
<1>1. /\ issued' = issued + 1 /\ issued + 1 \in TokenIds /\ issued \in Nat
      /\ logins' = logins + 1 /\ logins \in Nat /\ user' = logins + 1
      /\ token' = issued + 1
      /\ loginOf' = [loginOf EXCEPT ![issued + 1] = logins + 1]
      /\ live' = live \cup {issued + 1} /\ live \subseteq 1..issued
      /\ crossed' = IF Refreshing \/ logout # NoLogout
                    THEN crossed \cup {user'} ELSE crossed
      /\ UNCHANGED <<refresh, logout, ended>>
  BY DEF Login, HandOut, TokenIds, SessionsTypeOK
<1>2. /\ loginOf'[issued + 1] = logins + 1
      /\ \A t \in 1..issued : loginOf'[t] = loginOf[t] /\ loginOf[t] \in 1..logins
  BY <1>1 DEF OneTokenEach, TokenIds, TokensOfLogins
<1>3. NewestToken(token, user)'
  BY <1>1, <1>2 DEF NewestToken
<1>4. \A l \in 1..logins : LiveOf(l)' = LiveOf(l)
  BY <1>1, <1>2 DEF LiveOf
<1>5. LogoutRevokes'
  BY <1>1, <1>4 DEF LogoutRevokes, SessionsTypeOK
<1>6. LogoutCarriesToken'
  BY <1>1, <1>4 DEF LogoutCarriesToken, LogoutOfLogin, Refreshing, NoLogout, SessionsTypeOK
<1>7. RefreshIsForTab'
  BY <1>1 DEF RefreshIsForTab, Refreshing
<1>8. TabHoldsNewest'
  BY <1>3 DEF TabHoldsNewest, NewestToken
<1> QED BY <1>5, <1>6, <1>7, <1>8 DEF Agreement

LEMMA LogoutAgrees ==
  ASSUME TabInv, LogoutSends \/ ServerLogsOut \/ LogoutEnds
  PROVE  Agreement'
<1> USE DEF TabInv, TabAndServerAgree
<1>1. CASE LogoutSends
  <2>1. /\ UNCHANGED <<live, issued, loginOf, user, token, refresh, ended>> /\ user # None
        /\ logout' = [pc |-> "sent", token |-> token, login |-> user]
        /\ crossed' = IF Refreshing THEN crossed \cup {user} ELSE crossed
    BY <1>1 DEF LogoutSends
  <2>2. /\ \A t, l : NewestToken(t, l)' <=> NewestToken(t, l)
        /\ \A l : LiveOf(l)' = LiveOf(l)
    BY <2>1 DEF NewestToken, LiveOf
  <2>3. user \notin crossed /\ ~Refreshing => LiveOf(user) \subseteq {token}
    <3>1. SUFFICES ASSUME user \notin crossed, ~Refreshing, NEW t \in live, loginOf[t] = user
                   PROVE  t = token
      BY DEF LiveOf
    <3>2. NewestToken(token, user)
      BY <2>1, <3>1 DEF TabHoldsNewest, Refreshing, NewestToken
    <3>3. NewestToken(t, user)
      BY <3>1 DEF GoodIsNewest
    <3>4. t \in Nat /\ token \in Nat /\ t <= token /\ token <= t
      BY <3>2, <3>3 DEF NewestToken, SessionsTypeOK
    <3> QED BY <3>4
  <2>4. LogoutCarriesToken'
    BY <2>1, <2>2, <2>3 DEF LogoutCarriesToken, Refreshing, NoLogout
  <2>5. RefreshIsForTab' /\ TabHoldsNewest' /\ LogoutRevokes'
    BY <2>1, <2>2 DEF RefreshIsForTab, TabHoldsNewest, LogoutRevokes
  <2> QED BY <2>4, <2>5 DEF Agreement
<1>2. CASE ServerLogsOut
  <2>1. /\ logout.pc = "sent" /\ live' = live \ {logout.token}
        /\ ended' = ended \cup {logout.login}
        /\ logout' = [logout EXCEPT !.pc = "answered"]
        /\ UNCHANGED <<issued, loginOf, logins, user, token, refresh, crossed>>
    BY <1>2 DEF ServerLogsOut, Revokes
  <2>2. logout # NoLogout /\ logout'.pc = "answered" /\ logout'.login = logout.login
    BY <2>1 DEF NoLogout, SessionsTypeOK
  <2>3. /\ \A l : LiveOf(l)' = LiveOf(l) \ {logout.token}
        /\ \A t, l : NewestToken(t, l)' <=> NewestToken(t, l)
    BY <2>1 DEF LiveOf, NewestToken
  <2>4. LogoutRevokes'
    BY <2>1, <2>2, <2>3 DEF LogoutRevokes, LogoutCarriesToken
  <2>5. RefreshIsForTab' /\ TabHoldsNewest' /\ LogoutCarriesToken'
    BY <2>1, <2>2, <2>3 DEF RefreshIsForTab, TabHoldsNewest, LogoutCarriesToken, Refreshing
  <2> QED BY <2>4, <2>5 DEF Agreement
<1>3. CASE LogoutEnds
  <2>1. /\ UNCHANGED <<live, loginOf, ended, crossed>>
        /\ user' = None /\ logout' = NoLogout
    BY <1>3 DEF LogoutEnds, clearAuth
  <2> QED
    BY <2>1 DEF Agreement, RefreshIsForTab, TabHoldsNewest, LogoutCarriesToken, LogoutRevokes,
                LiveOf
<1> QED BY <1>1, <1>2, <1>3

LEMMA TriesAgree ==
  ASSUME TabInv, NEW c \in Calls, TriesRefresh(c)
  PROVE  Agreement'
<1> USE DEF TabInv, TabAndServerAgree
<1>1. UNCHANGED <<live, issued, loginOf, logins, logout, ended>>
  BY DEF TriesRefresh
<1>2. /\ \A t, l : NewestToken(t, l)' <=> NewestToken(t, l)
      /\ \A l : LiveOf(l)' = LiveOf(l)
  BY <1>1 DEF NewestToken, LiveOf
<1>3. crossed \subseteq crossed'
  BY DEF TriesRefresh
<1>4. LogoutRevokes'
  BY <1>1, <1>2, <1>3 DEF LogoutRevokes
<1>5. \/ UNCHANGED <<user, token, refresh>>
      \/ /\ refresh = NoRefresh /\ refresh' = [pc |-> "asked", token |-> token]
         /\ UNCHANGED <<user, token>>
         /\ crossed' = IF logout = NoLogout THEN crossed
                       ELSE crossed \cup ({logout.login, user} \ {None})
      \/ refresh' = Stale /\ user' = None
  BY DEF TriesRefresh, clearAuth
<1>6. RefreshIsForTab' /\ TabHoldsNewest'
  <2>1. CASE UNCHANGED <<user, token, refresh>>
    BY <1>1, <1>2, <1>3, <2>1 DEF RefreshIsForTab, TabHoldsNewest
  <2>2. CASE refresh = NoRefresh /\ refresh' = [pc |-> "asked", token |-> token]
             /\ UNCHANGED <<user, token>>
    BY <1>1, <1>2, <1>3, <2>2 DEF RefreshIsForTab, TabHoldsNewest, NoRefresh
  <2>3. CASE refresh' = Stale /\ user' = None
    BY <2>3 DEF RefreshIsForTab, TabHoldsNewest, Stale
  <2> QED BY <1>5, <2>1, <2>2, <2>3
<1>7. LogoutCarriesToken'
  <2>1. CASE logout = NoLogout
    BY <1>1, <2>1 DEF LogoutCarriesToken
  <2>2. CASE logout # NoLogout /\ logout.login \notin crossed'
    <3>1. logout.login # None
      BY <2>2 DEF LogoutOfLogin, NoLogout, None, SessionsTypeOK
    <3>2. refresh' \in {refresh, Stale}
      BY <1>5, <2>2, <3>1
    <3> QED BY <1>1, <1>2, <1>3, <2>2, <3>2 DEF LogoutCarriesToken, Refreshing, Stale
  <2> QED BY <1>1, <2>1, <2>2 DEF LogoutCarriesToken
<1> QED BY <1>4, <1>6, <1>7 DEF Agreement

LEMMA RenewalAgrees ==
  ASSUME TabInv, ServerRefreshes \/ RefreshSucceeds
  PROVE  Agreement'
<1> USE DEF TabInv, TabAndServerAgree
<1>1. CASE RefreshSucceeds
  <2>1. /\ refresh.pc = "renewed" /\ token' = refresh.token /\ refresh' = NoRefresh
        /\ UNCHANGED <<live, issued, loginOf, user, logout, ended, crossed>>
    BY <1>1 DEF RefreshSucceeds, StoresToken
  <2> QED
    BY <2>1 DEF Agreement, RefreshIsForTab, TabHoldsNewest, LogoutCarriesToken, LogoutRevokes,
                LiveOf, NewestToken, Refreshing, NoRefresh
<1>2. CASE ServerRefreshes
  <2>1. refresh.pc = "asked" /\ UNCHANGED <<user, token, logout, ended, crossed, logins>>
    BY <1>2 DEF ServerRefreshes
  <2>2. CASE UNCHANGED <<live, issued, loginOf>> /\ refresh' = [refresh EXCEPT !.pc = "denied"]
    <3>1. refresh'.pc = "denied" /\ refresh.pc = "asked"
      BY <2>1, <2>2 DEF SessionsTypeOK
    <3> QED
      BY <2>1, <2>2, <3>1 DEF Agreement, RefreshIsForTab, TabHoldsNewest, LogoutCarriesToken,
                              LogoutRevokes, LiveOf, Refreshing
  <2>3. CASE Rotate(refresh.token, TRUE) /\ refresh' = [pc |-> "renewed", token |-> issued']
    <3> DEFINE old == refresh.token
    <3>1. /\ old \in live /\ issued' = issued + 1 /\ issued + 1 \in TokenIds
          /\ loginOf' = [loginOf EXCEPT ![issued + 1] = loginOf[old]]
          /\ live' = (live \ {old}) \cup {issued + 1} /\ live \subseteq 1..issued
          /\ issued \in Nat
      BY <2>3, SessionsAssumption DEF Rotate, HandOut, TokenIds, SessionsTypeOK
    <3> HIDE DEF old
    <3>2. /\ loginOf'[issued + 1] = loginOf[old]
          /\ \A t \in 1..issued : loginOf'[t] = loginOf[t]
      BY <3>1 DEF OneTokenEach, TokenIds
    <3>3. \A l : l # loginOf[old] => LiveOf(l)' = LiveOf(l)
      BY <3>1, <3>2 DEF LiveOf
    <3>4. LiveOf(loginOf[old]) # {}
      BY <3>1 DEF LiveOf
    <3>5. LogoutRevokes'
      BY <2>1, <3>3, <3>4 DEF LogoutRevokes
    <3>6. LogoutCarriesToken'
      BY <2>1 DEF LogoutCarriesToken, Refreshing
    <3>7. refresh'.pc = "renewed" /\ refresh'.token = issued + 1
      BY <2>3, <3>1
    <3>8. TabHoldsNewest'
      BY <3>7 DEF TabHoldsNewest
    <3>9. RefreshIsForTab'
      <4>1. SUFFICES ASSUME user # None, user \notin crossed PROVE NewestToken(issued, user)'
        BY <2>1, <3>1, <3>7 DEF RefreshIsForTab, NewestToken
      <4>2. old = token /\ loginOf[old] = user
        BY <2>1, <4>1 DEF old, RefreshIsForTab, TabHoldsNewest
      <4> QED BY <2>1, <3>1, <3>2, <4>2 DEF NewestToken
    <3> QED BY <3>5, <3>6, <3>8, <3>9 DEF Agreement
  <2> QED BY <1>2, <2>2, <2>3 DEF ServerRefreshes, Rotate
<1> QED BY <1>1, <1>2

LEMMA TabBegins == SessionsInit => TabInv
<1> SUFFICES ASSUME SessionsInit PROVE TabInv
  OBVIOUS
<1> USE DEF SessionsInit, None, NoLogout, NoRefresh
<1>1. SessionsTypeOK
  <2>1. 0 \in 0..issued /\ 0 \in 0..logins /\ 0 \in 0..MaxTokens /\ 0 \in 0..MaxLogins
    BY SessionsAssumption
  <2>2. loginOf \in [TokenIds -> 0..MaxLogins]
    BY <2>1
  <2>3. call \in [Calls -> {"none", "sent", "handled", "refused", "waiting",
                          "replayed", "refused_again"}]
    OBVIOUS
  <2> QED BY <2>1, <2>2, <2>3 DEF SessionsTypeOK
<1>2. GoodIsNewest /\ TokensOfLogins /\ LogoutOfLogin
  BY DEF GoodIsNewest, TokensOfLogins, LogoutOfLogin
<1>3. RefreshIsForTab /\ LogoutCarriesToken /\ TabAndServerAgree
  BY DEF RefreshIsForTab, LogoutCarriesToken, TabAndServerAgree, TabHoldsNewest, LogoutRevokes
<1> QED BY <1>1, <1>2, <1>3, ChainBegins DEF TabInv

LEMMA TabKept == TabInv /\ [SessionsNext]_sessionVars => TabInv'
<1> SUFFICES ASSUME TabInv, [SessionsNext]_sessionVars PROVE TabInv'
  OBVIOUS
<1>1. /\ SessionsTypeOK' /\ LogoutOfLogin' /\ OneTokenEach'
      /\ GoodIsNewest' /\ TokensOfLogins'
  BY TabTypes, ChainKept, GoodStaysNewest DEF TabInv
<1>2. Agreement'
  <2>1. CASE \/ AccessExpires \/ TokenExpires \/ TokensLost \/ RefreshFails
             \/ UNCHANGED sessionVars
             \/ \E c \in Calls : Sends(c) \/ ServerAnswers(c) \/ Returns(c) \/ RefusedAgain(c)
    <3>1. /\ TakesAway /\ UNCHANGED <<logout, ended, crossed>>
          /\ \/ UNCHANGED <<user, token, refresh>>
             \/ user' = None /\ refresh' \in {refresh, NoRefresh}
      BY <2>1
      DEF AccessExpires, TokenExpires, TokensLost, RefreshFails, sessionVars, Sends,
          ServerAnswers, Returns, RefusedAgain, clearAuth, TakesAway
    <3> QED BY <3>1, QuietAgrees
  <2> QED
    BY <1>1, <2>1, LoginAgrees, LogoutAgrees, TriesAgree, RenewalAgrees DEF SessionsNext
<1> QED BY <1>1, <1>2 DEF TabInv, Agreement

(* For any number of calls, logins and tokens: the tab holds the newest    *)
(* token of the login it shows, and a login that was ended has none that   *)
(* is good, unless a refresh was under way when it began or ended.         *)
THEOREM TabKeepsUp == SessionsSpec => []TabAndServerAgree
<1>1. TabInv => TabAndServerAgree
  BY DEF TabInv
<1> QED BY <1>1, TabBegins, TabKept, PTL DEF SessionsSpec
===============================================================================
