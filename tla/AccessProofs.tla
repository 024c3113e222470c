----------------------------- MODULE AccessProofs -----------------------------
(***************************************************************************)
(* Proofs about what lets a request in and the lists it may read:          *)
(* registration and the forgotten password (UserAccounts), the signatures  *)
(* (SignedRequests) and the limiter (RequestGate) in front of the          *)
(* handlers, and the walk through a paged list (Listings), beside what     *)
(* SessionsProofs says of a login; for any numbers of requests, tokens,    *)
(* addresses, calls and rows.                                              *)
(***************************************************************************)
EXTENDS UserAccounts, SessionsProofs, SignedRequests, RequestGate, Listings,
        FiniteSetTheorems, SequenceTheorems, TLAPS

-----------------------------------------------------------------------------
(* UserAccounts *)

(* A token that was handed out is for an address with a user. *)
GivenToUsers == \A t \in given : Registered(ownerOf[t])

(* A request that resets holds a token that was handed out. *)
HoldsGiven ==
  \A q \in Requesters : req[q].pc \in {"reset", "written"} => req[q].token \in given

(* A token that nobody shares and that was deleted when it had been used   *)
(* is used by one request, before its first use or at it.                  *)
UsedByOne ==
  \A t \in given \ overlap :
    /\ \A q, p \in InUseBy(t) : q = p
    /\ t \in used => /\ \A q \in InUseBy(t) : req[q].pc = "written"
                     /\ t \in resets => InUseBy(t) # {}

UsersInv == UsersTypeOK /\ OncePerAddressAndToken /\ GivenToUsers /\ HoldsGiven /\ UsedByOne

LEMMA UsersBegin == UsersInit => UsersInv
BY UsersAssumption
DEF UsersInit, UsersInv, UsersTypeOK, OncePerAddressAndToken, OneUserPerEmail, ResetOnce,
    GivenToUsers, HoldsGiven, UsedByOne, Registered, NoRequest, UserRequests, InUseBy

(* A request that registers touches nothing but the user of its address.   *)
LEMMA RegisterKeeps ==
  ASSUME UsersInv, NEW q \in Requesters, RegisterLooks(q) \/ CreateUser(q)
  PROVE  UsersInv'
<1> USE DEF UsersInv, UsersTypeOK
<1>1. /\ UNCHANGED <<resets, given, ownerOf, mailed, used, reused, overlap>>
      /\ req'[q] \in UserRequests /\ req'[q].pc \notin {"reset", "written"}
      /\ req[q].pc \notin {"reset", "written"}
      /\ req' = [req EXCEPT ![q] = req'[q]]
  BY DEF RegisterLooks, CreateUser, Begins, Ends, NoRequest, UserRequests
<1>2. /\ password' \in [Emails -> Passwords \cup {NoPassword}]
      /\ rows' \in [Emails -> Nat]
      /\ \A e \in Emails : Registered(e) => Registered(e)'
      /\ OneUserPerEmail'
  <2>1. CASE RegisterLooks(q)
    BY <2>1 DEF RegisterLooks, Registered, OneUserPerEmail, OncePerAddressAndToken
  <2>2. CASE CreateUser(q)
    <3>1. req[q].email \in Emails /\ req[q].password \in Passwords
      BY <2>2 DEF CreateUser, UserRequests, NoRequest
    <3>2. CASE Registered(req[q].email)
      BY <2>2, <3>2 DEF CreateUser, Registered, OneUserPerEmail, OncePerAddressAndToken
    <3>3. CASE ~Registered(req[q].email)
      <4>1. /\ password' = [password EXCEPT ![req[q].email] = req[q].password]
            /\ rows' = [rows EXCEPT ![req[q].email] = @ + 1]
        BY <2>2, <3>3 DEF CreateUser
      <4>2. rows[req[q].email] = 0
        BY <3>1, <3>3 DEF OneUserPerEmail, OncePerAddressAndToken
      <4> QED
        BY <3>1, <4>1, <4>2, UsersAssumption
        DEF Registered, OneUserPerEmail, OncePerAddressAndToken
    <3> QED BY <3>2, <3>3
  <2> QED BY <2>1, <2>2
<1>3. \A p \in Requesters : \/ req'[p] = req[p]
                            \/ /\ req[p].pc \notin {"reset", "written"}
                               /\ req'[p].pc \notin {"reset", "written"}
  BY <1>1
<1>4. \A t \in given : InUseBy(t)' = InUseBy(t)
  BY <1>3 DEF InUseBy
<1>5. UsersTypeOK'
  BY <1>1, <1>2
<1>6. GivenToUsers' /\ HoldsGiven' /\ ResetOnce'
  BY <1>1, <1>2, <1>3 DEF GivenToUsers, HoldsGiven, ResetOnce, OncePerAddressAndToken
<1>7. UsedByOne'
  <2>1. \A t \in given : \A p \in InUseBy(t) : req'[p] = req[p]
    BY <1>3 DEF InUseBy
  <2> QED BY <1>1, <1>4, <2>1 DEF UsedByOne
<1> QED BY <1>2, <1>5, <1>6, <1>7 DEF OncePerAddressAndToken

(* Tokens are handed out, to users, and expire.                            *)
LEMMA TokensKeep == UsersInv /\ (ForgotPassword \/ ResetExpires) => UsersInv'
<1> SUFFICES ASSUME UsersInv, ForgotPassword \/ ResetExpires PROVE UsersInv'
  OBVIOUS
<1> USE DEF UsersInv, UsersTypeOK
<1>1. /\ UNCHANGED <<password, rows, ownerOf, req, used, reused, overlap>>
      /\ given \subseteq given' /\ given' \subseteq ResetTokens /\ resets' \cap given \subseteq resets
      /\ \A t \in given' \ given : Registered(ownerOf[t])
      /\ resets' \subseteq given' /\ mailed' \subseteq given'
  BY DEF ForgotPassword, ResetExpires
<1>2. \A t : InUseBy(t)' = InUseBy(t)
  BY <1>1 DEF InUseBy
<1>3. \A t \in given' \ given : InUseBy(t) = {} /\ t \notin used
  BY DEF InUseBy, HoldsGiven
<1>4. UsedByOne'
  BY <1>1, <1>2, <1>3 DEF UsedByOne
<1>5. GivenToUsers' /\ HoldsGiven' /\ OncePerAddressAndToken'
  BY <1>1 DEF GivenToUsers, HoldsGiven, OncePerAddressAndToken, OneUserPerEmail, ResetOnce,
              Registered
<1> QED BY <1>1, <1>4, <1>5

(* A token is looked up. *)
LEMMA LooksKeep ==
  ASSUME UsersInv, NEW q \in Requesters, ResetLooks(q)
  PROVE  UsersInv'
<1> USE DEF UsersInv, UsersTypeOK
<1>1. PICK t \in mailed \cap resets, w \in Passwords :
        /\ req[q] = NoRequest
        /\ req' = [req EXCEPT ![q] = [pc |-> "reset", token |-> t, password |-> w]]
        /\ overlap' = IF InUseBy(t) = {} THEN overlap ELSE overlap \cup {t}
  BY DEF ResetLooks, Begins
<1>2. UNCHANGED <<password, rows, resets, given, ownerOf, mailed, used, reused>>
  BY DEF ResetLooks
<1>3. /\ req'[q].pc = "reset" /\ req'[q].token = t /\ t \in given
      /\ req[q].pc = "idle" /\ req'[q] \in UserRequests
      /\ \A p \in Requesters \ {q} : req'[p] = req[p]
  BY <1>1 DEF NoRequest, UserRequests
<1>4. UsersTypeOK' /\ GivenToUsers' /\ HoldsGiven' /\ OncePerAddressAndToken'
  BY <1>1, <1>2, <1>3
  DEF GivenToUsers, HoldsGiven, OncePerAddressAndToken, OneUserPerEmail, ResetOnce, Registered
<1>5. \A u \in given \ {t} : InUseBy(u)' = InUseBy(u)
  BY <1>1, <1>3 DEF InUseBy
<1>6. InUseBy(t)' = InUseBy(t) \cup {q}
  BY <1>1, <1>3 DEF InUseBy
<1>7. \A u \in given : q \notin InUseBy(u)
  BY <1>3 DEF InUseBy
<1>8. UsedByOne'
  <2> SUFFICES ASSUME NEW u \in given' \ overlap'
               PROVE  /\ \A a, b \in InUseBy(u)' : a = b
                      /\ u \in used' => /\ \A a \in InUseBy(u)' : req'[a].pc = "written"
                                        /\ u \in resets' => InUseBy(u)' # {}
    BY DEF UsedByOne
  <2>1. CASE u = t
    <3>1. InUseBy(t) = {} /\ t \notin overlap
      BY <1>1, <2>1
    <3>2. t \notin used
      BY <1>2, <2>1, <3>1 DEF UsedByOne
    <3> QED BY <1>2, <1>6, <2>1, <3>1, <3>2
  <2>2. CASE u # t
    <3>1. u \in given \ overlap
      BY <1>1, <1>2, <2>2
    <3>2. \A a \in InUseBy(u) : req'[a] = req[a]
      BY <1>3, <1>7, <3>1 DEF InUseBy
    <3> QED BY <1>2, <1>5, <2>2, <3>1, <3>2 DEF UsedByOne
  <2> QED BY <2>1, <2>2
<1> QED BY <1>4, <1>8

(* The password is written. *)
LEMMA WritesKeep ==
  ASSUME UsersInv, NEW q \in Requesters, ResetWrites(q)
  PROVE  UsersInv'
<1> USE DEF UsersInv, UsersTypeOK
<1>1. PICK t : t = req[q].token
  OBVIOUS
<1>2. /\ req[q].pc = "reset" /\ t \in given /\ req[q].password \in Passwords
      /\ req[q] \in [pc : {"reset", "written"}, token : ResetTokens, password : Passwords]
  BY <1>1 DEF ResetWrites, HoldsGiven, UserRequests, NoRequest
<1>3. /\ password' = [password EXCEPT ![ownerOf[t]] = req[q].password]
      /\ used' = used \cup {t}
      /\ reused' = IF t \in used THEN reused \cup {t} ELSE reused
      /\ req' = [req EXCEPT ![q].pc = "written"]
      /\ UNCHANGED <<rows, resets, given, ownerOf, mailed, overlap>>
  BY <1>1 DEF ResetWrites
<1>4. /\ req'[q].pc = "written" /\ req'[q].token = t /\ req'[q] \in UserRequests
      /\ \A p \in Requesters \ {q} : req'[p] = req[p]
  BY <1>1, <1>2, <1>3 DEF UserRequests
<1>5. \A e \in Emails : Registered(e)' <=> Registered(e)
  BY <1>2, <1>3, UsersAssumption DEF Registered, GivenToUsers
<1>6. \A u : InUseBy(u)' = InUseBy(u)
  BY <1>1, <1>2, <1>3, <1>4 DEF InUseBy
<1>7. q \in InUseBy(t) /\ \A u : q \in InUseBy(u) => u = t
  BY <1>1, <1>2 DEF InUseBy
<1>8. t \in used => t \in overlap
  BY <1>2, <1>7 DEF UsedByOne
<1>9. UsersTypeOK'
  BY <1>2, <1>3, <1>4
<1>10. OncePerAddressAndToken' /\ GivenToUsers' /\ HoldsGiven'
  BY <1>2, <1>3, <1>4, <1>5, <1>8
  DEF OncePerAddressAndToken, OneUserPerEmail, ResetOnce, GivenToUsers, HoldsGiven
<1>11. UsedByOne'
  <2> SUFFICES ASSUME NEW u \in given \ overlap
               PROVE  /\ \A a, b \in InUseBy(u) : a = b
                      /\ u \in used' => /\ \A a \in InUseBy(u) : req'[a].pc = "written"
                                        /\ u \in resets => InUseBy(u) # {}
    BY <1>3, <1>6 DEF UsedByOne
  <2>1. CASE u = t
    BY <1>4, <1>7, <2>1 DEF UsedByOne
  <2>2. CASE u # t
    <3>1. \A a \in InUseBy(u) : req'[a] = req[a]
      BY <1>4, <1>7, <2>2 DEF InUseBy
    <3> QED BY <1>3, <2>2, <3>1 DEF UsedByOne
  <2> QED BY <2>1, <2>2
<1> QED BY <1>9, <1>10, <1>11

(* The token is deleted, or that failed. *)
LEMMA ForgetsKeep ==
  ASSUME UsersInv, NEW q \in Requesters, ResetForgets(q)
  PROVE  UsersInv'
<1> USE DEF UsersInv, UsersTypeOK
<1>1. PICK t : t = req[q].token
  OBVIOUS
<1>2. /\ req[q].pc = "written" /\ t \in given
      /\ \/ resets' = resets \ {t} /\ overlap' = overlap
         \/ overlap' = overlap \cup {t} /\ resets' = resets
      /\ req' = [req EXCEPT ![q] = NoRequest]
      /\ UNCHANGED <<password, rows, given, ownerOf, mailed, used, reused>>
  <2>1. req[q].pc = "written"
    BY DEF ResetForgets
  <2>2. t \in given
    BY <1>1, <2>1 DEF HoldsGiven
  <2> QED
    BY <1>1, <2>1, <2>2 DEF ResetForgets, Ends
<1>3. /\ req'[q] = NoRequest /\ req'[q].pc = "idle"
      /\ \A p \in Requesters \ {q} : req'[p] = req[p]
  BY <1>2 DEF NoRequest
<1>4. UsersTypeOK'
  BY <1>2, <1>3 DEF UserRequests
<1>5. OncePerAddressAndToken' /\ GivenToUsers' /\ HoldsGiven'
  BY <1>2, <1>3
  DEF OncePerAddressAndToken, OneUserPerEmail, ResetOnce, GivenToUsers, HoldsGiven, Registered
<1>6. \A u : InUseBy(u)' = InUseBy(u) \ {q}
  BY <1>2, <1>3 DEF InUseBy
<1>7. \A u : q \in InUseBy(u) => u = t
  BY <1>1 DEF InUseBy
<1>8. UsedByOne'
  <2> SUFFICES ASSUME NEW u \in given \ overlap'
               PROVE  /\ \A a, b \in InUseBy(u) \ {q} : a = b
                      /\ u \in used => /\ \A a \in InUseBy(u) \ {q} : req[a].pc = "written"
                                       /\ u \in resets' => InUseBy(u) \ {q} # {}
    <3>1. \A u : \A a \in InUseBy(u) \ {q} : req'[a] = req[a]
      BY <1>3 DEF InUseBy
    <3> QED BY <1>2, <1>6, <3>1 DEF UsedByOne
  <2>1. u \in given \ overlap
    BY <1>2
  <2>2. CASE u = t
    BY <1>2, <2>1, <2>2 DEF UsedByOne
  <2>3. CASE u # t
    BY <1>2, <1>7, <2>1, <2>3 DEF UsedByOne
  <2> QED BY <2>2, <2>3
<1> QED BY <1>4, <1>5, <1>8

LEMMA UsersKept == UsersInv /\ [UsersNext]_userVars => UsersInv'
<1>1. ASSUME UsersInv, UNCHANGED userVars PROVE UsersInv'
  BY <1>1
  DEF userVars, UsersInv, UsersTypeOK, OncePerAddressAndToken, OneUserPerEmail, ResetOnce,
      GivenToUsers, HoldsGiven, UsedByOne, InUseBy, Registered
<1> QED
  BY <1>1, RegisterKeeps, TokensKeep, LooksKeep, WritesKeep, ForgetsKeep DEF UsersNext

(* For any addresses, requests and tokens: an address has one user however *)
(* registrations overlap, and a token sets a password once unless two      *)
(* requests held it at a time or its deletion failed.                      *)
THEOREM AddressesAndTokensOnce == UsersSpec => []OncePerAddressAndToken
<1>1. UsersInv => OncePerAddressAndToken
  BY DEF UsersInv
<1> QED BY <1>1, UsersBegin, UsersKept, PTL DEF UsersSpec

-----------------------------------------------------------------------------
(* SignedRequests *)

(* A nonce that was used by a request that is handled is kept where it was *)
(* used, by that use or by a later one: in Redis, or in the memory of the  *)
(* process that still runs.                                                *)
Outlives(v) == write[v].by = "redis" \/ (write[v].life = starts /\ keeper = "memory")
UsesKept ==
  \A v \in Handled :
    /\ write[v].since <= write[v].at /\ write[v].at <= second
    /\ write[v].life <= starts
    /\ write[v].by = "memory" /\ write[v].life = starts => keeper = "memory"
    /\ Outlives(v) => \E m \in spent : /\ m.nonce = write[v].nonce /\ m.by = write[v].by
                                      /\ write[v].at <= m.at

CheckedBefore == \A w \in Writes : write[w].stage = "checked" => write[w].since <= second

SignedInv ==
  SignedTypeOK /\ UsesKept /\ CheckedBefore /\ OneUseOfNonce /\ RefusalKeepsNonce

LEMMA SignedBegins == SignedInit => SignedInv
<1> SUFFICES ASSUME SignedInit PROVE SignedInv
  OBVIOUS
<1>1. PICK n \in Nonces : write = [w \in Writes |-> Unknown(n)]
  BY DEF SignedInit
<1>2. Unknown(n) \in Requested /\ Unknown(n).stage = "new"
  BY SignedAssumption DEF Unknown, Requested, Stages, Keepers, Seconds
<1>3. SignedTypeOK
  BY <1>1, <1>2, SignedAssumption DEF SignedInit, SignedTypeOK, Seconds
<1>4. Handled = {} /\ \A w \in Writes : write[w].stage = "new"
  BY <1>1, <1>2 DEF Handled
<1> QED
  BY <1>3, <1>4 DEF SignedInit, SignedInv, UsesKept, CheckedBefore, OneUseOfNonce,
                    RefusalKeepsNonce

(* A step in which no nonce is used: of the requests that have used one    *)
(* nothing changes.                                                        *)
LEMMA UnusedKeeps ==
  ASSUME SignedInv, SignedTypeOK', UNCHANGED <<keeper, starts, spent>>, second <= second',
         \A w \in Writes :
           \/ write'[w] = write[w]
           \/ /\ write[w].stage \in {"new", "checked"}
              /\ write'[w].stage \in {"checked", "refused", "failed"}
              /\ write'[w].stage = "checked" => write'[w].since <= second'
  PROVE  SignedInv'
<1>1. Handled' = Handled /\ \A v \in Handled : write'[v] = write[v]
  BY DEF Handled
<1>2. second \in Nat /\ second' \in Nat /\ \A w \in Writes : write[w].since \in Nat /\ write[w].at \in Nat
  BY SignedAssumption DEF SignedInv, SignedTypeOK, Seconds, Requested
<1>3. UsesKept'
  <2> SUFFICES ASSUME NEW v \in Handled
               PROVE  /\ write[v].since <= write[v].at /\ write[v].at <= second'
                      /\ write[v].life <= starts
                      /\ write[v].by = "memory" /\ write[v].life = starts => keeper = "memory"
                      /\ Outlives(v) =>
                           \E m \in spent : /\ m.nonce = write[v].nonce /\ m.by = write[v].by
                                            /\ write[v].at <= m.at
    BY <1>1 DEF UsesKept, Outlives
  <2>1. v \in Writes
    BY DEF Handled
  <2> QED BY <1>2, <2>1 DEF SignedInv, UsesKept
<1>4. CheckedBefore'
  BY <1>2 DEF SignedInv, CheckedBefore
<1>5. OneUseOfNonce'
  BY <1>1 DEF SignedInv, OneUseOfNonce, Repeated, OneKeeper
<1>6. RefusalKeepsNonce'
  BY DEF SignedInv, RefusalKeepsNonce
<1> QED BY <1>3, <1>4, <1>5, <1>6 DEF SignedInv

(* A nonce that is not found is used: those that have used it before are   *)
(* at least its life away.                                                 *)
LEMMA UseKeeps ==
  ASSUME SignedInv, NEW w \in Writes, write[w].stage = "checked",
         FALSE \in Found(write[w].nonce), Remember(write[w].nonce),
         NEW stage \in {"handled", "failed", "disowned"}, Uses(w, stage),
         UNCHANGED <<second, keeper, starts>>
  PROVE  SignedInv'
<1> DEFINE n == write[w].nonce
           new == Entry(n)
           k == [write[w] EXCEPT !.stage = stage, !.at = second, !.by = keeper, !.life = starts]
<1>1. /\ second \in Seconds /\ second \in Nat /\ keeper \in Keepers /\ starts \in 0..MaxStarts
      /\ spent \subseteq [nonce : Nonces, at : Seconds, by : Keepers]
      /\ write \in [Writes -> Requested] /\ write[w] \in Requested /\ n \in Nonces
  BY SignedAssumption DEF SignedInv, SignedTypeOK, Seconds, Requested
<1>2. /\ k \in Requested /\ k.stage = stage /\ k.at = second /\ k.by = keeper /\ k.life = starts
      /\ k.nonce = n /\ k.since = write[w].since /\ k.stamp = write[w].stamp
  BY <1>1 DEF Requested, Stages
<1>3. /\ write' = [write EXCEPT ![w] = k]
      /\ spent' = (spent \ Kept(n)) \cup {new}
  BY DEF Uses, Remember
<1>4. new \in [nonce : Nonces, at : Seconds, by : Keepers] /\ new.nonce = n /\ new.at = second
      /\ new.by = keeper
  BY <1>1 DEF Entry
<1> HIDE DEF k, new
<1>5. write'[w] = k /\ \A v \in Writes \ {w} : write'[v] = write[v]
  BY <1>1, <1>3
<1>6. SignedTypeOK'
  <2>1. write' \in [Writes -> Requested]
    BY <1>1, <1>2, <1>3
  <2>2. spent' \subseteq [nonce : Nonces, at : Seconds, by : Keepers]
    BY <1>1, <1>3, <1>4
  <2>3. \A v \in Writes : write'[v].stage \in {"checked", "handled"} =>
          write[v].stage \in {"checked", "handled"} /\ write'[v].since = write[v].since
          /\ write'[v].stamp = write[v].stamp
    BY <1>2, <1>5
  <2> QED BY <2>1, <2>2, <2>3 DEF SignedInv, SignedTypeOK
<1>7. \A m \in Kept(n) : m.at \in Nat /\ m.at + SignWindow <= second
  <2> SUFFICES ASSUME NEW m \in Kept(n) PROVE m.at \in Nat /\ m.at + SignWindow <= second
    OBVIOUS
  <2>1. m.at \in Nat
    BY <1>1 DEF Kept, Seconds
  <2>2. ~ (second < m.at + SignWindow)
    BY DEF Found, Remembered
  <2> QED BY <1>1, <2>1, <2>2, SignedAssumption
<1>8. ASSUME NEW v \in Handled, v # w, write[v].nonce = n, write[v].by = keeper,
             keeper = "memory" => write[v].life = starts
      PROVE  write[v].at + SignWindow <= second
  <2>1. Outlives(v) /\ write[v].at \in Nat
    BY <1>1, <1>8 DEF Outlives, Handled, Keepers, Requested, Seconds
  <2>2. PICK m \in spent : m.nonce = n /\ m.by = keeper /\ write[v].at <= m.at
    BY <1>8, <2>1 DEF SignedInv, UsesKept
  <2>3. m.at \in Nat /\ m.at + SignWindow <= second
    BY <1>7, <2>2 DEF Kept
  <2> QED BY <1>1, <2>1, <2>2, <2>3, SignedAssumption
<1>9. \A v \in Handled' : v = w \/ (v # w /\ v \in Handled /\ write'[v] = write[v])
  BY <1>5 DEF Handled
<1>10. OneUseOfNonce'
  <2> SUFFICES ASSUME NEW v \in Handled', NEW x \in Handled', Repeated(v, x)'
               PROVE  (\/ write[v].at + SignWindow <= write[x].at
                       \/ write[x].at + SignWindow <= write[v].at)'
    BY DEF OneUseOfNonce
  <2>1. CASE v = w
    <3>1. x # w /\ x \in Handled /\ write'[x] = write[x]
      BY <1>9, <2>1 DEF Repeated
    <3>2. write[x].at + SignWindow <= second
      BY <1>2, <1>5, <1>8, <2>1, <3>1 DEF Repeated, OneKeeper
    <3> QED BY <1>2, <1>5, <2>1, <3>1, <3>2
  <2>2. CASE x = w
    <3>1. v # w /\ v \in Handled /\ write'[v] = write[v]
      BY <1>9, <2>2 DEF Repeated
    <3>2. write[v].at + SignWindow <= second
      BY <1>2, <1>5, <1>8, <2>2, <3>1 DEF Repeated, OneKeeper
    <3> QED BY <1>2, <1>5, <2>2, <3>1, <3>2
  <2>3. CASE v # w /\ x # w
    <3>1. v \in Handled /\ x \in Handled /\ write'[v] = write[v] /\ write'[x] = write[x]
      BY <1>9, <2>3
    <3>2. Repeated(v, x)
      BY <3>1 DEF Repeated, OneKeeper
    <3> QED BY <3>1, <3>2 DEF SignedInv, OneUseOfNonce
  <2> QED BY <2>1, <2>2, <2>3
<1>11. UsesKept'
  <2> SUFFICES ASSUME NEW v \in Handled'
               PROVE  (/\ write[v].since <= write[v].at /\ write[v].at <= second
                       /\ write[v].life <= starts
                       /\ write[v].by = "memory" /\ write[v].life = starts => keeper = "memory"
                       /\ Outlives(v) =>
                            \E m \in spent : /\ m.nonce = write[v].nonce /\ m.by = write[v].by
                                             /\ write[v].at <= m.at)'
    BY DEF UsesKept
  <2>1. CASE v = w
    <3>1. k.since <= second /\ second <= second /\ starts <= starts
      BY <1>1, <1>2 DEF SignedInv, CheckedBefore
    <3> QED BY <1>2, <1>3, <1>4, <1>5, <2>1, <3>1
  <2>2. CASE v # w
    <3>1. v \in Handled /\ write'[v] = write[v] /\ v \in Writes
      BY <1>9, <2>2 DEF Handled
    <3>2. ASSUME Outlives(v)
          PROVE  \E m \in spent' : /\ m.nonce = write[v].nonce /\ m.by = write[v].by
                                   /\ write[v].at <= m.at
      <4>1. PICK m \in spent : /\ m.nonce = write[v].nonce /\ m.by = write[v].by
                               /\ write[v].at <= m.at
        BY <3>1, <3>2 DEF SignedInv, UsesKept
      <4>2. CASE m \in Kept(n)
        <5>1. write[v].nonce = n /\ write[v].by = keeper
          BY <4>1, <4>2 DEF Kept
        <5>2. write[v].at <= second
          BY <3>1 DEF SignedInv, UsesKept
        <5> QED BY <1>3, <1>4, <5>1, <5>2
      <4>3. CASE m \notin Kept(n)
        BY <1>3, <4>1, <4>3
      <4> QED BY <4>2, <4>3
    <3>3. Outlives(v)' => Outlives(v)
      BY <3>1 DEF Outlives
    <3> QED BY <3>1, <3>2, <3>3 DEF SignedInv, UsesKept
  <2> QED BY <2>1, <2>2
<1>12. CheckedBefore'
  BY <1>2, <1>5 DEF SignedInv, CheckedBefore
<1>13. RefusalKeepsNonce'
  <2> SUFFICES ASSUME NEW m \in spent'
               PROVE  \E v \in Writes :
                        /\ write'[v].stage \in {"handled", "failed", "disowned"}
                        /\ write'[v].nonce = m.nonce /\ write'[v].at = m.at
                        /\ write'[v].by = m.by
    BY DEF RefusalKeepsNonce
  <2>1. CASE m = new
    BY <1>2, <1>4, <1>5, <2>1
  <2>2. CASE m # new
    <3>1. PICK v \in Writes : /\ write[v].stage \in {"handled", "failed", "disowned"}
                              /\ write[v].nonce = m.nonce /\ write[v].at = m.at
                              /\ write[v].by = m.by
      BY <1>3, <2>2 DEF SignedInv, RefusalKeepsNonce
    <3> QED BY <1>5, <3>1
  <2> QED BY <2>1, <2>2
<1> QED BY <1>6, <1>10, <1>11, <1>12, <1>13 DEF SignedInv

(* What ends without its nonce is of the type.                             *)
LEMMA EndedTyped ==
  ASSUME SignedInv, NEW w \in Writes, NEW stage \in {"refused", "failed", "lost"}
  PROVE  /\ Ended(w, stage) \in Requested /\ Ended(w, stage).stage = stage
         /\ [write EXCEPT ![w] = Ended(w, stage)] \in [Writes -> Requested]
<1>1. write[w].nonce \in Nonces /\ write \in [Writes -> Requested]
  BY DEF SignedInv, SignedTypeOK, Requested
<1>2. Ended(w, stage) \in Requested /\ Ended(w, stage).stage = stage
  BY <1>1, SignedAssumption DEF Ended, Unknown, Requested, Stages, Keepers, Seconds
<1> QED BY <1>1, <1>2

LEMMA EndKeeps ==
  ASSUME SignedInv, NEW w \in Writes, write[w].stage \in {"new", "checked"},
         NEW stage \in {"refused", "failed"}, write' = [write EXCEPT ![w] = Ended(w, stage)],
         UNCHANGED <<second, keeper, starts, spent>>
  PROVE  SignedInv'
<1>1. /\ write' \in [Writes -> Requested] /\ write'[w].stage = stage
      /\ \A v \in Writes \ {w} : write'[v] = write[v]
  BY EndedTyped DEF SignedInv, SignedTypeOK
<1>2. SignedTypeOK'
  <2>1. \A v \in Writes : write'[v].stage \in {"checked", "handled"} => write'[v] = write[v]
    BY <1>1
  <2> QED BY <1>1, <2>1 DEF SignedInv, SignedTypeOK
<1>3. second <= second'
  BY DEF SignedInv, SignedTypeOK, Seconds
<1> QED BY <1>1, <1>2, <1>3, UnusedKeeps

LEMMA CheckKeeps ==
  ASSUME SignedInv, NEW w \in Writes, CheckStamp(w)
  PROVE  SignedInv'
<1>1. PICK n \in Nonces, t \in 0..MaxSeconds + SignWindow :
        IF InWindow(t)
        THEN write' = [write EXCEPT ![w] = [@ EXCEPT !.stage = "checked", !.nonce = n,
                                                     !.stamp = t, !.since = second]]
        ELSE Refused(w)
  BY DEF CheckStamp
<1>2. write[w].stage = "new" /\ UNCHANGED <<second, keeper, starts, spent>>
  BY DEF CheckStamp
<1>3. CASE ~ InWindow(t)
  BY <1>1, <1>2, <1>3, EndKeeps DEF Refused
<1>4. CASE InWindow(t)
  <2> DEFINE k == [write[w] EXCEPT !.stage = "checked", !.nonce = n, !.stamp = t, !.since = second]
  <2>1. write \in [Writes -> Requested] /\ write[w] \in Requested /\ second \in Seconds
        /\ second \in Int
    BY DEF SignedInv, SignedTypeOK, Seconds
  <2>2. k \in Requested /\ k.stage = "checked" /\ k.stamp = t /\ k.since = second
    BY <2>1 DEF Requested, Stages
  <2> HIDE DEF k
  <2>3. write' = [write EXCEPT ![w] = k]
    BY <1>1, <1>4 DEF k
  <2>4. write' \in [Writes -> Requested] /\ write'[w] = k
        /\ \A v \in Writes \ {w} : write'[v] = write[v]
    BY <2>1, <2>2, <2>3
  <2>5. SignedTypeOK'
    <3>1. \A v \in Writes : write'[v].stage \in {"checked", "handled"} =>
            /\ write'[v].since - write'[v].stamp <= SignWindow
            /\ write'[v].stamp - write'[v].since <= SignWindow
      BY <1>4, <2>2, <2>4 DEF SignedInv, SignedTypeOK, InWindow
    <3> QED BY <1>2, <2>4, <3>1 DEF SignedInv, SignedTypeOK
  <2>6. second <= second'
    BY <1>2, <2>1
  <2> QED BY <1>2, <2>2, <2>4, <2>5, <2>6, UnusedKeeps
<1> QED BY <1>3, <1>4

LEMMA RequireKeeps ==
  ASSUME SignedInv, NEW w \in Writes, RequireSignature(w)
  PROVE  SignedInv'
<1>1. write[w].stage = "checked" /\ UNCHANGED <<second, keeper, starts>>
  BY DEF RequireSignature
<1>2. CASE Refused(w) /\ UNCHANGED spent
  BY <1>1, <1>2, EndKeeps DEF Refused
<1>3. CASE Adds(w) /\ ~ (Refused(w) /\ UNCHANGED spent)
  <2>1. FALSE \in Found(write[w].nonce) /\ Remember(write[w].nonce) /\ Uses(w, "handled")
    <3>1. PICK found \in Found(write[w].nonce) :
            IF found THEN Refused(w) /\ UNCHANGED spent
            ELSE Remember(write[w].nonce) /\ Uses(w, "handled")
      BY <1>3 DEF Adds
    <3>2. found \in BOOLEAN
      BY DEF Found
    <3>3. found = FALSE
      BY <1>3, <3>1, <3>2
    <3> QED BY <3>1, <3>3
  <2> QED BY <1>1, <2>1, UseKeeps
<1>4. CASE AddFails(w)
  <2>1. CASE write' = [write EXCEPT ![w] = Ended(w, "failed")] /\ UNCHANGED spent
    BY <1>1, <2>1, EndKeeps
  <2>2. CASE /\ FALSE \in Found(write[w].nonce)
             /\ Remember(write[w].nonce)
             /\ Uses(w, "failed") \/ Uses(w, "disowned")
    BY <1>1, <2>2, UseKeeps
  <2> QED BY <1>4, <2>1, <2>2 DEF AddFails
<1> QED BY <1>2, <1>3, <1>4 DEF RequireSignature, Unsigned

(* A new process has what is in Redis, and a life of its own.              *)
LEMMA StartKeeps ==
  ASSUME SignedInv, StartsAgain
  PROVE  SignedInv'
<1>1. /\ write \in [Writes -> Requested] /\ starts \in Nat /\ second \in Nat
      /\ spent \subseteq [nonce : Nonces, at : Seconds, by : Keepers]
  BY SignedAssumption DEF SignedInv, SignedTypeOK, Seconds
<1>2. /\ starts' = starts + 1 /\ starts' \in 0..MaxStarts /\ keeper' \in Keepers
      /\ spent' = {m \in spent : m.by = "redis"} /\ second' = second
  BY <1>1, SignedAssumption DEF StartsAgain, SignedInv, SignedTypeOK
<1>3. \A v \in Writes :
        write'[v] = IF write[v].stage = "checked" THEN Ended(v, "lost") ELSE write[v]
  BY DEF StartsAgain
<1>4. \A v \in Writes : write'[v] \in Requested /\ write'[v].stage # "checked"
                       /\ (write[v].stage # "checked" => write'[v] = write[v])
                       /\ (write'[v].stage = "handled" => write[v].stage = "handled")
  <2> SUFFICES ASSUME NEW v \in Writes
               PROVE  /\ write'[v] \in Requested /\ write'[v].stage # "checked"
                      /\ write[v].stage # "checked" => write'[v] = write[v]
                      /\ write'[v].stage = "handled" => write[v].stage = "handled"
    OBVIOUS
  <2>1. write[v] \in Requested /\ Ended(v, "lost") \in Requested /\ Ended(v, "lost").stage = "lost"
    BY <1>1, EndedTyped
  <2> QED BY <1>3, <2>1
<1>5. Handled' = Handled /\ \A v \in Handled : v \in Writes /\ write'[v] = write[v]
  BY <1>4 DEF Handled
<1>6. SignedTypeOK'
  <2>1. write' \in [Writes -> Requested]
    <3>1. DOMAIN write' = Writes /\ write' = [v \in Writes |-> write'[v]]
      BY DEF StartsAgain
    <3> QED BY <1>4, <3>1
  <2>2. \A v \in Writes : write'[v].stage \in {"checked", "handled"} =>
          /\ write'[v].since - write'[v].stamp <= SignWindow
          /\ write'[v].stamp - write'[v].since <= SignWindow
    BY <1>4 DEF SignedInv, SignedTypeOK
  <2> QED BY <1>1, <1>2, <2>1, <2>2 DEF SignedInv, SignedTypeOK
<1>7. UsesKept'
  <2> SUFFICES ASSUME NEW v \in Handled
               PROVE  /\ write[v].since <= write[v].at /\ write[v].at <= second
                      /\ write[v].life <= starts + 1
                      /\ write[v].life # starts + 1
                      /\ write[v].by = "redis" =>
                           \E m \in spent' : /\ m.nonce = write[v].nonce /\ m.by = write[v].by
                                             /\ write[v].at <= m.at
    BY <1>2, <1>5 DEF UsesKept, Outlives
  <2>1. write[v].life \in Nat /\ write[v].life <= starts
    BY <1>1, <1>5 DEF SignedInv, UsesKept, Requested
  <2>2. write[v].by = "redis" =>
          \E m \in spent : /\ m.nonce = write[v].nonce /\ m.by = write[v].by
                           /\ write[v].at <= m.at
    BY DEF SignedInv, UsesKept, Outlives
  <2> QED BY <1>1, <1>2, <2>1, <2>2 DEF SignedInv, UsesKept
<1>8. CheckedBefore'
  BY <1>4 DEF CheckedBefore
<1>9. OneUseOfNonce'
  BY <1>5 DEF SignedInv, OneUseOfNonce, Repeated, OneKeeper
<1>10. RefusalKeepsNonce'
  BY <1>2, <1>4 DEF SignedInv, RefusalKeepsNonce
<1> QED BY <1>6, <1>7, <1>8, <1>9, <1>10 DEF SignedInv

LEMMA SignedKept == SignedInv /\ [SignedNext]_signedVars => SignedInv'
<1> SUFFICES ASSUME SignedInv, [SignedNext]_signedVars PROVE SignedInv'
  OBVIOUS
<1>1. second \in Nat
  BY SignedAssumption DEF SignedInv, SignedTypeOK, Seconds
<1>2. CASE SignedTick
  <2>1. SignedTypeOK' /\ second <= second' /\ UNCHANGED <<keeper, starts, spent, write>>
    BY <1>1, <1>2, SignedAssumption DEF SignedTick, SignedInv, SignedTypeOK, Seconds
  <2> QED BY <2>1, UnusedKeeps
<1>3. CASE UNCHANGED signedVars
  <2>1. SignedTypeOK' /\ second <= second' /\ UNCHANGED <<keeper, starts, spent, write>>
    BY <1>1, <1>3 DEF signedVars, SignedInv, SignedTypeOK
  <2> QED BY <2>1, UnusedKeeps
<1>4. ASSUME NEW w \in Writes, RefusedEarly(w) PROVE SignedInv'
  BY <1>4, EndKeeps DEF RefusedEarly, Refused
<1> QED BY <1>2, <1>3, <1>4, CheckKeeps, RequireKeeps, StartKeeps DEF SignedNext

(* So far apart, a message is repeated past the window of its stamp, unless*)
(* the stamp was ahead.                                                    *)
LEMMA HandledApart == SignedInv => HandledOnce
<1> SUFFICES ASSUME SignedInv, NEW v \in Handled, NEW w \in Handled, Repeated(v, w),
                    write[v].stamp = write[w].stamp, write[v].at <= write[w].at,
                    ~ (write[v].stamp > write[v].at),
                    ~ (write[w].since < write[w].at)
             PROVE  write[w].since = write[w].stamp + SignWindow
  BY DEF HandledOnce
<1>1. /\ write[v].stamp \in Int /\ write[v].at \in Int /\ write[w].at \in Int
      /\ write[w].since \in Int
  BY DEF SignedInv, SignedTypeOK, Handled, Requested, Seconds
<1>2. write[w].since = write[w].at
  BY <1>1 DEF SignedInv, UsesKept
<1>3. write[v].at + SignWindow <= write[w].at
  BY <1>1, SignedAssumption DEF SignedInv, OneUseOfNonce
<1>4. write[w].since - write[w].stamp <= SignWindow
  BY DEF SignedInv, SignedTypeOK, Handled
<1> QED BY <1>1, <1>2, <1>3, <1>4, SignedAssumption

(* For any number of requests, nonces and starts of the process, whether   *)
(* Redis fails or not: two requests with one nonce are handled only its    *)
(* life apart while it is kept, a message is handled again only at the     *)
(* edge of its window or if its stamp was ahead, and a request that was    *)
(* refused used no nonce up.                                               *)
THEOREM NonceOnce == SignedSpec => []NonceUsedOnce
<1>1. SignedInv => NonceUsedOnce
  BY HandledApart DEF SignedInv, NonceUsedOnce
<1> QED BY <1>1, SignedBegins, SignedKept, PTL DEF SignedSpec

(* The types of what a request carries; it is within the window.           *)
THEOREM SignedKeepsTypes == SignedSpec => []SignedTypeOK
<1>1. SignedInv => SignedTypeOK
  BY DEF SignedInv
<1> QED BY <1>1, SignedBegins, SignedKept, PTL DEF SignedSpec

-----------------------------------------------------------------------------
(* RequestGate *)

LimiterTyped ==
  /\ now \in Times
  /\ inRedis \in BOOLEAN
  /\ hits \subseteq Requests
  /\ pc \in [Requests -> {"new", "stamped", "counted", "limited", "allowed"}]
  /\ stamp \in [Requests -> Times]
  /\ company \subseteq Requests
  /\ uncounted \subseteq Requests
  /\ Cardinality(UnderWay) <= MaxUnderWay
  /\ \A r \in Requests : stamp[r] <= now
  /\ ~inRedis => Cardinality(hits) <= Limit /\ \A r \in Requests : pc[r] # "counted"

(* Those still to be let through with a stamp up to t, and those of them   *)
(* that have counted the stamps already.                                   *)
Awaiting(t) == {r \in UnderWay : stamp[r] <= t}
Counters(t) == {r \in Requests : pc[r] = "counted" /\ stamp[r] <= t}

(* A window is whole while no later request removed a stamp of it; then    *)
(* what is let through was counted, but for those that counted together.   *)
Together == IF inRedis THEN MaxUnderWay - 1 ELSE 0
WholeWindow(t) ==
  /\ Admitted(t) \subseteq hits
  /\ Cardinality(Admitted(t)) + Cardinality(Counters(t)) <= Limit + Together

(* Once one has, only those that were under way beside it can still come.  *)
PastWindow(t) ==
  /\ now > t
  /\ Cardinality(Admitted(t)) + Cardinality(Awaiting(t)) <= Limit + Excess

Windows == \A t \in Times : WholeWindow(t) \/ PastWindow(t)

(* A request that was let through and counted has its stamp kept, until    *)
(* one comes for which it is too old.                                      *)
Decided(r) == pc[r] \notin {"new", "stamped"}
StampsKept ==
  \A q \in Allowed \ uncounted :
    q \in hits \/ \E p \in Requests : Decided(p) /\ stamp[q] + Window <= stamp[p]

(* Who has company neither before nor after at the limiter came last.      *)
AloneIsLast ==
  \A r \in UnderWay \ company :
    UnderWay = {r} /\ \A p \in Requests : pc[p] # "new" => stamp[p] <= stamp[r]

InWindowOf(r) == {q \in Allowed \ uncounted : stamp[r] < stamp[q] + Window}
AloneCounted ==
  \A r \in Requests \ company :
    pc[r] = "counted" => Cardinality(InWindowOf(r)) < Limit

LimiterInv == LimiterTyped /\ Windows /\ StampsKept /\ AloneIsLast /\ AloneCounted

(* Counting. *)
LEMMA Fewer ==
  ASSUME NEW T, IsFiniteSet(T), NEW S, S \subseteq T
  PROVE  /\ IsFiniteSet(S) /\ Cardinality(S) \in Nat /\ Cardinality(T) \in Nat
         /\ Cardinality(S) <= Cardinality(T)
BY FS_Subset, FS_CardinalityType

LEMMA OneMore ==
  ASSUME NEW S, IsFiniteSet(S), NEW x, NEW T, T \subseteq S \cup {x}
  PROVE  Cardinality(T) <= Cardinality(S) + 1
<1>1. IsFiniteSet(S \cup {x}) /\ Cardinality(S \cup {x}) <= Cardinality(S) + 1
  <2>1. CASE x \in S
    <3>1. S \cup {x} = S
      BY <2>1
    <3> QED BY <3>1, Fewer
  <2>2. CASE x \notin S
    BY <2>2, FS_AddElement, Fewer
  <2> QED BY <2>1, <2>2
<1> QED BY <1>1, Fewer

LEMMA OneLess ==
  ASSUME NEW S, IsFiniteSet(S), NEW x \in S, NEW T, T \subseteq S \ {x}
  PROVE  Cardinality(T) <= Cardinality(S) - 1
<1>1. IsFiniteSet(S \ {x}) /\ Cardinality(S \ {x}) = Cardinality(S) - 1
  BY FS_RemoveElement
<1> QED BY <1>1, Fewer

LEMMA RequestsFinite ==
  ASSUME NEW S, S \subseteq Requests
  PROVE  IsFiniteSet(S) /\ Cardinality(S) \in Nat
BY GateAssumption, Fewer

LEMMA ExcessIs ==
  ASSUME inRedis \in BOOLEAN
  PROVE  Together \in Nat /\ Excess = Together + MaxUnderWay - 1
BY GateAssumption DEF Together, Excess

LEMMA LimiterBegins == GateInit => LimiterInv
<1> SUFFICES ASSUME GateInit PROVE LimiterInv
  OBVIOUS
<1> USE GateAssumption DEF GateInit
<1>1. UnderWay = {} /\ Allowed = {} /\ \A t : Counters(t) = {} /\ Admitted(t) = {}
  BY DEF UnderWay, Allowed, Counters, Admitted
<1>2. Cardinality({}) = 0
  BY FS_EmptySet
<1>3. LimiterTyped
  BY <1>1, <1>2 DEF LimiterTyped, Times
<1>4. Together \in Nat
  BY <1>3, ExcessIs DEF LimiterTyped
<1>5. Windows
  BY <1>1, <1>2, <1>4 DEF Windows, WholeWindow
<1>6. StampsKept /\ AloneIsLast /\ AloneCounted
  BY <1>1 DEF StampsKept, AloneIsLast, AloneCounted
<1> QED BY <1>3, <1>5, <1>6 DEF LimiterInv

(* The numbers of the invariant are numbers. *)
LEMMA LimiterNumbers ==
  ASSUME LimiterTyped, NEW t
  PROVE  /\ Admitted(t) \subseteq Requests /\ Cardinality(Admitted(t)) \in Nat
         /\ Counters(t) \subseteq UnderWay /\ Cardinality(Counters(t)) \in Nat
         /\ Awaiting(t) \subseteq UnderWay /\ Cardinality(Awaiting(t)) \in Nat
         /\ UnderWay \subseteq Requests /\ Cardinality(UnderWay) \in Nat
         /\ Cardinality(hits) \in Nat
<1>1. /\ Admitted(t) \subseteq Requests /\ UnderWay \subseteq Requests
      /\ Counters(t) \subseteq UnderWay /\ Awaiting(t) \subseteq UnderWay /\ hits \subseteq Requests
  BY DEF Admitted, Allowed, UnderWay, Counters, Awaiting, LimiterTyped
<1>2. Counters(t) \subseteq Requests /\ Awaiting(t) \subseteq Requests
  BY <1>1
<1> QED BY <1>1, <1>2, RequestsFinite

(* A later request removes stamps of the window: it is under way itself.   *)
LEMMA WindowEnds ==
  ASSUME LimiterTyped, NEW t \in Times, NEW r \in UnderWay, t < stamp[r],
         WholeWindow(t) \/ PastWindow(t)
  PROVE  PastWindow(t)
<1>1. now > t
  BY DEF LimiterTyped, UnderWay, Times
<1>2. CASE WholeWindow(t)
  <2>1. Awaiting(t) \subseteq UnderWay \ {r}
    BY DEF Awaiting, LimiterTyped, Times, UnderWay
  <2>2. Cardinality(Awaiting(t)) <= Cardinality(UnderWay) - 1
    BY <2>1, OneLess, LimiterNumbers, RequestsFinite
  <2>3. Cardinality(Awaiting(t)) <= MaxUnderWay - 1
    BY <2>2, LimiterNumbers, GateAssumption DEF LimiterTyped
  <2>4. Cardinality(Admitted(t)) <= Limit + Together
    BY <1>2, LimiterNumbers, ExcessIs, GateAssumption DEF WholeWindow, LimiterTyped
  <2> QED
    BY <1>1, <2>3, <2>4, LimiterNumbers, ExcessIs, GateAssumption DEF PastWindow, LimiterTyped
<1> QED BY <1>2

-----------------------------------------------------------------------------
LEMMA LimiterTypesKept == LimiterTyped /\ [GateNext]_gateVars => LimiterTyped'
<1> SUFFICES ASSUME LimiterTyped, [GateNext]_gateVars PROVE LimiterTyped'
  OBVIOUS
<1> USE GateAssumption DEF LimiterTyped, Times
<1>1. IsFiniteSet(UnderWay) /\ Cardinality(UnderWay) \in Nat
  BY RequestsFinite DEF UnderWay
<1>2. ASSUME UnderWay' \subseteq UnderWay PROVE Cardinality(UnderWay') <= MaxUnderWay
  BY <1>1, <1>2, Fewer
<1>3. CASE Tick
  <2>1. UnderWay' = UnderWay
    BY <1>3 DEF Tick, UnderWay
  <2> QED BY <1>2, <1>3, <2>1 DEF Tick
<1>4. ASSUME NEW r \in Requests, Stamps(r) PROVE LimiterTyped'
  <2>1. UnderWay' \subseteq UnderWay \cup {r}
    BY <1>4 DEF Stamps, UnderWay
  <2>2. Cardinality(UnderWay') <= MaxUnderWay
    <3>1. UnderWay' \subseteq Requests /\ Cardinality(UnderWay') \in Nat
      BY RequestsFinite DEF UnderWay
    <3>2. Cardinality(UnderWay) < MaxUnderWay
      BY <1>4 DEF Stamps
    <3>3. Cardinality(UnderWay') <= Cardinality(UnderWay) + 1
      BY <1>1, <2>1, OneMore
    <3> QED BY <1>1, <3>1, <3>2, <3>3
  <2>3. company' \subseteq Requests
    BY <1>4 DEF Stamps, UnderWay
  <2>4. stamp' \in [Requests -> Times] /\ \A q \in Requests : stamp'[q] <= now'
    BY <1>4 DEF Stamps
  <2>5. pc' \in [Requests -> {"new", "stamped", "counted", "limited", "allowed"}]
        /\ \A q \in Requests : pc'[q] = "counted" => pc[q] = "counted"
    BY <1>4 DEF Stamps
  <2> QED BY <1>4, <2>2, <2>3, <2>4, <2>5 DEF Stamps
<1>5. ASSUME NEW r \in Requests, MemAllow(r) PROVE LimiterTyped'
  <2>1. UnderWay' \subseteq UnderWay
    BY <1>5 DEF MemAllow, UnderWay, Decide
  <2>2. PICK swept \in BOOLEAN :
          /\ LET kept == IF swept THEN {} ELSE MemKept(stamp[r]) IN
             IF Cardinality(kept) >= Limit
             THEN hits' = kept /\ Decide(r, "limited") /\ UNCHANGED turn
             ELSE /\ hits' = kept \cup {r}
                  /\ turn' = [turn EXCEPT ![r] = Cardinality(Allowed)]
                  /\ Decide(r, "allowed")
          /\ uncounted' = IF swept
                          THEN uncounted \cup {q \in Allowed : stamp[r] <= stamp[q] + Window}
                          ELSE uncounted
    BY <1>5 DEF MemAllow
  <2> DEFINE kept == IF swept THEN {} ELSE MemKept(stamp[r])
  <2>3. kept \subseteq hits /\ IsFiniteSet(kept) /\ Cardinality(kept) \in Nat
        /\ Cardinality(kept) <= Cardinality(hits) /\ Cardinality(hits) \in Nat
    <3>1. kept \subseteq hits /\ IsFiniteSet(hits)
      BY RequestsFinite DEF MemKept
    <3> QED BY <3>1, Fewer
  <2>4. hits' \subseteq Requests /\ Cardinality(hits') <= Limit
    <3>1. CASE Cardinality(kept) >= Limit
      BY <1>5, <2>2, <2>3, <3>1 DEF MemAllow
    <3>2. CASE ~(Cardinality(kept) >= Limit)
      <4>1. hits' = kept \cup {r} /\ hits' \subseteq Requests
        BY <2>2, <2>3, <3>2
      <4>2. Cardinality(hits') <= Cardinality(kept) + 1 /\ Cardinality(hits') \in Nat
        BY <4>1, <2>3, OneMore, RequestsFinite
      <4> QED BY <4>1, <4>2, <2>3, <3>2
    <3> QED BY <3>1, <3>2
  <2>5. pc' \in [Requests -> {"new", "stamped", "counted", "limited", "allowed"}]
        /\ \A q \in Requests : pc'[q] # "counted"
    BY <1>5, <2>2 DEF MemAllow, Decide
  <2>6. uncounted' \subseteq Requests
    BY <2>2 DEF Allowed
  <2> QED BY <1>2, <1>5, <2>1, <2>4, <2>5, <2>6 DEF MemAllow
<1>6. ASSUME NEW r \in Requests, RedisCounts(r) PROVE LimiterTyped'
  <2>1. UnderWay' \subseteq UnderWay
    BY <1>6 DEF RedisCounts, UnderWay, Decide
  <2> QED BY <1>2, <1>6, <2>1 DEF RedisCounts, RedisKept, Decide
<1>7. ASSUME NEW r \in Requests, RedisAdds(r) PROVE LimiterTyped'
  <2>1. UnderWay' \subseteq UnderWay
    BY <1>7 DEF RedisAdds, UnderWay, Decide
  <2> QED BY <1>2, <1>7, <2>1 DEF RedisAdds, Decide
<1>8. ASSUME NEW r \in Requests, RedisFails(r) PROVE LimiterTyped'
  <2>1. UnderWay' \subseteq UnderWay
    BY <1>8 DEF RedisFails, UnderWay, Decide
  <2> QED BY <1>2, <1>8, <2>1 DEF RedisFails, Decide
<1>10. CASE UNCHANGED gateVars
  <2>1. UnderWay' = UnderWay
    BY <1>10 DEF gateVars, UnderWay
  <2> QED BY <1>2, <1>10, <2>1 DEF gateVars
<1> QED BY <1>3, <1>4, <1>5, <1>6, <1>7, <1>8, <1>10 DEF GateNext

(* What MemAllow does, taken apart once: the key is kept or swept, and the *)
(* request is limited or let through.                                      *)
MemLimits(r, kept) ==
  /\ Cardinality(kept) >= Limit
  /\ hits' = kept
  /\ pc' = [pc EXCEPT ![r] = "limited"]
MemLets(r, kept) ==
  /\ ~(Cardinality(kept) >= Limit)
  /\ hits' = kept \cup {r}
  /\ pc' = [pc EXCEPT ![r] = "allowed"]

LEMMA MemCases ==
  ASSUME NEW r \in Requests, MemAllow(r)
  PROVE  \/ /\ uncounted' = uncounted
            /\ MemLimits(r, MemKept(stamp[r])) \/ MemLets(r, MemKept(stamp[r]))
         \/ /\ uncounted' = uncounted \cup {q \in Allowed : stamp[r] <= stamp[q] + Window}
            /\ \E q \in hits : IsLast(q) /\ stamp[q] + Window < stamp[r]
            /\ MemLets(r, {})
<1>1. PICK swept \in BOOLEAN :
        /\ swept => \E q \in hits : IsLast(q) /\ stamp[q] + Window < stamp[r]
        /\ LET kept == IF swept THEN {} ELSE MemKept(stamp[r]) IN
           IF Cardinality(kept) >= Limit
           THEN hits' = kept /\ Decide(r, "limited") /\ UNCHANGED turn
           ELSE /\ hits' = kept \cup {r}
                /\ turn' = [turn EXCEPT ![r] = Cardinality(Allowed)]
                /\ Decide(r, "allowed")
        /\ uncounted' = IF swept
                        THEN uncounted \cup {q \in Allowed : stamp[r] <= stamp[q] + Window}
                        ELSE uncounted
  BY DEF MemAllow
<1>2. CASE swept
  <2>1. Cardinality({}) = 0 /\ ~(0 >= Limit)
    BY FS_EmptySet, GateAssumption
  <2> QED BY <1>1, <1>2, <2>1 DEF MemLets, Decide
<1>3. CASE ~swept
  BY <1>1, <1>3 DEF MemLimits, MemLets, Decide
<1> QED BY <1>2, <1>3

(* Who had no company finds every stamp of its window kept.                *)
LEMMA AloneSees ==
  ASSUME LimiterTyped, StampsKept, AloneIsLast, NEW r \in UnderWay \ company
  PROVE  InWindowOf(r) \subseteq hits
<1> SUFFICES ASSUME NEW q \in InWindowOf(r), q \notin hits PROVE FALSE
  OBVIOUS
<1>1. q \in Allowed \ uncounted /\ stamp[r] < stamp[q] + Window
  BY DEF InWindowOf
<1>2. PICK p \in Requests : Decided(p) /\ stamp[q] + Window <= stamp[p]
  BY <1>1 DEF StampsKept
<1>3. stamp[p] <= stamp[r]
  BY <1>2 DEF AloneIsLast, Decided
<1> QED
  BY <1>1, <1>2, <1>3, GateAssumption DEF LimiterTyped, Times, Allowed, UnderWay

(* The steps of a request that is at the limiter.                          *)
Limits(r) == MemAllow(r) \/ RedisCounts(r) \/ RedisAdds(r) \/ RedisFails(r)

LEMMA LimitsMoves ==
  ASSUME LimiterTyped, NEW r \in Requests, Limits(r)
  PROVE  /\ r \in UnderWay
         /\ UNCHANGED <<now, inRedis, stamp, company>>
         /\ \A q \in Requests \ {r} : pc'[q] = pc[q]
         /\ pc'[r] \in {"counted", "limited", "allowed"}
         /\ pc'[r] = "counted" => RedisCounts(r)
         /\ uncounted \subseteq uncounted'
<1>1. CASE MemAllow(r)
  <2>1. pc[r] = "stamped" /\ UNCHANGED <<now, inRedis, stamp, company>>
    BY <1>1 DEF MemAllow
  <2>2. uncounted \subseteq uncounted'
        /\ (pc' = [pc EXCEPT ![r] = "limited"] \/ pc' = [pc EXCEPT ![r] = "allowed"])
    BY <1>1, MemCases DEF MemLimits, MemLets
  <2> QED BY <2>1, <2>2 DEF LimiterTyped, UnderWay
<1>2. CASE RedisCounts(r)
  BY <1>2 DEF RedisCounts, Decide, LimiterTyped, UnderWay
<1>3. CASE RedisAdds(r)
  BY <1>3 DEF RedisAdds, Decide, LimiterTyped, UnderWay
<1>4. CASE RedisFails(r)
  BY <1>4 DEF RedisFails, Decide, LimiterTyped, UnderWay
<1> QED BY <1>1, <1>2, <1>3, <1>4 DEF Limits

LEMMA StampsStayKept ==
  ASSUME LimiterTyped, StampsKept, NEW r \in Requests, Limits(r)
  PROVE  StampsKept'
<1> SUFFICES ASSUME NEW q \in (Allowed \ uncounted)', q \notin hits'
             PROVE  \E p \in Requests : Decided(p)' /\ stamp'[q] + Window <= stamp'[p]
  BY DEF StampsKept
<1>1. q \in Requests /\ \A p \in Requests : Decided(p) => Decided(p)'
  BY LimitsMoves DEF Allowed, Decided
<1>2. stamp' = stamp /\ Decided(r)'
  BY LimitsMoves DEF Decided
<1>3. q # r => q \in Allowed \ uncounted
  BY LimitsMoves DEF Allowed
<1>4. CASE q # r /\ q \notin hits
  BY <1>1, <1>2, <1>3, <1>4 DEF StampsKept
<1>5. CASE q = r \/ q \in hits
  <2> SUFFICES stamp[q] + Window <= stamp[r]
    BY <1>2
  <2> USE GateAssumption DEF LimiterTyped, Times
  <2>1. CASE MemAllow(r)
    <3>1. \/ /\ uncounted' = uncounted
             /\ MemLimits(r, MemKept(stamp[r])) \/ MemLets(r, MemKept(stamp[r]))
          \/ /\ uncounted' = uncounted \cup {p \in Allowed : stamp[r] <= stamp[p] + Window}
             /\ MemLets(r, {})
      BY <2>1, MemCases
    <3>2. q # r
      <4>1. CASE \E kept : MemLimits(r, kept)
        BY <4>1 DEF MemLimits, Allowed
      <4>2. CASE \E kept : MemLets(r, kept)
        BY <4>2 DEF MemLets
      <4> QED BY <3>1, <4>1, <4>2
    <3>3. q \in Allowed \ uncounted /\ q \in hits
      BY <1>3, <1>5, <3>2
    <3>4. CASE uncounted' = uncounted
               /\ (MemLimits(r, MemKept(stamp[r])) \/ MemLets(r, MemKept(stamp[r])))
      BY <3>3, <3>4, <1>1 DEF MemLimits, MemLets, MemKept
    <3>5. CASE uncounted' = uncounted \cup {p \in Allowed : stamp[r] <= stamp[p] + Window}
      BY <3>3, <3>5, <1>1
    <3> QED BY <3>1, <3>4, <3>5
  <2>2. CASE RedisCounts(r)
    <3>1. q # r
      BY <2>2 DEF RedisCounts, Decide, Allowed
    <3> QED BY <2>2, <3>1, <1>1, <1>5 DEF RedisCounts, RedisKept
  <2>3. CASE RedisAdds(r)
    BY <2>3, <1>5 DEF RedisAdds
  <2>4. CASE RedisFails(r)
    BY <2>4, <1>5 DEF RedisFails
  <2> QED BY <2>1, <2>2, <2>3, <2>4 DEF Limits
<1> QED BY <1>4, <1>5

LEMMA AloneStays ==
  ASSUME LimiterTyped, StampsKept, AloneIsLast, AloneCounted,
         NEW r \in Requests, Limits(r)
  PROVE  AloneIsLast' /\ AloneCounted'
<1>1. UnderWay' \subseteq UnderWay /\ r \in UnderWay /\ company' = company /\ stamp' = stamp
  BY LimitsMoves DEF UnderWay
<1>2. \A p \in Requests : pc'[p] # "new" => pc[p] # "new"
  BY LimitsMoves DEF UnderWay
<1>3. AloneIsLast'
  BY <1>1, <1>2 DEF AloneIsLast
<1>4. ASSUME NEW q \in Requests \ company, pc'[q] = "counted"
      PROVE  Cardinality(InWindowOf(q)') < Limit
  <2>1. q \in UnderWay /\ q = r
    BY <1>1, <1>4 DEF AloneIsLast, UnderWay
  <2>2. RedisCounts(r)
    BY <1>4, <2>1, LimitsMoves
  <2>3. hits' = RedisKept(stamp[r]) /\ Cardinality(hits') < Limit
    <3>1. hits' = RedisKept(stamp[r]) /\ ~(Cardinality(hits') >= Limit)
      BY <1>4, <2>1, <2>2 DEF RedisCounts, Decide, LimiterTyped
    <3>2. Cardinality(hits') \in Nat
      BY <3>1, RequestsFinite DEF RedisKept, LimiterTyped
    <3> QED BY <3>1, <3>2, GateAssumption
  <2>4. (Allowed \ uncounted)' = Allowed \ uncounted
    BY <1>4, <2>1, <2>2 DEF RedisCounts, Decide, Allowed, LimiterTyped
  <2>5. InWindowOf(q)' = InWindowOf(r) /\ InWindowOf(r) \subseteq hits
    BY <1>1, <1>4, <2>1, <2>4, AloneSees DEF InWindowOf
  <2>6. InWindowOf(r) \subseteq hits'
    BY <2>3, <2>5, GateAssumption DEF InWindowOf, RedisKept, LimiterTyped, Times, Allowed
  <2>7. hits' \subseteq Requests
    BY <2>3 DEF RedisKept, LimiterTyped
  <2>8. IsFiniteSet(hits') /\ Cardinality(hits') \in Nat
    BY <2>7, RequestsFinite
  <2>9. Cardinality(InWindowOf(r)) <= Cardinality(hits') /\ Cardinality(InWindowOf(r)) \in Nat
    BY <2>6, <2>8, Fewer
  <2> QED BY <2>3, <2>5, <2>8, <2>9, GateAssumption
<1> QED BY <1>1, <1>3, <1>4 DEF AloneCounted

-----------------------------------------------------------------------------
(* A window to which nothing is added keeps its bound. *)
LEMMA WindowStays ==
  ASSUME LimiterTyped, LimiterTyped', NEW t \in Times, WholeWindow(t) \/ PastWindow(t),
         inRedis' = inRedis, now' >= now, hits \subseteq hits',
         Admitted(t)' \subseteq Admitted(t), Counters(t)' \subseteq Counters(t),
         now > t => Awaiting(t)' \subseteq Awaiting(t)
  PROVE  (WholeWindow(t) \/ PastWindow(t))'
<1>1. Together' = Together /\ Excess' = Excess /\ Together \in Nat /\ Excess \in Int
  BY ExcessIs, GateAssumption DEF Together, Excess, LimiterTyped
<1>2. /\ Cardinality(Admitted(t)') <= Cardinality(Admitted(t))
      /\ Cardinality(Counters(t)') <= Cardinality(Counters(t))
      /\ Cardinality(Admitted(t)') \in Nat /\ Cardinality(Counters(t)') \in Nat
      /\ Cardinality(Admitted(t)) \in Nat /\ Cardinality(Counters(t)) \in Nat
  <2>1. IsFiniteSet(Admitted(t)) /\ IsFiniteSet(Counters(t))
    BY RequestsFinite DEF Admitted, Allowed, Counters
  <2> QED BY <2>1, Fewer
<1>3. CASE WholeWindow(t)
  <2>1. Admitted(t)' \subseteq hits'
    BY <1>3 DEF WholeWindow
  <2>2. Cardinality(Admitted(t)') + Cardinality(Counters(t)') <= Limit + Together
    BY <1>2, <1>3, <1>1, GateAssumption DEF WholeWindow
  <2> QED BY <1>1, <2>1, <2>2 DEF WholeWindow
<1>4. CASE PastWindow(t)
  <2>1. now > t /\ now' > t
    BY <1>4 DEF PastWindow, LimiterTyped, Times
  <2>2. Cardinality(Awaiting(t)') <= Cardinality(Awaiting(t))
        /\ Cardinality(Awaiting(t)') \in Nat /\ Cardinality(Awaiting(t)) \in Nat
    <3>1. IsFiniteSet(Awaiting(t))
      BY RequestsFinite DEF Awaiting, UnderWay
    <3> QED BY <2>1, <3>1, Fewer
  <2>3. Cardinality(Admitted(t)') + Cardinality(Awaiting(t)') <= Limit + Excess
    BY <1>1, <1>2, <1>4, <2>2, GateAssumption DEF PastWindow
  <2> QED BY <1>1, <2>1, <2>3 DEF PastWindow
<1> QED BY <1>3, <1>4

(* What a step at the limiter does to a window, whichever it is.           *)
LEMMA LimitsWindow ==
  ASSUME LimiterTyped, NEW r \in Requests, Limits(r), NEW t \in Times
  PROVE  /\ Admitted(t)' \subseteq Admitted(t) \cup {r}
         /\ Awaiting(t)' \subseteq Awaiting(t)
         /\ r \notin Admitted(t)
         /\ r \in Admitted(t)' => stamp[r] <= t /\ pc'[r] = "allowed"
         /\ pc'[r] # "counted" => r \notin Awaiting(t)' /\ r \notin Counters(t)'
         /\ Counters(t)' \subseteq Counters(t) \cup {r}
         /\ stamp[r] <= t => r \in Awaiting(t)
<1>1. /\ r \in UnderWay
      /\ UNCHANGED <<now, inRedis, stamp, company>>
      /\ \A q \in Requests \ {r} : pc'[q] = pc[q]
      /\ pc'[r] \in {"counted", "limited", "allowed"}
      /\ uncounted \subseteq uncounted'
  BY LimitsMoves
<1>2. r \notin Allowed /\ Allowed' \subseteq Allowed \cup {r} /\ (r \in Allowed' => pc'[r] = "allowed")
  BY <1>1 DEF Allowed, UnderWay
<1>3. /\ Admitted(t)' \subseteq Admitted(t) \cup {r}
      /\ r \notin Admitted(t)
      /\ r \in Admitted(t)' => stamp[r] <= t /\ pc'[r] = "allowed"
  BY <1>1, <1>2 DEF Admitted
<1>4. /\ UnderWay' \subseteq UnderWay
      /\ pc'[r] # "counted" => r \notin UnderWay'
  BY <1>1 DEF UnderWay
<1>5. /\ Awaiting(t)' \subseteq Awaiting(t)
      /\ pc'[r] # "counted" => r \notin Awaiting(t)' /\ r \notin Counters(t)'
      /\ stamp[r] <= t => r \in Awaiting(t)
  BY <1>1, <1>4 DEF Awaiting, Counters
<1>6. Counters(t)' \subseteq Counters(t) \cup {r}
  BY <1>1 DEF Counters
<1> QED BY <1>3, <1>5, <1>6

(* A window that is past has room for everyone it waits for.               *)
LEMMA PastStays ==
  ASSUME LimiterTyped, LimiterTyped', NEW r \in Requests, Limits(r),
         NEW t \in Times, PastWindow(t)
  PROVE  PastWindow(t)'
<1>1. now' = now /\ Excess' = Excess /\ Excess \in Int
  BY LimitsMoves, GateAssumption DEF Excess, LimiterTyped
<1>2. /\ IsFiniteSet(Admitted(t)) /\ IsFiniteSet(Awaiting(t))
      /\ Cardinality(Admitted(t)) \in Nat /\ Cardinality(Awaiting(t)) \in Nat
      /\ Cardinality(Admitted(t)') \in Nat /\ Cardinality(Awaiting(t)') \in Nat
  BY RequestsFinite DEF Admitted, Allowed, Awaiting, UnderWay
<1>3. Cardinality(Admitted(t)') + Cardinality(Awaiting(t)')
        <= Cardinality(Admitted(t)) + Cardinality(Awaiting(t))
  <2>1. CASE r \in Admitted(t)'
    <3>1. Awaiting(t)' \subseteq Awaiting(t) \ {r} /\ r \in Awaiting(t)
      BY <2>1, LimitsWindow
    <3>2. Cardinality(Awaiting(t)') <= Cardinality(Awaiting(t)) - 1
      BY <1>2, <3>1, OneLess
    <3>3. Cardinality(Admitted(t)') <= Cardinality(Admitted(t)) + 1
      BY <1>2, LimitsWindow, OneMore
    <3> QED BY <1>2, <3>2, <3>3
  <2>2. CASE r \notin Admitted(t)'
    <3>1. Admitted(t)' \subseteq Admitted(t) /\ Awaiting(t)' \subseteq Awaiting(t)
      BY <2>2, LimitsWindow
    <3>2. Cardinality(Admitted(t)') <= Cardinality(Admitted(t))
      BY <1>2, <3>1, Fewer
    <3>3. Cardinality(Awaiting(t)') <= Cardinality(Awaiting(t))
      BY <1>2, <3>1, Fewer
    <3> QED BY <1>2, <3>2, <3>3
  <2> QED BY <2>1, <2>2
<1> QED BY <1>1, <1>2, <1>3, GateAssumption DEF PastWindow

(* A request with a stamp up to t leaves a whole window whole.             *)
LEMMA MemWhole ==
  ASSUME LimiterTyped, LimiterTyped', NEW r \in Requests, MemAllow(r),
         NEW t \in Times, stamp[r] <= t, WholeWindow(t)
  PROVE  WholeWindow(t)'
<1> USE GateAssumption
<1>1. Limits(r) /\ ~inRedis /\ ~inRedis' /\ stamp' = stamp
  BY DEF Limits, MemAllow
<1>2. Counters(t)' = {} /\ Cardinality({}) = 0 /\ Together' = 0 /\ Together = 0
  BY <1>1, FS_EmptySet DEF Counters, Together, LimiterTyped
<1>3. Admitted(t)' \subseteq Admitted(t) \cup {r} /\ Admitted(t) \subseteq hits
      /\ (r \in Admitted(t)' => pc'[r] = "allowed")
  BY <1>1, LimitsWindow DEF WholeWindow
<1>4. SUFFICES Admitted(t)' \subseteq hits' /\ Cardinality(Admitted(t)') <= Limit
  <2>1. Cardinality(Admitted(t)') \in Nat
    BY RequestsFinite DEF Admitted, Allowed
  <2> QED BY <1>2, <1>4, <2>1 DEF WholeWindow
<1>5. Cardinality(Admitted(t)) <= Limit /\ IsFiniteSet(Admitted(t)) /\ Cardinality(Admitted(t)) \in Nat
  <2>1. IsFiniteSet(Admitted(t)) /\ Cardinality(Admitted(t)) \in Nat /\ Cardinality(Counters(t)) \in Nat
    BY RequestsFinite DEF Admitted, Allowed, Counters
  <2> QED BY <2>1, <1>2 DEF WholeWindow
<1>6. CASE /\ uncounted' = uncounted
           /\ MemLimits(r, MemKept(stamp[r])) \/ MemLets(r, MemKept(stamp[r]))
  <2>1. Admitted(t) \subseteq MemKept(stamp[r])
    BY <1>3 DEF MemKept, Admitted, LimiterTyped, Times, Allowed
  <2>2. IsFiniteSet(MemKept(stamp[r])) /\ Cardinality(MemKept(stamp[r])) \in Nat
    BY RequestsFinite DEF MemKept, LimiterTyped
  <2>3. CASE MemLimits(r, MemKept(stamp[r]))
    <3>1. Admitted(t)' \subseteq Admitted(t) /\ hits' = MemKept(stamp[r])
      BY <2>3, <1>3 DEF MemLimits, LimiterTyped
    <3>2. Cardinality(Admitted(t)') <= Cardinality(Admitted(t)) /\ Cardinality(Admitted(t)') \in Nat
      BY <1>5, <3>1, Fewer
    <3> QED BY <1>5, <2>1, <3>1, <3>2
  <2>4. CASE MemLets(r, MemKept(stamp[r]))
    <3>1. Cardinality(Admitted(t)) <= Cardinality(MemKept(stamp[r]))
      BY <2>1, <2>2, Fewer
    <3>2. Cardinality(MemKept(stamp[r])) < Limit /\ hits' = MemKept(stamp[r]) \cup {r}
      BY <2>2, <2>4 DEF MemLets
    <3>3. Cardinality(Admitted(t)') <= Cardinality(Admitted(t)) + 1 /\ Cardinality(Admitted(t)') \in Nat
      BY <1>3, <1>5, OneMore, RequestsFinite DEF Admitted, Allowed
    <3> QED BY <1>3, <1>5, <2>1, <2>2, <3>1, <3>2, <3>3
  <2> QED BY <1>6, <2>3, <2>4
<1>7. CASE /\ uncounted' = uncounted \cup {q \in Allowed : stamp[r] <= stamp[q] + Window}
           /\ MemLets(r, {})
  <2>1. Admitted(t)' \subseteq {r}
    <3>1. \A q \in Admitted(t) : q \in uncounted'
      BY <1>7 DEF Admitted, LimiterTyped, Times, Allowed
    <3> QED BY <1>3, <3>1 DEF Admitted
  <2>2. hits' = {r}
    BY <1>7 DEF MemLets
  <2>3. Cardinality(Admitted(t)') <= Cardinality({}) + 1 /\ Cardinality(Admitted(t)') \in Nat
    BY <2>1, OneMore, FS_EmptySet, RequestsFinite DEF Admitted, Allowed
  <2> QED BY <1>2, <2>1, <2>2, <2>3
<1> QED BY <1>6, <1>7, MemCases

LEMMA CountWhole ==
  ASSUME LimiterTyped, LimiterTyped', NEW r \in Requests, RedisCounts(r),
         NEW t \in Times, stamp[r] <= t, WholeWindow(t)
  PROVE  WholeWindow(t)'
<1> USE GateAssumption
<1>1. Limits(r) /\ inRedis /\ inRedis' /\ stamp' = stamp /\ hits' = RedisKept(stamp[r])
      /\ pc' = [pc EXCEPT ![r] = IF Cardinality(hits') >= Limit THEN "limited" ELSE "counted"]
  BY DEF Limits, RedisCounts, Decide
<1>2. Together = MaxUnderWay - 1 /\ Together' = Together
  BY <1>1 DEF Together
<1>3. Admitted(t)' \subseteq Admitted(t) /\ Admitted(t) \subseteq hits
  BY <1>1, LimitsWindow DEF WholeWindow, LimiterTyped
<1>4. Admitted(t) \subseteq hits'
  BY <1>1, <1>3 DEF RedisKept, Admitted, LimiterTyped, Times, Allowed
<1>5. /\ IsFiniteSet(hits') /\ Cardinality(hits') \in Nat
      /\ IsFiniteSet(Counters(t)) /\ Cardinality(Counters(t)) \in Nat
      /\ Cardinality(Counters(t)') \in Nat
      /\ IsFiniteSet(UnderWay') /\ Cardinality(UnderWay') \in Nat
  BY RequestsFinite DEF LimiterTyped, Counters, UnderWay
<1>6. /\ Cardinality(Admitted(t)') <= Cardinality(Admitted(t))
      /\ Cardinality(Admitted(t)) <= Cardinality(hits')
      /\ Cardinality(Admitted(t)) \in Nat /\ Cardinality(Admitted(t)') \in Nat
  <2>1. IsFiniteSet(Admitted(t))
    BY RequestsFinite DEF Admitted, Allowed
  <2> QED BY <1>3, <1>4, <1>5, <2>1, Fewer
<1>7. Cardinality(Admitted(t)') + Cardinality(Counters(t)') <= Limit + Together
  <2>1. CASE Cardinality(hits') >= Limit
    <3>1. Counters(t)' \subseteq Counters(t)
      BY <1>1, <2>1 DEF Counters, LimiterTyped
    <3>2. Cardinality(Counters(t)') <= Cardinality(Counters(t))
      BY <1>5, <3>1, Fewer
    <3> QED BY <1>2, <1>5, <1>6, <3>2 DEF WholeWindow
  <2>2. CASE ~(Cardinality(hits') >= Limit)
    <3>1. Counters(t)' \subseteq UnderWay'
      BY DEF Counters, UnderWay
    <3>2. Cardinality(Counters(t)') <= Cardinality(UnderWay')
      BY <1>5, <3>1, Fewer
    <3>3. Cardinality(UnderWay') <= MaxUnderWay
      BY DEF LimiterTyped
    <3> QED BY <1>2, <1>5, <1>6, <2>2, <3>2, <3>3
  <2> QED BY <2>1, <2>2
<1> QED BY <1>2, <1>3, <1>4, <1>7 DEF WholeWindow

LEMMA AddWhole ==
  ASSUME LimiterTyped, LimiterTyped', NEW r \in Requests, RedisAdds(r),
         NEW t \in Times, stamp[r] <= t, WholeWindow(t)
  PROVE  WholeWindow(t)'
<1> USE GateAssumption
<1>1. Limits(r) /\ inRedis' = inRedis /\ hits' = hits \cup {r} /\ pc'[r] = "allowed"
      /\ r \in Counters(t)
  BY DEF Limits, RedisAdds, Decide, LimiterTyped, Counters
<1>2. Together' = Together /\ Together \in Nat
  BY <1>1, ExcessIs DEF Together, LimiterTyped
<1>3. Admitted(t)' \subseteq Admitted(t) \cup {r} /\ Admitted(t) \subseteq hits
      /\ Counters(t)' \subseteq Counters(t) \ {r}
  BY <1>1, LimitsWindow DEF WholeWindow
<1>4. /\ IsFiniteSet(Admitted(t)) /\ IsFiniteSet(Counters(t))
      /\ Cardinality(Admitted(t)) \in Nat /\ Cardinality(Counters(t)) \in Nat
      /\ Cardinality(Admitted(t)') \in Nat /\ Cardinality(Counters(t)') \in Nat
  BY RequestsFinite DEF Admitted, Allowed, Counters
<1>5. Cardinality(Admitted(t)') <= Cardinality(Admitted(t)) + 1
  BY <1>3, <1>4, OneMore
<1>6. Cardinality(Counters(t)') <= Cardinality(Counters(t)) - 1
  BY <1>1, <1>3, <1>4, OneLess
<1> QED BY <1>1, <1>2, <1>3, <1>4, <1>5, <1>6 DEF WholeWindow

LEMMA WindowsLimits ==
  ASSUME LimiterTyped, LimiterTyped', Windows, NEW r \in Requests, Limits(r)
  PROVE  Windows'
<1> SUFFICES ASSUME NEW t \in Times PROVE (WholeWindow(t) \/ PastWindow(t))'
  BY DEF Windows
<1>1. WholeWindow(t) \/ PastWindow(t)
  BY DEF Windows
<1>2. r \in UnderWay /\ now' = now /\ inRedis' = inRedis /\ now \in Times
      /\ stamp[r] \in Times
  BY LimitsMoves DEF LimiterTyped
<1>3. CASE PastWindow(t)
  BY <1>3, PastStays
<1>4. CASE t < stamp[r]
  BY <1>1, <1>2, <1>4, WindowEnds, PastStays
<1>5. CASE stamp[r] <= t /\ WholeWindow(t)
  <2>1. CASE MemAllow(r)
    BY <1>5, <2>1, MemWhole
  <2>2. CASE RedisCounts(r)
    BY <1>5, <2>2, CountWhole
  <2>3. CASE RedisAdds(r)
    BY <1>5, <2>3, AddWhole
  <2>4. CASE RedisFails(r)
    <3>1. hits' = hits /\ pc'[r] = "allowed" /\ r \in uncounted'
      BY <2>4 DEF RedisFails, Decide, LimiterTyped
    <3>2. Admitted(t)' \subseteq Admitted(t) /\ Counters(t)' \subseteq Counters(t)
          /\ Awaiting(t)' \subseteq Awaiting(t)
      BY <3>1, LimitsWindow DEF Admitted
    <3> QED BY <1>1, <1>2, <3>1, <3>2, WindowStays DEF Times
  <2> QED BY <2>1, <2>2, <2>3, <2>4 DEF Limits
<1> QED BY <1>1, <1>2, <1>3, <1>4, <1>5, GateAssumption DEF Times

-----------------------------------------------------------------------------
(* A step at the limiter's door: a request reads the clock. *)
LEMMA StampsInv ==
  ASSUME LimiterInv, LimiterTyped', NEW r \in Requests, Stamps(r)
  PROVE  LimiterInv'
<1> USE GateAssumption DEF LimiterInv
<1>1. /\ pc[r] = "new" /\ pc'[r] = "stamped" /\ stamp'[r] = now
      /\ \A q \in Requests \ {r} : pc'[q] = pc[q] /\ stamp'[q] = stamp[q]
      /\ UNCHANGED <<now, inRedis, hits, uncounted>>
  BY DEF Stamps, LimiterTyped
<1>2. Allowed' = Allowed /\ r \notin Allowed /\ UnderWay' = UnderWay \cup {r}
  BY <1>1 DEF Allowed, UnderWay
<1>3. Windows'
  <2> SUFFICES ASSUME NEW t \in Times PROVE (WholeWindow(t) \/ PastWindow(t))'
    BY DEF Windows
  <2>1. Admitted(t)' \subseteq Admitted(t) /\ Counters(t)' \subseteq Counters(t)
    BY <1>1, <1>2 DEF Admitted, Counters, Allowed
  <2>2. now > t => Awaiting(t)' \subseteq Awaiting(t)
    BY <1>1, <1>2 DEF Awaiting, LimiterTyped, Times, UnderWay
  <2>3. now' >= now
    BY <1>1 DEF LimiterTyped, Times
  <2> QED BY <1>1, <2>1, <2>2, <2>3, WindowStays DEF Windows
<1>4. StampsKept'
  BY <1>1, <1>2 DEF StampsKept, Decided, Allowed
<1>5. AloneIsLast'
  <2>1. CASE UnderWay = {}
    <3>1. UnderWay' = {r} /\ \A p \in Requests : stamp'[p] <= stamp'[r]
      BY <1>1, <1>2, <2>1 DEF LimiterTyped, Times
    <3> QED BY <3>1 DEF AloneIsLast
  <2>2. CASE UnderWay # {}
    <3>1. UnderWay' \subseteq company'
      BY <1>2, <2>2 DEF Stamps
    <3> QED BY <3>1 DEF AloneIsLast
  <2> QED BY <2>1, <2>2
<1>6. AloneCounted'
  <2> SUFFICES ASSUME NEW q \in Requests \ company', pc'[q] = "counted"
               PROVE  Cardinality(InWindowOf(q)') < Limit
    BY DEF AloneCounted
  <2>1. q # r /\ q \in Requests \ company /\ pc[q] = "counted"
    BY <1>1 DEF Stamps
  <2>2. InWindowOf(q)' = InWindowOf(q)
    BY <1>1, <1>2, <2>1 DEF InWindowOf, Allowed
  <2> QED BY <2>1, <2>2 DEF AloneCounted
<1> QED BY <1>3, <1>4, <1>5, <1>6

(* Steps that leave the limiter alone: time passes, or a request that was  *)
(* let through is handled or refused.                                      *)
LEMMA LimiterLeftAlone ==
  ASSUME LimiterInv, LimiterTyped', now' >= now,
         UNCHANGED <<inRedis, hits, stamp, company, uncounted, pc>>
  PROVE  LimiterInv'
<1> USE DEF LimiterInv
<1>1. Allowed' = Allowed /\ UnderWay' = UnderWay
  BY DEF Allowed, UnderWay
<1>2. \A q \in Requests : /\ Decided(q)' <=> Decided(q)
                          /\ pc'[q] # "new" => pc[q] # "new"
                          /\ pc'[q] = "counted" => pc[q] = "counted"
  BY DEF Decided
<1>3. Windows'
  <2> SUFFICES ASSUME NEW t \in Times PROVE (WholeWindow(t) \/ PastWindow(t))'
    BY DEF Windows
  <2>1. Admitted(t)' = Admitted(t) /\ Awaiting(t)' = Awaiting(t) /\ Counters(t)' \subseteq Counters(t)
    BY <1>1, <1>2 DEF Admitted, Awaiting, Counters
  <2> QED BY <2>1, WindowStays DEF Windows
<1>4. StampsKept' /\ AloneIsLast'
  BY <1>1, <1>2 DEF StampsKept, AloneIsLast
<1>5. AloneCounted'
  <2> SUFFICES ASSUME NEW q \in Requests \ company, pc'[q] = "counted"
               PROVE  Cardinality(InWindowOf(q)') < Limit
    BY DEF AloneCounted
  <2>1. InWindowOf(q)' = InWindowOf(q) /\ pc[q] = "counted"
    BY <1>1, <1>2 DEF InWindowOf
  <2> QED BY <2>1 DEF AloneCounted
<1> QED BY <1>3, <1>4, <1>5

LEMMA LimiterKept == LimiterInv /\ [GateNext]_gateVars => LimiterInv'
<1> SUFFICES ASSUME LimiterInv, [GateNext]_gateVars PROVE LimiterInv'
  OBVIOUS
<1>1. LimiterTyped /\ LimiterTyped' /\ now \in Times
  BY LimiterTypesKept DEF LimiterInv, LimiterTyped
<1>2. CASE Tick
  BY <1>1, <1>2, LimiterLeftAlone DEF Tick, Times
<1>3. ASSUME NEW r \in Requests, Stamps(r) PROVE LimiterInv'
  BY <1>1, <1>3, StampsInv
<1>4. ASSUME NEW r \in Requests, Limits(r) PROVE LimiterInv'
  BY <1>1, <1>4, WindowsLimits, StampsStayKept, AloneStays DEF LimiterInv
<1>6. CASE UNCHANGED gateVars
  BY <1>1, <1>6, LimiterLeftAlone DEF gateVars, Times
<1> QED BY <1>2, <1>3, <1>4, <1>6 DEF GateNext, Limits

LEMMA BurstsBounded == LimiterInv => \A t \in Times : BurstBounded(t)
<1> SUFFICES ASSUME LimiterInv, NEW t \in Times PROVE BurstBounded(t)
  OBVIOUS
<1>1. LimiterTyped /\ (WholeWindow(t) \/ PastWindow(t))
  BY DEF LimiterInv, Windows
<1>2. Together \in Nat /\ Excess = Together + MaxUnderWay - 1
  BY <1>1, ExcessIs DEF LimiterTyped
<1> QED
  BY <1>1, <1>2, LimiterNumbers, GateAssumption DEF WholeWindow, PastWindow, BurstBounded

(* Let through alone, a request found room for itself: in the memory of a  *)
(* key that was kept, in one that was swept because its last stamp had     *)
(* left the window, or in Redis.                                           *)
LEMMA AloneHasRoom ==
  ASSUME LimiterInv, [GateNext]_gateVars,
         NEW r \in Requests \ (company \cup uncounted'),
         pc[r] \in {"stamped", "counted"}, pc'[r] = "allowed"
  PROVE  Cardinality({q \in Allowed' \ uncounted : stamp[r] < stamp[q] + Window}) <= Limit
<1> DEFINE Let == {q \in Allowed' \ uncounted : stamp[r] < stamp[q] + Window}
<1> USE GateAssumption DEF LimiterInv
<1>1. PICK p \in Requests : Limits(p) /\ p = r
  <2>1. ASSUME NEW p \in Requests, Stamps(p) PROVE FALSE
    BY <2>1 DEF Stamps, LimiterTyped
  <2>3. ASSUME NEW p \in Requests, Limits(p) PROVE p = r
    BY <2>3, LimitsMoves
  <2>4. ~Tick /\ ~UNCHANGED gateVars
    BY DEF Tick, gateVars
  <2> QED BY <2>1, <2>3, <2>4 DEF GateNext, Limits
<1>2. r \in UnderWay \ company /\ Allowed' \subseteq Allowed \cup {r}
  BY <1>1, LimitsMoves DEF Allowed, UnderWay
<1>3. InWindowOf(r) \subseteq hits
  BY <1>2, AloneSees
<1>4. Let \subseteq InWindowOf(r) \cup {r}
  BY <1>2 DEF InWindowOf
<1>5. IsFiniteSet(InWindowOf(r)) /\ Cardinality(InWindowOf(r)) \in Nat /\ Cardinality(Let) \in Nat
      /\ IsFiniteSet(hits) /\ Cardinality(hits) \in Nat
  <2>1. InWindowOf(r) \subseteq Requests /\ Let \subseteq Requests /\ hits \subseteq Requests
    BY DEF InWindowOf, Allowed, LimiterTyped
  <2> QED BY <2>1, RequestsFinite
<1>6. SUFFICES Cardinality(InWindowOf(r)) < Limit
  <2> HIDE DEF Let
  <2>1. Cardinality(Let) <= Cardinality(InWindowOf(r)) + 1
    BY <1>4, <1>5, OneMore
  <2>2. Cardinality(Let) <= Limit
    BY <1>5, <1>6, <2>1
  <2> QED BY <2>2 DEF Let
<1>7. CASE RedisAdds(r)
  BY <1>2, <1>7 DEF RedisAdds, AloneCounted
<1>8. CASE MemAllow(r)
  <2>1. ~inRedis
    BY <1>8 DEF MemAllow
  <2>2. CASE MemLimits(r, MemKept(stamp[r]))
    BY <2>2 DEF MemLimits, LimiterTyped
  <2>3. CASE MemLets(r, MemKept(stamp[r]))
    <3>1. InWindowOf(r) \subseteq MemKept(stamp[r]) /\ MemKept(stamp[r]) \subseteq hits
      BY <1>3 DEF InWindowOf, MemKept, LimiterTyped, Times, Allowed
    <3>2. Cardinality(MemKept(stamp[r])) < Limit /\ IsFiniteSet(MemKept(stamp[r]))
          /\ Cardinality(MemKept(stamp[r])) \in Nat
      BY <2>3, <3>1, <1>5, Fewer DEF MemLets
    <3>3. Cardinality(InWindowOf(r)) <= Cardinality(MemKept(stamp[r]))
      BY <3>1, <3>2, Fewer
    <3> QED BY <1>5, <3>2, <3>3
  <2>4. CASE \E q \in hits : IsLast(q) /\ stamp[q] + Window < stamp[r]
    <3>1. PICK q \in hits : stamp[q] + Window < stamp[r]
      BY <2>4
    <3>2. InWindowOf(r) \subseteq hits \ {q}
      BY <1>3, <3>1 DEF InWindowOf, LimiterTyped, Times, Allowed
    <3>3. Cardinality(InWindowOf(r)) <= Cardinality(hits) - 1
      BY <1>5, <3>1, <3>2, OneLess
    <3>4. Cardinality(hits) <= Limit
      BY <2>1 DEF LimiterTyped
    <3> QED BY <1>5, <3>3, <3>4
  <2> QED BY <1>8, <2>2, <2>3, <2>4, MemCases
<1>9. CASE RedisFails(r)
  BY <1>9 DEF RedisFails
<1>10. CASE RedisCounts(r)
  BY <1>10 DEF RedisCounts, Decide, LimiterTyped
<1> QED BY <1>1, <1>7, <1>8, <1>9, <1>10 DEF Limits

(* For any number of requests, any limit and any window: what is let       *)
(* through in a window exceeds the limit only by those that were at the    *)
(* limiter together, and a request that was alone there never does.        *)
THEOREM LimiterHolds == GateSpec => LimiterKeepsLimit
<1>1. LimiterInv /\ [GateNext]_gateVars =>
        [\A r \in Requests \ (company \cup uncounted') :
           pc[r] \in {"stamped", "counted"} /\ pc'[r] = "allowed" =>
             Cardinality({q \in Allowed' \ uncounted : stamp[r] < stamp[q] + Window})
               <= Limit]_gateVars
  BY AloneHasRoom
<1> QED
  BY <1>1, LimiterBegins, LimiterKept, BurstsBounded, PTL
     DEF GateSpec, LimiterKeepsLimit, AloneWithinLimit

(* A request takes the place in the slice of those let through before it. *)
TurnTyped == turn \in [Requests -> Nat]

LEMMA TurnKept == TurnTyped /\ [GateNext]_gateVars => TurnTyped'
<1> SUFFICES ASSUME TurnTyped, [GateNext]_gateVars PROVE TurnTyped'
  OBVIOUS
<1>1. ASSUME NEW r \in Requests, MemAllow(r) PROVE TurnTyped'
  <2>1. Allowed \subseteq Requests
    BY DEF Allowed
  <2>2. Cardinality(Allowed) \in Nat
    BY <2>1, RequestsFinite
  <2>3. turn' = turn \/ turn' = [turn EXCEPT ![r] = Cardinality(Allowed)]
    BY <1>1 DEF MemAllow
  <2> QED BY <2>2, <2>3 DEF TurnTyped
<1>2. turn' = turn \/ \E r \in Requests : MemAllow(r)
  BY DEF GateNext, gateVars, Tick, Stamps, RedisCounts, RedisAdds, RedisFails
<1> QED BY <1>1, <1>2 DEF TurnTyped

GateInv == LimiterInv /\ TurnTyped

LEMMA GateBegins == GateInit => GateInv
BY LimiterBegins DEF GateInv, GateInit, TurnTyped

LEMMA GateKept == GateInv /\ [GateNext]_gateVars => GateInv'
BY LimiterKept, TurnKept DEF GateInv

LEMMA GateTypes == GateInv => GateTypeOK
BY DEF GateInv, LimiterInv, LimiterTyped, TurnTyped, GateTypeOK

-----------------------------------------------------------------------------
(* Listings.  The rows of a list are some of the table's.                  *)
LEMMA ListIsFinite ==
  ASSUME NEW trader, Len(ledger) \in Nat, DOMAIN ledger = 1..Len(ledger)
  PROVE  /\ Listed(trader) \subseteq 1..Len(ledger)
         /\ IsFiniteSet(Listed(trader))
         /\ Cardinality(Listed(trader)) \in Nat
         /\ Cardinality(Listed(trader)) <= Len(ledger)
<1>1. IsFiniteSet(1..Len(ledger)) /\ Cardinality(1..Len(ledger)) = Len(ledger)
  <2>1. 1 \in Int /\ Len(ledger) \in Int /\ (~(1 > Len(ledger)) \/ Len(ledger) = 0)
    OBVIOUS
  <2>2. Len(ledger) - 1 + 1 = Len(ledger)
    OBVIOUS
  <2>3. IsFiniteSet(1..Len(ledger)) /\ Cardinality(1..Len(ledger)) =
          IF 1 > Len(ledger) THEN 0 ELSE Len(ledger) - 1 + 1
    BY <2>1, FS_Interval
  <2> QED BY <2>1, <2>2, <2>3
<1>2. Listed(trader) \in SUBSET (1..Len(ledger))
  BY DEF Listed
<1>3. IsFiniteSet(Listed(trader)) /\ Cardinality(Listed(trader)) <= Len(ledger)
  BY <1>1, <1>2, FS_Subset
<1>4. Cardinality(Listed(trader)) \in Nat
  BY <1>3, FS_CardinalityType
<1> QED BY <1>2, <1>3, <1>4

(* The rows of a list have places of their own, the newer the nearer.      *)
LEMMA Places ==
  ASSUME NEW trader, Len(ledger) \in Nat, DOMAIN ledger = 1..Len(ledger)
  PROVE  /\ \A i \in Listed(trader) : Place(i, trader) \in 1..Cardinality(Listed(trader))
         /\ \A i, k \in Listed(trader) : i < k => Place(k, trader) < Place(i, trader)
<1> DEFINE From(i) == {j \in Listed(trader) : j >= i}
<1>1. /\ Listed(trader) \subseteq 1..Len(ledger) /\ IsFiniteSet(Listed(trader))
      /\ Cardinality(Listed(trader)) \in Nat
  BY ListIsFinite
<1>2. ASSUME NEW i \in Listed(trader)
      PROVE  /\ IsFiniteSet(From(i)) /\ Cardinality(From(i)) \in Nat
             /\ Cardinality(From(i)) <= Cardinality(Listed(trader))
             /\ Cardinality(From(i)) # 0
             /\ i \in From(i)
  <2>1. From(i) \in SUBSET Listed(trader)
    OBVIOUS
  <2>2. i \in From(i)
    BY <1>1
  <2> HIDE DEF From
  <2>3. IsFiniteSet(From(i)) /\ Cardinality(From(i)) <= Cardinality(Listed(trader))
    BY <1>1, <2>1, FS_Subset
  <2>4. Cardinality(From(i)) \in Nat
    BY <2>3, FS_CardinalityType
  <2>5. Cardinality(From(i)) # 0
    BY <2>2, <2>3, FS_EmptySet
  <2> QED BY <2>2, <2>3, <2>4, <2>5
<1>3. ASSUME NEW i \in Listed(trader), NEW k \in Listed(trader), i < k
      PROVE  Cardinality(From(k)) < Cardinality(From(i))
  <2>1. From(k) \in SUBSET From(i) /\ i \notin From(k)
    BY <1>1, <1>3
  <2>2. /\ IsFiniteSet(From(i)) /\ i \in From(i)
        /\ Cardinality(From(i)) \in Nat /\ Cardinality(From(k)) \in Nat
    BY <1>2
  <2> HIDE DEF From
  <2>3. Cardinality(From(k)) <= Cardinality(From(i)) /\ Cardinality(From(i)) # Cardinality(From(k))
    BY <2>1, <2>2, FS_Subset
  <2> QED BY <2>2, <2>3
<1>4. \A i : Place(i, trader) = Cardinality(From(i))
  BY DEF Place
<1> HIDE DEF From
<1> QED BY <1>1, <1>2, <1>3, <1>4

(* Every place of a list is a row's: as many places as rows. *)
LEMMA PlacesAreFilled ==
  ASSUME NEW trader, Len(ledger) \in Nat, DOMAIN ledger = 1..Len(ledger),
         NEW n \in 1..Cardinality(Listed(trader))
  PROVE  \E i \in Listed(trader) : Place(i, trader) = n
<1> DEFINE top == Cardinality(Listed(trader))
           f == [i \in Listed(trader) |-> Place(i, trader)]
<1>1. IsFiniteSet(1..top) /\ Cardinality(1..top) = top /\ Listed(trader) \subseteq Nat
  <2>1. top \in Nat /\ Listed(trader) \subseteq Nat
    BY ListIsFinite
  <2> HIDE DEF top
  <2>2. 1 \in Int /\ top \in Int
    BY <2>1
  <2>3. IsFiniteSet(1..top) /\ Cardinality(1..top) = IF 1 > top THEN 0 ELSE top - 1 + 1
    BY <2>2, FS_Interval
  <2> QED BY <2>1, <2>3
<1>2. f \in [Listed(trader) -> 1..top]
  BY Places
<1>3. \A i, k \in Listed(trader) : f[i] = f[k] => i = k
  <2>1. ASSUME NEW i \in Listed(trader), NEW k \in Listed(trader), f[i] = f[k], i # k
        PROVE  FALSE
    <3>1. i < k \/ k < i
      BY <1>1, <2>1
    <3>2. f[i] \in Int /\ f[k] \in Int
      BY <1>2
    <3> QED BY <2>1, <3>1, <3>2, Places
  <2> QED BY <2>1
<1>4. f \in Injection(Listed(trader), 1..top)
  BY <1>2, <1>3 DEF Injection, IsInjective
<1>5. f \in Surjection(Listed(trader), 1..top)
  <2> HIDE DEF f
  <2> QED BY <1>1, <1>4, FS_Injection
<1> QED BY <1>5 DEF Surjection

(* NewestFirst has each row of the list at its place. *)
LEMMA ListShowsPlaces ==
  ASSUME NEW trader, Len(ledger) \in Nat, DOMAIN ledger = 1..Len(ledger)
  PROVE  /\ Len(NewestFirst(trader)) = Cardinality(Listed(trader))
         /\ \A n \in 1..Cardinality(Listed(trader)) : NewestFirst(trader)[n] \in Listed(trader)
         /\ \A i \in Listed(trader) : NewestFirst(trader)[Place(i, trader)] = i
<1> DEFINE top == Cardinality(Listed(trader))
           list == NewestFirst(trader)
<1>1. top \in Nat /\ Listed(trader) \subseteq Nat
  BY ListIsFinite
<1>2. Len(list) = top
  BY <1>1 DEF NewestFirst
<1>3. ASSUME NEW n \in 1..top
      PROVE  list[n] \in Listed(trader) /\ Place(list[n], trader) = n
  <2>1. list[n] = CHOOSE i \in Listed(trader) : Place(i, trader) = n
    BY DEF NewestFirst
  <2> HIDE DEF list
  <2> QED BY <2>1, PlacesAreFilled
<1>4. ASSUME NEW i \in Listed(trader) PROVE list[Place(i, trader)] = i
  <2> DEFINE n == Place(i, trader)
             k == list[n]
  <2>1. n \in 1..top
    BY Places
  <2>2. k \in Listed(trader) /\ Place(k, trader) = n
    BY <1>3, <2>1
  <2> HIDE DEF k
  <2>3. ~(k < i) /\ ~(i < k)
    BY <2>1, <2>2, Places
  <2>4. k \in Nat /\ i \in Nat
    BY <1>1, <2>2
  <2>5. k = i
    BY <2>3, <2>4
  <2> QED BY <2>5 DEF k
<1> QED BY <1>2, <1>3, <1>4

(* A page holds rows of the list, and every row that stands there. *)
LEMMA SliceShows ==
  ASSUME NEW trader, Len(ledger) \in Nat, DOMAIN ledger = 1..Len(ledger), NEW offset \in Nat
  PROVE  /\ ToSet(Slice(NewestFirst(trader), offset)) \subseteq Listed(trader)
         /\ \A i \in Listed(trader) :
              offset < Place(i, trader) /\ Place(i, trader) <= offset + Size
                => i \in ToSet(Slice(NewestFirst(trader), offset))
<1> DEFINE list == NewestFirst(trader)
           top == Cardinality(Listed(trader))
           last == IF offset + Size < top THEN offset + Size ELSE top
           part == SubSeq(list, offset + 1, last)
<1>1. top \in Nat /\ Size \in Nat
  BY ListIsFinite, ListingsAssumption
<1>2. /\ Len(list) = top
      /\ \A n \in 1..top : list[n] \in Listed(trader)
      /\ \A i \in Listed(trader) : list[Place(i, trader)] = i
      /\ \A i \in Listed(trader) : Place(i, trader) \in 1..top
  BY ListShowsPlaces, Places
<1>3. Slice(list, offset) = part
  BY <1>2 DEF Slice
<1> HIDE DEF list, top
<1>4. last \in Nat /\ last <= top /\ last <= offset + Size
      /\ (last = top \/ last = offset + Size)
  BY <1>1
<1> HIDE DEF last
<1>5. /\ part \in Seq(Listed(trader))
      /\ Len(part) = IF offset + 1 <= last THEN last - offset ELSE 0
      /\ \A k \in 1..(last - offset) : part[k] = list[offset + k]
  <2>1. \A k \in (offset + 1)..last : list[k] \in Listed(trader)
    BY <1>1, <1>2, <1>4
  <2>2. /\ part \in Seq(Listed(trader))
        /\ Len(part) = IF offset + 1 <= last THEN last - (offset + 1) + 1 ELSE 0
        /\ \A k \in 1..(last - (offset + 1) + 1) : part[k] = list[offset + 1 + k - 1]
    <3> HIDE DEF part
    <3>1. offset + 1 \in Int /\ last \in Int
      BY <1>4
    <3> QED BY <2>1, <3>1, SubSeqProperties DEF part
  <2> HIDE DEF part
  <2>3. last - (offset + 1) + 1 = last - offset
    BY <1>4
  <2>4. \A k \in 1..(last - offset) : offset + 1 + k - 1 = offset + k
    BY <1>4
  <2> QED BY <2>2, <2>3, <2>4
<1> HIDE DEF part
<1>6. DOMAIN part = 1..Len(part) /\ Len(part) \in Nat
  BY <1>5
<1>7. ToSet(part) \subseteq Listed(trader)
  BY <1>5, <1>6 DEF ToSet
<1>8. ASSUME NEW i \in Listed(trader), offset < Place(i, trader), Place(i, trader) <= offset + Size
      PROVE  i \in ToSet(part)
  <2> DEFINE k == Place(i, trader) - offset
  <2>1. Place(i, trader) \in 1..top
    BY <1>2
  <2>2. k \in 1..(last - offset) /\ offset + k = Place(i, trader) /\ k \in 1..Len(part)
    BY <1>1, <1>4, <1>5, <1>8, <2>1
  <2>3. part[k] = i
    BY <1>2, <1>5, <2>2
  <2> HIDE DEF k
  <2> QED BY <1>6, <2>2, <2>3 DEF ToSet
<1> QED BY <1>3, <1>7, <1>8 DEF list

(* There are as many pages as the total fills. *)
LEMMA PagesOfTotal ==
  ASSUME NEW total \in Nat, NEW page \in Nat, page >= 1
  PROVE  /\ TotalPages(total) \in Nat
         /\ page < TotalPages(total) => Size * page < total
         /\ page >= TotalPages(total) => total <= Size * page
<1> DEFINE n == total + Size - 1
           q == n \div Size
           m == n % Size
<1>1. Size \in Nat /\ Size >= 1
  BY ListingsAssumption
<1>2. n \in Nat
  BY <1>1
<1>3. q \in Nat /\ m \in 0..(Size - 1) /\ n = Size * q + m
  <2> HIDE DEF n
  <2> QED BY <1>1, <1>2
<1>4. Size * q >= total /\ Size * q <= n
  <2> HIDE DEF q, m
  <2>1. Size * q \in Nat
    BY <1>1, <1>3
  <2> QED BY <1>1, <1>3, <2>1
<1>5. Size * page \in Nat /\ Size * q \in Nat
  BY <1>1, <1>3
<1>6. TotalPages(total) = IF total = 0 THEN 1 ELSE q
  BY DEF TotalPages
<1> HIDE DEF q, m
<1>7. ASSUME page < q PROVE Size * page + Size <= Size * q
  <2>1. PICK k \in Nat : q = page + 1 + k
    <3>1. q - page - 1 \in Nat /\ q = page + 1 + (q - page - 1)
      BY <1>3, <1>7
    <3> QED BY <3>1
  <2>2. Size * q = Size * page + Size + Size * k /\ Size * k \in Nat
    BY <1>1, <2>1
  <2> QED BY <1>1, <1>5, <2>2
<1>8. ASSUME page >= q PROVE Size * page >= Size * q
  <2>1. PICK k \in Nat : page = q + k
    <3>1. page - q \in Nat /\ page = q + (page - q)
      BY <1>3, <1>8
    <3> QED BY <3>1
  <2>2. Size * page = Size * q + Size * k /\ Size * k \in Nat
    BY <1>1, <1>3, <2>1
  <2> QED BY <1>5, <2>2
<1>9. CASE total = 0
  BY <1>5, <1>6, <1>9
<1>10. CASE total # 0
  BY <1>1, <1>3, <1>4, <1>5, <1>6, <1>7, <1>8, <1>10
<1> QED BY <1>9, <1>10

(* Rows that stand behind the first total places are no more than the rest. *)
LEMMA FewStandBehind ==
  ASSUME NEW trader, Len(ledger) \in Nat, DOMAIN ledger = 1..Len(ledger), NEW total \in Nat,
         NEW Rows \in SUBSET Listed(trader), \A i \in Rows : Place(i, trader) > total
  PROVE  /\ Cardinality(Rows) \in Nat
         /\ \A more \in Nat : Cardinality(Listed(trader)) <= total + more => Cardinality(Rows) <= more
<1> DEFINE top == Cardinality(Listed(trader))
           f == [i \in Rows |-> Place(i, trader)]
<1>1. top \in Nat /\ Listed(trader) \subseteq Nat /\ IsFiniteSet(Listed(trader))
  BY ListIsFinite
<1>2. IsFiniteSet((total + 1)..top)
      /\ Cardinality((total + 1)..top) = IF total + 1 > top THEN 0 ELSE top - (total + 1) + 1
  <2>1. total + 1 \in Int /\ top \in Int
    BY <1>1
  <2> HIDE DEF top
  <2> QED BY <2>1, FS_Interval
<1>3. \A i \in Rows : Place(i, trader) \in (total + 1)..top
  <2>1. \A i \in Rows : Place(i, trader) \in 1..top
    BY Places
  <2> QED BY <2>1, <1>1
<1>4. f \in [Rows -> (total + 1)..top]
  BY <1>3
<1>5. \A i, k \in Rows : f[i] = f[k] => i = k
  <2>1. ASSUME NEW i \in Rows, NEW k \in Rows, f[i] = f[k], i # k
        PROVE  FALSE
    <3>1. i < k \/ k < i
      BY <1>1, <2>1
    <3>2. f[i] \in Int /\ f[k] \in Int
      BY <1>4
    <3> QED BY <2>1, <3>1, <3>2, Places
  <2> QED BY <2>1
<1>6. f \in Injection(Rows, (total + 1)..top)
  BY <1>4, <1>5 DEF Injection, IsInjective
<1>7. Cardinality(Rows) <= Cardinality((total + 1)..top)
  <2> HIDE DEF f
  <2> QED BY <1>2, <1>6, FS_Injection
<1>8. Cardinality(Rows) \in Nat
  BY <1>1, FS_Subset, FS_CardinalityType
<1> HIDE DEF top
<1> QED BY <1>1, <1>2, <1>7, <1>8 DEF top

Walking == walk.pc # "idle"
Missing == walk.goal \ walk.got
IsRead  == walk.pc \in (IF CountsFirst(walk.kind) THEN {"next", "done"}
                        ELSE {"count", "next", "done"})

WalkRecords ==
  [pc : {"idle", "count", "list", "next", "done"}, kind : Kinds,
   trader : Traders \cup {AllTraders}, page : Nat, pages : Nat, total : Nat,
   got : SUBSET Nat, goal : SUBSET Nat, added : Nat]

WalkTyped ==
  /\ ledger \in Seq(Traders)
  /\ holder \in [Traders -> Users \cup {NoUser}]
  /\ walk \in WalkRecords
  /\ Walking => walk.page >= 1 /\ Authorized(walk.trader)
  /\ ~Walking => walk.got = {} /\ walk.goal = {}

(* What is seen and what is to be seen are rows of the list. *)
OnlyListed(trader) == walk.got \cup walk.goal \subseteq Listed(trader)

(* Rows not seen stand behind the pages that were read. *)
BehindPages(trader) ==
  \A i \in Missing :
    Place(i, trader) > Size * (IF IsRead THEN walk.page ELSE walk.page - 1)

(* A page of decisions was asked for because there were rows for it; once  *)
(* counted, the list outgrows the count by no more than was added.         *)
DecisionsCounted(trader) ==
  CountsFirst(walk.kind) =>
    /\ walk.pc = "count" /\ walk.page > 1 =>
         Size * (walk.page - 1) <= CountDecisions(trader)
    /\ walk.pc \in {"list", "next"} =>
         /\ Cardinality(Listed(trader)) <= walk.total + walk.added
         /\ walk.total <= CountDecisions(trader)
         /\ Size * (walk.page - 1) <= walk.total
         /\ walk.pages = TotalPages(walk.total)

(* Any other list has been seen whole when its last page is read. *)
OthersCounted ==
  ~CountsFirst(walk.kind) /\ walk.pc = "next" /\ walk.page >= walk.pages => Missing = {}

ListInv ==
  /\ WalkTyped
  /\ \A trader \in Traders \cup {AllTraders} :
       walk.trader = trader /\ Walking =>
         /\ OnlyListed(trader)
         /\ BehindPages(trader)
         /\ DecisionsCounted(trader)
  /\ OthersCounted
  /\ WalkMissesNothing

(* A new row is the newest: of the rows of a list none is lost or changes  *)
(* its owner, each stands where it stood or one place further back, and    *)
(* the list and its count grow by one at most.                             *)
LEMMA RowsAdded ==
  ASSUME NEW trader, NEW t \in Traders, ledger \in Seq(Traders),
         ledger' = Append(ledger, t), holder' = holder
  PROVE  /\ Listed(trader) \subseteq Listed(trader)'
         /\ \A i \in Listed(trader) :
              Place(i, trader)' \in Nat /\ Place(i, trader)' >= Place(i, trader)
         /\ Cardinality(Listed(trader))' \in Nat
         /\ Cardinality(Listed(trader))' <= Cardinality(Listed(trader)) + 1
         /\ CountDecisions(trader)' \in Nat
         /\ CountDecisions(trader)' >= CountDecisions(trader)
<1> DEFINE n == Len(ledger)
           last == n + 1
<1>1. /\ n \in Nat /\ DOMAIN ledger = 1..n
      /\ ledger' \in Seq(Traders) /\ Len(ledger)' = n + 1 /\ DOMAIN ledger' = 1..(n + 1)
      /\ \A i \in 1..n : ledger'[i] = ledger[i]
  <2>1. /\ ledger' \in Seq(Traders) /\ Len(ledger') = Len(ledger) + 1
        /\ \A i \in 1..Len(ledger) : ledger'[i] = ledger[i]
    BY AppendProperties
  <2> QED BY <2>1
<1> DEFINE Was == Listed(trader)
           Is  == {i \in DOMAIN ledger' : IF trader = AllTraders THEN holder[ledger'[i]] = Walker
                                          ELSE ledger'[i] = trader}
<1>2. Listed(trader)' = Is
  BY DEF Listed, Matches
<1>3. Was \subseteq Is /\ Is \subseteq Was \cup {last} /\ last \notin Was /\ Was \subseteq 1..n
  BY <1>1 DEF Listed, Matches
<1>4. /\ IsFiniteSet(Was) /\ Cardinality(Was) \in Nat /\ Cardinality(Was) <= n
  BY <1>1, ListIsFinite
<1> HIDE DEF Was, Is
<1>5. IsFiniteSet(Was \cup {last}) /\ Cardinality(Was \cup {last}) = Cardinality(Was) + 1
  BY <1>3, <1>4, FS_AddElement
<1>6. /\ IsFiniteSet(Is) /\ Cardinality(Is) <= Cardinality(Was) + 1
      /\ Cardinality(Is) \in Nat /\ Cardinality(Was) <= Cardinality(Is)
  <2>1. IsFiniteSet(Is) /\ Cardinality(Is) <= Cardinality(Was \cup {last})
    BY <1>3, <1>5, FS_Subset
  <2>2. Cardinality(Was) <= Cardinality(Is)
    BY <1>3, <2>1, FS_Subset
  <2> QED BY <1>5, <2>1, <2>2, FS_CardinalityType
<1>7. ASSUME NEW i \in Was
      PROVE  Place(i, trader)' \in Nat /\ Place(i, trader)' >= Place(i, trader)
  <2> DEFINE A == {j \in Was : j >= i}
             B == {j \in Is : j >= i}
  <2>1. Place(i, trader) = Cardinality(A) /\ Place(i, trader)' = Cardinality(B)
    BY <1>2 DEF Place, Was
  <2>2. A \in SUBSET B /\ B \in SUBSET Is
    BY <1>3
  <2> HIDE DEF A, B
  <2>3. IsFiniteSet(B)
    BY <1>6, <2>2, FS_Subset
  <2>4. IsFiniteSet(A) /\ Cardinality(A) <= Cardinality(B)
    BY <2>2, <2>3, FS_Subset
  <2>5. Cardinality(A) \in Nat /\ Cardinality(B) \in Nat
    BY <2>3, <2>4, FS_CardinalityType
  <2> QED BY <2>1, <2>4, <2>5
<1>8. /\ CountDecisions(trader) = IF trader = AllTraders THEN n ELSE Cardinality(Was)
      /\ CountDecisions(trader)' = IF trader = AllTraders THEN n + 1 ELSE Cardinality(Is)
  BY <1>1, <1>2 DEF CountDecisions, Was
<1>9. CountDecisions(trader)' \in Nat /\ CountDecisions(trader)' >= CountDecisions(trader)
  BY <1>1, <1>4, <1>6, <1>8
<1> QED BY <1>2, <1>3, <1>6, <1>7, <1>9 DEF Was

(* At the start nobody walks and there are no rows. *)
LEMMA ListBegins == ListingsInit => ListInv
<1> SUFFICES ASSUME ListingsInit PROVE ListInv
  OBVIOUS
<1>1. ledger \in Seq(Traders)
  BY DEF ListingsInit
<1>2. WalkTyped
  BY <1>1 DEF ListingsInit, WalkTyped, WalkRecords, Walking, NoWalk, Kinds
<1>3. OthersCounted /\ WalkMissesNothing /\ ~Walking
  BY DEF ListingsInit, OthersCounted, WalkMissesNothing, Walking, NoWalk
<1> QED BY <1>2, <1>3 DEF ListInv

(* The types of a walk are kept. *)
LEMMA WalkTypes == WalkTyped /\ [ListingsNext]_listingVars => WalkTyped'
<1> SUFFICES ASSUME WalkTyped, [ListingsNext]_listingVars PROVE WalkTyped'
  OBVIOUS
<1>0. Len(ledger) \in Nat /\ DOMAIN ledger = 1..Len(ledger)
  BY DEF WalkTyped, WalkRecords
<1>1. ASSUME NEW kind \in Kinds, NEW trader \in Traders \cup {AllTraders}, BeginWalk(kind, trader)
      PROVE  WalkTyped'
  <2>1. Listed(trader) \in SUBSET Nat
    BY <1>0, ListIsFinite
  <2>2. walk' = [pc |-> IF CountsFirst(kind) THEN "count" ELSE "list", kind |-> kind,
                 trader |-> trader, page |-> 1, pages |-> 0, total |-> 0, got |-> {},
                 goal |-> Listed(trader), added |-> 0]
    BY <1>1 DEF BeginWalk, NoWalk
  <2>3. UNCHANGED <<holder, ledger>> /\ Authorized(trader)
    BY <1>1 DEF BeginWalk
  <2>4. Authorized(walk.trader)'
    BY <2>2, <2>3 DEF Authorized
  <2> QED BY <2>1, <2>2, <2>3, <2>4 DEF WalkTyped, WalkRecords, Walking
<1>2. CASE ReadRows
  <2>1. walk.page - 1 \in Nat /\ Size \in Nat /\ walk.total \in Nat
    BY <1>2, ListingsAssumption DEF ReadRows, WalkTyped, WalkRecords, Walking
  <2> DEFINE from == (walk.page - 1) * Size
  <2>2. from \in Nat
    BY <2>1
  <2>3. \E offset \in Nat : Page = Slice(NewestFirst(walk.trader), offset)
    BY <2>1, <2>2 DEF Page, ListDecisionsByTrader, Trades, Orders, ListPositionHistory,
                      WalkTyped, WalkRecords, Kinds
  <2>4. ToSet(Page) \subseteq Nat
    BY <2>3, <1>0, SliceShows, ListIsFinite
  <2>5. walk' = [walk EXCEPT !.pc = IF CountsFirst(walk.kind) THEN "next" ELSE "count",
                   !.got = walk.got \cup ToSet(Page)]
    BY <1>2 DEF ReadRows
  <2>6. UNCHANGED <<holder, ledger>> /\ walk.pc = "list"
    BY <1>2 DEF ReadRows
  <2> QED BY <2>4, <2>5, <2>6 DEF WalkTyped, WalkRecords, Walking, Authorized
<1>3. CASE ReadTotal
  <2> DEFINE total == Total(walk.kind, walk.trader)
  <2>1. total \in Nat
    BY <1>0, ListIsFinite DEF Total, CountDecisions, CountTrades, CountOrders,
                              CountPositionHistory, WalkTyped, WalkRecords, Kinds
  <2> HIDE DEF total
  <2>2. 1 \in Nat /\ 1 >= 1
    OBVIOUS
  <2>3. TotalPages(total) \in Nat
    BY <2>1, <2>2, PagesOfTotal
  <2>4. walk' = [walk EXCEPT !.pc = IF CountsFirst(walk.kind) THEN "list" ELSE "next",
                   !.total = total, !.pages = TotalPages(total)]
    BY <1>3 DEF ReadTotal, total
  <2>5. UNCHANGED <<holder, ledger>> /\ walk.pc = "count"
    BY <1>3 DEF ReadTotal
  <2> QED BY <2>1, <2>3, <2>4, <2>5 DEF WalkTyped, WalkRecords, Walking, Authorized
<1>4. CASE NextPage
  <2>1. UNCHANGED <<holder, ledger>> /\ walk.pc = "next" /\ Authorized(walk.trader)
    BY <1>4 DEF NextPage, WalkTyped, WalkRecords, Walking
  <2>2. CASE walk.page < walk.pages
    <3>1. walk' = [walk EXCEPT !.pc = IF CountsFirst(walk.kind) THEN "count" ELSE "list",
                     !.kind = walk.kind, !.trader = walk.trader, !.page = walk.page + 1]
      BY <1>4, <2>1, <2>2 DEF NextPage, AskPage
    <3>2. /\ Walking /\ walk'.page = walk.page + 1 /\ walk'.trader = walk.trader
          /\ walk'.pc \in {"count", "list"} /\ walk.page \in Nat
      BY <2>1, <3>1 DEF WalkTyped, WalkRecords, Walking
    <3>3. walk' \in WalkRecords
      <4> DEFINE p == IF CountsFirst(walk.kind) THEN "count" ELSE "list"
      <4>1. p \in {"idle", "count", "list", "next", "done"}
        OBVIOUS
      <4>2. /\ walk \in WalkRecords /\ walk.kind \in Kinds
            /\ walk.trader \in Traders \cup {AllTraders} /\ walk.page + 1 \in Nat
        BY DEF WalkTyped, WalkRecords
      <4>3. walk' = [walk EXCEPT !.pc = p, !.kind = walk.kind, !.trader = walk.trader,
                       !.page = walk.page + 1]
        BY <3>1
      <4> HIDE DEF p
      <4> QED BY <4>1, <4>2, <4>3 DEF WalkRecords
    <3> QED BY <2>1, <3>2, <3>3 DEF WalkTyped, WalkRecords, Walking, Authorized
  <2>3. CASE ~(walk.page < walk.pages)
    <3>1. walk' = [walk EXCEPT !.pc = "done"]
      BY <1>4, <2>3 DEF NextPage
    <3>2. Walking /\ walk'.page = walk.page /\ walk'.trader = walk.trader /\ walk'.pc = "done"
      BY <2>1, <3>1 DEF WalkTyped, WalkRecords, Walking
    <3>3. walk' \in WalkRecords
      BY <3>1 DEF WalkTyped, WalkRecords
    <3> QED BY <2>1, <3>2, <3>3 DEF WalkTyped, WalkRecords, Walking, Authorized
  <2> QED BY <2>2, <2>3
<1>5. CASE Forget
  BY <1>5 DEF Forget, NoWalk, WalkTyped, WalkRecords, Walking, Kinds
<1>6. ASSUME NEW t \in Traders, AddRow(t) PROVE WalkTyped'
  <2>1. ledger' \in Seq(Traders) /\ UNCHANGED holder
    BY <1>6, AppendProperties DEF AddRow, WalkTyped, WalkRecords
  <2>2. walk' = walk \/ (walk' = [walk EXCEPT !.added = walk.added + 1])
    BY <1>6 DEF AddRow
  <2>3. walk' \in WalkRecords
    BY <2>2 DEF WalkTyped, WalkRecords
  <2>4. /\ walk'.pc = walk.pc /\ walk'.page = walk.page /\ walk'.trader = walk.trader
        /\ walk'.got = walk.got /\ walk'.goal = walk.goal
    BY <2>2 DEF WalkTyped, WalkRecords
  <2> QED BY <2>1, <2>3, <2>4 DEF WalkTyped, WalkRecords, Walking, Authorized
<1>7. CASE UNCHANGED listingVars
  BY <1>7 DEF listingVars, WalkTyped, WalkRecords, Walking, Authorized
<1> QED BY <1>1, <1>2, <1>3, <1>4, <1>5, <1>6, <1>7 DEF ListingsNext

(* While the table stays as it is, so do the lists and their counts. *)
LEMMA TableStays ==
  ASSUME NEW trader, UNCHANGED <<holder, ledger>>
  PROVE  /\ Listed(trader)' = Listed(trader)
         /\ \A i : Place(i, trader)' = Place(i, trader)
         /\ CountDecisions(trader)' = CountDecisions(trader)
<1>1. Listed(trader)' = Listed(trader)
  BY DEF Listed, Matches
<1>2. \A i : Place(i, trader)' = Place(i, trader)
  BY <1>1 DEF Place
<1>3. CountDecisions(trader)' = CountDecisions(trader)
  BY <1>1 DEF CountDecisions
<1> QED BY <1>1, <1>2, <1>3

(* A walk begins with nothing seen, before the first page. *)
LEMMA WalkBegins ==
  ASSUME WalkTyped, NEW kind \in Kinds, NEW trader \in Traders \cup {AllTraders},
         BeginWalk(kind, trader)
  PROVE  ListInv'
<1>1. WalkTyped'
  BY WalkTypes DEF ListingsNext
<1>2. /\ walk'.pc = (IF CountsFirst(kind) THEN "count" ELSE "list") /\ walk'.kind = kind
      /\ walk'.trader = trader /\ walk'.page = 1 /\ walk'.got = {} /\ walk'.goal = Listed(trader)
  BY DEF BeginWalk, NoWalk
<1>3. /\ Listed(trader)' = Listed(trader) /\ \A i : Place(i, trader)' = Place(i, trader)
  BY TableStays DEF BeginWalk
<1>4. Len(ledger) \in Nat /\ DOMAIN ledger = 1..Len(ledger)
  BY DEF WalkTyped
<1>5. OnlyListed(trader)'
  BY <1>2, <1>3 DEF OnlyListed
<1>6. BehindPages(trader)'
  <2>1. IsRead' = FALSE
    BY <1>2 DEF IsRead, CountsFirst
  <2>2. \A i \in Listed(trader) : Place(i, trader) > 0
    BY <1>4, Places, ListIsFinite
  <2>3. Size * 0 = 0 /\ 1 - 1 = 0
    BY ListingsAssumption
  <2>4. \A i \in Missing' : Place(i, trader)' > Size * (walk'.page - 1)
    BY <1>2, <1>3, <2>2, <2>3 DEF Missing
  <2> QED BY <2>1, <2>4 DEF BehindPages
<1>7. DecisionsCounted(trader)'
  BY <1>2 DEF DecisionsCounted, CountsFirst
<1>8. OthersCounted' /\ WalkMissesNothing'
  BY <1>2 DEF OthersCounted, WalkMissesNothing
<1> QED BY <1>1, <1>2, <1>5, <1>6, <1>7, <1>8 DEF ListInv

(* What holds of a walk through the list of a trader. *)
WalkOf(trader) ==
  /\ trader = walk.trader
  /\ OnlyListed(trader) /\ BehindPages(trader) /\ DecisionsCounted(trader)
  /\ Len(ledger) \in Nat /\ DOMAIN ledger = 1..Len(ledger)
  /\ walk \in WalkRecords /\ walk.page \in Nat /\ walk.page >= 1
  /\ Cardinality(Listed(trader)) \in Nat
  /\ Size \in Nat /\ Size * walk.page \in Nat /\ Size * (walk.page - 1) \in Nat
  /\ Size * walk.page = Size * (walk.page - 1) + Size

(* A walk is of some trader, or of all. *)
LEMMA WalkKnows ==
  ASSUME ListInv, Walking
  PROVE  \E trader \in Traders \cup {AllTraders} : WalkOf(trader)
<1>1. walk.trader \in Traders \cup {AllTraders} /\ walk.page \in Nat /\ walk.page >= 1
      /\ walk \in WalkRecords
  BY DEF ListInv, WalkTyped, WalkRecords
<1>2. Len(ledger) \in Nat /\ DOMAIN ledger = 1..Len(ledger)
  BY DEF ListInv, WalkTyped
<1>3. PICK trader \in Traders \cup {AllTraders} : trader = walk.trader
  BY <1>1
<1>4. OnlyListed(trader) /\ BehindPages(trader) /\ DecisionsCounted(trader)
  BY <1>3 DEF ListInv
<1>5. Cardinality(Listed(trader)) \in Nat
  BY <1>2, ListIsFinite
<1>6. Size \in Nat /\ Size * walk.page \in Nat /\ Size * (walk.page - 1) \in Nat
  BY <1>1, ListingsAssumption
<1>7. Size * walk.page = Size * (walk.page - 1) + Size
  BY <1>1, ListingsAssumption
<1> QED BY <1>1, <1>2, <1>3, <1>4, <1>5, <1>6, <1>7 DEF WalkOf

(* A page shows what stands in its places: what is missing after it stands *)
(* behind it.                                                              *)
LEMMA RowsAreRead == ASSUME ListInv, ReadRows PROVE ListInv'
<1>1. Walking /\ walk.pc = "list"
  BY DEF ReadRows, Walking
<1>2. PICK trader \in Traders \cup {AllTraders} : WalkOf(trader)
  BY <1>1, WalkKnows
<1> USE DEF WalkOf
<1> DEFINE from == Size * (walk.page - 1)
<1>3. WalkTyped'
  BY WalkTypes DEF ListInv, ListingsNext
<1>4. /\ walk' = [walk EXCEPT !.pc = IF CountsFirst(walk.kind) THEN "next" ELSE "count",
                    !.got = walk.got \cup ToSet(Page)]
      /\ UNCHANGED <<holder, ledger>>
  BY DEF ReadRows
<1>5. /\ walk'.pc = (IF CountsFirst(walk.kind) THEN "next" ELSE "count")
      /\ walk'.got = walk.got \cup ToSet(Page) /\ walk'.goal = walk.goal
      /\ walk'.kind = walk.kind /\ walk'.trader = walk.trader /\ walk'.page = walk.page
      /\ walk'.total = walk.total /\ walk'.pages = walk.pages /\ walk'.added = walk.added
  BY <1>2, <1>4 DEF WalkRecords
<1>6. /\ Listed(trader)' = Listed(trader) /\ \A i : Place(i, trader)' = Place(i, trader)
      /\ CountDecisions(trader)' = CountDecisions(trader)
  BY <1>4, TableStays
<1>7. Page = Slice(NewestFirst(trader), from)
  <2>1. (walk.page - 1) * Size = from
    BY <1>2
  <2>2. walk.kind = "decisions" => from <= walk.total /\ walk.total \in Nat
    BY <1>1, <1>2 DEF DecisionsCounted, CountsFirst, WalkRecords
  <2>3. walk.kind \in Kinds
    BY <1>2 DEF WalkRecords
  <2>4. CASE walk.kind = "decisions"
    <3>1. ~(from > walk.total)
      BY <1>2, <2>2, <2>4
    <3> HIDE DEF from
    <3> QED BY <1>2, <2>1, <2>4, <3>1 DEF Page, ListDecisionsByTrader
  <2>5. CASE walk.kind # "decisions"
    <3> HIDE DEF from
    <3> QED BY <1>2, <2>1, <2>3, <2>5 DEF Page, Kinds, Trades, Orders, ListPositionHistory
  <2> QED BY <2>4, <2>5
<1>8. /\ ToSet(Page) \subseteq Listed(trader)
      /\ \A i \in Listed(trader) :
           from < Place(i, trader) /\ Place(i, trader) <= from + Size => i \in ToSet(Page)
  <2> HIDE DEF from
  <2>1. from \in Nat
    BY <1>2 DEF from
  <2> QED BY <1>2, <1>7, <2>1, SliceShows
<1>9. OnlyListed(trader)'
  BY <1>2, <1>5, <1>6, <1>8 DEF OnlyListed
<1>10. BehindPages(trader)'
  <2>1. IsRead' /\ ~IsRead
    BY <1>1, <1>5 DEF IsRead
  <2>2. \A i \in Missing : Place(i, trader) > from
    BY <2>1, <1>2 DEF BehindPages
  <2>3. Missing' \subseteq Missing /\ Missing \subseteq Listed(trader)
        /\ \A i \in Missing' : i \notin ToSet(Page)
    BY <1>2, <1>5 DEF Missing, OnlyListed
  <2>4. ASSUME NEW i \in Missing' PROVE Place(i, trader)' > Size * walk.page
    <3>1. Place(i, trader) > from /\ ~(Place(i, trader) <= from + Size)
      BY <1>8, <2>2, <2>3, <2>4
    <3>2. Place(i, trader) \in Nat
      BY <1>2, <2>3, <2>4, Places
    <3>3. Place(i, trader) > from + Size
      BY <1>2, <3>1, <3>2
    <3> QED BY <1>2, <1>6, <3>3
  <2> QED BY <1>5, <2>1, <2>4 DEF BehindPages
<1>11. DecisionsCounted(trader)'
  BY <1>1, <1>2, <1>5, <1>6 DEF DecisionsCounted, CountsFirst
<1>12. OthersCounted' /\ WalkMissesNothing'
  BY <1>5 DEF OthersCounted, WalkMissesNothing
<1> QED BY <1>2, <1>3, <1>5, <1>9, <1>10, <1>11, <1>12 DEF ListInv

(* Counted, decisions cover the list as it is; any other list counted      *)
(* within the pages that were read has no row left to be seen.             *)
LEMMA TotalIsRead == ASSUME ListInv, ReadTotal PROVE ListInv'
<1>1. Walking /\ walk.pc = "count"
  BY DEF ReadTotal, Walking
<1>2. PICK trader \in Traders \cup {AllTraders} : WalkOf(trader)
  BY <1>1, WalkKnows
<1> USE DEF WalkOf
<1> DEFINE total == Total(walk.kind, walk.trader)
<1>3. WalkTyped'
  BY WalkTypes DEF ListInv, ListingsNext
<1>4. /\ walk' = [walk EXCEPT !.pc = IF CountsFirst(walk.kind) THEN "list" ELSE "next",
                    !.total = total, !.pages = TotalPages(total)]
      /\ UNCHANGED <<holder, ledger>>
  BY DEF ReadTotal
<1>5. /\ walk'.pc = (IF CountsFirst(walk.kind) THEN "list" ELSE "next")
      /\ walk'.total = total /\ walk'.pages = TotalPages(total)
      /\ walk'.got = walk.got /\ walk'.goal = walk.goal /\ walk'.added = walk.added
      /\ walk'.kind = walk.kind /\ walk'.trader = walk.trader /\ walk'.page = walk.page
  <2> HIDE DEF total
  <2> QED BY <1>2, <1>4 DEF WalkRecords
<1>6. /\ Listed(trader)' = Listed(trader) /\ \A i : Place(i, trader)' = Place(i, trader)
      /\ CountDecisions(trader)' = CountDecisions(trader)
  BY <1>4, TableStays
<1>7. /\ walk.kind = "decisions" => total = CountDecisions(trader)
      /\ walk.kind # "decisions" => total = Cardinality(Listed(trader))
  BY <1>2 DEF Total, CountTrades, CountOrders, CountPositionHistory, WalkRecords, Kinds
<1>8. /\ CountDecisions(trader) \in Nat
      /\ Cardinality(Listed(trader)) <= CountDecisions(trader)
  BY <1>2, ListIsFinite DEF CountDecisions
<1> HIDE DEF total
<1>9. OnlyListed(trader)'
  BY <1>2, <1>5, <1>6 DEF OnlyListed
<1>10. BehindPages(trader)'
  <2>1. Missing' = Missing /\ (IsRead' <=> IsRead)
    BY <1>1, <1>5 DEF IsRead, Missing
  <2> QED BY <1>2, <1>5, <1>6, <2>1 DEF BehindPages
<1>11. DecisionsCounted(trader)'
  <2>1. CASE walk.kind = "decisions"
    <3>1. walk.added \in Nat
      BY <1>2 DEF WalkRecords
    <3>2. Size * (walk.page - 1) <= total
      <4>1. CASE walk.page > 1
        BY <1>1, <1>2, <1>7, <2>1, <4>1 DEF DecisionsCounted, CountsFirst
      <4>2. CASE walk.page = 1
        <5>1. Size * (walk.page - 1) = 0
          BY <1>2, <4>2
        <5> QED BY <1>7, <1>8, <2>1, <5>1
      <4> QED BY <1>2, <4>1, <4>2
    <3>3. Cardinality(Listed(trader)) <= total + walk.added
      BY <1>2, <1>7, <1>8, <2>1, <3>1
    <3>4. total <= CountDecisions(trader)
      BY <1>7, <1>8, <2>1
    <3>5. walk'.pc # "count"
      BY <1>5, <2>1 DEF CountsFirst
    <3> QED BY <1>5, <1>6, <3>2, <3>3, <3>4, <3>5 DEF DecisionsCounted
  <2>2. CASE walk.kind # "decisions"
    BY <1>5, <2>2 DEF DecisionsCounted, CountsFirst
  <2> QED BY <2>1, <2>2
<1>12. OthersCounted'
  <2> SUFFICES ASSUME walk.kind # "decisions", walk.page >= TotalPages(total),
                      NEW i \in Missing
               PROVE  FALSE
    BY <1>5 DEF OthersCounted, CountsFirst, Missing
  <2>1. total = Cardinality(Listed(trader)) /\ total \in Nat
    BY <1>2, <1>7
  <2>2. total <= Size * walk.page
    BY <1>2, <2>1, PagesOfTotal
  <2>3. Place(i, trader) > Size * walk.page
    BY <1>1, <1>2 DEF BehindPages, IsRead, CountsFirst
  <2>4. Place(i, trader) \in 1..total
    BY <1>2, <2>1, Places DEF Missing, OnlyListed
  <2> QED BY <1>2, <2>1, <2>2, <2>3, <2>4
<1>13. WalkMissesNothing'
  BY <1>5 DEF WalkMissesNothing
<1> QED BY <1>2, <1>3, <1>5, <1>9, <1>10, <1>11, <1>12, <1>13 DEF ListInv

(* The next page is asked for where there are rows for it; past the last,  *)
(* all of the list was seen, of decisions all but what was added.          *)
LEMMA NextIsAsked == ASSUME ListInv, NextPage PROVE ListInv'
<1>1. Walking /\ walk.pc = "next" /\ Authorized(walk.trader)
  BY DEF NextPage, Walking, ListInv, WalkTyped
<1>2. PICK trader \in Traders \cup {AllTraders} : WalkOf(trader)
  BY <1>1, WalkKnows
<1> USE DEF WalkOf
<1>3. WalkTyped'
  BY WalkTypes DEF ListInv, ListingsNext
<1>4. UNCHANGED <<holder, ledger>>
  BY DEF NextPage
<1>5. /\ Listed(trader)' = Listed(trader) /\ \A i : Place(i, trader)' = Place(i, trader)
      /\ CountDecisions(trader)' = CountDecisions(trader)
  BY <1>4, TableStays
<1>6. /\ CountDecisions(trader) \in Nat
      /\ walk.total \in Nat /\ walk.added \in Nat /\ walk.pages \in Nat
  BY <1>2, ListIsFinite DEF CountDecisions, WalkRecords
<1>7. IsRead
  BY <1>1 DEF IsRead
<1>8. CASE walk.page < walk.pages
  <2>1. walk' = [walk EXCEPT !.pc = IF CountsFirst(walk.kind) THEN "count" ELSE "list",
                   !.kind = walk.kind, !.trader = walk.trader, !.page = walk.page + 1]
    BY <1>1, <1>8 DEF NextPage, AskPage
  <2>2. /\ walk'.pc = (IF CountsFirst(walk.kind) THEN "count" ELSE "list")
        /\ walk'.got = walk.got /\ walk'.goal = walk.goal /\ walk'.added = walk.added
        /\ walk'.kind = walk.kind /\ walk'.trader = walk.trader
        /\ walk'.page = walk.page + 1 /\ walk'.page - 1 = walk.page
    BY <1>2, <2>1 DEF WalkRecords
  <2>3. OnlyListed(trader)'
    BY <1>2, <1>5, <2>2 DEF OnlyListed
  <2>4. BehindPages(trader)'
    <3>1. Missing' = Missing /\ ~IsRead'
      BY <2>2 DEF IsRead, Missing, CountsFirst
    <3>2. \A i \in Missing : Place(i, trader)' > Size * (walk'.page - 1)
      BY <1>2, <1>5, <1>7, <2>2 DEF BehindPages
    <3> QED BY <3>1, <3>2 DEF BehindPages
  <2>5. DecisionsCounted(trader)'
    <3>1. CASE walk.kind = "decisions"
      <4>1. walk.pages = TotalPages(walk.total) /\ walk.total <= CountDecisions(trader)
        BY <1>1, <1>2, <3>1 DEF DecisionsCounted, CountsFirst
      <4>2. Size * walk.page < walk.total
        BY <1>2, <1>6, <1>8, <4>1, PagesOfTotal
      <4>3. Size * (walk'.page - 1) <= CountDecisions(trader)'
        <5>1. Size * (walk'.page - 1) = Size * walk.page /\ Size * walk.page \in Nat
          BY <1>2, <2>2
        <5> QED BY <1>5, <1>6, <4>1, <4>2, <5>1
      <4>4. walk'.pc = "count"
        BY <2>2, <3>1 DEF CountsFirst
      <4> QED BY <4>3, <4>4 DEF DecisionsCounted
    <3>2. CASE walk.kind # "decisions"
      BY <2>2, <3>2 DEF DecisionsCounted, CountsFirst
    <3> QED BY <3>1, <3>2
  <2>6. OthersCounted' /\ WalkMissesNothing'
    BY <2>2 DEF OthersCounted, WalkMissesNothing
  <2> QED BY <1>2, <1>3, <2>2, <2>3, <2>4, <2>5, <2>6 DEF ListInv
<1>9. CASE ~(walk.page < walk.pages)
  <2>1. walk' = [walk EXCEPT !.pc = "done"]
    BY <1>9 DEF NextPage
  <2>2. /\ walk'.pc = "done"
        /\ walk'.got = walk.got /\ walk'.goal = walk.goal /\ walk'.added = walk.added
        /\ walk'.kind = walk.kind /\ walk'.trader = walk.trader /\ walk'.page = walk.page
    BY <1>2, <2>1 DEF WalkRecords
  <2>3. OnlyListed(trader)'
    BY <1>2, <1>5, <2>2 DEF OnlyListed
  <2>4. Missing' = Missing /\ IsRead'
    BY <2>2 DEF IsRead, Missing
  <2>5. BehindPages(trader)'
    BY <1>2, <1>5, <1>7, <2>2, <2>4 DEF BehindPages
  <2>6. DecisionsCounted(trader)' /\ OthersCounted'
    BY <2>2 DEF DecisionsCounted, OthersCounted
  <2>7. Cardinality(Missing) <= (IF walk.kind = "decisions" THEN walk.added ELSE 0)
    <3>1. CASE walk.kind = "decisions"
      <4>1. /\ walk.pages = TotalPages(walk.total)
            /\ Cardinality(Listed(trader)) <= walk.total + walk.added
        BY <1>1, <1>2, <3>1 DEF DecisionsCounted, CountsFirst
      <4>2. walk.total <= Size * walk.page
        <5>1. walk.page \in Nat /\ walk.page >= 1 /\ walk.page >= TotalPages(walk.total)
          BY <1>2, <1>6, <1>9, <4>1
        <5> QED BY <1>6, <5>1, PagesOfTotal
      <4>3. Missing \in SUBSET Listed(trader)
        BY <1>2 DEF Missing, OnlyListed
      <4>4. \A i \in Missing : Place(i, trader) > walk.total
        <5>1. ASSUME NEW i \in Missing PROVE Place(i, trader) > walk.total
          <6>1. Place(i, trader) > Size * walk.page
            BY <1>2, <1>7 DEF BehindPages
          <6>2. Place(i, trader) \in Nat
            BY <1>2, <4>3, Places
          <6> QED BY <1>2, <1>6, <4>2, <6>1, <6>2
        <5> QED BY <5>1
      <4> QED BY <1>2, <1>6, <3>1, <4>1, <4>3, <4>4, FewStandBehind
    <3>2. CASE walk.kind # "decisions"
      <4>1. walk.page >= walk.pages
        BY <1>2, <1>6, <1>9
      <4>2. Missing = {}
        BY <1>1, <3>2, <4>1 DEF ListInv, OthersCounted, CountsFirst
      <4> QED BY <3>2, <4>2, FS_EmptySet
    <3> QED BY <3>1, <3>2
  <2>8. WalkMissesNothing'
    BY <2>2, <2>7 DEF WalkMissesNothing, Missing
  <2> QED BY <1>2, <1>3, <2>2, <2>3, <2>5, <2>6, <2>8 DEF ListInv
<1> QED BY <1>8, <1>9

(* A new row pushes the others back; what was behind the pages read stays  *)
(* behind them.                                                            *)
LEMMA RowIsAdded == ASSUME ListInv, NEW t \in Traders, AddRow(t) PROVE ListInv'
<1>1. WalkTyped'
  BY WalkTypes DEF ListInv, ListingsNext
<1>2. /\ walk \in WalkRecords /\ ledger \in Seq(Traders)
      /\ ledger' = Append(ledger, t) /\ holder' = holder
      /\ walk' = IF walk.pc \in {"idle", "done"} THEN walk
                 ELSE [walk EXCEPT !.added = walk.added + 1]
  BY DEF AddRow, ListInv, WalkTyped
<1>3. /\ walk'.pc = walk.pc /\ walk'.kind = walk.kind /\ walk'.trader = walk.trader
      /\ walk'.page = walk.page /\ walk'.pages = walk.pages /\ walk'.total = walk.total
      /\ walk'.got = walk.got /\ walk'.goal = walk.goal /\ walk.added \in Nat
      /\ walk'.added = IF walk.pc \in {"idle", "done"} THEN walk.added ELSE walk.added + 1
  BY <1>2 DEF WalkRecords
<1>4. /\ Missing' = Missing /\ (IsRead' <=> IsRead)
      /\ OthersCounted' /\ WalkMissesNothing'
  BY <1>3 DEF Missing, IsRead, ListInv, OthersCounted, WalkMissesNothing
<1>5. ASSUME NEW trader \in Traders \cup {AllTraders}, walk'.trader = trader, Walking'
      PROVE  OnlyListed(trader)' /\ BehindPages(trader)' /\ DecisionsCounted(trader)'
  <2>1. Walking /\ walk.trader = trader
    BY <1>3, <1>5 DEF Walking
  <2>2. OnlyListed(trader) /\ BehindPages(trader) /\ DecisionsCounted(trader)
    BY <2>1 DEF ListInv
  <2>3. /\ Listed(trader) \subseteq Listed(trader)'
        /\ \A i \in Listed(trader) :
             Place(i, trader)' \in Nat /\ Place(i, trader)' >= Place(i, trader)
        /\ Cardinality(Listed(trader))' \in Nat
        /\ Cardinality(Listed(trader))' <= Cardinality(Listed(trader)) + 1
        /\ CountDecisions(trader)' \in Nat
        /\ CountDecisions(trader)' >= CountDecisions(trader)
    BY <1>2, RowsAdded
  <2>4. Len(ledger) \in Nat /\ DOMAIN ledger = 1..Len(ledger)
    BY <1>2
  <2>5. /\ Cardinality(Listed(trader)) \in Nat /\ CountDecisions(trader) \in Nat
        /\ \A i \in Listed(trader) : Place(i, trader) \in Nat
    <3>1. Cardinality(Listed(trader)) \in Nat
      BY <2>4, ListIsFinite
    <3>2. \A i \in Listed(trader) : Place(i, trader) \in Nat
      BY <2>4, <3>1, Places
    <3> QED BY <2>4, <3>1, <3>2 DEF CountDecisions
  <2>6. OnlyListed(trader)'
    BY <1>3, <2>2, <2>3 DEF OnlyListed
  <2>7. BehindPages(trader)'
    <3> DEFINE read == Size * (IF IsRead THEN walk.page ELSE walk.page - 1)
    <3>1. read \in Int /\ read' = read
      BY <1>2, <1>3, <1>4, ListingsAssumption DEF WalkRecords
    <3>2. Missing \subseteq Listed(trader)
      BY <2>2 DEF OnlyListed, Missing
    <3>3. ASSUME NEW i \in Missing PROVE Place(i, trader)' > read
      <4>1. Place(i, trader) > read
        BY <2>2 DEF BehindPages
      <4>2. /\ Place(i, trader)' >= Place(i, trader) /\ Place(i, trader) \in Nat
            /\ Place(i, trader)' \in Nat
        BY <2>3, <2>5, <3>2
      <4> HIDE DEF read
      <4> QED BY <3>1, <4>1, <4>2
    <3>4. \A i \in Missing' : Place(i, trader)' > read'
      BY <1>4, <3>1, <3>3
    <3> QED BY <3>4 DEF BehindPages
  <2>8. DecisionsCounted(trader)'
    <3> SUFFICES ASSUME CountsFirst(walk.kind) PROVE DecisionsCounted(trader)'
      BY <1>3 DEF DecisionsCounted
    <3>1. Size * (walk.page - 1) \in Int /\ walk.total \in Nat
      BY <1>2, ListingsAssumption DEF WalkRecords
    <3>2. CASE walk.pc = "count"
      <4>1. walk.page > 1 => Size * (walk.page - 1) <= CountDecisions(trader)
        BY <2>2, <3>2 DEF DecisionsCounted
      <4>2. walk.page > 1 => Size * (walk.page - 1) <= CountDecisions(trader)'
        BY <2>3, <2>5, <3>1, <4>1
      <4> QED BY <1>3, <3>2, <4>2 DEF DecisionsCounted
    <3>3. CASE walk.pc \in {"list", "next"}
      <4>1. /\ Cardinality(Listed(trader)) <= walk.total + walk.added
            /\ walk.total <= CountDecisions(trader)
            /\ Size * (walk.page - 1) <= walk.total
            /\ walk.pages = TotalPages(walk.total)
        BY <2>2, <3>3 DEF DecisionsCounted
      <4>2. walk'.added = walk.added + 1
        BY <1>3, <3>3
      <4>3. Cardinality(Listed(trader))' <= walk.total + (walk.added + 1)
        BY <1>3, <2>3, <2>5, <3>1, <4>1
      <4>4. walk.total <= CountDecisions(trader)'
        BY <2>3, <2>5, <3>1, <4>1
      <4> QED BY <1>3, <3>3, <4>1, <4>2, <4>3, <4>4 DEF DecisionsCounted
    <3>4. CASE walk.pc \notin {"count", "list", "next"}
      BY <1>3, <3>4 DEF DecisionsCounted
    <3> QED BY <3>2, <3>3, <3>4
  <2> QED BY <2>6, <2>7, <2>8
<1> QED BY <1>1, <1>4, <1>5 DEF ListInv

(* Every step of a list or of its walk. *)
LEMMA ListInvKept == ListInv /\ [ListingsNext]_listingVars => ListInv'
<1> SUFFICES ASSUME ListInv, [ListingsNext]_listingVars PROVE ListInv'
  OBVIOUS
<1>1. ASSUME NEW kind \in Kinds, NEW trader \in Traders \cup {AllTraders}, BeginWalk(kind, trader)
      PROVE  ListInv'
  BY <1>1, WalkBegins DEF ListInv
<1>2. CASE ReadRows
  BY <1>2, RowsAreRead
<1>3. CASE ReadTotal
  BY <1>3, TotalIsRead
<1>4. CASE NextPage
  BY <1>4, NextIsAsked
<1>5. CASE Forget
  <2>1. WalkTyped'
    BY <1>5, WalkTypes DEF ListInv, ListingsNext
  <2>2. walk'.pc = "idle"
    BY <1>5 DEF Forget, NoWalk
  <2> QED BY <2>1, <2>2 DEF ListInv, Walking, OthersCounted, WalkMissesNothing
<1>6. ASSUME NEW t \in Traders, AddRow(t) PROVE ListInv'
  BY <1>6, RowIsAdded
<1>7. CASE UNCHANGED listingVars
  <2>1. WalkTyped'
    BY <1>7, WalkTypes DEF ListInv
  <2>2. walk' = walk /\ UNCHANGED <<holder, ledger>>
    BY <1>7 DEF listingVars
  <2>3. OthersCounted' /\ WalkMissesNothing'
    BY <2>2 DEF ListInv, OthersCounted, WalkMissesNothing, Missing
  <2>4. ASSUME NEW trader \in Traders \cup {AllTraders}, walk'.trader = trader, Walking'
        PROVE  OnlyListed(trader)' /\ BehindPages(trader)' /\ DecisionsCounted(trader)'
    <3>1. OnlyListed(trader) /\ BehindPages(trader) /\ DecisionsCounted(trader)
      BY <2>2, <2>4 DEF ListInv, Walking
    <3>2. /\ Listed(trader)' = Listed(trader) /\ \A i : Place(i, trader)' = Place(i, trader)
          /\ CountDecisions(trader)' = CountDecisions(trader)
      BY <2>2, TableStays
    <3> QED BY <2>2, <3>1, <3>2 DEF OnlyListed, BehindPages, DecisionsCounted, Missing, IsRead
  <2> QED BY <2>1, <2>3, <2>4 DEF ListInv
<1> QED BY <1>1, <1>2, <1>3, <1>4, <1>5, <1>6, <1>7 DEF ListingsNext

(* For any traders, users, size of a page and number of rows, with rows    *)
(* added at any time: a client that reads a list to its last page has seen *)
(* every row there was when it began, but for decisions at most as many as *)
(* were added meanwhile, and never a row of another user's trader          *)
(* (data_svc.go:107, handler/data.go:28).                                  *)
THEOREM WalksAreWhole == ListingsSpec => []WalkShowsOwnRows
<1>1. ListInv => WalkShowsOwnRows
  <2> SUFFICES ASSUME ListInv PROVE OwnRowsOnly
    BY DEF WalkShowsOwnRows, ListInv
  <2>1. CASE Walking
    <3>1. PICK trader \in Traders \cup {AllTraders} : WalkOf(trader)
      BY <2>1, WalkKnows
    <3>2. Authorized(trader)
      BY <2>1, <3>1 DEF ListInv, WalkTyped, WalkOf
    <3> QED BY <3>1, <3>2 DEF OwnRowsOnly, WalkOf, OnlyListed, Listed, Matches, Authorized
  <2>2. CASE ~Walking
    BY <2>2 DEF OwnRowsOnly, ListInv, WalkTyped
  <2> QED BY <2>1, <2>2
<1> QED BY <1>1, ListBegins, ListInvKept, PTL DEF ListingsSpec

(* No walk goes far past what the table can hold: a page is asked for when *)
(* there was a row for it, by a total that no table has outgrown.          *)
WalkBounded ==
  /\ Len(ledger) <= MaxLedger
  /\ walk.total <= Len(ledger)
  /\ walk.pages = 0 \/ walk.pages = TotalPages(walk.total)
  /\ walk.page <= MaxLedger + 1

LEMMA BoundsBegin == ListingsInit => WalkBounded
BY ListingsAssumption, EmptySeq DEF ListingsInit, WalkBounded, NoWalk

LEMMA BoundsKept == WalkTyped /\ WalkBounded /\ [ListingsNext]_listingVars => WalkBounded'
<1> SUFFICES ASSUME WalkTyped, WalkBounded, [ListingsNext]_listingVars PROVE WalkBounded'
  OBVIOUS
<1>0. /\ Len(ledger) \in Nat /\ DOMAIN ledger = 1..Len(ledger)
      /\ MaxLedger \in Nat /\ Size \in Nat /\ Size >= 1
      /\ walk \in WalkRecords
      /\ walk.total \in Nat /\ walk.page \in Nat /\ walk.pages \in Nat
  BY ListingsAssumption DEF WalkTyped, WalkRecords
<1>1. ASSUME NEW kind \in Kinds, NEW trader \in Traders \cup {AllTraders}, BeginWalk(kind, trader)
      PROVE  WalkBounded'
  <2>1. /\ walk'.page = 1 /\ walk'.pages = 0 /\ walk'.total = 0
        /\ UNCHANGED ledger
    BY <1>1 DEF BeginWalk, NoWalk
  <2> QED BY <1>0, <2>1 DEF WalkBounded
<1>2. CASE ReadRows
  <2>1. /\ walk'.page = walk.page /\ walk'.pages = walk.pages /\ walk'.total = walk.total
        /\ UNCHANGED ledger
    BY <1>0, <1>2 DEF ReadRows, WalkRecords
  <2> QED BY <2>1 DEF WalkBounded
<1>3. CASE ReadTotal
  <2> DEFINE total == Total(walk.kind, walk.trader)
  <2>1. total <= Len(ledger)
    BY <1>0, ListIsFinite DEF Total, CountDecisions, CountTrades, CountOrders,
                              CountPositionHistory, WalkRecords, Kinds
  <2> HIDE DEF total
  <2>2. walk' = [walk EXCEPT !.pc = IF CountsFirst(walk.kind) THEN "list" ELSE "next",
                   !.total = total, !.pages = TotalPages(total)]
    BY <1>3 DEF ReadTotal, total
  <2>3. /\ walk'.page = walk.page /\ walk'.total = total /\ walk'.pages = TotalPages(total)
        /\ UNCHANGED ledger
    BY <1>0, <1>3, <2>2 DEF ReadTotal, WalkRecords
  <2> QED BY <2>1, <2>3 DEF WalkBounded
<1>4. CASE NextPage
  <2>1. CASE walk.page < walk.pages
    <3>1. walk.page >= 1 /\ Authorized(walk.trader)
      BY <1>4 DEF NextPage, WalkTyped, Walking
    <3>2. walk.pages = TotalPages(walk.total)
      BY <1>0, <2>1 DEF WalkBounded
    <3>3. Size * walk.page < walk.total
      BY <1>0, <2>1, <3>1, <3>2, PagesOfTotal
    <3>4. \A a, b \in Nat : b >= 1 => a <= b * a
      OBVIOUS
    <3>5. walk.page <= Size * walk.page /\ Size * walk.page \in Nat
      BY <1>0, <3>4
    <3>6. walk.page + 1 <= MaxLedger + 1
      BY <1>0, <3>3, <3>5 DEF WalkBounded
    <3>7. /\ walk'.page = walk.page + 1 /\ walk'.pages = walk.pages
          /\ walk'.total = walk.total /\ UNCHANGED ledger
      BY <1>0, <1>4, <2>1, <3>1 DEF NextPage, AskPage, WalkRecords
    <3> QED BY <3>6, <3>7 DEF WalkBounded
  <2>2. CASE ~(walk.page < walk.pages)
    <3>1. /\ walk'.page = walk.page /\ walk'.pages = walk.pages /\ walk'.total = walk.total
          /\ UNCHANGED ledger
      BY <1>0, <1>4, <2>2 DEF NextPage, WalkRecords
    <3> QED BY <3>1 DEF WalkBounded
  <2> QED BY <2>1, <2>2
<1>5. CASE Forget
  BY <1>0, <1>5 DEF Forget, NoWalk, WalkBounded
<1>6. ASSUME NEW t \in Traders, AddRow(t) PROVE WalkBounded'
  <2>1. Len(ledger') = Len(ledger) + 1
    BY <1>6, AppendProperties DEF AddRow, WalkTyped
  <2>2. /\ walk'.page = walk.page /\ walk'.pages = walk.pages /\ walk'.total = walk.total
        /\ Len(ledger) < MaxLedger
    BY <1>0, <1>6 DEF AddRow, WalkRecords
  <2> QED BY <1>0, <2>1, <2>2 DEF WalkBounded
<1>7. CASE UNCHANGED listingVars
  BY <1>7 DEF listingVars, WalkBounded
<1> QED BY <1>1, <1>2, <1>3, <1>4, <1>5, <1>6, <1>7 DEF ListingsNext

LEMMA ListTypes == ListInv /\ WalkBounded => ListingsTypeOK
<1> SUFFICES ASSUME ListInv, WalkBounded PROVE ListingsTypeOK
  OBVIOUS
<1>1. walk.pc \in {"idle", "count", "list", "next", "done"}
  BY DEF ListInv, WalkTyped, WalkRecords
<1>2. walk.got \subseteq DOMAIN ledger /\ walk.goal \subseteq DOMAIN ledger
  <2>1. CASE Walking
    <3>1. walk.trader \in Traders \cup {AllTraders}
      BY DEF ListInv, WalkTyped, WalkRecords
    <3>2. OnlyListed(walk.trader)
      BY <2>1, <3>1 DEF ListInv
    <3> QED BY <3>2 DEF OnlyListed, Listed
  <2>2. CASE ~Walking
    BY <2>2 DEF ListInv, WalkTyped
  <2> QED BY <2>1, <2>2
<1> QED BY <1>1, <1>2 DEF WalkBounded, ListingsTypeOK
==============================================================================
