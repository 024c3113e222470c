--------------------------- MODULE SignedRequests ---------------------------
(***************************************************************************)
(* The signature of a write request and its one-time nonce                 *)
(* (middleware/sign.go over pkg/cache/cache.go), behind the limiter of     *)
(* RequestGate.                                                            *)
(*                                                                         *)
(* The requests are those of one user: nonces are kept by user.  Each is a *)
(* goroutine.  A nonce is remembered for as long as a stamp may deviate,   *)
(* in memory or in Redis, whichever the process has found at its start;    *)
(* what is in memory is lost when it ends.  A message is a nonce and a     *)
(* stamp, both signed, and may be sent again.                              *)
(***************************************************************************)
EXTENDS Integers, FiniteSets

CONSTANTS
  Writes,     \* requests that write
  Nonces,     \* nonces in use
  SignWindow, \* how far a stamp may be off, and how long a nonce is remembered
  MaxSeconds, \* bound on the clock
  MaxStarts   \* bound on the starts of the process after the first

ASSUME SignedAssumption ==
  /\ SignWindow \in Nat \ {0}
  /\ MaxSeconds \in Nat
  /\ MaxStarts \in Nat

VARIABLES
  second, \* the clock, in whole seconds
  keeper, \* where this process keeps its nonces: "memory" or "redis"
  starts, \* how often the process was started again
  spent,  \* the nonces that are kept
  write   \* where each request is

signedVars == <<second, keeper, starts, spent, write>>

Seconds == 0..MaxSeconds
Keepers == {"memory", "redis"}
Stages == {"new", "checked", "refused", "lost"} \cup {"handled", "failed", "disowned"}

(* What is known of a request; since, at, by and life are history: when    *)
(* its stamp was checked, and when and by which process its nonce was used.*)
Unknown(n) ==
  [stage |-> "new", nonce |-> n, stamp |-> 0, since |-> 0, at |-> 0,
   by |-> "memory", life |-> 0]

SignedInit ==
  /\ second = 0
  /\ keeper \in Keepers
  /\ starts = 0
  /\ spent = {}
  /\ \E n \in Nonces : write = [w \in Writes |-> Unknown(n)]

SignedTick ==
  /\ second < MaxSeconds
  /\ second' = second + 1
  /\ UNCHANGED <<keeper, starts, spent, write>>

-----------------------------------------------------------------------------
(* Before the nonce *)

(* A request that ends without its nonce: what it said is forgotten. *)
Ended(w, stage) == [Unknown(write[w].nonce) EXCEPT !.stage = stage]
Refused(w) == write' = [write EXCEPT ![w] = Ended(w, "refused")]

(* The limiter refuses, no user is behind the token, or a header is        *)
(* missing or cannot be read.                                              *)
RefusedEarly(w) ==
  /\ write[w].stage = "new"
  /\ Refused(w)
  /\ UNCHANGED <<second, keeper, starts, spent>>

(* Mutant: any stamp will do. *)
AnyStamp(t) == TRUE

InWindow(t) == second - t <= SignWindow /\ t - second <= SignWindow

(* The stamp is compared with the clock; then the body is read. *)
CheckStamp(w) ==
  /\ write[w].stage = "new"
  /\ \E n \in Nonces, t \in 0..MaxSeconds + SignWindow :
       IF InWindow(t)
       THEN write' = [write EXCEPT ![w] = [@ EXCEPT !.stage = "checked", !.nonce = n,
                                                    !.stamp = t, !.since = second]]
       ELSE Refused(w)
  /\ UNCHANGED <<second, keeper, starts, spent>>

-----------------------------------------------------------------------------
(* The nonce *)

Entry(n) == [nonce |-> n, at |-> second, by |-> keeper]
Kept(n) == {m \in spent : m.nonce = n /\ m.by = keeper}

(* Mutant: the nonce is forgotten a second early. *)
RememberedTooShort(n) == \E m \in Kept(n) : second < m.at + SignWindow - 1

Remembered(n) == \E m \in Kept(n) : second < m.at + SignWindow

(* What is looked up within the second in which an entry ends may be found *)
(* or not.                                                                 *)
Ending(n) == \E m \in Kept(n) : second = m.at + SignWindow
Found(n) == IF Remembered(n) THEN {TRUE} ELSE IF Ending(n) THEN BOOLEAN ELSE {FALSE}

Remember(n) == spent' = (spent \ Kept(n)) \cup {Entry(n)}

(* The request that has used its nonce goes on, or does not. *)
Uses(w, stage) ==
  write' = [write EXCEPT ![w] = [@ EXCEPT !.stage = stage, !.at = second,
                                          !.by = keeper, !.life = starts]]

(* The body cannot be read or the signature is wrong: the nonce is not     *)
(* touched.                                                                *)
Unsigned(w) == Refused(w) /\ UNCHANGED spent

(* Add: the nonce is kept unless it is found (the map under its mutex, or  *)
(* SETNX with a TTL).                                                      *)
Adds(w) ==
  \E found \in Found(write[w].nonce) :
    IF found THEN Refused(w) /\ UNCHANGED spent
    ELSE Remember(write[w].nonce) /\ Uses(w, "handled")

(* Add ends with an error, SETNX has been executed or not; or its answer   *)
(* is lost, and the client's own second try finds the nonce.               *)
AddFails(w) ==
  /\ keeper = "redis"
  /\ \/ write' = [write EXCEPT ![w] = Ended(w, "failed")] /\ UNCHANGED spent
     \/ /\ FALSE \in Found(write[w].nonce)
        /\ Remember(write[w].nonce)
        /\ Uses(w, "failed") \/ Uses(w, "disowned")

(* Mutant: the nonce is kept before the signature is checked. *)
NonceFirst(w) ==
  /\ write[w].stage = "checked"
  /\ \/ Remember(write[w].nonce) /\ Refused(w)
     \/ Adds(w)
     \/ AddFails(w)
  /\ UNCHANGED <<second, keeper, starts>>

RequireSignature(w) ==
  /\ write[w].stage = "checked"
  /\ Unsigned(w) \/ Adds(w) \/ AddFails(w)
  /\ UNCHANGED <<second, keeper, starts>>

(* The process ends and is started again: it finds Redis or does not.      *)
StartsAgain ==
  /\ starts < MaxStarts
  /\ starts' = starts + 1
  /\ keeper' \in Keepers
  /\ spent' = {m \in spent : m.by = "redis"}
  /\ write' = [w \in Writes |-> IF write[w].stage = "checked"
                                THEN Ended(w, "lost") ELSE write[w]]
  /\ UNCHANGED second

SignedNext ==
  \/ SignedTick
  \/ \E w \in Writes : RefusedEarly(w) \/ CheckStamp(w) \/ RequireSignature(w)
  \/ StartsAgain

SignedSpec == SignedInit /\ [][SignedNext]_signedVars

-----------------------------------------------------------------------------
Requested ==
  [stage : Stages, nonce : Nonces, stamp : 0..MaxSeconds + SignWindow, since : Seconds,
   at : Seconds, by : Keepers, life : 0..MaxStarts]

SignedTypeOK ==
  /\ second \in Seconds
  /\ keeper \in Keepers
  /\ starts \in 0..MaxStarts
  /\ spent \subseteq [nonce : Nonces, at : Seconds, by : Keepers]
  /\ write \in [Writes -> Requested]
  /\ \A w \in Writes : write[w].stage \in {"checked", "handled"} =>
       /\ write[w].since - write[w].stamp <= SignWindow
       /\ write[w].stamp - write[w].since <= SignWindow

Handled == {w \in Writes : write[w].stage = "handled"}

(* What v and w have used was kept in one place: both in Redis, or both in *)
(* the memory of one process.                                              *)
OneKeeper(v, w) ==
  /\ write[v].by = write[w].by
  /\ write[v].by = "memory" => write[v].life = write[w].life

Repeated(v, w) == v # w /\ write[v].nonce = write[w].nonce /\ OneKeeper(v, w)

(* sign.go:29: of the requests that carry the same nonce only one reaches  *)
(* its handler while the nonce is remembered, however they overlap, and    *)
(* though others have failed: what is kept in Redis outlives the process.  *)
OneUseOfNonce ==
  \A v, w \in Handled :
    Repeated(v, w) => \/ write[v].at + SignWindow <= write[w].at
                      \/ write[w].at + SignWindow <= write[v].at

(* sign.go:95: so a message is handled once.  (Not if it came with a stamp *)
(* that was ahead of the clock; the window of its stamp is then longer     *)
(* than the life of its nonce.  Nor if the repetition was checked in the   *)
(* last second of the window, or its body was read for so long.)           *)
HandledOnce ==
  \A v, w \in Handled :
    (Repeated(v, w) /\ write[v].stamp = write[w].stamp /\ write[v].at <= write[w].at) =>
      \/ write[v].stamp > write[v].at
      \/ write[w].since = write[w].stamp + SignWindow
      \/ write[w].since < write[w].at

(* router.go:143, sign.go:74: a request that is refused, by the limiter,   *)
(* for its stamp or its signature, or because of a nonce already used,     *)
(* uses no nonce up: whatever is kept was used by a request that went on,  *)
(* or by one that Redis failed (which is lost with its nonce).             *)
RefusalKeepsNonce ==
  \A m \in spent : \E w \in Writes :
    /\ write[w].stage \in {"handled", "failed", "disowned"}
    /\ write[w].nonce = m.nonce /\ write[w].at = m.at /\ write[w].by = m.by

(* A nonce is used up once, by a request that got so far.                  *)
NonceUsedOnce == OneUseOfNonce /\ HandledOnce /\ RefusalKeepsNonce
=============================================================================
