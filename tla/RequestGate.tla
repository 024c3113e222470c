----------------------------- MODULE RequestGate -----------------------------
(***************************************************************************)
(* The sliding-window rate limiter in front of the handlers (router.go and *)
(* middleware/ratelimit.go over pkg/cache/cache.go).                       *)
(*                                                                         *)
(* The requests are those of one limiter key: keys do not interact.  Each  *)
(* request is a goroutine.  The limiter is in memory, under a mutex, or in *)
(* Redis, where each command is atomic but the count and the addition are  *)
(* two round trips; which of the two is decided once, when the process     *)
(* starts.                                                                 *)
(***************************************************************************)
EXTENDS Naturals, FiniteSets

CONSTANTS
  Requests,   \* requests, each sent once
  Limit,      \* requests allowed in a window
  Window,     \* its length
  MaxTime,    \* bound on the clock
  MaxUnderWay \* bound on the requests under way at once

ASSUME GateAssumption ==
  /\ IsFiniteSet(Requests)
  /\ Limit \in Nat \ {0}
  /\ Window \in Nat \ {0}
  /\ MaxTime \in Nat
  /\ MaxUnderWay \in Nat \ {0}

VARIABLES
  now,      \* the clock
  inRedis,  \* was Redis reached when the process started?
  hits,     \* the requests whose stamps are kept for the key: memLimiter.keys, or the ZSET
  turn,     \* the place of a kept stamp in the slice of memLimiter.keys
  pc,       \* where a request is
  stamp,    \* the time a request read at the limiter
  company,  \* history: requests that shared their time at the limiter
  uncounted \* history: requests let through and then not counted

gateVars == <<now, inRedis, hits, turn, pc, stamp, company, uncounted>>

Times == 0..MaxTime
UnderWay == {r \in Requests : pc[r] \in {"stamped", "counted"}}
Allowed == {r \in Requests : pc[r] = "allowed"}

GateInit ==
  /\ now = 0
  /\ inRedis \in BOOLEAN
  /\ hits = {}
  /\ turn = [r \in Requests |-> 0]
  /\ pc = [r \in Requests |-> "new"]
  /\ stamp = [r \in Requests |-> 0]
  /\ company = {}
  /\ uncounted = {}

Tick ==
  /\ now < MaxTime
  /\ now' = now + 1
  /\ UNCHANGED <<inRedis, hits, turn, pc, stamp, company, uncounted>>

-----------------------------------------------------------------------------
(* The limiter *)

(* Allow begins by reading the clock, before any lock is taken. *)
Stamps(r) ==
  /\ pc[r] = "new"
  /\ Cardinality(UnderWay) < MaxUnderWay
  /\ pc' = [pc EXCEPT ![r] = "stamped"]
  /\ stamp' = [stamp EXCEPT ![r] = now]
  /\ company' = IF UnderWay = {} THEN company ELSE company \cup UnderWay \cup {r}
  /\ UNCHANGED <<now, inRedis, hits, turn, uncounted>>

Decide(r, verdict) == pc' = [pc EXCEPT ![r] = verdict]

(* The stamps that are still in the window of a request stamped at t; Go   *)
(* computes with signed numbers, so start may lie before the beginning.    *)
(* WithoutWindow and WindowTooShort are mutants.                           *)
WithoutWindow(t) == {q \in hits : stamp[q] >= t}
MemKept(t) == {q \in hits : stamp[q] + Window >= t}
WindowTooShort(t) == {q \in hits : stamp[q] + Window > t + 1}
RedisKept(t) == {q \in hits : stamp[q] + Window > t}

IsLast(q) == q \in hits /\ \A p \in hits : turn[p] <= turn[q]

(* memLimiter.Allow, under the mutex.  A map of more than maxMemKeys keys  *)
(* is swept first, and a key is dropped on the word of its last stamp,     *)
(* which is not the newest if an earlier request was overtaken.            *)
MemAllow(r) ==
  /\ ~inRedis
  /\ pc[r] = "stamped"
  /\ \E swept \in BOOLEAN :
       /\ swept => \E q \in hits : IsLast(q) /\ stamp[q] + Window < stamp[r]
       /\ LET kept == IF swept THEN {} ELSE MemKept(stamp[r]) IN
          IF Cardinality(kept) >= Limit
          THEN hits' = kept /\ Decide(r, "limited") /\ UNCHANGED turn
          ELSE /\ hits' = kept \cup {r}
               /\ turn' = [turn EXCEPT ![r] = Cardinality(Allowed)]
               /\ Decide(r, "allowed")
       /\ uncounted' = IF swept
                       THEN uncounted \cup {q \in Allowed : stamp[r] <= stamp[q] + Window}
                       ELSE uncounted
  /\ UNCHANGED <<now, inRedis, stamp, company>>

(* redisLimiter.Allow: the pipeline drops what is too old and counts. *)
RedisCounts(r) ==
  /\ inRedis
  /\ pc[r] = "stamped"
  /\ hits' = RedisKept(stamp[r])
  /\ Decide(r, IF Cardinality(hits') >= Limit THEN "limited" ELSE "counted")
  /\ UNCHANGED <<now, inRedis, turn, stamp, company, uncounted>>

(* ... then the request is added and let through. *)
RedisAdds(r) ==
  /\ pc[r] = "counted"
  /\ hits' = hits \cup {r}
  /\ Decide(r, "allowed")
  /\ UNCHANGED <<now, inRedis, turn, stamp, company, uncounted>>

(* Either command fails: the request is let through and is not counted. *)
RedisFails(r) ==
  /\ inRedis
  /\ pc[r] \in {"stamped", "counted"}
  /\ Decide(r, "allowed")
  /\ uncounted' = uncounted \cup {r}
  /\ UNCHANGED <<now, inRedis, hits, turn, stamp, company>>

GateNext ==
  \/ Tick
  \/ \E r \in Requests :
       \/ Stamps(r)
       \/ MemAllow(r)
       \/ RedisCounts(r)
       \/ RedisAdds(r)
       \/ RedisFails(r)

GateSpec == GateInit /\ [][GateNext]_gateVars

-----------------------------------------------------------------------------
GateTypeOK ==
  /\ now \in Times
  /\ inRedis \in BOOLEAN
  /\ hits \subseteq Requests
  /\ turn \in [Requests -> Nat]
  /\ pc \in [Requests -> {"new", "stamped", "counted", "limited", "allowed"}]
  /\ stamp \in [Requests -> Times]
  /\ company \subseteq Requests
  /\ uncounted \subseteq Requests

(* The requests let through whose stamp lies in the window that ends at t. *)
Admitted(t) ==
  {r \in Allowed \ uncounted : stamp[r] <= t /\ t < stamp[r] + Window}

(* ratelimit.go:12 (30 a minute): requests that are at the limiter at the  *)
(* same time may together exceed the limit, whichever store it has, but    *)
(* nothing adds up over time: by as many as were there besides one when a  *)
(* later request removed the stamps of the window, and with Redis by as    *)
(* many again, which had counted before any of them was added.             *)
Excess == (IF inRedis THEN 2 ELSE 1) * (MaxUnderWay - 1)
BurstBounded(t) == Cardinality(Admitted(t)) <= Limit + Excess

(* cache.go:187, :228: a request that was alone at the limiter is let      *)
(* through only within the limit, however the earlier ones overlapped,     *)
(* overtook one another or were swept.                                     *)
AloneWithinLimit ==
  [][\A r \in Requests \ (company \cup uncounted') :
       pc[r] \in {"stamped", "counted"} /\ pc'[r] = "allowed" =>
         Cardinality({q \in Allowed' \ uncounted : stamp[r] < stamp[q] + Window}) <= Limit]_gateVars

(* The limiter: exact for a request that is alone, and bounded otherwise.  *)
LimiterKeepsLimit == ([]\A t \in Times : BurstBounded(t)) /\ AloneWithinLimit
==============================================================================
