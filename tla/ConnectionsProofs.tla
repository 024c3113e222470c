--------------------------- MODULE ConnectionsProofs ---------------------------
(***************************************************************************)
(* Proofs about what stays connected: the event streams of a debate, the   *)
(* dashboard's sockets and their quota, a websocket dial that fails, and a *)
(* call of a model with its retries or its stream; for any number of       *)
(* clients, room in their queues, events, quotas, retries and lines.  At   *)
(* the end, the types of all that MCProgress puts side by side.            *)
(***************************************************************************)
EXTENDS MCProgress, SessionsProofs, DebateProofs, PositionBookProofs, SequenceTheorems,
        FiniteSetTheorems, Counting, TLAPS

(* What is offered to a channel waits in it, behind what waits already. *)
LEMMA OfferKeeps ==
  ASSUME NEW q \in Seq(1..MaxEvents), NEW e \in 1..MaxEvents
  PROVE  /\ Offer(q, e) \in Seq(1..MaxEvents)
         /\ q # <<>> => Len(Offer(q, e)) >= 1 /\ Head(Offer(q, e)) = Head(q)
<1>1. Offer(q, e) \in {Append(q, e), q}
  BY DEF Offer
<1>2. /\ Append(q, e) \in Seq(1..MaxEvents)
      /\ Len(Append(q, e)) = Len(q) + 1
      /\ \A i \in 1..Len(q) : Append(q, e)[i] = q[i]
  BY AppendProperties
<1>3. q # <<>> => Len(q) >= 1
  OBVIOUS
<1>4. q # <<>> => Len(Append(q, e)) >= 1 /\ Head(Append(q, e)) = Head(q)
  BY <1>2, <1>3
<1> QED BY <1>1, <1>2, <1>3, <1>4

LEMMA TypesBegin == StreamsInit => StreamsTypeOK
BY StreamsAssumption DEF StreamsInit, StreamsTypeOK, NoStream

(* Types are kept. *)
LEMMA TypesKept == StreamsTypeOK /\ [StreamsNext]_pushVars => StreamsTypeOK'
<1> SUFFICES ASSUME StreamsTypeOK, [StreamsNext]_pushVars
             PROVE  StreamsTypeOK'
  OBVIOUS
<1> USE StreamsAssumption
<1>1. CASE Broadcast
  <2>1. events + 1 \in 1..MaxEvents
    BY <1>1 DEF Broadcast, StreamsTypeOK
  <2>2. queue' \in [Streams -> Seq(1..MaxEvents)]
    BY <1>1, <2>1, OfferKeeps DEF Broadcast, StreamsTypeOK
  <2> QED BY <1>1, <2>1, <2>2 DEF Broadcast, StreamsTypeOK
<1>2. CASE DeleteSession
  BY <1>2 DEF DeleteSession, StreamsTypeOK
<1>3. ASSUME NEW s \in Streams, Subscribe(s) PROVE StreamsTypeOK'
  BY <1>3 DEF Subscribe, StreamsTypeOK
<1>4. ASSUME NEW s \in Streams, Snapshot(s) PROVE StreamsTypeOK'
  <2> DEFINE n == IF there THEN SnapshotRead(s) ELSE 0
  <2>1. n \in 0..MaxEvents
    BY DEF SnapshotRead, StreamsTypeOK
  <2>2. stream' = [stream EXCEPT ![s].pc = "serving", ![s].snap = n]
    BY <1>4 DEF Snapshot
  <2> HIDE DEF n
  <2>3. stream' \in [Streams -> [pc : {"idle", "subscribed", "serving", "leaving",
                                      "closing", "closed"},
                                since : 0..MaxEvents, snap : 0..MaxEvents, online : BOOLEAN]]
    BY <2>1, <2>2 DEF StreamsTypeOK
  <2> QED BY <1>4, <2>3 DEF Snapshot, StreamsTypeOK
<1>5. ASSUME NEW s \in Streams, Serve(s) PROVE StreamsTypeOK'
  <2>1. Head(queue[s]) \in 1..MaxEvents /\ Tail(queue[s]) \in Seq(1..MaxEvents)
    BY <1>5 DEF Serve, StreamsTypeOK
  <2>2. Append(got[s], Head(queue[s])) \in Seq(1..MaxEvents)
    BY <2>1 DEF StreamsTypeOK
  <2> QED BY <1>5, <2>1, <2>2 DEF Serve, StreamsTypeOK
<1>6. ASSUME NEW s \in Streams, ClientLeaves(s) PROVE StreamsTypeOK'
  BY <1>6 DEF ClientLeaves, StreamsTypeOK
<1>7. ASSUME NEW s \in Streams, Leave(s) PROVE StreamsTypeOK'
  BY <1>7 DEF Leave, StreamsTypeOK
<1>8. ASSUME NEW s \in Streams, Unsubscribe(s) PROVE StreamsTypeOK'
  BY <1>8 DEF Unsubscribe, StreamsTypeOK
<1>9. ASSUME NEW s \in Streams, CloseChannel(s) PROVE StreamsTypeOK'
  BY <1>9 DEF CloseChannel, StreamsTypeOK
<1>10. CASE UNCHANGED pushVars
  BY <1>10 DEF pushVars, StreamsTypeOK
<1> QED
  BY <1>1, <1>2, <1>3, <1>4, <1>5, <1>6, <1>7, <1>8, <1>9, <1>10 DEF StreamsNext

(* Types are kept for any clients, queues and events. *)
THEOREM StreamsKeepTypes == StreamsSpec => []StreamsTypeOK
BY TypesBegin, TypesKept, PTL DEF StreamsSpec

(* A channel that events go to belongs to a handler that has subscribed    *)
(* and not yet unsubscribed, and no subscription is of the future.         *)
StreamsInv ==
  /\ \A s \in subs : stream[s].pc \in {"subscribed", "serving", "leaving"}
  /\ \A s \in Streams : stream[s].since <= events
  /\ NothingBetween

LEMMA InvBegins == StreamsInit => StreamsInv
BY DEF StreamsInit, StreamsInv, NothingBetween, NoStream

LEMMA InvKept == StreamsTypeOK /\ StreamsInv /\ [StreamsNext]_pushVars => StreamsInv'
<1> SUFFICES ASSUME StreamsTypeOK, StreamsInv, [StreamsNext]_pushVars
             PROVE  StreamsInv'
  OBVIOUS
<1> USE StreamsAssumption DEF StreamsTypeOK, StreamsInv, NothingBetween
<1>1. CASE Broadcast
  BY <1>1 DEF Broadcast
<1>2. CASE DeleteSession
  BY <1>2 DEF DeleteSession
<1>3. ASSUME NEW s \in Streams, Subscribe(s) PROVE StreamsInv'
  BY <1>3 DEF Subscribe
<1>4. ASSUME NEW s \in Streams, Snapshot(s) PROVE StreamsInv'
  BY <1>4 DEF Snapshot, SnapshotRead
<1>5. ASSUME NEW s \in Streams, Serve(s) PROVE StreamsInv'
  BY <1>5 DEF Serve
<1>6. ASSUME NEW s \in Streams, ClientLeaves(s) PROVE StreamsInv'
  BY <1>6 DEF ClientLeaves
<1>7. ASSUME NEW s \in Streams, Leave(s) PROVE StreamsInv'
  BY <1>7 DEF Leave
<1>8. ASSUME NEW s \in Streams, Unsubscribe(s) PROVE StreamsInv'
  BY <1>8 DEF Unsubscribe
<1>9. ASSUME NEW s \in Streams, CloseChannel(s) PROVE StreamsInv'
  BY <1>9 DEF CloseChannel
<1>10. CASE UNCHANGED pushVars
  BY <1>10 DEF pushVars
<1> QED
  BY <1>1, <1>2, <1>3, <1>4, <1>5, <1>6, <1>7, <1>8, <1>9, <1>10 DEF StreamsNext

(* The oldest event that waits for a client is the next it is sent. *)
LEMMA QueueStep ==
  ASSUME StreamsTypeOK, [StreamsNext]_pushVars, NEW s \in Streams, queue[s] # <<>>
  PROVE  \/ Len(queue'[s]) >= 1 /\ Head(queue'[s]) = Head(queue[s])
         \/ got'[s] = Append(got[s], Head(queue[s]))
<1> USE StreamsAssumption DEF StreamsTypeOK
<1>1. CASE Broadcast
  <2>1. events + 1 \in 1..MaxEvents
    BY <1>1 DEF Broadcast
  <2>2. queue'[s] \in {Offer(queue[s], events + 1), queue[s]}
    BY <1>1 DEF Broadcast
  <2> QED BY <2>1, <2>2, OfferKeeps
<1>2. ASSUME NEW c \in Streams, Serve(c)
      PROVE  \/ queue'[s] = queue[s]
             \/ got'[s] = Append(got[s], Head(queue[s]))
  BY <1>2 DEF Serve
<1>3. CASE UNCHANGED queue
  BY <1>3
<1>4. \/ Broadcast \/ UNCHANGED queue \/ \E c \in Streams : Serve(c)
  BY DEF StreamsNext, pushVars, DeleteSession, Subscribe, Snapshot, ClientLeaves, Leave,
         Unsubscribe, CloseChannel
<1> QED BY <1>1, <1>2, <1>3, <1>4

(* No event is sent on a closed channel, none falls between a client's     *)
(* snapshot and its queue, and none that waits is lost to a newer one.     *)
THEOREM Deliver == StreamsSpec => StreamsDeliver
<1>1. StreamsSpec => []StreamsInv
  BY StreamsKeepTypes, InvBegins, InvKept, PTL DEF StreamsSpec
<1>2. StreamsInv => NoSendOnClosed /\ NothingBetween
  BY DEF StreamsInv, NoSendOnClosed
<1>3. StreamsTypeOK /\ [StreamsNext]_pushVars
        => [\A s \in Streams :
              queue[s] # <<>> => \/ Len(queue'[s]) >= 1 /\ Head(queue'[s]) = Head(queue[s])
                                 \/ got'[s] = Append(got[s], Head(queue[s]))]_pushVars
  BY QueueStep
<1> QED
  BY <1>1, <1>2, <1>3, StreamsKeepTypes, PTL DEF StreamsSpec, StreamsDeliver, QueuedIsDelivered

-----------------------------------------------------------------------------
(* The dashboard's sockets                                                 *)

SocketPcs == {"idle", "total", "user", "addUser", "addTotal", "upgrading", "serving",
              "releasing", "releaseTotal", "refused", "gone"}

SocketsTyped ==
  /\ wsConnTotal \in Int
  /\ wsConnPerUser \in [SocketUsers -> Int]
  /\ socket \in [Sockets -> [pc : SocketPcs, user : SocketUsers \union {NoUser},
                             crowded : BOOLEAN,
                             conn : {"none", "open", "lost", "closed"}]]
  /\ readLoop \in [Sockets -> {"none", "reading", "done"}]
  /\ \A c \in Sockets : socket[c].pc # "idle" => socket[c].user \in SocketUsers

(* Who has a place in the total, and who in a user's number. *)
TotalPlaces ==
  {c \in Sockets : socket[c].pc \in {"upgrading", "serving", "releasing", "releaseTotal"}}
UserPlaces(u) ==
  {c \in Sockets : socket[c].pc \in {"addTotal", "upgrading", "serving", "releasing"}
                   /\ socket[c].user = u}

PlacesCounted ==
  /\ wsConnTotal = Cardinality(TotalPlaces)
  /\ \A u \in SocketUsers : wsConnPerUser[u] = Cardinality(UserPlaces(u))

(* Who acquires alone finds, step by step, what it has compared.           *)
AcquiresAlone ==
  \A c \in Sockets : c \in Acquiring /\ ~ socket[c].crowded =>
    /\ Acquiring = {c}
    /\ socket[c].pc \in {"user", "addUser", "addTotal"} => wsConnTotal < MaxTotal
    /\ socket[c].pc = "addUser" => wsConnPerUser[socket[c].user] < MaxPerUser
    /\ socket[c].pc = "addTotal" => wsConnPerUser[socket[c].user] <= MaxPerUser

SocketsInv == SocketsTyped /\ PlacesCounted /\ AcquiresAlone

LEMMA SocketsBegin == SocketsInit => SocketsInv
<1> SUFFICES ASSUME SocketsInit PROVE SocketsInv
  OBVIOUS
<1>1. SocketsTyped
  BY DEF SocketsInit, SocketsTyped, NoSocket, SocketPcs
<1>2. TotalPlaces = {} /\ \A u : UserPlaces(u) = {}
  BY DEF SocketsInit, NoSocket, TotalPlaces, UserPlaces
<1>3. PlacesCounted
  BY <1>2, FS_EmptySet DEF SocketsInit, PlacesCounted
<1>4. AcquiresAlone
  BY DEF SocketsInit, NoSocket, AcquiresAlone, Acquiring
<1> QED BY <1>1, <1>3, <1>4 DEF SocketsInv

LEMMA SocketsTypes == SocketsTyped /\ [SocketsNext]_socketVars => SocketsTyped'
<1> SUFFICES ASSUME SocketsTyped, [SocketsNext]_socketVars PROVE SocketsTyped'
  OBVIOUS
<1> USE DEF SocketsTyped, SocketPcs
<1>1. CASE UNCHANGED socketVars
  BY <1>1 DEF socketVars
<1>2. ASSUME NEW c \in Sockets, Knock(c) PROVE SocketsTyped'
  <2>1. PICK u \in SocketUsers :
          socket' = [d \in Sockets |->
                       IF d = c THEN [pc |-> "total", user |-> u, crowded |-> Acquiring # {},
                                      conn |-> "none"]
                       ELSE [socket[d] EXCEPT !.crowded = @ \/ d \in Acquiring]]
    BY <1>2 DEF Knock
  <2> DEFINE new == [pc |-> "total", user |-> u, crowded |-> Acquiring # {}, conn |-> "none"]
             other(d) == [socket[d] EXCEPT !.crowded = @ \/ d \in Acquiring]
  <2>2. new \in [pc : SocketPcs, user : SocketUsers \union {NoUser}, crowded : BOOLEAN,
                 conn : {"none", "open", "lost", "closed"}]
    OBVIOUS
  <2>3. \A d \in Sockets :
          /\ other(d) \in [pc : SocketPcs, user : SocketUsers \union {NoUser}, crowded : BOOLEAN,
                           conn : {"none", "open", "lost", "closed"}]
          /\ other(d).pc = socket[d].pc /\ other(d).user = socket[d].user
    OBVIOUS
  <2> HIDE DEF new, other
  <2>4. socket' = [d \in Sockets |-> IF d = c THEN new ELSE other(d)]
    BY <2>1 DEF new, other
  <2>5. new.pc # "idle" => new.user \in SocketUsers
    BY DEF new
  <2> QED BY <1>2, <2>2, <2>3, <2>4, <2>5 DEF Knock
<1>3. ASSUME NEW c \in Sockets, LoadTotal(c) \/ LoadUser(c) \/ AddUser(c) \/ AddTotal(c)
      PROVE  SocketsTyped'
  BY <1>3 DEF LoadTotal, LoadUser, AddUser, AddTotal
<1>4. ASSUME NEW c \in Sockets, Upgrade(c) \/ UpgradeFails(c) \/ ConnectionLost(c) \/ ReaderStops(c)
      PROVE  SocketsTyped'
  <2>1. CASE Upgrade(c)
    BY <2>1 DEF Upgrade
  <2>2. CASE UpgradeFails(c) \/ ConnectionLost(c)
    BY <2>2 DEF UpgradeFails, ConnectionLost
  <2>3. CASE ReaderStops(c)
    BY <2>3 DEF ReaderStops
  <2> QED BY <1>4, <2>1, <2>2, <2>3
<1>5. ASSUME NEW c \in Sockets, Hangup(c) \/ WriteFails(c) \/ ReleaseUser(c) \/ ReleaseTotal(c)
      PROVE  SocketsTyped'
  BY <1>5 DEF Hangup, WriteFails, ReleaseUser, ReleaseTotal
<1>6. ASSUME NEW c \in Sockets, Again(c) PROVE SocketsTyped'
  BY <1>6 DEF Again, NoSocket
<1> QED BY <1>1, <1>2, <1>3, <1>4, <1>5, <1>6 DEF SocketsNext

(* A place that is taken, or given back, by one changes a number by one.   *)
LEMMA OneMore ==
  ASSUME NEW S, IsFiniteSet(S), NEW c
  PROVE  /\ c \notin S => Cardinality(S \cup {c}) = Cardinality(S) + 1
         /\ c \in S => Cardinality(S \ {c}) = Cardinality(S) - 1
BY FS_AddElement, FS_RemoveElement

LEMMA PlacesFinite ==
  IsFiniteSet(TotalPlaces) /\ \A u : IsFiniteSet(UserPlaces(u))
<1>1. TotalPlaces \in SUBSET Sockets /\ \A u : UserPlaces(u) \in SUBSET Sockets
  BY DEF TotalPlaces, UserPlaces
<1> QED BY <1>1, SocketsAssumption, FS_Subset

(* A step of c in which it moves from one place in the code to another,    *)
(* and keeps its user.                                                     *)
Moves(c, from, to) ==
  /\ socket[c].pc = from
  /\ \A d \in Sockets : /\ socket'[d].pc = IF d = c THEN to ELSE socket[d].pc
                        /\ socket'[d].user = socket[d].user
                        /\ socket'[d].crowded = socket[d].crowded

LEMMA SocketMoves ==
  ASSUME SocketsTyped, NEW c \in Sockets
  PROVE  /\ LoadTotal(c) => \/ Moves(c, "total", "refused") /\ wsConnTotal >= MaxTotal
                            \/ Moves(c, "total", "user") /\ wsConnTotal < MaxTotal
         /\ LoadUser(c) => \/ Moves(c, "user", "refused")
                           \/ Moves(c, "user", "addUser") /\ UserHasRoom(socket[c].user)
         /\ AddUser(c) => Moves(c, "addUser", "addTotal")
         /\ AddTotal(c) => Moves(c, "addTotal", "upgrading")
         /\ Upgrade(c) => Moves(c, "upgrading", "serving")
         /\ UpgradeFails(c) => Moves(c, "upgrading", "releasing")
         /\ ConnectionLost(c) => Moves(c, socket[c].pc, socket[c].pc)
         /\ Hangup(c) \/ WriteFails(c) => Moves(c, "serving", "releasing")
         /\ ReleaseUser(c) => Moves(c, "releasing", "releaseTotal")
         /\ ReleaseTotal(c) => Moves(c, "releaseTotal", "gone")
<1> USE SocketsAssumption DEF SocketsTyped, SocketPcs, Moves
<1>1. LoadTotal(c) => \/ Moves(c, "total", "refused") /\ wsConnTotal >= MaxTotal
                      \/ Moves(c, "total", "user") /\ wsConnTotal < MaxTotal
  <2>1. CASE wsConnTotal >= MaxTotal
    <3>1. LoadTotal(c) => socket[c].pc = "total" /\ socket' = [socket EXCEPT ![c].pc = "refused"]
      BY <2>1 DEF LoadTotal
    <3>2. LoadTotal(c) => Moves(c, "total", "refused")
      BY <3>1
    <3> HIDE DEF Moves
    <3> QED BY <2>1, <3>2
  <2>2. CASE ~ (wsConnTotal >= MaxTotal)
    <3>1. LoadTotal(c) => socket[c].pc = "total" /\ socket' = [socket EXCEPT ![c].pc = "user"]
      BY <2>2 DEF LoadTotal
    <3>2. LoadTotal(c) => Moves(c, "total", "user")
      BY <3>1
    <3>3. wsConnTotal < MaxTotal
      BY <2>2
    <3> HIDE DEF Moves
    <3> QED BY <3>2, <3>3
  <2> QED BY <2>1, <2>2
<1>2. LoadUser(c) => \/ Moves(c, "user", "refused")
                     \/ Moves(c, "user", "addUser") /\ UserHasRoom(socket[c].user)
  <2>1. CASE UserHasRoom(socket[c].user)
    BY <2>1 DEF LoadUser
  <2>2. CASE ~ UserHasRoom(socket[c].user)
    <3>1. LoadUser(c) => socket[c].pc = "user" /\ socket' = [socket EXCEPT ![c].pc = "refused"]
      BY <2>2 DEF LoadUser
    <3>2. LoadUser(c) => Moves(c, "user", "refused")
      BY <3>1
    <3> HIDE DEF Moves
    <3> QED BY <3>2
  <2> QED BY <2>1, <2>2
<1>3. AddUser(c) => Moves(c, "addUser", "addTotal")
  BY DEF AddUser
<1>4. AddTotal(c) => Moves(c, "addTotal", "upgrading")
  BY DEF AddTotal
<1>5. Upgrade(c) => Moves(c, "upgrading", "serving")
  BY DEF Upgrade
<1>6. UpgradeFails(c) => Moves(c, "upgrading", "releasing")
  BY DEF UpgradeFails
<1>7. ConnectionLost(c) => Moves(c, socket[c].pc, socket[c].pc)
  BY DEF ConnectionLost
<1>8. Hangup(c) => Moves(c, "serving", "releasing")
  BY DEF Hangup
<1>9. WriteFails(c) => Moves(c, "serving", "releasing")
  BY DEF WriteFails
<1>10. ReleaseUser(c) => Moves(c, "releasing", "releaseTotal")
  BY DEF ReleaseUser
<1>11. ReleaseTotal(c) => Moves(c, "releaseTotal", "gone")
  BY DEF ReleaseTotal
<1> QED BY <1>1, <1>2, <1>3, <1>4, <1>5, <1>6, <1>7, <1>8, <1>9, <1>10, <1>11

(* Where the moves of one request leave the places.                        *)
LEMMA PlacesMove ==
  ASSUME SocketsTyped, NEW c \in Sockets, NEW from \in SocketPcs, NEW to \in SocketPcs,
         Moves(c, from, to)
  PROVE  LET T == {"upgrading", "serving", "releasing", "releaseTotal"}
             U == {"addTotal", "upgrading", "serving", "releasing"}
         IN  /\ from \in T <=> c \in TotalPlaces
             /\ TotalPlaces' = IF to \in T THEN TotalPlaces \cup {c} ELSE TotalPlaces \ {c}
             /\ \A u : UserPlaces(u)' = IF to \in U /\ socket[c].user = u THEN UserPlaces(u) \cup {c}
                                        ELSE UserPlaces(u) \ {c}
             /\ \A u : c \in UserPlaces(u) <=> from \in U /\ socket[c].user = u
BY DEF Moves, TotalPlaces, UserPlaces

LEMMA SocketsCount ==
  ASSUME SocketsInv, SocketsTyped', [SocketsNext]_socketVars
  PROVE  PlacesCounted'
<1> DEFINE T == {"upgrading", "serving", "releasing", "releaseTotal"}
           U == {"addTotal", "upgrading", "serving", "releasing"}
<1>1. SocketsTyped /\ PlacesCounted
  BY DEF SocketsInv
(* Steps that do not touch the places. *)
<1>2. ASSUME TotalPlaces' = TotalPlaces, \A u : UserPlaces(u)' = UserPlaces(u),
             UNCHANGED <<wsConnTotal, wsConnPerUser>>
      PROVE  PlacesCounted'
  BY <1>1, <1>2 DEF PlacesCounted
<1>3. ASSUME NEW c \in Sockets, NEW from \in SocketPcs, NEW to \in SocketPcs, Moves(c, from, to),
             from \in T <=> to \in T, from \in U <=> to \in U,
             UNCHANGED <<wsConnTotal, wsConnPerUser>>
      PROVE  PlacesCounted'
  BY <1>1, <1>2, <1>3, PlacesMove
<1>5. CASE UNCHANGED socketVars
  BY <1>2, <1>5 DEF socketVars, TotalPlaces, UserPlaces
<1>6. ASSUME NEW c \in Sockets, Knock(c) PROVE PlacesCounted'
  <2>1. /\ socket[c].pc = "idle" /\ socket'[c].pc = "total"
        /\ \A d \in Sockets : d # c => /\ socket'[d].pc = socket[d].pc
                                       /\ socket'[d].user = socket[d].user
    BY <1>1, <1>6 DEF Knock, SocketsTyped
  <2>2. TotalPlaces' = TotalPlaces /\ \A u : UserPlaces(u)' = UserPlaces(u)
    BY <2>1 DEF TotalPlaces, UserPlaces
  <2> QED BY <1>2, <1>6, <2>2 DEF Knock
<1>7. ASSUME NEW c \in Sockets, Again(c) PROVE PlacesCounted'
  <2>1. /\ socket[c].pc \in {"gone", "refused"} /\ socket'[c].pc = "idle"
        /\ \A d \in Sockets : d # c => socket'[d] = socket[d]
    BY <1>1, <1>7 DEF Again, SocketsTyped, NoSocket
  <2>2. TotalPlaces' = TotalPlaces /\ \A u : UserPlaces(u)' = UserPlaces(u)
    BY <2>1 DEF TotalPlaces, UserPlaces
  <2> QED BY <1>2, <1>7, <2>2 DEF Again
<1>8. ASSUME NEW c \in Sockets, LoadTotal(c) \/ LoadUser(c) \/ Upgrade(c) \/ UpgradeFails(c)
                               \/ ConnectionLost(c) \/ Hangup(c) \/ WriteFails(c)
      PROVE  PlacesCounted'
  <2>1. UNCHANGED <<wsConnTotal, wsConnPerUser>>
    BY <1>8 DEF LoadTotal, LoadUser, Upgrade, UpgradeFails, ConnectionLost, Hangup, WriteFails
  <2>2. PICK from \in SocketPcs, to \in SocketPcs :
          Moves(c, from, to) /\ (from \in T <=> to \in T) /\ (from \in U <=> to \in U)
    <3>1. CASE LoadTotal(c) \/ LoadUser(c)
      BY <1>1, <3>1, SocketMoves DEF SocketPcs
    <3>2. CASE Upgrade(c) \/ UpgradeFails(c)
      BY <1>1, <3>2, SocketMoves DEF SocketPcs
    <3>3. CASE Hangup(c) \/ WriteFails(c)
      BY <1>1, <3>3, SocketMoves DEF SocketPcs
    <3>4. CASE ConnectionLost(c)
      BY <1>1, <3>4, SocketMoves DEF SocketsTyped
    <3> QED BY <1>8, <3>1, <3>2, <3>3, <3>4
  <2> QED BY <1>3, <2>1, <2>2
<1>9. ASSUME NEW c \in Sockets, ReaderStops(c) PROVE PlacesCounted'
  BY <1>2, <1>9 DEF ReaderStops, TotalPlaces, UserPlaces
<1>10. ASSUME NEW c \in Sockets, AddUser(c) PROVE PlacesCounted'
  <2>1. Moves(c, "addUser", "addTotal")
    BY <1>1, <1>10, SocketMoves
  <2>2. /\ UNCHANGED wsConnTotal
        /\ wsConnPerUser' = [wsConnPerUser EXCEPT ![socket[c].user] = @ + 1]
    BY <1>10 DEF AddUser
  <2>3. /\ TotalPlaces' = TotalPlaces
        /\ \A u : c \notin UserPlaces(u)
        /\ \A u : UserPlaces(u)' = IF u = socket[c].user THEN UserPlaces(u) \cup {c} ELSE UserPlaces(u)
    BY <2>1 DEF Moves, TotalPlaces, UserPlaces
  <2>4. \A u : Cardinality(UserPlaces(u) \cup {c}) = Cardinality(UserPlaces(u)) + 1
    BY <2>3, PlacesFinite, OneMore
  <2> QED BY <1>1, <2>2, <2>3, <2>4 DEF PlacesCounted, SocketsTyped
<1>11. ASSUME NEW c \in Sockets, ReleaseUser(c) PROVE PlacesCounted'
  <2>1. Moves(c, "releasing", "releaseTotal")
    BY <1>1, <1>11, SocketMoves
  <2>2. /\ UNCHANGED wsConnTotal
        /\ wsConnPerUser' = [wsConnPerUser EXCEPT ![socket[c].user] = @ - 1]
    BY <1>11 DEF ReleaseUser
  <2>3. /\ TotalPlaces' = TotalPlaces
        /\ \A u : c \in UserPlaces(u) <=> u = socket[c].user
        /\ \A u : UserPlaces(u)' = IF u = socket[c].user THEN UserPlaces(u) \ {c} ELSE UserPlaces(u)
    BY <2>1 DEF Moves, TotalPlaces, UserPlaces
  <2>4. \A u : u = socket[c].user => Cardinality(UserPlaces(u) \ {c}) = Cardinality(UserPlaces(u)) - 1
    BY <2>3, PlacesFinite, OneMore
  <2> QED BY <1>1, <2>2, <2>3, <2>4 DEF PlacesCounted, SocketsTyped
<1>12. ASSUME NEW c \in Sockets, AddTotal(c) PROVE PlacesCounted'
  <2>1. Moves(c, "addTotal", "upgrading")
    BY <1>1, <1>12, SocketMoves
  <2>2. wsConnTotal' = wsConnTotal + 1 /\ UNCHANGED wsConnPerUser
    BY <1>12 DEF AddTotal
  <2>3. /\ TotalPlaces' = TotalPlaces \cup {c} /\ c \notin TotalPlaces
        /\ \A u : UserPlaces(u)' = UserPlaces(u)
    BY <2>1 DEF Moves, TotalPlaces, UserPlaces
  <2>4. Cardinality(TotalPlaces \cup {c}) = Cardinality(TotalPlaces) + 1
    BY <2>3, PlacesFinite, OneMore
  <2> QED BY <1>1, <2>2, <2>3, <2>4 DEF PlacesCounted
<1>13. ASSUME NEW c \in Sockets, ReleaseTotal(c) PROVE PlacesCounted'
  <2>1. Moves(c, "releaseTotal", "gone")
    BY <1>1, <1>13, SocketMoves
  <2>2. wsConnTotal' = wsConnTotal - 1 /\ UNCHANGED wsConnPerUser
    BY <1>13 DEF ReleaseTotal
  <2>3. /\ TotalPlaces' = TotalPlaces \ {c} /\ c \in TotalPlaces
        /\ \A u : UserPlaces(u)' = UserPlaces(u)
    BY <2>1 DEF Moves, TotalPlaces, UserPlaces
  <2>4. Cardinality(TotalPlaces \ {c}) = Cardinality(TotalPlaces) - 1
    BY <2>3, PlacesFinite, OneMore
  <2> QED BY <1>1, <2>2, <2>3, <2>4 DEF PlacesCounted
<1> QED
  BY <1>5, <1>6, <1>7, <1>8, <1>9, <1>10, <1>11, <1>12, <1>13 DEF SocketsNext

(* Nobody else moves a number up while one request acquires alone.         *)
LEMMA SocketsAlone ==
  ASSUME SocketsInv, SocketsTyped', [SocketsNext]_socketVars
  PROVE  AcquiresAlone'
<1>1. SocketsTyped /\ AcquiresAlone
  BY DEF SocketsInv
<1> DEFINE A == {"total", "user", "addUser", "addTotal"}
(* A step that does not add to the numbers, and brings nobody in.          *)
<1>2. ASSUME wsConnTotal' <= wsConnTotal,
             \A u \in SocketUsers : wsConnPerUser'[u] <= wsConnPerUser[u],
             \A d \in Sockets : socket'[d].pc \in A =>
               /\ socket'[d].pc = socket[d].pc
               /\ socket'[d].user = socket[d].user
               /\ socket'[d].crowded = socket[d].crowded
      PROVE  AcquiresAlone'
  <2> SUFFICES ASSUME NEW d \in Sockets, d \in Acquiring', ~ socket'[d].crowded
               PROVE  /\ Acquiring' = {d}
                      /\ socket'[d].pc \in {"user", "addUser", "addTotal"} => wsConnTotal' < MaxTotal
                      /\ socket'[d].pc = "addUser" => wsConnPerUser'[socket'[d].user] < MaxPerUser
                      /\ socket'[d].pc = "addTotal" => wsConnPerUser'[socket'[d].user] <= MaxPerUser
    BY DEF AcquiresAlone
  <2>1. /\ socket'[d].pc = socket[d].pc /\ socket'[d].user = socket[d].user
        /\ socket'[d].pc \in A /\ ~ socket[d].crowded
    BY <1>2 DEF Acquiring
  <2>2. /\ Acquiring = {d}
        /\ socket[d].pc \in {"user", "addUser", "addTotal"} => wsConnTotal < MaxTotal
        /\ socket[d].pc = "addUser" => wsConnPerUser[socket[d].user] < MaxPerUser
        /\ socket[d].pc = "addTotal" => wsConnPerUser[socket[d].user] <= MaxPerUser
    BY <1>1, <2>1 DEF AcquiresAlone, Acquiring
  <2>3. Acquiring' = {d}
    BY <1>2, <2>1, <2>2 DEF Acquiring
  <2>4. socket[d].user \in SocketUsers
    BY <1>1, <2>1 DEF SocketsTyped
  <2>5. /\ wsConnTotal \in Int /\ wsConnTotal' \in Int
        /\ wsConnPerUser[socket[d].user] \in Int /\ wsConnPerUser'[socket[d].user] \in Int
        /\ wsConnPerUser'[socket[d].user] <= wsConnPerUser[socket[d].user]
    BY <1>1, <1>2, <2>4 DEF SocketsTyped
  <2> QED BY <1>2, <2>1, <2>2, <2>3, <2>5, SocketsAssumption
(* A request on its way finds room, or takes it for its user.              *)
<1>3. ASSUME NEW c \in Sockets, NEW from \in A, NEW to \in A, Moves(c, from, to),
             wsConnTotal' = wsConnTotal,
             ~ socket[c].crowded /\ Acquiring = {c} =>
               /\ to \in {"user", "addUser", "addTotal"} => wsConnTotal < MaxTotal
               /\ to = "addUser" => wsConnPerUser'[socket[c].user] < MaxPerUser
               /\ to = "addTotal" => wsConnPerUser'[socket[c].user] <= MaxPerUser
      PROVE  AcquiresAlone'
  <2>1. Acquiring' = Acquiring /\ c \in Acquiring
    BY <1>3 DEF Acquiring, Moves
  <2>2. \A d \in Sockets : /\ socket'[d].crowded = socket[d].crowded
                           /\ socket'[d].user = socket[d].user
    BY <1>3 DEF Moves
  <2>3. \A d \in Sockets : d \in Acquiring /\ ~ socket[d].crowded => d = c /\ Acquiring = {c}
    BY <1>1, <2>1 DEF AcquiresAlone
  <2>4. socket'[c].pc = to
    BY <1>3 DEF Moves
  <2> QED BY <1>3, <2>1, <2>2, <2>3, <2>4 DEF AcquiresAlone
<1>4. ASSUME NEW c \in Sockets, Knock(c) PROVE AcquiresAlone'
  <2>1. /\ socket[c].pc = "idle" /\ socket'[c].pc = "total"
        /\ socket'[c].crowded <=> Acquiring # {}
        /\ \A d \in Sockets : d # c => /\ socket'[d].pc = socket[d].pc
                                       /\ d \in Acquiring => socket'[d].crowded
    <3>1. PICK u \in SocketUsers :
             socket' = [d \in Sockets |->
                          IF d = c THEN [pc |-> "total", user |-> u, crowded |-> Acquiring # {},
                                         conn |-> "none"]
                          ELSE [socket[d] EXCEPT !.crowded = @ \/ d \in Acquiring]]
      BY <1>4 DEF Knock
    <3>2. /\ socket'[c].pc = "total"
          /\ socket'[c].crowded <=> Acquiring # {}
      BY <3>1
    <3>3. ASSUME NEW d \in Sockets, d # c
          PROVE  /\ socket'[d].pc = socket[d].pc
                 /\ d \in Acquiring => socket'[d].crowded
      <4>1. socket'[d] = [socket[d] EXCEPT !.crowded = @ \/ d \in Acquiring]
        BY <3>1, <3>3
      <4>2. /\ DOMAIN socket[d] = {"pc", "user", "crowded", "conn"}
        BY <1>1 DEF SocketsTyped
      <4>3. socket'[d].pc = socket[d].pc
        BY <4>1, <4>2
      <4>4. socket'[d].crowded = (socket[d].crowded \/ d \in Acquiring)
        BY <4>1, <4>2
      <4> QED BY <4>3, <4>4
    <3> QED BY <1>4, <3>2, <3>3 DEF Knock
  <2>2. Acquiring' = Acquiring \cup {c} /\ c \notin Acquiring
    BY <2>1 DEF Acquiring
  <2> QED BY <2>1, <2>2 DEF AcquiresAlone
<1>5. ASSUME NEW c \in Sockets, LoadTotal(c) PROVE AcquiresAlone'
  <2>1. UNCHANGED <<wsConnTotal, wsConnPerUser>>
    BY <1>5 DEF LoadTotal
  <2>2. CASE Moves(c, "total", "user") /\ wsConnTotal < MaxTotal
    BY <1>3, <2>1, <2>2
  <2>3. CASE Moves(c, "total", "refused")
    <3>1. \A d \in Sockets : socket'[d].pc \in A =>
               /\ socket'[d].pc = socket[d].pc
               /\ socket'[d].user = socket[d].user
               /\ socket'[d].crowded = socket[d].crowded
      BY <2>3 DEF Moves
    <3> QED BY <1>1, <1>2, <2>1, <3>1 DEF SocketsTyped
  <2> QED BY <1>1, <1>5, <2>2, <2>3, SocketMoves
<1>6. ASSUME NEW c \in Sockets, LoadUser(c) PROVE AcquiresAlone'
  <2>1. UNCHANGED <<wsConnTotal, wsConnPerUser>> /\ socket[c].pc = "user"
    BY <1>6 DEF LoadUser
  <2>2. CASE Moves(c, "user", "addUser") /\ UserHasRoom(socket[c].user)
    <3>1. ~ socket[c].crowded /\ Acquiring = {c} => wsConnTotal < MaxTotal
      BY <1>1, <2>1 DEF AcquiresAlone
    <3>2. wsConnPerUser'[socket[c].user] < MaxPerUser
      BY <2>1, <2>2 DEF UserHasRoom
    <3> QED BY <1>3, <2>1, <2>2, <3>1, <3>2
  <2>3. CASE Moves(c, "user", "refused")
    <3>1. \A d \in Sockets : socket'[d].pc \in A =>
               /\ socket'[d].pc = socket[d].pc
               /\ socket'[d].user = socket[d].user
               /\ socket'[d].crowded = socket[d].crowded
      BY <2>3 DEF Moves
    <3> QED BY <1>1, <1>2, <2>1, <3>1 DEF SocketsTyped
  <2> QED BY <1>1, <1>6, <2>2, <2>3, SocketMoves
<1>7. ASSUME NEW c \in Sockets, AddUser(c) PROVE AcquiresAlone'
  <2>1. /\ Moves(c, "addUser", "addTotal") /\ socket[c].pc = "addUser"
        /\ wsConnTotal' = wsConnTotal
        /\ wsConnPerUser' = [wsConnPerUser EXCEPT ![socket[c].user] = @ + 1]
    BY <1>1, <1>7, SocketMoves DEF AddUser
  <2>2. socket[c].user \in SocketUsers /\ wsConnPerUser[socket[c].user] \in Int
    BY <1>1, <2>1 DEF SocketsTyped
  <2>3. wsConnPerUser'[socket[c].user] = wsConnPerUser[socket[c].user] + 1
    BY <1>1, <2>1, <2>2 DEF SocketsTyped
  <2>4. ~ socket[c].crowded /\ Acquiring = {c} =>
          wsConnTotal < MaxTotal /\ wsConnPerUser[socket[c].user] < MaxPerUser
    BY <1>1, <2>1 DEF AcquiresAlone
  <2>5. ~ socket[c].crowded /\ Acquiring = {c} => wsConnPerUser'[socket[c].user] <= MaxPerUser
    BY <2>2, <2>3, <2>4, SocketsAssumption
  <2> QED BY <1>3, <2>1, <2>4, <2>5
<1>8. ASSUME NEW c \in Sockets, AddTotal(c) PROVE AcquiresAlone'
  <2>1. Moves(c, "addTotal", "upgrading") /\ socket[c].pc = "addTotal"
    BY <1>1, <1>8, SocketMoves DEF AddTotal
  <2>2. c \in Acquiring /\ Acquiring' = Acquiring \ {c}
    BY <2>1 DEF Moves, Acquiring
  <2>3. \A d \in Sockets : d \in Acquiring' => socket'[d].crowded
    BY <1>1, <2>1, <2>2 DEF AcquiresAlone, Moves
  <2> QED BY <2>3 DEF AcquiresAlone
<1>9. ASSUME NEW c \in Sockets, \/ Upgrade(c) \/ UpgradeFails(c) \/ ConnectionLost(c) \/ Hangup(c)
                                \/ WriteFails(c) \/ ReleaseUser(c) \/ ReleaseTotal(c)
      PROVE  AcquiresAlone'
  <2>1. \E from, to \in SocketPcs : Moves(c, from, to) /\ (to \in A => to = from)
    <3>1. CASE Upgrade(c) \/ UpgradeFails(c)
      BY <1>1, <3>1, SocketMoves DEF SocketPcs
    <3>2. CASE Hangup(c) \/ WriteFails(c)
      BY <1>1, <3>2, SocketMoves DEF SocketPcs
    <3>3. CASE ReleaseUser(c) \/ ReleaseTotal(c)
      BY <1>1, <3>3, SocketMoves DEF SocketPcs
    <3>4. CASE ConnectionLost(c)
      BY <1>1, <3>4, SocketMoves DEF SocketsTyped
    <3> QED BY <1>9, <3>1, <3>2, <3>3, <3>4
  <2>2. \A d \in Sockets : socket'[d].pc \in A =>
             /\ socket'[d].pc = socket[d].pc
             /\ socket'[d].user = socket[d].user
             /\ socket'[d].crowded = socket[d].crowded
    BY <2>1 DEF Moves
  <2>3. wsConnTotal' <= wsConnTotal /\ \A u \in SocketUsers : wsConnPerUser'[u] <= wsConnPerUser[u]
    BY <1>1, <1>9 DEF SocketsTyped, Upgrade, UpgradeFails, ConnectionLost, Hangup, WriteFails,
                      ReleaseUser, ReleaseTotal
  <2> QED BY <1>2, <2>2, <2>3
<1>10. ASSUME NEW c \in Sockets, Again(c) PROVE AcquiresAlone'
  <2>1. /\ socket'[c].pc = "idle" /\ \A d \in Sockets : d # c => socket'[d] = socket[d]
        /\ UNCHANGED <<wsConnTotal, wsConnPerUser>>
    BY <1>1, <1>10 DEF Again, SocketsTyped, NoSocket
  <2> QED BY <1>1, <1>2, <2>1 DEF SocketsTyped
<1>11. CASE UNCHANGED <<wsConnTotal, wsConnPerUser, socket>>
  BY <1>1, <1>2, <1>11 DEF SocketsTyped
<1>12. ASSUME NEW c \in Sockets, ReaderStops(c) PROVE UNCHANGED <<wsConnTotal, wsConnPerUser, socket>>
  BY <1>12 DEF ReaderStops
<1> QED
  BY <1>4, <1>5, <1>6, <1>7, <1>8, <1>9, <1>10, <1>11, <1>12 DEF SocketsNext, socketVars

LEMMA SocketsKept == SocketsInv /\ [SocketsNext]_socketVars => SocketsInv'
BY SocketsTypes, SocketsCount, SocketsAlone DEF SocketsInv

(* For any requests, users and quotas: the two counters tell the           *)
(* connections there are, however each ended, and a request that is not    *)
(* among others stays within the user's quota and the process's.           *)
THEOREM QuotasHold == SocketsSpec => QuotaHolds
<1>1. SocketsInv /\ [SocketsNext]_socketVars => SocketsInv'
  BY SocketsKept
<1>2. SocketsInv => TotalTellsConnections /\ \A u \in SocketUsers : UserTellsConnections(u)
  <2>1. /\ TotalPlaces = Holding \union {c \in Sockets : socket[c].pc = "releaseTotal"}
        /\ \A u : UserPlaces(u) = {c \in Holding \union {d \in Sockets : socket[d].pc = "addTotal"} :
                                     socket[c].user = u}
    BY DEF TotalPlaces, UserPlaces, Holding
  <2> QED BY <2>1 DEF SocketsInv, PlacesCounted, TotalTellsConnections, UserTellsConnections
<1>3. SocketsInv /\ [SocketsNext]_socketVars =>
        [\A c \in Sockets :
           socket[c].pc = "addTotal" /\ socket'[c].pc = "upgrading" /\ ~socket[c].crowded
             => wsConnTotal' <= MaxTotal /\ wsConnPerUser'[socket[c].user] <= MaxPerUser]_socketVars
  <2> SUFFICES ASSUME SocketsInv, SocketsNext, NEW c \in Sockets,
                      socket[c].pc = "addTotal", socket'[c].pc = "upgrading", ~socket[c].crowded
               PROVE  wsConnTotal' <= MaxTotal /\ wsConnPerUser'[socket[c].user] <= MaxPerUser
    OBVIOUS
  <2>1. /\ wsConnTotal < MaxTotal /\ wsConnPerUser[socket[c].user] <= MaxPerUser
        /\ wsConnTotal \in Int
    BY DEF SocketsInv, SocketsTyped, AcquiresAlone, Acquiring
  <2>2. AddTotal(c)
    <3>1. ASSUME NEW d \in Sockets, d # c,
                 \/ LoadTotal(d) \/ LoadUser(d) \/ AddUser(d) \/ AddTotal(d)
                 \/ Upgrade(d) \/ UpgradeFails(d) \/ ConnectionLost(d) \/ Hangup(d)
                 \/ WriteFails(d) \/ ReleaseUser(d) \/ ReleaseTotal(d)
          PROVE  FALSE
      <4>1. \E from, to : Moves(d, from, to)
        BY <3>1, SocketMoves DEF SocketsInv
      <4> QED BY <3>1, <4>1 DEF Moves
    <3>2. ASSUME NEW d \in Sockets, Knock(d) \/ Again(d) \/ ReaderStops(d) PROVE FALSE
      <4>1. CASE Knock(d)
        BY <4>1 DEF Knock, SocketsInv, SocketsTyped
      <4>2. CASE Again(d)
        BY <4>2 DEF Again, NoSocket, SocketsInv, SocketsTyped
      <4>3. CASE ReaderStops(d)
        BY <4>3 DEF ReaderStops
      <4> QED BY <3>2, <4>1, <4>2, <4>3
    <3>3. ~ ConnectionLost(c)
      BY SocketMoves DEF SocketsInv, Moves
    <3> QED
      BY <3>1, <3>2, <3>3 DEF SocketsNext, LoadTotal, LoadUser, AddUser, Upgrade, UpgradeFails, Hangup,
                              WriteFails, ReleaseUser, ReleaseTotal
  <2> QED BY <2>1, <2>2, SocketsAssumption DEF AddTotal
<1> QED
  BY <1>1, <1>2, <1>3, SocketsBegin, PTL DEF SocketsSpec, QuotaHolds, AloneWithinQuota

-----------------------------------------------------------------------------
(* A dial: which steps the connection is open in, and where its goroutine  *)
(* is.                                                                     *)
DialInv ==
  /\ dial \in {"connecting", "tunnel", "tls", "spawn", "select", "awaiting", "failed", "returned"}
  /\ conn \in {"none", "open", "closed"}
  /\ shaker \in {"none", "shaking", "shaken", "failed"}
  /\ dial = "connecting" => conn = "none"
  /\ dial \in {"tunnel", "tls", "spawn", "select"} => conn = "open"
  /\ dial = "awaiting" => conn = "closed"
  /\ dial \in {"connecting", "tunnel", "tls", "spawn"} => shaker = "none"
  /\ FailsClean
  /\ ReturnsOpen

(* However the network answers, a dial that fails leaves no connection     *)
(* open and no goroutine behind, and one that succeeds returns an open     *)
(* socket.                                                                 *)
THEOREM DialsEndClean == DialSpec => []DialsClean
<1>1. DialInit => DialInv
  BY DEF DialInit, DialInv, FailsClean, ReturnsOpen
<1>2. DialInv /\ [DialNext]_dialVars => DialInv'
  <2> SUFFICES ASSUME DialInv, [DialNext]_dialVars PROVE DialInv'
    OBVIOUS
  <2> USE DEF DialInv, FailsClean, ReturnsOpen
  <2>1. CASE DialStep
    BY <2>1 DEF DialStep, Spawn, GivesUp, ContextFirst, HandshakeFirst
  <2>2. CASE Connected \/ ConnectFails
    BY <2>2 DEF Connected, ConnectFails, AfterConnect, AfterTunnel
  <2>3. CASE TunnelAnswers \/ TunnelFails
    BY <2>3 DEF TunnelAnswers, TunnelFails, AfterTunnel
  <2>4. CASE TlsDone \/ TlsFails
    BY <2>4 DEF TlsDone, TlsFails
  <2>5. CASE ShakeDone \/ ShakeFails \/ Expire
    BY <2>5 DEF ShakeDone, ShakeFails, Expire
  <2>6. CASE UNCHANGED dialVars
    BY <2>6 DEF dialVars
  <2> QED BY <2>1, <2>2, <2>3, <2>4, <2>5, <2>6 DEF DialNext
<1>3. DialInv => DialsClean
  BY DEF DialInv, DialsClean
<1> QED BY <1>1, <1>2, <1>3, PTL DEF DialSpec

-----------------------------------------------------------------------------
(* A call of a model: which requests have left by when, ...                *)
McpPcs == {"none", "send", "waiting", "backoff", "select", "returned"}
Lines == {"delta", "other"}

McpTyped ==
  /\ req \in [pc : McpPcs, attempt : Nat, stream : BOOLEAN, text : Nat,
              result : {"none", "text", "error"}]
  /\ sent \in Nat /\ deltas \in Nat
  /\ reader \in [pc : {"none", "scan", "offer", "report", "end"}, line : {"none"} \cup Lines]
  /\ errCh \in {{}, {"eof"}, {"error"}}
  /\ body \in [lines : Seq(Lines), state : {"none", "open", "ended", "broken", "closed"}]

AttemptsInv ==
  /\ req.pc = "none" => sent = 0
  /\ req.pc = "send" => req.attempt >= 1 /\ sent = req.attempt - 1 /\ req.attempt <= MaxRetries + 1
  /\ req.pc = "waiting" => sent = req.attempt /\ req.attempt <= MaxRetries + 1
  /\ req.pc = "backoff" => sent = req.attempt /\ req.attempt <= MaxRetries /\ ~ req.stream
  /\ req.stream /\ req.pc \in {"send", "waiting"} => req.attempt = 1
  /\ AttemptsBounded

(* ... and where the deltas of a stream are: with the caller, on offer, or *)
(* among the lines not yet read.                                           *)
DeltaLines(lines) == {i \in 1..Len(lines) : lines[i] = "delta"}
Unread(lines) == Cardinality(DeltaLines(lines))
Offered == IF reader.pc = "offer" /\ reader.line = "delta" THEN 1 ELSE 0

StreamInv ==
  /\ reader.pc = "none" => /\ body.state = "none" /\ body.lines = <<>> /\ errCh = {}
                           /\ deltas = 0 /\ req.text = 0
  /\ req.pc \in {"none", "send", "waiting", "backoff"} => reader.pc = "none"
  /\ req.pc # "returned" => req.result = "none"
  /\ req.pc = "select" <=> body.state \in {"open", "ended", "broken"}
  /\ req.pc = "select" =>
       /\ req.stream
       /\ req.text + Offered + Unread(body.lines) = deltas
       /\ reader.pc \in {"report", "end"} => body.lines = <<>> /\ body.state # "open"
       /\ errCh # {} => reader.pc = "end"
  /\ StreamIsWhole

McpInv == McpTyped /\ AttemptsInv /\ StreamInv

LEMMA McpBegins == McpInit => McpInv
<1> SUFFICES ASSUME McpInit PROVE McpInv
  OBVIOUS
<1>1. McpTyped
  BY DEF McpInit, McpTyped, McpPcs, NoCall, NoReader, NoBody
<1>2. AttemptsInv
  BY McpAssumption DEF McpInit, AttemptsInv, AttemptsBounded, NoCall
<1>3. StreamInv
  BY DEF McpInit, StreamInv, StreamIsWhole, NoCall, NoReader, NoBody
<1> QED BY <1>1, <1>2, <1>3 DEF McpInv

(* What one line more, at the end or from the front, changes of the        *)
(* deltas not yet read.                                                    *)
LEMMA UnreadIsFinite ==
  ASSUME NEW lines \in Seq(Lines)
  PROVE  IsFiniteSet(DeltaLines(lines)) /\ Unread(lines) \in Nat
<1>1. Len(lines) \in Nat
  OBVIOUS
<1>2. IsFiniteSet(1..Len(lines)) /\ DeltaLines(lines) \subseteq 1..Len(lines)
  BY <1>1, FS_Interval DEF DeltaLines
<1>3. IsFiniteSet(DeltaLines(lines))
  BY <1>2, FS_Subset
<1> QED BY <1>3, FS_CardinalityType DEF Unread

LEMMA UnreadOfNone == Unread(<<>>) = 0
<1>1. DeltaLines(<<>>) = {}
  BY DEF DeltaLines
<1> QED BY <1>1, FS_EmptySet DEF Unread

LEMMA UnreadGrows ==
  ASSUME NEW lines \in Seq(Lines), NEW line \in Lines
  PROVE  Unread(Append(lines, line)) = Unread(lines) + (IF line = "delta" THEN 1 ELSE 0)
<1> DEFINE n == Len(lines)
<1>1. /\ n \in Nat /\ Len(Append(lines, line)) = n + 1
      /\ \A i \in 1..n : Append(lines, line)[i] = lines[i]
      /\ Append(lines, line)[n + 1] = line
  OBVIOUS
<1>2. n + 1 \notin DeltaLines(lines)
  BY <1>1 DEF DeltaLines
<1>3. CASE line = "delta"
  <2>1. DeltaLines(Append(lines, line)) = DeltaLines(lines) \cup {n + 1}
    BY <1>1, <1>3 DEF DeltaLines
  <2> QED BY <1>2, <1>3, <2>1, UnreadIsFinite, FS_AddElement DEF Unread
<1>4. CASE line # "delta"
  <2>1. DeltaLines(Append(lines, line)) = DeltaLines(lines)
    BY <1>1, <1>4 DEF DeltaLines
  <2>2. Unread(lines) \in Nat
    BY UnreadIsFinite
  <2> QED BY <1>4, <2>1, <2>2 DEF Unread
<1> QED BY <1>3, <1>4

LEMMA UnreadShrinks ==
  ASSUME NEW lines \in Seq(Lines), lines # <<>>
  PROVE  Unread(lines) = Unread(Tail(lines)) + (IF Head(lines) = "delta" THEN 1 ELSE 0)
<1> DEFINE n == Len(lines)
           T == DeltaLines(Tail(lines))
           Later == {i \in 2..n : lines[i] = "delta"}
           shift == [i \in T |-> i + 1]
<1>1. /\ n \in Nat /\ n >= 1 /\ Len(Tail(lines)) = n - 1 /\ Tail(lines) \in Seq(Lines)
      /\ \A i \in 1..(n - 1) : Tail(lines)[i] = lines[i + 1]
      /\ Head(lines) = lines[1]
  OBVIOUS
<1>2. shift \in Bijection(T, Later)
  <2>1. \A i \in T : i \in Int /\ shift[i] \in Later
    BY <1>1 DEF DeltaLines
  <2>2. shift \in Injection(T, Later)
    BY <2>1 DEF Injection, IsInjective
  <2>3. \A j \in Later : j - 1 \in T /\ shift[j - 1] = j
    BY <1>1 DEF DeltaLines
  <2>4. shift \in Surjection(T, Later)
    BY <2>1, <2>3 DEF Surjection
  <2> QED BY <2>2, <2>4 DEF Bijection
<1>3. IsFiniteSet(T) /\ Cardinality(T) \in Nat
  BY <1>1, UnreadIsFinite DEF Unread
<1>4. IsFiniteSet(Later) /\ Cardinality(Later) = Cardinality(T)
  BY <1>2, <1>3, FS_Bijection DEF ExistsBijection
<1>5. CASE Head(lines) = "delta"
  <2>1. DeltaLines(lines) = Later \cup {1} /\ 1 \notin Later
    BY <1>1, <1>5 DEF DeltaLines
  <2> QED BY <1>3, <1>4, <1>5, <2>1, FS_AddElement DEF Unread
<1>6. CASE Head(lines) # "delta"
  <2>1. DeltaLines(lines) = Later
    BY <1>1, <1>6 DEF DeltaLines
  <2> QED BY <1>3, <1>4, <1>6, <2>1 DEF Unread
<1> QED BY <1>5, <1>6

LEMMA McpTypes == McpTyped /\ [McpNext]_mcpVars => McpTyped'
<1> SUFFICES ASSUME McpTyped, [McpNext]_mcpVars PROVE McpTyped'
  OBVIOUS
<1> USE DEF McpTyped, McpPcs, Lines
<1>1. ASSUME NEW msgs \in Conversations, NEW streamed \in BOOLEAN, Begin(msgs, streamed) PROVE McpTyped'
  BY <1>1 DEF Begin, NoCall, streamVars
<1>2. CASE ContextEnds
  BY <1>2 DEF ContextEnds, streamVars
<1>3. CASE Send
  <2>1. sent' \in Nat
    BY <1>3 DEF Send
  <2>2. UNCHANGED <<reader, errCh, body, deltas>>
    BY <1>3 DEF Send, streamVars
  <2>3. CASE req' = [req EXCEPT !.pc = "waiting"]
    BY <2>1, <2>2, <2>3
  <2>4. CASE ReqReturns("error")
    BY <2>1, <2>2, <2>4 DEF ReqReturns
  <2> QED BY <1>3, <2>3, <2>4 DEF Send
<1>3a. CASE BackoffOver \/ BackoffCancelled
  <2>1. req.attempt + 1 \in Nat
    OBVIOUS
  <2>2. CASE BackoffOver
    BY <2>1, <2>2 DEF BackoffOver, streamVars
  <2>3. CASE BackoffCancelled
    BY <2>3 DEF BackoffCancelled, ReqReturns, streamVars
  <2> QED BY <1>3a, <2>2, <2>3
<1>4. CASE TakeLine
  BY <1>4 DEF TakeLine, NoReader
<1>5. CASE TakeEnd \/ IdleOut
  BY <1>5 DEF TakeEnd, IdleOut, ReqReturns, Closes
<1>6. CASE Scan
  <2>1. body.lines \in Seq({"delta", "other"}) /\ body.lines # <<>>
    BY <1>6 DEF Scan
  <2>2. Head(body.lines) \in {"delta", "other"} /\ Tail(body.lines) \in Seq({"delta", "other"})
    BY <2>1
  <2> QED BY <1>6, <2>2 DEF Scan
<1>7. CASE ScanEnds \/ ReaderDone
  BY <1>7 DEF ScanEnds, ReaderDone
<1>8. CASE ReaderReports
  BY <1>8 DEF ReaderReports
<1>9. ASSUME NEW b \in BOOLEAN, Fails(b) \/ Answered(b) PROVE McpTyped'
  BY <1>9 DEF Fails, Answered, ReqReturns, streamVars
<1>10. CASE StreamOpens
  BY <1>10 DEF StreamOpens, NoReader
<1>11. ASSUME NEW line \in {"delta", "other"}, ServerSends(line) PROVE McpTyped'
  <2>1. Append(body.lines, line) \in Seq({"delta", "other"})
    OBVIOUS
  <2>2. deltas' \in Nat
    BY <1>11 DEF ServerSends
  <2>3. body' = [body EXCEPT !.lines = Append(@, line)] /\ UNCHANGED <<req, sent, reader, errCh>>
    BY <1>11 DEF ServerSends
  <2>4. body' \in [lines : Seq({"delta", "other"}), state : {"none", "open", "ended", "broken", "closed"}]
    BY <2>1, <2>3
  <2> QED BY <2>2, <2>3, <2>4
<1>12. CASE BodyEnds \/ BodyBreaks \/ Tick
  BY <1>12 DEF BodyEnds, BodyBreaks, Tick
<1>13. CASE UNCHANGED mcpVars
  BY <1>13 DEF mcpVars
<1> QED
  BY <1>1, <1>2, <1>3, <1>3a, <1>4, <1>5, <1>6, <1>7, <1>8, <1>9, <1>10, <1>11, <1>12, <1>13
     DEF McpNext, CallStep, ReaderStep, ServerStep

(* The requests: only what touches the call's own record and the count.    *)
LEMMA AttemptsKept == McpTyped /\ AttemptsInv /\ [McpNext]_mcpVars => AttemptsInv'
<1> SUFFICES ASSUME McpTyped, AttemptsInv, [McpNext]_mcpVars PROVE AttemptsInv'
  OBVIOUS
<1>0. /\ req.pc \in McpPcs /\ req.attempt \in Nat /\ req.stream \in BOOLEAN /\ sent \in Nat
      /\ MaxRetries \in Nat
      /\ DOMAIN req = {"pc", "attempt", "stream", "text", "result"}
  BY McpAssumption DEF McpTyped
<1>1. ASSUME NEW msgs \in Conversations, NEW streamed \in BOOLEAN, Begin(msgs, streamed) PROVE AttemptsInv'
  BY <1>0, <1>1 DEF Begin, NoCall, AttemptsInv, AttemptsBounded
<1>r. ASSUME NEW result, ReqReturns(result), sent' = sent PROVE AttemptsInv'
  <2>1. req'.pc = "returned" /\ req'.stream = req.stream
    BY <1>0, <1>r DEF ReqReturns
  <2> QED BY <1>r, <2>1 DEF AttemptsInv, AttemptsBounded
<1>2. CASE Send
  <2>1. CASE gone
    BY <1>2, <1>r, <2>1 DEF Send
  <2>2. CASE ~ gone
    <3>1. /\ req.pc = "send" /\ req'.pc = "waiting" /\ req'.attempt = req.attempt
          /\ req'.stream = req.stream /\ sent' = sent + 1
      BY <1>0, <1>2, <2>2 DEF Send
    <3> QED BY <1>0, <3>1 DEF AttemptsInv, AttemptsBounded
  <2> QED BY <2>1, <2>2
<1>3. CASE BackoffOver
  <2>1. /\ req.pc = "backoff" /\ req'.pc = "send" /\ req'.attempt = req.attempt + 1
        /\ req'.stream = req.stream /\ sent' = sent
    BY <1>0, <1>3 DEF BackoffOver
  <2> QED BY <1>0, <2>1 DEF AttemptsInv, AttemptsBounded
<1>3a. CASE BackoffCancelled
  BY <1>3a, <1>r DEF BackoffCancelled
<1>4. ASSUME NEW b \in BOOLEAN, Fails(b) \/ Answered(b) PROVE AttemptsInv'
  <2>1. req.pc = "waiting" /\ sent' = sent
    BY <1>4 DEF Fails, Answered
  <2>2. CASE Fails(b) /\ b /\ ~ gone /\ ~ req.stream /\ ~ IsLast(req.attempt)
    <3>1. /\ req'.pc = "backoff" /\ req'.attempt = req.attempt /\ req'.stream = req.stream
          /\ ~ req.stream /\ ~ IsLast(req.attempt)
      BY <1>0, <2>2 DEF Fails
    <3> QED BY <1>0, <2>1, <3>1 DEF AttemptsInv, AttemptsBounded, IsLast
  <2>3. CASE \E result : ReqReturns(result)
    BY <1>r, <2>1, <2>3
  <2> QED BY <1>4, <2>2, <2>3 DEF Fails, Answered
<1>5. CASE StreamOpens \/ TakeLine \/ TakeEnd \/ IdleOut
  BY <1>0, <1>5 DEF StreamOpens, TakeLine, TakeEnd, IdleOut, ReqReturns, AttemptsInv, AttemptsBounded
<1>6. CASE UNCHANGED <<req, sent>>
  BY <1>6 DEF AttemptsInv, AttemptsBounded
<1>7. ASSUME NEW line \in Lines, ServerSends(line) PROVE UNCHANGED <<req, sent>>
  BY <1>7 DEF ServerSends
<1>8. CASE ContextEnds \/ ReaderStep \/ BodyEnds \/ BodyBreaks \/ Tick \/ UNCHANGED mcpVars
  BY <1>6, <1>8 DEF ContextEnds, ReaderStep, Scan, ScanEnds, ReaderReports, ReaderDone,
                    BodyEnds, BodyBreaks, Tick, mcpVars
<1> QED
  BY <1>1, <1>2, <1>3, <1>3a, <1>4, <1>5, <1>6, <1>7, <1>8 DEF McpNext, CallStep, ServerStep, Lines

(* The stream: each step moves a delta from one place to the next, or      *)
(* none.                                                                   *)
LEMMA StreamKept == McpTyped /\ StreamInv /\ [McpNext]_mcpVars => StreamInv'
<1> SUFFICES ASSUME McpTyped, StreamInv, [McpNext]_mcpVars PROVE StreamInv'
  OBVIOUS
<1>0. /\ req \in [pc : McpPcs, attempt : Nat, stream : BOOLEAN, text : Nat,
                  result : {"none", "text", "error"}]
      /\ DOMAIN body = {"lines", "state"} /\ DOMAIN reader = {"pc", "line"}
      /\ reader.pc \in {"none", "scan", "offer", "report", "end"}
      /\ body.lines \in Seq(Lines) /\ Unread(body.lines) \in Nat /\ deltas \in Nat
      /\ Offered \in {0, 1}
  BY UnreadIsFinite DEF McpTyped, Offered
<1>1. ASSUME NEW msgs \in Conversations, NEW streamed \in BOOLEAN, Begin(msgs, streamed) PROVE StreamInv'
  BY <1>0, <1>1 DEF Begin, NoCall, streamVars, StreamInv, StreamIsWhole
<1>2. CASE ContextEnds \/ Tick \/ UNCHANGED mcpVars
  BY <1>0, <1>2 DEF ContextEnds, Tick, mcpVars, streamVars, StreamInv, StreamIsWhole, Offered
<1>3. CASE Send \/ BackoffOver \/ BackoffCancelled
  BY <1>0, <1>3 DEF Send, BackoffOver, BackoffCancelled, ReqReturns, streamVars, StreamInv,
                    StreamIsWhole
<1>4. ASSUME NEW b \in BOOLEAN, Fails(b) \/ Answered(b) PROVE StreamInv'
  BY <1>0, <1>4 DEF Fails, Answered, ReqReturns, streamVars, StreamInv, StreamIsWhole
<1>5. CASE StreamOpens
  BY <1>0, <1>5, UnreadOfNone DEF StreamOpens, NoReader, Offered, StreamInv, StreamIsWhole
<1>6. ASSUME NEW line \in Lines, ServerSends(line) PROVE StreamInv'
  <2>1. /\ body'.lines = Append(body.lines, line) /\ body'.state = "open" /\ body.state = "open"
        /\ Unread(body'.lines) = Unread(body.lines) + (IF line = "delta" THEN 1 ELSE 0)
    BY <1>0, <1>6, UnreadGrows DEF ServerSends
  <2>2. deltas' = deltas + (IF line = "delta" THEN 1 ELSE 0) /\ UNCHANGED <<req, reader, errCh>>
    BY <1>6 DEF ServerSends
  <2>3. Offered' = Offered /\ req.pc = "select" /\ reader.pc # "none"
    BY <2>1, <2>2 DEF Offered, StreamInv
  <2>4. req'.pc = "select" =>
          /\ req'.stream
          /\ req'.text + Offered' + Unread(body'.lines) = deltas'
          /\ reader'.pc \in {"report", "end"} => body'.lines = <<>> /\ body'.state # "open"
          /\ errCh' # {} => reader'.pc = "end"
    BY <1>0, <2>1, <2>2, <2>3 DEF StreamInv
  <2>5. req.result = "none" /\ StreamIsWhole'
    BY <2>2, <2>3 DEF StreamInv, StreamIsWhole
  <2> QED BY <2>1, <2>2, <2>3, <2>4, <2>5 DEF StreamInv
<1>7. CASE BodyEnds \/ BodyBreaks
  <2>1. /\ body'.lines = body.lines /\ body'.state \in {"ended", "broken"} /\ body.state = "open"
        /\ UNCHANGED <<req, reader, errCh, deltas>>
    BY <1>0, <1>7 DEF BodyEnds, BodyBreaks
  <2>2. Offered' = Offered /\ Unread(body'.lines) = Unread(body.lines) /\ StreamIsWhole'
    BY <2>1 DEF Offered, StreamIsWhole, StreamInv
  <2> QED BY <2>1, <2>2 DEF StreamInv
<1>8. CASE Scan
  <2>1. /\ body.lines # <<>> /\ body'.lines = Tail(body.lines) /\ body'.state = body.state
        /\ reader' = [pc |-> "offer", line |-> Head(body.lines)] /\ reader.pc = "scan"
        /\ UNCHANGED <<req, errCh, deltas>>
    BY <1>0, <1>8 DEF Scan
  <2>2. Offered = 0 /\ Offered' = (IF Head(body.lines) = "delta" THEN 1 ELSE 0)
    BY <2>1 DEF Offered
  <2>3. /\ Unread(body.lines) = Unread(body'.lines) + (IF Head(body.lines) = "delta" THEN 1 ELSE 0)
        /\ Unread(body'.lines) \in Nat
    <3>1. Tail(body.lines) \in Seq(Lines)
      BY <1>0, <2>1
    <3>2. Unread(body.lines) = Unread(Tail(body.lines)) + (IF Head(body.lines) = "delta" THEN 1 ELSE 0)
      BY <1>0, <2>1, UnreadShrinks
    <3> QED BY <2>1, <3>1, <3>2, UnreadIsFinite
  <2> QED BY <1>0, <2>1, <2>2, <2>3 DEF StreamInv, StreamIsWhole
<1>9. CASE ScanEnds
  BY <1>0, <1>9 DEF ScanEnds, StreamInv, StreamIsWhole, Offered
<1>10. CASE ReaderReports
  BY <1>0, <1>10 DEF ReaderReports, StreamInv, StreamIsWhole, Offered
<1>11. CASE ReaderDone
  BY <1>0, <1>11 DEF ReaderDone, StreamInv, StreamIsWhole
<1>12. CASE TakeLine
  BY <1>0, <1>12 DEF TakeLine, NoReader, StreamInv, StreamIsWhole, Offered
<1>13. CASE TakeEnd
  <2>1. req.text = deltas
    BY <1>0, <1>13, UnreadOfNone DEF TakeEnd, StreamInv, Offered
  <2> QED BY <1>0, <1>13, <2>1 DEF TakeEnd, ReqReturns, Closes, StreamInv, StreamIsWhole
<1>14. CASE IdleOut
  BY <1>0, <1>14 DEF IdleOut, ReqReturns, Closes, StreamInv, StreamIsWhole
<1> QED
  BY <1>1, <1>2, <1>3, <1>4, <1>5, <1>6, <1>7, <1>8, <1>9, <1>10, <1>11, <1>12, <1>13, <1>14
     DEF McpNext, CallStep, ReaderStep, ServerStep, Lines

(* The context guard. *)

(* What the loops of the context guard carry along. *)
Splits == [system : Seq(Messages), others : Seq(Messages)]

LEMMA PartedTyped ==
  ASSUME NEW h \in Splits, NEW m \in Messages
  PROVE  /\ Parted(h, m) \in Splits
         /\ IsSystem(m) => /\ Parted(h, m).system = Append(h.system, m)
                           /\ Parted(h, m).others = h.others
         /\ ~IsSystem(m) => /\ Parted(h, m).system = h.system
                            /\ Parted(h, m).others = Append(h.others, m)
<1>1. /\ Append(h.system, m) \in Seq(Messages) /\ Append(h.others, m) \in Seq(Messages)
      /\ h.system \in Seq(Messages) /\ h.others \in Seq(Messages)
  BY AppendProperties DEF Splits
<1>2. CASE IsSystem(m)
  BY <1>1, <1>2 DEF Parted, Splits
<1>3. CASE ~IsSystem(m)
  BY <1>1, <1>3 DEF Parted, Splits
<1> QED BY <1>2, <1>3

LEMMA PartsRun ==
  ASSUME NEW L \in Nat, NEW base \in Splits, NEW step \in [1..L -> [Splits -> Splits]]
  PROVE  \E f \in [0..L -> Splits] : f[0] = base /\ \A n \in 1..L : f[n] = step[n][f[n-1]]
BY LoopIsDefined

(* The estimate is a number. *)
LEMMA TokensTyped ==
  ASSUME NEW msgs \in Seq(Messages)
  PROVE  Tokens(msgs) \in Nat
<1> DEFINE L == Len(msgs)
           step == [n \in 1..L |-> [t \in Nat |-> t + msgs[n].tokens]]
           Is(f) == f = [n \in 0..L |-> IF n = 0 THEN 0 ELSE f[n-1] + msgs[n].tokens]
           g == CHOOSE f : Is(f)
<1>1. L \in Nat /\ 0 \in Nat /\ \A n \in 1..L : msgs[n].tokens \in Nat
  <2>1. \A n \in 1..L : msgs[n] \in Messages
    OBVIOUS
  <2>2. \A m \in Messages : m.tokens \in Nat
    BY DEF Messages
  <2> QED BY <2>1, <2>2
<1>2. step \in [1..L -> [Nat -> Nat]]
  BY <1>1
<1>3. PICK f \in [0..L -> Nat] : f[0] = 0 /\ \A n \in 1..L : f[n] = step[n][f[n-1]]
  <2> HIDE DEF L, step
  <2> DEFINE zero == 0
  <2>1. ASSUME NEW A, A = Nat
        PROVE  \E f \in [0..L -> A] : f[0] = zero /\ \A n \in 1..L : f[n] = step[n][f[n-1]]
    <3>1. L \in Nat /\ zero \in A /\ step \in [1..L -> [A -> A]]
      BY <1>1, <1>2, <2>1
    <3> HIDE DEF zero
    <3> QED BY <3>1, LoopIsDefined
  <2> QED BY <2>1
<1>4. Is(f)
  <2>2. \A n \in 1..L, t \in Nat : step[n][t] = t + msgs[n].tokens
    OBVIOUS
  <2>1. ASSUME NEW n \in 1..L PROVE f[n] = f[n-1] + msgs[n].tokens
    <3> HIDE DEF step, L
    <3>1. f[n-1] \in Nat
      <4>1. n - 1 \in 0..L
        BY <1>1
      <4> QED BY <1>3, <4>1
    <3>2. f[n] = step[n][f[n-1]]
      BY <1>3
    <3> QED BY <2>2, <3>1, <3>2
  <2> HIDE DEF L, step
  <2> QED BY <1>3, <2>1
<1>5. Is(g)
  <2> HIDE DEF Is
  <2> QED BY <1>4
<1>6. Tokens(msgs) = g[L]
  BY DEF Tokens
<1>7. g[0] = 0 /\ \A n \in 1..L : g[n] = g[n-1] + msgs[n].tokens
  <2> HIDE DEF g, L
  <2> QED BY <1>1, <1>5
<1> DEFINE S == {n \in 0..L : g[n] \in Nat}
<1>8. 0 \in S
  <2> HIDE DEF g
  <2> QED BY <1>1, <1>7
<1>9. ASSUME NEW n \in 1..L, n - 1 \in S PROVE n \in S
  <2>1. g[n-1] \in Nat /\ msgs[n].tokens \in Nat /\ n \in 0..L
    BY <1>1, <1>9
  <2>2. g[n] = g[n-1] + msgs[n].tokens
    BY <1>7
  <2> HIDE DEF g, L
  <2>3. g[n] \in Nat
    BY <2>1, <2>2
  <2> QED BY <2>1, <2>3
<1>10. L \in S
  <2> HIDE DEF S, L
  <2>1. \A n \in 0..L : n \in S
    BY <1>1, <1>8, <1>9, CountingUp
  <2> QED BY <1>1, <2>1
<1> QED BY <1>6, <1>10

(* The loop that parts the messages, step by step. *)
LEMMA SplitLoop ==
  ASSUME NEW msgs \in Seq(Messages)
  PROVE  \E g : /\ g[0] = [system |-> <<>>, others |-> <<>>]
                /\ \A n \in 1..Len(msgs) : g[n] = Parted(g[n-1], msgs[n])
                /\ Split(msgs) = g[Len(msgs)]
<1> DEFINE L == Len(msgs)
           base == [system |-> <<>>, others |-> <<>>]
           step == [n \in 1..L |-> [h \in Splits |-> Parted(h, msgs[n])]]
           Is(f) == f = [n \in 0..L |-> IF n = 0 THEN base ELSE Parted(f[n-1], msgs[n])]
           g == CHOOSE f : Is(f)
<1>1. L \in Nat /\ base \in Splits /\ \A n \in 1..L : msgs[n] \in Messages
  BY DEF Splits
<1>2. step \in [1..L -> [Splits -> Splits]]
  <2>1. ASSUME NEW n \in 1..L, NEW h \in Splits PROVE Parted(h, msgs[n]) \in Splits
    BY <1>1, PartedTyped
  <2> QED BY <2>1
<1>3. PICK f \in [0..L -> Splits] : f[0] = base /\ \A n \in 1..L : f[n] = step[n][f[n-1]]
  <2> HIDE DEF L, base, step
  <2> QED BY <1>1, <1>2, PartsRun
<1>4. Is(f)
  <2>2. \A n \in 1..L, h \in Splits : step[n][h] = Parted(h, msgs[n])
    OBVIOUS
  <2>1. ASSUME NEW n \in 1..L PROVE f[n] = Parted(f[n-1], msgs[n])
    <3> HIDE DEF step, L
    <3>1. f[n-1] \in Splits
      <4>1. n - 1 \in 0..L
        BY <1>1
      <4> QED BY <1>3, <4>1
    <3>2. f[n] = step[n][f[n-1]]
      BY <1>3
    <3> QED BY <2>2, <3>1, <3>2
  <2> HIDE DEF L, base, step
  <2> QED BY <1>3, <2>1
<1>5. Is(g)
  <2> HIDE DEF Is
  <2> QED BY <1>4
<1>6. Split(msgs) = g[L]
  BY DEF Split
<1>7. g[0] = base /\ \A n \in 1..L : g[n] = Parted(g[n-1], msgs[n])
  <2> HIDE DEF g, base, L
  <2> QED BY <1>1, <1>5
<1> HIDE DEF g
<1> QED BY <1>6, <1>7

(* After n messages: the system's and the others, n in all. *)
PartedInv(h, n) ==
  /\ h \in Splits
  /\ \A i \in 1..Len(h.system) : IsSystem(h.system[i])
  /\ \A i \in 1..Len(h.others) : ~IsSystem(h.others[i])
  /\ Len(h.system) + Len(h.others) = n

LEMMA AppendOne ==
  ASSUME NEW s \in Seq(Messages), NEW m \in Messages
  PROVE  /\ Append(s, m) \in Seq(Messages) /\ Len(s) \in Nat /\ Len(Append(s, m)) = Len(s) + 1
         /\ \A i \in 1..Len(Append(s, m)) :
              \/ i \in 1..Len(s) /\ Append(s, m)[i] = s[i]
              \/ Append(s, m)[i] = m
<1>1. /\ Append(s, m) \in Seq(Messages) /\ Len(Append(s, m)) = Len(s) + 1 /\ Len(s) \in Nat
      /\ \A i \in 1..Len(s) : Append(s, m)[i] = s[i]
      /\ Append(s, m)[Len(s) + 1] = m
  BY AppendProperties
<1>2. ASSUME NEW i \in 1..Len(Append(s, m))
      PROVE  i \in 1..Len(s) \/ i = Len(s) + 1
  BY <1>1
<1> QED BY <1>1, <1>2

LEMMA PartedStep ==
  ASSUME NEW h, NEW n \in Nat, n > 0, PartedInv(h, n - 1), NEW m \in Messages
  PROVE  PartedInv(Parted(h, m), n)
<1> DEFINE new == Parted(h, m)
<1>1. /\ h \in Splits /\ h.system \in Seq(Messages) /\ h.others \in Seq(Messages)
      /\ Len(h.system) + Len(h.others) = n - 1
      /\ \A i \in 1..Len(h.system) : IsSystem(h.system[i])
      /\ \A i \in 1..Len(h.others) : ~IsSystem(h.others[i])
  BY DEF PartedInv, Splits
<1>2. \A a, b \in Nat : a + b = n - 1 => (a + 1) + b = n /\ a + (b + 1) = n
  OBVIOUS
<1>3. Len(h.system) \in Nat /\ Len(h.others) \in Nat
  BY <1>1
<1>6. /\ (Len(h.system) + 1) + Len(h.others) = n
      /\ Len(h.system) + (Len(h.others) + 1) = n
  BY <1>1, <1>2, <1>3
<1>4. CASE IsSystem(m)
  <2>1. new \in Splits /\ new.system = Append(h.system, m) /\ new.others = h.others
    BY <1>1, <1>4, PartedTyped
  <2>2. /\ Len(new.system) = Len(h.system) + 1
        /\ \A i \in 1..Len(new.system) : \/ i \in 1..Len(h.system) /\ new.system[i] = h.system[i]
                                         \/ new.system[i] = m
    <3> HIDE DEF new
    <3> QED BY <1>1, <2>1, AppendOne
  <2>3. \A i \in 1..Len(new.system) : IsSystem(new.system[i])
    <3> HIDE DEF new
    <3> QED BY <1>1, <1>4, <2>2
  <2>4. Len(new.system) + Len(new.others) = n
    <3>1. Len(new.system) = Len(h.system) + 1 /\ Len(new.others) = Len(h.others)
      <4> HIDE DEF new
      <4> QED BY <2>1, <2>2
    <3> HIDE DEF new
    <3> QED BY <1>6, <3>1
  <2>5. PartedInv(new, n)
    <3> HIDE DEF new
    <3> QED BY <1>1, <2>1, <2>3, <2>4 DEF PartedInv
  <2> QED BY <2>5
<1>5. CASE ~IsSystem(m)
  <2>1. new \in Splits /\ new.others = Append(h.others, m) /\ new.system = h.system
    BY <1>1, <1>5, PartedTyped
  <2>2. /\ Len(new.others) = Len(h.others) + 1
        /\ \A i \in 1..Len(new.others) : \/ i \in 1..Len(h.others) /\ new.others[i] = h.others[i]
                                         \/ new.others[i] = m
    <3> HIDE DEF new
    <3> QED BY <1>1, <2>1, AppendOne
  <2>3. \A i \in 1..Len(new.others) : ~IsSystem(new.others[i])
    <3> HIDE DEF new
    <3> QED BY <1>1, <1>5, <2>2
  <2>4. Len(new.system) + Len(new.others) = n
    <3>1. Len(new.others) = Len(h.others) + 1 /\ Len(new.system) = Len(h.system)
      <4> HIDE DEF new
      <4> QED BY <2>1, <2>2
    <3> HIDE DEF new
    <3> QED BY <1>6, <3>1
  <2>5. PartedInv(new, n)
    <3> HIDE DEF new
    <3> QED BY <1>1, <2>1, <2>3, <2>4 DEF PartedInv
  <2> QED BY <2>5
<1> QED BY <1>4, <1>5

LEMMA SplitParts ==
  ASSUME NEW msgs \in Seq(Messages)
  PROVE  PartedInv(Split(msgs), Len(msgs))
<1> DEFINE L == Len(msgs)
<1>1. PICK g : /\ g[0] = [system |-> <<>>, others |-> <<>>]
               /\ \A n \in 1..L : g[n] = Parted(g[n-1], msgs[n])
               /\ Split(msgs) = g[L]
  BY SplitLoop
<1>2. L \in Nat /\ \A n \in 1..L : msgs[n] \in Messages
  OBVIOUS
<1> DEFINE S == {n \in 0..L : PartedInv(g[n], n)}
<1>3. 0 \in S
  <2>1. PartedInv([system |-> <<>>, others |-> <<>>], 0)
    BY DEF PartedInv, Splits
  <2> QED BY <1>1, <1>2, <2>1
<1>4. \A n \in 1..L : n - 1 \in S => n \in S
  <2> HIDE DEF L
  <2> QED BY <1>1, <1>2, PartedStep
<1>5. L \in S
  <2> HIDE DEF S, L
  <2>1. \A n \in 0..L : n \in S
    BY <1>2, <1>3, <1>4, CountingUp
  <2> QED BY <1>2, <2>1
<1> QED BY <1>1, <1>5

(* Messages whose system's are first are parted at the last of these. *)
LEMMA SplitOfSorted ==
  ASSUME NEW x \in Seq(Messages), NEW y \in Seq(Messages),
         \A i \in 1..Len(x) : IsSystem(x[i]), \A i \in 1..Len(y) : ~IsSystem(y[i])
  PROVE  Split(x \o y) = [system |-> x, others |-> y]
<1> DEFINE z == x \o y
           a == Len(x)
           L == Len(z)
           Reached(n) == IF n <= a THEN [system |-> SubSeq(z, 1, n), others |-> <<>>]
                         ELSE [system |-> x, others |-> SubSeq(z, a + 1, n)]
<1>1. /\ z \in Seq(Messages) /\ L = a + Len(y) /\ a \in Nat /\ L \in Nat /\ Len(y) \in Nat
      /\ \A i \in 1..L : z[i] = IF i <= a THEN x[i] ELSE y[i - a]
  BY ConcatProperties
<1>2. /\ \A i \in 1..a : IsSystem(z[i])
      /\ \A i \in a + 1..L : ~IsSystem(z[i])
  <2>1. ASSUME NEW i \in a + 1..L PROVE ~IsSystem(z[i])
    <3>1. i - a \in 1..Len(y) /\ i \in 1..L /\ ~(i <= a)
      BY <1>1
    <3>2. z[i] = y[i - a]
      BY <1>1, <3>1
    <3> QED BY <3>1, <3>2
  <2>2. ASSUME NEW i \in 1..a PROVE IsSystem(z[i])
    <3>1. i \in 1..L /\ i <= a
      BY <1>1
    <3> QED BY <1>1, <3>1
  <2> QED BY <2>1, <2>2
<1>3. PICK g : /\ g[0] = [system |-> <<>>, others |-> <<>>]
               /\ \A n \in 1..L : g[n] = Parted(g[n-1], z[n])
               /\ Split(z) = g[L]
  <2> HIDE DEF z
  <2> QED BY <1>1, SplitLoop
<1>4. /\ SubSeq(z, 1, 0) = <<>> /\ SubSeq(z, a + 1, a) = <<>>
      /\ SubSeq(z, 1, a) = x
      /\ SubSeq(z, a + 1, L) = y
  <2>1. SubSeq(z, 1, 0) = <<>> /\ SubSeq(z, a + 1, a) = <<>>
    <3> HIDE DEF z, a
    <3> QED BY <1>1, SubSeqEmpty
  <2>2. SubSeq(z, 1, a) = x
    <3>1. CASE a = 0
      <4>1. x = <<>>
        BY <3>1, EmptySeq
      <4> HIDE DEF z
      <4> QED BY <2>1, <3>1, <4>1
    <3>2. CASE a # 0
      <4>1. a \in 1..a /\ 1 \in 1..a
        BY <1>1, <3>2
      <4>2. SubSeq(x \o y, 1, a) = SubSeq(x, 1, a)
        BY <4>1, SubSeqOfConcat1
      <4> QED BY <4>2, SubSeqFull
    <3> QED BY <3>1, <3>2
  <2>3. SubSeq(z, a + 1, L) = y
    <3>1. CASE Len(y) = 0
      <4>1. y = <<>> /\ L = a
        BY <1>1, <3>1, EmptySeq
      <4> HIDE DEF z, L
      <4> QED BY <2>1, <4>1
    <3>2. CASE Len(y) # 0
      <4>1. /\ a + 1 \in a + 1..a + Len(y) /\ L \in a + 1..a + Len(y)
            /\ (a + 1) - a = 1 /\ L - a = Len(y)
        <5> HIDE DEF a, L
        <5> QED BY <1>1, <3>2
      <4>2. SubSeq(x \o y, a + 1, L) = SubSeq(y, (a + 1) - a, L - a)
        <5> HIDE DEF L
        <5> QED BY <4>1, SubSeqOfConcat2
      <4>3. SubSeq(y, (a + 1) - a, L - a) = SubSeq(y, 1, Len(y))
        <5> HIDE DEF L, a
        <5> QED BY <4>1
      <4> QED BY <4>2, <4>3, SubSeqFull
    <3> QED BY <3>1, <3>2
  <2> QED BY <2>1, <2>2, <2>3
<1>5. ASSUME NEW m \in 1..L, NEW n \in m..L
      PROVE  SubSeq(z, m, n) = Append(SubSeq(z, m, n - 1), z[n])
  <2>1. SubSeq(z, m, n - 1) \in Seq(Messages) /\ z[n] \in Messages
    <3>1. \A i \in m..n - 1 : z[i] \in Messages
      BY <1>1
    <3>2. m \in Int /\ n - 1 \in Int /\ n \in 1..L
      BY <1>1
    <3>3. z[n] \in Messages
      BY <1>1, <3>2
    <3> HIDE DEF z, L
    <3> QED BY <3>1, <3>2, <3>3, SubSeqProperties
  <2>2. SubSeq(z, m, n) = SubSeq(z, m, n - 1) \o <<z[n]>>
    <3> HIDE DEF z
    <3> QED BY <1>1, SubSeqRecursiveSecond
  <2>3. \A s \in Seq(Messages), e \in Messages : s \o <<e>> = Append(s, e)
    OBVIOUS
  <2> HIDE DEF z
  <2> QED BY <2>1, <2>2, <2>3
<1> DEFINE S == {n \in 0..L : g[n] = Reached(n)}
<1>6. 0 \in S
  <2>1. Reached(0) = [system |-> <<>>, others |-> <<>>]
    <3> HIDE DEF z, a
    <3> QED BY <1>1, <1>4
  <2> HIDE DEF Reached, L
  <2> QED BY <1>1, <1>3, <2>1
<1>7. ASSUME NEW n \in 1..L, n - 1 \in S PROVE n \in S
  <2>1. g[n] = Parted(Reached(n - 1), z[n]) /\ n \in 0..L /\ n \in Nat /\ 1 \in 1..L
    <3>1. n \in 0..L /\ n \in Nat /\ 1 \in 1..L
      BY <1>1
    <3> HIDE DEF Reached, L, z
    <3> QED BY <1>3, <1>7, <3>1
  <2>2. CASE n <= a
    <3>1. Reached(n - 1) = [system |-> SubSeq(z, 1, n - 1), others |-> <<>>]
      <4>1. n - 1 <= a
        BY <1>1, <2>1, <2>2
      <4> QED BY <4>1
    <3>2. IsSystem(z[n])
      BY <1>1, <1>2, <2>1, <2>2
    <3>3. Parted(Reached(n - 1), z[n]) =
            [system |-> Append(SubSeq(z, 1, n - 1), z[n]), others |-> <<>>]
      <4> DEFINE h == Reached(n - 1)
                 e == z[n]
                 p == SubSeq(z, 1, n - 1)
      <4>5. h = [system |-> p, others |-> <<>>]
        <5> HIDE DEF Reached, z
        <5> QED BY <3>1
      <4>6. IsSystem(e)
        BY <3>2
      <4>7. Parted(h, e) = [system |-> Append(p, e), others |-> <<>>]
        <5> HIDE DEF h, e, p
        <5> QED BY <4>5, <4>6 DEF Parted
      <4> QED BY <4>7
    <3>4. SubSeq(z, 1, n) = Append(SubSeq(z, 1, n - 1), z[n])
      <4> HIDE DEF z, L
      <4> QED BY <1>1, <1>5, <2>1
    <3>5. Reached(n) = [system |-> SubSeq(z, 1, n), others |-> <<>>]
      BY <2>2
    <3>6. g[n] = Reached(n)
      <4> HIDE DEF Reached, z
      <4> QED BY <2>1, <3>3, <3>4, <3>5
    <3> HIDE DEF Reached, z, L
    <3> QED BY <2>1, <3>6
  <2>3. CASE ~(n <= a)
    <3>1. Reached(n - 1) = [system |-> x, others |-> SubSeq(z, a + 1, n - 1)]
      <4>1. CASE n - 1 = a
        <5>1. Reached(n - 1) = [system |-> SubSeq(z, 1, a), others |-> <<>>]
          <6> HIDE DEF z
          <6> QED BY <1>1, <4>1
        <5> HIDE DEF Reached, z, a
        <5> QED BY <1>4, <4>1, <5>1
      <4>2. CASE n - 1 # a
        <5>1. ~(n - 1 <= a)
          BY <1>1, <2>1, <2>3, <4>2
        <5> QED BY <5>1
      <4> QED BY <4>1, <4>2
    <3>2. n \in a + 1..L /\ a + 1 \in 1..L /\ n \in a + 1..L
      <4> HIDE DEF a, L
      <4> QED BY <1>1, <2>1, <2>3
    <3>3. Parted(Reached(n - 1), z[n]) =
            [system |-> x, others |-> Append(SubSeq(z, a + 1, n - 1), z[n])]
      <4>1. ~IsSystem(z[n])
        BY <1>2, <3>2
      <4> DEFINE h == Reached(n - 1)
                 e == z[n]
                 p == SubSeq(z, a + 1, n - 1)
      <4>5. h = [system |-> x, others |-> p]
        <5> HIDE DEF Reached, z
        <5> QED BY <3>1
      <4>6. ~IsSystem(e)
        BY <4>1
      <4>7. Parted(h, e) = [system |-> x, others |-> Append(p, e)]
        <5> HIDE DEF h, e, p, a
        <5> QED BY <4>5, <4>6 DEF Parted
      <4> QED BY <4>7
    <3>4. SubSeq(z, a + 1, n) = Append(SubSeq(z, a + 1, n - 1), z[n])
      <4> HIDE DEF z, L, a
      <4> QED BY <1>5, <3>2
    <3>5. Reached(n) = [system |-> x, others |-> SubSeq(z, a + 1, n)]
      BY <2>3
    <3>6. g[n] = Reached(n)
      <4> HIDE DEF Reached, z, a
      <4> QED BY <2>1, <3>3, <3>4, <3>5
    <3> HIDE DEF Reached, z, L
    <3> QED BY <2>1, <3>6
  <2> QED BY <2>2, <2>3
<1>8. L \in S
  <2> HIDE DEF S, L
  <2>1. \A n \in 0..L : n \in S
    BY <1>1, <1>6, <1>7, CountingUp
  <2> QED BY <1>1, <2>1
<1>9. Reached(L) = [system |-> x, others |-> y]
  <2>1. CASE L = a
    <3>1. Len(y) = 0
      <4> HIDE DEF a, L
      <4> QED BY <1>1, <2>1
    <3>2. y = <<>>
      BY <3>1, EmptySeq
    <3> HIDE DEF z, a, L
    <3> QED BY <1>1, <1>4, <2>1, <3>2
  <2>2. CASE L # a
    <3> HIDE DEF z, a, L
    <3>1. ~(L <= a)
      BY <1>1, <2>2
    <3> QED BY <1>4, <3>1
  <2> QED BY <2>1, <2>2
<1>10. Split(z) = g[L] /\ g[L] = Reached(L)
  BY <1>3, <1>8
<1> HIDE DEF Reached, L
<1> QED BY <1>9, <1>10

(* What is kept of a sequence of messages. *)
LEMMA LatestTyped ==
  ASSUME NEW s \in Seq(Messages), NEW k \in 0..Len(s)
  PROVE  /\ Latest(s, k) \in Seq(Messages) /\ Len(Latest(s, k)) = k
         /\ \A i \in 1..k : \E j \in 1..Len(s) : Latest(s, k)[i] = s[j]
         /\ k = Len(s) => Latest(s, k) = s
<1> DEFINE L == Len(s)
           m == L - k + 1
<1>1. L \in Nat /\ k \in Nat /\ m \in Int /\ L \in Int /\ m >= 1 /\ L - m + 1 = k
  OBVIOUS
<1>2. \A i \in m..L : s[i] \in Messages
  BY <1>1
<1>3. /\ SubSeq(s, m, L) \in Seq(Messages)
      /\ Len(SubSeq(s, m, L)) = IF m <= L THEN L - m + 1 ELSE 0
      /\ \A i \in 1..L - m + 1 : SubSeq(s, m, L)[i] = s[m + i - 1]
  <2> HIDE DEF m, L
  <2> QED BY <1>1, <1>2, SubSeqProperties
<1>4. Latest(s, k) = SubSeq(s, m, L)
  BY DEF Latest
<1>5. Len(SubSeq(s, m, L)) = k
  <2>1. m <= L \/ k = 0
    BY <1>1
  <2>2. m <= L => L - m + 1 = k
    BY <1>1
  <2>3. ~(m <= L) => k = 0
    BY <2>1
  <2> HIDE DEF m, L
  <2> QED BY <1>3, <2>2, <2>3
<1>6. ASSUME NEW i \in 1..k PROVE \E j \in 1..L : SubSeq(s, m, L)[i] = s[j]
  <2>1. m + i - 1 \in 1..L /\ i \in 1..L - m + 1
    BY <1>1
  <2> HIDE DEF m, L
  <2> QED BY <1>3, <2>1
<1>7. ASSUME k = L PROVE SubSeq(s, m, L) = s
  <2>1. m = 1
    BY <1>1, <1>7
  <2> HIDE DEF m
  <2> QED BY <2>1, SubSeqFull
<1> QED BY <1>3, <1>4, <1>5, <1>6, <1>7

LEMMA LatestOfAll ==
  ASSUME NEW s \in Seq(Messages)
  PROVE  Latest(s, Len(s)) = s
<1>1. Len(s) \in 0..Len(s)
  OBVIOUS
<1> QED BY <1>1, LatestTyped

LEMMA MostKept ==
  ASSUME NEW all \in Splits
  PROVE  LET k == CHOOSE n \in Kept(all) : \A m \in Kept(all) : m <= n
         IN  k \in Kept(all) /\ \A m \in Kept(all) : m <= k
<1>1. Len(all.others) \in Nat /\ (all.others # <<>> => Len(all.others) >= 1)
  <2>1. all.others \in Seq(Messages)
    BY DEF Splits
  <2> QED BY <2>1, EmptySeq
<1>2. Kept(all) \in SUBSET (0..Len(all.others)) /\ Kept(all) # {}
  BY <1>1 DEF Kept
<1>3. \E n \in Kept(all) : \A m \in Kept(all) : m <= n
  BY <1>1, <1>2, Greatest
<1> QED BY <1>3

(* What buildWireMessages makes of the conversation that the guard leaves:  *)
(* the system's messages and the newest k of the others.                   *)
LEMMA WireOf ==
  ASSUME NEW msgs \in Seq(Messages)
  PROVE  \E k \in 0..Len(Split(msgs).others) :
           /\ Wire(Truncate(msgs)) = Split(msgs).system \o Latest(Split(msgs).others, k)
           /\ Split(msgs).others # <<>> => k > 0
           /\ MaxContext = 0 => k = Len(Split(msgs).others)
           /\ MaxContext > 0 /\ k > 1 => Room(Split(msgs), k)
           /\ k < Len(Split(msgs).others) => ~Room(Split(msgs), k + 1)
<1> DEFINE all == Split(msgs)
           N == Len(all.others)
<1>1. /\ all \in Splits /\ all.system \in Seq(Messages) /\ all.others \in Seq(Messages)
      /\ \A i \in 1..Len(all.system) : IsSystem(all.system[i])
      /\ \A i \in 1..N : ~IsSystem(all.others[i])
  BY SplitParts DEF PartedInv, Splits
<1>2. N \in Nat /\ (all.others # <<>> => N > 0) /\ MaxContext \in Nat
  <2> HIDE DEF all
  <2> QED BY <1>1, EmptySeq, McpAssumption
<1>3. CASE MaxContext = 0 \/ Tokens(all.system) + Tokens(all.others) <= MaxContext
  <2>1. Wire(Truncate(msgs)) = all.system \o all.others
    BY <1>3 DEF Truncate, Wire
  <2>2. Latest(all.others, N) = all.others /\ N \in 0..N
    <3> HIDE DEF all
    <3>1. Latest(all.others, Len(all.others)) = all.others
      BY <1>1, LatestOfAll
    <3> QED BY <1>2, <3>1
  <2>3. MaxContext > 0 => Room(all, N)
    <3> HIDE DEF all
    <3> QED BY <1>2, <1>3, <2>2 DEF Room
  <2> HIDE DEF all, N
  <2>4. \E n \in 0..N : /\ Wire(Truncate(msgs)) = all.system \o Latest(all.others, n)
                        /\ all.others # <<>> => n > 0
                        /\ MaxContext = 0 => n = N
                        /\ MaxContext > 0 /\ n > 1 => Room(all, n)
                        /\ n < N => ~Room(all, n + 1)
    <3>1. ~(N < N) /\ N \in 0..N
      BY <1>2, <2>2
    <3>2. Wire(Truncate(msgs)) = all.system \o Latest(all.others, N)
      BY <2>1, <2>2
    <3> USE <3>1
    <3> WITNESS N \in 0..N
    <3> QED BY <1>2, <2>3, <3>1, <3>2
  <2> QED BY <2>4 DEF all, N
<1>4. CASE ~(MaxContext = 0 \/ Tokens(all.system) + Tokens(all.others) <= MaxContext)
  <2> DEFINE k == CHOOSE n \in Kept(all) : \A m \in Kept(all) : m <= n
             y == Latest(all.others, k)
  <2>1. k \in Kept(all) /\ \A m \in Kept(all) : m <= k
    <3> HIDE DEF all
    <3> QED BY <1>1, MostKept
  <2>2. Truncate(msgs) = all.system \o y
    BY <1>4 DEF Truncate
  <2> HIDE DEF k, all
  <2>3. /\ k \in 0..N
        /\ all.others # <<>> => k > 0
        /\ k > 1 => Room(all, k)
    <3>1. (k \in 1..N /\ Room(all, k)) \/ k = (IF all.others = <<>> THEN 0 ELSE 1)
      BY <2>1 DEF Kept
    <3> QED BY <1>2, <3>1
  <2>4. k < N => ~Room(all, k + 1)
    <3> SUFFICES ASSUME k < N, Room(all, k + 1) PROVE FALSE
      OBVIOUS
    <3>1. k + 1 \in 1..N /\ ~(k + 1 <= k)
      BY <1>2, <2>3
    <3>2. k + 1 \in Kept(all)
      BY <3>1 DEF Kept
    <3> QED BY <2>1, <3>1, <3>2
  <2>5. /\ y \in Seq(Messages) /\ Len(y) = k
        /\ \A i \in 1..k : \E j \in 1..N : y[i] = all.others[j]
    BY <1>1, <2>3, LatestTyped
  <2>6. \A i \in 1..Len(y) : ~IsSystem(y[i])
    <3> HIDE DEF y, N
    <3> QED BY <1>1, <2>5
  <2>7. Split(all.system \o y) = [system |-> all.system, others |-> y]
    <3> HIDE DEF y, N
    <3> QED BY <1>1, <2>5, <2>6, SplitOfSorted
  <2>8. Wire(Truncate(msgs)) = all.system \o y
    <3> DEFINE left == all.system \o y
    <3>1. Truncate(msgs) = left /\ Split(left) = [system |-> all.system, others |-> y]
      BY <2>2, <2>7
    <3> HIDE DEF left, y
    <3>2. Wire(left) = all.system \o y
      BY <3>1 DEF Wire
    <3> QED BY <3>1, <3>2
  <2>9. /\ Wire(Truncate(msgs)) = all.system \o Latest(all.others, k)
        /\ MaxContext = 0 => k = N
    BY <1>4, <2>8
  <2> HIDE DEF N
  <2>10. \E n \in 0..N : /\ Wire(Truncate(msgs)) = all.system \o Latest(all.others, n)
                         /\ all.others # <<>> => n > 0
                         /\ MaxContext = 0 => n = N
                         /\ MaxContext > 0 /\ n > 1 => Room(all, n)
                         /\ n < N => ~Room(all, n + 1)
    BY <2>3, <2>4, <2>9
  <2> QED BY <2>10 DEF all, N
<1> QED BY <1>3, <1>4

(* What KeepsTheNewest says of a conversation and the messages sent of it. *)
Shortened(msgs, out) ==
  LET all == Split(msgs)
      kept == Split(out)
      dropped == Len(msgs) - Len(out)
  IN /\ out = all.system \o kept.others
     /\ kept.system = all.system
     /\ kept.others = SubSeq(all.others, dropped + 1, Len(all.others))
     /\ all.others # <<>> => kept.others # <<>>
     /\ MaxContext = 0 => dropped = 0
     /\ MaxContext > 0 /\ Len(kept.others) > 1 => Room(kept, Len(kept.others))
     /\ dropped > 0 => ~Room(all, Len(kept.others) + 1)

LEMMA GuardShortens ==
  ASSUME NEW msgs \in Seq(Messages)
  PROVE  Shortened(msgs, Wire(Truncate(msgs)))
<1> DEFINE all == Split(msgs)
           out == Wire(Truncate(msgs))
           N == Len(all.others)
           dropped == Len(msgs) - Len(out)
<1>1. PICK k \in 0..N :
        /\ out = all.system \o Latest(all.others, k)
        /\ all.others # <<>> => k > 0
        /\ MaxContext = 0 => k = N
        /\ MaxContext > 0 /\ k > 1 => Room(all, k)
        /\ k < N => ~Room(all, k + 1)
  BY WireOf
<1> DEFINE y == Latest(all.others, k)
<1>2. /\ all.system \in Seq(Messages) /\ all.others \in Seq(Messages)
      /\ \A i \in 1..Len(all.system) : IsSystem(all.system[i])
      /\ \A i \in 1..N : ~IsSystem(all.others[i])
      /\ Len(all.system) + N = Len(msgs)
  BY SplitParts DEF PartedInv, Splits
<1> HIDE DEF all, out
<1>3. /\ y \in Seq(Messages) /\ Len(y) = k
      /\ \A i \in 1..k : \E j \in 1..N : y[i] = all.others[j]
  BY <1>2, LatestTyped
<1>4. \A i \in 1..Len(y) : ~IsSystem(y[i])
  <2> HIDE DEF y, N
  <2> QED BY <1>2, <1>3
<1>5. Split(out) = [system |-> all.system, others |-> y]
  <2> HIDE DEF y
  <2>1. out = all.system \o y
    BY <1>1 DEF y
  <2> QED BY <1>2, <1>3, <1>4, <2>1, SplitOfSorted
<1>6. dropped = N - k /\ k \in Nat /\ N \in Nat /\ dropped \in Nat
  <2>1. Len(out) = Len(all.system) + k /\ Len(all.system) \in Nat /\ N \in Nat
    <3>1. Len(all.system \o y) = Len(all.system) + Len(y)
      <4> HIDE DEF y
      <4> QED BY <1>2, <1>3, ConcatProperties
    <3> QED BY <1>1, <1>2, <1>3, <3>1
  <2>2. \A a, b, c \in Nat : c <= b => (a + b) - (a + c) = b - c
    OBVIOUS
  <2>3. dropped = (Len(all.system) + N) - (Len(all.system) + k)
    BY <1>2, <2>1
  <2> HIDE DEF N, dropped
  <2> QED BY <2>1, <2>2, <2>3
<1>7. y = SubSeq(all.others, dropped + 1, N)
  <2>1. N - k + 1 = dropped + 1
    BY <1>6
  <2> HIDE DEF dropped
  <2> QED BY <2>1 DEF Latest
<1>8. y # <<>> <=> k > 0
  <2> HIDE DEF y
  <2> QED BY <1>3, <1>6, EmptySeq
<1>9. MaxContext > 0 /\ k > 1 => Room(Split(out), k)
  <2>1. Latest(y, k) = y
    <3> HIDE DEF y
    <3> QED BY <1>3, <1>6, LatestTyped
  <2>2. Room(all, k) => Tokens(all.system) + Tokens(y) <= MaxContext
    BY DEF Room
  <2> HIDE DEF y
  <2> QED BY <1>1, <1>5, <2>1, <2>2 DEF Room
<1>10. dropped > 0 => ~Room(all, k + 1)
  <2>1. dropped > 0 => k < N
    <3> HIDE DEF dropped, N
    <3> QED BY <1>6
  <2> QED BY <1>1, <2>1
<1>11. MaxContext = 0 => dropped = 0
  <2>1. MaxContext = 0 => k = N
    BY <1>1
  <2> HIDE DEF dropped, N
  <2> QED BY <1>6, <2>1
<1>12. /\ out = all.system \o Split(out).others
       /\ Split(out).system = all.system
       /\ Split(out).others = SubSeq(all.others, dropped + 1, N)
       /\ all.others # <<>> => Split(out).others # <<>>
       /\ MaxContext = 0 => dropped = 0
       /\ MaxContext > 0 /\ Len(Split(out).others) > 1
            => Room(Split(out), Len(Split(out).others))
       /\ dropped > 0 => ~Room(all, Len(Split(out).others) + 1)
  <2>1. out = all.system \o y
    BY <1>1
  <2> HIDE DEF y, dropped, N
  <2>2. Split(out).others = y /\ Split(out).system = all.system /\ Len(Split(out).others) = k
    BY <1>3, <1>5
  <2>3. /\ all.others # <<>> => Split(out).others # <<>>
        /\ Split(out).others = SubSeq(all.others, dropped + 1, N)
    BY <1>1, <1>7, <1>8, <2>2
  <2>4. MaxContext > 0 /\ Len(Split(out).others) > 1
          => Room(Split(out), Len(Split(out).others))
    BY <1>9, <2>2
  <2>5. dropped > 0 => ~Room(all, Len(Split(out).others) + 1)
    BY <1>10, <2>2
  <2> QED BY <1>11, <2>1, <2>2, <2>3, <2>4, <2>5
<1>13. Shortened(msgs, out)
  BY <1>12 DEF Shortened, all
<1> QED BY <1>13 DEF out

LEMMA KeptBegins == McpInit => KeepsTheNewest
BY DEF McpInit, NoCall, KeepsTheNewest

LEMMA KeptKept == KeepsTheNewest /\ [McpNext]_mcpVars => KeepsTheNewest'
<1> SUFFICES ASSUME KeepsTheNewest, [McpNext]_mcpVars PROVE KeepsTheNewest'
  OBVIOUS
<1>1. KeepsTheNewest <=> (req.pc # "none" => Shortened(asked, wire))
  BY DEF KeepsTheNewest, Shortened
<1>2. KeepsTheNewest' <=> (req'.pc # "none" => Shortened(asked', wire'))
  BY DEF KeepsTheNewest, Shortened
<1>3. CASE req.pc # "none" /\ UNCHANGED <<asked, wire>>
  BY <1>1, <1>2, <1>3
<1>4. CASE \E msgs \in Conversations, s \in BOOLEAN : Begin(msgs, s)
  <2>1. PICK msgs \in Conversations, s \in BOOLEAN : Begin(msgs, s)
    BY <1>4
  <2>2. msgs \in Seq(Messages) /\ asked' = msgs /\ wire' = Wire(Truncate(msgs))
    BY <2>1, McpAssumption DEF Begin
  <2> QED BY <1>2, <2>2, GuardShortens
<1>5. CASE UNCHANGED <<req, asked, wire>>
  BY <1>1, <1>2, <1>5
<1>6. \/ req.pc # "none" /\ UNCHANGED <<asked, wire>>
      \/ \E msgs \in Conversations, s \in BOOLEAN : Begin(msgs, s)
      \/ UNCHANGED <<req, asked, wire>>
  BY DEF McpNext, mcpVars, ContextEnds, CallStep, Send, BackoffOver, BackoffCancelled, TakeLine,
         TakeEnd, IdleOut, ReaderStep, Scan, ScanEnds, ReaderReports, ReaderDone, ServerStep,
         Fails, Answered, StreamOpens, ServerSends, BodyEnds, BodyBreaks, Tick
<1> QED BY <1>3, <1>4, <1>5, <1>6

LEMMA McpKept == McpInv /\ [McpNext]_mcpVars => McpInv'
BY McpTypes, AttemptsKept, StreamKept DEF McpInv

(* For any conversations, limits, retries, lines and idle time: a call      *)
(* sends no more requests than its retries allow (client.go:285), its      *)
(* request is the system's messages and as many of the newest as fit       *)
(* (context_guard.go:28), and a streamed call that ends without an error   *)
(* returns every delta (client.go:161).                                    *)
THEOREM CallsAreWhole == McpSpec => []CallIsWhole
<1>1. McpInv => AttemptsBounded /\ StreamIsWhole
  BY DEF McpInv, AttemptsInv, StreamInv
<1> QED BY McpBegins, McpKept, KeptBegins, KeptKept, <1>1, PTL DEF McpSpec, CallIsWhole

-----------------------------------------------------------------------------
(* The types of the parts of MCProgress.  What is proved of PositionBook   *)
(* is said again of the book that everybody writes.                        *)
LiveProofs ==
  INSTANCE PositionBookProofs WITH
    Syncs <- {b1}, Quantities <- {2}, Sides <- {"long"}, MaxOrders <- 2,
    ByHand <- TRUE, Guard <- TRUE, SplitFills <- TRUE, LostReplies <- TRUE,
    ApiCloses <- FALSE, MaxCrashes <- 1, OneAtATime <- FALSE,
    holding <- liveHolding, fills <- liveFills, orders <- liveOrders,
    seen <- liveSeen, book <- liveBook, trades <- liveTrades, eng <- liveEng,
    syncs <- liveSyncs, api <- liveApi, built <- liveBuilt, lost <- liveLost,
    crashes <- liveCrashes

LEMMA LiveFinite == LiveProofs!IsFiniteSet({b1})
<1>1. IsFiniteSet({b1})
  BY FS_Singleton
<1> QED BY <1>1 DEF IsFiniteSet, LiveProofs!IsFiniteSet

(* Both instances of PositionBook are the same.                            *)
LEMMA LiveIsLive ==
  /\ Live!BookInit => LiveProofs!BookInit
  /\ Live!BookNext => LiveProofs!BookNext
  /\ UNCHANGED liveVars => UNCHANGED LiveProofs!bookVars
  /\ LiveProofs!BookTypeOK => Live!BookTypeOK
<1>1. Live!BookInit => LiveProofs!BookInit
  BY DEF Live!BookInit, LiveProofs!BookInit, Live!EngineIdle, LiveProofs!EngineIdle,
         Live!SyncIdle, LiveProofs!SyncIdle, Live!NoPosition, LiveProofs!NoPosition
<1>2. Live!BookNext => LiveProofs!BookNext
  BY DEF Live!BookNext, LiveProofs!BookNext, Live!TradeByHand, LiveProofs!TradeByHand,
         Live!MayBegin, LiveProofs!MayBegin, Live!AllIdle, LiveProofs!AllIdle, Live!Execute,
         LiveProofs!Execute, Live!Filled, LiveProofs!Filled, Live!Placed, LiveProofs!Placed,
         Live!Cardinality, LiveProofs!Cardinality, Live!Parts, LiveProofs!Parts,
         Live!NextOrder, LiveProofs!NextOrder, Live!mapSide, LiveProofs!mapSide,
         Live!storeVars, LiveProofs!storeVars, Live!history, LiveProofs!history,
         Live!EngineTrade, LiveProofs!EngineTrade, Live!NoPosition, LiveProofs!NoPosition,
         Live!EngineTradeLost, LiveProofs!EngineTradeLost, Live!GuardTrade,
         LiveProofs!GuardTrade, Live!EngineStep, LiveProofs!EngineStep,
         Live!EngineAddPosition, LiveProofs!EngineAddPosition, Live!Row, LiveProofs!Row,
         Live!exchangeVars, LiveProofs!exchangeVars, Live!EngineFindRow,
         LiveProofs!EngineFindRow, Live!OpenRows, LiveProofs!OpenRows, Live!AfterClose,
         LiveProofs!AfterClose, Live!EngineIdle, LiveProofs!EngineIdle, Live!Newest,
         LiveProofs!Newest, Live!EngineClose, LiveProofs!EngineClose, Live!Closed,
         LiveProofs!Closed, Live!EngineMetrics, LiveProofs!EngineMetrics,
         Live!EngineAddOrder, LiveProofs!EngineAddOrder, Live!Syncing, LiveProofs!Syncing,
         Live!SyncPull, LiveProofs!SyncPull, Live!SyncAt, LiveProofs!SyncAt, Live!SyncTo,
         LiveProofs!SyncTo, Live!SyncAddFill, LiveProofs!SyncAddFill, Live!TradeId,
         LiveProofs!TradeId, Live!SyncGoes, LiveProofs!SyncGoes, Live!SyncAddOrder,
         LiveProofs!SyncAddOrder, Live!SyncBuild, LiveProofs!SyncBuild, Live!closingSide,
         LiveProofs!closingSide, Live!SyncClose, LiveProofs!SyncClose, Live!SyncMetrics,
         LiveProofs!SyncMetrics, Live!SyncBackfill, LiveProofs!SyncBackfill, Live!ApiClose,
         LiveProofs!ApiClose, Live!ApiMetrics, LiveProofs!ApiMetrics, Live!BookCrash,
         LiveProofs!BookCrash, Live!SyncIdle, LiveProofs!SyncIdle, Live!Counting,
         LiveProofs!Counting
<1>3. UNCHANGED liveVars => UNCHANGED LiveProofs!bookVars
  BY DEF liveVars, LiveProofs!bookVars, LiveProofs!exchangeVars, LiveProofs!storeVars,
         LiveProofs!history
<1>4. LiveProofs!BookTypeOK => Live!BookTypeOK
  BY DEF Live!BookTypeOK, LiveProofs!BookTypeOK, Live!NoPosition, LiveProofs!NoPosition
<1> QED BY <1>1, <1>2, <1>3, <1>4

LEMMA LiveBegins == Live!BookInit => LiveProofs!BookTyped
BY LiveFinite, LiveIsLive, LiveProofs!BookTypesBegin

LEMMA LiveKept ==
  LiveProofs!BookTyped /\ [Live!BookNext]_liveVars => LiveProofs!BookTyped'
BY LiveFinite, LiveIsLive, LiveProofs!BookTypesKept

LEMMA LiveTypes == LiveProofs!BookTyped => Live!BookTypeOK
BY LiveFinite, LiveIsLive, LiveProofs!BookTypesFollow

(* What the caller's timer and its requests are bounded by.                *)
IdleBounded == idle \in 0..IdleLimit

LEMMA IdleBegins == McpInit => IdleBounded
BY McpAssumption DEF McpInit, IdleBounded

LEMMA IdleKept == IdleBounded /\ [McpNext]_mcpVars => IdleBounded'
<1> SUFFICES ASSUME IdleBounded, [McpNext]_mcpVars PROVE IdleBounded'
  OBVIOUS
<1>1. \/ idle' = idle
      \/ idle' = 0
      \/ idle < IdleLimit /\ idle' = idle + 1
  BY DEF McpNext, mcpVars, streamVars, Begin, ContextEnds, CallStep, Send, BackoffOver,
         BackoffCancelled, TakeLine, TakeEnd, IdleOut, ReaderStep, Scan, ScanEnds, ReaderReports,
         ReaderDone, ServerStep, Fails, Answered, StreamOpens, ServerSends, BodyEnds, BodyBreaks, Tick
<1> QED BY <1>1, McpAssumption DEF IdleBounded

LEMMA McpTypesFollow == McpInv /\ IdleBounded => McpTypeOK
<1> SUFFICES ASSUME McpInv, IdleBounded PROVE McpTypeOK
  OBVIOUS
<1>1. sent \in 0..MaxRetries + 1
  BY McpAssumption DEF McpInv, McpTyped, AttemptsInv, AttemptsBounded
<1> QED BY <1>1 DEF McpInv, McpTyped, McpPcs, IdleBounded, McpTypeOK

(* The counters are numbers of sockets.                                    *)
LEMMA SocketsTypesFollow == SocketsInv => SocketsTypeOK
<1> SUFFICES ASSUME SocketsInv PROVE SocketsTypeOK
  OBVIOUS
<1>1. \A S \in SUBSET Sockets : Cardinality(S) \in 0..Cardinality(Sockets)
  <2> SUFFICES ASSUME NEW S \in SUBSET Sockets
               PROVE  Cardinality(S) \in 0..Cardinality(Sockets)
    OBVIOUS
  <2>1. IsFiniteSet(S) /\ Cardinality(S) <= Cardinality(Sockets)
    BY SocketsAssumption, FS_Subset
  <2> QED BY <2>1, SocketsAssumption, FS_CardinalityType
<1>2. TotalPlaces \in SUBSET Sockets /\ \A u : UserPlaces(u) \in SUBSET Sockets
  BY DEF TotalPlaces, UserPlaces
<1>3. wsConnTotal \in 0..Cardinality(Sockets)
  BY <1>1, <1>2 DEF SocketsInv, PlacesCounted
<1>4. wsConnPerUser \in [SocketUsers -> 0..Cardinality(Sockets)]
  BY <1>1, <1>2 DEF SocketsInv, SocketsTyped, PlacesCounted
<1> QED BY <1>3, <1>4 DEF SocketsInv, SocketsTyped, SocketPcs, SocketsTypeOK

ProgressInv ==
  /\ Typed /\ TabInv /\ McpInv /\ IdleBounded /\ StreamsTypeOK /\ SocketsInv
  /\ BookTyped /\ LiveProofs!BookTyped

(* A part takes its own steps or rests.                                    *)
LEMMA PartsStep ==
  ASSUME [ProgressNext]_progressVars
  PROVE  /\ [Next]_vars /\ [SessionsNext]_sessionVars /\ [McpNext]_mcpVars
         /\ [StreamsNext]_pushVars /\ [SocketsNext]_socketVars
         /\ [BookNext]_bookVars /\ [Live!BookNext]_liveVars
<1>1. CASE ProgressNext
  BY <1>1 DEF ProgressNext
<1>2. CASE UNCHANGED progressVars
  BY <1>2 DEF progressVars
<1> QED BY <1>1, <1>2

LEMMA ProgressBegins == ProgressInit => ProgressInv
<1> SUFFICES ASSUME ProgressInit PROVE ProgressInv
  OBVIOUS
<1>1. Init /\ SessionsInit /\ McpInit /\ StreamsInit /\ SocketsInit /\ BookInit /\ Live!BookInit
  BY DEF ProgressInit
<1> QED
  BY <1>1, TypedInit, TabBegins, McpBegins, IdleBegins, TypesBegin, SocketsBegin,
     BookTypesBegin, LiveBegins DEF ProgressInv

LEMMA ProgressKept == ProgressInv /\ [ProgressNext]_progressVars => ProgressInv'
BY PartsStep, TypedNext, TabKept, McpKept, IdleKept, TypesKept, SocketsKept, BookTypesKept,
   LiveKept DEF ProgressInv

(* The debate, a tab's login, the calls of the library, the streams, the   *)
(* sockets and both books keep their types: a dashboard's counters number  *)
(* requests that are there, no call sends more than its retries allow, no  *)
(* queue holds more than its size, and no speaker is outside the panel.    *)
THEOREM ProgressKeepsTypes == ProgressSpec => []TypesOK
<1>1. ProgressInv => TypesOK
  BY McpTypesFollow, SocketsTypesFollow, BookTypesFollow, LiveTypes
  DEF ProgressInv, Typed, TabInv, TypesOK
<1> QED BY <1>1, ProgressBegins, ProgressKept, PTL DEF ProgressSpec
==============================================================================
