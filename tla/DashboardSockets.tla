-------------------------- MODULE DashboardSockets --------------------------
(***************************************************************************)
(* The dashboard's WebSocket (handler/dashboard.go): the quota of          *)
(* connections, two atomic counters read and then added to, the handler    *)
(* that pushes, and the goroutine that reads and tells it of the end.      *)
(***************************************************************************)
EXTENDS Naturals, FiniteSets

CONSTANTS
  Sockets,     \* requests for a connection
  SocketUsers, \* whose they may be
  NoUser,      \* of a request not yet made
  MaxTotal,    \* maxWSConnections
  MaxPerUser   \* maxWSConnPerUser

ASSUME SocketsAssumption ==
  /\ IsFiniteSet(Sockets)
  /\ NoUser \notin SocketUsers
  /\ MaxTotal \in Nat
  /\ MaxPerUser \in Nat

VARIABLES
  wsConnTotal,   \* the process's counter of connections
  wsConnPerUser, \* and those of the users
  socket,        \* per request: its handler
  readLoop       \* per request: its reading goroutine

socketVars == <<wsConnTotal, wsConnPerUser, socket, readLoop>>

(* crowded: another request was acquiring at the same time; conn: none,    *)
(* open, lost (client gone, or silent for a minute) or closed by us.       *)
NoSocket == [pc |-> "idle", user |-> NoUser, crowded |-> FALSE, conn |-> "none"]

SocketsInit ==
  /\ wsConnTotal = 0
  /\ wsConnPerUser = [u \in SocketUsers |-> 0]
  /\ socket = [c \in Sockets |-> NoSocket]
  /\ readLoop = [c \in Sockets |-> "none"]

Acquiring == {c \in Sockets : socket[c].pc \in {"total", "user", "addUser", "addTotal"}}

(* acquireConn, line by line: the total ...                                *)
Knock(c) ==
  /\ socket[c].pc = "idle"
  /\ \E u \in SocketUsers :
       socket' = [d \in Sockets |->
                    IF d = c THEN [pc |-> "total", user |-> u, crowded |-> Acquiring # {},
                                   conn |-> "none"]
                    ELSE [socket[d] EXCEPT !.crowded = @ \/ d \in Acquiring]]
  /\ UNCHANGED <<wsConnTotal, wsConnPerUser, readLoop>>

LoadTotal(c) ==
  /\ socket[c].pc = "total"
  /\ socket' = [socket EXCEPT ![c].pc = IF wsConnTotal >= MaxTotal THEN "refused" ELSE "user"]
  /\ UNCHANGED <<wsConnTotal, wsConnPerUser, readLoop>>

(* Mutant: the user's counter is compared one too late. *)
UserHasRoomForOneMore(u) == wsConnPerUser[u] <= MaxPerUser
UserHasRoom(u) == wsConnPerUser[u] < MaxPerUser

(* ... the user's own, and one more on it ...                              *)
LoadUser(c) ==
  /\ socket[c].pc = "user"
  /\ socket' = [socket EXCEPT ![c].pc =
                  IF UserHasRoom(socket[c].user) THEN "addUser" ELSE "refused"]
  /\ UNCHANGED <<wsConnTotal, wsConnPerUser, readLoop>>

AddUser(c) ==
  /\ socket[c].pc = "addUser"
  /\ wsConnPerUser' = [wsConnPerUser EXCEPT ![socket[c].user] = @ + 1]
  /\ socket' = [socket EXCEPT ![c].pc = "addTotal"]
  /\ UNCHANGED <<wsConnTotal, readLoop>>

(* ... and on the total.                                                   *)
AddTotal(c) ==
  /\ socket[c].pc = "addTotal"
  /\ wsConnTotal' = wsConnTotal + 1
  /\ socket' = [socket EXCEPT ![c].pc = "upgrading"]
  /\ UNCHANGED <<wsConnPerUser, readLoop>>

(* Mutant: the deferred release is registered after the upgrade. *)
UpgradeFailsUncounted(c) ==
  /\ socket[c].pc = "upgrading"
  /\ socket' = [socket EXCEPT ![c].pc = "gone"]
  /\ UNCHANGED <<wsConnTotal, wsConnPerUser, readLoop>>

(* No WebSocket request, or an Origin that is not allowed.                 *)
UpgradeFails(c) ==
  /\ socket[c].pc = "upgrading"
  /\ socket' = [socket EXCEPT ![c].pc = "releasing"]
  /\ UNCHANGED <<wsConnTotal, wsConnPerUser, readLoop>>

Upgrade(c) ==
  /\ socket[c].pc = "upgrading"
  /\ socket' = [socket EXCEPT ![c].pc = "serving", ![c].conn = "open"]
  /\ readLoop' = [readLoop EXCEPT ![c] = "reading"]
  /\ UNCHANGED <<wsConnTotal, wsConnPerUser>>

(* The client goes, or sends nothing for wsReadTimeout: a push or a ping   *)
(* of ours is no frame of its.                                             *)
ConnectionLost(c) ==
  /\ socket[c].conn = "open"
  /\ socket' = [socket EXCEPT ![c].conn = "lost"]
  /\ UNCHANGED <<wsConnTotal, wsConnPerUser, readLoop>>

(* Mutant: the reader sees the end of the client only. *)
ReadFailsOnLoss(c) == socket[c].conn = "lost"
ReadFails(c) == socket[c].conn \in {"lost", "closed"}

(* The reading goroutine: an error of ReadMessage closes done.             *)
ReaderStops(c) ==
  /\ readLoop[c] = "reading"
  /\ ReadFails(c)
  /\ readLoop' = [readLoop EXCEPT ![c] = "done"]
  /\ UNCHANGED <<wsConnTotal, wsConnPerUser, socket>>

(* Mutant: the handler hears of the end only by a write that fails. *)
HearsOfWrites(c) == FALSE
HearsOf(c) == readLoop[c] = "done"

(* The select loop hears that done is closed, or a write fails; the        *)
(* request's context says nothing of a connection taken over.  Then the    *)
(* deferred Close, and the counters.                                       *)
Hangup(c) ==
  /\ socket[c].pc = "serving"
  /\ HearsOf(c)
  /\ socket' = [socket EXCEPT ![c].pc = "releasing", ![c].conn = "closed"]
  /\ UNCHANGED <<wsConnTotal, wsConnPerUser, readLoop>>

WriteFails(c) ==
  /\ socket[c].pc = "serving"
  /\ socket[c].conn = "lost"
  /\ socket' = [socket EXCEPT ![c].pc = "releasing", ![c].conn = "closed"]
  /\ UNCHANGED <<wsConnTotal, wsConnPerUser, readLoop>>

(* releaseConn                                                             *)
ReleaseUser(c) ==
  /\ socket[c].pc = "releasing"
  /\ wsConnPerUser' = [wsConnPerUser EXCEPT ![socket[c].user] = @ - 1]
  /\ socket' = [socket EXCEPT ![c].pc = "releaseTotal"]
  /\ UNCHANGED <<wsConnTotal, readLoop>>

ReleaseTotal(c) ==
  /\ socket[c].pc = "releaseTotal"
  /\ wsConnTotal' = wsConnTotal - 1
  /\ socket' = [socket EXCEPT ![c].pc = "gone"]
  /\ UNCHANGED <<wsConnPerUser, readLoop>>

(* The same client asks again. *)
Again(c) ==
  /\ socket[c].pc \in {"gone", "refused"}
  /\ readLoop[c] # "reading"
  /\ socket' = [socket EXCEPT ![c] = NoSocket]
  /\ readLoop' = [readLoop EXCEPT ![c] = "none"]
  /\ UNCHANGED <<wsConnTotal, wsConnPerUser>>

Acquire(c) == LoadTotal(c) \/ LoadUser(c) \/ AddUser(c) \/ AddTotal(c)
Release(c) == Hangup(c) \/ ReleaseUser(c) \/ ReleaseTotal(c)

SocketsNext ==
  \E c \in Sockets :
    \/ Knock(c)
    \/ LoadTotal(c)
    \/ LoadUser(c)
    \/ AddUser(c)
    \/ AddTotal(c)
    \/ Upgrade(c)
    \/ UpgradeFails(c)
    \/ ConnectionLost(c)
    \/ ReaderStops(c)
    \/ Hangup(c)
    \/ WriteFails(c)
    \/ ReleaseUser(c)
    \/ ReleaseTotal(c)
    \/ Again(c)

(* The goroutines of the process run; that a write fails soon after a loss *)
(* is nothing the network owes.                                            *)
SocketsFairness ==
  \A c \in Sockets :
    /\ WF_socketVars(Acquire(c))
    /\ WF_socketVars(Release(c))
    /\ WF_socketVars(ReaderStops(c))

SocketsSpec == SocketsInit /\ [][SocketsNext]_socketVars /\ SocketsFairness

(***************************************************************************)
(* Properties.                                                             *)
(***************************************************************************)

SocketsTypeOK ==
  /\ wsConnTotal \in 0..Cardinality(Sockets)
  /\ wsConnPerUser \in [SocketUsers -> 0..Cardinality(Sockets)]
  /\ socket \in [Sockets -> [pc : {"idle", "total", "user", "addUser", "addTotal",
                                   "upgrading", "serving", "releasing", "releaseTotal",
                                   "refused", "gone"},
                             user : SocketUsers \union {NoUser}, crowded : BOOLEAN,
                             conn : {"none", "open", "lost", "closed"}]]
  /\ readLoop \in [Sockets -> {"none", "reading", "done"}]

Holding == {c \in Sockets : socket[c].pc \in {"upgrading", "serving", "releasing"}}

(* The counters tell the connections there are, whatever way each ended    *)
(* (dashboard.go:86-90, 281-302): a place lost at one end of a connection  *)
(* would be lost until the process restarts.                               *)
TotalTellsConnections ==
  wsConnTotal = Cardinality(Holding \union {c \in Sockets : socket[c].pc = "releaseTotal"})
UserTellsConnections(u) ==
  wsConnPerUser[u] = Cardinality({c \in Holding \union
                                    {d \in Sockets : socket[d].pc = "addTotal"} :
                                  socket[c].user = u})

(* The comment of acquireConn (dashboard.go:290-291) grants that requests  *)
(* at once may pass the quota together; one that is alone stays within it, *)
(* both the user's and the process's.                                      *)
AloneWithinQuota ==
  [][\A c \in Sockets :
       socket[c].pc = "addTotal" /\ socket'[c].pc = "upgrading" /\ ~socket[c].crowded
         => wsConnTotal' <= MaxTotal /\ wsConnPerUser'[socket[c].user] <= MaxPerUser]_socketVars

(* The quota: the counters tell what is connected, and are respected.      *)
QuotaHolds ==
  /\ [](TotalTellsConnections /\ \A u \in SocketUsers : UserTellsConnections(u))
  /\ AloneWithinQuota

(* A connection that is lost gives its place back ...                      *)
LostGivesBack == \A c \in Sockets : socket[c].conn = "lost" ~> socket[c].pc \in {"gone", "idle"}

(* ... and its reading goroutine ends with its handler.                    *)
ReadersEnd ==
  \A c \in Sockets : readLoop[c] = "reading" /\ socket[c].pc = "gone" ~> readLoop[c] # "reading"
=============================================================================
