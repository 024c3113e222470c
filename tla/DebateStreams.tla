---------------------------- MODULE DebateStreams ----------------------------
(***************************************************************************)
(* The event streams of one debate: Subscribe, broadcast and the deletion  *)
(* of debate/engine.go, and the handler that serves a client               *)
(* (handler/debate.go Stream).  An event is its number in the order of     *)
(* the broadcasts; what it says is in the store before it is broadcast.    *)
(***************************************************************************)
EXTENDS Naturals, Sequences

CONSTANTS
  Streams,   \* requests for the stream, one client each
  QueueSize, \* room of a subscriber's channel; 64 in the code
  MaxEvents  \* bound on the events of a debate

ASSUME StreamsAssumption == QueueSize \in Nat \ {0} /\ MaxEvents \in Nat

VARIABLES
  there,  \* is the debate there?
  subs,   \* Engine.subs: the channels events go to
  stream, \* per request: its handler
  queue,  \* per request: its channel
  got,    \* per request: the events its client was sent
  events  \* events broadcast so far

pushVars == <<there, subs, stream, queue, got, events>>

(* since: events broadcast before it subscribed; snap: before its snapshot *)
(* (the initial event); online: has the client not left?                   *)
NoStream == [pc |-> "idle", since |-> 0, snap |-> 0, online |-> TRUE]

StreamsInit ==
  /\ there = TRUE
  /\ subs = {}
  /\ stream = [s \in Streams |-> NoStream]
  /\ queue = [s \in Streams |-> <<>>]
  /\ got = [s \in Streams |-> <<>>]
  /\ events = 0

(* Get of the owner, then Subscribe of a session that is there. *)
Subscribe(s) ==
  /\ stream[s].pc = "idle"
  /\ there
  /\ stream' = [stream EXCEPT ![s].pc = "subscribed", ![s].since = events]
  /\ subs' = subs \union {s}
  /\ UNCHANGED <<there, queue, got, events>>

(* Mutant: the snapshot was taken before the subscription. *)
SnapshotReadBefore(s) == IF stream[s].since > 0 THEN stream[s].since - 1 ELSE 0

(* What the debate has come to when the handler reads it.                  *)
SnapshotRead(s) == events

(* The initial event.  Of a session deleted meanwhile there is none, and   *)
(* the stream goes on.                                                     *)
Snapshot(s) ==
  /\ stream[s].pc = "subscribed"
  /\ stream' = [stream EXCEPT ![s].pc = "serving",
                              ![s].snap = IF there THEN SnapshotRead(s) ELSE 0]
  /\ UNCHANGED <<there, subs, queue, got, events>>

(* Mutant: a full queue loses its oldest event to the new one. *)
OfferPushesOut(q, event) ==
  IF Len(q) < QueueSize THEN Append(q, event) ELSE Append(Tail(q), event)

(* The select of broadcast: room in the channel, or the event is dropped.  *)
Offer(q, event) == IF Len(q) < QueueSize THEN Append(q, event) ELSE q

(* broadcast: under the mutex, to all of them.                             *)
Broadcast ==
  /\ events < MaxEvents
  /\ events' = events + 1
  /\ queue' = [s \in Streams |-> IF s \in subs THEN Offer(queue[s], events + 1) ELSE queue[s]]
  /\ UNCHANGED <<there, subs, stream, got>>

Serve(s) ==
  /\ stream[s].pc = "serving"
  /\ queue[s] # <<>>
  /\ got' = [got EXCEPT ![s] = Append(@, Head(queue[s]))]
  /\ queue' = [queue EXCEPT ![s] = Tail(@)]
  /\ UNCHANGED <<there, subs, stream, events>>

ClientLeaves(s) ==
  /\ stream[s].pc \in {"subscribed", "serving"}
  /\ stream[s].online
  /\ stream' = [stream EXCEPT ![s].online = FALSE]
  /\ UNCHANGED <<there, subs, queue, got, events>>

(* Mutant: the handler returns and unsub is not run. *)
LeaveSubscribed(s) ==
  /\ stream[s].pc = "serving"
  /\ ~stream[s].online
  /\ stream' = [stream EXCEPT ![s].pc = "closed"]
  /\ UNCHANGED <<there, subs, queue, got, events>>

(* The context of the request is done: the handler returns, and unsub      *)
(* runs.                                                                   *)
Leave(s) ==
  /\ stream[s].pc = "serving"
  /\ ~stream[s].online
  /\ stream' = [stream EXCEPT ![s].pc = "leaving"]
  /\ UNCHANGED <<there, subs, queue, got, events>>

(* Mutant: unsub closes the channel before it takes it out of subs. *)
UnsubClosesFirst(s) ==
  /\ stream[s].pc = "leaving"
  /\ stream' = [stream EXCEPT ![s].pc = "closed"]
  /\ UNCHANGED <<there, subs, queue, got, events>>

(* unsub: out of subs, if the session still has subscribers ... *)
Unsubscribe(s) ==
  /\ stream[s].pc = "leaving"
  /\ subs' = subs \ {s}
  /\ stream' = [stream EXCEPT ![s].pc = "closing"]
  /\ UNCHANGED <<there, queue, got, events>>

(* ... and close of the channel, outside of the mutex.                     *)
CloseChannel(s) ==
  /\ stream[s].pc = "closing"
  /\ stream' = [stream EXCEPT ![s].pc = "closed"]
  /\ UNCHANGED <<there, subs, queue, got, events>>

(* Delete drops every subscriber of the session and closes no channel; the *)
(* debate's goroutine may broadcast on.                                    *)
DeleteSession ==
  /\ there
  /\ there' = FALSE
  /\ subs' = {}
  /\ UNCHANGED <<stream, queue, got, events>>

StreamStep(s) == Snapshot(s) \/ Leave(s) \/ Unsubscribe(s) \/ CloseChannel(s)

StreamsNext ==
  \/ Broadcast
  \/ DeleteSession
  \/ \E s \in Streams :
       \/ Subscribe(s)
       \/ Snapshot(s)
       \/ Serve(s)
       \/ ClientLeaves(s)
       \/ Leave(s)
       \/ Unsubscribe(s)
       \/ CloseChannel(s)

(* A handler is a goroutine of the HTTP server, and its select takes a     *)
(* ready case: one whose context stays done is taken in the end.           *)
StreamsFairness == \A s \in Streams : WF_pushVars(StreamStep(s))

StreamsSpec == StreamsInit /\ [][StreamsNext]_pushVars /\ StreamsFairness

(***************************************************************************)
(* Properties.                                                             *)
(***************************************************************************)

StreamsTypeOK ==
  /\ there \in BOOLEAN
  /\ subs \subseteq Streams
  /\ stream \in [Streams -> [pc : {"idle", "subscribed", "serving", "leaving",
                                   "closing", "closed"},
                             since : 0..MaxEvents, snap : 0..MaxEvents, online : BOOLEAN]]
  /\ queue \in [Streams -> Seq(1..MaxEvents)]
  /\ got \in [Streams -> Seq(1..MaxEvents)]
  /\ events \in 0..MaxEvents

(* broadcast never sends on a closed channel, which would panic the debate *)
(* goroutine and with it the process (engine.go:312-320: unsub deletes     *)
(* under the mutex, then closes).                                          *)
NoSendOnClosed == \A s \in subs : stream[s].pc # "closed"

(* Every event is either part of the snapshot a client begins with or was  *)
(* offered to its channel: none falls between the two (debate.go Stream    *)
(* subscribes first and reads then).                                       *)
NothingBetween ==
  there => \A s \in Streams :
               stream[s].pc = "serving" => stream[s].snap >= stream[s].since

(* However many fall on a full queue, the oldest waiting event is the next *)
(* the client is sent: an event in the queue is not lost to a newer one.   *)
QueuedIsDelivered ==
  [][\A s \in Streams :
       queue[s] # <<>> => \/ Len(queue'[s]) >= 1 /\ Head(queue'[s]) = Head(queue[s])
                          \/ got'[s] = Append(got[s], Head(queue[s]))]_pushVars

(* From its snapshot on, a client is sent what its queue had room for.     *)
StreamsDeliver == [](NoSendOnClosed /\ NothingBetween) /\ QueuedIsDelivered

(* The handler of a client that left returns, and its channel is out of    *)
(* subs.                                                                   *)
LeaversAreLetGo ==
  \A s \in Streams : ~stream[s].online ~> stream[s].pc = "closed" /\ s \notin subs
=============================================================================
