-------------------------------- MODULE Debate --------------------------------
(***************************************************************************)
(* One debate session: the requests on it (debate.Engine), the goroutine   *)
(* that runs the debate (debateLoop), the session object in memory and the *)
(* session's rows in the store.  The status lives twice: in the object     *)
(* and in the row.  Writers set the object's under its lock, take a copy   *)
(* and save that later; getSession writes the row's over the object's.     *)
(*                                                                         *)
(* Left out: texts, the current round and the trader of the rows, the      *)
(* subscribers, and the confidence of votes (any action that was voted for *)
(* may weigh most).                                                        *)
(***************************************************************************)
EXTENDS Integers, Sequences, FiniteSets

CONSTANTS
  Clients,      \* goroutines serving requests
  Loops,        \* debate goroutines (and their contexts), each used once
  NoLoop,
  NSpeakers,    \* participants of the request
  MaxRounds,    \* rounds of the request
  Actions,      \* actions the models vote for
  AutoExecute,  \* is the consensus executed without being asked for?
  MayCrash      \* may the process die?

NoRow       == "none"
NoConsensus == "nil"
Nobody      == "nobody"
Statuses    == {"pending", "running", "voting", "completed", "cancelled"}
Active      == {"running", "voting"}
Opening     == {"open_long", "open_short"}
Actors      == Clients \cup Loops

ASSUME DebateAssumption ==
  /\ NSpeakers \in Nat \ {0, 1}
  /\ MaxRounds \in Nat \ {0}
  /\ Clients \cap Loops = {}
  /\ NoLoop \notin Loops
  /\ Nobody \notin Actors
  /\ NoConsensus \notin Actions
  /\ {AutoExecute, MayCrash} \subseteq BOOLEAN

VARIABLES
  mu,         \* who holds Engine.mu from one step to the next
  known,      \* is the session in Engine.sessions?
  meta,       \* session.meta.Status
  cancel,     \* session.cancel, by the goroutine it cancels
  consensus,  \* session.consensus
  row,        \* store: Status of the session's row
  panel,      \* store: number of participants
  talk,       \* store: the messages, as <<round, speaker>>
  votes,      \* store: actions that were voted for
  pc,         \* where every client and debate goroutine stands
  hand,       \* ... and the status it has read or is about to save
  job,        \* the goroutine a client's Start is about to spawn
  cancelled,  \* cancelled contexts
  ghosts,     \* goroutines that work on a session object of their own
  round,      \* round a debate goroutine is at
  who,        \* ... and speaker or voter
  size,       \* number of participants it has read
  pick        \* consensus a goroutine has aggregated

session == <<known, meta, cancel, consensus>>
store   == <<row, panel, talk, votes>>
walk    == <<round, who, size>>
locals  == <<cancelled, ghosts, walk, pick>>
vars    == <<mu, session, store, pc, hand, job, locals>>

(* What Create leaves; a model deleted meanwhile leaves out a participant. *)
Init ==
  /\ mu = Nobody
  /\ known = TRUE
  /\ meta = "pending"
  /\ cancel = NoLoop
  /\ consensus = NoConsensus
  /\ row = "pending"
  /\ panel \in 0..NSpeakers
  /\ talk = <<>>
  /\ votes = {}
  /\ pc = [a \in Actors |-> IF a \in Clients THEN "idle" ELSE "unborn"]
  /\ hand = [a \in Actors |-> NoRow]
  /\ job = [c \in Clients |-> NoLoop]
  /\ cancelled = {}
  /\ ghosts = {}
  /\ round = [d \in Loops |-> 1]
  /\ who = [d \in Loops |-> 1]
  /\ size = [d \in Loops |-> 0]
  /\ pick = [d \in Loops |-> NoConsensus]

-----------------------------------------------------------------------------
(* Steps of clients and debate goroutines alike *)

Goto(a, where) == pc' = [pc EXCEPT ![a] = where]

Rest(a) == IF a \in Clients THEN "idle" ELSE "done"

(* getSession: Engine.mu is held while the row is read... *)
Reads(a) ==
  /\ mu = Nobody
  /\ mu' = a
  /\ hand' = [hand EXCEPT ![a] = row]

(* ... and until its status is in the object. *)
CopiesStatus(a) ==
  /\ mu = a
  /\ mu' = Nobody
  /\ meta' = IF known /\ hand[a] # NoRow THEN hand[a] ELSE meta
  /\ hand' = [hand EXCEPT ![a] = NoRow]

(* The session is not in memory but has a row: getSession makes up an      *)
(* object that says completed.                                             *)
MadeUp(a) == ~known /\ hand[a] # NoRow

(* Saving inserts the row when there is none. *)
Save(a) ==
  /\ pc[a] = "save"
  /\ row' = hand[a]
  /\ hand' = [hand EXCEPT ![a] = NoRow]
  /\ Goto(a, Rest(a))
  /\ UNCHANGED <<mu, session, panel, talk, votes, job, locals>>

(* Engine.Execute after its getSession: the check and the record of the    *)
(* trader lock the session separately.                                     *)
ExecuteChecks(a) ==
  /\ pc[a] = "check"
  /\ Goto(a, IF meta = "completed" /\ consensus \in Opening THEN "record" ELSE Rest(a))
  /\ UNCHANGED <<mu, session, store, hand, job, locals>>

ExecuteRecords(a) ==
  /\ pc[a] = "record"
  /\ hand' = [hand EXCEPT ![a] = meta]
  /\ Goto(a, "save")
  /\ UNCHANGED <<mu, session, store, job, locals>>

-----------------------------------------------------------------------------
(* Requests *)

(* A request goes on here once it has its session; "read" (messages,       *)
(* votes, subscription) is over.                                           *)
HasSession == [start |-> "starting", cancel |-> "cancelling", delete |-> "deleting",
               execute |-> "check", read |-> "idle"]

Ask(c) ==
  /\ pc[c] = "idle"
  /\ row # NoRow
  /\ Reads(c)
  /\ \E op \in DOMAIN HasSession : Goto(c, op)
  /\ UNCHANGED <<session, store, job, locals>>

GetSession(c) ==
  /\ pc[c] \in DOMAIN HasSession
  /\ CopiesStatus(c)
  /\ Goto(c, IF known THEN HasSession[pc[c]]
             ELSE IF MadeUp(c) /\ pc[c] = "delete" THEN "unregister" ELSE "idle")
  /\ UNCHANGED <<known, cancel, consensus, store, job, locals>>

Refuse(c, where) ==
  /\ pc[c] = where
  /\ Goto(c, "idle")
  /\ UNCHANGED <<mu, session, store, hand, job, locals>>

(* The context exists before the goroutine does. *)
StartBegins(c, d) ==
  /\ pc[c] = "starting"
  /\ pc[d] = "unborn"
  /\ meta' = "running"
  /\ cancel' = d
  /\ hand' = [hand EXCEPT ![c] = "running"]
  /\ job' = [job EXCEPT ![c] = d]
  /\ pc' = [pc EXCEPT ![c] = "spawn", ![d] = "reserved"]
  /\ UNCHANGED <<mu, known, consensus, store, locals>>

(* Mutant: no look at the status. *)
StartUnchecked(c) == \E d \in Loops : StartBegins(c, d)

Start(c) ==
  \/ meta = "pending" /\ \E d \in Loops : StartBegins(c, d)
  \/ meta # "pending" /\ Refuse(c, "starting")

(* Mutant: the goroutine is spawned before the row is saved. *)
StartSpawnsFirst(c) ==
  /\ pc[c] = "spawn"
  /\ pc' = [pc EXCEPT ![c] = "save", ![job[c]] = "born"]
  /\ job' = [job EXCEPT ![c] = NoLoop]
  /\ UNCHANGED <<mu, session, store, hand, locals>>

StartSpawns(c) ==
  /\ pc[c] = "spawn"
  /\ row' = hand[c]
  /\ hand' = [hand EXCEPT ![c] = NoRow]
  /\ pc' = [pc EXCEPT ![c] = "idle", ![job[c]] = "born"]
  /\ job' = [job EXCEPT ![c] = NoLoop]
  /\ UNCHANGED <<mu, session, panel, talk, votes, locals>>

Cancels == cancelled' = cancelled \cup ({cancel} \ {NoLoop})

Cancel(c) ==
  \/ /\ pc[c] = "cancelling"
     /\ meta \in Active
     /\ meta' = "cancelled"
     /\ Cancels
     /\ hand' = [hand EXCEPT ![c] = "cancelled"]
     /\ Goto(c, "save")
     /\ UNCHANGED <<mu, known, cancel, consensus, store, job, ghosts, walk, pick>>
  \/ meta \notin Active /\ Refuse(c, "cancelling")

Delete(c) ==
  \/ /\ pc[c] = "deleting"
     /\ meta \notin Active
     /\ Cancels
     /\ Goto(c, "unregister")
     /\ UNCHANGED <<mu, session, store, hand, job, ghosts, walk, pick>>
  \/ meta \in Active /\ Refuse(c, "deleting")

Unregister(c) ==
  /\ pc[c] = "unregister"
  /\ mu = Nobody
  /\ known' = FALSE
  /\ Goto(c, "delete_row")
  /\ UNCHANGED <<mu, meta, cancel, consensus, store, hand, job, locals>>

(* DeleteDebateSession: four statements, and none but the first when there *)
(* is no row.                                                              *)
DeleteRow(c) ==
  /\ pc[c] = "delete_row"
  /\ row' = NoRow
  /\ Goto(c, IF row = NoRow THEN "idle" ELSE "delete_panel")
  /\ UNCHANGED <<mu, session, panel, talk, votes, hand, job, locals>>

DeletePanel(c) ==
  /\ pc[c] = "delete_panel"
  /\ panel' = 0
  /\ Goto(c, "delete_talk")
  /\ UNCHANGED <<mu, session, row, talk, votes, hand, job, locals>>

DeleteTalk(c) ==
  /\ pc[c] = "delete_talk"
  /\ talk' = <<>>
  /\ Goto(c, "delete_votes")
  /\ UNCHANGED <<mu, session, row, panel, votes, hand, job, locals>>

DeleteVotes(c) ==
  /\ pc[c] = "delete_votes"
  /\ votes' = {}
  /\ Goto(c, "idle")
  /\ UNCHANGED <<mu, session, row, panel, talk, hand, job, locals>>

-----------------------------------------------------------------------------
(* The debate's goroutine *)

LoopGets(d) ==
  /\ pc[d] \in {"born", "execute"}
  /\ Reads(d)
  /\ UNCHANGED <<session, store, pc, job, locals>>

(* A goroutine that finds neither session nor row dies of a nil pointer,   *)
(* and the process with it: see Panic.                                     *)
LoopHas(d) ==
  /\ pc[d] = "born"
  /\ known \/ MadeUp(d)
  /\ CopiesStatus(d)
  /\ ghosts' = IF known THEN ghosts ELSE ghosts \cup {d}
  /\ Goto(d, "panel")
  /\ UNCHANGED <<known, cancel, consensus, store, job, cancelled, walk, pick>>

LoopExecutes(d) ==
  /\ pc[d] = "execute"
  /\ CopiesStatus(d)
  /\ Goto(d, IF known THEN "check" ELSE "done")
  /\ UNCHANGED <<known, cancel, consensus, store, job, locals>>

LoopPanel(d) ==
  /\ pc[d] = "panel"
  /\ round' = [round EXCEPT ![d] = 1]
  /\ who' = [who EXCEPT ![d] = 1]
  /\ size' = [size EXCEPT ![d] = panel]
  /\ Goto(d, IF panel < 2 THEN "too_few" ELSE "round")
  /\ UNCHANGED <<mu, session, store, hand, job, cancelled, ghosts, pick>>

(* setStatus and setRound (which keeps the status) look the session up,    *)
(* do nothing without one, and save a copy afterwards.                     *)
SetStatus(d, status, saving, skipping) ==
  /\ mu = Nobody
  /\ meta' = IF known THEN status ELSE meta
  /\ hand' = IF known THEN [hand EXCEPT ![d] = status] ELSE hand
  /\ Goto(d, IF known THEN saving ELSE skipping)
  /\ UNCHANGED <<mu, known, cancel, consensus, store, job, cancelled, ghosts, pick>>

LoopTooFew(d) ==
  /\ pc[d] = "too_few"
  /\ SetStatus(d, "cancelled", "save", "done")
  /\ UNCHANGED walk

(* A context once cancelled ends the goroutine at its next look. *)
LoopCancelled(d) ==
  /\ d \in cancelled
  /\ \/ pc[d] = "round" /\ round[d] <= MaxRounds /\ d \notin ghosts
     \/ pc[d] \in {"speak", "vote"} /\ who[d] <= size[d]
  /\ Goto(d, "done")
  /\ UNCHANGED <<mu, session, store, hand, job, locals>>

(* A made-up session has no rounds. *)
LoopRound(d) ==
  /\ pc[d] = "round"
  /\ \/ /\ round[d] <= MaxRounds
        /\ d \notin cancelled \cup ghosts
        /\ SetStatus(d, meta, "save_round", "speak")
        /\ who' = [who EXCEPT ![d] = 1]
        /\ UNCHANGED <<round, size>>
     \/ /\ round[d] > MaxRounds \/ d \in ghosts
        /\ Goto(d, "voting")
        /\ UNCHANGED <<mu, session, store, hand, job, locals>>

(* Mutant: the panel is left one speaker late. *)
LoopSpeakPast(d) ==
  /\ pc[d] = "speak"
  /\ IF who[d] > size[d] + 1
     THEN /\ round' = [round EXCEPT ![d] = @ + 1]
          /\ UNCHANGED <<who, size>>
          /\ Goto(d, "round")
     ELSE /\ d \notin cancelled
          /\ Goto(d, "say")
          /\ UNCHANGED walk
  /\ UNCHANGED <<mu, session, store, hand, job, cancelled, ghosts, pick>>

LoopSpeak(d) ==
  /\ pc[d] = "speak"
  /\ IF who[d] > size[d]
     THEN /\ round' = [round EXCEPT ![d] = @ + 1]
          /\ UNCHANGED <<who, size>>
          /\ Goto(d, "round")
     ELSE /\ d \notin cancelled
          /\ Goto(d, "say")
          /\ UNCHANGED walk
  /\ UNCHANGED <<mu, session, store, hand, job, cancelled, ghosts, pick>>

(* Mutant: a participant whose model fails is skipped. *)
LoopSaySkips(d) ==
  /\ pc[d] = "say"
  /\ talk' \in {talk, Append(talk, <<round[d], who[d]>>)}
  /\ who' = [who EXCEPT ![d] = @ + 1]
  /\ UNCHANGED <<round, size>>
  /\ Goto(d, "speak")
  /\ UNCHANGED <<mu, session, row, panel, votes, hand, job, cancelled, ghosts, pick>>

(* The model has answered or failed: there is a message in both cases,     *)
(* also when the context was cancelled while it thought.                   *)
LoopSay(d) ==
  /\ pc[d] = "say"
  /\ talk' = Append(talk, <<round[d], who[d]>>)
  /\ who' = [who EXCEPT ![d] = @ + 1]
  /\ UNCHANGED <<round, size>>
  /\ Goto(d, "speak")
  /\ UNCHANGED <<mu, session, row, panel, votes, hand, job, cancelled, ghosts, pick>>

LoopVoting(d) ==
  /\ pc[d] = "voting"
  /\ SetStatus(d, "voting", "save_voting", "vote")
  /\ who' = [who EXCEPT ![d] = 1]
  /\ UNCHANGED <<round, size>>

LoopVote(d) ==
  /\ pc[d] = "vote"
  /\ \/ who[d] > size[d] /\ Goto(d, "tally")
     \/ who[d] <= size[d] /\ d \notin cancelled /\ Goto(d, "ballot")
  /\ UNCHANGED <<mu, session, store, hand, job, locals>>

(* Mutant: a vote that cannot be had is asked for again. *)
LoopBallotAgain(d) ==
  /\ pc[d] = "ballot"
  /\ Goto(d, "vote")
  /\ \/ UNCHANGED <<votes, walk>>
     \/ /\ \E a \in Actions : votes' = votes \cup {a}
        /\ who' = [who EXCEPT ![d] = @ + 1]
        /\ UNCHANGED <<round, size>>
  /\ UNCHANGED <<mu, session, row, panel, talk, hand, job, cancelled, ghosts, pick>>

(* A vote that cannot be had is skipped. *)
LoopBallot(d) ==
  /\ pc[d] = "ballot"
  /\ \/ UNCHANGED votes
     \/ \E a \in Actions : votes' = votes \cup {a}
  /\ who' = [who EXCEPT ![d] = @ + 1]
  /\ UNCHANGED <<round, size>>
  /\ Goto(d, "vote")
  /\ UNCHANGED <<mu, session, row, panel, talk, hand, job, cancelled, ghosts, pick>>

(* No votes, no consensus; to hold is to wait. *)
Aggregates(a) == IF a = "hold" THEN "wait" ELSE a

LoopTally(d) ==
  /\ pc[d] = "tally"
  /\ \/ votes = {} /\ pick' = [pick EXCEPT ![d] = NoConsensus]
     \/ \E a \in votes : pick' = [pick EXCEPT ![d] = Aggregates(a)]
  /\ Goto(d, "complete")
  /\ UNCHANGED <<mu, session, store, hand, job, cancelled, ghosts, walk>>

LoopComplete(d) ==
  /\ pc[d] = "complete"
  /\ consensus' = IF d \in ghosts THEN consensus ELSE pick[d]
  /\ meta' = IF d \in ghosts THEN meta ELSE "completed"
  /\ hand' = [hand EXCEPT ![d] = "completed"]
  /\ Goto(d, "save_end")
  /\ UNCHANGED <<mu, known, cancel, store, job, locals>>

(* Where a goroutine goes on once it has saved. *)
Saving(d) ==
  [where \in {"save_round", "save_voting", "save_end"} |->
     CASE where = "save_round" -> "speak"
       [] where = "save_voting" -> "vote"
       [] OTHER -> IF AutoExecute /\ d \notin ghosts /\ pick[d] \in Opening
                   THEN "execute" ELSE "done"]

LoopSave(d) ==
  /\ pc[d] \in DOMAIN Saving(d)
  /\ row' = hand[d]
  /\ hand' = [hand EXCEPT ![d] = NoRow]
  /\ Goto(d, Saving(d)[pc[d]])
  /\ UNCHANGED <<mu, session, panel, talk, votes, job, locals>>

-----------------------------------------------------------------------------
(* The process dies; the store stays.  The next one knows no session. *)
Dies ==
  /\ mu' = Nobody
  /\ known' = FALSE
  /\ meta' = "pending"
  /\ cancel' = NoLoop
  /\ consensus' = NoConsensus
  /\ pc' = [a \in Actors |-> IF a \in Clients THEN "idle"
                             ELSE IF pc[a] = "unborn" THEN "unborn" ELSE "done"]
  /\ hand' = [a \in Actors |-> NoRow]
  /\ job' = [c \in Clients |-> NoLoop]
  /\ UNCHANGED <<store, locals>>

Crash == MayCrash /\ Dies

Panic(d) ==
  /\ pc[d] = "born"
  /\ mu = d
  /\ ~known
  /\ ~MadeUp(d)
  /\ Dies

ClientStep(c) ==
  \/ GetSession(c) \/ Start(c) \/ StartSpawns(c) \/ Cancel(c)
  \/ Delete(c) \/ Unregister(c) \/ DeleteRow(c) \/ DeletePanel(c) \/ DeleteTalk(c)
  \/ DeleteVotes(c) \/ ExecuteChecks(c) \/ ExecuteRecords(c) \/ Save(c)

LoopStep(d) ==
  \/ LoopGets(d) \/ LoopHas(d) \/ LoopExecutes(d) \/ LoopPanel(d) \/ LoopTooFew(d)
  \/ LoopCancelled(d) \/ LoopRound(d) \/ LoopSpeak(d) \/ LoopSay(d) \/ LoopVoting(d)
  \/ LoopVote(d) \/ LoopBallot(d) \/ LoopTally(d) \/ LoopComplete(d) \/ LoopSave(d)
  \/ ExecuteChecks(d) \/ ExecuteRecords(d) \/ Save(d) \/ Panic(d)

Next ==
  \/ \E c \in Clients : Ask(c) \/ ClientStep(c)
  \/ \E d \in Loops : LoopStep(d)
  \/ Crash

Spec == Init /\ [][Next]_vars

(* Handlers are not abandoned half-way, the model client's timeout ends    *)
(* every call, and a sync.Mutex that is asked for again and again is got   *)
(* in the end.  Nobody need ask for anything.                              *)
Fairness ==
  /\ \A c \in Clients : SF_vars(ClientStep(c))
  /\ \A d \in Loops : SF_vars(LoopStep(d))

FairSpec == Spec /\ Fairness

-----------------------------------------------------------------------------
(* Properties *)

LoopPcs == {"unborn", "reserved", "born", "panel", "too_few", "round", "save_round",
            "speak", "say", "voting", "save_voting", "vote", "ballot", "tally",
            "complete", "save_end", "execute", "check", "record", "save", "done"}
ClientPcs == {"idle", "start", "cancel", "delete", "execute", "read", "starting",
              "spawn", "cancelling", "deleting", "unregister", "delete_row",
              "delete_panel", "delete_talk", "delete_votes", "check", "record", "save"}

SessionTyped ==
  /\ mu \in Actors \cup {Nobody}
  /\ known \in BOOLEAN
  /\ meta \in Statuses
  /\ cancel \in Loops \cup {NoLoop}
  /\ consensus \in Actions \cup {"wait", NoConsensus}

StoreTyped ==
  /\ row \in Statuses \cup {NoRow}
  /\ panel \in 0..NSpeakers
  /\ talk \in Seq((1..MaxRounds) \X (1..NSpeakers))
  /\ votes \subseteq Actions

ActorsTyped ==
  /\ pc \in [Actors -> LoopPcs \cup ClientPcs]
  /\ hand \in [Actors -> Statuses \cup {NoRow}]
  /\ job \in [Clients -> Loops \cup {NoLoop}]
  /\ cancelled \subseteq Loops
  /\ ghosts \subseteq Loops
  /\ round \in [Loops -> 1..(MaxRounds + 1)]
  /\ who \in [Loops -> 1..(NSpeakers + 1)]
  /\ size \in [Loops -> 0..NSpeakers]
  /\ pick \in [Loops -> Actions \cup {"wait", NoConsensus}]

(* State stays within its types; no round or speaker is past the last.     *)
TypeOK == SessionTyped /\ StoreTyped /\ ActorsTyped

Said(r, w) == \E i \in 1..Len(talk) : talk[i] = <<r, w>>

(* debate_loop.go:33-110: a consensus is that of a debate in which every   *)
(* participant spoke in every round, however it was started, cancelled and *)
(* deleted meanwhile.                                                      *)
ConsensusHeardAll ==
  known /\ consensus # NoConsensus
    => \A r \in 1..MaxRounds, w \in 1..panel : Said(r, w)

(* debate_loop.go:40: participants speak in turn, one round after the      *)
(* other, and once a round.                                                *)
SpeechesInTurn ==
  \A i \in 1..Len(talk) :
    talk[i] = <<((i - 1) \div panel) + 1, ((i - 1) % panel) + 1>>

(* engine.go:2: a debate that was started is never pending again, though   *)
(* getSession copies statuses from the row and everyone saves old copies.  *)
NeverPendingAgain == [][row # "pending" => row' # "pending"]_row

(* Both hold of a session that one client at a time works on.              *)
OneClientOrder == [](known => SpeechesInTurn) /\ NeverPendingAgain

(* debate_loop.go: a debate's goroutine ends, whatever is asked meanwhile. *)
LoopEnds == \A d \in Loops : pc[d] = "born" ~> pc[d] = "done"

(* engine.go:341, "进程内状态权威": with the status in memory authoritative, *)
(* a session is debated by one goroutine.                                  *)
OneDebate ==
  \A d1, d2 \in Loops :
    {pc[d1], pc[d2]} \cap {"unborn", "reserved", "done"} = {} => d1 = d2

===============================================================================
