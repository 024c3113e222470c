----------------------------- MODULE DebateProofs -----------------------------
(***************************************************************************)
(* Proofs about Debate for any sets of clients and goroutines, any number  *)
(* of participants and rounds: types, what a consensus rests on, and the   *)
(* order of speeches and statuses that one client at a time is promised.   *)
(***************************************************************************)
EXTENDS Debate, TLAPS

-----------------------------------------------------------------------------
(* Types.  A goroutine that is at a speech or a ballot has a round or a    *)
(* speaker left.                                                           *)
InRound == {"save_round", "speak", "say"}

Walks ==
  \A d \in Loops :
    /\ who[d] <= size[d] + 1
    /\ pc[d] \in InRound => round[d] <= MaxRounds
    /\ pc[d] \in {"say", "ballot"} => who[d] <= size[d]

Typed == TypeOK /\ Walks

(* What an action of a client leaves alone. *)
LEMMA WalksUnchanged ==
  ASSUME Walks, UNCHANGED walk,
         \A d \in Loops : pc'[d] = pc[d]
                          \/ pc'[d] \in {"reserved", "born", "idle", "done", "record", "save"}
  PROVE  Walks'
BY DEF Walks, InRound, walk

LEMMA TypedInit == Init => Typed
<1> SUFFICES ASSUME Init PROVE Typed
  OBVIOUS
<1> USE DebateAssumption DEF Init
<1>1. SessionTyped
  BY DEF SessionTyped, Statuses
<1>2. StoreTyped
  BY DEF StoreTyped, Statuses
<1>3. ActorsTyped
  BY DEF ActorsTyped, Actors, LoopPcs, ClientPcs
<1>4. Walks
  BY DEF Walks, InRound, Actors
<1> QED
  BY <1>1, <1>2, <1>3, <1>4 DEF Typed, TypeOK

(* Steps that clients and goroutines share. *)
LEMMA TypedShared ==
  ASSUME Typed, NEW a \in Actors,
         Save(a) \/ ExecuteChecks(a) \/ ExecuteRecords(a)
  PROVE  Typed'
<1> USE DEF Typed, TypeOK, Save, ExecuteChecks, ExecuteRecords, Goto, Rest
<1>1. SessionTyped'
  BY DEF SessionTyped, session
<1>2. StoreTyped'
  BY DEF StoreTyped, ActorsTyped, store
<1>3. ActorsTyped'
  <2>1. pc' \in [Actors -> LoopPcs \cup ClientPcs]
    BY DEF ActorsTyped, LoopPcs, ClientPcs
  <2>2. hand' \in [Actors -> Statuses \cup {NoRow}]
    BY DEF ActorsTyped, SessionTyped
  <2> QED
    BY <2>1, <2>2 DEF ActorsTyped, locals, walk
<1>4. Walks'
  <2>1. UNCHANGED walk
    BY DEF locals
  <2>2. \A d \in Loops : pc'[d] = pc[d] \/ pc'[d] \in {"idle", "done", "record", "save"}
    BY DEF ActorsTyped, Actors
  <2> QED
    BY <2>1, <2>2, WalksUnchanged
<1> QED
  BY <1>1, <1>2, <1>3, <1>4

LEMMA TypedClient ==
  ASSUME Typed, NEW c \in Clients, Ask(c) \/ ClientStep(c)
  PROVE  Typed'
<1> c \in Actors /\ c \notin Loops /\ Loops \subseteq Actors
  BY DebateAssumption DEF Actors
<1> USE DEF Typed, TypeOK, Goto
<1>1. ASSUME Ask(c) \/ GetSession(c) \/ Cancel(c) \/ Delete(c) \/ Unregister(c)
      PROVE  Typed'
  <2> USE <1>1 DEF Ask, GetSession, Cancel, Delete, Unregister, Refuse, Reads, CopiesStatus,
                   HasSession
  <2>1. SessionTyped'
    BY DEF SessionTyped, ActorsTyped, Statuses, session
  <2>2. StoreTyped'
    BY DEF StoreTyped, store
  <2>3. ActorsTyped'
    <3>1. pc' \in [Actors -> LoopPcs \cup ClientPcs]
      BY DEF ActorsTyped, LoopPcs, ClientPcs
    <3>2. hand' \in [Actors -> Statuses \cup {NoRow}]
      BY DEF ActorsTyped, StoreTyped, Statuses
    <3>3. cancelled' \subseteq Loops
      BY DEF ActorsTyped, SessionTyped, Cancels, locals, walk
    <3> QED
      BY <3>1, <3>2, <3>3 DEF ActorsTyped, locals, walk
  <2>4. Walks'
    BY WalksUnchanged DEF ActorsTyped, locals, walk
  <2> QED
    BY <2>1, <2>2, <2>3, <2>4
<1>2. ASSUME Start(c) \/ StartSpawns(c) PROVE Typed'
  <2> USE <1>2 DEF Start, StartBegins, StartSpawns, Refuse
  <2>1. SessionTyped'
    BY DEF SessionTyped, Statuses, session
  <2>2. StoreTyped'
    BY DEF StoreTyped, ActorsTyped, store
  <2>3. ActorsTyped'
    BY DEF ActorsTyped, Statuses, LoopPcs, ClientPcs, locals, walk
  <2>4. Walks'
    BY WalksUnchanged DEF ActorsTyped, locals, walk
  <2> QED
    BY <2>1, <2>2, <2>3, <2>4
<1>3. ASSUME DeleteRow(c) \/ DeletePanel(c) \/ DeleteTalk(c) \/ DeleteVotes(c)
      PROVE  Typed'
  <2> USE <1>3 DEF DeleteRow, DeletePanel, DeleteTalk, DeleteVotes
  <2>1. SessionTyped'
    BY DEF SessionTyped, session
  <2>2. StoreTyped'
    <3>1. <<>> \in Seq((1..MaxRounds) \X (1..NSpeakers)) /\ 0 \in 0..NSpeakers
      BY DebateAssumption
    <3> QED
      BY <3>1 DEF StoreTyped
  <2>3. ActorsTyped'
    BY DEF ActorsTyped, ClientPcs, locals, walk
  <2>4. Walks'
    BY WalksUnchanged DEF ActorsTyped, locals, walk
  <2> QED
    BY <2>1, <2>2, <2>3, <2>4
<1> QED
  BY <1>1, <1>2, <1>3, TypedShared DEF ClientStep

LEMMA TypedLoop ==
  ASSUME Typed, NEW d \in Loops, LoopStep(d), ~Panic(d)
  PROVE  Typed'
<1> d \in Actors /\ Loops \subseteq Actors
  BY DEF Actors
<1> USE DEF Typed, TypeOK, Goto
<1>1. ASSUME LoopGets(d) \/ LoopHas(d) \/ LoopExecutes(d) \/ LoopCancelled(d) \/ LoopVote(d)
             \/ LoopTally(d) \/ LoopComplete(d) \/ LoopSave(d)
      PROVE  Typed'
  <2> USE <1>1 DEF LoopGets, LoopHas, LoopExecutes, LoopCancelled, LoopVote, LoopTally,
                   LoopComplete, LoopSave, Reads, CopiesStatus
  <2>1. SessionTyped'
    BY DEF SessionTyped, ActorsTyped, Statuses, session
  <2>2. StoreTyped'
    BY DEF StoreTyped, ActorsTyped, store
  <2>3. ActorsTyped'
    <3>1. pc' \in [Actors -> LoopPcs \cup ClientPcs]
      BY DEF ActorsTyped, LoopPcs, Saving
    <3>2. hand' \in [Actors -> Statuses \cup {NoRow}]
      BY DEF ActorsTyped, StoreTyped, Statuses
    <3>3. pick' \in [Loops -> Actions \cup {"wait", NoConsensus}]
      BY DEF ActorsTyped, StoreTyped, Aggregates, locals, walk
    <3>4. ghosts' \subseteq Loops
      BY DEF ActorsTyped, locals, walk
    <3> QED
      BY <3>1, <3>2, <3>3, <3>4 DEF ActorsTyped, locals, walk
  <2>4. Walks'
    <3>1. UNCHANGED walk /\ \A e \in Loops \ {d} : pc'[e] = pc[e]
      BY DEF ActorsTyped, locals, walk
    <3>2. pc'[d] \in InRound => pc[d] \in InRound
      BY DEF ActorsTyped, InRound, Saving
    <3>3. pc'[d] \in {"say", "ballot"} => who[d] <= size[d]
      BY DEF ActorsTyped, Saving, Walks
    <3> QED
      BY <3>1, <3>2, <3>3 DEF Walks, walk
  <2> QED
    BY <2>1, <2>2, <2>3, <2>4
<1>2. ASSUME LoopPanel(d) \/ LoopTooFew(d) \/ LoopRound(d) \/ LoopVoting(d)
      PROVE  Typed'
  <2> USE <1>2 DEF LoopPanel, LoopTooFew, LoopRound, LoopVoting, SetStatus
  <2>1. SessionTyped'
    BY DEF SessionTyped, Statuses, session
  <2>2. StoreTyped'
    BY DEF StoreTyped, store
  <2>3. ActorsTyped'
    <3> 1 \in 1..(MaxRounds + 1) /\ 1 \in 1..(NSpeakers + 1)
      BY DebateAssumption
    <3>1. /\ round' \in [Loops -> 1..(MaxRounds + 1)]
          /\ who' \in [Loops -> 1..(NSpeakers + 1)]
          /\ size' \in [Loops -> 0..NSpeakers]
      BY DEF ActorsTyped, StoreTyped, locals, walk
    <3>2. pc' \in [Actors -> LoopPcs \cup ClientPcs]
      BY DEF ActorsTyped, LoopPcs
    <3>3. hand' \in [Actors -> Statuses \cup {NoRow}]
      BY DEF ActorsTyped, SessionTyped, Statuses, locals, walk
    <3> QED
      BY <3>1, <3>2, <3>3 DEF ActorsTyped, locals, walk
  <2>4. Walks'
    <3>1. \A e \in Loops \ {d} : /\ round'[e] = round[e] /\ who'[e] = who[e]
                                 /\ size'[e] = size[e] /\ pc'[e] = pc[e]
      BY DEF ActorsTyped, locals, walk
    <3>2. round[d] \in Nat /\ who[d] \in Nat /\ size[d] \in Nat
      BY DEF ActorsTyped
    <3>3. who'[d] <= size'[d] + 1
      BY <3>2, DebateAssumption DEF Walks, ActorsTyped, StoreTyped, locals, walk
    <3>4. pc'[d] \in InRound => round'[d] <= MaxRounds
      BY <3>2, DebateAssumption DEF ActorsTyped, InRound, locals, walk
    <3>5. pc'[d] \notin {"say", "ballot"}
      BY DEF ActorsTyped
    <3> QED
      BY <3>1, <3>3, <3>4, <3>5 DEF Walks
  <2> QED
    BY <2>1, <2>2, <2>3, <2>4
<1>3. ASSUME LoopSpeak(d) \/ LoopSay(d) \/ LoopBallot(d) PROVE Typed'
  <2> USE <1>3 DEF LoopSpeak, LoopSay, LoopBallot, walk
  <2>1. round[d] \in 1..(MaxRounds + 1) /\ who[d] \in 1..(NSpeakers + 1) /\ size[d] \in 0..NSpeakers
    BY DEF ActorsTyped
  <2>2. SessionTyped'
    BY DEF SessionTyped, session
  <2>3. StoreTyped'
    <3>1. CASE LoopSay(d)
      <4>1. <<round[d], who[d]>> \in (1..MaxRounds) \X (1..NSpeakers)
        BY <2>1, <3>1, DebateAssumption DEF Walks, InRound
      <4> QED
        BY <3>1, <4>1 DEF StoreTyped
    <3> QED
      BY <3>1 DEF StoreTyped, store
  <2>4. ActorsTyped'
    <3>1. /\ round' \in [Loops -> 1..(MaxRounds + 1)]
          /\ who' \in [Loops -> 1..(NSpeakers + 1)]
          /\ size' \in [Loops -> 0..NSpeakers]
      <4>1. pc[d] \in {"say", "ballot"} => who[d] + 1 \in 1..(NSpeakers + 1)
        BY <2>1, DebateAssumption DEF Walks
      <4>2. pc[d] = "speak" => round[d] + 1 \in 1..(MaxRounds + 1)
        BY <2>1, DebateAssumption DEF Walks, InRound
      <4> QED
        BY <4>1, <4>2 DEF ActorsTyped, walk
    <3>2. pc' \in [Actors -> LoopPcs \cup ClientPcs]
      BY DEF ActorsTyped, LoopPcs
    <3> QED
      BY <3>1, <3>2 DEF ActorsTyped
  <2>5. Walks'
    <3>1. \A e \in Loops \ {d} : /\ round'[e] = round[e] /\ who'[e] = who[e]
                                 /\ size'[e] = size[e] /\ pc'[e] = pc[e]
      BY DEF ActorsTyped
    <3>2. who'[d] <= size'[d] + 1
      BY <2>1 DEF Walks, ActorsTyped
    <3>3. pc'[d] \in InRound => round'[d] <= MaxRounds
      BY <2>1 DEF Walks, ActorsTyped, InRound
    <3>4. pc'[d] \in {"say", "ballot"} => who'[d] <= size'[d]
      BY <2>1 DEF Walks, ActorsTyped
    <3> QED
      BY <3>1, <3>2, <3>3, <3>4 DEF Walks
  <2> QED
    BY <2>2, <2>3, <2>4, <2>5
<1> QED
  BY <1>1, <1>2, <1>3, TypedShared DEF LoopStep

LEMMA TypedDies == Typed /\ Dies => Typed'
<1> SUFFICES ASSUME Typed, Dies PROVE Typed'
  OBVIOUS
<1> USE DEF Typed, TypeOK, Dies
<1>1. SessionTyped'
  BY DEF SessionTyped, Statuses
<1>2. StoreTyped'
  BY DEF StoreTyped, store
<1>3. ActorsTyped'
  BY DEF ActorsTyped, LoopPcs, ClientPcs, locals, walk
<1>4. Walks'
  BY DEF Walks, InRound, Actors, locals, walk
<1> QED
  BY <1>1, <1>2, <1>3, <1>4

LEMMA TypedNext == Typed /\ [Next]_vars => Typed'
<1> SUFFICES ASSUME Typed, [Next]_vars PROVE Typed'
  OBVIOUS
<1>1. CASE Next
  BY <1>1, TypedClient, TypedLoop, TypedDies DEF Next, Crash, Panic, LoopStep
<1>2. CASE UNCHANGED vars
  BY <1>2 DEF vars, Typed, TypeOK, SessionTyped, StoreTyped, ActorsTyped, Walks, session,
              store, locals, walk
<1> QED
  BY <1>1, <1>2

(* Types are kept, for any numbers of clients, goroutines, participants    *)
(* and rounds: no goroutine (debate_loop.go:33, 40) gets past its last     *)
(* round or speaker.                                                       *)
THEOREM TypeCorrect == Spec => []TypeOK
<1>1. Typed => TypeOK
  BY DEF Typed
<1> QED
  BY <1>1, TypedInit, TypedNext, PTL DEF Spec

-----------------------------------------------------------------------------
(* What a consensus rests on.  The invariant follows every goroutine: the  *)
(* rounds behind it are complete, and so is its round up to its speaker.   *)
(* It is silent once the session is out of memory, where it stays: only    *)
(* then are its messages deleted, and only then can a goroutine work on    *)
(* an object of its own, which has no rounds.                              *)
AfterRounds == {"voting", "save_voting", "vote", "ballot", "tally", "complete"}
Deleting    == {"delete_row", "delete_panel", "delete_talk", "delete_votes"}

AllSaid == \A r \in 1..MaxRounds, w \in 1..panel : Said(r, w)

Hears(d) ==
  /\ pc[d] \in InRound \cup {"round"} =>
       /\ size[d] = panel
       /\ \A r \in 1..(round[d] - 1), w \in 1..panel : Said(r, w)
  /\ pc[d] \in InRound => \A w \in 1..(who[d] - 1) : Said(round[d], w)
  /\ pc[d] \in AfterRounds => AllSaid

Heard ==
  known => /\ \A d \in Loops : Hears(d)
           /\ consensus # NoConsensus => AllSaid

Forgotten ==
  /\ ghosts # {} => ~known
  /\ \A c \in Clients : pc[c] \in Deleting => ~known

HeardInv == Typed /\ Heard /\ Forgotten

(* What was said stays said while messages are only added. *)
LEMMA SaidStays ==
  ASSUME Typed, NEW r, NEW w, Said(r, w),
         talk' = talk \/ \E m \in (1..MaxRounds) \X (1..NSpeakers) : talk' = Append(talk, m)
  PROVE  Said(r, w)'
<1> talk \in Seq((1..MaxRounds) \X (1..NSpeakers))
  BY DEF Typed, TypeOK, StoreTyped
<1>1. PICK i \in 1..Len(talk) : talk[i] = <<r, w>>
  BY DEF Said
<1>2. i \in 1..Len(talk') /\ talk'[i] = talk[i]
  OBVIOUS
<1> QED
  BY <1>1, <1>2 DEF Said

(* A goroutine that does not move, or moves out of the debate, has heard   *)
(* what it had to.                                                         *)
LEMMA StillHears ==
  ASSUME Typed, NEW d \in Loops, Hears(d), UNCHANGED panel,
         talk' = talk \/ \E m \in (1..MaxRounds) \X (1..NSpeakers) : talk' = Append(talk, m),
         \/ pc'[d] \notin InRound \cup {"round"} \cup AfterRounds
         \/ /\ pc'[d] = pc[d] /\ round'[d] = round[d]
            /\ who'[d] = who[d] /\ size'[d] = size[d]
  PROVE  Hears(d)'
<1>1. \A r, w : Said(r, w) => Said(r, w)'
  BY SaidStays
<1>2. AllSaid => AllSaid'
  BY <1>1 DEF AllSaid
<1> QED
  BY <1>1, <1>2 DEF Hears

LEMMA HeardInit == Init => HeardInv
<1> SUFFICES ASSUME Init PROVE HeardInv
  OBVIOUS
<1>1. Typed
  BY TypedInit
<1>2. \A d \in Loops : pc[d] = "unborn"
  BY DebateAssumption DEF Init, Actors
<1>3. \A c \in Clients : pc[c] = "idle"
  BY DEF Init, Actors
<1>4. Heard
  BY <1>2 DEF Init, Heard, Hears, InRound, AfterRounds
<1>5. Forgotten
  BY <1>3 DEF Init, Forgotten, Deleting
<1> QED
  BY <1>1, <1>4, <1>5 DEF HeardInv

(* A step that neither speaks nor concludes and moves no goroutine inside  *)
(* the debate.                                                             *)
LEMMA HeardQuiet ==
  ASSUME HeardInv, known' => known /\ UNCHANGED <<panel, talk, consensus>>,
         \A d \in Loops :
           \/ pc'[d] \notin InRound \cup {"round"} \cup AfterRounds
           \/ /\ pc'[d] = pc[d] /\ round'[d] = round[d]
              /\ who'[d] = who[d] /\ size'[d] = size[d]
  PROVE  Heard'
<1> SUFFICES ASSUME known' PROVE Heard'
  BY DEF Heard
<1>1. \A d \in Loops : Hears(d)'
  BY StillHears DEF HeardInv, Heard
<1>2. AllSaid' = AllSaid
  BY DEF AllSaid, Said
<1> QED
  BY <1>1, <1>2 DEF HeardInv, Heard

LEMMA HeardClient ==
  ASSUME HeardInv, NEW c \in Clients, Ask(c) \/ ClientStep(c)
  PROVE  Heard'
<1> c \in Actors /\ c \notin Loops /\ Loops \subseteq Actors
  BY DebateAssumption DEF Actors
<1> USE DEF Ask, ClientStep, GetSession, Start, StartBegins, StartSpawns, Cancel, Delete,
            Unregister, DeleteRow, DeletePanel, DeleteTalk, DeleteVotes, ExecuteChecks,
            ExecuteRecords, Save, Refuse, Reads, CopiesStatus, Goto
<1>1. known' => known /\ UNCHANGED <<panel, talk, consensus>>
  BY DEF HeardInv, Forgotten, Deleting, session, store
<1>2. UNCHANGED <<round, who, size>>
  BY DEF locals, walk
<1>3. \A d \in Loops : pc'[d] = pc[d] \/ pc'[d] \in {"reserved", "born"}
  BY DEF HeardInv, Typed, TypeOK, ActorsTyped
<1> QED
  BY <1>1, <1>2, <1>3, HeardQuiet DEF InRound, AfterRounds

LEMMA HeardDies ==
  ASSUME HeardInv, Dies
  PROVE  Heard' /\ Forgotten'
BY DEF Dies, Heard, Forgotten

(* A request deletes rows, and a goroutine makes itself a session, only    *)
(* when the session is out of memory.                                      *)
LEMMA ForgottenNext ==
  ASSUME HeardInv, [Next]_vars
  PROVE  Forgotten'
<1> USE DEF HeardInv, Forgotten, Typed, TypeOK, ActorsTyped
<1>1. ASSUME NEW c \in Clients, Ask(c) \/ ClientStep(c) PROVE Forgotten'
  <2> USE <1>1 DEF Ask, ClientStep, GetSession, Start, StartBegins, StartSpawns, Cancel,
                   Delete, Unregister, DeleteRow, DeletePanel, DeleteTalk, DeleteVotes,
                   ExecuteChecks, ExecuteRecords, Save, Refuse, Reads, CopiesStatus, Goto
  <2> c \in Actors /\ Clients \subseteq Actors
    BY DEF Actors
  <2>1. (known' => known) /\ ghosts' = ghosts
    BY DEF session, locals
  <2>2. \A b \in Clients \ {c} : pc'[b] = pc[b] \/ pc'[b] \notin Deleting
    BY DEF Deleting
  <2>3. pc'[c] \in Deleting => ~known'
    BY DEF Deleting, Rest, HasSession, session
  <2> QED
    BY <2>1, <2>2, <2>3
<1>2. ASSUME NEW d \in Loops, LoopStep(d), ~Panic(d) PROVE Forgotten'
  <2> USE <1>2 DEF LoopStep, LoopGets, LoopHas, LoopExecutes, LoopPanel, LoopTooFew,
                   LoopCancelled, LoopRound, LoopSpeak, LoopSay, LoopVoting, LoopVote,
                   LoopBallot, LoopTally, LoopComplete, LoopSave, ExecuteChecks,
                   ExecuteRecords, Save, SetStatus, Reads, CopiesStatus, Goto
  <2> \A c \in Clients : c # d /\ c \in Actors
    BY DebateAssumption DEF Actors
  <2>1. known' = known
    BY DEF session
  <2>2. ghosts' = ghosts \/ ~known
    BY DEF locals
  <2>3. \A c \in Clients : pc'[c] = pc[c]
    BY DEF locals
  <2> QED
    BY <2>1, <2>2, <2>3
<1>3. CASE UNCHANGED vars
  BY <1>3 DEF vars, session, locals
<1> QED
  BY <1>1, <1>2, <1>3, HeardDies DEF Next, Crash, Panic, LoopStep

LEMMA HeardLoop ==
  ASSUME HeardInv, NEW d \in Loops, LoopStep(d), ~Panic(d)
  PROVE  Heard'
<1> d \in Actors /\ Loops \subseteq Actors
  BY DEF Actors
<1> USE DEF Goto
<1>t. /\ pc \in [Actors -> LoopPcs \cup ClientPcs]
      /\ round \in [Loops -> 1..(MaxRounds + 1)]
      /\ who \in [Loops -> 1..(NSpeakers + 1)]
      /\ size \in [Loops -> 0..NSpeakers]
      /\ panel \in 0..NSpeakers
      /\ NSpeakers \in Nat /\ MaxRounds \in Nat
  BY DebateAssumption DEF HeardInv, Typed, TypeOK, ActorsTyped, StoreTyped
<1>m. ASSUME known' PROVE known
  BY <1>m DEF LoopStep, LoopGets, LoopHas, LoopExecutes, LoopPanel, LoopTooFew,
       LoopCancelled, LoopRound, LoopSpeak, LoopSay, LoopVoting, LoopVote,
       LoopBallot, LoopTally, LoopComplete, LoopSave, ExecuteChecks,
       ExecuteRecords, Save, SetStatus, Reads, CopiesStatus, session
<1> SUFFICES ASSUME known' PROVE (\A e \in Loops : Hears(e)') /\ (consensus' # NoConsensus => AllSaid')
  BY DEF Heard
<1>h. /\ known /\ ghosts = {}
      /\ \A e \in Loops : Hears(e)
      /\ consensus # NoConsensus => AllSaid
  BY <1>m DEF HeardInv, Heard, Forgotten
<1>1. ASSUME \/ LoopGets(d) \/ LoopHas(d) \/ LoopExecutes(d) \/ LoopTooFew(d)
             \/ LoopCancelled(d) \/ ExecuteChecks(d) \/ ExecuteRecords(d) \/ Save(d)
      PROVE  Heard'
  <2> USE <1>1 DEF LoopGets, LoopHas, LoopExecutes, LoopTooFew, LoopCancelled,
                   ExecuteChecks, ExecuteRecords, Save, SetStatus, Reads, CopiesStatus
  <2>1. UNCHANGED <<panel, talk, consensus, round, who, size>>
    BY DEF session, store, locals, walk
  <2>2. \A e \in Loops : pc'[e] = pc[e] \/ pc'[e] \in {"panel", "check", "done", "save", "record"}
    BY <1>t, DebateAssumption DEF Rest, Actors
  <2> QED
    BY <2>1, <2>2, <1>m, HeardQuiet DEF InRound, AfterRounds
<1>2. ASSUME \/ LoopVoting(d) \/ LoopVote(d) \/ LoopBallot(d) \/ LoopTally(d)
             \/ LoopComplete(d) \/ LoopSave(d) \/ LoopPanel(d) \/ LoopRound(d)
             \/ LoopSpeak(d)
      PROVE  (\A e \in Loops : Hears(e)') /\ (consensus' # NoConsensus => AllSaid')
  <2> USE <1>2 DEF LoopVoting, LoopVote, LoopBallot, LoopTally, LoopComplete, LoopSave,
                   LoopPanel, LoopRound, LoopSpeak, SetStatus
  <2>1. UNCHANGED <<panel, talk>>
    BY DEF store
  <2>2. (\A r, w : Said(r, w)' = Said(r, w)) /\ AllSaid' = AllSaid
    BY <2>1 DEF Said, AllSaid
  <2>3. \A e \in Loops \ {d} : /\ pc'[e] = pc[e] /\ round'[e] = round[e]
                               /\ who'[e] = who[e] /\ size'[e] = size[e]
    BY <1>t DEF locals, walk
  <2>4. \A e \in Loops \ {d} : Hears(e)'
    BY <2>1, <2>2, <2>3, <1>h DEF Hears
  <2>5. Hears(d)'
    <3>1. CASE LoopPanel(d)
      <4>1. pc'[d] \in {"too_few", "round"} /\ round'[d] = 1 /\ size'[d] = panel'
        BY <1>t, <2>1, <3>1
      <4>2. 1..(round'[d] - 1) = {}
        BY <4>1
      <4> QED
        BY <4>1, <4>2 DEF Hears, InRound, AfterRounds
    <3>2. CASE LoopRound(d)
      <4>1. Hears(d) /\ pc[d] = "round" /\ size'[d] = size[d] /\ round'[d] = round[d]
        BY <1>h, <3>2 DEF locals, walk
      <4>2. CASE pc'[d] = "save_round"
        <5>1. who'[d] = 1
          BY <1>t, <3>2, <4>2
        <5>2. 1..(who'[d] - 1) = {}
          BY <5>1
        <5> QED
          BY <2>1, <2>2, <4>1, <4>2, <5>1, <5>2 DEF Hears, InRound, AfterRounds
      <4>3. CASE pc'[d] = "voting"
        <5>1. round[d] > MaxRounds
          BY <1>h, <1>t, <3>2, <4>3 DEF SetStatus
        <5>2. 1..MaxRounds \subseteq 1..(round[d] - 1)
          BY <1>t, <5>1
        <5>3. AllSaid
          BY <4>1, <5>2 DEF Hears, AllSaid
        <5> QED
          BY <2>2, <4>3, <5>3 DEF Hears, InRound, AfterRounds
      <4> QED
        BY <1>t, <1>h, <3>2, <4>2, <4>3
    <3>3. CASE LoopSpeak(d)
      <4>1. Hears(d) /\ pc[d] = "speak" /\ size'[d] = size[d] /\ who'[d] = who[d]
        BY <1>h, <3>3 DEF locals, walk
      <4>2. CASE pc'[d] = "say"
        <5>1. round'[d] = round[d]
          BY <1>t, <3>3, <4>2 DEF walk
        <5> QED
          BY <2>1, <2>2, <4>1, <4>2, <5>1 DEF Hears, InRound, AfterRounds
      <4>3. CASE pc'[d] = "round"
        <5>1. who[d] > size[d] /\ round'[d] = round[d] + 1
          BY <1>t, <3>3, <4>3
        <5>2. 1..panel \subseteq 1..(who[d] - 1)
          BY <1>t, <4>1, <5>1 DEF Hears, InRound
        <5>3. \A r \in 1..(round'[d] - 1) : r = round[d] \/ r \in 1..(round[d] - 1)
          BY <1>t, <5>1
        <5> QED
          BY <2>1, <2>2, <4>1, <4>3, <5>2, <5>3 DEF Hears, InRound, AfterRounds
      <4> QED
        BY <1>t, <3>3, <4>2, <4>3
    <3>4. CASE LoopVoting(d) \/ LoopVote(d) \/ LoopBallot(d) \/ LoopTally(d) \/ LoopComplete(d)
      <4>1. pc[d] \in AfterRounds
        BY <3>4 DEF AfterRounds
      <4>2. pc'[d] \notin InRound \cup {"round"}
        BY <1>t, <3>4 DEF InRound
      <4> QED
        BY <1>h, <2>2, <4>1, <4>2 DEF Hears, InRound
    <3>5. CASE LoopSave(d)
      <4>1. /\ pc[d] = "save_round" => pc'[d] = "speak"
            /\ pc[d] = "save_voting" => pc'[d] = "vote"
            /\ pc[d] = "save_end" => pc'[d] \in {"execute", "done"}
            /\ pc[d] \in {"save_round", "save_voting", "save_end"}
        BY <1>t, <3>5 DEF Saving
      <4>2. UNCHANGED <<round, who, size>>
        BY <3>5 DEF locals, walk
      <4> QED
        BY <1>h, <2>1, <2>2, <4>1, <4>2 DEF Hears, InRound, AfterRounds
    <3> QED
      BY <1>2, <3>1, <3>2, <3>3, <3>4, <3>5
  <2>6. consensus' # NoConsensus => AllSaid'
    BY <2>2, <1>h DEF Hears, AfterRounds, session
  <2> QED
    BY <2>4, <2>5, <2>6
<1>3. ASSUME LoopSay(d)
      PROVE  (\A e \in Loops : Hears(e)') /\ (consensus' # NoConsensus => AllSaid')
  <2> USE <1>3 DEF LoopSay
  <2>1. <<round[d], who[d]>> \in (1..MaxRounds) \X (1..NSpeakers)
    <3>1. round[d] \in 1..MaxRounds /\ who[d] \in 1..NSpeakers
      BY <1>t DEF HeardInv, Typed, Walks, InRound
    <3> QED
      BY <3>1
  <2>2. panel' = panel /\ consensus' = consensus
    BY DEF session
  <2>3. /\ \A r, w : Said(r, w) => Said(r, w)'
        /\ AllSaid => AllSaid'
    BY <2>1, <2>2, SaidStays DEF HeardInv, AllSaid
  <2>4. \A e \in Loops \ {d} : Hears(e)'
    <3>1. \A e \in Loops \ {d} : /\ pc'[e] = pc[e] /\ round'[e] = round[e]
                                 /\ who'[e] = who[e] /\ size'[e] = size[e]
      BY <1>t
    <3> QED
      BY <1>h, <2>2, <2>3, <3>1 DEF Hears
  <2>5. \A r, w : r = round[d] /\ w = who[d] => Said(r, w)'
    <3>1. talk \in Seq((1..MaxRounds) \X (1..NSpeakers))
      BY DEF HeardInv, Typed, TypeOK, StoreTyped
    <3>2. Len(talk') \in 1..Len(talk') /\ talk'[Len(talk')] = <<round[d], who[d]>>
      BY <2>1, <3>1
    <3> QED
      BY <3>2 DEF Said
  <2>6. Hears(d)'
    <3>1. /\ pc'[d] = "speak" /\ pc[d] = "say" /\ size'[d] = size[d]
          /\ who'[d] = who[d] + 1 /\ round'[d] = round[d]
      BY <1>t
    <3>2. \A w \in 1..(who'[d] - 1) : w = who[d] \/ w \in 1..(who[d] - 1)
      BY <1>t, <3>1
    <3>3. Hears(d)
      BY <1>h
    <3>4. \A r, w : r = round'[d] /\ w \in 1..(who'[d] - 1) => Said(r, w)'
      BY <2>3, <2>5, <3>1, <3>2, <3>3 DEF Hears, InRound
    <3>5. \A r \in 1..(round'[d] - 1), w \in 1..panel' : Said(r, w)'
      BY <2>2, <2>3, <3>1, <3>3 DEF Hears, InRound
    <3> QED
      BY <2>2, <3>1, <3>3, <3>4, <3>5 DEF Hears, InRound, AfterRounds
  <2> QED
    BY <1>h, <2>2, <2>3, <2>4, <2>6
<1> QED
  BY <1>1, <1>2, <1>3 DEF LoopStep, Heard

LEMMA HeardNext == HeardInv /\ [Next]_vars => HeardInv'
<1> SUFFICES ASSUME HeardInv, [Next]_vars PROVE HeardInv'
  OBVIOUS
<1>1. Typed' /\ Forgotten'
  BY TypedNext, ForgottenNext DEF HeardInv
<1>2. Heard'
  <2>1. CASE UNCHANGED vars
    BY <2>1 DEF vars, session, store, locals, walk, HeardInv, Heard, Hears, AllSaid, Said
  <2>2. CASE Next
    BY <2>2, HeardClient, HeardLoop, HeardDies DEF Next, Crash, Panic, LoopStep
  <2> QED
    BY <2>1, <2>2
<1> QED
  BY <1>1, <1>2 DEF HeardInv

(* A consensus is reached after every participant spoke in every round     *)
(* (debate_loop.go:33-64), for any numbers of clients, goroutines,         *)
(* participants and rounds, and whatever is started, cancelled, deleted    *)
(* and crashes meanwhile.                                                  *)
THEOREM FullDebate == Spec => []ConsensusHeardAll
<1>1. HeardInv => ConsensusHeardAll
  BY DEF HeardInv, Heard, AllSaid, ConsensusHeardAll
<1> QED
  BY <1>1, HeardInit, HeardNext, PTL DEF Spec


-----------------------------------------------------------------------------
(* One client at a time.  A debate is then begun once: as long as none is, *)
(* the session and its row are pending, and a status read from the row is  *)
(* pending only as long as none is; whoever is about to save has a later   *)
(* one in hand.                                                            *)
OneClient == \E c : Clients = {c}

Begun   == {d \in Loops : pc[d] # "unborn"}
Reading == {"start", "cancel", "delete", "execute", "read", "born"}

BegunOnce ==
  known =>
    /\ Begun = {} => /\ meta = "pending" /\ row = "pending"
                     /\ \A c \in Clients : /\ pc[c] \notin {"spawn", "record", "save"}
                                           /\ hand[c] \in {NoRow, "pending"}
    /\ Begun # {} => /\ meta # "pending"
                     /\ row = "pending" => \E c \in Clients : pc[c] = "spawn"
    /\ \A d, e \in Begun : d = e

SpawnsReserved ==
  \A c \in Clients :
    /\ pc[c] \in {"starting", "spawn"} => known
    /\ pc[c] = "spawn" => /\ hand[c] = "running"
                          /\ \A d \in Begun : d = job[c] /\ pc[d] = "reserved"

HandsAreLate ==
  /\ \A a \in Actors : hand[a] = "pending" =>
       /\ mu = a /\ pc[a] \in Reading
       /\ known => Begun = {}
  /\ \A a \in Actors : pc[a] = "record" => meta # "pending"

(* Where the one goroutine is says how long the talk is.                   *)
Early == {"reserved", "born", "panel", "too_few"}

TalkInv ==
  known =>
    /\ Begun = {} => talk = <<>>
    /\ \A d \in Begun :
         /\ pc[d] \in Early => talk = <<>>
         /\ pc[d] = "round" => Len(talk) = (round[d] - 1) * panel
         /\ pc[d] \in InRound => Len(talk) = (round[d] - 1) * panel + (who[d] - 1)
    /\ SpeechesInTurn

OrderInv == HeardInv /\ BegunOnce /\ SpawnsReserved /\ HandsAreLate /\ TalkInv

LEMMA OrderBegins == Init => OrderInv
<1> SUFFICES ASSUME Init PROVE OrderInv
  OBVIOUS
<1>1. Begun = {}
  BY DebateAssumption DEF Init, Begun, Actors
<1>2. /\ known /\ meta = "pending" /\ row = "pending" /\ talk = <<>>
      /\ \A a \in Actors : hand[a] = NoRow /\ pc[a] \in {"idle", "unborn"}
      /\ \A c \in Clients : pc[c] = "idle" /\ hand[c] = NoRow
  BY DEF Init, Actors
<1>3. BegunOnce /\ SpawnsReserved /\ HandsAreLate
  BY <1>1, <1>2 DEF BegunOnce, SpawnsReserved, HandsAreLate, NoRow
<1>4. SpeechesInTurn
  BY <1>2 DEF SpeechesInTurn
<1> QED BY <1>1, <1>2, <1>3, <1>4, HeardInit DEF OrderInv, TalkInv

(* A step that leaves the talk and the walks alone, and no goroutine in    *)
(* the debate that was not in the same place of it.                        *)
LEMMA TalkStays ==
  ASSUME TalkInv, known' => known /\ UNCHANGED <<panel, talk>>, UNCHANGED <<round, who>>,
         Begun' = Begun,
         \A d \in Loops : /\ pc'[d] \in Early => pc[d] \in Early
                          /\ pc'[d] = "round" => pc[d] = "round"
                          /\ pc'[d] \in InRound => pc[d] \in InRound
  PROVE  TalkInv'
<1> SUFFICES ASSUME known'
             PROVE  /\ Begun = {} => talk = <<>>
                    /\ \A d \in Begun :
                         /\ pc'[d] \in Early => talk = <<>>
                         /\ pc'[d] = "round" => Len(talk) = (round[d] - 1) * panel
                         /\ pc'[d] \in InRound => Len(talk) = (round[d] - 1) * panel + (who[d] - 1)
                    /\ SpeechesInTurn
  BY DEF TalkInv, SpeechesInTurn
<1>1. \A d \in Begun : d \in Loops
  BY DEF Begun
<1> QED BY <1>1 DEF TalkInv

LEMMA OrderClient ==
  ASSUME OneClient, OrderInv, NEW c \in Clients, Ask(c) \/ ClientStep(c)
  PROVE  BegunOnce' /\ SpawnsReserved' /\ HandsAreLate' /\ TalkInv'
<1> USE DEF Goto
<1>a. /\ c \in Actors /\ c \notin Loops /\ Loops \subseteq Actors
      /\ Clients = {c} /\ Actors = {c} \cup Loops /\ Nobody \notin Actors
  BY DebateAssumption DEF Actors, OneClient
<1>t. /\ pc \in [Actors -> LoopPcs \cup ClientPcs] /\ hand \in [Actors -> Statuses \cup {NoRow}]
      /\ job \in [Clients -> Loops \cup {NoLoop}]
      /\ mu \in Actors \cup {Nobody} /\ known \in BOOLEAN /\ meta \in Statuses
      /\ row \in Statuses \cup {NoRow} /\ NoRow \notin Statuses
  BY DEF OrderInv, HeardInv, Typed, TypeOK, SessionTyped, StoreTyped, ActorsTyped, NoRow, Statuses
<1>k. known' => known /\ UNCHANGED <<panel, talk, consensus>>
  BY DEF OrderInv, HeardInv, Forgotten, Deleting, session, store, Ask, ClientStep, GetSession, Start,
         StartBegins, StartSpawns, Cancel, Delete, Unregister, DeleteRow, DeletePanel, DeleteTalk,
         DeleteVotes, ExecuteChecks, ExecuteRecords, Save, Refuse, Reads, CopiesStatus
<1>w. UNCHANGED <<round, who>>
  BY DEF locals, walk, Ask, ClientStep, GetSession, Start,
         StartBegins, StartSpawns, Cancel, Delete, Unregister, DeleteRow, DeletePanel, DeleteTalk,
         DeleteVotes, ExecuteChecks, ExecuteRecords, Save, Refuse, Reads, CopiesStatus
(* What begins or spawns no goroutine.                                     *)
<1>1. ASSUME \A d \in Loops : pc'[d] = pc[d]
      PROVE  Begun' = Begun /\ TalkInv'
  <2>1. Begun' = Begun
    BY <1>1 DEF Begun
  <2> QED BY <1>1, <1>k, <1>w, <2>1, TalkStays DEF OrderInv
<1>2. CASE Ask(c)
  <2>1. /\ pc[c] = "idle" /\ pc'[c] \in {"start", "cancel", "delete", "execute", "read"}
        /\ \A d \in Loops : pc'[d] = pc[d]
        /\ mu = Nobody /\ mu' = c /\ hand' = [hand EXCEPT ![c] = row]
        /\ UNCHANGED <<known, meta, row, job>>
    BY <1>2, <1>a, <1>t DEF Ask, Reads, HasSession, session, store
  <2>2. Begun' = Begun /\ TalkInv'
    BY <1>1, <2>1
  <2>3. known /\ row = "pending" => Begun = {}
    BY <1>a, <2>1 DEF OrderInv, BegunOnce
  <2>4. HandsAreLate'
    BY <1>a, <1>t, <2>1, <2>2, <2>3 DEF OrderInv, HandsAreLate, Reading
  <2> QED BY <1>a, <2>1, <2>2, <2>4 DEF OrderInv, BegunOnce, SpawnsReserved
<1>3. CASE GetSession(c)
  <2>1. /\ pc[c] \in {"start", "cancel", "delete", "execute", "read"} /\ pc'[c] \notin {"spawn", "record", "save"}
        /\ \A d \in Loops : pc'[d] = pc[d]
        /\ mu = c /\ mu' = Nobody /\ hand' = [hand EXCEPT ![c] = NoRow]
        /\ meta' = IF known /\ hand[c] # NoRow THEN hand[c] ELSE meta
        /\ UNCHANGED <<known, row, job>>
        /\ pc'[c] = "starting" => known
    BY <1>3, <1>a, <1>t DEF GetSession, CopiesStatus, HasSession, MadeUp, store
  <2>2. Begun' = Begun /\ TalkInv'
    BY <1>1, <2>1
  <2>3. known /\ Begun # {} => meta' # "pending"
    BY <1>a, <1>t, <2>1 DEF OrderInv, BegunOnce, HandsAreLate
  <2>4. HandsAreLate'
    BY <1>a, <1>t, <2>1, <2>2, <2>3 DEF OrderInv, HandsAreLate, Begun, NoRow
  <2>5. known /\ Begun = {} => meta' = "pending" /\ hand'[c] = NoRow
    <3>1. known /\ Begun = {} => meta = "pending" /\ hand[c] \in {NoRow, "pending"}
      BY <1>a DEF OrderInv, BegunOnce
    <3>2. hand'[c] = NoRow
      BY <1>a, <1>t, <2>1
    <3> QED BY <2>1, <3>1, <3>2
  <2>6. BegunOnce'
    <3>1. known' = known /\ row' = row
      BY <2>1
    <3>2. known /\ Begun = {} => row = "pending"
      BY DEF OrderInv, BegunOnce
    <3>3. known /\ Begun # {} /\ row = "pending" => pc[c] = "spawn"
      BY <1>a DEF OrderInv, BegunOnce
    <3>4. known => \A d, e \in Begun : d = e
      BY DEF OrderInv, BegunOnce
    <3> QED BY <1>a, <2>1, <2>2, <2>3, <2>5, <3>1, <3>2, <3>3, <3>4 DEF BegunOnce
  <2>7. SpawnsReserved'
    <3>1. pc'[c] # "spawn" /\ (pc'[c] = "starting" => known')
      BY <2>1
    <3> QED BY <1>a, <3>1 DEF SpawnsReserved
  <2> QED BY <2>2, <2>4, <2>6, <2>7
(* A step of the client that neither reads nor begins.                     *)
<1>4. ASSUME \A d \in Loops : pc'[d] = pc[d] /\ hand'[d] = hand[d],
             pc[c] \notin Reading \cup {"spawn"}, pc'[c] \notin {"starting", "spawn"},
             mu' = mu, known' => known,
             hand'[c] # "pending",
             known /\ Begun = {} => /\ pc'[c] \notin {"record", "save"} /\ hand'[c] = NoRow
                                    /\ meta' = meta /\ row' = row,
             meta' = meta \/ meta' # "pending",
             row' = row \/ row' # "pending",
             pc'[c] = "record" => meta # "pending"
      PROVE  BegunOnce' /\ SpawnsReserved' /\ HandsAreLate' /\ TalkInv'
  <2>1. Begun' = Begun /\ TalkInv'
    BY <1>1, <1>4
  <2>2. BegunOnce'
    BY <1>a, <1>4, <2>1 DEF OrderInv, BegunOnce
  <2>3. SpawnsReserved'
    BY <1>a, <1>4 DEF SpawnsReserved
  <2>4. HandsAreLate'
    BY <1>a, <1>4, <2>1 DEF OrderInv, HandsAreLate
  <2> QED BY <2>1, <2>2, <2>3, <2>4
<1>5. pc[c] \notin Reading => hand[c] # "pending"
  BY <1>a DEF OrderInv, HandsAreLate
<1>6. known /\ Begun = {} => /\ meta = "pending" /\ row = "pending" /\ pc[c] \notin {"spawn", "record", "save"}
                             /\ hand[c] \in {NoRow, "pending"}
  BY <1>a DEF OrderInv, BegunOnce
<1>7. CASE Refuse(c, "starting") \/ Refuse(c, "cancelling") \/ Refuse(c, "deleting")
  <2>1. /\ pc[c] \in {"starting", "cancelling", "deleting"} /\ pc'[c] = "idle"
        /\ \A d \in Loops : pc'[d] = pc[d]
        /\ UNCHANGED <<mu, known, meta, row, hand>>
    BY <1>7, <1>a, <1>t DEF Refuse, session, store
  <2> QED BY <1>4, <1>5, <1>6, <2>1 DEF Reading
<1>8. CASE Cancel(c) /\ ~ Refuse(c, "cancelling")
  <2>1. /\ pc[c] = "cancelling" /\ meta \in Active /\ meta' = "cancelled" /\ pc'[c] = "save"
        /\ \A d \in Loops : pc'[d] = pc[d] /\ hand'[d] = hand[d]
        /\ hand'[c] = "cancelled"
        /\ UNCHANGED <<mu, known, row>>
    BY <1>8, <1>a, <1>t DEF Cancel, store
  <2> QED BY <1>4, <1>5, <1>6, <2>1 DEF Reading, Active
<1>9. CASE (Delete(c) /\ ~ Refuse(c, "deleting")) \/ Unregister(c)
  <2>1. /\ pc[c] \in {"deleting", "unregister"} /\ pc'[c] \in {"unregister", "delete_row"}
        /\ \A d \in Loops : pc'[d] = pc[d]
        /\ UNCHANGED <<mu, meta, row, hand>> /\ (known' => known)
    BY <1>9, <1>a, <1>t DEF Delete, Unregister, session, store
  <2> QED BY <1>4, <1>5, <1>6, <2>1 DEF Reading
<1>10. CASE DeleteRow(c) \/ DeletePanel(c) \/ DeleteTalk(c) \/ DeleteVotes(c)
  <2>1. /\ pc[c] \in Deleting /\ pc'[c] \in Deleting \cup {"idle"}
        /\ \A d \in Loops : pc'[d] = pc[d]
        /\ UNCHANGED <<mu, known, meta, hand>> /\ row' \in {row, NoRow}
    BY <1>10, <1>a, <1>t DEF DeleteRow, DeletePanel, DeleteTalk, DeleteVotes, Deleting, session
  <2>2. ~ known
    BY <2>1 DEF OrderInv, HeardInv, Forgotten
  <2> QED BY <1>4, <1>5, <2>1, <2>2 DEF Reading, Deleting, NoRow
<1>11. CASE ExecuteChecks(c) \/ ExecuteRecords(c) \/ Save(c)
  <2>1. /\ pc[c] \in {"check", "record", "save"} /\ pc'[c] \in {"record", "save", "idle"}
        /\ pc[c] = "check" => /\ hand'[c] = hand[c] /\ row' = row
                              /\ pc'[c] \in {"idle", "record"}
                              /\ pc'[c] = "record" => meta = "completed"
        /\ pc[c] = "record" => (hand'[c] = meta /\ row' = row /\ pc'[c] = "save")
        /\ pc[c] = "save" => (hand'[c] = NoRow /\ row' = hand[c] /\ pc'[c] = "idle")
        /\ \A d \in Loops : pc'[d] = pc[d] /\ hand'[d] = hand[d]
        /\ UNCHANGED <<mu, known, meta>>
    BY <1>11, <1>a, <1>t DEF ExecuteChecks, ExecuteRecords, Save, Rest, session, store
  <2>2. pc[c] = "record" => meta # "pending"
    BY <1>a DEF OrderInv, HandsAreLate
  <2>3. pc[c] \notin Reading \cup {"spawn"} /\ pc'[c] \notin {"starting", "spawn"}
    BY <2>1 DEF Reading
  <2>4. hand'[c] # "pending"
    BY <1>5, <2>1, <2>2, <2>3 DEF NoRow
  <2>5. known /\ Begun = {} => pc[c] = "check" /\ meta = "pending"
    BY <1>6, <2>1
  <2>6. known /\ Begun = {} => /\ pc'[c] \notin {"record", "save"} /\ hand'[c] = NoRow
                               /\ meta' = meta /\ row' = row
    BY <1>5, <1>6, <2>1, <2>3, <2>5
  <2>7. row' = row \/ row' # "pending"
    BY <1>5, <2>1, <2>3
  <2>8. pc'[c] = "record" => meta # "pending"
    BY <2>1
  <2> QED BY <1>4, <2>1, <2>3, <2>4, <2>6, <2>7, <2>8
(* The one goroutine begins ...                                            *)
<1>12. ASSUME NEW d \in Loops, StartBegins(c, d), meta = "pending"
       PROVE  BegunOnce' /\ SpawnsReserved' /\ HandsAreLate' /\ TalkInv'
  <2>1. /\ pc[c] = "starting" /\ pc'[c] = "spawn" /\ pc'[d] = "reserved" /\ meta' = "running"
        /\ \A e \in Loops : e # d => pc'[e] = pc[e]
        /\ \A e \in Loops : hand'[e] = hand[e]
        /\ hand'[c] = "running" /\ job'[c] = d
        /\ UNCHANGED <<mu, known, row>>
    BY <1>12, <1>a, <1>t DEF StartBegins, store
  <2>2. known /\ Begun = {}
    BY <1>12, <2>1 DEF OrderInv, BegunOnce, SpawnsReserved
  <2>3. Begun' = {d}
    BY <2>1, <2>2 DEF Begun
  <2>4. talk' = <<>> /\ SpeechesInTurn'
    BY <1>k, <2>1, <2>2 DEF OrderInv, TalkInv, SpeechesInTurn
  <2>5. TalkInv'
    BY <2>1, <2>3, <2>4 DEF TalkInv, InRound
  <2>6. \A e \in Loops : hand[e] # "pending" /\ pc[e] = "unborn"
    BY <1>a, <2>2 DEF OrderInv, HandsAreLate, Reading, Begun
  <2>7. HandsAreLate'
    BY <1>a, <2>1, <2>6 DEF HandsAreLate
  <2> QED BY <1>a, <2>1, <2>2, <2>3, <2>5, <2>7 DEF BegunOnce, SpawnsReserved
(* ... and is spawned.                                                     *)
<1>13. CASE StartSpawns(c)
  <2>1. /\ pc[c] = "spawn" /\ hand[c] = "running" /\ known /\ Begun # {}
        /\ \A d \in Begun : d = job[c] /\ pc[d] = "reserved"
    BY <1>13 DEF StartSpawns, OrderInv, SpawnsReserved, BegunOnce
  <2>2. job[c] \in Loops /\ pc[job[c]] = "reserved" /\ Begun = {job[c]}
    BY <2>1 DEF Begun
  <2>3. /\ row' = "running" /\ pc'[c] = "idle" /\ pc'[job[c]] = "born"
        /\ \A e \in Loops : e # job[c] => pc'[e] = pc[e]
        /\ \A e \in Loops : hand'[e] = hand[e]
        /\ hand'[c] = NoRow
        /\ UNCHANGED <<mu, known, meta>>
    BY <1>13, <1>a, <1>t, <2>1, <2>2 DEF StartSpawns, session
  <2>4. Begun' = Begun
    BY <2>2, <2>3 DEF Begun
  <2>5. TalkInv'
    BY <1>k, <1>w, <2>2, <2>3, <2>4, TalkStays DEF OrderInv, Early, InRound
  <2>6. HandsAreLate'
    BY <1>a, <2>2, <2>3, <2>4 DEF OrderInv, HandsAreLate, Reading, NoRow
  <2> QED BY <1>a, <2>1, <2>2, <2>3, <2>4, <2>5, <2>6 DEF OrderInv, BegunOnce, SpawnsReserved
<1> QED
  BY <1>2, <1>3, <1>7, <1>8, <1>9, <1>10, <1>11, <1>12, <1>13 DEF ClientStep, Start, Cancel, Delete

LEMMA OrderLoop ==
  ASSUME OneClient, OrderInv, NEW d \in Loops, LoopStep(d), ~Panic(d)
  PROVE  BegunOnce' /\ SpawnsReserved' /\ HandsAreLate' /\ known' = known /\ Begun' = Begun
<1> USE DEF Goto
<1>a. /\ d \in Actors /\ d \notin Clients /\ Loops \subseteq Actors /\ Clients \subseteq Actors
      /\ Actors = Clients \cup Loops /\ Nobody \notin Actors
  BY DebateAssumption DEF Actors
<1>t. /\ pc \in [Actors -> LoopPcs \cup ClientPcs] /\ hand \in [Actors -> Statuses \cup {NoRow}]
      /\ mu \in Actors \cup {Nobody} /\ known \in BOOLEAN /\ meta \in Statuses
      /\ row \in Statuses \cup {NoRow} /\ NoRow \notin Statuses
  BY DEF OrderInv, HeardInv, Typed, TypeOK, SessionTyped, StoreTyped, ActorsTyped, NoRow, Statuses
<1>1. pc[d] \notin {"unborn", "reserved", "done"} /\ d \in Begun
  BY DEF LoopStep, LoopGets, LoopHas, LoopExecutes, LoopPanel, LoopTooFew,
         LoopCancelled, LoopRound, LoopSpeak, LoopSay, LoopVoting, LoopVote, LoopBallot, LoopTally,
         LoopComplete, LoopSave, Saving, ExecuteChecks, ExecuteRecords, Save, Begun
(* The goroutine was spawned: the row is not pending, nor is the session.  *)
<1>2. /\ \A c \in Clients : pc[c] # "spawn"
      /\ known => meta # "pending" /\ row # "pending"
      /\ known => hand[d] # "pending"
      /\ known => \A e, f \in Begun : e = f
  BY <1>1, <1>a DEF OrderInv, BegunOnce, SpawnsReserved, HandsAreLate
<1>3. pc[d] \notin Reading => hand[d] # "pending"
  BY <1>a DEF OrderInv, HandsAreLate
(* What such a step has to do, and does.                                   *)
<1>4. ASSUME \A a \in Actors : a # d => pc'[a] = pc[a] /\ hand'[a] = hand[a],
             pc'[d] # "unborn", known' = known,
             mu' = mu \/ mu = Nobody \/ mu = d,
             known => meta' # "pending" /\ row' # "pending",
             meta' = meta \/ meta' # "pending",
             hand'[d] = "pending" => mu' = d /\ pc'[d] \in Reading /\ ~ known,
             pc'[d] = "record" => meta' # "pending"
      PROVE  BegunOnce' /\ SpawnsReserved' /\ HandsAreLate' /\ known' = known /\ Begun' = Begun
  <2>1. Begun' = Begun
    BY <1>1, <1>4, <1>a DEF Begun
  <2>2. BegunOnce'
    BY <1>1, <1>2, <1>4, <2>1 DEF BegunOnce
  <2>3. SpawnsReserved'
    BY <1>2, <1>4, <1>a DEF OrderInv, SpawnsReserved
  <2>4. ASSUME NEW a \in Actors, a # d, hand[a] = "pending" PROVE mu' = a
    BY <1>4, <1>a, <2>4 DEF OrderInv, HandsAreLate
  <2>5. HandsAreLate'
    BY <1>4, <1>a, <2>1, <2>4 DEF OrderInv, HandsAreLate
  <2> QED BY <1>4, <2>1, <2>2, <2>3, <2>5
<1>5. CASE LoopGets(d)
  <2>1. /\ pc' = pc /\ mu = Nobody /\ mu' = d /\ hand' = [hand EXCEPT ![d] = row]
        /\ UNCHANGED <<known, meta, row>> /\ pc[d] \in {"born", "execute"}
    BY <1>5 DEF LoopGets, Reads, session, store
  <2> QED BY <1>1, <1>2, <1>4, <1>a, <1>t, <2>1 DEF Reading
<1>6. CASE LoopHas(d) \/ LoopExecutes(d)
  <2>1. /\ mu = d /\ hand' = [hand EXCEPT ![d] = NoRow]
        /\ meta' = IF known /\ hand[d] # NoRow THEN hand[d] ELSE meta
        /\ UNCHANGED <<known, row>>
        /\ \A a \in Actors : a # d => pc'[a] = pc[a]
        /\ pc'[d] \in {"panel", "check", "done"}
    BY <1>6, <1>a, <1>t DEF LoopHas, LoopExecutes, CopiesStatus, store
  <2>2. \A a \in Actors : a # d => hand'[a] = hand[a]
    BY <1>t, <2>1
  <2>3. hand'[d] = NoRow
    BY <1>a, <1>t, <2>1
  <2> QED BY <1>2, <1>4, <2>1, <2>2, <2>3 DEF NoRow
<1>7. CASE LoopTooFew(d) \/ LoopRound(d) \/ LoopVoting(d)
  <2>1. /\ UNCHANGED <<known, row>>
        /\ \A a \in Actors : a # d => pc'[a] = pc[a] /\ hand'[a] = hand[a]
        /\ pc[d] \in {"too_few", "round", "voting"}
        /\ pc'[d] \in {"save", "done", "save_round", "speak", "voting", "save_voting", "vote"}
        /\ mu' = mu /\ meta' \in {meta, "cancelled", "voting"}
        /\ known => hand'[d] \in {hand[d], meta, "cancelled", "voting"}
        /\ ~ known => hand'[d] = hand[d]
    BY <1>7, <1>a, <1>t DEF LoopTooFew, LoopRound, LoopVoting, SetStatus, session, store
  <2>2. hand[d] # "pending"
    BY <1>3, <2>1 DEF Reading
  <2> QED BY <1>2, <1>4, <2>1, <2>2
<1>8. CASE \/ LoopPanel(d) \/ LoopCancelled(d) \/ LoopSpeak(d) \/ LoopSay(d) \/ LoopVote(d)
           \/ LoopBallot(d) \/ LoopTally(d)
  <2>1. /\ UNCHANGED <<mu, known, meta, row, hand>>
        /\ \A a \in Actors : a # d => pc'[a] = pc[a]
        /\ pc[d] \notin Reading /\ pc'[d] \notin {"unborn", "record"}
    BY <1>8, <1>a, <1>t DEF LoopPanel, LoopCancelled, LoopSpeak, LoopSay, LoopVote, LoopBallot, LoopTally,
                            session, store, Reading
  <2> QED BY <1>2, <1>3, <1>4, <2>1
<1>9. CASE LoopComplete(d)
  <2>1. /\ UNCHANGED <<mu, known, row>> /\ meta' \in {meta, "completed"}
        /\ \A a \in Actors : a # d => pc'[a] = pc[a] /\ hand'[a] = hand[a]
        /\ hand'[d] = "completed" /\ pc'[d] = "save_end"
    BY <1>9, <1>a, <1>t DEF LoopComplete, store
  <2> QED BY <1>2, <1>4, <2>1
<1>10. CASE LoopSave(d) \/ Save(d)
  <2>1. /\ UNCHANGED <<mu, known, meta>> /\ row' = hand[d]
        /\ \A a \in Actors : a # d => pc'[a] = pc[a] /\ hand'[a] = hand[a]
        /\ hand'[d] = NoRow /\ pc[d] \in {"save", "save_round", "save_voting", "save_end"}
        /\ pc'[d] \in {"speak", "vote", "execute", "done"}
    BY <1>10, <1>a, <1>t DEF LoopSave, Saving, Save, Rest, session
  <2>2. hand[d] # "pending"
    BY <1>3, <2>1 DEF Reading
  <2> QED BY <1>2, <1>4, <2>1, <2>2 DEF NoRow
<1>11. CASE ExecuteChecks(d)
  <2>1. /\ UNCHANGED <<mu, known, meta, row, hand>> /\ pc[d] = "check"
        /\ \A a \in Actors : a # d => pc'[a] = pc[a]
        /\ pc'[d] \in {"record", "done"} /\ (pc'[d] = "record" => meta = "completed")
    BY <1>11, <1>a, <1>t DEF ExecuteChecks, Rest, session, store
  <2> QED BY <1>2, <1>3, <1>4, <2>1 DEF Reading
<1>12. CASE ExecuteRecords(d)
  <2>1. /\ UNCHANGED <<mu, known, meta, row>> /\ pc[d] = "record"
        /\ \A a \in Actors : a # d => pc'[a] = pc[a] /\ hand'[a] = hand[a]
        /\ hand'[d] = meta /\ pc'[d] = "save"
    BY <1>12, <1>a, <1>t DEF ExecuteRecords, session, store
  <2>2. meta # "pending"
    BY <1>a, <2>1 DEF OrderInv, HandsAreLate
  <2> QED BY <1>2, <1>4, <2>1, <2>2
<1> QED BY <1>5, <1>6, <1>7, <1>8, <1>9, <1>10, <1>11, <1>12 DEF LoopStep

(* Whose turn it is after r rounds of p speakers and w speakers more.      *)
LEMMA TurnOf ==
  ASSUME NEW p \in Nat, p >= 1, NEW r \in Nat, NEW w \in 0..(p - 1)
  PROVE  (r * p + w) \div p = r /\ (r * p + w) % p = w
<1> DEFINE n == r * p + w
           q == n \div p
           m == n % p
<1>1. n \in Nat
  OBVIOUS
<1>2. q \in Int /\ m \in 0..(p - 1) /\ n = p * q + m
  <2> HIDE DEF n
  <2> QED BY <1>1
<1>3. r * p + w = p * q + m
  BY <1>2
<1> HIDE DEF n, q, m
<1>4. ~ (q < r)
  <2> SUFFICES ASSUME q < r PROVE FALSE
    OBVIOUS
  <2>1. PICK k \in Nat : r = q + 1 + k
    <3>1. r - q - 1 \in Nat /\ r = q + 1 + (r - q - 1)
      BY <1>2
    <3> QED BY <3>1
  <2>2. r * p = q * p + p + k * p /\ k * p \in Nat /\ q * p = p * q /\ p * q \in Int
    BY <1>2, <2>1
  <2>3. w + p + k * p = m
    BY <1>2, <1>3, <2>2
  <2> QED BY <1>2, <2>2, <2>3
<1>5. ~ (r < q)
  <2> SUFFICES ASSUME r < q PROVE FALSE
    OBVIOUS
  <2>1. PICK k \in Nat : q = r + 1 + k
    <3>1. q - r - 1 \in Nat /\ q = r + 1 + (q - r - 1)
      BY <1>2
    <3> QED BY <3>1
  <2>2. p * q = r * p + p + k * p /\ k * p \in Nat /\ r * p \in Nat
    BY <1>2, <2>1
  <2>3. w = p + k * p + m
    BY <1>2, <1>3, <2>2
  <2> QED BY <1>2, <2>2, <2>3
<1>6. q = r
  BY <1>2, <1>4, <1>5
<1>7. m = w
  <2>1. r * p = p * q /\ r * p \in Nat
    BY <1>6
  <2> QED BY <1>2, <1>3, <2>1
<1> QED BY <1>6, <1>7 DEF q, m, n

LEMMA TalkLoop ==
  ASSUME OneClient, OrderInv, NEW d \in Loops, LoopStep(d), ~Panic(d)
  PROVE  TalkInv'
<1> USE DEF Goto
<1>a. d \in Actors /\ Loops \subseteq Actors
  BY DEF Actors
<1>t. /\ pc \in [Actors -> LoopPcs \cup ClientPcs]
      /\ round \in [Loops -> 1..(MaxRounds + 1)]
      /\ who \in [Loops -> 1..(NSpeakers + 1)]
      /\ size \in [Loops -> 0..NSpeakers]
      /\ panel \in 0..NSpeakers
      /\ NSpeakers \in Nat /\ MaxRounds \in Nat
      /\ talk \in Seq((1..MaxRounds) \X (1..NSpeakers))
      /\ pc[d] \in {"say", "ballot"} => who[d] <= size[d]
      /\ who[d] <= size[d] + 1
  BY DebateAssumption DEF OrderInv, HeardInv, Typed, Walks, TypeOK, ActorsTyped, StoreTyped
<1>b. known' = known /\ Begun' = Begun
  BY OrderLoop
<1> SUFFICES ASSUME known PROVE TalkInv'
  BY <1>b DEF TalkInv
<1>k. /\ d \in Begun /\ Begun = {d}
      /\ pc[d] \in Early => talk = <<>>
      /\ pc[d] = "round" => Len(talk) = (round[d] - 1) * panel
      /\ pc[d] \in InRound => Len(talk) = (round[d] - 1) * panel + (who[d] - 1)
      /\ SpeechesInTurn
      /\ pc[d] \in InRound \cup {"round"} => size[d] = panel
  <2>1. d \in Begun
    BY DEF LoopStep, LoopGets, LoopHas, LoopExecutes, LoopPanel, LoopTooFew,
           LoopCancelled, LoopRound, LoopSpeak, LoopSay, LoopVoting, LoopVote, LoopBallot, LoopTally,
           LoopComplete, LoopSave, Saving, ExecuteChecks, ExecuteRecords, Save, Begun
  <2>2. Begun = {d}
    BY <2>1 DEF OrderInv, BegunOnce
  <2> QED BY <2>1, <2>2 DEF OrderInv, TalkInv, HeardInv, Heard, Hears
(* It is enough to follow the goroutine.                                   *)
<1>1. ASSUME panel' = panel,
             pc'[d] \in Early => talk' = <<>>,
             pc'[d] = "round" => Len(talk') = (round'[d] - 1) * panel,
             pc'[d] \in InRound => Len(talk') = (round'[d] - 1) * panel + (who'[d] - 1),
             SpeechesInTurn'
      PROVE  TalkInv'
  BY <1>1, <1>b, <1>k DEF TalkInv
<1>2. ASSUME UNCHANGED <<panel, talk>> PROVE SpeechesInTurn'
  BY <1>2, <1>k DEF SpeechesInTurn
<1>3. CASE \/ LoopGets(d) \/ LoopHas(d) \/ LoopExecutes(d) \/ LoopTooFew(d) \/ LoopCancelled(d)
           \/ ExecuteChecks(d) \/ ExecuteRecords(d) \/ Save(d) \/ LoopSave(d)
  <2>1. /\ UNCHANGED <<panel, talk, round, who>>
        /\ pc'[d] \in Early => pc[d] \in Early
        /\ pc'[d] # "round"
        /\ pc'[d] \in InRound => pc[d] \in InRound
    BY <1>3, <1>a, <1>t, DebateAssumption
       DEF LoopGets, LoopHas, LoopExecutes, LoopTooFew, LoopCancelled, ExecuteChecks, ExecuteRecords, Save,
           LoopSave, Saving, Rest, SetStatus, session, store, locals, walk, Early, InRound, Actors
  <2> QED BY <1>1, <1>2, <1>k, <2>1
<1>4. CASE LoopPanel(d)
  <2>1. /\ UNCHANGED <<panel, talk>> /\ talk = <<>> /\ round'[d] = 1
        /\ pc'[d] \in {"too_few", "round"}
    BY <1>4, <1>a, <1>t, <1>k DEF LoopPanel, store, Early
  <2>2. (round'[d] - 1) * panel = 0 /\ Len(talk) = 0
    BY <1>t, <2>1
  <2> QED BY <1>1, <1>2, <2>1, <2>2 DEF InRound
<1>5. CASE LoopRound(d)
  <2>1. /\ UNCHANGED <<panel, talk>> /\ pc[d] = "round" /\ round'[d] = round[d]
        /\ pc'[d] \in {"save_round", "voting"}
        /\ pc'[d] = "save_round" => who'[d] = 1
    BY <1>5, <1>a, <1>t DEF LoopRound, SetStatus, store, locals, walk
  <2>2. (round[d] - 1) * panel = (round[d] - 1) * panel + (1 - 1)
    BY <1>t, <1>k, <2>1
  <2> QED BY <1>1, <1>2, <1>k, <2>1, <2>2 DEF InRound, Early
<1>6. CASE LoopSpeak(d)
  <2>1. UNCHANGED <<panel, talk, who>> /\ pc[d] = "speak" /\ panel = size[d]
    BY <1>6, <1>k DEF LoopSpeak, store, walk, InRound
  <2>2. CASE who[d] > size[d]
    <3>1. pc'[d] = "round" /\ round'[d] = round[d] + 1
      BY <1>6, <1>a, <1>t, <2>2 DEF LoopSpeak
    <3>2. who[d] - 1 = panel
      BY <1>t, <2>1, <2>2
    <3>3. (round'[d] - 1) * panel = (round[d] - 1) * panel + panel
      BY <1>t, <3>1
    <3> QED BY <1>1, <1>2, <1>k, <2>1, <3>1, <3>2, <3>3 DEF InRound, Early
  <2>3. CASE ~ (who[d] > size[d])
    <3>1. pc'[d] = "say" /\ round'[d] = round[d]
      BY <1>6, <1>a, <1>t, <2>3 DEF LoopSpeak, walk
    <3> QED BY <1>1, <1>2, <1>k, <2>1, <3>1 DEF InRound, Early
  <2> QED BY <2>2, <2>3
<1>7. CASE LoopSay(d)
  <2>1. /\ panel' = panel /\ pc[d] = "say" /\ panel = size[d] /\ who[d] <= panel
        /\ talk' = Append(talk, <<round[d], who[d]>>)
        /\ who'[d] = who[d] + 1 /\ round'[d] = round[d] /\ pc'[d] = "speak"
    BY <1>7, <1>a, <1>t, <1>k DEF LoopSay, InRound
  <2> DEFINE r == round[d] - 1
             w == who[d] - 1
  <2>2. /\ r \in Nat /\ w \in 0..(panel - 1) /\ panel \in Nat /\ panel >= 1
        /\ round[d] = r + 1 /\ who[d] = w + 1
    BY <1>t, <2>1
  <2>3. /\ Len(talk) = r * panel + w /\ Len(talk) \in Nat /\ Len(talk') = Len(talk) + 1
        /\ talk'[Len(talk) + 1] = <<round[d], who[d]>>
        /\ \A i \in 1..Len(talk) : talk'[i] = talk[i]
    BY <1>t, <1>k, <2>1 DEF InRound
  <2> HIDE DEF r, w
  <2>4. (r * panel + w) \div panel = r /\ (r * panel + w) % panel = w
    BY <2>2, TurnOf
  <2>5. ASSUME NEW i \in 1..Len(talk')
        PROVE  talk'[i] = <<((i - 1) \div panel) + 1, ((i - 1) % panel) + 1>>
    <3>1. CASE i \in 1..Len(talk)
      BY <1>k, <2>3, <3>1 DEF SpeechesInTurn
    <3>2. CASE i = Len(talk) + 1
      <4>1. i - 1 = r * panel + w
        BY <2>3, <3>2
      <4>2. ((i - 1) \div panel) + 1 = round[d] /\ ((i - 1) % panel) + 1 = who[d]
        BY <2>2, <2>4, <4>1
      <4> QED BY <2>3, <3>2, <4>2
    <3> QED BY <2>3, <3>1, <3>2
  <2>6. SpeechesInTurn'
    BY <2>1, <2>5 DEF SpeechesInTurn
  <2>7. r * panel \in Nat
    BY <2>2
  <2>8. Len(talk') = r * panel + (who'[d] - 1)
    <3>1. who'[d] - 1 = w + 1 /\ w \in Nat
      BY <2>1, <2>2
    <3>2. Len(talk') = (r * panel + w) + 1
      BY <2>3
    <3> QED BY <2>7, <3>1, <3>2
  <2>9. (round'[d] - 1) * panel = r * panel
    BY <2>1 DEF r
  <2> QED BY <1>1, <2>1, <2>6, <2>8, <2>9 DEF InRound, Early
<1>8. CASE LoopVoting(d) \/ LoopVote(d) \/ LoopBallot(d) \/ LoopTally(d) \/ LoopComplete(d)
  <2>1. UNCHANGED <<panel, talk>> /\ pc'[d] \notin InRound \cup {"round"} \cup Early
    BY <1>8, <1>a, <1>t DEF LoopVoting, LoopVote, LoopBallot, LoopTally, LoopComplete, SetStatus, store,
                            InRound, Early
  <2> QED BY <1>1, <1>2, <2>1
<1> QED BY <1>3, <1>4, <1>5, <1>6, <1>7, <1>8 DEF LoopStep

LEMMA OrderDies ==
  ASSUME OrderInv, Dies
  PROVE  BegunOnce' /\ SpawnsReserved' /\ HandsAreLate' /\ TalkInv'
<1>1. /\ ~ known' /\ \A a \in Actors : hand'[a] = NoRow /\ pc'[a] \in {"idle", "unborn", "done"}
      /\ Clients \subseteq Actors
  BY DEF Dies, Actors
<1> QED BY <1>1 DEF BegunOnce, SpawnsReserved, HandsAreLate, TalkInv, NoRow

LEMMA OrderKept == OneClient /\ OrderInv /\ [Next]_vars => OrderInv'
<1> SUFFICES ASSUME OneClient, OrderInv, [Next]_vars PROVE OrderInv'
  OBVIOUS
<1>1. HeardInv'
  BY HeardNext DEF OrderInv
<1>2. BegunOnce' /\ SpawnsReserved' /\ HandsAreLate' /\ TalkInv'
  <2>1. ASSUME NEW c \in Clients, Ask(c) \/ ClientStep(c)
        PROVE  BegunOnce' /\ SpawnsReserved' /\ HandsAreLate' /\ TalkInv'
    BY <2>1, OrderClient
  <2>2. ASSUME NEW d \in Loops, LoopStep(d), ~ Panic(d)
        PROVE  BegunOnce' /\ SpawnsReserved' /\ HandsAreLate' /\ TalkInv'
    BY <2>2, OrderLoop, TalkLoop
  <2>3. ASSUME Dies PROVE BegunOnce' /\ SpawnsReserved' /\ HandsAreLate' /\ TalkInv'
    BY <2>3, OrderDies
  <2>4. CASE UNCHANGED vars
    BY <2>4 DEF vars, session, store, locals, walk, OrderInv, BegunOnce, SpawnsReserved, HandsAreLate,
                TalkInv, Begun, SpeechesInTurn
  <2> QED BY <2>1, <2>2, <2>3, <2>4 DEF Next, Crash, Panic
<1> QED BY <1>1, <1>2 DEF OrderInv

(* What is saved over a row is never a status from before the start.       *)
LEMMA NeverBack ==
  ASSUME OneClient, OrderInv, [Next]_vars
  PROVE  row # "pending" => row' # "pending"
<1>1. ASSUME NEW a \in Actors, hand[a] = "pending" PROVE pc[a] \in Reading
  BY <1>1 DEF OrderInv, HandsAreLate
<1>2. ASSUME NEW c \in Clients, Ask(c) \/ ClientStep(c) PROVE row # "pending" => row' # "pending"
  <2>1. c \in Actors
    BY DEF Actors
  <2>2. row' = row \/ row' = NoRow \/ (row' = hand[c] /\ pc[c] \in {"spawn", "save"})
    BY <1>2 DEF ClientStep, Ask, GetSession, Start, StartBegins, StartSpawns, Cancel, Delete,
            Unregister, DeleteRow, DeletePanel, DeleteTalk, DeleteVotes, ExecuteChecks, ExecuteRecords,
            Save, Refuse, store
  <2> QED BY <1>1, <2>1, <2>2 DEF Reading, NoRow
<1>3. ASSUME NEW d \in Loops, LoopStep(d), ~ Panic(d) PROVE row # "pending" => row' # "pending"
  <2>1. d \in Actors
    BY DEF Actors
  <2>2. row' = row \/ (row' = hand[d] /\ pc[d] \notin Reading)
    BY <1>3 DEF LoopStep, LoopGets, LoopHas, LoopExecutes, LoopPanel, LoopTooFew,
         LoopCancelled, LoopRound, LoopSpeak, LoopSay, LoopVoting, LoopVote, LoopBallot, LoopTally,
         LoopComplete, LoopSave, Saving, ExecuteChecks, ExecuteRecords, Save, SetStatus, store, Reading
  <2> QED BY <1>1, <2>1, <2>2
<1>4. ASSUME Dies \/ UNCHANGED vars PROVE row' = row
  BY <1>4 DEF Dies, vars, store
<1> QED BY <1>2, <1>3, <1>4 DEF Next, Crash, Panic

(* For one client at a time, and any numbers of goroutines, participants   *)
(* and rounds: participants speak in turn, once a round                    *)
(* (debate_loop.go:40), and a debate that was started is never pending     *)
(* again (engine.go:2), though getSession copies statuses from the row,    *)
(* everyone saves old copies, and the process may die.                     *)
THEOREM OneClientKeepsOrder == OneClient => (Spec => OneClientOrder)
<1> SUFFICES ASSUME OneClient PROVE Spec => OneClientOrder
  OBVIOUS
<1>1. Init => OrderInv
  BY OrderBegins
<1>2. OrderInv /\ [Next]_vars => OrderInv'
  BY OrderKept
<1>3. OrderInv => (known => SpeechesInTurn)
  BY DEF OrderInv, TalkInv
<1>4. OrderInv /\ [Next]_vars => [row # "pending" => row' # "pending"]_row
  BY NeverBack
<1>5. Spec => [](known => SpeechesInTurn)
  BY <1>1, <1>2, <1>3, PTL DEF Spec
<1>6. Spec => NeverPendingAgain
  BY <1>1, <1>2, <1>4, PTL DEF Spec, NeverPendingAgain
<1> QED BY <1>5, <1>6 DEF OneClientOrder
===============================================================================
