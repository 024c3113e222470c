---------------------------- MODULE TradingProofs ----------------------------
(***************************************************************************)
(* Proofs about what trades.  Of TraderLifecycle, for any sets of clients  *)
(* and runners: the safety properties that hold whatever the requests, the *)
(* read failures and the crashes.  Of BacktestRuns, for any sets of runs,  *)
(* users and clients and any length of the runs: types, and the books of a *)
(* run.  Of Venues, for any adapters, callers, amounts and leverages: an   *)
(* order goes out as it was asked for and comes back as it was executed,   *)
(* and a closing only closes.  At the end, the types of what MCTrading     *)
(* puts side by side: venues and a trader.                                 *)
(***************************************************************************)
EXTENDS MCTrading, BacktestRuns, FiniteSetTheorems, TLAPS

-----------------------------------------------------------------------------
(* The trader's row, its handlers and its runners.                         *)

(* What a handler knows of the runner it holds.  Between Engine.Stop's     *)
(* delete and its cancel the runner can no longer be found; after the      *)
(* cancel it stays cancelled.                                              *)
HandlerInv ==
  \A c \in Handlers :
    /\ pc[c] = "cancel" => registry # held[c]
    /\ pc[c] = "wgWait" => cancelled[held[c]]

(* Why NoCycleAfterStop is inductive: the awaited runner is cancelled, and *)
(* its loop stands before the check of its context, or past it.            *)
AwaitedInv ==
  \A r \in awaited : /\ cancelled[r]
                     /\ loop[r] \in {"ready", "top", "exiting", "done"}

RunnerInv ==
  /\ RegistryHasLiveLoop
  /\ RegisteredNotCancelled
  /\ HandlerInv
  /\ AwaitedInv

LEMMA TypeInit == Init => TypeOK
BY LifecycleAssumption DEF Init, TypeOK, Statuses, LoopPcs, SyncPcs, ClientPcs

(* What is overtaken are handlers. *)
LEMMA OvertakenTyped == Overtake => overtaken' \in SUBSET Handlers
BY DEF Overtake, Trying

(* The steps of the handlers keep the types. *)
LEMMA TypeHandler ==
  ASSUME TypeOK, Overtake, NEW c \in Handlers, Start(c) \/ Stop(c) \/ Handle(c)
  PROVE  TypeOK'
<1> USE OvertakenTyped DEF TypeOK, Statuses, LoopPcs, SyncPcs, ClientPcs, rowVars, runnerVars
<1>1. CASE Start(c)
  BY <1>1 DEF Start, Transition
<1>2. CASE Stop(c)
  BY <1>2 DEF Stop, Transition
<1>3. CASE EngineStart(c)
  BY <1>3 DEF EngineStart, Register, NewRunner
<1>4. CASE EngineStartRefused(c)
  BY <1>4 DEF EngineStartRefused
<1>5. CASE Spawn(c)
  BY <1>5 DEF Spawn
<1>6. CASE Rollback(c)
  BY <1>6 DEF Rollback
<1>7. CASE EngineStop(c)
  BY <1>7 DEF EngineStop
<1>8. CASE Cancel(c)
  BY <1>8 DEF Cancel
<1>9. CASE WaitReturns(c)
  BY <1>9 DEF WaitReturns
<1> QED
  BY <1>1, <1>2, <1>3, <1>4, <1>5, <1>6, <1>7, <1>8, <1>9 DEF Handle

(* The steps of the two goroutines of a runner keep the types. *)
LEMMA TypeRunner ==
  ASSUME TypeOK, Overtake, NEW r \in Runners, LoopStep(r) \/ SyncStep(r)
  PROVE  TypeOK'
<1> USE OvertakenTyped DEF TypeOK, Statuses, LoopPcs, SyncPcs, rowVars, clientVars
<1>1. CASE LoopTop(r)
  BY <1>1 DEF LoopTop, LoopGoto
<1>2. CASE LoopRead(r)
  <2>1. AfterRead(r) \in LoopPcs
    BY DEF AfterRead
  <2> QED
    BY <1>2, <2>1 DEF LoopRead, LoopGoto
<1>3. CASE LoopReadFails(r) \/ LoopTimer(r) \/ LoopCancelled(r)
  BY <1>3 DEF LoopReadFails, LoopTimer, LoopCancelled, LoopGoto
<1>4. CASE LoopCycle(r)
  BY <1>4 DEF LoopCycle, LoopGoto
<1>5. CASE LoopExit(r)
  BY <1>5 DEF LoopExit
<1>6. CASE SyncStep(r)
  BY <1>6 DEF SyncStep, SyncTick, SyncCancelled, SyncRead, SyncReadFails,
              OrderSync, SyncGoto
<1> QED
  BY <1>1, <1>2, <1>3, <1>4, <1>5, <1>6 DEF LoopStep

(* Every step keeps the types. *)
LEMMA TypeStep == TypeOK /\ [Next]_vars => TypeOK'
<1> SUFFICES ASSUME TypeOK, [Next]_vars PROVE TypeOK'
  OBVIOUS
<1> USE OvertakenTyped DEF TypeOK, Statuses, LoopPcs, SyncPcs, ClientPcs, rowVars,
            runnerVars, clientVars
<1>1. CASE (Pause \/ Resume) /\ Overtake
  BY <1>1 DEF Pause, Resume, Transition
<1>2. CASE Update /\ Overtake
  BY <1>2 DEF Update, UpdateUnchecked
<1>3. CASE Crash /\ Overtake
  BY <1>3 DEF Crash
<1>4. CASE Restart /\ Overtake
  BY <1>4 DEF Restart, Restored, NewRunner
<1>5. CASE UNCHANGED vars
  BY <1>5 DEF vars, lifeVars
<1> QED
  BY <1>1, <1>2, <1>3, <1>4, <1>5, TypeHandler, TypeRunner DEF Next, Step, Handlers

(* Every variable keeps its type, whatever happens. *)
THEOREM TypeCorrect == Spec => []TypeOK
BY TypeInit, TypeStep, PTL DEF Spec

-----------------------------------------------------------------------------

LEMMA RunnerInit == Init => RunnerInv
BY DEF Init, RunnerInv, RegistryHasLiveLoop, RegisteredNotCancelled, Registered,
       HandlerInv, AwaitedInv

(* The steps of the handlers keep the invariant.  The steps that matter    *)
(* are EngineStart, whose fresh runner is one nobody holds, and Cancel,    *)
(* whose runner has left the registry.                                     *)
LEMMA RunnerHandler ==
  ASSUME TypeOK, RunnerInv,
         NEW c \in Handlers, Start(c) \/ Stop(c) \/ Handle(c)
  PROVE  RunnerInv'
<1> USE LifecycleAssumption DEF TypeOK, RunnerInv, RegistryHasLiveLoop,
        RegisteredNotCancelled, Registered, HandlerInv, AwaitedInv,
        rowVars, runnerVars
<1>1. CASE Start(c)
  BY <1>1 DEF Start, Transition
<1>2. CASE Stop(c)
  BY <1>2 DEF Stop, Transition
<1>3. CASE EngineStart(c)
  <2>1. PICK r \in Runners :
          /\ NewRunner(r)
          /\ loop' = [loop EXCEPT ![r] = "ready"]
          /\ held' = [held EXCEPT ![c] = r]
    BY <1>3 DEF EngineStart, Register
  <2>2. pc' = [pc EXCEPT ![c] = "spawn"]
    BY <1>3 DEF EngineStart, Register
  <2>3. HandlerInv'
    BY <2>1, <2>2 DEF NewRunner, Free
  <2>4. AwaitedInv'
    BY <2>1 DEF NewRunner
  <2> QED
    BY <2>1, <2>3, <2>4 DEF NewRunner
<1>4. CASE EngineStartRefused(c)
  BY <1>4 DEF EngineStartRefused
<1>5. CASE Spawn(c)
  BY <1>5 DEF Spawn
<1>6. CASE Rollback(c)
  BY <1>6 DEF Rollback
<1>7. CASE EngineStop(c)
  BY <1>7 DEF EngineStop
<1>8. CASE Cancel(c)
  BY <1>8 DEF Cancel
<1>9. CASE WaitReturns(c)
  BY <1>9 DEF WaitReturns, GroupEmpty
<1> QED
  BY <1>1, <1>2, <1>3, <1>4, <1>5, <1>6, <1>7, <1>8, <1>9 DEF Handle

(* The steps of the goroutines keep the invariant: LoopTop sends a         *)
(* cancelled loop to its exit, and a loop that ends empties the registry.  *)
LEMMA RunnerLoops ==
  ASSUME TypeOK, RunnerInv, NEW r \in Runners, LoopStep(r) \/ SyncStep(r)
  PROVE  RunnerInv'
<1> USE LifecycleAssumption DEF TypeOK, RunnerInv, RegistryHasLiveLoop,
        RegisteredNotCancelled, Registered, HandlerInv, AwaitedInv, clientVars
<1>1. CASE LoopTop(r)
  BY <1>1 DEF LoopTop, LoopGoto
<1>2. CASE LoopRead(r)
  <2>1. AfterRead(r) # "done"
    BY DEF AfterRead, Statuses
  <2> QED
    BY <1>2, <2>1 DEF LoopRead, LoopGoto
<1>3. CASE LoopReadFails(r) \/ LoopTimer(r) \/ LoopCancelled(r) \/ LoopCycle(r)
  BY <1>3 DEF LoopReadFails, LoopTimer, LoopCancelled, LoopCycle, LoopGoto
<1>4. CASE LoopExit(r)
  BY <1>4 DEF LoopExit
<1>5. CASE SyncStep(r)
  BY <1>5 DEF SyncStep, SyncTick, SyncCancelled, SyncRead, SyncReadFails,
              OrderSync, SyncGoto
<1> QED
  BY <1>1, <1>2, <1>3, <1>4, <1>5 DEF LoopStep

LEMMA RunnerStep == TypeOK /\ RunnerInv /\ [Next]_vars => RunnerInv'
<1> SUFFICES ASSUME TypeOK, RunnerInv, [Next]_vars PROVE RunnerInv'
  OBVIOUS
<1> USE LifecycleAssumption DEF TypeOK, RunnerInv, RegistryHasLiveLoop,
        RegisteredNotCancelled, Registered, HandlerInv, AwaitedInv,
        runnerVars, clientVars
<1>1. CASE Pause \/ Resume \/ Update
  BY <1>1 DEF Pause, Resume, Update, UpdateUnchecked, Transition
<1>2. CASE Crash
  BY <1>2 DEF Crash
<1>3. CASE Restart
  <2>1. CASE status \notin Restored
    BY <1>3, <2>1 DEF Restart, Restored
  <2>2. CASE status \in Restored
    <3>1. PICK r \in Runners :
            NewRunner(r) /\ loop' = [loop EXCEPT ![r] = "top"]
      BY <1>3, <2>2 DEF Restart, Restored
    <3>2. UNCHANGED clientVars
      BY <1>3 DEF Restart, Restored
    <3>3. HandlerInv'
      BY <3>1, <3>2 DEF NewRunner, Free
    <3> QED
      BY <3>1, <3>2, <3>3 DEF NewRunner
  <2> QED
    BY <2>1, <2>2
<1>4. CASE UNCHANGED vars
  BY <1>4 DEF vars, lifeVars
<1> QED
  BY <1>1, <1>2, <1>3, <1>4, RunnerHandler, RunnerLoops DEF Next, Step, Handlers

LEMMA RunnerInvariant == Spec => []RunnerInv
<1>1. Init => TypeOK /\ RunnerInv
  BY TypeInit, RunnerInit
<1>2. TypeOK /\ RunnerInv /\ [Next]_vars
        => (TypeOK /\ RunnerInv)'
  BY TypeStep, RunnerStep
<1> QED
  BY <1>1, <1>2, PTL DEF Spec

(* For any number of requests at once and of runners, through crashes and  *)
(* failing reads: the registry never keeps a runner whose loop is gone.    *)
THEOREM RegistryIsLive == Spec => []RegistryHasLiveLoop
BY RunnerInvariant, PTL DEF RunnerInv

(* ... nor one that a Stop has cancelled. *)
THEOREM RegistryIsUncancelled == Spec => []RegisteredNotCancelled
BY RunnerInvariant, PTL DEF RunnerInv

(* ... so Start's refusal and Stop's search are told the truth by it. *)
THEOREM RegistryIsTruthful == Spec => []RegistryTruthful
BY RegistryIsLive, RegistryIsUncancelled, PTL DEF RegistryTruthful

(* ... and after Engine.Stop has returned, its runner starts no cycle,     *)
(* also when it returned before the goroutines were spawned.               *)
THEOREM StopIsFinal == Spec => []NoCycleAfterStop
<1>1. RunnerInv => NoCycleAfterStop
  BY DEF RunnerInv, AwaitedInv, NoCycleAfterStop
<1> QED
  BY <1>1, RunnerInvariant, PTL

-----------------------------------------------------------------------------
(* Requests in turn: one handler serves the starts and the stops, a resume *)
(* comes from a paused trader, and the store can be read.                  *)
InTurn ==
  /\ \A c, d \in Handlers : c = d
  /\ ResumeFrom \subseteq {"paused"}
  /\ ~StoreMayFail

(* A loop that no registry knows is one that a Stop is waiting for. *)
StrayIsAwaited ==
  \A r \in Runners : loop[r] # "done" /\ r # registry =>
    \E c \in Handlers : pc[c] \in {"cancel", "wgWait"} /\ held[c] = r

(* What the handler knows of the row and of the registry while it works.   *)
HandlerKnows ==
  \A c \in Handlers :
    /\ pc[c] = "spawn" => registry = held[c] /\ loop[held[c]] = "ready"
    /\ pc[c] \in {"cancel", "wgWait"} => registry = NoRunner
    /\ pc[c] \in {"engineStop", "cancel", "wgWait"} => status = "stopped"
    /\ pc[c] \in {"engineStart", "spawn", "rollback"} => status \in {"running", "paused"}

Unspawned ==
  \A r \in Runners : loop[r] = "ready" => \E c \in Handlers : pc[c] = "spawn" /\ held[c] = r

(* Nothing of a trader is left in a process that is down; and while no     *)
(* handler works, its row and the registry agree.                          *)
DownIsEmpty ==
  ~up => /\ registry = NoRunner
         /\ \A r \in Runners : loop[r] = "done"
         /\ \A c \in Handlers : pc[c] = "idle"

AtRest == \A c \in Handlers : pc[c] = "idle"
RowIsTrue ==
  /\ status # "error"
  /\ AtRest /\ status = "stopped" => registry = NoRunner
  /\ up /\ AtRest /\ status \in {"running", "paused"}
       => Registered /\ loop[registry] \notin {"ready", "exiting", "done"}

TurnParts == StrayIsAwaited /\ HandlerKnows /\ Unspawned /\ DownIsEmpty /\ RowIsTrue

LEMMA TurnBegins == Init => TurnParts
BY DEF Init, TurnParts, StrayIsAwaited, HandlerKnows, Unspawned, DownIsEmpty, RowIsTrue, AtRest

(* While the one handler works on a start, every loop is the registered    *)
(* one; without a registered runner there is none.                         *)
LEMMA OnlyRegistered ==
  ASSUME InTurn, TypeOK, TurnParts, NEW c \in Handlers,
         pc[c] \in {"idle", "engineStart", "spawn", "rollback", "engineStop"}
  PROVE  \A r \in Runners : loop[r] # "done" => r = registry
BY DEF InTurn, TurnParts, StrayIsAwaited

LEMMA TurnHandler ==
  ASSUME InTurn, TypeOK, TypeOK', RunnerInv, TurnParts,
         NEW c \in Handlers, Start(c) \/ Stop(c) \/ Handle(c)
  PROVE  TurnParts'
<1> USE LifecycleAssumption DEF TurnParts, rowVars, runnerVars, clientVars
<1>1. \A d \in Handlers : d = c
  BY DEF InTurn
<1>2. up
  <2>1. CASE Start(c) \/ Stop(c)
    BY <2>1 DEF Start, Stop, Transition
  <2>2. CASE Handle(c)
    BY <2>2 DEF Handle, EngineStart, Register, EngineStartRefused, Spawn, Rollback,
                EngineStop, Cancel, WaitReturns, DownIsEmpty
  <2> QED BY <2>1, <2>2
<1>3. up' = up
  BY DEF Start, Stop, Handle, EngineStart, Register, EngineStartRefused, Spawn, Rollback,
         EngineStop, Cancel, WaitReturns
<1>4. DownIsEmpty'
  BY <1>2, <1>3 DEF DownIsEmpty
<1>5. CASE Start(c)
  <2>1. /\ pc[c] = "idle" /\ pc' = [pc EXCEPT ![c] = "engineStart"] /\ status' = "running"
        /\ UNCHANGED <<registry, loop, held>>
    BY <1>5 DEF Start, Transition
  <2> QED
    BY <1>1, <1>4, <2>1 DEF TypeOK, StrayIsAwaited, HandlerKnows, Unspawned, RowIsTrue, AtRest
<1>6. CASE Stop(c)
  <2>1. /\ pc[c] = "idle" /\ pc' = [pc EXCEPT ![c] = "engineStop"] /\ status' = "stopped"
        /\ UNCHANGED <<registry, loop, held>>
    BY <1>6 DEF Stop, Transition
  <2> QED
    BY <1>1, <1>4, <2>1 DEF TypeOK, StrayIsAwaited, HandlerKnows, Unspawned, RowIsTrue, AtRest
<1>7. CASE EngineStart(c)
  <2>1. PICK r \in Runners :
          /\ registry' = r
          /\ loop' = [loop EXCEPT ![r] = "ready"]
          /\ held' = [held EXCEPT ![c] = r]
    BY <1>7 DEF EngineStart, Register, NewRunner
  <2>2. pc[c] = "engineStart" /\ pc' = [pc EXCEPT ![c] = "spawn"] /\ registry = NoRunner
        /\ UNCHANGED rowVars
    BY <1>7 DEF EngineStart, Register
  <2>3. \A q \in Runners : loop[q] = "done"
    BY <2>2, OnlyRegistered
  <2> QED
    BY <1>1, <1>4, <2>1, <2>2, <2>3
       DEF TypeOK, StrayIsAwaited, HandlerKnows, Unspawned, RowIsTrue, AtRest
<1>8. CASE EngineStartRefused(c)
  <2>1. /\ pc[c] = "engineStart" /\ pc' = [pc EXCEPT ![c] = "rollback"]
        /\ UNCHANGED <<rowVars, registry, loop, held>>
    BY <1>8 DEF EngineStartRefused
  <2> QED
    BY <1>1, <1>4, <2>1 DEF TypeOK, StrayIsAwaited, HandlerKnows, Unspawned, RowIsTrue, AtRest
<1>9. CASE Spawn(c)
  <2>1. /\ pc[c] = "spawn" /\ pc' = [pc EXCEPT ![c] = "idle"]
        /\ loop' = [loop EXCEPT ![held[c]] = "top"] /\ held' = [held EXCEPT ![c] = NoRunner]
        /\ UNCHANGED <<rowVars, registry>>
    BY <1>9 DEF Spawn
  <2>2. registry = held[c] /\ held[c] \in Runners /\ \A q \in Runners : loop[q] # "done" => q = registry
    BY <2>1, OnlyRegistered DEF HandlerKnows, TypeOK
  <2>3. /\ pc'[c] = "idle" /\ loop'[registry] = "top" /\ registry' \in Runners
        /\ \A q \in Runners : loop'[q] # "done" => q = registry
    BY <2>1, <2>2 DEF TypeOK
  <2>4. StrayIsAwaited' /\ HandlerKnows' /\ Unspawned'
    BY <1>1, <2>1, <2>2, <2>3 DEF TypeOK, StrayIsAwaited, HandlerKnows, Unspawned
  <2>5. status \in {"running", "paused"}
    BY <2>1 DEF HandlerKnows
  <2>6. RowIsTrue'
    BY <2>1, <2>2, <2>3, <2>5 DEF RowIsTrue, AtRest, Registered
  <2> QED BY <1>4, <2>4, <2>6
<1>10. CASE Rollback(c)
  <2>1. /\ pc[c] = "rollback" /\ pc' = [pc EXCEPT ![c] = "idle"] /\ status' = "idle"
        /\ UNCHANGED <<registry, loop, held>>
    BY <1>10 DEF Rollback, InTurn
  <2> QED
    BY <1>1, <1>4, <2>1 DEF TypeOK, StrayIsAwaited, HandlerKnows, Unspawned, RowIsTrue, AtRest
<1>11. CASE EngineStop(c)
  <2>1. /\ pc[c] = "engineStop" /\ held' = [held EXCEPT ![c] = registry] /\ registry' = NoRunner
        /\ pc' = [pc EXCEPT ![c] = IF registry = NoRunner THEN "idle" ELSE "cancel"]
        /\ UNCHANGED <<rowVars, loop>>
    BY <1>11 DEF EngineStop
  <2>2. \A r \in Runners : loop[r] # "done" => r = registry
    BY <2>1, OnlyRegistered
  <2>3. StrayIsAwaited'
    BY <2>1, <2>2 DEF TypeOK, StrayIsAwaited
  <2>4. HandlerKnows' /\ RowIsTrue'
    BY <1>1, <2>1 DEF TypeOK, HandlerKnows, RowIsTrue, AtRest
  <2>5. Unspawned'
    BY <1>1, <2>1 DEF TypeOK, Unspawned
  <2> QED BY <1>4, <2>3, <2>4, <2>5
<1>12. CASE Cancel(c)
  <2>1. /\ pc[c] = "cancel" /\ pc' = [pc EXCEPT ![c] = "wgWait"]
        /\ UNCHANGED <<rowVars, registry, loop, held>>
    BY <1>12 DEF Cancel
  <2> QED
    BY <1>1, <1>4, <2>1 DEF TypeOK, StrayIsAwaited, HandlerKnows, Unspawned, RowIsTrue, AtRest
<1>13. CASE WaitReturns(c)
  <2>1. /\ pc[c] = "wgWait" /\ pc' = [pc EXCEPT ![c] = "idle"]
        /\ loop[held[c]] \in {"ready", "done"} /\ held' = [held EXCEPT ![c] = NoRunner]
        /\ UNCHANGED <<rowVars, registry, loop>>
    BY <1>13 DEF WaitReturns, GroupEmpty
  <2>2. status = "stopped" /\ registry = NoRunner /\ held[c] \in Runners
    BY <2>1 DEF HandlerKnows, TypeOK
  <2>3. loop[held[c]] = "done"
    BY <1>1, <2>1, <2>2 DEF Unspawned
  <2>4. \A r \in Runners : loop[r] = "done"
    BY <1>1, <2>2, <2>3 DEF StrayIsAwaited
  <2> QED
    BY <1>1, <1>4, <2>1, <2>2, <2>4
       DEF TypeOK, StrayIsAwaited, HandlerKnows, Unspawned, RowIsTrue, AtRest
<1> QED
  BY <1>5, <1>6, <1>7, <1>8, <1>9, <1>10, <1>11, <1>12, <1>13 DEF Handle

(* A loop leaves its round only when it is cancelled or reads that it is   *)
(* to stop; and the loop that is in the registry is not cancelled.         *)
LEMMA TurnLoops ==
  ASSUME InTurn, TypeOK, RunnerInv, TurnParts,
         NEW r \in Runners, LoopStep(r) \/ SyncStep(r)
  PROVE  TurnParts'
<1> USE LifecycleAssumption DEF TurnParts, rowVars, clientVars
<1>1. UNCHANGED <<up, rowVars, clientVars>>
  BY DEF LoopStep, SyncStep, LoopTop, LoopRead, LoopReadFails, LoopCycle, LoopTimer,
         LoopCancelled, LoopExit, LoopGoto, SyncTick, SyncCancelled, SyncRead,
         SyncReadFails, OrderSync, SyncGoto
<1>2. CASE SyncStep(r)
  <2>1. UNCHANGED <<registry, loop>>
    BY <1>2 DEF SyncStep, SyncTick, SyncCancelled, SyncRead, SyncReadFails, OrderSync, SyncGoto
  <2> QED
    BY <1>1, <2>1
       DEF StrayIsAwaited, HandlerKnows, Unspawned, DownIsEmpty, RowIsTrue, AtRest, Registered
<1>3. CASE LoopExit(r)
  <2>1. /\ loop[r] = "exiting" /\ loop' = [loop EXCEPT ![r] = "done"] /\ registry' = NoRunner
    BY <1>3 DEF LoopExit
  <2>2. \A c \in Handlers : pc[c] # "spawn"
    BY <2>1, OnlyRegistered DEF HandlerKnows, TypeOK
  <2>3. StrayIsAwaited'
    <3>1. ASSUME NEW q \in Runners, loop'[q] # "done"
          PROVE  \E c \in Handlers : pc[c] \in {"cancel", "wgWait"} /\ held[c] = q
      <4>1. q # r /\ loop[q] # "done"
        BY <2>1, <3>1 DEF TypeOK
      <4>2. CASE q # registry
        BY <4>1, <4>2 DEF StrayIsAwaited
      <4>3. CASE q = registry
        <5>1. \E c \in Handlers : pc[c] \in {"cancel", "wgWait"}
          BY <2>1, <4>1, <4>3 DEF StrayIsAwaited
        <5> QED BY <4>3, <5>1 DEF HandlerKnows
      <4> QED BY <4>2, <4>3
    <3> QED BY <1>1, <3>1 DEF StrayIsAwaited
  <2>4. HandlerKnows' /\ Unspawned' /\ DownIsEmpty'
    BY <1>1, <2>1, <2>2 DEF TypeOK, HandlerKnows, Unspawned, DownIsEmpty
  <2>5. RowIsTrue'
    <3>1. AtRest => r = registry
      BY <2>1 DEF AtRest, StrayIsAwaited
    <3> QED BY <1>1, <2>1, <3>1 DEF RowIsTrue, AtRest, Registered
  <2> QED BY <2>3, <2>4, <2>5
<1>4. CASE LoopStep(r) /\ ~LoopExit(r)
  <2>1. /\ registry' = registry /\ loop[r] \notin {"ready", "exiting", "done"}
        /\ \E where \in LoopPcs \ {"ready", "done"} :
             /\ loop' = [loop EXCEPT ![r] = where]
             /\ where = "exiting" => cancelled[r] \/ status \in {"stopped", "error"}
    <3>1. CASE LoopTop(r)
      <4>1. CASE cancelled[r]
        BY <3>1, <4>1 DEF LoopTop, LoopGoto, LoopPcs
      <4>2. CASE ~cancelled[r]
        <5>1. /\ loop[r] = "top" /\ registry' = registry
              /\ loop' = [loop EXCEPT ![r] = "read"]
          BY <3>1, <4>2 DEF LoopTop, LoopGoto
        <5>2. "read" \in LoopPcs \ {"ready", "done"} /\ "read" # "exiting"
          BY DEF LoopPcs
        <5> QED BY <5>1, <5>2
      <4> QED BY <4>1, <4>2
    <3>2. CASE LoopRead(r)
      <4>1. /\ AfterRead(r) \in LoopPcs \ {"ready", "done"}
            /\ AfterRead(r) = "exiting" => status \in {"stopped", "error"}
        BY DEF AfterRead, LoopPcs, TypeOK, Statuses
      <4>2. /\ loop[r] = "read" /\ registry' = registry
            /\ loop' = [loop EXCEPT ![r] = AfterRead(r)]
        BY <3>2 DEF LoopRead, LoopGoto
      <4> QED BY <4>1, <4>2
    <3>3. CASE LoopReadFails(r)
      BY <3>3 DEF LoopReadFails, InTurn
    <3>4. CASE LoopCycle(r) \/ LoopTimer(r) \/ LoopCancelled(r)
      BY <3>4 DEF LoopCycle, LoopTimer, LoopCancelled, LoopGoto, LoopPcs
    <3> QED BY <1>4, <3>1, <3>2, <3>3, <3>4 DEF LoopStep
  <2>2. PICK where \in LoopPcs \ {"ready", "done"} :
          /\ loop' = [loop EXCEPT ![r] = where]
          /\ where = "exiting" => cancelled[r] \/ status \in {"stopped", "error"}
    BY <2>1
  <2>3. StrayIsAwaited'
    BY <1>1, <2>1, <2>2 DEF TypeOK, StrayIsAwaited
  <2>4. HandlerKnows' /\ Unspawned' /\ DownIsEmpty'
    BY <1>1, <2>1, <2>2 DEF TypeOK, HandlerKnows, Unspawned, DownIsEmpty
  <2>5. RowIsTrue'
    <3>1. registry = r => ~cancelled[r]
      BY DEF RunnerInv, RegisteredNotCancelled, Registered
    <3> QED BY <1>1, <2>1, <2>2, <3>1 DEF TypeOK, RowIsTrue, AtRest, Registered
  <2> QED BY <2>3, <2>4, <2>5
<1> QED BY <1>2, <1>3, <1>4

LEMMA TurnStep == InTurn /\ TypeOK /\ RunnerInv /\ TurnParts /\ [Next]_vars => TurnParts'
<1> SUFFICES ASSUME InTurn, TypeOK, RunnerInv, TurnParts, [Next]_vars PROVE TurnParts'
  OBVIOUS
<1>1. TypeOK'
  BY TypeStep
<1> USE LifecycleAssumption DEF TurnParts, rowVars, runnerVars, clientVars
<1>2. CASE Pause \/ Resume
  <2>1. /\ status \in {"running", "paused"} /\ status' \in {"running", "paused"}
        /\ up /\ up' = up /\ UNCHANGED <<registry, loop, pc, held>>
    BY <1>2 DEF Pause, Resume, Transition, InTurn, transitions, TypeOK, Statuses
  <2> QED
    BY <2>1 DEF StrayIsAwaited, HandlerKnows, Unspawned, DownIsEmpty, RowIsTrue, AtRest, Registered
<1>3. CASE Update
  BY <1>3 DEF Update, UpdateUnchecked, StrayIsAwaited, HandlerKnows, Unspawned, DownIsEmpty,
              RowIsTrue, AtRest, Registered
<1>4. CASE Crash
  BY <1>4 DEF Crash, StrayIsAwaited, HandlerKnows, Unspawned, DownIsEmpty, RowIsTrue, AtRest
<1>5. CASE Restart
  <2>1. ~up /\ up' /\ UNCHANGED <<status, pc, held>>
    BY <1>5 DEF Restart
  <2>2. registry = NoRunner /\ (\A q \in Runners : loop[q] = "done") /\ AtRest
    BY <2>1 DEF DownIsEmpty, AtRest
  <2>3. CASE status \notin Restored
    <3>1. UNCHANGED <<registry, loop>>
      BY <1>5, <2>3 DEF Restart
    <3> QED
      BY <2>1, <2>2, <2>3, <3>1
         DEF StrayIsAwaited, HandlerKnows, Unspawned, DownIsEmpty, RowIsTrue, AtRest, Restored
  <2>4. CASE status \in Restored
    <3>1. PICK r \in Runners : registry' = r /\ loop' = [loop EXCEPT ![r] = "top"]
      BY <1>5, <2>4 DEF Restart, NewRunner
    <3>2. StrayIsAwaited' /\ HandlerKnows' /\ Unspawned' /\ DownIsEmpty'
      BY <2>1, <2>2, <3>1 DEF TypeOK, StrayIsAwaited, HandlerKnows, Unspawned, DownIsEmpty, AtRest
    <3>3. loop'[registry'] = "top" /\ registry' # NoRunner
      BY <3>1 DEF TypeOK
    <3> QED BY <2>1, <2>4, <3>2, <3>3 DEF RowIsTrue, AtRest, Registered, Restored
  <2> QED BY <2>3, <2>4
<1>6. CASE UNCHANGED vars
  BY <1>6 DEF vars, lifeVars, StrayIsAwaited, HandlerKnows, Unspawned, DownIsEmpty, RowIsTrue, AtRest, Registered
<1> QED
  BY <1>1, <1>2, <1>3, <1>4, <1>5, <1>6, TurnHandler, TurnLoops DEF Next, Step, Handlers

LEMMA TurnInvariant == InTurn => (Spec => [](TypeOK /\ RunnerInv /\ TurnParts))
<1>1. Init => TypeOK /\ RunnerInv /\ TurnParts
  BY TypeInit, RunnerInit, TurnBegins
<1>2. ASSUME InTurn
      PROVE  TypeOK /\ RunnerInv /\ TurnParts /\ [Next]_vars => (TypeOK /\ RunnerInv /\ TurnParts)'
  BY <1>2, TypeStep, RunnerStep, TurnStep
<1>3. ASSUME InTurn PROVE Spec => [](TypeOK /\ RunnerInv /\ TurnParts)
  BY <1>1, <1>2, <1>3, PTL DEF Spec
<1> QED BY <1>3

LEMMA OneOfThem == TypeOK /\ TurnParts => ExactlyOneLoop
<1> SUFFICES ASSUME TypeOK, TurnParts PROVE ExactlyOneLoop
  OBVIOUS
<1>1. RunningHasLoop
  BY DEF TurnParts, RowIsTrue, RunningHasLoop, Quiet, AtRest
<1>2. Looping \subseteq {registry}
  BY DEF TurnParts, StrayIsAwaited, Looping, Kept
<1>3. IsFiniteSet({registry}) /\ Cardinality({registry}) = 1
  BY FS_Singleton
<1>4. Cardinality(Looping) <= Cardinality({registry})
  BY <1>2, <1>3, FS_Subset
<1> QED BY <1>1, <1>3, <1>4 DEF OneLoop, ExactlyOneLoop

(* For any set of runners, through pauses, resumes, edits and crashes:     *)
(* while starts and stops come one at a time a running or paused trader    *)
(* has a loop in the registry, and no second one.                          *)
THEOREM OneLoopInTurn == InTurn => (Spec => []ExactlyOneLoop)
BY TurnInvariant, OneOfThem, PTL

(* A start that nobody has overtaken still has its row, and is the only    *)
(* one: whoever moves the row overtakes all the starts under way.          *)
OwnRow ==
  \A c \in Trying \ overtaken :
    /\ status = "running"
    /\ \A d \in Trying \ overtaken : d = c

RowInv == TypeOK /\ status # "error" /\ OwnRow

LEMMA RowBegins == Init => RowInv
BY TypeInit DEF Init, RowInv, OwnRow, Trying

(* What the steps of a trader do to its row and to the starts under way.   *)
Begins(Tried) ==
  status \in {"idle", "paused", "stopped"} /\ status' = "running" /\ UNCHANGED config /\ Trying' = Tried
Suspends ==
  status = "running" /\ status' = "paused" /\ UNCHANGED <<config, Trying>>
Ends ==
  status \in {"running", "paused"} /\ status' = "stopped" /\ UNCHANGED <<config, Trying>>
Keeps == UNCHANGED <<status, config>> /\ Trying' \subseteq Trying
Configures ==
  status # "running" /\ config' \in Configs /\ UNCHANGED <<status, Trying>>
TakesBack(c) ==
  /\ c \in Trying /\ Rollback(c)
  /\ status' = "idle" /\ UNCHANGED config /\ Trying' = Trying \ {c}

LEMMA RowSteps ==
  ASSUME RowInv, Step
  PROVE  \/ \E c \in Handlers \ Trying : Begins(Trying \cup {c})
         \/ Begins(Trying)
         \/ Suspends
         \/ Ends
         \/ Keeps
         \/ Configures
         \/ \E c \in Handlers : TakesBack(c)
<1> USE DEF RowInv, rowVars, runnerVars, clientVars
<1>1. ASSUME NEW c \in Starters, Start(c)
      PROVE  \E d \in Handlers \ Trying : Begins(Trying \cup {d})
  <2>1. c \in Handlers \ Trying /\ Trying' = Trying \cup {c}
    BY <1>1 DEF Start, Trying, TypeOK, Handlers
  <2>2. Begins(Trying \cup {c})
    BY <1>1, <2>1 DEF Start, Transition, transitions, TypeOK, Statuses, Begins
  <2> QED BY <2>1, <2>2
<1>2. ASSUME NEW c \in Stoppers, Stop(c) PROVE Ends
  <2>1. Trying' = Trying
    BY <1>2 DEF Stop, Trying, TypeOK, Handlers
  <2> QED BY <1>2, <2>1 DEF Stop, Transition, transitions, TypeOK, Statuses, Ends
<1>3. CASE Pause
  BY <1>3 DEF Pause, Transition, transitions, TypeOK, Statuses, Suspends, Trying
<1>4. CASE Resume
  BY <1>4 DEF Resume, Transition, transitions, TypeOK, Statuses, Begins, Trying
<1>5. CASE Update
  BY <1>5 DEF Update, UpdateUnchecked, Configures, Trying
<1>6. ASSUME NEW c \in Handlers, Rollback(c) PROVE Keeps \/ TakesBack(c)
  <2>1. c \in Trying /\ Trying' = Trying \ {c}
    BY <1>6 DEF Rollback, Trying, TypeOK
  <2>2. UNCHANGED config /\ (status' = "idle" \/ status' = status)
    BY <1>6 DEF Rollback
  <2> QED BY <1>6, <2>1, <2>2 DEF Keeps, TakesBack
<1>7. ASSUME NEW c \in Handlers, Handle(c), ~Rollback(c) PROVE Keeps
  <2>1. UNCHANGED <<status, config>>
    BY <1>7 DEF Handle, EngineStart, Register, EngineStartRefused, Spawn, EngineStop, Cancel,
                WaitReturns
  <2>2. \A d \in Handlers : pc'[d] \in {"engineStart", "rollback"} => pc[d] \in {"engineStart", "rollback"}
    BY <1>7 DEF Handle, EngineStart, Register, EngineStartRefused, Spawn, EngineStop, Cancel,
                WaitReturns, TypeOK
  <2> QED BY <2>1, <2>2 DEF Keeps, Trying
<1>8. ASSUME NEW r \in Runners, LoopStep(r) \/ SyncStep(r) PROVE Keeps
  BY <1>8 DEF LoopStep, SyncStep, LoopTop, LoopRead, LoopReadFails, LoopCycle, LoopTimer,
              LoopCancelled, LoopExit, LoopGoto, SyncTick, SyncCancelled, SyncRead,
              SyncReadFails, OrderSync, SyncGoto, Keeps, Trying
<1>9. CASE Crash \/ Restart
  BY <1>9 DEF Crash, Restart, Keeps, Trying
<1> QED BY <1>1, <1>2, <1>3, <1>4, <1>5, <1>6, <1>7, <1>8, <1>9 DEF Step

(* A step that moves the row overtakes all starts but one that begins with *)
(* it; one that does not leaves them as they are.                          *)
LEMMA OwnRowStep == RowInv /\ [Next]_vars => RowInv'
<1> SUFFICES ASSUME RowInv, [Next]_vars PROVE RowInv'
  OBVIOUS
<1>1. TypeOK'
  BY TypeStep DEF RowInv
<1>2. CASE UNCHANGED vars
  BY <1>1, <1>2 DEF RowInv, OwnRow, Trying, vars, lifeVars, rowVars, clientVars
<1>3. CASE Next
  <2> USE DEF RowInv, OwnRow, Overtake
  <2>1. Step /\ Overtake
    BY <1>3 DEF Next
  <2>2. ASSUME NEW c \in Handlers \ Trying, Begins(Trying \cup {c}) PROVE RowInv'
    BY <1>1, <2>1, <2>2 DEF Begins
  <2>3. CASE Begins(Trying) \/ Suspends \/ Ends
    BY <1>1, <2>1, <2>3 DEF Begins, Suspends, Ends
  <2>4. CASE Keeps \/ Configures
    BY <1>1, <2>1, <2>4 DEF Keeps, Configures
  <2>5. ASSUME NEW c \in Handlers, TakesBack(c) PROVE RowInv'
    BY <1>1, <2>1, <2>5 DEF TakesBack
  <2> QED BY <2>1, <2>2, <2>3, <2>4, <2>5, RowSteps
<1> QED BY <1>2, <1>3

(* Every step of the trader is one of TraderStatus, leaves the row, or is  *)
(* the roll-back of a start that was overtaken.                            *)
LEMMA PromiseStep ==
  ASSUME RowInv, [Next]_vars
  PROVE  [Promise!Next \/ Trampled]_<<status, config, Trial>>
<1>1. CASE UNCHANGED vars
  BY <1>1 DEF Trial, Trying, vars, lifeVars, rowVars, clientVars
<1>2. CASE Next
  <2> USE DEF RowInv, OwnRow, Overtake, Trial, Promise!Next
  <2>1. Step /\ Overtake
    BY <1>2 DEF Next
  <2>2. ASSUME NEW c \in Handlers \ Trying, Begins(Trying \cup {c}) PROVE Promise!Begin
    BY <2>1, <2>2 DEF Begins, Promise!Begin
  <2>3. CASE Begins(Trying)
    BY <2>1, <2>3 DEF Begins, Promise!Begin
  <2>4. CASE Suspends
    BY <2>1, <2>4 DEF Suspends, Promise!Suspend
  <2>5. CASE Ends
    BY <2>1, <2>5 DEF Ends, Promise!End
  <2>6. CASE Keeps
    <3>1. Trial' => Trial
      BY <2>1, <2>6 DEF Keeps
    <3>2. CASE Trial /\ ~Trial'
      BY <2>6, <3>2 DEF Keeps, Promise!Settle
    <3>3. CASE Trial' <=> Trial
      BY <2>6, <3>3 DEF Keeps
    <3> QED BY <3>1, <3>2, <3>3
  <2>7. CASE Configures
    <3>1. Trial' <=> Trial
      BY <2>1, <2>7 DEF Configures
    <3> QED BY <2>7, <3>1 DEF Configures, Promise!Configure
  <2>8. ASSUME NEW c \in Handlers, TakesBack(c)
        PROVE  Promise!FallBack \/ Trampled
    <3>1. CASE c \in overtaken
      BY <2>8, <3>1 DEF TakesBack, Trampled
    <3>2. CASE c \notin overtaken
      <4>1. status = "running" /\ Trial
        BY <2>8, <3>2 DEF TakesBack
      <4>2. ~Trial'
        BY <2>1, <2>8, <4>1 DEF TakesBack
      <4> QED BY <2>8, <4>1, <4>2 DEF TakesBack, Promise!FallBack
    <3> QED BY <3>1, <3>2
  <2> QED BY <2>1, <2>2, <2>3, <2>4, <2>5, <2>6, <2>7, <2>8, RowSteps
<1> QED BY <1>1, <1>2

(* The row implements TraderStatus, for any number of starts, stops and    *)
(* resumes at once, failing reads and crashes: it follows the documented   *)
(* machine, its configuration does not move while it is running, and a     *)
(* start is taken back only while the row is its own, but for the one step *)
(* that tramples: the roll-back of a start that was overtaken.             *)
THEOREM RowFollowsStatus == Spec => StatusUnlessTrampled
<1>1. Init => Promise!Init
  BY DEF Init, Promise!Init, Trial, Trying
<1>2. RowInv /\ [Next]_vars => [Promise!Next \/ Trampled]_<<status, config, Trial>>
  BY PromiseStep
<1> QED
  BY <1>1, <1>2, RowBegins, OwnRowStep, PTL DEF Spec, StatusUnlessTrampled

-----------------------------------------------------------------------------
(* Types.  A window index stays in range because only a run that has a     *)
(* window left enters a cycle; a client past the check of an operation has *)
(* a run to work on.                                                       *)
WindowLeft ==
  \A r \in Runs : runLoop[r] \in {"symbol", "decide", "snapshot"} => window[r] < Windows

HasTarget == \A c \in Clients : client[c] # "idle" => target[c] \in Runs

Loops == LoopsTyped /\ WindowLeft
Served == ClientsTyped /\ HasTarget

Typed == MemoryTyped /\ Loops /\ StoreTyped /\ Served /\ HistoryTyped

LEMMA TypedInit == RunsInit => Typed
BY BacktestAssumption
   DEF RunsInit, Typed, Loops, Served, MemoryTyped, LoopsTyped, StoreTyped, ClientsTyped,
       HistoryTyped, WindowLeft, HasTarget, RunLoopPcs, ControlPcs, Symbols

(* A part of the state an action leaves alone keeps its types. *)
LEMMA TypedUnchanged ==
  /\ MemoryTyped /\ UNCHANGED memory => MemoryTyped'
  /\ Loops /\ UNCHANGED loopVars => Loops'
  /\ StoreTyped /\ UNCHANGED <<row, net>> => StoreTyped'
  /\ Served /\ UNCHANGED controlVars => Served'
  /\ HistoryTyped /\ UNCHANGED tried => HistoryTyped'
BY DEF memory, loopVars, controlVars, MemoryTyped, Loops, LoopsTyped, WindowLeft,
       StoreTyped, Served, ClientsTyped, HasTarget, HistoryTyped

LEMMA TypedControl ==
  ASSUME Typed,
         \/ \E u \in Users : StartRun(u)
         \/ \E c \in Clients, r \in Runs :
              PauseRun(c, r) \/ ResumeRun(c, r) \/ StopRun(c, r) \/ Label(c, r) \/ Delete(c, r)
  PROVE  Typed'
<1> USE DEF Typed
<1>1. ASSUME NEW u \in Users, StartRun(u) PROVE Typed'
  <2>1. MemoryTyped' /\ StoreTyped'
    BY <1>1 DEF StartRun, MemoryTyped, StoreTyped, States, Active
  <2>2. Loops'
    BY <1>1 DEF StartRun, Loops, LoopsTyped, WindowLeft, RunLoopPcs
  <2> QED
    BY <1>1, <2>1, <2>2, TypedUnchanged DEF StartRun, controlVars
<1>2. ASSUME NEW c \in Clients, NEW r \in Runs, PauseRun(c, r) \/ ResumeRun(c, r) \/ StopRun(c, r)
      PROVE  Typed'
  <2> USE <1>2 DEF PauseRun, ResumeRun, StopRun, Move
  <2>1. MemoryTyped' /\ HistoryTyped'
    BY DEF MemoryTyped, HistoryTyped, States, Active, Terminal
  <2>2. Served'
    BY DEF Takes, Served, ClientsTyped, HasTarget, ControlPcs
  <2> QED
    BY <2>1, <2>2, TypedUnchanged
<1>3. ASSUME NEW c \in Clients, NEW r \in Runs, Label(c, r) PROVE Typed'
  <2>1. Served'
    BY <1>3 DEF Label, Takes, Served, ClientsTyped, HasTarget, ControlPcs, StoreTyped
  <2> QED
    BY <1>3, <2>1, TypedUnchanged DEF Label
<1>4. ASSUME NEW c \in Clients, NEW r \in Runs, Delete(c, r) PROVE Typed'
  <2>1. MemoryTyped'
    BY <1>4 DEF Delete, MemoryTyped
  <2>2. Served'
    BY <1>4 DEF Delete, Takes, Served, ClientsTyped, HasTarget, ControlPcs
  <2> QED
    BY <1>4, <2>1, <2>2, TypedUnchanged DEF Delete
<1> QED
  BY <1>1, <1>2, <1>3, <1>4

LEMMA TypedClient ==
  ASSUME Typed, NEW c \in Clients, ClientStep(c)
  PROVE  Typed'
<1> USE DEF Typed
<1>1. Answers(c) /\ Served => Served'
  BY DEF Answers, Served, ClientsTyped, HasTarget, ControlPcs
<1>2. CASE Unregister(c)
  <2>1. MemoryTyped'
    BY <1>2 DEF Unregister, MemoryTyped
  <2>2. Served'
    BY <1>2 DEF Unregister, Served, ClientsTyped, HasTarget, ControlPcs
  <2> QED
    BY <1>2, <2>1, <2>2, TypedUnchanged DEF Unregister
<1>3. CASE DeleteRow(c)
  <2>1. [s \in Symbols |-> 0] \in [Symbols -> Int]
    OBVIOUS
  <2>2. StoreTyped'
    BY <1>3, <2>1 DEF DeleteRow, StoreTyped
  <2> QED
    BY <1>1, <1>3, <2>2, TypedUnchanged DEF DeleteRow
<1>4. CASE SyncStateRead(c)
  <2>1. Synced(target[c]) \in States \cup {None}
    BY <1>4 DEF SyncStateRead, Synced, Served, HasTarget, ClientsTyped, MemoryTyped, StoreTyped
  <2>2. Served'
    BY <1>1, <1>4, <2>1 DEF SyncStateRead, Served, ClientsTyped, HasTarget, ControlPcs
  <2> QED
    BY <1>4, <2>2, TypedUnchanged DEF SyncStateRead
<1>5. CASE Write(c)
  <2>1. StoreTyped'
    BY <1>5 DEF Write, StoreTyped, Served, ClientsTyped
  <2> QED
    BY <1>1, <1>5, <2>1, TypedUnchanged DEF Write
<1> QED
  BY <1>2, <1>3, <1>4, <1>5 DEF ClientStep

(* What the moves of a loop from one step to another do to its locals. *)
LEMMA LoopGotoTyped ==
  ASSUME Loops, NEW r \in Runs, NEW where \in RunLoopPcs, RunLoopGoto(r, where),
         where \in {"symbol", "decide", "snapshot"} => window[r] < Windows
  PROVE  Loops'
BY DEF RunLoopGoto, Loops, LoopsTyped, WindowLeft

LEMMA LoopReturnsTyped ==
  ASSUME Loops, NEW r \in Runs, LoopReturns(r)
  PROVE  Loops'
BY BacktestAssumption DEF LoopReturns, Loops, LoopsTyped, WindowLeft, RunLoopPcs, Symbols

LEMMA LoopFinishesTyped ==
  ASSUME Loops, NEW r \in Runs, NEW in \in {"completed", "liquidated"}, LoopFinishes(r, in)
  PROVE  Loops'
BY DEF LoopFinishes, Loops, LoopsTyped, WindowLeft, RunLoopPcs

LEMMA NextSymbolTyped ==
  ASSUME Loops, HistoryTyped, NEW r \in Runs, NextSymbol(r)
  PROVE  Loops' /\ HistoryTyped'
<1> DEFINE last == symbol[r] = NSymbols
<1>1. symbol' \in [Runs -> Symbols]
  <2>1. (IF last THEN 1 ELSE symbol[r] + 1) \in Symbols
    BY BacktestAssumption DEF Loops, LoopsTyped, Symbols
  <2> QED
    BY <2>1 DEF NextSymbol, Loops, LoopsTyped
<1>2. runLoop' \in [Runs -> RunLoopPcs] /\ WindowLeft'
  BY DEF NextSymbol, Loops, LoopsTyped, WindowLeft, RunLoopPcs
<1>3. HistoryTyped'
  BY DEF NextSymbol, HistoryTyped
<1> QED
  BY <1>1, <1>2, <1>3 DEF NextSymbol, Loops, LoopsTyped

LEMMA TradeTyped ==
  ASSUME Loops, HistoryTyped, StoreTyped, MemoryTyped,
         NEW r \in Runs, NEW change \in {-1, 0, 1}, Trade(r, change),
         position' \in [Runs -> SUBSET Symbols]
  PROVE  MemoryTyped' /\ Loops' /\ StoreTyped' /\ HistoryTyped'
<1>1. Loops' /\ HistoryTyped'
  BY NextSymbolTyped DEF Trade
<1>2. MemoryTyped'
  BY DEF Trade, NextSymbol, MemoryTyped
<1>3. StoreTyped'
  <2>1. [net[r] EXCEPT ![symbol[r]] = @ + change] \in [Symbols -> Int]
    BY DEF StoreTyped, Loops, LoopsTyped
  <2>2. net' \in [Runs -> [Symbols -> Int]]
    BY <2>1 DEF Trade, StoreTyped
  <2> QED
    BY <2>2 DEF Trade, NextSymbol, StoreTyped
<1> QED
  BY <1>1, <1>2, <1>3

LEMMA TypedLoop ==
  ASSUME Typed, NEW r \in Runs, RunLoopStep(r)
  PROVE  Typed'
<1> USE DEF Typed
<1>1. CASE LoopTickEnds(r)
  BY <1>1, LoopReturnsTyped, TypedUnchanged DEF LoopTickEnds
<1>2. CASE RunLoopCycle(r)
  <2>1. CASE window[r] >= Windows
    BY <1>2, <2>1, LoopFinishesTyped, TypedUnchanged DEF RunLoopCycle
  <2>2. CASE ~(window[r] >= Windows)
    <3>1. window[r] < Windows
      BY <2>2, BacktestAssumption DEF Loops, LoopsTyped
    <3>2. Loops'
      BY <1>2, <2>2, <3>1, LoopGotoTyped DEF RunLoopCycle, RunLoopPcs
    <3> QED
      BY <1>2, <3>2, TypedUnchanged DEF RunLoopCycle
  <2> QED
    BY <2>1, <2>2
<1>3. CASE RunLoopCancelled(r)
  <2>1. Loops'
    BY <1>3, LoopGotoTyped DEF RunLoopCancelled, RunLoopPcs
  <2> QED
    BY <1>3, <2>1, TypedUnchanged DEF RunLoopCancelled
<1>4. CASE LoopSymbol(r)
  <2>1. Loops'
    BY <1>4, LoopGotoTyped, LoopReturnsTyped DEF LoopSymbol, RunLoopPcs, Loops, WindowLeft
  <2> QED
    BY <1>4, <2>1, TypedUnchanged DEF LoopSymbol
<1>5. CASE LoopWaits(r)
  <2>1. Loops' /\ HistoryTyped'
    BY <1>5, NextSymbolTyped DEF LoopWaits
  <2> QED
    BY <1>5, <2>1, TypedUnchanged DEF LoopWaits, NextSymbol, memory
<1>6. CASE LoopOpens(r)
  <2>1. position' \in [Runs -> SUBSET Symbols]
    BY <1>6 DEF LoopOpens, MemoryTyped, Loops, LoopsTyped
  <2> QED
    BY <1>6, <2>1, TradeTyped, TypedUnchanged DEF LoopOpens, Trade, NextSymbol
<1>7. CASE LoopCloses(r)
  <2>1. position' \in [Runs -> SUBSET Symbols]
    BY <1>7 DEF LoopCloses, MemoryTyped
  <2> QED
    BY <1>7, <2>1, TradeTyped, TypedUnchanged DEF LoopCloses, Trade, NextSymbol
<1>8. CASE LoopTurns(r)
  <2>1. position' \in [Runs -> SUBSET Symbols]
    BY <1>8 DEF LoopTurns, MemoryTyped
  <2> QED
    BY <1>8, <2>1, TradeTyped, TypedUnchanged DEF LoopTurns, Trade, NextSymbol
<1>9. CASE LoopAdvances(r)
  <2>1. window[r] + 1 \in 0..Windows
    BY <1>9, BacktestAssumption DEF LoopAdvances, Loops, LoopsTyped, WindowLeft
  <2>2. Loops'
    BY <1>9, <2>1 DEF LoopAdvances, Loops, LoopsTyped, WindowLeft, RunLoopPcs
  <2> QED
    BY <1>9, <2>2, TypedUnchanged DEF LoopAdvances
<1>10. CASE LoopLiquidates(r)
  <2>1. StoreTyped'
    <3>1. [s \in Symbols |-> IF s \in position[r] THEN net[r][s] - 1 ELSE net[r][s]]
            \in [Symbols -> Int]
      BY DEF StoreTyped
    <3> QED
      BY <1>10, <3>1 DEF LoopLiquidates, StoreTyped
  <2>2. MemoryTyped'
    BY <1>10 DEF LoopLiquidates, MemoryTyped
  <2> QED
    BY <1>10, <2>1, <2>2, LoopFinishesTyped, TypedUnchanged DEF LoopLiquidates
<1>11. CASE LoopDepleted(r)
  BY <1>11, LoopFinishesTyped, TypedUnchanged DEF LoopDepleted
<1>12. CASE LoopFinish(r)
  <2>1. MemoryTyped'
    BY <1>12 DEF LoopFinish, MemoryTyped, Loops, LoopsTyped, States, Terminal
  <2>2. Loops'
    BY <1>12, LoopGotoTyped DEF LoopFinish, RunLoopPcs
  <2> QED
    BY <1>12, <2>1, <2>2, TypedUnchanged DEF LoopFinish
<1>13. CASE LoopSyncRead(r)
  <2>1. Synced(r) \in States \cup {None}
    BY DEF Synced, MemoryTyped, StoreTyped
  <2>2. Loops'
    BY <1>13, <2>1 DEF LoopSyncRead, Loops, LoopsTyped, WindowLeft, RunLoopPcs
  <2> QED
    BY <1>13, <2>2, TypedUnchanged DEF LoopSyncRead
<1>14. CASE LoopSyncSkips(r)
  <2>1. Loops'
    BY <1>14, LoopGotoTyped, LoopReturnsTyped DEF LoopSyncSkips, RunLoopPcs
  <2> QED
    BY <1>14, <2>1, TypedUnchanged DEF LoopSyncSkips
<1>15. CASE LoopWrite(r)
  <2>1. StoreTyped'
    BY <1>15 DEF LoopWrite, StoreTyped, Loops, LoopsTyped
  <2>2. CASE runLoop[r] = "lastWrite" /\ LoopReturns(r)
    BY <1>15, <2>1, <2>2, LoopReturnsTyped, TypedUnchanged DEF LoopWrite
  <2>3. CASE ~(runLoop[r] = "lastWrite" /\ LoopReturns(r))
    <3>1. Loops'
      BY <1>15, <2>3 DEF LoopWrite, Loops, LoopsTyped, WindowLeft, RunLoopPcs
    <3> QED
      BY <1>15, <2>1, <3>1, TypedUnchanged DEF LoopWrite
  <2> QED
    BY <2>2, <2>3
<1> QED
  BY <1>1, <1>2, <1>3, <1>4, <1>5, <1>6, <1>7, <1>8, <1>9, <1>10, <1>11, <1>12, <1>13,
     <1>14, <1>15 DEF RunLoopStep

LEMMA TypedStep == Typed /\ [RunsNext]_runVars => Typed'
<1> SUFFICES ASSUME Typed, [RunsNext]_runVars PROVE Typed'
  OBVIOUS
<1>1. CASE RunsCrash
  BY <1>1, BacktestAssumption
     DEF RunsCrash, Typed, Loops, Served, MemoryTyped, LoopsTyped, StoreTyped, ClientsTyped,
         HistoryTyped, WindowLeft, HasTarget, RunLoopPcs, ControlPcs, Symbols
<1>2. CASE UNCHANGED runVars
  BY <1>2, TypedUnchanged DEF runVars, Typed
<1> QED
  BY <1>1, <1>2, TypedControl, TypedClient, TypedLoop DEF RunsNext

(* State stays within its types; in particular no run walks a window       *)
(* beyond its last one (replay.go:49).                                     *)
THEOREM RunsKeepTypes == RunsSpec => []RunsTypeOK
<1>1. Typed => RunsTypeOK
  BY DEF Typed, RunsTypeOK, Loops, Served
<1> QED
  BY <1>1, TypedInit, TypedStep, PTL DEF RunsSpec

(* No goroutine registers a run or gives it away. *)
LEMMA LoopKeepsOwner ==
  ASSUME NEW r \in Runs, RunLoopStep(r)
  PROVE  UNCHANGED <<runs, owner>>
BY DEF RunLoopStep, LoopTickEnds, RunLoopCycle, RunLoopCancelled, LoopSymbol, LoopWaits,
       LoopOpens, LoopCloses, LoopTurns, Trade, NextSymbol, LoopAdvances, LoopFinish,
       LoopLiquidates, LoopDepleted, LoopSyncRead, LoopSyncSkips, LoopWrite, memory

-----------------------------------------------------------------------------
(* The books of a run.  A run id nobody used has no goroutine, no position  *)
(* and no trade; a run whose rows are about to be deleted is no longer in   *)
(* the registry, and its id is not used again.                              *)
Fresh ==
  \A r \in Runs : owner[r] = None =>
    /\ r \notin runs
    /\ runLoop[r] = "done"
    /\ position[r] = {}
    /\ \A s \in Symbols : net[r][s] = 0

Doomed ==
  \A c \in Clients :
    /\ client[c] \in {"unregister", "deleteRow"} => owner[target[c]] # None
    /\ client[c] = "deleteRow" => target[c] \notin runs

Books == TradesAccountForPositions /\ Fresh /\ Doomed

LEMMA BooksInit == RunsInit => Books
BY DEF RunsInit, Books, TradesAccountForPositions, Fresh, Doomed

LEMMA BooksControl ==
  ASSUME Typed, Books,
         \/ \E u \in Users : StartRun(u)
         \/ \E c \in Clients, r \in Runs :
              PauseRun(c, r) \/ ResumeRun(c, r) \/ StopRun(c, r) \/ Label(c, r) \/ Delete(c, r)
  PROVE  Books'
<1> USE DEF Typed, MemoryTyped, Served, ClientsTyped, HasTarget, Books
<1>1. ASSUME NEW u \in Users, StartRun(u) PROVE Books'
  <2> USE <1>1, BacktestAssumption DEF StartRun, Unused, controlVars
  <2>1. PICK r \in Runs :
          /\ owner[r] = None
          /\ runs' = runs \cup {r}
          /\ owner' = [owner EXCEPT ![r] = u]
          /\ runLoop' = [runLoop EXCEPT ![r] = "tick"]
    OBVIOUS
  <2>2. u # None
    OBVIOUS
  <2>3. TradesAccountForPositions'
    BY <2>1 DEF Fresh, TradesAccountForPositions
  <2>4. Fresh'
    BY <2>1, <2>2 DEF Fresh, Loops, LoopsTyped
  <2>5. Doomed'
    BY <2>1, <2>2 DEF Doomed
  <2> QED
    BY <2>3, <2>4, <2>5
<1>2. ASSUME NEW c \in Clients, NEW r \in Runs,
             PauseRun(c, r) \/ ResumeRun(c, r) \/ StopRun(c, r) \/ Label(c, r)
      PROVE  Books'
  <2> USE <1>2 DEF PauseRun, ResumeRun, StopRun, Move, Label, memory, loopVars
  <2>1. TradesAccountForPositions'
    BY DEF TradesAccountForPositions
  <2>2. Fresh'
    BY DEF Fresh
  <2>3. Doomed'
    BY DEF Doomed, Takes
  <2> QED
    BY <2>1, <2>2, <2>3
<1>3. ASSUME NEW c \in Clients, NEW r \in Runs, Delete(c, r) PROVE Books'
  <2> USE <1>3 DEF Delete, loopVars
  <2>1. TradesAccountForPositions'
    BY DEF TradesAccountForPositions
  <2>2. Fresh'
    BY DEF Fresh
  <2>3. Doomed'
    BY DEF Doomed, Takes, Fresh
  <2> QED
    BY <2>1, <2>2, <2>3
<1> QED
  BY <1>1, <1>2, <1>3

LEMMA BooksClient ==
  ASSUME Typed, Books, NEW c \in Clients, ClientStep(c)
  PROVE  Books'
<1> USE DEF Typed, MemoryTyped, Served, ClientsTyped, HasTarget, Books
<1>1. CASE Unregister(c)
  BY <1>1 DEF Unregister, loopVars, TradesAccountForPositions, Fresh, Doomed
<1>2. CASE DeleteRow(c)
  <2> USE <1>2 DEF DeleteRow, memory, loopVars
  <2>1. TradesAccountForPositions'
    BY DEF Doomed, TradesAccountForPositions, StoreTyped
  <2>2. Fresh'
    BY DEF Fresh, StoreTyped
  <2>3. Doomed'
    BY DEF Doomed, Answers
  <2> QED
    BY <2>1, <2>2, <2>3
<1>3. CASE SyncStateRead(c) \/ Write(c)
  BY <1>3 DEF SyncStateRead, Write, Answers, memory, loopVars, TradesAccountForPositions, Fresh,
              Doomed
<1> QED
  BY <1>1, <1>2, <1>3 DEF ClientStep

(* A loop step leaves the other runs alone, and moves the trades and the    *)
(* positions of its own together.                                           *)
LEMMA BooksTrade ==
  ASSUME Typed, Books, NEW r \in Runs, LoopOpens(r) \/ LoopCloses(r) \/ LoopTurns(r)
  PROVE  TradesAccountForPositions' /\ Fresh'
<1> USE DEF Typed, MemoryTyped, StoreTyped, Loops, LoopsTyped, Books, NextSymbol, Trade
<1>1. runLoop[r] = "decide" /\ owner[r] # None /\ UNCHANGED <<runs, owner>>
  BY DEF LoopOpens, LoopCloses, LoopTurns, Fresh
<1>2. Fresh'
  BY <1>1 DEF LoopOpens, LoopCloses, LoopTurns, Fresh
<1>3. CASE LoopOpens(r)
  BY <1>1, <1>2, <1>3 DEF LoopOpens, TradesAccountForPositions
<1>4. CASE LoopCloses(r)
  BY <1>1, <1>2, <1>4 DEF LoopCloses, TradesAccountForPositions
<1>5. CASE LoopTurns(r)
  BY <1>1, <1>2, <1>5 DEF LoopTurns, TradesAccountForPositions
<1> QED
  BY <1>2, <1>3, <1>4, <1>5

LEMMA BooksLoop ==
  ASSUME Typed, Books, NEW r \in Runs, RunLoopStep(r)
  PROVE  Books'
<1> USE DEF Typed, Books
<1>1. UNCHANGED <<runs, owner, controlVars>>
  BY DEF RunLoopStep, LoopTickEnds, RunLoopCycle, RunLoopCancelled, LoopSymbol, LoopWaits,
         LoopOpens, LoopCloses, LoopTurns, Trade, NextSymbol, LoopAdvances,
         LoopLiquidates, LoopDepleted, LoopFinish, LoopSyncRead, LoopSyncSkips, LoopWrite,
         memory
<1>2. Doomed'
  BY <1>1 DEF Doomed, controlVars
<1>3. CASE LoopOpens(r) \/ LoopCloses(r) \/ LoopTurns(r)
  BY <1>2, <1>3, BooksTrade
<1>4. CASE LoopLiquidates(r)
  BY <1>1, <1>2, <1>4
     DEF LoopLiquidates, LoopFinishes, TradesAccountForPositions, Fresh, MemoryTyped,
         StoreTyped, Loops, LoopsTyped
<1>5. CASE \/ LoopTickEnds(r) \/ RunLoopCycle(r) \/ RunLoopCancelled(r) \/ LoopSymbol(r)
           \/ LoopWaits(r) \/ LoopAdvances(r) \/ LoopDepleted(r) \/ LoopFinish(r)
           \/ LoopSyncRead(r) \/ LoopSyncSkips(r) \/ LoopWrite(r)
  <2>1. UNCHANGED <<position, net>>
    BY <1>5 DEF LoopTickEnds, RunLoopCycle, RunLoopCancelled, LoopSymbol, LoopWaits, LoopAdvances,
                LoopDepleted, LoopFinish, LoopSyncRead, LoopSyncSkips, LoopWrite, memory
  <2>2. runLoop[r] # "done" /\ \A q \in Runs \ {r} : runLoop'[q] = runLoop[q]
    BY <1>5 DEF LoopTickEnds, RunLoopCycle, RunLoopCancelled, LoopSymbol, LoopWaits, NextSymbol,
                LoopAdvances, LoopDepleted, LoopFinish, LoopSyncRead, LoopSyncSkips,
                LoopWrite, RunLoopGoto, LoopReturns, LoopFinishes, Loops, LoopsTyped
  <2> QED
    BY <1>1, <1>2, <2>1, <2>2 DEF Fresh, TradesAccountForPositions
<1> QED
  BY <1>3, <1>4, <1>5 DEF RunLoopStep

LEMMA BooksStep == Typed /\ Books /\ [RunsNext]_runVars => Books'
<1> SUFFICES ASSUME Typed, Books, [RunsNext]_runVars PROVE Books'
  OBVIOUS
<1>1. CASE RunsCrash
  BY <1>1 DEF RunsCrash, Books, TradesAccountForPositions, Fresh, Doomed
<1>2. CASE UNCHANGED runVars
  BY <1>2 DEF runVars, memory, loopVars, controlVars, Books, TradesAccountForPositions, Fresh,
              Doomed
<1> QED
  BY <1>1, <1>2, BooksControl, BooksClient, BooksLoop DEF RunsNext

(* For every run the engine holds, the opening trades in the store less the *)
(* closing and liquidation ones are the positions in memory, per symbol     *)
(* (replay.go:200, 232, 265), however its clients stop, delete and resume.  *)
THEOREM BooksBalance == RunsSpec => []TradesAccountForPositions
<1>1. Books => TradesAccountForPositions
  BY DEF Books
<1> QED
  BY <1>1, TypedInit, TypedStep, BooksInit, BooksStep, PTL DEF RunsSpec

-----------------------------------------------------------------------------
(* Whole periods.  A loop in its cycle has gone through the windows before  *)
(* its own and the symbols before its own; only a run without a window left *)
(* is to finish completed, and a completed run's loop trades no more.       *)
Progress(r) ==
  /\ runLoop[r] \in {"tick", "symbol", "decide", "sync", "write"} =>
       tried[r] = window[r] * NSymbols + (symbol[r] - 1)
  /\ runLoop[r] \in {"tick", "snapshot", "sync", "write"} => symbol[r] = 1
  /\ runLoop[r] = "snapshot" => tried[r] = window[r] * NSymbols + NSymbols
  /\ runLoop[r] = "finish" /\ goal[r] = "completed" => tried[r] = Windows * NSymbols
  /\ state[r] = "completed" => /\ runLoop[r] \in {"lastSync", "lastWrite", "done"}
                               /\ tried[r] = Windows * NSymbols

Unstarted(r) == tried[r] = 0 /\ window[r] = 0 /\ symbol[r] = 1

Periods ==
  /\ \A r \in runs : Progress(r)
  /\ \A r \in Runs : owner[r] = None => Unstarted(r)

LEMMA PeriodsInit == RunsInit => Periods
BY DEF RunsInit, Periods, Progress, Unstarted

(* What a run has done depends on its own loop, and on its state only as   *)
(* far as it is completed or not.                                          *)
LEMMA ProgressKept ==
  ASSUME NEW r, Progress(r),
         <<runLoop[r], window[r], symbol[r], goal[r], tried[r]>>' =
           <<runLoop[r], window[r], symbol[r], goal[r], tried[r]>>,
         state'[r] = "completed" => state[r] = "completed"
  PROVE  Progress(r)'
BY DEF Progress

LEMMA LoopLeavesOthers ==
  ASSUME Typed, NEW r \in Runs, RunLoopStep(r), NEW q \in Runs \ {r}
  PROVE  /\ <<runLoop[q], window[q], symbol[q], goal[q], tried[q]>>' =
              <<runLoop[q], window[q], symbol[q], goal[q], tried[q]>>
         /\ state'[q] = state[q]
<1> USE DEF Typed, MemoryTyped, Loops, LoopsTyped, HistoryTyped, memory,
            RunLoopGoto, LoopReturns, LoopFinishes, NextSymbol, Trade
<1>1. CASE LoopTickEnds(r) \/ RunLoopCycle(r) \/ RunLoopCancelled(r) \/ LoopSymbol(r)
  BY <1>1 DEF LoopTickEnds, RunLoopCycle, RunLoopCancelled, LoopSymbol
<1>2. CASE LoopWaits(r) \/ LoopOpens(r) \/ LoopCloses(r) \/ LoopTurns(r)
  BY <1>2 DEF LoopWaits, LoopOpens, LoopCloses, LoopTurns
<1>3. CASE LoopAdvances(r) \/ LoopLiquidates(r) \/ LoopDepleted(r) \/ LoopFinish(r)
  BY <1>3 DEF LoopAdvances, LoopLiquidates, LoopDepleted, LoopFinish
<1>4. CASE LoopSyncRead(r) \/ LoopSyncSkips(r) \/ LoopWrite(r)
  BY <1>4 DEF LoopSyncRead, LoopSyncSkips, LoopWrite
<1> QED
  BY <1>1, <1>2, <1>3, <1>4 DEF RunLoopStep

LEMMA ProgressLoop ==
  ASSUME Typed, NEW r \in Runs, RunLoopStep(r), Progress(r)
  PROVE  Progress(r)'
<1> USE BacktestAssumption DEF Progress
<1>1. /\ window[r] \in 0..Windows /\ symbol[r] \in 1..NSymbols /\ tried[r] \in Nat
      /\ NSymbols \in Nat /\ Windows \in Nat
  BY DEF Typed, Loops, LoopsTyped, HistoryTyped, Symbols
<1> HIDE BacktestAssumption
<1>2. /\ DOMAIN runLoop = Runs /\ DOMAIN window = Runs /\ DOMAIN symbol = Runs
      /\ DOMAIN goal = Runs /\ DOMAIN state = Runs /\ DOMAIN tried = Runs
      /\ runLoop = [q \in Runs |-> runLoop[q]] /\ window = [q \in Runs |-> window[q]]
      /\ symbol = [q \in Runs |-> symbol[q]] /\ goal = [q \in Runs |-> goal[q]]
      /\ state = [q \in Runs |-> state[q]] /\ tried = [q \in Runs |-> tried[q]]
  BY DEF Typed, MemoryTyped, Loops, LoopsTyped, HistoryTyped
<1>3. CASE LoopTickEnds(r) \/ LoopSymbol(r) \/ RunLoopCancelled(r)
  BY <1>2, <1>3 DEF LoopTickEnds, LoopSymbol, RunLoopCancelled, RunLoopGoto, LoopReturns, memory
<1>4. CASE RunLoopCycle(r)
  <2>1. window[r] >= Windows => window[r] = Windows
    BY <1>1
  <2>2. symbol[r] = 1 /\ tried[r] = window[r] * NSymbols
    BY <1>1, <1>4 DEF RunLoopCycle
  <2> QED
    BY <1>2, <1>4, <2>1, <2>2 DEF RunLoopCycle, RunLoopGoto, LoopFinishes, memory
<1>5. CASE NextSymbol(r)
  <2>1. tried'[r] = tried[r] + 1
    BY <1>2, <1>5 DEF NextSymbol
  <2>2. tried[r] = window[r] * NSymbols + (symbol[r] - 1) /\ state[r] # "completed"
    BY <1>5 DEF NextSymbol
  <2>3. CASE symbol[r] = NSymbols
    BY <1>1, <1>2, <1>5, <2>1, <2>2, <2>3 DEF NextSymbol
  <2>4. CASE symbol[r] # NSymbols
    BY <1>1, <1>2, <1>5, <2>1, <2>2, <2>4 DEF NextSymbol
  <2> QED
    BY <2>3, <2>4
<1>6. CASE LoopAdvances(r)
  <2>1. (window[r] + 1) * NSymbols = window[r] * NSymbols + NSymbols
    BY <1>1
  <2>2. window'[r] = window[r] + 1 /\ symbol'[r] = 1 /\ tried'[r] = tried[r]
    BY <1>2, <1>6 DEF LoopAdvances
  <2>3. tried'[r] = window'[r] * NSymbols + (symbol'[r] - 1)
    BY <1>1, <1>6, <2>1, <2>2 DEF LoopAdvances
  <2> QED
    BY <1>2, <1>6, <2>2, <2>3 DEF LoopAdvances, memory
<1>7. CASE LoopLiquidates(r) \/ LoopDepleted(r) \/ LoopFinish(r)
  BY <1>2, <1>7 DEF LoopLiquidates, LoopDepleted, LoopFinish, LoopFinishes, RunLoopGoto, memory
<1>8. CASE LoopSyncRead(r) \/ LoopSyncSkips(r) \/ LoopWrite(r)
  BY <1>2, <1>8 DEF LoopSyncRead, LoopSyncSkips, LoopWrite, RunLoopGoto, LoopReturns, memory
<1> QED
  BY <1>3, <1>4, <1>5, <1>6, <1>7, <1>8
     DEF RunLoopStep, LoopWaits, LoopOpens, LoopCloses, LoopTurns, Trade

LEMMA PeriodsStep == Typed /\ Books /\ Periods /\ [RunsNext]_runVars => Periods'
<1> SUFFICES ASSUME Typed, Books, Periods, [RunsNext]_runVars PROVE Periods'
  OBVIOUS
<1> USE DEF Periods
<1>1. ASSUME NEW u \in Users, StartRun(u) PROVE Periods'
  <2>1. PICK r \in Runs :
          /\ owner[r] = None
          /\ runs' = runs \cup {r}
          /\ owner' = [owner EXCEPT ![r] = u]
          /\ state' = [state EXCEPT ![r] = "running"]
          /\ runLoop' = [runLoop EXCEPT ![r] = "tick"]
    BY <1>1 DEF StartRun, Unused
  <2>2. UNCHANGED <<window, symbol, goal, tried>>
    BY <1>1 DEF StartRun
  <2>3. ASSUME NEW q \in runs \ {r} PROVE Progress(q)'
    BY <2>1, <2>2, ProgressKept DEF Typed, MemoryTyped, Loops, LoopsTyped
  <2>4. Progress(r)'
    <3>1. runLoop'[r] = "tick" /\ state'[r] = "running"
      BY <2>1 DEF Typed, MemoryTyped, Loops, LoopsTyped
    <3>2. window'[r] = 0 /\ symbol'[r] = 1 /\ tried'[r] = 0
      BY <2>1, <2>2 DEF Unstarted
    <3>3. 0 = 0 * NSymbols + (1 - 1)
      BY BacktestAssumption
    <3> QED
      BY <3>1, <3>2, <3>3 DEF Progress
  <2>5. \A q \in Runs : owner'[q] = None => Unstarted(q)'
    BY <2>1, <2>2, BacktestAssumption DEF Unstarted, Typed, MemoryTyped
  <2> QED
    BY <2>1, <2>3, <2>4, <2>5
<1>2. ASSUME NEW c \in Clients, NEW r \in Runs,
             \/ PauseRun(c, r) \/ ResumeRun(c, r) \/ StopRun(c, r) \/ Label(c, r) \/ Delete(c, r)
      PROVE  Periods'
  <2>1. /\ UNCHANGED <<runs, owner, loopVars, tried>>
        /\ \A q \in runs : state'[q] = "completed" => state[q] = "completed"
    BY <1>2 DEF PauseRun, ResumeRun, StopRun, Label, Delete, Move, memory, Typed, MemoryTyped
  <2>2. ASSUME NEW q \in runs PROVE Progress(q)'
    BY <2>1, ProgressKept DEF loopVars
  <2> QED
    BY <2>1, <2>2 DEF Unstarted, loopVars
<1>3. ASSUME NEW c \in Clients, ClientStep(c) PROVE Periods'
  <2>1. UNCHANGED <<owner, state, loopVars, tried>> /\ runs' \subseteq runs
    BY <1>3 DEF ClientStep, Unregister, DeleteRow, SyncStateRead, Write, memory
  <2>2. ASSUME NEW q \in runs' PROVE Progress(q)'
    BY <2>1, ProgressKept DEF loopVars
  <2> QED
    BY <2>1, <2>2 DEF Unstarted, loopVars
<1>4. ASSUME NEW r \in Runs, RunLoopStep(r) PROVE Periods'
  <2>1. UNCHANGED <<runs, owner>>
    BY <1>4, LoopKeepsOwner
  <2>2. runLoop[r] # "done"
    BY <1>4 DEF RunLoopStep, LoopTickEnds, RunLoopCycle, RunLoopCancelled, LoopSymbol, LoopWaits,
         LoopOpens, LoopCloses, LoopTurns, Trade, NextSymbol, LoopAdvances,
         LoopLiquidates, LoopDepleted, LoopFinish, LoopSyncRead, LoopSyncSkips, LoopWrite
  <2>3. owner[r] # None
    BY <2>2 DEF Books, Fresh
  <2>4. ASSUME NEW q \in runs PROVE Progress(q)'
    <3>1. q \in Runs
      BY DEF Typed, MemoryTyped
    <3> QED
      BY <1>4, <3>1, ProgressLoop, ProgressKept, LoopLeavesOthers
  <2>5. ASSUME NEW q \in Runs, owner'[q] = None PROVE Unstarted(q)'
    BY <1>4, <2>1, <2>3, <2>5, LoopLeavesOthers DEF Unstarted
  <2> QED
    BY <2>1, <2>4, <2>5
<1>5. CASE RunsCrash
  BY <1>5 DEF RunsCrash, Unstarted
<1>6. CASE UNCHANGED runVars
  BY <1>6 DEF runVars, memory, loopVars, Progress, Unstarted
<1> QED
  BY <1>1, <1>2, <1>3, <1>4, <1>5, <1>6 DEF RunsNext

(* A run that says completed went through every symbol of every window,     *)
(* whatever the period and the number of symbols, and whatever was asked of *)
(* it on the way (replay.go:49).                                            *)
THEOREM CompletedIsWhole == RunsSpec => []CompletedCoversPeriod
<1>1. Periods => CompletedCoversPeriod
  BY DEF Periods, Progress, CompletedCoversPeriod
<1> QED
  BY <1>1, TypedInit, TypedStep, BooksInit, BooksStep, PeriodsInit, PeriodsStep, PTL DEF RunsSpec

-----------------------------------------------------------------------------
(* Venues *)

Positions == [pos : PosSides, qty : Int]
Sent == [pc : {"idle", "guard", "leverage", "post"}, todo : SUBSET Positions,
         order : AskedOrders, qty : Nat, calm : BOOLEAN, levered : BOOLEAN]
Wires == [dir : {"buy", "sell"}, pos : PosSides \cup {"net"},
          reduce : BOOLEAN, waits : BOOLEAN]

VenueTyped ==
  /\ venue \in VenueNames
  /\ mode \in {"net", "hedge"}
  /\ mode = "hedge" => venue \in {"binance", "okx", "bybit"}
  /\ holds \in [PosSides -> 0..MaxHeld]
  /\ mode = "net" => (holds["long"] = 0 \/ holds["short"] = 0)
  /\ lever \in Nat
  /\ reported \in Int
  /\ caller \in [Callers -> Sent]
  /\ resting \subseteq [wire : Wires, qty : Nat, asked : AskedOrders]

(* A conditional order is the one its adapter made of what was asked for.  *)
RestingInv ==
  \A r \in resting : /\ r.wire = Sends(r.asked)
                     /\ r.wire.waits
                     /\ venue = "gate" => FloorToLot(r.qty) = r.qty

(* What a caller is about to send: a whole number of lots, if its adapter  *)
(* formats it, and what was asked for if not.                              *)
AsAsked(k) ==
  k.pc \in {"leverage", "post"} =>
    /\ k.qty > 0
    /\ Formats(k.order) => k.qty \in FormatQuantity(k.order.qty)
    /\ ~ Formats(k.order) => k.qty = k.order.qty

FormattedInv == \A c \in Callers : AsAsked(caller[c])

(* Nobody has set the leverage since.                                      *)
Levered(k) == k.levered => lever = k.order.lev
LeverInv == \A c \in Callers : Levered(caller[c])

(* Where a close is for whole lots, the account holds whole lots: there    *)
(* every order is formatted, or those that are not cannot be executed.     *)
Exact == venue = "gate" \/ (venue = "okx" /\ mode = "hedge")
AllWhole(h) == \A s \in PosSides : FloorToLot(h[s]) = h[s]
WholeInv == Exact => AllWhole(holds)

(* A guard that nobody has disturbed: what it still has before it, and     *)
(* what it is closing, are positions as they are; of any other there is no *)
(* more than a lot that a float has lost.                                  *)
AsHeld(p) == holds[p.pos] = p.qty /\ p.qty > 0
Ordered(k, s) == k.pc \in {"leverage", "post"} /\ k.order.pos = s
AtMostALot(s) == venue \in {"binance", "bybit"} /\ holds[s] <= 2
Calm(k) ==
  k.calm /\ ClosesWork =>
    /\ k.pc \in {"guard", "leverage", "post"}
    /\ \A p \in k.todo : AsHeld(p)
    /\ k.pc \in {"leverage", "post"} =>
         /\ k.order.kind = "close"
         /\ AsHeld(k.order)
         /\ Position(k.order.pos, k.order.qty) \notin k.todo
    /\ \A s \in PosSides : holds[s] > 0 =>
         Position(s, holds[s]) \in k.todo \/ Ordered(k, s) \/ AtMostALot(s)
CalmInv == \A c \in Callers : Calm(caller[c])

FillsInv == reported = Net(holds)

VenueInv ==
  /\ VenueTyped
  /\ RestingInv
  /\ FormattedInv
  /\ LeverInv
  /\ WholeInv
  /\ CalmInv
  /\ FillsInv

-----------------------------------------------------------------------------
(* Whole lots stay whole, and what an adapter formats is near what it was. *)
LEMMA Lots ==
  \A q \in Int : /\ FloorToLot(q) \in Int /\ RoundToLot(q) \in Int
                 /\ FloorToLot(FloorToLot(q)) = FloorToLot(q)
                 /\ FloorToLot(q) <= q /\ q - FloorToLot(q) < 2
                 /\ q <= RoundToLot(q) /\ RoundToLot(q) - q < 2
                 /\ RoundToLot(q) > 0 <=> q > 0
BY DEF FloorToLot, RoundToLot

LEMMA Figured ==
  ASSUME NEW q \in Int, NEW v \in FiveFigures(q), q > 0
  PROVE  v \in Int /\ \E u \in Scales : Unit(u, q) /\ 2 * Absolute(v - q) <= u
<1>1. PICK u \in Scales : Unit(u, q) /\ v \in Nearest(q, u)
  BY DEF FiveFigures
<1>2. u \in Nat \ {0}
  BY VenueAssumption
<1>3. q \div u \in Int
  BY <1>2
<1>4. u * (q \div u) \in Int
  BY <1>2, <1>3
<1>5. v \in {u * (q \div u), u * (q \div u) + u} /\ 2 * Absolute(v - q) <= u
  BY <1>1 DEF Nearest
<1>6. v \in Int
  BY <1>2, <1>4, <1>5
<1> QED BY <1>1, <1>5, <1>6

(* What a quantity is formatted to, venue by venue.                        *)
LEMMA Formatted ==
  ASSUME venue \in Modelled, NEW q \in Int, NEW v \in FormatQuantity(q)
  PROVE  /\ v \in Int
         /\ v > 0 => q > 0
         /\ v > 0 => Near(q, v)
         /\ venue \in {"okx", "gate"} => v = FloorToLot(q)
<1>1. CASE venue = "kucoin"
  <2>1. v = RoundToLot(q) \/ (q % 2 = 1 /\ v = q - 1)
    BY <1>1 DEF FormatQuantity, RoundOfQuotient
  <2>2. v \in Int /\ v - q <= 1 /\ q - v <= 1 /\ (v > 0 => q > 0)
    BY <2>1 DEF RoundToLot
  <2> QED BY <1>1, <2>2 DEF Near, Absolute
<1>2. CASE venue = "hyperliquid"
  <2>1. v \in FiveFigures(q)
    BY <1>2 DEF FormatQuantity
  <2>2. CASE q <= 0
    BY <1>2, <2>1, <2>2 DEF FiveFigures
  <2>3. CASE q > 0
    BY <1>2, <2>1, <2>3, Figured DEF Near
  <2> QED BY <2>2, <2>3
<1>3. CASE venue \in {"okx", "gate"}
  <2>1. v = FloorToLot(q)
    BY <1>3 DEF FormatQuantity
  <2> QED BY <1>3, <2>1, Lots DEF Near
<1>4. CASE venue \in {"binance", "bybit", "bitget"}
  <2>1. v = FloorToLot(q) \/ (v = q - 2 /\ MayLose(q))
    BY <1>4 DEF FormatQuantity, FloorOfQuotient
  <2>2. CASE v = FloorToLot(q)
    <3>1. v \in Int /\ v <= q /\ q - v < 2 /\ q - v # 2
      BY <2>2, Lots
    <3> QED BY <1>4, <3>1 DEF Near
  <2>3. CASE v = q - 2 /\ MayLose(q)
    BY <1>4, <2>3 DEF Near
  <2> QED BY <2>1, <2>2, <2>3
<1> QED BY <1>1, <1>2, <1>3, <1>4 DEF Modelled

LEMMA WholeSums ==
  \A a, b \in Int : FloorToLot(a) = a /\ FloorToLot(b) = b
    => FloorToLot(a + b) = a + b /\ FloorToLot(a - b) = a - b
BY DEF FloorToLot

(* A fill comes back as it was executed, whatever words the venue has.     *)
LEMMA FillsComeBack ==
  ASSUME NEW n \in Int, venue \in VenueNames
  PROVE  Learned(FillOf(Listed(n))) = n
<1>1. venue \in Modelled
  BY VenueAssumption
<1> USE DEF Listing, Fill, Absolute, Lower
<1>2. CASE venue = "binance"
  BY <1>2 DEF BinanceFill, FillOf, Listed, Learned
<1>3. CASE venue = "bybit"
  BY <1>3 DEF BybitFill, FillOf, Listed, Learned
<1>4. CASE venue = "gate"
  <2>1. Listed(n) = [side |-> "", size |-> n]
    BY <1>4 DEF Listed
  <2>2. FillOf(Listed(n)) = [side |-> IF n < 0 THEN "sell" ELSE "buy", qty |-> Absolute(n)]
    <3>1. FillOf(Listed(n)) = GateFill(Listed(n))
      BY <1>4 DEF FillOf
    <3>2. GateFill([side |-> "", size |-> n])
            = [side |-> IF n < 0 THEN "sell" ELSE "buy", qty |-> Absolute(n)]
      BY DEF GateFill
    <3> QED BY <2>1, <3>1, <3>2
  <2> QED BY <2>2 DEF Learned
<1>5. CASE venue = "hyperliquid"
  BY <1>5 DEF HyperliquidFill, FillOf, Listed, Learned
<1>6. CASE venue = "okx"
  BY <1>6 DEF OKXFill, FillOf, Listed, Learned
<1>7. CASE venue = "kucoin"
  BY <1>7 DEF KuCoinFill, FillOf, Listed, Learned
<1>8. CASE venue = "bitget"
  BY <1>8 DEF BitgetFill, FillOf, Listed, Learned
<1> QED BY <1>1, <1>2, <1>3, <1>4, <1>5, <1>6, <1>7, <1>8 DEF Modelled
-----------------------------------------------------------------------------
(* The orders of the adapters                                              *)

LEMMA SendsTyped ==
  ASSUME NEW o \in AskedOrders
  PROVE  Sends(o) \in Wires
<1> DEFINE dir == Direction(o)
<1>1. dir \in {"buy", "sell"} /\ o.pos \in PosSides /\ Closing(o) \in BOOLEAN
      /\ Conditional(o) \in BOOLEAN
  BY DEF Direction, AskedOrders, Closing, Conditional
<1>2. /\ BinanceOrder(o) \in Wires /\ OKXOrder(o) \in Wires /\ BybitOrder(o) \in Wires
      /\ GateOrder(o) \in Wires /\ KuCoinOrder(o) \in Wires /\ HyperliquidOrder(o) \in Wires
  BY <1>1 DEF BinanceOrder, OKXOrder, BybitOrder, GateOrder, KuCoinOrder, HyperliquidOrder,
              Wire, Wires
<1>3. BitgetOrder(o) \in Wires
  BY <1>1 DEF BitgetOrder, Wire, Wires
<1> QED BY <1>2, <1>3 DEF Sends

(* A closing is marked reduce-only, or names the side it is against.       *)
OnlyReduces(w) == w.reduce \/ (w.pos # "net" /\ ~ Adds(w, w.pos))

LEMMA ClosingsReduce ==
  ASSUME venue \in Modelled, NEW o \in AskedOrders, ReducesOnly(o)
  PROVE  OnlyReduces(Sends(o)) 
<1>1. o.kind \in {"close", "stop"} /\ o.pos \in PosSides
  BY DEF ReducesOnly, AskedOrders
<1> USE DEF Sends, Wire, OnlyReduces, Adds, Bought, Direction, Conditional, Closing
<1>2. CASE venue = "binance"
  BY <1>1, <1>2 DEF BinanceOrder, PosSides
<1>3. CASE venue = "okx"
  BY <1>1, <1>3 DEF OKXOrder, ReducesOnly, DropsReduceOnly, PosSides
<1>4. CASE venue = "bybit"
  BY <1>1, <1>4 DEF BybitOrder, PosSides
<1>5. CASE venue = "gate"
  BY <1>1, <1>5 DEF GateOrder, ReducesOnly, DropsReduceOnly
<1>6. CASE venue = "kucoin"
  BY <1>1, <1>6 DEF KuCoinOrder
<1>7. CASE venue = "bitget"
  BY <1>1, <1>7 DEF BitgetOrder
<1>8. CASE venue = "hyperliquid"
  BY <1>1, <1>8 DEF HyperliquidOrder
<1> QED BY <1>2, <1>3, <1>4, <1>5, <1>6, <1>7, <1>8 DEF Modelled

-----------------------------------------------------------------------------
(* What the venue does with an order                                       *)

LEMMA CutTyped ==
  ASSUME holds \in [PosSides -> Nat], NEW q \in Nat, NEW s \in PosSides
  PROVE  Cut(q, s) \in Nat /\ Cut(q, s) <= q /\ Cut(q, s) <= holds[s]
BY DEF Cut

LEMMA BothSides ==
  ASSUME NEW s \in PosSides
  PROVE  Other(s) \in PosSides /\ Other(s) # s /\ PosSides = {s, Other(s)}
BY DEF Other, PosSides

(* A trade in net mode leaves at most one position. *)
LEMMA NettedTyped ==
  ASSUME holds \in [PosSides -> Nat], NEW q \in Nat, NEW dir \in {"buy", "sell"}
  PROVE  /\ Netted(dir, q) \in [PosSides -> Nat]
         /\ Netted(dir, q)[Bought(dir)] = holds[Bought(dir)] + (q - Cut(q, Other(Bought(dir))))
         /\ Netted(dir, q)[Other(Bought(dir))]
              = holds[Other(Bought(dir))] - Cut(q, Other(Bought(dir)))
         /\ holds["long"] = 0 \/ holds["short"] = 0
              => Netted(dir, q)["long"] = 0 \/ Netted(dir, q)["short"] = 0
<1> DEFINE s == Bought(dir)
           c == Cut(q, Other(s))
<1>1. s \in PosSides /\ Other(s) \in PosSides /\ Other(s) # s
  BY BothSides DEF Bought, PosSides
<1>2. c \in Nat /\ c <= q /\ c <= holds[Other(s)] /\ (c = q \/ c = holds[Other(s)])
  BY <1>1 DEF Cut
<1>3. Netted(dir, q) = [holds EXCEPT ![Other(s)] = @ - c, ![s] = @ + (q - c)]
  BY DEF Netted
<1>4. holds[s] + (q - c) \in Nat /\ holds[Other(s)] - c \in Nat
  BY <1>1, <1>2
<1>5. /\ Netted(dir, q) \in [PosSides -> Nat]
      /\ Netted(dir, q)[s] = holds[s] + (q - c)
      /\ Netted(dir, q)[Other(s)] = holds[Other(s)] - c
  BY <1>1, <1>3, <1>4
<1>6. holds["long"] = 0 \/ holds["short"] = 0
        => Netted(dir, q)[s] = 0 \/ Netted(dir, q)[Other(s)] = 0
  BY <1>1, <1>2, <1>5 DEF Bought, Other, PosSides
<1> QED BY <1>1, <1>5, <1>6 DEF Bought, Other, PosSides

(* The five things an order can do. *)
LEMMA AfterIs ==
  ASSUME holds \in [PosSides -> Nat], mode \in {"net", "hedge"},
         NEW w \in Wires, NEW q \in Nat
  PROVE  \/ After(w, q) = holds
         \/ /\ mode = "net" /\ w.pos = "net" /\ ~ w.reduce
            /\ After(w, q) = Netted(w.dir, q)
         \/ /\ mode = "net" /\ w.pos = "net" /\ w.reduce
            /\ After(w, q) = Netted(w.dir, Cut(q, Other(Bought(w.dir))))
         \/ /\ mode = "hedge" /\ w.pos \in PosSides /\ Adds(w, w.pos) /\ ~ w.reduce
            /\ After(w, q) = [holds EXCEPT ![w.pos] = @ + q]
         \/ /\ mode = "hedge" /\ w.pos \in PosSides /\ ~ Adds(w, w.pos)
            /\ After(w, q) = [holds EXCEPT ![w.pos] = @ - Cut(q, w.pos)]
<1>1. w.pos \in PosSides \cup {"net"} /\ "net" \notin PosSides
  BY DEF Wires, PosSides
<1>2. CASE \/ w.pos = "net" /\ mode # "net"
           \/ w.pos # "net" /\ mode = "net"
  <2>1. After(w, q) = holds
    BY <1>2 DEF After
  <2> QED BY <2>1
<1>3. CASE mode = "net" /\ w.pos = "net"
  <2>1. After(w, q) = Netted(w.dir, IF w.reduce THEN Cut(q, Other(Bought(w.dir))) ELSE q)
    BY <1>3 DEF After
  <2> QED BY <1>3, <2>1
<1>4. CASE mode = "hedge" /\ w.pos # "net" /\ Adds(w, w.pos) /\ w.reduce
  <2>1. After(w, q) = holds
    BY <1>4 DEF After
  <2> QED BY <2>1
<1>5. CASE mode = "hedge" /\ w.pos # "net" /\ Adds(w, w.pos) /\ ~ w.reduce
  <2>1. After(w, q) = [holds EXCEPT ![w.pos] = @ + q]
    BY <1>5 DEF After
  <2> QED BY <1>1, <1>5, <2>1
<1>6. CASE mode = "hedge" /\ w.pos # "net" /\ ~ Adds(w, w.pos)
  <2>1. After(w, q) = [holds EXCEPT ![w.pos] = @ - Cut(q, w.pos)]
    BY <1>6 DEF After
  <2> QED BY <1>1, <1>6, <2>1
<1> QED BY <1>2, <1>3, <1>4, <1>5, <1>6

LEMMA AfterTyped ==
  ASSUME holds \in [PosSides -> Nat], mode \in {"net", "hedge"},
         mode = "net" => holds["long"] = 0 \/ holds["short"] = 0,
         NEW w \in Wires, NEW q \in Nat
  PROVE  /\ After(w, q) \in [PosSides -> Nat]
         /\ mode = "net" => After(w, q)["long"] = 0 \/ After(w, q)["short"] = 0
<1>1. w.dir \in {"buy", "sell"} /\ Other(Bought(w.dir)) \in PosSides
  BY BothSides DEF Wires, Bought, PosSides
<1>2. Cut(q, Other(Bought(w.dir))) \in Nat
  BY <1>1, CutTyped
<1>3. \A s \in PosSides : holds[s] + q \in Nat /\ holds[s] - Cut(q, s) \in Nat
  BY CutTyped
<1>4. CASE After(w, q) = holds
  BY <1>4
<1>5. CASE mode = "net" /\ After(w, q) = Netted(w.dir, q)
  BY <1>1, <1>5, NettedTyped
<1>6. CASE mode = "net" /\ After(w, q) = Netted(w.dir, Cut(q, Other(Bought(w.dir))))
  BY <1>1, <1>2, <1>6, NettedTyped
<1>7. CASE mode = "hedge" /\ w.pos \in PosSides
           /\ \/ After(w, q) = [holds EXCEPT ![w.pos] = @ + q]
              \/ After(w, q) = [holds EXCEPT ![w.pos] = @ - Cut(q, w.pos)]
  BY <1>3, <1>7
<1> QED BY <1>4, <1>5, <1>6, <1>7, AfterIs

(* What only reduces adds to no position, however large it is.             *)
LEMMA AfterReduces ==
  ASSUME holds \in [PosSides -> Nat], mode \in {"net", "hedge"},
         NEW w \in Wires, NEW q \in Nat, OnlyReduces(w)
  PROVE  \A s \in PosSides : After(w, q)[s] <= holds[s]
<1> DEFINE b == Bought(w.dir)
           n == Cut(q, Other(b))
<1>1. w.dir \in {"buy", "sell"} /\ b \in PosSides /\ Other(b) \in PosSides /\ PosSides = {b, Other(b)}
  BY BothSides DEF Wires, Bought, PosSides
<1>2. n \in Nat /\ n <= holds[Other(b)]
  BY <1>1, CutTyped
<1>3. Cut(n, Other(b)) = n
  BY <1>2 DEF Cut
<1>4. \A s \in PosSides : Netted(w.dir, n)[s] <= holds[s]
  <2> HIDE DEF n
  <2>1. /\ Netted(w.dir, n)[b] = holds[b] + (n - n)
        /\ Netted(w.dir, n)[Other(b)] = holds[Other(b)] - n
    BY <1>1, <1>2, <1>3, NettedTyped
  <2>2. holds[b] \in Nat /\ holds[Other(b)] \in Nat
    BY <1>1
  <2> QED BY <1>1, <1>2, <2>1, <2>2
<1>5. \A s \in PosSides : Cut(q, s) \in Nat
  BY CutTyped
<1>6. CASE After(w, q) = holds
  BY <1>6
<1>7. CASE w.pos = "net" /\ w.reduce /\ After(w, q) = Netted(w.dir, n)
  BY <1>4, <1>7
<1>8. CASE w.pos \in PosSides /\ After(w, q) = [holds EXCEPT ![w.pos] = @ - Cut(q, w.pos)]
  BY <1>5, <1>8
<1> QED BY <1>6, <1>7, <1>8, AfterIs DEF OnlyReduces, PosSides

(* Whole lots traded against whole lots leave whole lots.                  *)
LEMMA AfterWhole ==
  ASSUME holds \in [PosSides -> Nat], mode \in {"net", "hedge"}, AllWhole(holds),
         NEW w \in Wires, NEW q \in Nat, FloorToLot(q) = q
  PROVE  AllWhole(After(w, q))
<1> DEFINE b == Bought(w.dir)
<1>1. w.dir \in {"buy", "sell"} /\ b \in PosSides /\ Other(b) \in PosSides /\ PosSides = {b, Other(b)}
  BY BothSides DEF Wires, Bought, PosSides
<1>2. \A m \in Nat, s \in PosSides :
        FloorToLot(m) = m => Cut(m, s) \in Nat /\ FloorToLot(Cut(m, s)) = Cut(m, s)
  BY DEF Cut, AllWhole
<1>3. ASSUME NEW m \in Nat, FloorToLot(m) = m
      PROVE  AllWhole(Netted(w.dir, m))
  <2> DEFINE c == Cut(m, Other(b))
  <2>1. c \in Nat /\ FloorToLot(c) = c /\ FloorToLot(m - c) = m - c
    <3>1. c \in Nat /\ FloorToLot(c) = c
      BY <1>1, <1>2, <1>3
    <3>2. m \in Int /\ c \in Int
      BY <3>1
    <3> QED BY <1>3, <3>1, <3>2, WholeSums, ZenonT(30)
  <2>2. /\ Netted(w.dir, m)[b] = holds[b] + (m - c)
        /\ Netted(w.dir, m)[Other(b)] = holds[Other(b)] - c
    BY <1>1, NettedTyped
  <2>3. holds[b] \in Int /\ holds[Other(b)] \in Int /\ m - c \in Int /\ c \in Int
    BY <1>1, <2>1
  <2>4. /\ FloorToLot(holds[b] + (m - c)) = holds[b] + (m - c)
        /\ FloorToLot(holds[Other(b)] - c) = holds[Other(b)] - c
    BY <1>1, <2>1, <2>3, WholeSums, ZenonT(30) DEF AllWhole
  <2> QED BY <1>1, <2>2, <2>4 DEF AllWhole
<1>4. \A s \in PosSides : /\ FloorToLot(holds[s] + q) = holds[s] + q
                          /\ FloorToLot(holds[s] - Cut(q, s)) = holds[s] - Cut(q, s)
  <2> SUFFICES ASSUME NEW s \in PosSides
               PROVE  /\ FloorToLot(holds[s] + q) = holds[s] + q
                      /\ FloorToLot(holds[s] - Cut(q, s)) = holds[s] - Cut(q, s)
    OBVIOUS
  <2>1. holds[s] \in Int /\ q \in Int /\ Cut(q, s) \in Int
    BY <1>2
  <2> QED BY <1>2, <2>1, WholeSums, ZenonT(30) DEF AllWhole
<1>5. CASE After(w, q) = holds
  BY <1>5
<1>6. CASE After(w, q) = Netted(w.dir, q)
  BY <1>3, <1>6
<1>7. CASE After(w, q) = Netted(w.dir, Cut(q, Other(b)))
  BY <1>1, <1>2, <1>3, <1>7
<1>8. CASE w.pos \in PosSides /\ \/ After(w, q) = [holds EXCEPT ![w.pos] = @ + q]
                                 \/ After(w, q) = [holds EXCEPT ![w.pos] = @ - Cut(q, w.pos)]
  BY <1>4, <1>8 DEF AllWhole
<1> QED BY <1>5, <1>6, <1>7, <1>8, AfterIs

-----------------------------------------------------------------------------
(* Steps of a caller that leave the account alone                          *)

LEMMA PositionsTyped ==
  ASSUME VenueTyped
  PROVE  /\ \A s \in PosSides : PositionOf(s) \in Positions
         /\ GetPositions \subseteq Positions
<1> SUFFICES ASSUME NEW s \in PosSides PROVE PositionOf(s) \in Positions
  BY DEF GetPositions
<1>1. holds[s] \in Int
  BY DEF VenueTyped
<1>2. BySign(s) \in Positions /\ OKXPosition(s) \in Positions /\ BitgetPosition(s) \in Positions
      /\ BybitPosition(s) \in Positions
  BY <1>1 DEF BySign, OKXPosition, BitgetPosition, BybitPosition, Position, Positions, SideOf,
              Absolute, Signed, PosSides
<1> QED
  BY <1>2 DEF PositionOf, BinancePosition, GatePosition, KuCoinPosition, HyperliquidPosition

LEMMA SameCalm ==
  ASSUME UNCHANGED <<venue, mode, holds>>, NEW k
  PROVE  Calm(k) <=> Calm(k)'
BY DEF Calm, ClosesWork, AsHeld, Ordered, AtMostALot, Position

LEMMA SameAdapter ==
  ASSUME UNCHANGED venue
  PROVE  /\ \A o : Sends(o)' = Sends(o)
         /\ \A o : (Formats(o) <=> Formats(o)')
         /\ \A q : FormatQuantity(q)' = FormatQuantity(q)
<1>1. \A o : Sends(o)' = Sends(o)
  BY DEF Sends, BinanceOrder, OKXOrder, BybitOrder, GateOrder, KuCoinOrder, BitgetOrder,
         HyperliquidOrder
<1>2. \A o : (Formats(o) <=> Formats(o)')
  BY DEF Formats
<1>3. \A q : FormatQuantity(q)' = FormatQuantity(q)
  BY DEF FormatQuantity
<1> QED BY <1>1, <1>2, <1>3

LEMMA CallerStep ==
  ASSUME VenueInv, UNCHANGED <<venue, mode, holds, lever, resting, reported>>,
         NEW c \in Callers, NEW k \in Sent, caller' = [caller EXCEPT ![c] = k],
         AsAsked(k), Levered(k), Calm(k)
  PROVE  VenueInv'
<1>1. caller' \in [Callers -> Sent] /\ \A d \in Callers : caller'[d] = IF d = c THEN k ELSE caller[d]
  BY DEF VenueInv, VenueTyped
<1>2. VenueTyped'
  BY <1>1 DEF VenueInv, VenueTyped
<1>3. RestingInv'
  BY SameAdapter DEF VenueInv, RestingInv
<1>4. FormattedInv'
  BY <1>1, SameAdapter DEF VenueInv, FormattedInv, AsAsked
<1>5. LeverInv'
  BY <1>1 DEF VenueInv, LeverInv, Levered
<1>6. WholeInv' /\ FillsInv'
  BY DEF VenueInv, WholeInv, Exact, AllWhole, FillsInv
<1>7. CalmInv'
  BY <1>1, SameCalm DEF VenueInv, CalmInv
<1> QED BY <1>2, <1>3, <1>4, <1>5, <1>6, <1>7 DEF VenueInv

(* A call begins with a quantity above zero, whatever it was asked for.    *)
LEMMA BeginKeeps ==
  ASSUME VenueInv, NEW c \in Callers,
         NEW o \in [kind : {"open", "close", "stop"}, pos : PosSides, qty : Int, lev : Nat],
         NEW from \in Sent, Begin(c, o, from),
         o.kind = "close" \/ o.qty > 0,
         from.calm /\ ClosesWork =>
           /\ o.kind = "close"
           /\ AsHeld(o)
           /\ Position(o.pos, o.qty) \notin from.todo
           /\ \A p \in from.todo : AsHeld(p)
           /\ \A s \in PosSides : holds[s] > 0 =>
                Position(s, holds[s]) \in from.todo \/ o.pos = s \/ AtMostALot(s)
  PROVE  VenueInv'
<1>1. PICK q \in Sized(o) :
        /\ Accepted(o, q)
        /\ caller' = [caller EXCEPT ![c] =
             [from EXCEPT !.pc = "leverage", !.order = o, !.levered = FALSE, !.qty = q]]
  BY DEF Begin
<1> DEFINE k == [from EXCEPT !.pc = "leverage", !.order = o, !.levered = FALSE, !.qty = q]
<1>2. /\ q \in Int /\ q > 0 /\ o.qty > 0
      /\ Formats(o) => q \in FormatQuantity(o.qty)
      /\ ~ Formats(o) => q = o.qty
  <2>1. o.kind = "close" => Formats(o)
    BY DEF Formats, Conditional
  <2>2. CASE Formats(o)
    <3>1. q \in FormatQuantity(o.qty) /\ q > 0
      BY <1>1, <2>2 DEF Sized, Accepted
    <3>2. o.qty \in Int /\ venue \in Modelled
      BY VenueAssumption DEF VenueInv, VenueTyped
    <3> QED BY <2>2, <3>1, <3>2, Formatted
  <2>3. CASE ~ Formats(o)
    <3>1. q = o.qty
      BY <1>1, <2>3 DEF Sized
    <3> QED BY <2>1, <2>3, <3>1
  <2> QED BY <2>2, <2>3
<1>3. o \in AskedOrders
  BY <1>2 DEF AskedOrders
<1>4. k \in Sent
  <2>1. q \in Nat
    BY <1>2
  <2>2. ASSUME NEW n \in Nat
        PROVE  [from EXCEPT !.pc = "leverage", !.order = o, !.levered = FALSE, !.qty = n] \in Sent
    BY <1>3 DEF Sent
  <2> QED BY <2>1, <2>2
<1>5. k.pc = "leverage" /\ k.order = o /\ ~ k.levered /\ k.qty = q /\ k.calm = from.calm
      /\ k.todo = from.todo
  BY DEF Sent
<1> HIDE DEF k
<1>6. AsAsked(k) /\ Levered(k)
  BY <1>2, <1>5 DEF AsAsked, Levered
<1>7. Calm(k)
  BY <1>5 DEF Calm, Ordered
<1>8. caller' = [caller EXCEPT ![c] = k] /\ UNCHANGED <<venue, mode, holds, lever, resting, reported>>
  BY <1>1 DEF Begin, k
<1> QED BY <1>4, <1>6, <1>7, <1>8, CallerStep

LEMMA IdleTyped == Idle \in Sent /\ ~ Idle.calm /\ ~ Idle.levered /\ Idle.pc = "idle"
BY DEF Idle, Sent, AskedOrders, Asked, PosSides

LEMMA GuardingTyped ==
  ASSUME NEW c \in Callers, caller[c] \in Sent, NEW calm \in BOOLEAN
  PROVE  /\ Guarding(c, calm) \in Sent
         /\ Guarding(c, calm).pc \in {"idle", "guard"}
         /\ ~ Guarding(c, calm).levered
         /\ Guarding(c, calm).calm =>
              /\ calm /\ caller[c].todo # {}
              /\ Guarding(c, calm).pc = "guard"
              /\ Guarding(c, calm).todo = caller[c].todo
BY IdleTyped DEF Guarding, Sent

(* Where the guard's orders get through, a position is listed as it is.    *)
LEMMA ListedTrue ==
  ASSUME VenueTyped, NEW s \in PosSides, holds[s] > 0,
         ClosesWork
  PROVE  PositionOf(s) = Position(s, holds[s])
<1>1. holds[s] \in Nat /\ (mode = "hedge" => venue \in {"binance", "okx", "bybit"})
  BY VenueAssumption DEF VenueTyped
<1>4. venue \in {"binance", "okx", "bybit"} => mode = "hedge"
  BY DEF ClosesWork
<1>2. BySign(s) = Position(s, holds[s]) /\ BybitPosition(s) = Position(s, holds[s])
  BY <1>1 DEF BySign, BybitPosition, Signed, SideOf, Absolute, PosSides
<1>3. mode = "hedge" => OKXPosition(s) = Position(s, holds[s])
  BY DEF OKXPosition
<1> QED
  BY <1>1, <1>2, <1>3, <1>4 DEF PositionOf, BinancePosition, GatePosition, KuCoinPosition,
                          HyperliquidPosition, BitgetPosition

LEMMA LocalSteps ==
  ASSUME VenueInv, NEW c \in Callers,
         Decide(c) \/ ReadPositions(c) \/ GuardCloses(c) \/ PostFails(c)
  PROVE  VenueInv'
<1> DEFINE k == caller[c]
<1>1. k \in Sent /\ AsAsked(k) /\ Levered(k) /\ Calm(k)
  BY DEF VenueInv, VenueTyped, FormattedInv, LeverInv, CalmInv
<1>2. CASE Decide(c)
  <2>1. PICK kind \in {"open", "close", "stop"}, pos \in PosSides, qty \in Amounts,
             lev \in Leverages \cup {0} : Begin(c, Asked(kind, pos, qty, lev), Idle)
    BY <1>2 DEF Decide
  <2>2. qty \in Int /\ qty > 0 /\ lev \in Nat
    BY VenueAssumption
  <2>3. /\ Asked(kind, pos, qty, lev)
             \in [kind : {"open", "close", "stop"}, pos : PosSides, qty : Int, lev : Nat]
        /\ Asked(kind, pos, qty, lev).qty > 0
    BY <2>2 DEF Asked
  <2> QED BY <2>1, <2>3, IdleTyped, BeginKeeps
<1>3. CASE ReadPositions(c)
  <2> DEFINE n == [Idle EXCEPT !.pc = "guard", !.calm = TRUE, !.todo = GetPositions]
  <2>1. n \in Sent
    BY IdleTyped, PositionsTyped DEF VenueInv, Sent
  <2>2. n.pc = "guard" /\ ~ n.levered /\ n.todo = GetPositions
    BY IdleTyped DEF Sent
  <2>3. AsAsked(n) /\ Levered(n)
    BY <2>2 DEF AsAsked, Levered
  <2>4. ClosesWork => \A s \in PosSides : holds[s] > 0 =>
          PositionOf(s) = Position(s, holds[s])
    BY ListedTrue DEF VenueInv
  <2>5. Calm(n)
    <3>1. ClosesWork => \A p \in GetPositions : AsHeld(p)
      BY <2>4 DEF GetPositions, AsHeld, Position
    <3>2. ClosesWork => \A s \in PosSides : holds[s] > 0 => Position(s, holds[s]) \in GetPositions
      BY <2>4 DEF GetPositions
    <3> QED BY <2>2, <3>1, <3>2 DEF Calm
  <2>6. caller' = [caller EXCEPT ![c] = n] /\ UNCHANGED <<venue, mode, holds, lever, resting, reported>>
    BY <1>3 DEF ReadPositions
  <2> QED BY <2>1, <2>3, <2>5, <2>6, CallerStep
<1>4. CASE GuardCloses(c)
  <2>1. PICK p \in k.todo :
          LET o == Asked("close", p.pos, p.qty, 0)
              rest == [k EXCEPT !.todo = @ \ {p}]
          IN  \/ Begin(c, o, rest)
              \/ /\ caller' = [caller EXCEPT ![c] =
                      IF rest.todo = {} THEN Idle ELSE [rest EXCEPT !.calm = FALSE]]
                 /\ UNCHANGED <<venue, mode, holds, lever, resting, reported>>
    BY <1>4 DEF GuardCloses
  <2> DEFINE o == Asked("close", p.pos, p.qty, 0)
             rest == [k EXCEPT !.todo = @ \ {p}]
             past == [rest EXCEPT !.calm = FALSE]
  <2>2. p \in Positions /\ p = Position(p.pos, p.qty) /\ k.pc = "guard"
    BY <1>1, <1>4 DEF Sent, Positions, Position, GuardCloses
  <2>3. /\ rest \in Sent /\ rest.calm = k.calm /\ rest.todo = k.todo \ {p}
        /\ past \in Sent /\ ~ past.calm /\ past.levered = k.levered /\ past.order = k.order
        /\ past.pc = "guard"
    BY <1>1, <2>2 DEF Sent
  <2>4. /\ o \in [kind : {"open", "close", "stop"}, pos : PosSides, qty : Int, lev : Nat]
        /\ o.kind = "close" /\ o.pos = p.pos /\ o.qty = p.qty
    BY <2>2 DEF Asked, Positions
  <2>5. CASE Begin(c, o, rest)
    <3>1. k.calm /\ ClosesWork =>
            /\ \A m \in k.todo : AsHeld(m)
            /\ \A s \in PosSides : holds[s] > 0 =>
                 Position(s, holds[s]) \in k.todo \/ AtMostALot(s)
      BY <1>1, <2>2 DEF Calm, Ordered
    <3>2. rest.calm /\ ClosesWork =>
            /\ o.kind = "close"
            /\ AsHeld(o)
            /\ Position(o.pos, o.qty) \notin rest.todo
            /\ \A m \in rest.todo : AsHeld(m)
            /\ \A s \in PosSides : holds[s] > 0 =>
                 Position(s, holds[s]) \in rest.todo \/ o.pos = s \/ AtMostALot(s)
      <4>1. AsHeld(p) => AsHeld(o)
        BY <2>4 DEF AsHeld
      <4>2. Position(o.pos, o.qty) = p
        BY <2>2, <2>4
      <4>3. \A s : Position(s, holds[s]) = p => p.pos = s
        BY DEF Position
      <4> HIDE DEF o, rest
      <4> QED BY <2>3, <2>4, <3>1, <4>1, <4>2, <4>3
    <3> HIDE DEF o, rest
    <3> QED BY <2>3, <2>4, <2>5, <3>2, BeginKeeps
  <2>6. CASE /\ caller' = [caller EXCEPT ![c] = IF rest.todo = {} THEN Idle ELSE past]
             /\ UNCHANGED <<venue, mode, holds, lever, resting, reported>>
    <3>1. AsAsked(past) /\ Levered(past) /\ Calm(past)
      BY <1>1, <2>3 DEF AsAsked, Levered, Calm
    <3>2. AsAsked(Idle) /\ Levered(Idle) /\ Calm(Idle)
      BY IdleTyped DEF AsAsked, Levered, Calm
    <3>3. CASE rest.todo = {}
      <4>1. caller' = [caller EXCEPT ![c] = Idle]
        BY <2>6, <3>3
      <4> QED BY <2>6, <3>2, <4>1, IdleTyped, CallerStep
    <3>4. CASE rest.todo # {}
      <4>1. caller' = [caller EXCEPT ![c] = past]
        BY <2>6, <3>4
      <4> QED BY <2>3, <2>6, <3>1, <4>1, CallerStep
    <3> QED BY <3>3, <3>4
  <2> QED BY <2>1, <2>5, <2>6
<1>5. CASE PostFails(c)
  <2> DEFINE n == Guarding(c, FALSE)
  <2>1. n \in Sent /\ AsAsked(n) /\ Levered(n) /\ Calm(n)
    BY <1>1, GuardingTyped DEF AsAsked, Levered, Calm
  <2>2. caller' = [caller EXCEPT ![c] = n] /\ UNCHANGED <<venue, mode, holds, lever, resting, reported>>
    BY <1>5 DEF PostFails
  <2> QED BY <2>1, <2>2, CallerStep
<1> QED BY <1>2, <1>3, <1>4, <1>5

(* The leverage is the account's: whoever set it before has lost it.       *)
LEMMA LeverageStep ==
  ASSUME VenueInv, NEW c \in Callers, SetLeverage(c)
  PROVE  VenueInv'
<1> DEFINE k == caller[c]
<1>1. k \in Sent /\ AsAsked(k) /\ Levered(k) /\ Calm(k) /\ k.pc = "leverage"
  BY DEF VenueInv, VenueTyped, FormattedInv, LeverInv, CalmInv, SetLeverage
<1>2. CASE caller' = [caller EXCEPT ![c].pc = "post"] /\ UNCHANGED lever
  <2> DEFINE n == [k EXCEPT !.pc = "post"]
  <2>1. n \in Sent /\ AsAsked(n) /\ Levered(n) /\ Calm(n)
    BY <1>1 DEF Sent, AsAsked, Levered, Calm, Ordered
  <2>2. caller' = [caller EXCEPT ![c] = n] /\ UNCHANGED <<venue, mode, holds, lever, resting, reported>>
    BY <1>2 DEF SetLeverage
  <2> QED BY <2>1, <2>2, CallerStep
<1>3. CASE /\ SetsLeverage(k.order) /\ lever' = LeverageSent(k.order)
           /\ caller' = [d \in Callers |->
                IF d = c THEN [caller[c] EXCEPT !.pc = "post", !.levered = TRUE]
                ELSE [caller[d] EXCEPT !.levered = FALSE]]
  <2>1. UNCHANGED <<venue, mode, holds, resting, reported>>
    BY DEF SetLeverage
  <2>2. \A d \in Callers :
          /\ caller[d] \in Sent
          /\ caller'[d] = IF d = c THEN [caller[d] EXCEPT !.pc = "post", !.levered = TRUE]
                          ELSE [caller[d] EXCEPT !.levered = FALSE]
    BY <1>3 DEF VenueInv, VenueTyped
  <2>3. \A d \in Callers :
          /\ caller'[d] \in Sent
          /\ caller'[d].pc = IF d = c THEN "post" ELSE caller[d].pc
          /\ caller'[d].levered <=> d = c
          /\ caller'[d].todo = caller[d].todo /\ caller'[d].order = caller[d].order
          /\ caller'[d].qty = caller[d].qty /\ caller'[d].calm = caller[d].calm
    <3> SUFFICES ASSUME NEW d \in Callers
                 PROVE  /\ caller'[d] \in Sent
                        /\ caller'[d].pc = IF d = c THEN "post" ELSE caller[d].pc
                        /\ caller'[d].levered <=> d = c
                        /\ caller'[d].todo = caller[d].todo /\ caller'[d].order = caller[d].order
                        /\ caller'[d].qty = caller[d].qty /\ caller'[d].calm = caller[d].calm
      OBVIOUS
    <3>1. CASE d = c
      <4>1. caller'[d] = [caller[d] EXCEPT !.pc = "post", !.levered = TRUE] /\ caller[d] \in Sent
        BY <2>2, <3>1
      <4> QED BY <3>1, <4>1 DEF Sent
    <3>2. CASE d # c
      <4>1. caller'[d] = [caller[d] EXCEPT !.levered = FALSE] /\ caller[d] \in Sent
        BY <2>2, <3>2
      <4> QED BY <3>2, <4>1 DEF Sent
    <3> QED BY <3>1, <3>2
  <2>4. lever' = k.order.lev /\ lever' \in Nat
    BY <1>1, <1>3 DEF LeverageSent, Sent, AskedOrders
  <2>5. VenueTyped'
    BY <1>3, <2>1, <2>3, <2>4 DEF VenueInv, VenueTyped
  <2>6. RestingInv' /\ WholeInv' /\ FillsInv'
    BY <2>1, SameAdapter DEF VenueInv, RestingInv, WholeInv, Exact, AllWhole, FillsInv
  <2>7. FormattedInv'
    BY <1>1, <2>1, <2>3, SameAdapter DEF VenueInv, FormattedInv, AsAsked
  <2>8. LeverInv'
    BY <2>3, <2>4 DEF LeverInv, Levered
  <2>9. CalmInv'
    BY <1>1, <2>1, <2>3 DEF VenueInv, CalmInv, Calm, ClosesWork, AsHeld, Ordered, AtMostALot, Position
  <2> QED BY <2>5, <2>6, <2>7, <2>8, <2>9 DEF VenueInv
<1> QED BY <1>2, <1>3 DEF SetLeverage

-----------------------------------------------------------------------------
(* Executions                                                              *)

(* Whoever trades, the invariant is kept if what the callers are about to  *)
(* send is left alone, and whoever is still calm has the right list.       *)
LEMMA Execution ==
  ASSUME VenueInv, NEW w \in Wires, NEW q \in Nat,
         Fits(After(w, q)), Executes(After(w, q)),
         UNCHANGED <<venue, mode, lever>>, resting' \subseteq resting,
         Exact => After(w, q) = holds \/ FloorToLot(q) = q,
         caller' \in [Callers -> Sent],
         FormattedInv', LeverInv', CalmInv'
  PROVE  VenueInv'
<1> DEFINE h == After(w, q)
<1>1. holds \in [PosSides -> Nat]
  BY VenueAssumption DEF VenueInv, VenueTyped
<1>2. h \in [PosSides -> Nat] /\ (mode = "net" => h["long"] = 0 \/ h["short"] = 0)
  BY <1>1, AfterTyped DEF VenueInv, VenueTyped
<1>3. h \in [PosSides -> 0..MaxHeld] /\ holds' = h
  BY <1>2, VenueAssumption DEF Fits, PosSides, Executes
<1>4. Net(h) \in Int /\ Net(holds) \in Int
  BY <1>1, <1>2 DEF Net, PosSides
<1>5. reported' = Net(h)
  <2>1. Learned(FillOf(Listed(Net(h) - Net(holds)))) = Net(h) - Net(holds)
    BY <1>4, FillsComeBack DEF VenueInv, VenueTyped
  <2>2. reported' = IF h = holds THEN reported
                    ELSE reported + Learned(FillOf(Listed(Net(h) - Net(holds))))
    BY DEF Executes
  <2> QED BY <1>4, <2>1, <2>2 DEF VenueInv, FillsInv
<1>6. VenueTyped'
  BY <1>2, <1>3, <1>4, <1>5 DEF VenueInv, VenueTyped
<1>7. RestingInv'
  BY SameAdapter DEF VenueInv, RestingInv
<1>8. WholeInv'
  <2>1. ASSUME Exact PROVE AllWhole(h)
    BY <1>1, <2>1, AfterWhole DEF VenueInv, VenueTyped, WholeInv
  <2>2. Exact' => Exact
    BY DEF Exact
  <2> QED BY <1>3, <2>1, <2>2 DEF WholeInv, AllWhole
<1>9. FillsInv'
  BY <1>3, <1>5 DEF FillsInv, Net
<1> QED BY <1>6, <1>7, <1>8, <1>9 DEF VenueInv

(* Of whoever was disturbed, what matters is left alone but for the calm.  *)
LEMMA DisturbedKeeps ==
  ASSUME VenueInv, NEW D \in SUBSET Callers
  PROVE  /\ Disturbed(D) \in [Callers -> Sent]
         /\ \A d \in D : ~ Disturbed(D)[d].calm
         /\ \A d \in Callers : /\ Disturbed(D)[d].pc = caller[d].pc
                               /\ Disturbed(D)[d].order = caller[d].order
                               /\ Disturbed(D)[d].qty = caller[d].qty
                               /\ Disturbed(D)[d].levered = caller[d].levered
<1> SUFFICES ASSUME NEW d \in Callers
             PROVE  /\ Disturbed(D)[d] \in Sent
                    /\ d \in D => ~ Disturbed(D)[d].calm
                    /\ Disturbed(D)[d].pc = caller[d].pc
                    /\ Disturbed(D)[d].order = caller[d].order
                    /\ Disturbed(D)[d].qty = caller[d].qty
                    /\ Disturbed(D)[d].levered = caller[d].levered
  BY DEF Disturbed
<1>1. caller[d] \in Sent
  BY DEF VenueInv, VenueTyped
<1>2. CASE d \in D
  <2>1. Disturbed(D)[d] = [caller[d] EXCEPT !.calm = FALSE]
    BY <1>2 DEF Disturbed
  <2> QED BY <1>1, <2>1 DEF Sent
<1>3. CASE d \notin D
  <2>1. Disturbed(D)[d] = caller[d]
    BY <1>3 DEF Disturbed
  <2> QED BY <1>1, <1>3, <2>1
<1> QED BY <1>2, <1>3

(* The owner, or an order that waited: everybody is disturbed.             *)
LEMMA OthersTrade ==
  ASSUME VenueInv, NEW w \in Wires, NEW q \in Nat,
         Fits(After(w, q)), Executes(After(w, q)),
         UNCHANGED <<venue, mode, lever>>, resting' \subseteq resting,
         Exact => After(w, q) = holds \/ FloorToLot(q) = q,
         caller' = Disturbed(Callers)
  PROVE  VenueInv'
<1>1. \A d \in Callers : /\ ~ caller'[d].calm
                         /\ caller'[d].pc = caller[d].pc
                         /\ caller'[d].order = caller[d].order
                         /\ caller'[d].qty = caller[d].qty
                         /\ caller'[d].levered = caller[d].levered
  BY DisturbedKeeps
<1>2. FormattedInv'
  BY <1>1, SameAdapter DEF VenueInv, FormattedInv, AsAsked
<1>3. LeverInv' /\ CalmInv'
  BY <1>1 DEF VenueInv, LeverInv, Levered, CalmInv, Calm
<1> QED BY <1>2, <1>3, DisturbedKeeps, Execution

(* A conditional order triggers: in hedge mode it names no side, and is    *)
(* refused; Gate has formatted it.                                         *)
LEMMA TriggerStep ==
  ASSUME VenueInv, Trigger
  PROVE  VenueInv'
<1>1. PICK r \in resting : /\ Fits(After(r.wire, r.qty))
                           /\ Executes(After(r.wire, r.qty))
                           /\ resting' = resting \ {r}
                           /\ caller' = Disturbed(Callers)
  BY DEF Trigger
<1>2. r.wire \in Wires /\ r.qty \in Nat /\ r.asked \in AskedOrders
  BY DEF VenueInv, VenueTyped
<1>3. ASSUME mode = "hedge" PROVE After(r.wire, r.qty) = holds
  <2>1. venue \in {"binance", "okx", "bybit"} /\ r.wire = Sends(r.asked) /\ r.wire.waits
    BY <1>3 DEF VenueInv, VenueTyped, RestingInv
  <2>2. r.wire.pos = "net"
    BY <1>2, <2>1 DEF Sends, BinanceOrder, OKXOrder, BybitOrder, Wire
  <2> QED BY <1>3, <2>2 DEF After
<1>4. venue = "gate" => FloorToLot(r.qty) = r.qty
  BY DEF VenueInv, RestingInv
<1>5. UNCHANGED <<venue, mode, lever>>
  BY DEF Trigger
<1> QED BY <1>1, <1>2, <1>3, <1>4, <1>5, OthersTrade DEF Exact

LEMMA OwnerStep ==
  ASSUME VenueInv, OwnerTrades
  PROVE  VenueInv'
<1>1. PICK dir \in {"buy", "sell"}, pos \in PosSides :
        LET w == Wire(dir, IF mode = "net" THEN "net" ELSE pos, FALSE, FALSE)
        IN  Fits(After(w, 2)) /\ Executes(After(w, 2))
  BY DEF OwnerTrades
<1> DEFINE w == Wire(dir, IF mode = "net" THEN "net" ELSE pos, FALSE, FALSE)
<1>2. w \in Wires /\ FloorToLot(2) = 2 /\ 2 \in Nat
  BY DEF Wire, Wires, FloorToLot
<1>3. UNCHANGED <<venue, mode, lever>> /\ resting' \subseteq resting /\ caller' = Disturbed(Callers)
  BY DEF OwnerTrades
<1> QED BY <1>1, <1>2, <1>3, OthersTrade

(* Where closes work, a close takes from its side only what it can.        *)
LEMMA CloseIs ==
  ASSUME VenueInv, ClosesWork, NEW o \in AskedOrders, o.kind = "close", holds[o.pos] > 0,
         NEW q \in Nat
  PROVE  After(Sends(o), q) = [holds EXCEPT ![o.pos] = @ - Cut(q, o.pos)]
<1> DEFINE w == Sends(o)
           s == o.pos
<1>1. /\ venue \in Modelled /\ holds \in [PosSides -> Nat] /\ mode \in {"net", "hedge"}
      /\ mode = "hedge" => venue \in {"binance", "okx", "bybit"}
      /\ s \in PosSides
  BY VenueAssumption DEF VenueInv, VenueTyped, AskedOrders
<1>2. CASE mode = "hedge"
  <2>1. w.pos = s /\ w.dir = (IF s = "long" THEN "sell" ELSE "buy")
    BY <1>1, <1>2 DEF Sends, BinanceOrder, OKXOrder, BybitOrder, Wire, Conditional, Direction
  <2>2. ~ Adds(w, w.pos) /\ w.pos # "net"
    BY <1>1, <2>1 DEF Adds, Bought, PosSides
  <2> QED BY <1>2, <2>1, <2>2 DEF After
<1>3. CASE mode = "net"
  <2> DEFINE n == Cut(q, s)
  <2>1. venue \in {"gate", "kucoin", "hyperliquid"}
    BY <1>1, <1>3 DEF ClosesWork, Modelled
  <2>2. w.pos = "net" /\ w.reduce /\ w.dir = (IF s = "long" THEN "sell" ELSE "buy")
    BY <2>1 DEF Sends, GateOrder, KuCoinOrder, HyperliquidOrder, Wire, Conditional, Closing,
                Direction
  <2>3. Bought(w.dir) = Other(s) /\ Other(Other(s)) = s /\ Other(s) \in PosSides /\ Other(s) # s
    BY <1>1, <2>2 DEF Bought, Other, PosSides
  <2>4. After(w, q) = Netted(w.dir, n)
    BY <1>3, <2>2, <2>3 DEF After
  <2>5. n \in Nat /\ Cut(n, s) = n
    BY <1>1 DEF Cut
  <2>6. Netted(w.dir, n) = [holds EXCEPT ![s] = @ - n, ![Other(s)] = @ + (n - n)]
    BY <2>3, <2>5 DEF Netted
  <2>7. holds[Other(s)] + (n - n) = holds[Other(s)]
    BY <1>1, <2>3, <2>5
  <2>8. Netted(w.dir, n) = [holds EXCEPT ![s] = @ - n]
    BY <1>1, <2>3, <2>6, <2>7
  <2> QED BY <2>4, <2>8
<1> QED BY <1>1, <1>2, <1>3

(* Formatted to q, a close of all of a side leaves a remnant of it.        *)
LEMMA LeavesRemnant ==
  ASSUME VenueInv, ClosesWork, NEW s \in PosSides, holds[s] > 0,
         NEW q \in FormatQuantity(holds[s]), q > 0
  PROVE  /\ Remnant(holds[s], holds[s] - Cut(q, s))
         /\ mode = "hedge" /\ holds[s] - Cut(q, s) > 0 =>
              venue \in {"binance", "bybit"} /\ holds[s] - Cut(q, s) <= 2
<1> DEFINE left == holds[s] - Cut(q, s)
<1>1. holds[s] \in Int /\ venue \in Modelled
      /\ (mode = "hedge" => venue \in {"binance", "okx", "bybit"})
  BY VenueAssumption DEF VenueInv, VenueTyped
<1>2. /\ q \in Int /\ Near(holds[s], q)
      /\ venue \in {"okx", "gate"} => q = FloorToLot(holds[s])
  BY <1>1, Formatted
<1>3. /\ holds[s] <= q => left = 0
      /\ q < holds[s] => left = holds[s] - q
  BY <1>1, <1>2 DEF Cut
<1>4. CASE venue \in {"okx", "gate"}
  <2>1. Exact
    BY <1>1, <1>4 DEF Exact, ClosesWork
  <2>2. q = holds[s]
    BY <1>2, <1>4, <2>1 DEF VenueInv, WholeInv, AllWhole
  <2>3. left = 0
    BY <1>1, <1>3, <2>2
  <2> QED BY <2>3 DEF Remnant
<1>5. CASE venue = "kucoin"
  <2>1. left <= 1
    BY <1>1, <1>2, <1>3, <1>5 DEF Near, Absolute
  <2> QED BY <1>1, <1>5, <2>1 DEF Remnant
<1>6. CASE venue = "hyperliquid"
  <2>1. PICK u \in Scales : Unit(u, holds[s]) /\ 2 * Absolute(q - holds[s]) <= u
    BY <1>2, <1>6 DEF Near
  <2>2. u \in Nat
    BY VenueAssumption
  <2>3. 2 * left <= u
    BY <1>1, <1>2, <1>3, <2>1, <2>2 DEF Absolute
  <2> QED BY <1>1, <1>6, <2>1, <2>3 DEF Remnant
<1>7. CASE venue \in {"binance", "bybit"}
  <2>1. left <= 2
    BY <1>1, <1>2, <1>3, <1>7 DEF Near
  <2> QED BY <1>7, <2>1 DEF Remnant
<1> QED BY <1>1, <1>4, <1>5, <1>6, <1>7 DEF Modelled, ClosesWork

(* The order of an undisturbed guard takes all but a remnant of the side   *)
(* it is for, and leaves the other side as it is.                          *)
LEMMA CalmPost ==
  ASSUME VenueInv, ClosesWork, NEW c \in Callers, caller[c].calm, caller[c].pc = "post"
  PROVE  LET k == caller[c]
             s == k.order.pos
             h == After(Sends(k.order), k.qty)
         IN  /\ s \in PosSides /\ holds[s] > 0 /\ h = [holds EXCEPT ![s] = h[s]]
             /\ Remnant(holds[s], h[s])
             /\ mode = "hedge" /\ h[s] > 0 => venue \in {"binance", "bybit"} /\ h[s] <= 2
<1> DEFINE k == caller[c]
           o == k.order
           s == o.pos
           h == After(Sends(o), k.qty)
<1>1. k \in Sent /\ o \in AskedOrders /\ k.qty \in Nat /\ AsAsked(k) /\ Calm(k) /\ s \in PosSides
  BY DEF VenueInv, VenueTyped, FormattedInv, CalmInv, Sent, AskedOrders
<1>2. o.kind = "close" /\ holds[s] = o.qty /\ o.qty > 0
  BY <1>1 DEF Calm, AsHeld
<1>3. k.qty \in FormatQuantity(holds[s]) /\ k.qty > 0
  BY <1>1, <1>2 DEF AsAsked, Formats, Conditional
<1>4. h = [holds EXCEPT ![s] = @ - Cut(k.qty, s)]
  BY <1>1, <1>2, CloseIs
<1>5. h[s] = holds[s] - Cut(k.qty, s) /\ h = [holds EXCEPT ![s] = h[s]]
  BY <1>1, <1>4 DEF VenueInv, VenueTyped
<1>6. Remnant(holds[s], holds[s] - Cut(k.qty, s))
      /\ (mode = "hedge" /\ holds[s] - Cut(k.qty, s) > 0 =>
              venue \in {"binance", "bybit"} /\ holds[s] - Cut(k.qty, s) <= 2)
  BY <1>1, <1>2, <1>3, LeavesRemnant
<1> QED BY <1>1, <1>2, <1>5, <1>6

(* After it the guard's list is still right.                               *)
LEMMA CalmAfter ==
  ASSUME VenueInv, NEW c \in Callers, caller[c].calm, caller[c].pc = "post",
         caller[c].todo # {}, UNCHANGED <<venue, mode>>,
         holds' = After(Sends(caller[c].order), caller[c].qty),
         NEW k \in Sent, k.pc = "guard", k.todo = caller[c].todo
  PROVE  Calm(k)'
<1> SUFFICES ASSUME ClosesWork
             PROVE  /\ \A p \in k.todo : AsHeld(p)'
                    /\ \A t \in PosSides : holds'[t] > 0 =>
                         Position(t, holds'[t]) \in k.todo \/ AtMostALot(t)'
  BY DEF Calm, ClosesWork, Ordered, Position
<1> DEFINE o == caller[c].order
           s == o.pos
<1>1. /\ s \in PosSides /\ holds[s] > 0 /\ holds' = [holds EXCEPT ![s] = holds'[s]]
      /\ mode = "hedge" /\ holds'[s] > 0 => venue \in {"binance", "bybit"} /\ holds'[s] <= 2
  BY CalmPost
<1>2. \A t \in PosSides : t # s => holds'[t] = holds[t]
  BY <1>1 DEF VenueInv, VenueTyped
<1>3. /\ \A p \in k.todo : AsHeld(p) /\ p \in Positions
      /\ AsHeld(o) /\ Position(s, o.qty) \notin k.todo
      /\ \A t \in PosSides : holds[t] > 0 =>
           Position(t, holds[t]) \in k.todo \/ t = s \/ AtMostALot(t)
  BY DEF VenueInv, CalmInv, Calm, Ordered, Sent
<1>4. \A p \in k.todo : p.pos \in PosSides /\ p.pos # s
  <2> SUFFICES ASSUME NEW p \in k.todo, p.pos = s PROVE FALSE
    BY <1>3 DEF Positions
  <2>1. p = Position(s, o.qty)
    BY <1>3 DEF AsHeld, Position, Positions
  <2> QED BY <1>3, <2>1
<1>5. \A p \in k.todo : AsHeld(p)'
  BY <1>2, <1>3, <1>4 DEF AsHeld
<1>6. mode = "hedge"
  <2>1. PICK p \in k.todo : holds[p.pos] > 0 /\ p.pos \in PosSides /\ p.pos # s
    BY <1>3, <1>4 DEF AsHeld
  <2> QED BY <1>1, <2>1 DEF VenueInv, VenueTyped, PosSides
<1>7. ASSUME NEW t \in PosSides, holds'[t] > 0
      PROVE  Position(t, holds'[t]) \in k.todo \/ AtMostALot(t)'
  <2>1. CASE t = s
    BY <1>1, <1>6, <1>7, <2>1 DEF AtMostALot
  <2>2. CASE t # s
    BY <1>2, <1>3, <1>7, <2>2 DEF AtMostALot
  <2> QED BY <2>1, <2>2
<1> QED BY <1>5, <1>7

LEMMA PostStep ==
  ASSUME VenueInv, NEW c \in Callers, Post(c)
  PROVE  VenueInv'
<1> DEFINE k == caller[c]
           o == k.order
           w == Sends(o)
           q == k.qty
           h == After(w, q)
<1>1. /\ k \in Sent /\ o \in AskedOrders /\ q \in Nat /\ AsAsked(k) /\ Levered(k) /\ Calm(k)
      /\ k.pc = "post"
  BY DEF VenueInv, VenueTyped, FormattedInv, LeverInv, CalmInv, Sent, Post
<1>2. w \in Wires
  BY <1>1, SendsTyped
<1>3. /\ Returned(c) \in Sent /\ Returned(c).pc \in {"idle", "guard"}
      /\ ~ Returned(c).levered
      /\ Returned(c).calm => k.calm /\ k.todo # {} /\ Returned(c).pc = "guard"
                             /\ Returned(c).todo = k.todo
  <2>1. k.calm \in BOOLEAN
    BY <1>1 DEF Sent
  <2> QED BY <1>1, <2>1, GuardingTyped DEF Returned
<1>4. UNCHANGED <<venue, mode, lever>>
  BY DEF Post
<1>5. CASE w.waits
  <2>1. /\ resting' = resting \cup {[wire |-> w, qty |-> q, asked |-> o]}
        /\ caller' = [caller EXCEPT ![c] = Returned(c)]
        /\ UNCHANGED <<holds, reported>>
    BY <1>5 DEF Post
  <2>2. \A d \in Callers : caller'[d] = IF d = c THEN Returned(c) ELSE caller[d]
    BY <2>1 DEF VenueInv, VenueTyped
  <2>3. VenueTyped'
    BY <1>1, <1>2, <1>3, <1>4, <2>1 DEF VenueInv, VenueTyped
  <2>4. RestingInv'
    <3>1. venue = "gate" => FloorToLot(q) = q
      <4>1. o.qty \in Int
        BY <1>1 DEF AskedOrders
      <4> QED BY <1>1, <4>1, Lots DEF AsAsked, Formats, FormatQuantity
    <3> QED BY <1>4, <1>5, <2>1, <3>1, SameAdapter DEF VenueInv, RestingInv
  <2>5. FormattedInv'
    BY <1>3, <1>4, <2>2, SameAdapter DEF VenueInv, FormattedInv, AsAsked
  <2>6. LeverInv'
    BY <1>1, <1>3, <1>4, <2>2 DEF VenueInv, LeverInv, Levered
  <2>7. WholeInv' /\ FillsInv'
    BY <1>4, <2>1 DEF VenueInv, WholeInv, Exact, AllWhole, FillsInv
  <2>8. CalmInv'
    <3>1. k.calm /\ ClosesWork => FALSE
      <4>1. o.kind = "close" => ~ w.waits
        BY DEF Sends, BinanceOrder, OKXOrder, BybitOrder, GateOrder, KuCoinOrder, BitgetOrder,
               HyperliquidOrder, Wire, Conditional
      <4> QED BY <1>1, <1>5, <4>1 DEF Calm
    <3>2. ClosesWork' => ClosesWork
      BY <1>4 DEF ClosesWork
    <3>3. Calm(caller[c])'
      <4>1. caller'[c].calm => k.calm
        BY <1>3, <2>2
      <4> QED BY <3>1, <3>2, <4>1 DEF Calm
    <3>4. ASSUME NEW d \in Callers, d # c PROVE Calm(caller[d])'
      <4>1. caller'[d] = caller[d] /\ Calm(caller[d])
        BY <2>2, <3>4 DEF VenueInv, CalmInv
      <4> QED BY <1>4, <2>1, <4>1 DEF Calm, ClosesWork, AsHeld, Ordered, AtMostALot, Position
    <3> QED BY <3>3, <3>4 DEF CalmInv
  <2> QED BY <2>3, <2>4, <2>5, <2>6, <2>7, <2>8 DEF VenueInv
<1>6. CASE ~ w.waits
  <2> DEFINE D == Callers \ {c}
  <2>1. /\ Fits(h) /\ Executes(h) /\ UNCHANGED resting /\ holds' = h
        /\ caller' = [Disturbed(D) EXCEPT ![c] = Returned(c)]
    BY <1>6 DEF Post, Executes
  <2>2. /\ caller' \in [Callers -> Sent] /\ caller'[c] = Returned(c)
        /\ \A d \in D : /\ ~ caller'[d].calm
                        /\ caller'[d].pc = caller[d].pc
                        /\ caller'[d].order = caller[d].order
                        /\ caller'[d].qty = caller[d].qty
                        /\ caller'[d].levered = caller[d].levered
    BY <1>3, <2>1, DisturbedKeeps
  <2>3. FormattedInv'
    BY <1>3, <1>4, <2>2, SameAdapter DEF VenueInv, FormattedInv, AsAsked
  <2>4. LeverInv'
    BY <1>1, <1>3, <1>4, <2>2 DEF VenueInv, LeverInv, Levered
  <2>5. CalmInv'
    <3>1. Calm(caller[c])'
      <4>1. CASE Returned(c).calm
        <5>1. PICK r \in Sent : r = Returned(c)
          BY <1>3
        <5>2. Calm(r)'
          BY <1>1, <1>3, <1>4, <2>1, <4>1, <5>1, CalmAfter
        <5>3. caller'[c] = r
          BY <2>2, <5>1
        <5> QED BY <5>2, <5>3 DEF Calm, Ordered
      <4>2. CASE ~ Returned(c).calm
        <5>1. ~ caller'[c].calm
          BY <2>2, <4>2
        <5> QED BY <5>1 DEF Calm
      <4> QED BY <4>1, <4>2
    <3>2. \A d \in D : Calm(caller[d])'
      BY <2>2 DEF Calm
    <3> QED BY <3>1, <3>2 DEF CalmInv
  <2>6. Exact => h = holds \/ FloorToLot(q) = q
    <3>1. ASSUME venue = "okx", mode = "hedge", Conditional(o) PROVE h = holds
      <4>1. w.pos = "net"
        BY <3>1 DEF Sends, OKXOrder, Wire
      <4> QED BY <3>1, <4>1 DEF After
    <3>2. ASSUME (venue = "okx" /\ ~ Conditional(o)) \/ venue = "gate" PROVE FloorToLot(q) = q
      <4>1. Formats(o) /\ venue \in {"okx", "gate"} /\ o.qty \in Int
        BY <1>1, <3>2 DEF Formats, AskedOrders
      <4>2. q = FloorToLot(o.qty)
        BY <1>1, <4>1 DEF AsAsked, FormatQuantity
      <4> QED BY <4>1, <4>2, Lots
    <3> QED BY <3>1, <3>2 DEF Exact
  <2> QED BY <1>1, <1>2, <1>4, <2>1, <2>2, <2>3, <2>4, <2>5, <2>6, Execution
<1> QED BY <1>5, <1>6

-----------------------------------------------------------------------------

LEMMA VenueBegins == VenueInit => VenueInv
<1> SUFFICES ASSUME VenueInit PROVE VenueInv
  OBVIOUS
<1>1. /\ holds = [s \in PosSides |-> 0] /\ resting = {} /\ reported = 0 /\ lever = 1
      /\ \A c \in Callers : caller[c] = Idle
  BY DEF VenueInit
<1>2. VenueTyped
  BY VenueAssumption, IdleTyped DEF VenueInit, VenueTyped, PosSides
<1>3. RestingInv /\ FormattedInv /\ LeverInv /\ CalmInv
  BY <1>1, IdleTyped DEF RestingInv, FormattedInv, AsAsked, LeverInv, Levered, CalmInv, Calm
<1>4. WholeInv
  BY <1>1 DEF WholeInv, AllWhole, FloorToLot
<1>5. FillsInv
  BY <1>1 DEF FillsInv, Net, PosSides
<1> QED BY <1>2, <1>3, <1>4, <1>5 DEF VenueInv

LEMMA VenueStep == VenueInv /\ [VenueNext]_venueVars => VenueInv'
<1> SUFFICES ASSUME VenueInv, [VenueNext]_venueVars PROVE VenueInv'
  OBVIOUS
<1>1. CASE UNCHANGED venueVars
  <2>1. UNCHANGED <<venue, mode, holds, lever, resting, reported, caller>>
    BY <1>1 DEF venueVars
  <2>2. VenueTyped' /\ WholeInv' /\ FillsInv' /\ LeverInv'
    BY <2>1 DEF VenueInv, VenueTyped, WholeInv, Exact, AllWhole, FillsInv, LeverInv, Levered
  <2>3. RestingInv' /\ FormattedInv'
    BY <2>1, SameAdapter DEF VenueInv, RestingInv, FormattedInv, AsAsked
  <2>4. CalmInv'
    BY <2>1, SameCalm DEF VenueInv, CalmInv
  <2> QED BY <2>2, <2>3, <2>4 DEF VenueInv
<1> QED
  BY <1>1, LocalSteps, LeverageStep, PostStep, TriggerStep, OwnerStep DEF VenueNext

LEMMA VenueInvariant == VenueSpec => []VenueInv
BY VenueBegins, VenueStep, PTL DEF VenueSpec

(* For any adapters and callers: what is sent is what was asked for but    *)
(* for what formatting it makes of it, which is near; an opening is        *)
(* executed at its leverage unless that failed or another caller came      *)
(* between; and whoever traded, the fills that come back add up to what    *)
(* the account holds.                                                      *)
THEOREM OrdersGoOut == VenueSpec => OrdersAsAsked
<1>1. VenueInv => \A c \in Callers : SentAsAsked(c)
  <2> SUFFICES ASSUME VenueInv, NEW c \in Callers, caller[c].pc \in {"leverage", "post"}
               PROVE  LET o == caller[c].order IN
                      /\ caller[c].qty > 0
                      /\ IF Formats(o) THEN Near(o.qty, caller[c].qty) ELSE caller[c].qty = o.qty
    BY DEF SentAsAsked
  <2>1. AsAsked(caller[c]) /\ caller[c].order.qty \in Int /\ venue \in Modelled
    BY VenueAssumption DEF VenueInv, VenueTyped, FormattedInv, Sent, AskedOrders
  <2> QED BY <2>1, Formatted DEF AsAsked
<1>2. VenueInv => reported = Net(holds)
  BY DEF VenueInv, FillsInv
<1>3. VenueInv /\ [VenueNext]_venueVars =>
        [\A c \in Callers : (Posts(c) /\ caller[c].levered /\ holds' # holds)
                              => lever = caller[c].order.lev]_venueVars
  BY DEF VenueInv, LeverInv, Levered
<1> QED
  BY <1>1, <1>2, <1>3, VenueInvariant, PTL DEF VenueSpec, OrdersAsAsked, OpensAtItsLeverage

(* Whose request is answered, or fails, in a step.                         *)
LEMMA WhoPosts ==
  ASSUME VenueInv, [VenueNext]_venueVars, NEW c \in Callers, Posts(c)
  PROVE  Post(c) \/ PostFails(c)
<1>1. caller[c].pc = "post" /\ caller'[c].pc # "post" /\ caller \in [Callers -> Sent]
  BY DEF Posts, VenueInv, VenueTyped
<1>2. ~ UNCHANGED caller
  BY <1>1
<1>3. ASSUME Trigger \/ OwnerTrades PROVE FALSE
  <2>1. caller' = Disturbed(Callers)
    BY <1>3 DEF Trigger, OwnerTrades
  <2> QED BY <1>1, <2>1, DisturbedKeeps
<1>4. ASSUME NEW d \in Callers,
             \/ Decide(d) \/ ReadPositions(d) \/ GuardCloses(d)
             \/ SetLeverage(d) \/ Post(d) \/ PostFails(d)
      PROVE  d = c
  <2> SUFFICES ASSUME d # c PROVE FALSE
    OBVIOUS
  <2>1. CASE Post(d)
    <3>1. \/ caller' = [caller EXCEPT ![d] = Returned(d)]
          \/ caller' = [Disturbed(Callers \ {d}) EXCEPT ![d] = Returned(d)]
      BY <2>1 DEF Post
    <3> QED BY <1>1, <3>1, DisturbedKeeps
  <2>2. CASE SetLeverage(d)
    <3>1. \/ caller'[c] = caller[c]
          \/ caller'[c] = [caller[c] EXCEPT !.levered = FALSE]
      BY <1>1, <2>2 DEF SetLeverage
    <3> QED BY <1>1, <3>1 DEF Sent
  <2>3. CASE Decide(d) \/ ReadPositions(d) \/ GuardCloses(d) \/ PostFails(d)
    <3>1. caller'[c] = caller[c]
      BY <1>1, <2>3 DEF Decide, ReadPositions, GuardCloses, PostFails, Begin
    <3> QED BY <1>1, <3>1
  <2> QED BY <1>4, <2>1, <2>2, <2>3
<1>5. caller[c].pc # "idle" /\ caller[c].pc # "guard" /\ caller[c].pc # "leverage"
  BY <1>1
<1>6. VenueNext
  BY <1>2 DEF venueVars
<1> QED
  BY <1>3, <1>4, <1>5, <1>6 DEF VenueNext, Decide, ReadPositions, GuardCloses, SetLeverage

(* For any adapters, callers and conditional orders that wait: a close,    *)
(* and a stop that was asked to be reduce-only where the adapter passes    *)
(* that on, adds to no position; and the closes of a guard that nobody     *)
(* disturbed leave no more than formatting has lost.                       *)
THEOREM ClosingsOnlyClose == VenueSpec => ClosingsClose
<1>1. ASSUME VenueInv, NEW o \in AskedOrders, ReducesOnly(o), NEW q \in Nat,
             NEW s \in PosSides
      PROVE  After(Sends(o), q)[s] <= holds[s]
  <2>1. venue \in Modelled /\ mode \in {"net", "hedge"} /\ holds \in [PosSides -> Nat]
    BY <1>1, VenueAssumption DEF VenueInv, VenueTyped
  <2> QED BY <1>1, <2>1, SendsTyped, ClosingsReduce, AfterReduces
<1>2. ASSUME VenueInv, [VenueNext]_venueVars, NEW s \in PosSides,
             NEW c \in Callers, Posts(c), ReducesOnly(caller[c].order)
      PROVE  holds'[s] <= holds[s]
  <2>1. holds[s] \in Int /\ caller[c].order \in AskedOrders /\ caller[c].qty \in Nat
    BY <1>2 DEF VenueInv, VenueTyped, Sent
  <2>2. UNCHANGED holds \/ holds' = After(Sends(caller[c].order), caller[c].qty)
    BY <1>2, WhoPosts DEF Post, PostFails, Executes
  <2> QED BY <1>1, <1>2, <2>1, <2>2
<1>3. ASSUME VenueInv, [VenueNext]_venueVars, NEW s \in PosSides,
             NEW r \in resting \ resting', ReducesOnly(r.asked)
      PROVE  holds'[s] <= holds[s]
  <2>1. ~ (resting \subseteq resting')
    BY <1>3
  <2>2. Trigger
    <3>1. ASSUME NEW d \in Callers,
                 Decide(d) \/ ReadPositions(d) \/ GuardCloses(d) \/ SetLeverage(d) \/ PostFails(d)
          PROVE  resting' = resting
      BY <3>1 DEF Decide, ReadPositions, GuardCloses, SetLeverage, PostFails, Begin
    <3>2. ASSUME NEW d \in Callers, Post(d) PROVE resting \subseteq resting'
      BY <3>2 DEF Post
    <3>3. OwnerTrades \/ UNCHANGED venueVars => resting' = resting
      BY DEF OwnerTrades, venueVars
    <3> QED BY <1>3, <2>1, <3>1, <3>2, <3>3 DEF VenueNext
  <2>3. holds' = After(r.wire, r.qty)
    BY <1>3, <2>2 DEF Trigger, Executes
  <2>4. r.wire = Sends(r.asked) /\ r.asked \in AskedOrders /\ r.qty \in Nat
    BY <1>3 DEF VenueInv, VenueTyped, RestingInv
  <2> QED BY <1>1, <1>3, <2>3, <2>4
<1>4. ASSUME VenueInv, NEW c \in Callers, NEW t \in PosSides,
             ClosesWork, Post(c), caller[c].calm, caller[c].todo = {}
      PROVE  Remnant(holds[t], holds'[t])
  <2> DEFINE o == caller[c].order
  <2>1. caller[c].pc = "post"
    BY <1>4 DEF Post
  <2>2. holds' = After(Sends(o), caller[c].qty)
    <3>1. ~ Sends(o).waits
      <4>1. o.kind = "close"
        BY <1>4, <2>1 DEF VenueInv, CalmInv, Calm
      <4> QED BY <4>1 DEF Sends, BinanceOrder, OKXOrder, BybitOrder, GateOrder, KuCoinOrder,
                          BitgetOrder, HyperliquidOrder, Wire, Conditional
    <3> QED BY <1>4, <3>1 DEF Post, Executes
  <2>3. /\ o.pos \in PosSides /\ holds' = [holds EXCEPT ![o.pos] = holds'[o.pos]]
        /\ Remnant(holds[o.pos], holds'[o.pos])
    BY <1>4, <2>1, <2>2, CalmPost
  <2>4. CASE t = o.pos
    BY <2>3, <2>4
  <2>5. CASE t # o.pos
    <3>1. holds'[t] = holds[t] /\ holds[t] \in Nat
      <4>1. holds \in [PosSides -> Nat]
        BY <1>4, VenueAssumption DEF VenueInv, VenueTyped
      <4> QED BY <2>3, <2>5, <4>1
    <3>2. holds[t] > 0 => AtMostALot(t)
      BY <1>4, <2>1, <2>5 DEF VenueInv, CalmInv, Calm, Ordered
    <3> QED BY <3>1, <3>2 DEF AtMostALot, Remnant
  <2> QED BY <2>4, <2>5
<1>5. VenueInv /\ [VenueNext]_venueVars =>
        [ (\/ \E c \in Callers : Posts(c) /\ ReducesOnly(caller[c].order)
           \/ \E r \in resting \ resting' : ReducesOnly(r.asked))
            => \A s \in PosSides : holds'[s] <= holds[s] ]_venueVars
  BY <1>2, <1>3
<1>6. VenueInv /\ [VenueNext]_venueVars =>
        [ \A c \in Callers :
            (ClosesWork /\ Post(c) /\ caller[c].calm /\ caller[c].todo = {})
              => \A s \in PosSides : Remnant(holds[s], holds'[s]) ]_venueVars
  BY <1>4
<1> QED
  BY <1>5, <1>6, VenueInvariant, PTL DEF VenueSpec, ClosingsClose, ReduceOnlyHolds, GuardFlattens

-----------------------------------------------------------------------------
(* Venues and a trader, side by side *)

TradingInv == VenueInv /\ TypeOK

LEMMA TradingBegins == TradingInit => TradingInv
BY VenueBegins, TypeInit DEF TradingInit, TradingInv

(* A part takes its own steps or rests. *)
LEMMA TradingKept == TradingInv /\ [TradingNext]_tradingVars => TradingInv'
<1> SUFFICES ASSUME TradingInv, [TradingNext]_tradingVars PROVE TradingInv'
  OBVIOUS
<1>1. [VenueNext]_venueVars /\ [Next]_vars
  <2>1. CASE TradingNext
    BY <2>1 DEF TradingNext
  <2>2. CASE UNCHANGED tradingVars
    BY <2>2 DEF tradingVars
  <2> QED BY <2>1, <2>2
<1> QED BY <1>1, VenueStep, TypeStep DEF TradingInv

(* The venues and the trader keep their types, for any sizes of both: an   *)
(* account in net mode has one side of a position.                         *)
THEOREM TradingKeepsTypes == TradingSpec => []TypesOK
<1>1. VenueInv => VenueTypeOK
  <2> SUFFICES ASSUME VenueInv PROVE VenueTypeOK
    OBVIOUS
  <2>1. /\ venue \in VenueNames
        /\ mode \in {"net", "hedge"}
        /\ holds \in [PosSides -> 0..MaxHeld]
        /\ mode = "net" => (holds["long"] = 0 \/ holds["short"] = 0)
        /\ lever \in Nat
        /\ reported \in Int
    BY DEF VenueInv, VenueTyped
  <2>2. \A c \in Callers : caller[c] \in Sent
    BY DEF VenueInv, VenueTyped
  <2>3. \A c \in Callers : /\ caller[c].pc \in {"idle", "guard", "leverage", "post"}
                           /\ caller[c].order \in AskedOrders
    BY <2>2 DEF Sent
  <2>4. \A r \in resting : r.wire.waits /\ r.asked \in AskedOrders
    <3>1. resting \subseteq [wire : Wires, qty : Nat, asked : AskedOrders]
      BY DEF VenueInv, VenueTyped
    <3> QED BY <3>1 DEF VenueInv, RestingInv
  <2> QED BY <2>1, <2>3, <2>4 DEF VenueTypeOK
<1>2. TradingInv => TypesOK
  BY <1>1 DEF TradingInv, TypesOK
<1> QED BY <1>2, TradingBegins, TradingKept, PTL DEF TradingSpec
===============================================================================
