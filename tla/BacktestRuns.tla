----------------------------- MODULE BacktestRuns -----------------------------
(***************************************************************************)
(* Backtest runs: the API's control operations (backtest.Engine), the      *)
(* goroutine of every run (runLoop), what a run holds in memory and what   *)
(* the store keeps of it.  A run walks Windows windows of market data and, *)
(* in each, NSymbols symbols.  Prices and balances are left out: what the  *)
(* model's answer trades and what the equity then calls for is a choice.   *)
(*                                                                         *)
(* Operations on one run take its lock for the state they check and set;   *)
(* syncState then reads the row, takes the state of memory and saves.      *)
(***************************************************************************)
EXTENDS Integers, FiniteSets

CONSTANTS
  Runs,         \* run ids, each used once
  Users,        \* owners
  Clients,      \* goroutines serving control requests
  Windows,      \* windows of a run
  NSymbols,     \* symbols of a run
  RunsMayCrash, \* may the process die?
  Labels        \* do clients label runs?

Active   == {"running", "paused"}
Terminal == {"completed", "stopped", "liquidated", "failed"}
States   == Active \cup Terminal
None     == "none"

ASSUME BacktestAssumption ==
  /\ Windows \in Nat \ {0}
  /\ NSymbols \in Nat \ {0}
  /\ None \notin Users \cup Runs
  /\ {RunsMayCrash, Labels} \subseteq BOOLEAN

VARIABLES
  runs,         \* keys of Engine.runs
  owner,        \* run.userID
  state,        \* run.state
  runCancelled, \* whether the run's context is cancelled
  runLoop,      \* where the run's goroutine stands...
  window,       \* ... its windowStart, in windows...
  symbol,       \* ... the symbol it is at...
  goal,         \* ... the state it is to finish in...
  loopCopy,     \* ... and what its syncState is about to save
  position,     \* symbols in which the run has a position
  row,          \* store: State of the run's row, None without a row
  traded,       \* whether the run's equity has moved
  net,          \* store: per symbol, the run's opening trades less the closing
                \* and liquidation ones
  client,       \* where each client stands...
  target,       \* ... the run it works on...
  copy,         \* ... and what it is about to save
  tried         \* history: symbols the run's loop went through

memory  == <<runs, owner, state, runCancelled, position, traded>>
loopVars   == <<runLoop, window, symbol, goal, loopCopy>>
controlVars == <<client, target, copy>>
runVars == <<memory, loopVars, row, net, controlVars, tried>>

Symbols == 1..NSymbols

RunsInit ==
  /\ runs = {}
  /\ owner = [r \in Runs |-> None]
  /\ state = [r \in Runs |-> None]
  /\ runCancelled = [r \in Runs |-> FALSE]
  /\ runLoop = [r \in Runs |-> "done"]
  /\ window = [r \in Runs |-> 0]
  /\ symbol = [r \in Runs |-> 1]
  /\ goal = [r \in Runs |-> None]
  /\ loopCopy = [r \in Runs |-> None]
  /\ position = [r \in Runs |-> {}]
  /\ row = [r \in Runs |-> None]
  /\ traded = [r \in Runs |-> FALSE]
  /\ net = [r \in Runs |-> [s \in Symbols |-> 0]]
  /\ client = [c \in Clients |-> "idle"]
  /\ target = [c \in Clients |-> None]
  /\ copy = [c \in Clients |-> None]
  /\ tried = [r \in Runs |-> 0]

-----------------------------------------------------------------------------
(* Control operations *)

(* Never used before, by this process or an earlier one. *)
Unused(r) == owner[r] = None

(* Engine.Start: refused while a run of the user is running. *)
Unlocked(u) == \A r \in runs : state[r] = "running" => owner[r] # u

(* The id is known to nobody before the row exists: one step. *)
StartRun(u) ==
  /\ Unlocked(u)
  /\ \E r \in Runs :
       /\ Unused(r)
       /\ runs' = runs \cup {r}
       /\ owner' = [owner EXCEPT ![r] = u]
       /\ state' = [state EXCEPT ![r] = "running"]
       /\ row' = [row EXCEPT ![r] = "running"]
       /\ runLoop' = [runLoop EXCEPT ![r] = "tick"]
  /\ UNCHANGED <<runCancelled, position, traded, window, symbol, goal, loopCopy, net,
                 controlVars, tried>>

Takes(c, r, what, state_) ==
  /\ client[c] = "idle"
  /\ client' = [client EXCEPT ![c] = what]
  /\ target' = [target EXCEPT ![c] = r]
  /\ copy' = [copy EXCEPT ![c] = state_]

(* A client has answered its request. *)
Answers(c) ==
  /\ client' = [client EXCEPT ![c] = "idle"]
  /\ target' = [target EXCEPT ![c] = None]
  /\ copy' = [copy EXCEPT ![c] = None]

(* A run in the registry goes from one state to another, under its lock;   *)
(* the client goes on to save it.  A run the process does not hold is      *)
(* rebuilt by getRun in a terminal state, which refuses pause and resume   *)
(* and panics, with no effect, in stop and delete (no cancel function).    *)
Move(c, r, from, to) ==
  /\ r \in runs
  /\ state[r] \in from
  /\ state' = [state EXCEPT ![r] = to]
  /\ Takes(c, r, "sync", None)
  /\ UNCHANGED <<runs, owner, position, traded, loopVars, row, net, tried>>

PauseRun(c, r) ==
  /\ Move(c, r, {"running"}, "paused")
  /\ UNCHANGED runCancelled

ResumeRun(c, r) ==
  /\ Move(c, r, {"paused"}, "running")
  /\ UNCHANGED runCancelled

(* Stop does not count a liquidated run among the ended ones. *)
StopRun(c, r) ==
  /\ Move(c, r, Active \cup {"liquidated"}, "stopped")
  /\ runCancelled' = [runCancelled EXCEPT ![r] = TRUE]

(* Label reads the row now and saves all of it later. *)
Label(c, r) ==
  /\ Labels
  /\ row[r] # None
  /\ Takes(c, r, "write", row[r])
  /\ UNCHANGED <<memory, loopVars, row, net, tried>>

(* Delete: the check, the registry and the store are three steps. *)
Delete(c, r) ==
  /\ r \in runs
  /\ state[r] \notin Active
  /\ runCancelled' = [runCancelled EXCEPT ![r] = TRUE]
  /\ Takes(c, r, "unregister", None)
  /\ UNCHANGED <<runs, owner, state, position, traded, loopVars, row, net, tried>>

Unregister(c) ==
  /\ client[c] = "unregister"
  /\ runs' = runs \ {target[c]}
  /\ client' = [client EXCEPT ![c] = "deleteRow"]
  /\ UNCHANGED <<owner, state, runCancelled, position, traded, loopVars, row, net,
                 target, copy, tried>>

DeleteRow(c) ==
  /\ client[c] = "deleteRow"
  /\ row' = [row EXCEPT ![target[c]] = None]
  /\ net' = [net EXCEPT ![target[c]] = [s \in Symbols |-> 0]]
  /\ Answers(c)
  /\ UNCHANGED <<memory, loopVars, tried>>

(* What syncState is about to save.  The label is all it takes from the    *)
(* row, so reading row and state is one step here.                         *)
Synced(r) == IF r \in runs THEN state[r] ELSE row[r]

SyncStateRead(c) ==
  /\ client[c] = "sync"
  /\ IF row[target[c]] = None
     THEN Answers(c)
     ELSE /\ client' = [client EXCEPT ![c] = "write"]
          /\ copy' = [copy EXCEPT ![c] = Synced(target[c])]
          /\ UNCHANGED target
  /\ UNCHANGED <<memory, loopVars, row, net, tried>>

(* Save inserts the row when it is gone. *)
Write(c) ==
  /\ client[c] = "write"
  /\ row' = [row EXCEPT ![target[c]] = copy[c]]
  /\ Answers(c)
  /\ UNCHANGED <<memory, loopVars, net, tried>>

-----------------------------------------------------------------------------
(* runLoop *)

RunLoopGoto(r, where) ==
  /\ runLoop' = [runLoop EXCEPT ![r] = where]
  /\ UNCHANGED <<window, symbol, goal, loopCopy>>

(* The goroutine and its locals are gone. *)
LoopReturns(r) ==
  /\ runLoop' = [runLoop EXCEPT ![r] = "done"]
  /\ window' = [window EXCEPT ![r] = 0]
  /\ symbol' = [symbol EXCEPT ![r] = 1]
  /\ goal' = [goal EXCEPT ![r] = None]
  /\ loopCopy' = [loopCopy EXCEPT ![r] = None]

LoopFinishes(r, in) ==
  /\ runLoop' = [runLoop EXCEPT ![r] = "finish"]
  /\ goal' = [goal EXCEPT ![r] = in]
  /\ UNCHANGED <<window, symbol, loopCopy>>

(* The tick: nothing while paused, the end when not running...             *)
LoopTickEnds(r) ==
  /\ runLoop[r] = "tick"
  /\ state[r] \notin Active
  /\ LoopReturns(r)
  /\ UNCHANGED <<memory, row, net, controlVars, tried>>

(* Mutant: the window after the last one is walked, too. *)
LoopCyclePast(r) ==
  /\ runLoop[r] = "tick"
  /\ state[r] = "running"
  /\ IF window[r] > Windows THEN LoopFinishes(r, "completed")
     ELSE RunLoopGoto(r, "symbol")
  /\ UNCHANGED <<memory, row, net, controlVars, tried>>

(* Mutant: a run past its last window is left to tick. *)
LoopCycleIdles(r) ==
  /\ runLoop[r] = "tick"
  /\ state[r] = "running"
  /\ RunLoopGoto(r, IF window[r] >= Windows THEN "tick" ELSE "symbol")
  /\ UNCHANGED <<memory, row, net, controlVars, tried>>

(* ... and a cycle when it is: a run past its last window finishes,        *)
(* another goes on to its first symbol.                                    *)
RunLoopCycle(r) ==
  /\ runLoop[r] = "tick"
  /\ state[r] = "running"
  /\ IF window[r] >= Windows THEN LoopFinishes(r, "completed")
     ELSE RunLoopGoto(r, "symbol")
  /\ UNCHANGED <<memory, row, net, controlVars, tried>>

(* The context's end is noticed at the tick only; a last save follows.     *)
RunLoopCancelled(r) ==
  /\ runLoop[r] = "tick"
  /\ runCancelled[r]
  /\ RunLoopGoto(r, "lastSync")
  /\ UNCHANGED <<memory, row, net, controlVars, tried>>

(* Mutant: the symbols are left, but not the cycle. *)
LoopSymbolBreaks(r) ==
  /\ runLoop[r] = "symbol"
  /\ RunLoopGoto(r, IF state[r] = "running" THEN "decide" ELSE "snapshot")
  /\ UNCHANGED <<memory, row, net, controlVars, tried>>

(* stillRunning, before each symbol: the goroutine ends unless it is. *)
LoopSymbol(r) ==
  /\ runLoop[r] = "symbol"
  /\ IF state[r] = "running" THEN RunLoopGoto(r, "decide") ELSE LoopReturns(r)
  /\ UNCHANGED <<memory, row, net, controlVars, tried>>

(* On to the next symbol, or to the end of the cycle. *)
NextSymbol(r) ==
  LET last == symbol[r] = NSymbols IN
  /\ runLoop[r] = "decide"
  /\ runLoop' = [runLoop EXCEPT ![r] = IF last THEN "snapshot" ELSE "symbol"]
  /\ symbol' = [symbol EXCEPT ![r] = IF last THEN 1 ELSE @ + 1]
  /\ tried' = [tried EXCEPT ![r] = @ + 1]
  /\ UNCHANGED <<runs, owner, state, runCancelled, window, goal, loopCopy, row,
                 controlVars>>

(* No market data, no model, no answer, "wait", or an order that is not    *)
(* carried out.                                                            *)
LoopWaits(r) ==
  /\ NextSymbol(r)
  /\ UNCHANGED <<position, traded, net>>

Trade(r, change) ==
  /\ net' = [net EXCEPT ![r][symbol[r]] = @ + change]
  /\ traded' = [traded EXCEPT ![r] = TRUE]
  /\ NextSymbol(r)

(* Mutant: a position does not keep a second one from being opened. *)
LoopOpensMore(r) ==
  /\ position' = [position EXCEPT ![r] = @ \cup {symbol[r]}]
  /\ Trade(r, 1)

LoopOpens(r) ==
  /\ symbol[r] \notin position[r]
  /\ position' = [position EXCEPT ![r] = @ \cup {symbol[r]}]
  /\ Trade(r, 1)

LoopCloses(r) ==
  /\ symbol[r] \in position[r]
  /\ position' = [position EXCEPT ![r] = @ \ {symbol[r]}]
  /\ Trade(r, -1)

(* An open and a close in one answer, in the order that has something to   *)
(* close.                                                                  *)
LoopTurns(r) ==
  /\ Trade(r, 0)
  /\ UNCHANGED position

(* The cycle ends well: the window advances, and now and then the progress *)
(* is saved.                                                               *)
LoopAdvances(r) ==
  /\ runLoop[r] = "snapshot"
  /\ \E next \in {"tick", "sync"} : runLoop' = [runLoop EXCEPT ![r] = next]
  /\ window' = [window EXCEPT ![r] = @ + 1]
  /\ UNCHANGED <<memory, symbol, goal, loopCopy, row, net, controlVars, tried>>

(* The drawdown guard: every position is liquidated... *)
LoopLiquidates(r) ==
  /\ runLoop[r] = "snapshot"
  /\ traded[r]
  /\ net' = [net EXCEPT ![r] =
       [s \in Symbols |-> IF s \in position[r] THEN @[s] - 1 ELSE @[s]]]
  /\ position' = [position EXCEPT ![r] = {}]
  /\ LoopFinishes(r, "liquidated")
  /\ UNCHANGED <<runs, owner, state, runCancelled, traded, row, controlVars, tried>>

(* ... while a depleted equity leaves them as they are. *)
LoopDepleted(r) ==
  /\ runLoop[r] = "snapshot"
  /\ traded[r]
  /\ LoopFinishes(r, "liquidated")
  /\ UNCHANGED <<memory, row, net, controlVars, tried>>

(* finish sets the state whatever it is by now. *)
LoopFinish(r) ==
  /\ runLoop[r] = "finish"
  /\ state' = [state EXCEPT ![r] = goal[r]]
  /\ runCancelled' = [runCancelled EXCEPT ![r] = TRUE]
  /\ RunLoopGoto(r, "lastSync")
  /\ UNCHANGED <<runs, owner, position, traded, row, net, controlVars, tried>>

(* syncState within the loop, and once more before it returns. *)
LoopSyncRead(r) ==
  /\ runLoop[r] \in {"sync", "lastSync"}
  /\ row[r] # None
  /\ runLoop' = [runLoop EXCEPT ![r] = IF @ = "sync" THEN "write" ELSE "lastWrite"]
  /\ loopCopy' = [loopCopy EXCEPT ![r] = Synced(r)]
  /\ UNCHANGED <<memory, window, symbol, goal, row, net, controlVars, tried>>

LoopSyncSkips(r) ==
  /\ row[r] = None
  /\ \/ runLoop[r] = "sync" /\ RunLoopGoto(r, "tick")
     \/ runLoop[r] = "lastSync" /\ LoopReturns(r)
  /\ UNCHANGED <<memory, row, net, controlVars, tried>>

LoopWrite(r) ==
  /\ row' = [row EXCEPT ![r] = loopCopy[r]]
  /\ \/ /\ runLoop[r] = "write"
        /\ runLoop' = [runLoop EXCEPT ![r] = "tick"]
        /\ loopCopy' = [loopCopy EXCEPT ![r] = None]
        /\ UNCHANGED <<window, symbol, goal>>
     \/ runLoop[r] = "lastWrite" /\ LoopReturns(r)
  /\ UNCHANGED <<memory, net, controlVars, tried>>

-----------------------------------------------------------------------------
(* The process dies and is started again: no run is restored. *)
RunsCrash ==
  /\ RunsMayCrash
  /\ runs' = {}
  /\ state' = [r \in Runs |-> None]
  /\ runCancelled' = [r \in Runs |-> FALSE]
  /\ position' = [r \in Runs |-> {}]
  /\ traded' = [r \in Runs |-> FALSE]
  /\ runLoop' = [r \in Runs |-> "done"]
  /\ window' = [r \in Runs |-> 0]
  /\ symbol' = [r \in Runs |-> 1]
  /\ goal' = [r \in Runs |-> None]
  /\ loopCopy' = [r \in Runs |-> None]
  /\ client' = [c \in Clients |-> "idle"]
  /\ target' = [c \in Clients |-> None]
  /\ copy' = [c \in Clients |-> None]
  /\ UNCHANGED <<owner, row, net, tried>>

ClientStep(c) ==
  \/ Unregister(c)
  \/ DeleteRow(c)
  \/ SyncStateRead(c)
  \/ Write(c)

RunLoopStep(r) ==
  \/ LoopTickEnds(r)
  \/ RunLoopCycle(r)
  \/ RunLoopCancelled(r)
  \/ LoopSymbol(r)
  \/ LoopWaits(r)
  \/ LoopOpens(r)
  \/ LoopCloses(r)
  \/ LoopTurns(r)
  \/ LoopAdvances(r)
  \/ LoopLiquidates(r)
  \/ LoopDepleted(r)
  \/ LoopFinish(r)
  \/ LoopSyncRead(r)
  \/ LoopSyncSkips(r)
  \/ LoopWrite(r)

RunsNext ==
  \/ \E u \in Users : StartRun(u)
  \/ \E c \in Clients, r \in Runs :
       PauseRun(c, r) \/ ResumeRun(c, r) \/ StopRun(c, r) \/ Label(c, r) \/ Delete(c, r)
  \/ \E c \in Clients : ClientStep(c)
  \/ \E r \in Runs : RunLoopStep(r)
  \/ RunsCrash

RunsSpec == RunsInit /\ [][RunsNext]_runVars

(* The scheduler runs every goroutine, tickers fire, calls to the model    *)
(* time out; control requests are nobody's duty.                           *)
RunsFairness ==
  /\ \A r \in Runs : WF_runVars(RunLoopStep(r))
  /\ \A c \in Clients : WF_runVars(ClientStep(c))

-----------------------------------------------------------------------------
RunLoopPcs == {"done", "tick", "symbol", "decide", "snapshot", "finish",
            "sync", "write", "lastSync", "lastWrite"}

ControlPcs == {"idle", "sync", "write", "unregister", "deleteRow"}

MemoryTyped ==
  /\ runs \subseteq Runs
  /\ owner \in [Runs -> Users \cup {None}]
  /\ state \in [Runs -> States \cup {None}]
  /\ runCancelled \in [Runs -> BOOLEAN]
  /\ position \in [Runs -> SUBSET Symbols]
  /\ traded \in [Runs -> BOOLEAN]

LoopsTyped ==
  /\ runLoop \in [Runs -> RunLoopPcs]
  /\ window \in [Runs -> 0..Windows]
  /\ symbol \in [Runs -> Symbols]
  /\ goal \in [Runs -> {None, "completed", "liquidated"}]
  /\ loopCopy \in [Runs -> States \cup {None}]

StoreTyped ==
  /\ row \in [Runs -> States \cup {None}]
  /\ net \in [Runs -> [Symbols -> Int]]

ClientsTyped ==
  /\ client \in [Clients -> ControlPcs]
  /\ target \in [Clients -> Runs \cup {None}]
  /\ copy \in [Clients -> States \cup {None}]

HistoryTyped == tried \in [Runs -> Nat]

(* State stays within its types; a window index never leaves the period.   *)
RunsTypeOK == MemoryTyped /\ LoopsTyped /\ StoreTyped /\ ClientsTyped /\ HistoryTyped

(* replay.go:49: a run that says completed went through every symbol of    *)
(* every window, also when it was paused, resumed or stopped on the way:   *)
(* its metrics are about the whole period.                                 *)
CompletedCoversPeriod ==
  \A r \in runs : state[r] = "completed" => tried[r] = Windows * NSymbols

(* The trades in the store account for the positions in memory: nothing is *)
(* opened twice, closed twice, or traded without a record, up to and       *)
(* through a liquidation.                                                  *)
TradesAccountForPositions ==
  \A r \in runs, s \in Symbols :
    net[r][s] = IF s \in position[r] THEN 1 ELSE 0

(* A run that is not left paused ends its goroutine, whatever was asked of *)
(* it and whatever it was doing then (engine.go:199, replay.go:26).        *)
RunLoopEnds ==
  \A r \in Runs : <>[](state[r] # "paused") => <>[](runLoop[r] = "done")

(* engine.go:3, the lock of a user: at any time one running run at most.   *)
(* Start looks at it, Resume does not.                                     *)
OneRunningRun ==
  \A r1, r2 \in runs :
    state[r1] = "running" /\ state[r2] = "running" /\ owner[r1] = owner[r2]
      => r1 = r2

(* replay.go:92, "paused 时等待": a run that is running or paused has a     *)
(* goroutine that waits or works for it.                                   *)
ActiveHasLoop ==
  \A r \in runs : state[r] \in Active => runLoop[r] # "done"

===============================================================================
