--------------------------- MODULE TraderLifecycle ---------------------------
(***************************************************************************)
(* The life of one trader: its status row in the store, the API handlers   *)
(* that move the status (service.TraderService), the engine's registry of  *)
(* runners, and the two goroutines of every runner (engine.loop and        *)
(* engine.orderSyncLoop).  The registry is a map keyed by trader id and no *)
(* operation touches two keys, so one trader is the whole story.           *)
(*                                                                         *)
(* A runner is an object on the Go heap: Runners bounds how many are alive *)
(* at once, and an identity may be used again once nothing refers to it.   *)
(* The store's transactions (WithTrader) are single steps; a failed one    *)
(* changes nothing.                                                        *)
(***************************************************************************)
EXTENDS FiniteSets, Naturals

CONSTANTS
  Starters,      \* goroutines serving "start" requests...
  Stoppers,      \* ... and "stop" requests; one goroutine may serve both
  Runners,       \* identities of engine.runner objects
  NoRunner,      \* a nil *runner
  Configs,       \* versions of the trader's configuration
  ResumeFrom,    \* statuses at which some client sends "resume"
  StoreMayFail,  \* may GetTrader answer "not found" (any read error does)?
  MayCrash       \* may the process die and be restarted?

ASSUME LifecycleAssumption ==
  /\ NoRunner \notin Runners
  /\ Configs # {}
  /\ StoreMayFail \in BOOLEAN
  /\ MayCrash \in BOOLEAN

(* The goroutines that serve the requests of several steps. *)
Handlers == Starters \cup Stoppers

Statuses == {"idle", "running", "paused", "stopped", "error"}

(* transitions[from] of trader_svc.go: where a request may move the row.   *)
transitions ==
  [idle    |-> {"running"},
   running |-> {"paused", "stopped"},
   paused  |-> {"running", "stopped"},
   stopped |-> {"running"},
   error   |-> {"stopped"}]

LoopPcs == {"ready", "top", "read", "cycle", "wait", "pausing", "exiting", "done"}
SyncPcs == {"ready", "select", "read", "sync", "done"}
ClientPcs == {"idle", "engineStart", "spawn", "rollback",
              "engineStop", "cancel", "wgWait"}

VARIABLES
  up,         \* the process is running
  status,     \* Trader.Status in the store (survives a crash)
  config,     \* the rest of the trader's row, as a version
  registry,   \* Engine.runners[traderID]
  cancelled,  \* whether the runner's context is cancelled
  loop,       \* where the runner's engine.loop stands
  first,      \* engine.loop's local "first"
  sync,       \* where the runner's engine.orderSyncLoop stands
  pc,         \* where each API handler stands
  held,       \* the runner a handler works on
  awaited,    \* history: runners whose Engine.Stop has returned
  overtaken   \* history: starts under way whose row another request has moved

rowVars    == <<status, config>>
runnerVars == <<cancelled, loop, first, sync>>
clientVars == <<pc, held>>
lifeVars   == <<up, rowVars, registry, runnerVars, clientVars, awaited>>
vars == <<lifeVars, overtaken>>

TypeOK ==
  /\ up \in BOOLEAN
  /\ status \in Statuses
  /\ config \in Configs
  /\ registry \in Runners \cup {NoRunner}
  /\ cancelled \in [Runners -> BOOLEAN]
  /\ loop \in [Runners -> LoopPcs]
  /\ first \in [Runners -> BOOLEAN]
  /\ sync \in [Runners -> SyncPcs]
  /\ pc \in [Handlers -> ClientPcs]
  /\ held \in [Handlers -> Runners \cup {NoRunner}]
  /\ \A c \in Handlers : pc[c] \in {"spawn", "cancel", "wgWait"} => held[c] \in Runners
  /\ awaited \in SUBSET Runners
  /\ overtaken \in SUBSET Handlers

Init ==
  /\ up = TRUE
  /\ status = "idle"
  /\ config \in Configs
  /\ registry = NoRunner
  /\ cancelled = [r \in Runners |-> FALSE]
  /\ loop = [r \in Runners |-> "done"]
  /\ first = [r \in Runners |-> TRUE]
  /\ sync = [r \in Runners |-> "done"]
  /\ pc = [c \in Handlers |-> "idle"]
  /\ held = [c \in Handlers |-> NoRunner]
  /\ awaited = {}
  /\ overtaken = {}

(* No goroutine and no handler refers to r: a new runner may have its name. *)
Free(r) ==
  /\ loop[r] = "done"
  /\ sync[r] = "done"
  /\ \A c \in Handlers : held[c] # r

-----------------------------------------------------------------------------
(* Request handlers: service.TraderService and engine.Start / engine.Stop. *)

(* TraderService.transition, committed; every refusal leaves the row alone. *)
Transition(to) ==
  /\ up
  /\ status # to
  /\ to \in transitions[status]
  /\ status' = to

(* TraderService.Start, up to the call of Engine.Start. *)
Start(c) ==
  /\ pc[c] = "idle"
  /\ Transition("running")
  /\ pc' = [pc EXCEPT ![c] = "engineStart"]
  /\ UNCHANGED <<up, config, registry, runnerVars, held, awaited>>

(* Engine.Start under e.mu: refuse when a runner is registered... *)
EngineStartRefused(c) ==
  /\ pc[c] = "engineStart"
  /\ registry # NoRunner
  /\ pc' = [pc EXCEPT ![c] = "rollback"]
  /\ UNCHANGED <<up, rowVars, registry, runnerVars, held, awaited>>

(* ... and register a fresh one otherwise. *)
NewRunner(r) ==
  /\ Free(r)
  /\ registry' = r
  /\ cancelled' = [cancelled EXCEPT ![r] = FALSE]
  /\ awaited' = awaited \ {r}

Register(c) ==
  /\ pc[c] = "engineStart"
  /\ \E r \in Runners :
       /\ NewRunner(r)
       /\ loop' = [loop EXCEPT ![r] = "ready"]
       /\ sync' = [sync EXCEPT ![r] = "ready"]
       /\ held' = [held EXCEPT ![c] = r]
  /\ pc' = [pc EXCEPT ![c] = "spawn"]
  /\ UNCHANGED <<up, rowVars, first>>

EngineStart(c) ==
  /\ registry = NoRunner
  /\ Register(c)

(* The lock is released before wg.Add(2) and the two go statements. *)
Spawn(c) ==
  /\ pc[c] = "spawn"
  /\ loop' = [loop EXCEPT ![held[c]] = "top"]
  /\ sync' = [sync EXCEPT ![held[c]] = "select"]
  /\ pc' = [pc EXCEPT ![c] = "idle"]
  /\ held' = [held EXCEPT ![c] = NoRunner]
  /\ UNCHANGED <<up, rowVars, registry, cancelled, first, awaited>>

(* The roll-back does not look at the row it overwrites, and its error, if *)
(* the transaction fails, is dropped.                                      *)
Rollback(c) ==
  /\ pc[c] = "rollback"
  /\ status' \in {"idle"} \cup (IF StoreMayFail THEN {status} ELSE {})
  /\ pc' = [pc EXCEPT ![c] = "idle"]
  /\ UNCHANGED <<up, config, registry, runnerVars, held, awaited>>

(* TraderService.Pause and Resume are one transaction each. *)
Pause ==
  /\ Transition("paused")
  /\ UNCHANGED <<up, config, registry, runnerVars, clientVars, awaited>>

Resume ==
  /\ status \in ResumeFrom
  /\ Transition("running")
  /\ UNCHANGED <<up, config, registry, runnerVars, clientVars, awaited>>

UpdateUnchecked ==
  /\ up
  /\ config' \in Configs
  /\ UNCHANGED <<up, status, registry, runnerVars, clientVars, awaited>>

(* TraderService.Update: refused only while the row says running. *)
Update ==
  /\ status # "running"
  /\ UpdateUnchecked

(* TraderService.Stop, up to the call of Engine.Stop. *)
Stop(c) ==
  /\ pc[c] = "idle"
  /\ Transition("stopped")
  /\ pc' = [pc EXCEPT ![c] = "engineStop"]
  /\ UNCHANGED <<up, config, registry, runnerVars, held, awaited>>

(* Mutants: the entry stays; a missing entry is not noticed. *)
EngineStopKeepsEntry(c) ==
  /\ pc[c] = "engineStop"
  /\ held' = [held EXCEPT ![c] = registry]
  /\ pc' = [pc EXCEPT ![c] = IF registry = NoRunner THEN "idle" ELSE "cancel"]
  /\ UNCHANGED <<up, rowVars, registry, runnerVars, awaited>>

EngineStopUnchecked(c) ==
  /\ pc[c] = "engineStop"
  /\ held' = [held EXCEPT ![c] = registry]
  /\ pc' = [pc EXCEPT ![c] = "cancel"]
  /\ registry' = NoRunner
  /\ UNCHANGED <<up, rowVars, runnerVars, awaited>>

(* Engine.Stop under e.mu: take the runner out of the registry, if any. *)
EngineStop(c) ==
  /\ pc[c] = "engineStop"
  /\ held' = [held EXCEPT ![c] = registry]
  /\ pc' = [pc EXCEPT ![c] = IF registry = NoRunner THEN "idle" ELSE "cancel"]
  /\ registry' = NoRunner
  /\ UNCHANGED <<up, rowVars, runnerVars, awaited>>

(* Mutant: wait without cancelling. *)
NoCancel(c) ==
  /\ pc[c] = "cancel"
  /\ pc' = [pc EXCEPT ![c] = "wgWait"]
  /\ UNCHANGED <<up, rowVars, registry, runnerVars, held, awaited>>

Cancel(c) ==
  /\ pc[c] = "cancel"
  /\ cancelled' = [cancelled EXCEPT ![held[c]] = TRUE]
  /\ pc' = [pc EXCEPT ![c] = "wgWait"]
  /\ UNCHANGED <<up, rowVars, registry, loop, first, sync, held, awaited>>

(* wg.Wait returns when the counter is zero: both goroutines have ended,   *)
(* or wg.Add(2) has not been called yet.                                   *)
GroupEmpty(r) ==
  /\ loop[r] \in {"ready", "done"}
  /\ sync[r] \in {"ready", "done"}

WaitReturns(c) ==
  /\ pc[c] = "wgWait"
  /\ GroupEmpty(held[c])
  /\ pc' = [pc EXCEPT ![c] = "idle"]
  /\ held' = [held EXCEPT ![c] = NoRunner]
  /\ awaited' = awaited \cup {held[c]}
  /\ UNCHANGED <<up, rowVars, registry, runnerVars>>

-----------------------------------------------------------------------------
(* engine.loop *)

LoopGoto(r, where) ==
  /\ loop' = [loop EXCEPT ![r] = where]
  /\ UNCHANGED <<up, rowVars, registry, cancelled, sync, clientVars, awaited>>

(* Mutant: the context is not looked at. *)
LoopTopUnchecked(r) ==
  /\ loop[r] = "top"
  /\ LoopGoto(r, "read")
  /\ UNCHANGED first

LoopTop(r) ==
  /\ loop[r] = "top"
  /\ LoopGoto(r, IF cancelled[r] THEN "exiting" ELSE "read")
  /\ UNCHANGED first

(* Mutant: only "paused" and "running" have a case. *)
AfterReadIgnoresStop(r) ==
  CASE status = "paused"  -> "pausing"
    [] status = "running" -> "cycle"
    [] OTHER              -> IF first[r] THEN "top" ELSE "wait"

(* What the switch on t.Status does next.  idle has no case: the loop goes *)
(* to its interval without a cycle.                                        *)
AfterRead(r) ==
  CASE status \in {"stopped", "error"} -> "exiting"
    [] status = "paused"               -> "pausing"
    [] status = "running"              -> "cycle"
    [] status = "idle"                 -> IF first[r] THEN "top" ELSE "wait"

LoopRead(r) ==
  /\ loop[r] = "read"
  /\ LoopGoto(r, AfterRead(r))
  /\ first' = [first EXCEPT ![r] = @ /\ status # "idle"]

(* Any error of the read is "trader gone" to the loop. *)
LoopReadFails(r) ==
  /\ StoreMayFail
  /\ loop[r] = "read"
  /\ LoopGoto(r, "exiting")
  /\ UNCHANGED first

(* runCycle returns; the interval is skipped once. *)
LoopCycle(r) ==
  /\ loop[r] = "cycle"
  /\ LoopGoto(r, IF first[r] THEN "top" ELSE "wait")
  /\ first' = [first EXCEPT ![r] = FALSE]

LoopTimer(r) ==
  /\ loop[r] \in {"wait", "pausing"}
  /\ LoopGoto(r, "top")
  /\ UNCHANGED first

LoopCancelled(r) ==
  /\ loop[r] \in {"wait", "pausing"}
  /\ cancelled[r]
  /\ LoopGoto(r, "exiting")
  /\ UNCHANGED first

(* Mutant: no deferred clean-up. *)
LoopExitKeepsEntry(r) ==
  /\ loop[r] = "exiting"
  /\ loop' = [loop EXCEPT ![r] = "done"]
  /\ first' = [first EXCEPT ![r] = TRUE]
  /\ UNCHANGED <<up, rowVars, registry, cancelled, sync, clientVars, awaited>>

(* The deferred function deletes the trader's entry, whosever it is.  The  *)
(* loop's locals are gone: first returns to its starting value.            *)
LoopExit(r) ==
  /\ loop[r] = "exiting"
  /\ loop' = [loop EXCEPT ![r] = "done"]
  /\ first' = [first EXCEPT ![r] = TRUE]
  /\ registry' = NoRunner
  /\ UNCHANGED <<up, rowVars, cancelled, sync, clientVars, awaited>>

-----------------------------------------------------------------------------
(* engine.orderSyncLoop *)

SyncGoto(r, where) ==
  /\ sync' = [sync EXCEPT ![r] = where]
  /\ UNCHANGED <<up, rowVars, registry, cancelled, loop, first,
                 clientVars, awaited>>

SyncTick(r) ==
  /\ sync[r] = "select"
  /\ SyncGoto(r, "read")

SyncCancelled(r) ==
  /\ sync[r] = "select"
  /\ cancelled[r]
  /\ SyncGoto(r, "done")

SyncRead(r) ==
  /\ sync[r] = "read"
  /\ SyncGoto(r, IF status \in {"stopped", "error"} THEN "done" ELSE "sync")

SyncReadFails(r) ==
  /\ StoreMayFail
  /\ sync[r] = "read"
  /\ SyncGoto(r, "done")

OrderSync(r) ==
  /\ sync[r] = "sync"
  /\ SyncGoto(r, "select")

-----------------------------------------------------------------------------
(* The process: everything but the store is memory. *)

Crash ==
  /\ MayCrash
  /\ up
  /\ up' = FALSE
  /\ registry' = NoRunner
  /\ cancelled' = [r \in Runners |-> FALSE]
  /\ loop' = [r \in Runners |-> "done"]
  /\ sync' = [r \in Runners |-> "done"]
  /\ pc' = [c \in Handlers |-> "idle"]
  /\ held' = [c \in Handlers |-> NoRunner]
  /\ first' = [r \in Runners |-> TRUE]
  /\ awaited' = {}
  /\ UNCHANGED rowVars

(* Mutant: the restore of main looks for running traders only. *)
RestoredRunning == {"running"}

Restored == {"running", "paused"}

(* main: running and paused traders get a runner back before the server    *)
(* accepts requests; the others stay as they are.                          *)
Restart ==
  /\ ~up
  /\ up' = TRUE
  /\ IF status \in Restored
     THEN \E r \in Runners :
            /\ NewRunner(r)
            /\ loop' = [loop EXCEPT ![r] = "top"]
            /\ sync' = [sync EXCEPT ![r] = "select"]
     ELSE UNCHANGED <<registry, cancelled, loop, sync, awaited>>
  /\ UNCHANGED <<rowVars, first, clientVars>>

-----------------------------------------------------------------------------
(* The steps of a handler after its request was accepted. *)
Handle(c) ==
  \/ EngineStart(c)
  \/ EngineStartRefused(c)
  \/ Spawn(c)
  \/ Rollback(c)
  \/ EngineStop(c)
  \/ Cancel(c)
  \/ WaitReturns(c)

LoopStep(r) ==
  \/ LoopTop(r)
  \/ LoopRead(r)
  \/ LoopReadFails(r)
  \/ LoopCycle(r)
  \/ LoopTimer(r)
  \/ LoopCancelled(r)
  \/ LoopExit(r)

SyncStep(r) ==
  \/ SyncTick(r)
  \/ SyncCancelled(r)
  \/ SyncRead(r)
  \/ SyncReadFails(r)
  \/ OrderSync(r)

(* Starts whose outcome is still open: the row says running, the engine    *)
(* has not answered, or has refused and the roll-back is to come.          *)
Trying == {c \in Handlers : pc[c] \in {"engineStart", "rollback"}}

(* The row moves under them when any step changes its status. *)
Overtake ==
  overtaken' = {c \in Trying : c \in Trying' /\ (c \in overtaken \/ status' # status)}

Step ==
  \/ \E c \in Starters : Start(c)
  \/ \E c \in Stoppers : Stop(c)
  \/ \E c \in Handlers : Handle(c)
  \/ Pause
  \/ Resume
  \/ Update
  \/ \E r \in Runners : LoopStep(r) \/ SyncStep(r)
  \/ Crash
  \/ Restart

Next == Step /\ Overtake

(* The Go scheduler runs every goroutine that can run, timers fire, calls  *)
(* made by a cycle have timeouts; requests and crashes are nobody's duty.  *)
(* A select with two ready cases picks one at random, so the cancelled     *)
(* case is not passed over for ever: strong fairness.                      *)
Fairness ==
  /\ \A c \in Handlers : WF_lifeVars(Handle(c))
  /\ \A r \in Runners : /\ WF_lifeVars(LoopStep(r))
                        /\ WF_lifeVars(SyncStep(r))
                        /\ SF_lifeVars(SyncCancelled(r))
  /\ WF_lifeVars(Restart)

Spec == Init /\ [][Next]_vars

FairSpec == Spec /\ Fairness

-----------------------------------------------------------------------------
(* What must be true of it. *)

Registered == registry # NoRunner

(* Whoever is in the registry still has a loop that will take it out again *)
(* (engine.go:108: otherwise "trader already running" would be the answer  *)
(* for ever).                                                              *)
RegistryHasLiveLoop == Registered => loop[registry] # "done"

(* A runner that can still be found by Engine.Stop has not been cancelled: *)
(* no two Stops work on the same runner, none revives a cancelled one.     *)
RegisteredNotCancelled == Registered => ~cancelled[registry]

(* Both: whoever asks the registry (Start's "already running", Stop) is    *)
(* told the truth by it.                                                   *)
RegistryTruthful == RegistryHasLiveLoop /\ RegisteredNotCancelled

(* Once Engine.Stop has returned, the runner it stopped never trades       *)
(* again, although wg.Wait may return before the goroutines are spawned.   *)
NoCycleAfterStop ==
  \A r \in awaited : loop[r] \notin {"read", "cycle", "wait", "pausing"}

(* A trader that is left stopped ends all its goroutines, the ones no      *)
(* registry knows of included (ordersync.go:28, engine.go:127).            *)
AllDone == \A r \in Runners : loop[r] = "done" /\ sync[r] = "done"
StoppedQuiesces == <>[](status = "stopped") => <>[]AllDone

(* A Stop request never hangs: the goroutines it waits for do end. *)
StopReturns == \A c \in Stoppers : pc[c] = "wgWait" ~> pc[c] = "idle"

(* No handler is in the middle of a start or a stop. *)
Quiet == up /\ \A c \in Handlers : pc[c] = "idle"

(* A trader whose row says running or paused is really being run: what the *)
(* restart code of main.go:181 restores.                                   *)
RunningHasLoop ==
  Quiet /\ status \in {"running", "paused"}
    => Registered /\ loop[registry] # "exiting"

(* Goroutines at work that no Stop has cancelled or is about to cancel. *)
Kept(r) == ~cancelled[r] /\ \A c \in Handlers : held[c] # r
Looping == {r \in Runners : loop[r] \notin {"ready", "exiting", "done"} /\ Kept(r)}

(* A start is being tried as long as nobody else has moved the row since.  *)
Trial == \E c \in Trying : c \notin overtaken

(* store.go:470 and trader_svc.go:203: concurrent requests do not trample  *)
(* each other's status, the row follows TraderStatus whatever overlaps.    *)
(* The roll-back of a refused start breaks it.                             *)
Promise == INSTANCE TraderStatus WITH Configs <- Configs, status <- status,
                                      config <- config, trial <- Trial
StatusPromise == Promise!Spec

(* The one step that breaks it, and only after the start was overtaken: no *)
(* other step of any handler, loop, crash or restart leaves the machine,   *)
(* and the roll-back itself is in order while the row is still its own.    *)
Trampled == \E c \in overtaken : Rollback(c)
StatusUnlessTrampled ==
  Promise!Init /\ [][Promise!Next \/ Trampled]_<<status, config, Trial>>

(* engine.go:2: one goroutine per trader. *)
OneLoop == Cardinality(Looping) <= 1

(* When starts and stops come one at a time, a running or paused trader    *)
(* has a loop and no trader has two.                                       *)
ExactlyOneLoop == RunningHasLoop /\ OneLoop

=============================================================================
