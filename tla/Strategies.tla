------------------------------ MODULE Strategies ------------------------------
(***************************************************************************)
(* The table of strategies, its users and the traders that run them:       *)
(* StrategyService over store/strategy_store.go.  Every request is a       *)
(* goroutine of its own and the service holds no lock between its read of  *)
(* a row and its write of the whole row, so requests overlap freely; only  *)
(* ActivateStrategy is a transaction.                                      *)
(*                                                                         *)
(* A configuration is reduced to its sections.  gorm is external: Save     *)
(* updates the row with that key and, finding none, inserts it.            *)
(***************************************************************************)

CONSTANTS
  StrategyUsers,   \* owners
  StrategyIds,     \* ids newID may draw, one per creation
  StrategyClients, \* requests that may be under way at once
  StrategyTraders, \* traders that refer to a strategy
  Sections,        \* sections of a configuration
  Settings,        \* what a section may say
  DefaultSetting,  \* what DefaultConfig says in every section
  NoStrategy       \* an id that no strategy has

ASSUME StrategiesAssumption ==
  /\ DefaultSetting \in Settings
  /\ NoStrategy \notin StrategyIds

VARIABLES
  table,   \* ids that have a row
  born,    \* ids ever drawn
  owner,   \* user_id of a row
  active,  \* ids whose row says is_active
  config,  \* config of a row
  request, \* what each client's request is doing
  runs,    \* the strategy_id of each trader
  status,  \* the status of each trader
  behind   \* history: ids last written back from a copy out of date

strategyVars == <<table, born, owner, active, config, request, runs, status, behind>>

Configs == [Sections -> Settings]
DefaultConfig == [s \in Sections |-> DefaultSetting]

(* A request to change a configuration leaves a section out, names it      *)
(* without the field that makes MergeConfigInto take it, or replaces it.   *)
Unmentioned == "unmentioned"
Untriggered == "untriggered"
Changes == [Sections -> Settings \cup {Unmentioned, Untriggered}]

(* Mutant: a section the request does not mention falls back to default.   *)
MergeConfigAfresh(old, change) ==
  [s \in Sections |-> IF change[s] \in Settings THEN change[s] ELSE DefaultSetting]

MergeConfigInto(old, change) ==
  [s \in Sections |-> IF change[s] \in Settings THEN change[s] ELSE old[s]]

Statuses == {"idle", "running", "paused", "stopped"}

NoChange == [s \in Sections |-> Unmentioned]

Idle == [pc |-> "idle", id |-> NoStrategy, flag |-> FALSE,
         read |-> DefaultConfig, change |-> NoChange, began |-> {}]

StrategiesInit ==
  /\ table = {}
  /\ born = {}
  /\ owner \in [StrategyIds -> StrategyUsers]
  /\ active = {}
  /\ config = [i \in StrategyIds |-> DefaultConfig]
  /\ request = [c \in StrategyClients |-> Idle]
  /\ runs = [t \in StrategyTraders |-> NoStrategy]
  /\ status = [t \in StrategyTraders |-> "idle"]
  /\ behind = {}

-----------------------------------------------------------------------------
(* Requests *)

Owned(u, i) == i \in table /\ owner[i] = u

Finish(c) == request' = [request EXCEPT ![c] = Idle]

(* CreateStrategy: the owner of an id is fixed here. *)
Insert(i, cfg) ==
  /\ i \notin born
  /\ born' = born \cup {i}
  /\ table' = table \cup {i}
  /\ config' = [config EXCEPT ![i] = cfg]
  /\ UNCHANGED <<owner, active, request, runs, status, behind>>

(* Create: the default configuration with the request's changes. *)
CreateStrategy ==
  \E i \in StrategyIds, change \in Changes :
    Insert(i, MergeConfigInto(DefaultConfig, change))

(* Duplicate: the configuration of a row of the same user; inactive. *)
DuplicateStrategy ==
  \E i, source \in StrategyIds :
    /\ Owned(owner[i], source)
    /\ Insert(i, config[source])

(* Update, first half: GetStrategy copies the row, is_active included. *)
UpdateReads(c) ==
  /\ request[c].pc = "idle"
  /\ \E i \in table, change \in Changes :
       request' = [request EXCEPT ![c] =
         [Idle EXCEPT !.pc = "update", !.id = i,
                      !.flag = i \in active, !.read = config[i],
                      !.change = change]]
  /\ UNCHANGED <<table, born, owner, active, config, runs, status, behind>>

(* Whether the row is still as it was read. *)
Current(c) ==
  LET r == request[c] IN
  /\ r.id \in table
  /\ r.flag <=> r.id \in active
  /\ r.read = config[r.id]

(* Update, second half: UpdateStrategy saves the whole row. *)
UpdateSaves(c) ==
  LET r == request[c] IN
  /\ r.pc = "update"
  /\ table' = table \cup {r.id}
  /\ active' = IF r.flag THEN active \cup {r.id} ELSE active \ {r.id}
  /\ config' = [config EXCEPT ![r.id] = MergeConfigInto(r.read, r.change)]
  /\ behind' = IF Current(c) THEN behind ELSE behind \cup {r.id}
  /\ Finish(c)
  /\ UNCHANGED <<born, owner, runs, status>>

(* Activate, first half: the row exists and belongs to the user. *)
ActivateChecks(c) ==
  /\ request[c].pc = "idle"
  /\ \E i \in table :
       request' = [request EXCEPT ![c] =
         [Idle EXCEPT !.pc = "activate", !.id = i]]
  /\ UNCHANGED <<table, born, owner, active, config, runs, status, behind>>

(* Mutant: the other rows keep their flag. *)
ActivateOnly(c) ==
  LET r == request[c] IN
  /\ r.pc = "activate"
  /\ IF r.id \in table
     THEN /\ active' = active \cup {r.id}
          /\ behind' = {i \in behind : owner[i] # owner[r.id]}
     ELSE UNCHANGED <<active, behind>>
  /\ Finish(c)
  /\ UNCHANGED <<table, born, owner, config, runs, status>>

(* Mutant: a target that is gone is not noticed. *)
ActivateUnchecked(c) ==
  LET r == request[c] IN
  /\ r.pc = "activate"
  /\ active' = {i \in active : owner[i] # owner[r.id]} \cup {r.id}
  /\ behind' = {i \in behind : owner[i] # owner[r.id]}
  /\ Finish(c)
  /\ UNCHANGED <<table, born, owner, config, runs, status>>

(* ActivateStrategy, one transaction: the user's other rows are switched   *)
(* off, the target on; without a target it is rolled back.                 *)
ActivateCommits(c) ==
  LET r == request[c] IN
  /\ r.pc = "activate"
  /\ IF r.id \in table
     THEN /\ active' = {i \in active : owner[i] # owner[r.id]} \cup {r.id}
          /\ behind' = {i \in behind : owner[i] # owner[r.id]}
     ELSE UNCHANGED <<active, behind>>
  /\ Finish(c)
  /\ UNCHANGED <<table, born, owner, config, runs, status>>

(* Mutant: only running traders count. *)
InUseRunning(i) == \E t \in StrategyTraders : runs[t] = i /\ status[t] = "running"

(* The walk over the traders of all users. *)
InUse(i) ==
  \E t \in StrategyTraders : runs[t] = i /\ status[t] \in {"running", "paused"}

(* Delete, first half: the row exists and no trader in use names it. *)
DeleteChecks(c) ==
  /\ request[c].pc = "idle"
  /\ \E i \in table :
       /\ ~InUse(i)
       /\ request' = [request EXCEPT ![c] =
            [Idle EXCEPT !.pc = "delete", !.id = i]]
  /\ UNCHANGED <<table, born, owner, active, config, runs, status, behind>>

(* Delete, second half: DeleteStrategy removes the row, if it is there. *)
DeleteCommits(c) ==
  LET r == request[c] IN
  /\ r.pc = "delete"
  /\ table' = table \ {r.id}
  /\ active' = active \ {r.id}
  /\ behind' = behind \ {r.id}
  /\ Finish(c)
  /\ UNCHANGED <<born, owner, config, runs, status>>

-----------------------------------------------------------------------------
(* Traders: what the other services do to the fields the check reads.  The *)
(* service never asks whether the strategy exists.                         *)

(* The requests that are between their check and their deletion note that  *)
(* t came into use meanwhile.                                              *)
NoteUse(t) ==
  request' = [c \in StrategyClients |->
    IF request[c].pc = "delete" THEN [request[c] EXCEPT !.began = @ \cup {t}]
                                ELSE request[c]]

SetStatus(t, from, to) ==
  /\ status[t] \in from
  /\ status' = [status EXCEPT ![t] = to]
  /\ UNCHANGED <<table, born, owner, active, config, runs, behind>>

StrategyTraderStarts(t) ==
  SetStatus(t, {"idle", "paused", "stopped"}, "running") /\ NoteUse(t)

StrategyTraderPauses(t) ==
  SetStatus(t, {"running"}, "paused") /\ UNCHANGED request

StrategyTraderStops(t) ==
  SetStatus(t, {"running", "paused"}, "stopped") /\ UNCHANGED request

(* TraderService.Update is refused for a running trader, not a paused one. *)
TraderRebinds(t) ==
  /\ status[t] # "running"
  /\ \E i \in StrategyIds : i # runs[t] /\ runs' = [runs EXCEPT ![t] = i]
  /\ NoteUse(t)
  /\ UNCHANGED <<table, born, owner, active, config, status, behind>>

(* engine.strategyConfig: what a trader's next cycle works with. *)
CycleConfig(t) == IF runs[t] \in table THEN config[runs[t]] ELSE DefaultConfig

-----------------------------------------------------------------------------
StrategiesNext ==
  \/ CreateStrategy
  \/ DuplicateStrategy
  \/ \E c \in StrategyClients :
       \/ UpdateReads(c)
       \/ UpdateSaves(c)
       \/ ActivateChecks(c)
       \/ ActivateCommits(c)
       \/ DeleteChecks(c)
       \/ DeleteCommits(c)
  \/ \E t \in StrategyTraders :
       \/ StrategyTraderStarts(t)
       \/ StrategyTraderPauses(t)
       \/ StrategyTraderStops(t)
       \/ TraderRebinds(t)

StrategiesSpec == StrategiesInit /\ [][StrategiesNext]_strategyVars

-----------------------------------------------------------------------------
StrategiesTypeOK ==
  /\ table \subseteq born
  /\ born \subseteq StrategyIds
  /\ owner \in [StrategyIds -> StrategyUsers]
  /\ active \subseteq table
  /\ config \in [StrategyIds -> Configs]
  /\ request \in [StrategyClients ->
       [pc : {"idle", "update", "activate", "delete"},
        id : StrategyIds \cup {NoStrategy}, flag : BOOLEAN, read : Configs, change : Changes,
        began : SUBSET StrategyTraders]]
  /\ runs \in [StrategyTraders -> StrategyIds \cup {NoStrategy}]
  /\ status \in [StrategyTraders -> Statuses]
  /\ behind \subseteq table

(* GetActiveStrategy answers the first of these. *)
GetActive(u) == {i \in active : owner[i] = u}

(* strategy_store.go:138 (others are switched off first, which makes the   *)
(* active strategy unique): however activations, edits and deletions       *)
(* overlap, a user has two active strategies only when an edit wrote back  *)
(* a row that had changed since it was read.  (model/strategy.go:16,       *)
(* strategy_store.go:79 and strategy_svc.go:173 make no such reservation.) *)
OneActiveUnlessBehind ==
  \A u \in StrategyUsers : \A i, j \in GetActive(u) \ behind : i = j

(* strategy_svc.go:156: a strategy is deleted under a running or paused    *)
(* trader only if the trader came to use it after the deletion had looked. *)
(* (The comment there makes no such reservation.)                          *)
DeleteSparesTraders ==
  [][\A c \in StrategyClients :
       request[c].pc = "delete" /\ request'[c].pc = "idle" =>
         \A t \in StrategyTraders :
           runs[t] = request[c].id /\ status[t] \in {"running", "paused"} =>
             t \in request[c].began]_strategyVars

(* strategy_svc.go:105: a section changes under a trader only by an edit   *)
(* that names it, unless the row changed between an edit's read and its    *)
(* write.                                                                  *)
EditsKeepTheRest ==
  [][\A t \in StrategyTraders, s \in Sections :
       /\ runs'[t] = runs[t]
       /\ runs[t] \in (table \cap table') \ behind'
       /\ CycleConfig(t)'[s] # CycleConfig(t)[s]
       => \E c \in StrategyClients :
            /\ request[c].id = runs[t]
            /\ request[c].change[s] \in Settings]_strategyVars

(* What a trader works with is taken away by no deletion that looked after *)
(* the trader came to use it, and changed by no edit of something else.    *)
TradersKeepTheirStrategy == DeleteSparesTraders /\ EditsKeepTheRest
==============================================================================
