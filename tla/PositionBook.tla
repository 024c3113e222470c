---------------------------- MODULE PositionBook ----------------------------
(***************************************************************************)
(* How one trader's table of positions in one symbol is kept in step with  *)
(* the exchange by four writers: the trading loop (engine.execute and the  *)
(* drawdown guard of runCycle), the order-sync goroutines (orderSync and   *)
(* positionBuilder), the API (TraderService.ClosePosition), and, at the    *)
(* exchange itself, a person trading the same account by hand.             *)
(*                                                                         *)
(* The exchange is external: it keeps a long and a short holding (the      *)
(* adapters send a position side), executes an order at once or refuses    *)
(* it, and lists its fills in order.  Quantities are small integers; money *)
(* is left out, a closing only counts.                                     *)
(***************************************************************************)
EXTENDS Integers, Sequences, FiniteSets

CONSTANTS
  Syncs,       \* order-sync goroutines (two after a self-ended loop and a restart)
  Quantities,  \* sizes of orders
  Sides,       \* position sides in use, a subset of {"long", "short"}
  MaxOrders,   \* bound on the orders the exchange executes
  ByHand,      \* may a person trade the account directly?
  Guard,       \* may the drawdown guard fire?
  SplitFills,  \* may an order be filled in two parts?
  LostReplies, \* may the answer to an executed order be lost?
  ApiCloses,   \* may the API close positions?
  MaxCrashes,  \* bound on the deaths of the process
  OneAtATime   \* does every writer finish before the next one begins?

ASSUME BookAssumption ==
  /\ IsFiniteSet(Syncs)
  /\ Quantities \subseteq Nat \ {0}
  /\ Sides \subseteq {"long", "short"}
  /\ MaxOrders \in Nat
  /\ MaxCrashes \in Nat
  /\ {ByHand, Guard, SplitFills, LostReplies, ApiCloses, OneAtATime}
       \subseteq BOOLEAN

VARIABLES
  holding,  \* exchange: quantity held on each side
  fills,    \* exchange: every fill so far, oldest first
  orders,   \* store: exchange_order_id of the orders table (unique index)
  seen,     \* store: exchange_trade_id of the fills table (unique index)
  book,     \* store: the positions table, oldest row first
  trades,   \* store: Metrics.TradeCount
  eng,      \* the trading loop
  syncs,    \* each order-sync goroutine
  api,      \* the API handler
  built,    \* history: how often positionBuilder was called, per order
  lost,     \* history: countings under way when the process died
  crashes   \* history: how often it died

exchangeVars == <<holding, fills>>
storeVars    == <<orders, seen, book, trades>>
history      == <<built, lost, crashes>>
bookVars == <<exchangeVars, storeVars, eng, syncs, api, history>>

NoPosition == 0
EngineIdle == [pc |-> "idle", side |-> "long", qty |-> 0, order |-> 0,
               row |-> NoPosition, log |-> FALSE]
SyncIdle == [pc |-> "idle", todo |-> <<>>, row |-> NoPosition]

BookInit ==
  /\ holding = [s \in Sides |-> 0]
  /\ fills = <<>>
  /\ orders = {}
  /\ seen = {}
  /\ book = <<>>
  /\ trades = 0
  /\ eng = EngineIdle
  /\ syncs = [s \in Syncs |-> SyncIdle]
  /\ api = "idle"
  /\ built = [n \in 1..MaxOrders |-> 0]
  /\ lost = 0
  /\ crashes = 0

-----------------------------------------------------------------------------
(* The exchange *)

Placed == Cardinality({fills[i].order : i \in DOMAIN fills})
NextOrder == Placed + 1

(* mapSide: which way an order trades. *)
mapSide(side, kind) ==
  IF (side = "long") = (kind = "open") THEN "buy" ELSE "sell"

(* What an order of size q fills: a close is reduce-only. *)
Filled(side, kind, q) ==
  IF kind = "open" \/ q <= holding[side] THEN q ELSE holding[side]

(* The sizes of the parts. *)
Parts(q) == {<<q>>} \cup (IF SplitFills /\ q > 1 THEN {<<1, q - 1>>} ELSE {})

(* An order is executed.  A close with nothing to close is refused. *)
Execute(side, kind, q) ==
  LET done == Filled(side, kind, q) IN
  /\ Placed < MaxOrders
  /\ done > 0
  /\ holding' = [holding EXCEPT ![side] = IF kind = "open" THEN @ + done ELSE @ - done]
  /\ \E parts \in Parts(done) :
       fills' = fills \o [i \in DOMAIN parts |->
                            [order |-> NextOrder, part |-> i,
                             dir |-> mapSide(side, kind), qty |-> parts[i]]]

(* Whether a writer may begin. *)
AllIdle ==
  /\ eng.pc = "idle"
  /\ api = "idle"
  /\ \A s \in Syncs : syncs[s].pc = "idle"
MayBegin == OneAtATime => AllIdle

(* A person trades: the program hears of it by its fills only. *)
TradeByHand ==
  /\ ByHand
  /\ MayBegin
  /\ \E side \in Sides, kind \in {"open", "close"}, q \in Quantities :
       Execute(side, kind, q)
  /\ UNCHANGED <<storeVars, eng, syncs, api, history>>

-----------------------------------------------------------------------------
(* The store *)

OpenRows == {i \in DOMAIN book : book[i].open}

(* Mutant: the walk over the rows starts one past the last. *)
NewestPast(rows) == 1 + CHOOSE i \in rows : \A j \in rows : j <= i

(* The newest of a set of rows: lists are by opening time, newest first. *)
Newest(rows) == CHOOSE i \in rows : \A j \in rows : j <= i

(* AddPosition; order is the exchange order it stands for. *)
Row(side, qty, order) ==
  [side |-> side, qty |-> qty, order |-> order, open |-> TRUE, closer |-> "none"]

(* Mutant: the update is not conditional on closed_at. *)
ClosedAgain(i, who) == [book EXCEPT ![i].open = FALSE, ![i].closer = who]

(* ClosePosition: only a row that is still open is changed. *)
Closed(i, who) ==
  IF book[i].open
  THEN [book EXCEPT ![i].open = FALSE, ![i].closer = who]
  ELSE book

-----------------------------------------------------------------------------
(* The trading loop *)

(* execute: the adapter call. *)
EngineTrade ==
  /\ eng.pc = "idle"
  /\ MayBegin
  /\ \E side \in Sides, kind \in {"open", "close"}, q \in Quantities :
       /\ Execute(side, kind, q)
       /\ eng' = [pc |-> IF kind = "open" THEN "addPosition" ELSE "findRow",
                  side |-> side, qty |-> q, order |-> NextOrder,
                  row |-> NoPosition, log |-> TRUE]
  /\ UNCHANGED <<storeVars, syncs, api, history>>

(* The order was executed and the call fails: execute only logs it. *)
EngineTradeLost ==
  /\ LostReplies
  /\ eng.pc = "idle"
  /\ MayBegin
  /\ \E side \in Sides, kind \in {"open", "close"}, q \in Quantities :
       Execute(side, kind, q)
  /\ UNCHANGED <<storeVars, eng, syncs, api, history>>

(* runCycle's guard closes a whole holding; it keeps no order. *)
GuardTrade ==
  /\ Guard
  /\ eng.pc = "idle"
  /\ MayBegin
  /\ \E side \in Sides :
       /\ Execute(side, "close", holding[side])
       /\ eng' = [pc |-> "findRow", side |-> side, qty |-> holding[side],
                  order |-> NextOrder, row |-> NoPosition, log |-> FALSE]
  /\ UNCHANGED <<storeVars, syncs, api, history>>

EngineAddPosition ==
  /\ eng.pc = "addPosition"
  /\ book' = Append(book, Row(eng.side, eng.qty, eng.order))
  /\ eng' = [eng EXCEPT !.pc = "addOrder"]
  /\ UNCHANGED <<exchangeVars, orders, seen, trades, syncs, api, history>>

(* Where closePosition's caller goes on. *)
AfterClose == IF eng.log THEN [eng EXCEPT !.pc = "addOrder"] ELSE EngineIdle

(* closePosition: the newest open row of the symbol, of either side. *)
EngineFindRow ==
  /\ eng.pc = "findRow"
  /\ eng' = IF OpenRows = {} THEN AfterClose
            ELSE [eng EXCEPT !.pc = "close", !.row = Newest(OpenRows)]
  /\ UNCHANGED <<exchangeVars, storeVars, syncs, api, history>>

EngineClose ==
  /\ eng.pc = "close"
  /\ book' = Closed(eng.row, "engine")
  /\ eng' = [eng EXCEPT !.pc = "metrics"]
  /\ UNCHANGED <<exchangeVars, orders, seen, trades, syncs, api, history>>

(* Whether or not the row was closed by this call. *)
EngineMetrics ==
  /\ eng.pc = "metrics"
  /\ trades' = trades + 1
  /\ eng' = AfterClose
  /\ UNCHANGED <<exchangeVars, orders, seen, book, syncs, api, history>>

EngineAddOrder ==
  /\ eng.pc = "addOrder"
  /\ orders' = orders \cup {eng.order}
  /\ eng' = EngineIdle
  /\ UNCHANGED <<exchangeVars, seen, book, trades, syncs, api, history>>

-----------------------------------------------------------------------------
(* An order-sync goroutine *)

TradeId(f) == <<f.order, f.part>>

SyncTo(s, pc, todo, row) ==
  syncs' = [syncs EXCEPT ![s] = [pc |-> pc, todo |-> todo, row |-> row]]

SyncGoes(s, pc) == SyncTo(s, pc, syncs[s].todo, syncs[s].row)

(* orderSync goes on with the fills from todo on. *)
SyncAt(s, todo) ==
  SyncTo(s, IF todo = <<>> THEN "idle" ELSE "addFill", todo, NoPosition)

SyncPull(s) ==
  /\ syncs[s].pc = "idle"
  /\ MayBegin
  /\ SyncAt(s, fills)
  /\ UNCHANGED <<exchangeVars, storeVars, eng, api, history>>

(* Mutant: the first known fill ends the walk. *)
SyncAddFillStops(s) ==
  LET f == Head(syncs[s].todo) IN
  /\ syncs[s].pc = "addFill"
  /\ seen' = seen \cup {TradeId(f)}
  /\ IF TradeId(f) \in seen THEN SyncAt(s, <<>>) ELSE SyncGoes(s, "addOrder")
  /\ UNCHANGED <<exchangeVars, orders, book, trades, eng, api, history>>

(* AddFill: the unique index decides, at once, who added it. *)
SyncAddFill(s) ==
  LET f == Head(syncs[s].todo) IN
  /\ syncs[s].pc = "addFill"
  /\ seen' = seen \cup {TradeId(f)}
  /\ IF TradeId(f) \in seen THEN SyncAt(s, Tail(syncs[s].todo))
                          ELSE SyncGoes(s, "addOrder")
  /\ UNCHANGED <<exchangeVars, orders, book, trades, eng, api, history>>

(* Mutant: the flag of AddOrder is not looked at. *)
SyncAddOrderAgain(s) ==
  /\ syncs[s].pc = "addOrder"
  /\ orders' = orders \cup {Head(syncs[s].todo).order}
  /\ SyncGoes(s, "build")
  /\ UNCHANGED <<exchangeVars, seen, book, trades, eng, api, history>>

(* AddOrder: positionBuilder is for fills of unknown orders. *)
SyncAddOrder(s) ==
  LET f == Head(syncs[s].todo) IN
  /\ syncs[s].pc = "addOrder"
  /\ orders' = orders \cup {f.order}
  /\ IF f.order \in orders THEN SyncAt(s, Tail(syncs[s].todo))
                           ELSE SyncGoes(s, "build")
  /\ UNCHANGED <<exchangeVars, seen, book, trades, eng, api, history>>

(* The side of a position the fill may close; also, when there is none,    *)
(* the side of the position it is taken to open.                           *)
closingSide(f) == IF f.dir = "sell" THEN "long" ELSE "short"

(* positionBuilder reads the open rows and decides. *)
SyncBuild(s) ==
  LET f == Head(syncs[s].todo)
      matching == {i \in OpenRows : book[i].side = closingSide(f)}
  IN
  /\ syncs[s].pc = "build"
  /\ built' = [built EXCEPT ![f.order] = @ + 1]
  /\ IF matching # {}
     THEN IF f.qty >= book[Newest(matching)].qty
          THEN SyncTo(s, "close", syncs[s].todo, Newest(matching))
          ELSE SyncAt(s, Tail(syncs[s].todo))
     ELSE IF OpenRows # {}
          THEN SyncAt(s, Tail(syncs[s].todo))
          ELSE SyncGoes(s, "backfill")
  /\ UNCHANGED <<exchangeVars, storeVars, eng, api, lost, crashes>>

(* Mutant: the settlement does not reach the metrics. *)
SyncCloseUncounted(s) ==
  /\ syncs[s].pc = "close"
  /\ book' = Closed(syncs[s].row, "sync")
  /\ SyncAt(s, Tail(syncs[s].todo))
  /\ UNCHANGED <<exchangeVars, orders, seen, trades, eng, api, history>>

SyncClose(s) ==
  /\ syncs[s].pc = "close"
  /\ book' = Closed(syncs[s].row, "sync")
  /\ SyncGoes(s, "metrics")
  /\ UNCHANGED <<exchangeVars, orders, seen, trades, eng, api, history>>

SyncMetrics(s) ==
  /\ syncs[s].pc = "metrics"
  /\ trades' = trades + 1
  /\ SyncAt(s, Tail(syncs[s].todo))
  /\ UNCHANGED <<exchangeVars, orders, seen, book, eng, api, history>>

SyncBackfill(s) ==
  LET f == Head(syncs[s].todo) IN
  /\ syncs[s].pc = "backfill"
  /\ book' = Append(book, Row(closingSide(f), f.qty, f.order))
  /\ SyncAt(s, Tail(syncs[s].todo))
  /\ UNCHANGED <<exchangeVars, orders, seen, trades, eng, api, history>>

-----------------------------------------------------------------------------
(* TraderService.ClosePosition: the metrics only if this call closed it. *)

ApiClose ==
  /\ ApiCloses
  /\ api = "idle"
  /\ MayBegin
  /\ \E i \in OpenRows : book' = Closed(i, "api")
  /\ api' = "metrics"
  /\ UNCHANGED <<exchangeVars, orders, seen, trades, eng, syncs, history>>

ApiMetrics ==
  /\ api = "metrics"
  /\ trades' = trades + 1
  /\ api' = "idle"
  /\ UNCHANGED <<exchangeVars, orders, seen, book, eng, syncs, history>>

(* Writers that have closed a row, or think so, and have yet to count it.  *)
Counting ==
  (IF eng.pc = "metrics" THEN 1 ELSE 0)
  + (IF api = "metrics" THEN 1 ELSE 0)
  + Cardinality({s \in Syncs : syncs[s].pc = "metrics"})

(* The process dies: what was under way is forgotten. *)
BookCrash ==
  /\ crashes < MaxCrashes
  /\ ~AllIdle
  /\ eng' = EngineIdle
  /\ syncs' = [s \in Syncs |-> SyncIdle]
  /\ api' = "idle"
  /\ lost' = lost + Counting
  /\ crashes' = crashes + 1
  /\ UNCHANGED <<exchangeVars, storeVars, built>>

-----------------------------------------------------------------------------
EngineStep ==
  \/ EngineAddPosition
  \/ EngineFindRow
  \/ EngineClose
  \/ EngineMetrics
  \/ EngineAddOrder

Syncing(s) ==
  \/ SyncPull(s)
  \/ SyncAddFill(s)
  \/ SyncAddOrder(s)
  \/ SyncBuild(s)
  \/ SyncClose(s)
  \/ SyncMetrics(s)
  \/ SyncBackfill(s)

BookNext ==
  \/ TradeByHand
  \/ EngineTrade
  \/ EngineTradeLost
  \/ GuardTrade
  \/ EngineStep
  \/ \E s \in Syncs : Syncing(s)
  \/ ApiClose
  \/ ApiMetrics
  \/ BookCrash

BookSpec == BookInit /\ [][BookNext]_bookVars

(* The goroutines run and the ticker of orderSyncLoop fires; nobody has to *)
(* trade.                                                                  *)
BookFairness ==
  /\ WF_bookVars(EngineStep)
  /\ WF_bookVars(ApiMetrics)
  /\ \A s \in Syncs : WF_bookVars(Syncing(s))

-----------------------------------------------------------------------------
BookTypeOK ==
  /\ holding \in [Sides -> Nat]
  /\ \A i \in DOMAIN fills : fills[i].dir \in {"buy", "sell"} /\ fills[i].qty \in Nat \ {0}
  /\ orders \subseteq 1..MaxOrders
  /\ seen \subseteq (1..MaxOrders) \X (1..2)
  /\ trades \in Nat
  /\ built \in [1..MaxOrders -> Nat]
  /\ lost \in Nat
  /\ crashes \in 0..MaxCrashes
  /\ eng.row \in {NoPosition} \cup DOMAIN book
  /\ \A s \in Syncs : syncs[s].row \in {NoPosition} \cup DOMAIN book

(* ordersync.go:15: however often fills are pulled, by however many        *)
(* goroutines and through crashes, positionBuilder works on a fill at most *)
(* once, and on one fill of an order at most.                              *)
BuiltOnce == \A n \in 1..MaxOrders : built[n] <= 1

(* store.go:666: a position is closed once; who closed it is never         *)
(* overwritten by one of the other writers that race for it.               *)
ClosedOnce ==
  [][\A i \in DOMAIN book : ~book[i].open => book'[i] = book[i]]_book

(* Every closing reaches TradeCount, whoever made it and whatever the      *)
(* others do meanwhile (engine.go:437, ordersync.go:112, trader_svc.go:291 *)
(* count after closing); the one exception is a process that dies between. *)
ClosedRows == {i \in DOMAIN book : ~book[i].open}
MetricsCoverClosed == Cardinality(ClosedRows) <= trades + Counting + lost

(* Every fill of the exchange is recorded in the end, whatever the writers *)
(* and a process that dies a few times do (ordersync.go:14: the sync       *)
(* catches up with everything the engine has not heard of).                *)
AllFillsSeen == {TradeId(fills[i]) : i \in DOMAIN fills} \subseteq seen
FillsGetRecorded == []<>AllFillsSeen

(* The sum of the quantities of the open rows of a side. *)
Booked(side) ==
  LET sum[i \in 0..Len(book)] ==
        IF i = 0 THEN 0
        ELSE sum[i - 1] + (IF book[i].open /\ book[i].side = side THEN book[i].qty ELSE 0)
  IN sum[Len(book)]

(* engine.go:378: the book shows what is held, whenever everything the     *)
(* exchange did has been pulled and nobody is at work.                     *)
Settled == AllIdle /\ AllFillsSeen
BookMatches == Settled => \A side \in Sides : Booked(side) = holding[side]
=============================================================================
