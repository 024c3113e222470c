-------------------------- MODULE PositionBookProofs --------------------------
(***************************************************************************)
(* Proofs, for any number of order-sync goroutines, orders and quantities: *)
(* positionBuilder is applied at most once to an order, a position is      *)
(* closed once, every closing is counted, and the book of an engine that   *)
(* has the account and one side to itself shows what is held; whoever      *)
(* trades, the writers remember rows that are there.                       *)
(***************************************************************************)
EXTENDS PositionBook, FiniteSetTheorems, SequenceTheorems, NaturalsInduction,
        Counting, TLAPS

(* The order an order-sync goroutine is working on. *)
Working(s) == Head(syncs[s].todo).order

SyncShape == syncs = [s \in Syncs |-> syncs[s]]

(* The orders table knows an order before positionBuilder is called for    *)
(* it, and the one goroutine that inserted it is the one that calls.       *)
BuildInv ==
  /\ built \in [1..MaxOrders -> Nat]
  /\ \A n \in 1..MaxOrders : built[n] <= 1 /\ (built[n] = 1 => n \in orders)
  /\ \A s \in Syncs : syncs[s].pc = "build" =>
       /\ Working(s) \in orders
       /\ Working(s) \in 1..MaxOrders => built[Working(s)] = 0
       /\ \A t \in Syncs : t # s /\ syncs[t].pc = "build" => Working(t) # Working(s)

Inv == SyncShape /\ BuildInv

LEMMA InvInit == BookInit => Inv
BY BookAssumption DEF BookInit, Inv, SyncShape, BuildInv, SyncIdle

(* A goroutine that moves on to a state other than "build" with orders and *)
(* built as they were, or more orders, keeps the invariant.                *)
LEMMA MovesOn ==
  ASSUME Inv, NEW s \in Syncs, NEW pc, NEW todo, NEW row,
         pc # "build", SyncTo(s, pc, todo, row),
         orders \subseteq orders', built' = built
  PROVE  Inv'
BY DEF Inv, SyncShape, BuildInv, Working, SyncTo

LEMMA SyncKeeps ==
  ASSUME Inv, NEW s \in Syncs, Syncing(s)
  PROVE  Inv'
<1>1. CASE SyncPull(s)
  BY <1>1, MovesOn DEF SyncPull, SyncAt, storeVars, history
<1>2. CASE SyncAddFill(s)
  BY <1>2, MovesOn DEF SyncAddFill, SyncAt, SyncGoes, history
<1>3. CASE SyncAddOrder(s)
  <2>1. CASE Head(syncs[s].todo).order \in orders
    BY <1>3, <2>1, MovesOn DEF SyncAddOrder, SyncAt, history
  <2>2. CASE Head(syncs[s].todo).order \notin orders
    BY <1>3, <2>2 DEF SyncAddOrder, SyncGoes, SyncTo, Inv, SyncShape, BuildInv, Working, history
  <2> QED
    BY <2>1, <2>2
<1>4. CASE SyncBuild(s)
  <2>1. PICK pc, todo, row : pc # "build" /\ SyncTo(s, pc, todo, row)
    BY <1>4 DEF SyncBuild, SyncAt, SyncGoes
  <2>2. /\ syncs[s].pc = "build"
        /\ built' = [built EXCEPT ![Working(s)] = @ + 1]
        /\ orders' = orders
    BY <1>4 DEF SyncBuild, Working, storeVars
  <2>3. SyncShape' /\ syncs'[s].pc # "build"
    BY <2>1 DEF Inv, SyncShape, SyncTo
  <2>4. \A t \in Syncs : t # s => syncs'[t] = syncs[t]
    BY <2>1 DEF SyncTo, Inv, SyncShape
  <2>5. CASE Working(s) \in 1..MaxOrders
    <3>1. /\ built[Working(s)] = 0
          /\ Working(s) \in orders
      BY <2>2, <2>5 DEF Inv, BuildInv
    <3>2. /\ built' \in [1..MaxOrders -> Nat]
          /\ \A n \in 1..MaxOrders :
               built'[n] = IF n = Working(s) THEN 1 ELSE built[n]
      BY <2>2, <2>5, <3>1 DEF Inv, BuildInv
    <3> QED
      BY <2>2, <2>3, <2>4, <3>1, <3>2 DEF Inv, BuildInv, Working
  <2>6. CASE Working(s) \notin 1..MaxOrders
    <3>1. built' = built
      BY <2>2, <2>6 DEF Inv, BuildInv
    <3>2. \A t \in Syncs : syncs'[t].pc = "build" => t # s /\ syncs'[t] = syncs[t]
      BY <2>3, <2>4
    <3>3. \A n \in 1..MaxOrders :
             built'[n] <= 1 /\ (built'[n] = 1 => n \in orders')
      BY <2>2, <3>1 DEF Inv, BuildInv
    <3>4. ASSUME NEW t \in Syncs, syncs'[t].pc = "build"
          PROVE  /\ Working(t)' \in orders'
                 /\ Working(t)' \in 1..MaxOrders => built'[Working(t)'] = 0
                 /\ \A u \in Syncs : u # t /\ syncs'[u].pc = "build"
                                      => Working(u)' # Working(t)'
      BY <2>2, <3>1, <3>2, <3>4 DEF Inv, BuildInv, Working
    <3> QED
      BY <2>3, <3>1, <3>3, <3>4 DEF Inv, BuildInv
  <2> QED
    BY <2>5, <2>6
<1>5. CASE SyncClose(s)
  BY <1>5, MovesOn DEF SyncClose, SyncGoes, history
<1>6. CASE SyncMetrics(s)
  BY <1>6, MovesOn DEF SyncMetrics, SyncAt, history
<1>7. CASE SyncBackfill(s)
  BY <1>7, MovesOn DEF SyncBackfill, SyncAt, history
<1> QED
  BY <1>1, <1>2, <1>3, <1>4, <1>5, <1>6, <1>7 DEF Syncing

(* The other writers add orders at most. *)
LEMMA OthersKeep ==
  ASSUME Inv, orders \subseteq orders', UNCHANGED <<syncs, built>>
  PROVE  Inv'
BY DEF Inv, SyncShape, BuildInv, Working

LEMMA InvStep == Inv /\ [BookNext]_bookVars => Inv'
<1> SUFFICES ASSUME Inv, [BookNext]_bookVars PROVE Inv'
  OBVIOUS
<1>1. CASE TradeByHand \/ EngineTrade \/ EngineTradeLost \/ GuardTrade
  BY <1>1, OthersKeep DEF TradeByHand, EngineTrade, EngineTradeLost, GuardTrade,
                          storeVars, history
<1>2. CASE EngineStep
  BY <1>2, OthersKeep DEF EngineStep, EngineAddPosition, EngineFindRow, EngineClose,
                          EngineMetrics, EngineAddOrder, storeVars,
                          history
<1>3. CASE ApiClose \/ ApiMetrics
  BY <1>3, OthersKeep DEF ApiClose, ApiMetrics, history
<1>4. CASE BookCrash
  BY <1>4 DEF BookCrash, storeVars, history, Inv, SyncShape, BuildInv, SyncIdle
<1>5. CASE UNCHANGED bookVars
  BY <1>5, OthersKeep DEF bookVars, storeVars, history
<1> QED
  BY <1>1, <1>2, <1>3, <1>4, <1>5, SyncKeeps DEF BookNext

(* However many goroutines pull however often, and through crashes, an     *)
(* order's fills reach positionBuilder once at most (ordersync.go:15).     *)
THEOREM BuilderIdempotent == BookSpec => []BuiltOnce
<1>1. Inv => BuiltOnce
  BY DEF Inv, BuildInv, BuiltOnce
<1> QED
  BY <1>1, InvInit, InvStep, PTL DEF BookSpec

-----------------------------------------------------------------------------
(* The positions table is a sequence of rows; of what they hold only       *)
(* whether a row is open matters here.                                     *)
RowsOver(V) ==
  [side : V, qty : V, order : V, open : BOOLEAN, closer : {"none", "engine", "sync", "api"}]

BookShape == \E V : book \in Seq(RowsOver(V))

EngineShape ==
  \E V : eng \in [pc : {"idle", "addPosition", "findRow", "close", "metrics", "addOrder"},
                  side : V, qty : V, order : V, row : V, log : BOOLEAN]

LEMMA RowsGrow ==
  ASSUME NEW U, NEW V, U \subseteq V
  PROVE  Seq(RowsOver(U)) \subseteq Seq(RowsOver(V))
<1>1. RowsOver(U) \subseteq RowsOver(V)
  BY DEF RowsOver
<1> QED
  BY <1>1

(* A new row is open, and the others stay.                                 *)
LEMMA RowAdded ==
  ASSUME BookShape, NEW side, NEW qty, NEW order,
         book' = Append(book, Row(side, qty, order))
  PROVE  /\ BookShape'
         /\ ClosedRows' = ClosedRows
         /\ \A i \in DOMAIN book : book'[i] = book[i]
<1>1. PICK V : book \in Seq(RowsOver(V))
  BY DEF BookShape
<1> DEFINE W == V \cup {side, qty, order}
<1>2. book \in Seq(RowsOver(W))
  BY <1>1, RowsGrow
<1>3. Row(side, qty, order) \in RowsOver(W) /\ Row(side, qty, order).open = TRUE
  BY DEF Row, RowsOver
<1>4. /\ book' \in Seq(RowsOver(W))
      /\ DOMAIN book = 1..Len(book)
      /\ DOMAIN book' = 1..(Len(book) + 1)
      /\ \A i \in 1..Len(book) : book'[i] = book[i]
      /\ book'[Len(book) + 1] = Row(side, qty, order)
      /\ Len(book) \in Nat
  BY <1>2, <1>3
<1>5. BookShape'
  BY <1>4 DEF BookShape
<1>6. ClosedRows' = ClosedRows
  BY <1>3, <1>4 DEF ClosedRows
<1> QED
  BY <1>4, <1>5, <1>6

(* ClosePosition closes one row at most, and none that is closed.          *)
LEMMA RowClosed ==
  ASSUME BookShape, NEW i, NEW who \in {"engine", "sync", "api"}, book' = Closed(i, who)
  PROVE  /\ BookShape'
         /\ ClosedRows' \subseteq ClosedRows \cup {i}
         /\ \A j \in DOMAIN book : ~book[j].open => book'[j] = book[j]
<1>1. PICK V : book \in Seq(RowsOver(V))
  BY DEF BookShape
<1>2. CASE book' = book
  BY <1>1, <1>2 DEF BookShape, ClosedRows
<1>3. CASE book' # book
  <2>1. book[i].open /\ book' = [book EXCEPT ![i].open = FALSE, ![i].closer = who]
    BY <1>3 DEF Closed
  <2>2. i \in DOMAIN book
    BY <1>1, <1>3, <2>1
  <2>3. book[i] \in RowsOver(V)
    BY <1>1, <2>2
  <2> DEFINE new == [book[i] EXCEPT !.open = FALSE, !.closer = who]
  <2>4. new \in RowsOver(V)
    BY <2>3 DEF RowsOver
  <2>5. book' = [book EXCEPT ![i] = new]
    BY <2>1
  <2>6. /\ book' \in Seq(RowsOver(V))
        /\ DOMAIN book' = DOMAIN book
        /\ \A j \in DOMAIN book : j # i => book'[j] = book[j]
    BY <1>1, <2>2, <2>4, <2>5
  <2> QED
    BY <2>1, <2>6 DEF BookShape, ClosedRows
<1> QED
  BY <1>2, <1>3

LEMMA BookKept ==
  ASSUME BookShape, book' = book
  PROVE  /\ BookShape'
         /\ ClosedRows' = ClosedRows
         /\ \A i \in DOMAIN book : book'[i] = book[i]
BY DEF BookShape, ClosedRows

(* Who adds rows, who closes them, and who leaves them alone.              *)
LEMMA BookSteps ==
  ASSUME [BookNext]_bookVars
  PROVE  \/ book' = book
         \/ \E side, qty, order : book' = Append(book, Row(side, qty, order))
         \/ \E i : \E who \in {"engine", "sync", "api"} : book' = Closed(i, who)
<1>1. CASE TradeByHand \/ EngineTrade \/ EngineTradeLost \/ GuardTrade
  BY <1>1 DEF TradeByHand, EngineTrade, EngineTradeLost, GuardTrade, storeVars
<1>2. CASE EngineStep
  BY <1>2 DEF EngineStep, EngineAddPosition, EngineFindRow, EngineClose, EngineMetrics,
              EngineAddOrder, storeVars
<1>3. CASE \E s \in Syncs : Syncing(s)
  BY <1>3 DEF Syncing, SyncPull, SyncAddFill, SyncAddOrder, SyncBuild, SyncClose,
              SyncMetrics, SyncBackfill, storeVars
<1>4. CASE ApiClose \/ ApiMetrics \/ BookCrash \/ UNCHANGED bookVars
  BY <1>4 DEF ApiClose, ApiMetrics, BookCrash, bookVars, storeVars
<1> QED
  BY <1>1, <1>2, <1>3, <1>4 DEF BookNext

LEMMA BookStep ==
  ASSUME BookShape, [BookNext]_bookVars
  PROVE  /\ BookShape'
         /\ \A i \in DOMAIN book : ~book[i].open => book'[i] = book[i]
BY BookSteps, RowAdded, RowClosed, BookKept

(* However the engine, the syncs and the API race for a position, it is    *)
(* closed once and the first to close it stays its closer (store.go:666).  *)
THEOREM PositionClosedOnce == BookSpec => ClosedOnce
<1>1. BookInit => BookShape
  BY DEF BookInit, BookShape
<1>2. BookShape /\ [BookNext]_bookVars =>
        /\ BookShape'
        /\ [\A i \in DOMAIN book : ~book[i].open => book'[i] = book[i]]_book
  BY BookStep
<1> QED
  BY <1>1, <1>2, PTL DEF BookSpec, ClosedOnce

-----------------------------------------------------------------------------
(* Who is about to count.                                                  *)
SyncsCounting == {s \in Syncs : syncs[s].pc = "metrics"}

(* The shape of what the count is made of.                                 *)
CountShape ==
  /\ BookShape
  /\ EngineShape
  /\ SyncShape
  /\ trades \in Nat
  /\ lost \in Nat

CountInv == CountShape /\ MetricsCoverClosed

(* Of a sequence of rows, and of a set of goroutines, any part is finite.  *)
LEMMA PartsAreFinite ==
  /\ \A b, V, C : b \in Seq(RowsOver(V)) /\ C \subseteq DOMAIN b =>
       IsFiniteSet(C) /\ Cardinality(C) \in Nat
  /\ \A C : C \subseteq Syncs => IsFiniteSet(C) /\ Cardinality(C) \in Nat
<1>1. ASSUME NEW b, NEW V, NEW C, b \in Seq(RowsOver(V)), C \subseteq DOMAIN b
      PROVE  IsFiniteSet(C)
  <2>1. DOMAIN b = 1..Len(b) /\ Len(b) \in Nat
    BY <1>1
  <2>2. IsFiniteSet(1..Len(b))
    BY <2>1, FS_Interval
  <2> QED
    BY <1>1, <2>1, <2>2, FS_Subset
<1>2. \A C : C \subseteq Syncs => IsFiniteSet(C)
  BY FS_Subset, BookAssumption
<1> QED
  BY <1>1, <1>2, FS_CardinalityType

LEMMA CountsAreNumbers ==
  ASSUME CountShape
  PROVE  /\ IsFiniteSet(ClosedRows) /\ Cardinality(ClosedRows) \in Nat
         /\ IsFiniteSet(SyncsCounting) /\ Cardinality(SyncsCounting) \in Nat
BY PartsAreFinite DEF CountShape, BookShape, ClosedRows, SyncsCounting

LEMMA CountsStayNumbers ==
  ASSUME CountShape'
  PROVE  Cardinality(ClosedRows') \in Nat /\ Cardinality(SyncsCounting') \in Nat
BY PartsAreFinite DEF CountShape, BookShape, ClosedRows, SyncsCounting

LEMMA SyncMoves ==
  ASSUME SyncShape, NEW s \in Syncs, NEW pc, NEW todo, NEW row, SyncTo(s, pc, todo, row)
  PROVE  /\ SyncShape'
         /\ SyncsCounting' = IF pc = "metrics" THEN SyncsCounting \cup {s}
                             ELSE SyncsCounting \ {s}
BY DEF SyncShape, SyncTo, SyncsCounting

LEMMA SyncMovesOn ==
  ASSUME SyncShape, NEW s \in Syncs, Syncing(s)
  PROVE  /\ SyncShape'
         /\ \/ SyncClose(s) /\ s \notin SyncsCounting /\ SyncsCounting' = SyncsCounting \cup {s}
            \/ SyncMetrics(s) /\ s \in SyncsCounting /\ SyncsCounting' = SyncsCounting \ {s}
            \/ /\ SyncsCounting' = SyncsCounting
               /\ book' = book \/ SyncBackfill(s)
               /\ trades' = trades
<1>1. CASE SyncPull(s)
  BY <1>1, SyncMoves DEF SyncPull, SyncAt, storeVars, SyncsCounting
<1>2. CASE SyncAddFill(s)
  BY <1>2, SyncMoves DEF SyncAddFill, SyncAt, SyncGoes, SyncsCounting
<1>3. CASE SyncAddOrder(s)
  BY <1>3, SyncMoves DEF SyncAddOrder, SyncAt, SyncGoes, SyncsCounting
<1>4. CASE SyncBuild(s)
  BY <1>4, SyncMoves DEF SyncBuild, SyncAt, SyncGoes, storeVars, SyncsCounting
<1>5. CASE SyncClose(s)
  BY <1>5, SyncMoves DEF SyncClose, SyncGoes, SyncsCounting
<1>6. CASE SyncMetrics(s)
  BY <1>6, SyncMoves DEF SyncMetrics, SyncAt, SyncsCounting
<1>7. CASE SyncBackfill(s)
  BY <1>7, SyncMoves DEF SyncBackfill, SyncAt, SyncsCounting
<1> QED
  BY <1>1, <1>2, <1>3, <1>4, <1>5, <1>6, <1>7 DEF Syncing

LEMMA EngineShapeKept ==
  ASSUME EngineShape, [BookNext]_bookVars
  PROVE  EngineShape'
<1> DEFINE Engines(V) ==
      [pc : {"idle", "addPosition", "findRow", "close", "metrics", "addOrder"},
       side : V, qty : V, order : V, row : V, log : BOOLEAN]
<1>1. PICK V : eng \in Engines(V)
  BY DEF EngineShape
<1>2. CASE eng' = eng
  BY <1>2 DEF EngineShape
<1>3. CASE \E pc \in {"addPosition", "findRow", "close", "metrics", "addOrder"} :
             eng' = [eng EXCEPT !.pc = pc]
  BY <1>1, <1>3 DEF EngineShape
<1>4. CASE eng' = EngineIdle
  <2>1. eng' \in Engines({"long", 0})
    BY <1>4 DEF EngineIdle, NoPosition
  <2> QED
    BY <2>1 DEF EngineShape
<1>5. CASE \E row : eng' = [eng EXCEPT !.pc = "close", !.row = row]
  <2>1. PICK row : eng' = [eng EXCEPT !.pc = "close", !.row = row]
    BY <1>5
  <2>2. eng' \in Engines(V \cup {row})
    BY <1>1, <2>1
  <2> QED
    BY <2>2 DEF EngineShape
<1>6. ASSUME NEW pc \in {"addPosition", "findRow"}, NEW side, NEW qty, NEW order, NEW row,
             NEW log \in BOOLEAN,
             eng' = [pc |-> pc, side |-> side, qty |-> qty, order |-> order,
                     row |-> row, log |-> log]
      PROVE  EngineShape'
  <2>1. eng' \in Engines({side, qty, order, row})
    BY <1>6
  <2> QED
    BY <2>1 DEF EngineShape
<1>7. CASE TradeByHand \/ EngineTrade \/ EngineTradeLost \/ GuardTrade
  BY <1>2, <1>6, <1>7 DEF TradeByHand, EngineTrade, EngineTradeLost, GuardTrade
<1>8. CASE EngineStep
  BY <1>3, <1>4, <1>5, <1>8 DEF EngineStep, EngineAddPosition, EngineFindRow, EngineClose,
                                EngineMetrics, EngineAddOrder, AfterClose
<1>9. CASE (\E s \in Syncs : Syncing(s)) \/ ApiClose \/ ApiMetrics \/ UNCHANGED bookVars
  BY <1>2, <1>9 DEF Syncing, SyncPull, SyncAddFill, SyncAddOrder, SyncBuild, SyncClose,
                    SyncMetrics, SyncBackfill, ApiClose, ApiMetrics, bookVars
<1>10. CASE BookCrash
  BY <1>4, <1>10 DEF BookCrash
<1> QED
  BY <1>7, <1>8, <1>9, <1>10 DEF BookNext

(* One row more is closed: one more is to be counted, now or later.        *)
LEMMA OneMoreClosed ==
  ASSUME CountShape, CountShape', NEW i, ClosedRows' \subseteq ClosedRows \cup {i}
  PROVE  Cardinality(ClosedRows') <= Cardinality(ClosedRows) + 1
<1>1. /\ IsFiniteSet(ClosedRows \cup {i})
      /\ Cardinality(ClosedRows \cup {i}) <= Cardinality(ClosedRows) + 1
  BY CountsAreNumbers, FS_AddElement
<1>2. Cardinality(ClosedRows') <= Cardinality(ClosedRows \cup {i})
  BY <1>1, FS_Subset
<1>3. Cardinality(ClosedRows \cup {i}) \in Nat
  BY <1>1, FS_CardinalityType
<1> QED
  BY <1>1, <1>2, <1>3, CountsAreNumbers, CountsStayNumbers

LEMMA CountShapeKept ==
  ASSUME CountShape, [BookNext]_bookVars
  PROVE  CountShape'
<1>1. BookShape' /\ EngineShape'
  BY BookStep, EngineShapeKept DEF CountShape
<1>2. SyncShape'
  <2>1. CASE \E s \in Syncs : Syncing(s)
    BY <2>1, SyncMovesOn DEF CountShape
  <2>2. CASE BookCrash
    BY <2>2 DEF BookCrash, SyncShape
  <2>3. CASE UNCHANGED syncs
    BY <2>3 DEF CountShape, SyncShape
  <2> QED
    BY <2>1, <2>2, <2>3 DEF BookNext, bookVars, TradeByHand, EngineTrade, EngineTradeLost, GuardTrade,
         EngineStep, EngineAddPosition, EngineFindRow, EngineClose, EngineMetrics,
         EngineAddOrder, ApiClose, ApiMetrics
<1>3. Counting \in Nat
  BY CountsAreNumbers DEF Counting, SyncsCounting
<1>4. trades' \in Nat /\ lost' \in Nat
  <2>1. trades' \in {trades, trades + 1}
    BY DEF BookNext, bookVars, TradeByHand, EngineTrade, EngineTradeLost, GuardTrade, storeVars,
         EngineStep, EngineAddPosition, EngineFindRow, EngineClose, EngineMetrics,
         EngineAddOrder, Syncing, SyncPull, SyncAddFill, SyncAddOrder, SyncBuild, SyncClose,
         SyncMetrics, SyncBackfill, ApiClose, ApiMetrics, BookCrash
  <2>2. lost' \in {lost, lost + Counting}
    BY DEF BookNext, bookVars, TradeByHand, EngineTrade, EngineTradeLost, GuardTrade, history,
         EngineStep, EngineAddPosition, EngineFindRow, EngineClose, EngineMetrics,
         EngineAddOrder, Syncing, SyncPull, SyncAddFill, SyncAddOrder, SyncBuild, SyncClose,
         SyncMetrics, SyncBackfill, ApiClose, ApiMetrics, BookCrash
  <2> QED
    BY <1>3, <2>1, <2>2 DEF CountShape
<1> QED
  BY <1>1, <1>2, <1>4 DEF CountShape

(* The countings under way, by whom.                                       *)
EngineCounting == IF eng.pc = "metrics" THEN 1 ELSE 0
ApiCounting == IF api = "metrics" THEN 1 ELSE 0

LEMMA CountInvStep ==
  ASSUME CountInv, [BookNext]_bookVars
  PROVE  CountInv'
<1> USE DEF CountInv
<1>1. CountShape'
  BY CountShapeKept
<1>2. /\ Counting = EngineCounting + ApiCounting + Cardinality(SyncsCounting)
      /\ Counting' = EngineCounting' + ApiCounting' + Cardinality(SyncsCounting')
  BY DEF Counting, EngineCounting, ApiCounting, SyncsCounting
<1>3. /\ {Cardinality(ClosedRows), Cardinality(SyncsCounting), trades, lost} \subseteq Nat
      /\ IsFiniteSet(SyncsCounting)
      /\ EngineCounting \in 0..1 /\ ApiCounting \in 0..1
  BY CountsAreNumbers DEF CountShape, EngineCounting, ApiCounting
<1>4. /\ {Cardinality(ClosedRows'), Cardinality(SyncsCounting'), trades', lost'} \subseteq Nat
      /\ EngineCounting' \in 0..1 /\ ApiCounting' \in 0..1
  BY <1>1, CountsStayNumbers DEF CountShape, EngineCounting, ApiCounting
<1>5. ASSUME trades' = trades, lost' = lost, ClosedRows' = ClosedRows,
             SyncsCounting' = SyncsCounting,
             EngineCounting' = EngineCounting, ApiCounting' = ApiCounting
      PROVE  MetricsCoverClosed'
  <2>1. Counting' = Counting
    BY <1>2, <1>5
  <2> QED
    BY <1>5, <2>1 DEF MetricsCoverClosed
<1>6. ASSUME NEW i, ClosedRows' \subseteq ClosedRows \cup {i}
      PROVE  Cardinality(ClosedRows') <= Cardinality(ClosedRows) + 1
  BY <1>1, <1>6, OneMoreClosed
<1>7. CASE TradeByHand \/ EngineTrade \/ EngineTradeLost \/ GuardTrade
  <2>1. UNCHANGED <<book, syncs, api, trades, lost>>
    BY <1>7 DEF TradeByHand, EngineTrade, EngineTradeLost, GuardTrade, storeVars, history
  <2>2. ClosedRows' = ClosedRows /\ UNCHANGED SyncsCounting
    BY <2>1, BookKept DEF CountShape, SyncsCounting
  <2>3. EngineCounting' = EngineCounting
    BY <1>7 DEF TradeByHand, EngineTrade, EngineTradeLost, GuardTrade, EngineCounting
  <2> QED
    BY <1>1, <1>2, <2>1, <2>2, <2>3 DEF MetricsCoverClosed, ApiCounting
<1>8. CASE EngineStep
  <2>1. UNCHANGED <<syncs, api, lost>>
    BY <1>8 DEF EngineStep, EngineAddPosition, EngineFindRow, EngineClose, EngineMetrics,
                EngineAddOrder, storeVars, history
  <2>2. UNCHANGED SyncsCounting /\ ApiCounting' = ApiCounting
    BY <2>1 DEF SyncsCounting, ApiCounting
  <2>3. EngineShape
    BY DEF CountShape
  <2>4. CASE EngineAddPosition \/ EngineFindRow \/ EngineAddOrder
    <3>1. ClosedRows' = ClosedRows /\ trades' = trades
      BY <2>4, RowAdded, BookKept DEF CountShape, EngineAddPosition, EngineFindRow,
                                      EngineAddOrder, storeVars
    <3>2. eng.pc # "metrics" /\ eng'.pc # "metrics"
      <4>1. CASE EngineAddPosition
        BY <2>3, <4>1 DEF EngineShape, EngineAddPosition
      <4>2. CASE EngineFindRow
        BY <2>3, <4>2 DEF EngineShape, EngineFindRow, AfterClose, EngineIdle
      <4>3. CASE EngineAddOrder
        BY <4>3 DEF EngineAddOrder, EngineIdle
      <4> QED
        BY <2>4, <4>1, <4>2, <4>3
    <3>3. EngineCounting = 0 /\ EngineCounting' = 0
      BY <3>2 DEF EngineCounting
    <3> QED
      BY <1>1, <1>5, <2>1, <2>2, <3>1, <3>3
  <2>5. CASE EngineClose
    <3>1. trades' = trades /\ ClosedRows' \subseteq ClosedRows \cup {eng.row}
      BY <2>5, RowClosed DEF CountShape, EngineClose
    <3>2. Cardinality(ClosedRows') <= Cardinality(ClosedRows) + 1
      BY <1>6, <3>1
    <3>3. EngineCounting = 0 /\ EngineCounting' = 1
      BY <2>3, <2>5 DEF EngineShape, EngineCounting, EngineClose
    <3> QED
      BY <1>1, <1>2, <1>3, <1>4, <2>1, <2>2, <3>1, <3>2, <3>3 DEF MetricsCoverClosed
  <2>6. CASE EngineMetrics
    <3>1. ClosedRows' = ClosedRows /\ trades' = trades + 1
      BY <2>6, BookKept DEF CountShape, EngineMetrics
    <3>2. EngineCounting = 1 /\ EngineCounting' = 0
      BY <2>3, <2>6 DEF EngineShape, EngineCounting, EngineMetrics, AfterClose, EngineIdle
    <3> QED
      BY <1>1, <1>2, <1>3, <1>4, <2>1, <2>2, <3>1, <3>2 DEF MetricsCoverClosed
  <2> QED
    BY <1>8, <2>4, <2>5, <2>6 DEF EngineStep
<1>9. CASE \E s \in Syncs : Syncing(s)
  <2>1. PICK s \in Syncs : Syncing(s)
    BY <1>9
  <2>2. UNCHANGED <<eng, api, lost>>
    BY <2>1 DEF Syncing, SyncPull, SyncAddFill, SyncAddOrder, SyncBuild, SyncClose,
                SyncMetrics, SyncBackfill, history
  <2>3. EngineCounting' = EngineCounting /\ ApiCounting' = ApiCounting
    BY <2>2 DEF EngineCounting, ApiCounting
  <2>4. CASE /\ SyncClose(s)
             /\ s \notin SyncsCounting /\ SyncsCounting' = SyncsCounting \cup {s}
    <3>1. trades' = trades /\ ClosedRows' \subseteq ClosedRows \cup {syncs[s].row}
      BY <2>4, RowClosed DEF CountShape, SyncClose
    <3>2. Cardinality(ClosedRows') <= Cardinality(ClosedRows) + 1
      BY <1>6, <3>1
    <3>3. Cardinality(SyncsCounting') = Cardinality(SyncsCounting) + 1
      BY <1>3, <2>4, FS_AddElement
    <3> QED
      BY <1>1, <1>2, <1>3, <1>4, <2>2, <2>3, <3>1, <3>2, <3>3 DEF MetricsCoverClosed
  <2>5. CASE /\ SyncMetrics(s)
             /\ s \in SyncsCounting /\ SyncsCounting' = SyncsCounting \ {s}
    <3>1. trades' = trades + 1 /\ ClosedRows' = ClosedRows
      BY <2>5, BookKept DEF CountShape, SyncMetrics
    <3>2. Cardinality(SyncsCounting') = Cardinality(SyncsCounting) - 1
      BY <1>3, <2>5, FS_RemoveElement
    <3> QED
      BY <1>1, <1>2, <1>3, <1>4, <2>2, <2>3, <3>1, <3>2 DEF MetricsCoverClosed
  <2>6. CASE /\ SyncsCounting' = SyncsCounting
             /\ book' = book \/ SyncBackfill(s)
             /\ trades' = trades
    <3>1. ClosedRows' = ClosedRows
      BY <2>6, RowAdded, BookKept DEF CountShape, SyncBackfill
    <3> QED
      BY <1>1, <1>5, <2>2, <2>3, <2>6, <3>1
  <2> QED
    BY <2>1, <2>4, <2>5, <2>6, SyncMovesOn DEF CountShape
<1>10. CASE ApiClose
  <2>1. UNCHANGED <<eng, syncs, trades, lost>>
    BY <1>10 DEF ApiClose, history
  <2>2. PICK i : ClosedRows' \subseteq ClosedRows \cup {i}
    BY <1>10, RowClosed DEF CountShape, ApiClose
  <2>3. ApiCounting = 0 /\ ApiCounting' = 1
    BY <1>10 DEF ApiClose, ApiCounting
  <2>4. UNCHANGED SyncsCounting /\ EngineCounting' = EngineCounting
    BY <2>1 DEF SyncsCounting, EngineCounting
  <2> QED
    BY <1>1, <1>2, <1>3, <1>4, <1>6, <2>1, <2>2, <2>3, <2>4 DEF MetricsCoverClosed
<1>11. CASE ApiMetrics
  <2>1. UNCHANGED <<eng, syncs, lost>> /\ trades' = trades + 1 /\ ClosedRows' = ClosedRows
    BY <1>11, BookKept DEF CountShape, ApiMetrics, history
  <2>2. ApiCounting = 1 /\ ApiCounting' = 0
    BY <1>11 DEF ApiMetrics, ApiCounting
  <2>3. UNCHANGED SyncsCounting /\ EngineCounting' = EngineCounting
    BY <2>1 DEF SyncsCounting, EngineCounting
  <2> QED
    BY <1>1, <1>2, <1>3, <1>4, <2>1, <2>2, <2>3 DEF MetricsCoverClosed
<1>12. CASE BookCrash
  <2>1. trades' = trades /\ lost' = lost + Counting /\ ClosedRows' = ClosedRows
    BY <1>12, BookKept DEF CountShape, BookCrash, storeVars
  <2>2. SyncsCounting' = {}
    BY <1>12 DEF BookCrash, SyncsCounting, SyncIdle
  <2>3. EngineCounting' = 0 /\ ApiCounting' = 0
    BY <1>12 DEF BookCrash, EngineCounting, ApiCounting, EngineIdle
  <2>4. Counting' = 0
    BY <1>2, <2>2, <2>3, FS_EmptySet
  <2>5. Counting \in Nat
    BY <1>2, <1>3
  <2>6. Cardinality(ClosedRows) <= trades + Counting + lost
    BY DEF MetricsCoverClosed
  <2> QED
    BY <1>1, <1>3, <2>1, <2>4, <2>5, <2>6 DEF MetricsCoverClosed
<1>13. CASE UNCHANGED bookVars
  <2>1. UNCHANGED <<book, trades, lost, eng, syncs, api>>
    BY <1>13 DEF bookVars, storeVars, history
  <2>2. ClosedRows' = ClosedRows
    BY <2>1, BookKept DEF CountShape
  <2> QED
    BY <1>1, <1>5, <2>1, <2>2 DEF SyncsCounting, EngineCounting, ApiCounting
<1> QED
  BY <1>1, <1>7, <1>8, <1>9, <1>10, <1>11, <1>12, <1>13 DEF BookNext

(* Every closing of a position is counted in TradeCount, or about to be,   *)
(* or was lost with the process, for any number of order-sync goroutines.  *)
THEOREM ClosingsCounted == BookSpec => []MetricsCoverClosed
<1>1. BookInit => CountInv
  <2> SUFFICES ASSUME BookInit PROVE CountInv
    OBVIOUS
  <2>1. EngineShape
    <3> DEFINE V == {"long", 0}
    <3>1. eng \in [pc : {"idle", "addPosition", "findRow", "close", "metrics", "addOrder"},
                   side : V, qty : V, order : V, row : V, log : BOOLEAN]
      BY DEF BookInit, EngineIdle, NoPosition
    <3> QED
      BY <3>1 DEF EngineShape
  <2>2. CountShape
    <3>1. book \in Seq(RowsOver({}))
      BY DEF BookInit
    <3> QED
      BY <2>1, <3>1 DEF BookInit, CountShape, BookShape, SyncShape
  <2>3. ClosedRows = {} /\ SyncsCounting = {}
    BY DEF BookInit, ClosedRows, SyncsCounting, SyncIdle
  <2>4. Counting = 0
    <3>1. eng.pc # "metrics" /\ api # "metrics"
      BY DEF BookInit, EngineIdle
    <3>2. Cardinality(SyncsCounting) = 0
      BY <2>3, FS_EmptySet
    <3> QED
      BY <3>1, <3>2 DEF Counting, SyncsCounting
  <2> QED
    BY <2>2, <2>3, <2>4, FS_EmptySet DEF CountInv, MetricsCoverClosed, BookInit
<1>2. CountInv /\ [BookNext]_bookVars => CountInv'
  BY CountInvStep
<1> QED
  BY <1>1, <1>2, PTL DEF BookSpec, CountInv


-----------------------------------------------------------------------------
(* One engine, that opens and closes one size on one side, and nobody else *)
(* who trades or closes; every answer arrives, and the process lives.      *)
(* What a second side, a person, the guard, the API, a lost answer or a    *)
(* crash makes of the book is another matter: closePosition looks at no    *)
(* side and no size, and the builder takes a fill of an unknown order for  *)
(* one of its own.                                                         *)
EngineAlone ==
  /\ OneAtATime
  /\ \E q : Quantities = {q}
  /\ \E side : Sides = {side}
  /\ ~ ByHand /\ ~ Guard /\ ~ LostReplies /\ ~ ApiCloses
  /\ MaxCrashes = 0

TheSize == CHOOSE q \in Quantities : TRUE
TheSide == CHOOSE side \in Sides : TRUE

FillRecs == [order : 1..MaxOrders, part : 1..2, dir : {"buy", "sell"}, qty : Nat \ {0}]
RowRecs ==
  [side : Sides, qty : Quantities, order : Nat, open : BOOLEAN,
   closer : {"none", "engine", "sync", "api"}]

AloneTyped ==
  /\ holding \in [Sides -> Nat]
  /\ fills \in Seq(FillRecs)
  /\ book \in Seq(RowRecs)
  /\ eng \in [pc : {"idle", "addPosition", "findRow", "close", "metrics", "addOrder"},
              side : {"long", "short"}, qty : Nat, order : Nat, row : Nat, log : BOOLEAN]
  /\ eng.pc # "idle" => eng.side \in Sides /\ eng.qty \in Quantities /\ eng.log
  /\ syncs \in [Syncs -> [pc : {"idle", "addFill", "addOrder"}, todo : Seq(FillRecs), row : Nat]]
  /\ api = "idle" /\ crashes = 0

(* Every order the exchange filled is in the orders table, or on its way   *)
(* there while no goroutine pulls: positionBuilder is never called.        *)
OrdersInv ==
  /\ \A i \in 1..Len(fills) :
       \/ fills[i].order \in orders
       \/ eng.pc # "idle" /\ fills[i].order = eng.order
  /\ \A s \in Syncs : syncs[s].pc # "idle" =>
       /\ eng.pc = "idle"
       /\ syncs[s].todo # <<>>
       /\ \A i \in 1..Len(syncs[s].todo) : syncs[s].todo[i].order \in orders

(* The rows that are open times the size is what is held, but for what the *)
(* engine is about to book.                                                *)
OpenCount == Cardinality(OpenRows)
Balanced ==
  /\ eng.pc \in {"idle", "addOrder", "metrics"} => holding[TheSide] = OpenCount * TheSize
  /\ eng.pc = "addPosition" => holding[TheSide] = (OpenCount + 1) * TheSize
  /\ eng.pc \in {"findRow", "close"} =>
       OpenCount > 0 /\ holding[TheSide] = (OpenCount - 1) * TheSize
  /\ eng.pc = "close" => eng.row \in OpenRows

AloneInv == AloneTyped /\ OrdersInv /\ Balanced

LEMMA TheOnes ==
  ASSUME EngineAlone
  PROVE  /\ Quantities = {TheSize} /\ Sides = {TheSide}
         /\ TheSize \in Nat /\ TheSize >= 1 /\ TheSide \in {"long", "short"}
<1>1. Quantities = {TheSize} /\ Sides = {TheSide}
  BY DEF EngineAlone, TheSize, TheSide
<1> QED BY <1>1, BookAssumption

LEMMA Times ==
  ASSUME NEW n \in Nat, NEW q \in Nat, q >= 1
  PROVE  /\ n * q \in Nat
         /\ (n + 1) * q = n * q + q
         /\ n > 0 => (n - 1) * q \in Nat /\ n * q = (n - 1) * q + q
<1>1. \A m \in Nat : m * q \in Nat /\ (m + 1) * q = m * q + q
  OBVIOUS
<1>2. ASSUME n > 0 PROVE (n - 1) * q \in Nat /\ n * q = (n - 1) * q + q
  <2>1. n - 1 \in Nat /\ (n - 1) + 1 = n
    BY <1>2
  <2> QED BY <1>1, <2>1
<1> QED BY <1>1, <1>2

LEMMA OpenRowsAreFinite ==
  ASSUME AloneTyped
  PROVE  /\ OpenRows \subseteq 1..Len(book) /\ Len(book) \in Nat
         /\ IsFiniteSet(OpenRows) /\ OpenCount \in Nat
<1>1. OpenRows \subseteq 1..Len(book) /\ Len(book) \in Nat
  BY DEF AloneTyped, OpenRows
<1>2. IsFiniteSet(1..Len(book))
  BY <1>1, FS_Interval
<1>3. IsFiniteSet(OpenRows)
  BY <1>1, <1>2, FS_Subset
<1> QED BY <1>1, <1>3, FS_CardinalityType DEF OpenCount

LEMMA NewestOf ==
  ASSUME NEW n \in Nat, NEW S, S \subseteq 1..n, S # {}
  PROVE  Newest(S) \in S
<1>1. S \in SUBSET (0..n)
  OBVIOUS
<1>2. PICK m \in S : \A k \in S : k <= m
  BY <1>1, Greatest
<1> QED BY <1>2 DEF Newest

LEMMA NewestIsOne ==
  ASSUME AloneTyped, OpenRows # {}
  PROVE  Newest(OpenRows) \in OpenRows
BY OpenRowsAreFinite, NewestOf

(* What an executed order leaves at the exchange.                          *)
LEMMA Executed ==
  ASSUME holding \in [Sides -> Nat], fills \in Seq(FillRecs),
         NEW side \in Sides, NEW kind \in {"open", "close"}, NEW q \in Nat,
         Execute(side, kind, q)
  PROVE  /\ NextOrder \in 1..MaxOrders
         /\ fills' \in Seq(FillRecs)
         /\ \A i \in 1..Len(fills') : \/ i \in 1..Len(fills) /\ fills'[i] = fills[i]
                                      \/ fills'[i].order = NextOrder
         /\ holding' \in [Sides -> Nat]
         /\ Filled(side, kind, q) > 0 /\ Filled(side, kind, q) \in Nat
         /\ holding'[side] = IF kind = "open" THEN holding[side] + Filled(side, kind, q)
                             ELSE holding[side] - Filled(side, kind, q)
<1> DEFINE done == Filled(side, kind, q)
<1>1. NextOrder \in 1..MaxOrders
  <2>1. fills \in Seq(FillRecs) /\ DOMAIN fills = 1..Len(fills) /\ Len(fills) \in Nat
    OBVIOUS
  <2>2. IsFiniteSet(DOMAIN fills)
    BY <2>1, FS_Interval
  <2>3. IsFiniteSet({fills[i].order : i \in DOMAIN fills})
    <3> DEFINE Orders == {fills[i].order : i \in DOMAIN fills}
               orderOf == [i \in DOMAIN fills |-> fills[i].order]
    <3>1. orderOf \in Surjection(DOMAIN fills, Orders)
      BY DEF Surjection
    <3> QED BY <2>2, <3>1, FS_Surjection DEF ExistsSurjection
  <2>4. Placed \in Nat
    BY <2>3, FS_CardinalityType DEF Placed
  <2> QED BY <2>4, BookAssumption DEF NextOrder, Execute
<1>2. /\ holding[side] \in Nat /\ done \in Nat /\ done > 0
      /\ kind = "close" => done <= holding[side]
  BY DEF Execute, Filled
<1>3. PICK parts \in Parts(done) :
         fills' = fills \o [i \in DOMAIN parts |->
                              [order |-> NextOrder, part |-> i,
                               dir |-> mapSide(side, kind), qty |-> parts[i]]]
  BY DEF Execute
<1> DEFINE new == [i \in DOMAIN parts |->
                     [order |-> NextOrder, part |-> i,
                      dir |-> mapSide(side, kind), qty |-> parts[i]]]
<1>4. new \in Seq(FillRecs) /\ \A i \in 1..Len(new) : new[i].order = NextOrder
  <2>1. parts \in Seq(Nat \ {0}) /\ Len(parts) \in 1..2
    <3>1. CASE parts = <<done>>
      BY <1>2, <3>1
    <3>2. CASE parts = <<1, done - 1>> /\ done > 1
      BY <1>2, <3>2
    <3> QED BY <3>1, <3>2 DEF Parts
  <2>2. /\ DOMAIN parts = 1..Len(parts) /\ Len(parts) \in Nat /\ 1..Len(parts) \subseteq 1..2
        /\ \A i \in 1..Len(parts) : parts[i] \in Nat \ {0}
    <3>1. DOMAIN parts = 1..Len(parts) /\ \A i \in 1..Len(parts) : parts[i] \in Nat \ {0}
      BY <2>1
    <3>2. \A m \in 1..2 : m \in Nat /\ 1..m \subseteq 1..2
      OBVIOUS
    <3> QED BY <2>1, <3>1, <3>2
  <2>3. mapSide(side, kind) \in {"buy", "sell"}
    BY DEF mapSide
  <2>4. new \in [1..Len(parts) -> FillRecs]
    BY <1>1, <2>2, <2>3 DEF FillRecs
  <2>5. new \in Seq(FillRecs) /\ Len(new) = Len(parts)
    BY <2>2, <2>4, SeqDef
  <2> QED BY <2>2, <2>5
<1>5. fills' = fills \o new /\ fills \in Seq(FillRecs)
  BY <1>3
<1>6. /\ fills' \in Seq(FillRecs)
      /\ \A i \in 1..Len(fills') : \/ i \in 1..Len(fills) /\ fills'[i] = fills[i]
                                   \/ fills'[i].order = NextOrder
  <2> HIDE DEF new
  <2>1. Len(fills') = Len(fills) + Len(new) /\ Len(fills) \in Nat /\ Len(new) \in Nat
    BY <1>4, <1>5
  <2>2. \A i \in 1..Len(fills') : fills'[i] = IF i <= Len(fills) THEN fills[i] ELSE new[i - Len(fills)]
    BY <1>4, <1>5
  <2>3. \A i \in 1..Len(fills') : i > Len(fills) => i - Len(fills) \in 1..Len(new)
    BY <2>1
  <2> QED BY <1>4, <1>5, <2>1, <2>2, <2>3
<1>7. holding' = [holding EXCEPT ![side] = IF kind = "open" THEN @ + done ELSE @ - done]
  BY DEF Execute
<1>8. /\ holding' \in [Sides -> Nat]
      /\ holding'[side] = IF kind = "open" THEN holding[side] + done ELSE holding[side] - done
  <2>1. holding \in [Sides -> Nat]
    OBVIOUS
  <2>2. (IF kind = "open" THEN holding[side] + done ELSE holding[side] - done) \in Nat
    BY <1>2
  <2> HIDE DEF done
  <2> QED BY <1>7, <2>1, <2>2
<1> QED BY <1>1, <1>2, <1>6, <1>8

LEMMA RowOpens ==
  ASSUME AloneTyped, NEW side \in Sides, NEW qty \in Quantities, NEW order \in Nat,
         book' = Append(book, Row(side, qty, order))
  PROVE  book' \in Seq(RowRecs) /\ OpenCount' = OpenCount + 1
<1> DEFINE n == Len(book)
<1>1. Row(side, qty, order) \in RowRecs /\ Row(side, qty, order).open = TRUE
  BY DEF Row, RowRecs
<1>2. /\ book' \in Seq(RowRecs) /\ n \in Nat /\ DOMAIN book = 1..n /\ DOMAIN book' = 1..(n + 1)
      /\ \A i \in 1..n : book'[i] = book[i]
      /\ book'[n + 1] = Row(side, qty, order)
  BY <1>1 DEF AloneTyped
<1>3. OpenRows' = OpenRows \cup {n + 1} /\ n + 1 \notin OpenRows
  BY <1>1, <1>2 DEF OpenRows
<1> QED BY <1>2, <1>3, OpenRowsAreFinite, FS_AddElement DEF OpenCount

LEMMA RowCloses ==
  ASSUME AloneTyped, NEW i \in OpenRows, NEW who \in {"engine", "sync", "api"},
         book' = Closed(i, who)
  PROVE  book' \in Seq(RowRecs) /\ OpenCount' = OpenCount - 1
<1>1. /\ book \in Seq(RowRecs) /\ i \in DOMAIN book /\ book[i].open
      /\ DOMAIN book = 1..Len(book) /\ Len(book) \in Nat
  BY DEF AloneTyped, OpenRows
<1> DEFINE new == [book[i] EXCEPT !.open = FALSE, !.closer = who]
<1>2. new \in RowRecs /\ new.open = FALSE
  <2>1. book[i] \in RowRecs
    BY <1>1
  <2>2. new \in RowRecs
    BY <2>1 DEF RowRecs
  <2>3. new.open = FALSE
    BY <2>1 DEF RowRecs
  <2> QED BY <2>2, <2>3
<1>3. book' = [book EXCEPT ![i] = new]
  BY <1>1 DEF Closed
<1> HIDE DEF new
<1>4. /\ book' \in Seq(RowRecs) /\ DOMAIN book' = DOMAIN book
      /\ book'[i] = new /\ \A j \in DOMAIN book : j # i => book'[j] = book[j]
  BY <1>1, <1>2, <1>3
<1>5. OpenRows' = OpenRows \ {i}
  BY <1>2, <1>4 DEF OpenRows
<1> QED BY <1>4, <1>5, OpenRowsAreFinite, FS_RemoveElement DEF OpenCount

LEMMA AloneBegins == EngineAlone /\ BookInit => AloneInv
<1> SUFFICES ASSUME EngineAlone, BookInit PROVE AloneInv
  OBVIOUS
<1>1. AloneTyped
  BY DEF BookInit, AloneTyped, EngineIdle, SyncIdle, NoPosition
<1>2. OrdersInv
  BY DEF BookInit, OrdersInv, SyncIdle
<1>3. OpenRows = {}
  BY DEF BookInit, OpenRows
<1>4. OpenCount = 0
  BY <1>3, FS_EmptySet DEF OpenCount
<1>5. holding[TheSide] = 0 /\ 0 * TheSize = 0 /\ eng.pc = "idle"
  BY TheOnes DEF BookInit, EngineIdle
<1>6. Balanced
  BY <1>4, <1>5 DEF Balanced
<1> QED BY <1>1, <1>2, <1>6 DEF AloneInv

(* The engine's order, all of whose size is filled.                        *)
LEMMA AloneTrades ==
  ASSUME EngineAlone, AloneInv, EngineTrade
  PROVE  AloneInv'
<1> USE DEF AloneInv
<1>1. PICK side \in Sides, kind \in {"open", "close"}, q \in Quantities :
         /\ Execute(side, kind, q)
         /\ eng' = [pc |-> IF kind = "open" THEN "addPosition" ELSE "findRow",
                    side |-> side, qty |-> q, order |-> NextOrder, row |-> NoPosition, log |-> TRUE]
  BY DEF EngineTrade
<1>2. side = TheSide /\ q = TheSize /\ q \in Nat /\ q >= 1 /\ side \in {"long", "short"}
  BY TheOnes
<1>3. /\ eng.pc = "idle" /\ \A s \in Syncs : syncs[s].pc = "idle"
      /\ UNCHANGED <<orders, book, syncs, api, crashes>>
  BY DEF EngineTrade, MayBegin, AllIdle, EngineAlone, storeVars, history
<1>4. /\ NextOrder \in Nat
      /\ fills' \in Seq(FillRecs)
      /\ \A i \in 1..Len(fills') : \/ i \in 1..Len(fills) /\ fills'[i] = fills[i]
                                   \/ fills'[i].order = NextOrder
      /\ holding' \in [Sides -> Nat]
      /\ Filled(side, kind, q) > 0
      /\ holding'[side] = IF kind = "open" THEN holding[side] + Filled(side, kind, q)
                          ELSE holding[side] - Filled(side, kind, q)
  BY <1>1, <1>2, Executed, BookAssumption DEF AloneTyped
<1>5. AloneTyped'
  BY <1>1, <1>2, <1>3, <1>4 DEF AloneTyped, NoPosition
<1>6. OrdersInv'
  <2>1. eng'.order = NextOrder /\ eng'.pc # "idle"
    BY <1>1
  <2>2. \A i \in 1..Len(fills) : fills[i].order \in orders
    BY <1>3 DEF OrdersInv
  <2> QED BY <1>3, <1>4, <2>1, <2>2 DEF OrdersInv
<1>7. /\ OpenCount \in Nat /\ OpenCount' = OpenCount /\ OpenRows' = OpenRows
      /\ holding[side] = OpenCount * q /\ holding[side] \in Nat
  BY <1>2, <1>3, OpenRowsAreFinite DEF Balanced, OpenCount, OpenRows, AloneTyped
<1>8. CASE kind = "open"
  <2>1. Filled(side, kind, q) = q
    BY <1>8 DEF Filled
  <2>2. holding'[TheSide] = (OpenCount + 1) * TheSize
    BY <1>2, <1>4, <1>7, <1>8, <2>1, Times
  <2>3. eng'.pc = "addPosition"
    BY <1>1, <1>8
  <2> QED BY <1>5, <1>6, <1>7, <2>2, <2>3 DEF Balanced
<1>9. CASE kind = "close"
  <2>1. OpenCount > 0
    <3>1. CASE OpenCount = 0
      <4>1. holding[side] = 0
        BY <1>2, <1>7, <3>1
      <4> QED BY <1>2, <1>4, <1>9, <4>1 DEF Filled
    <3> QED BY <1>7, <3>1
  <2>2. (OpenCount - 1) * q \in Nat /\ OpenCount * q = (OpenCount - 1) * q + q
    BY <1>2, <1>7, <2>1, Times
  <2>3. Filled(side, kind, q) = q
    BY <1>2, <1>7, <2>2 DEF Filled
  <2>4. holding'[TheSide] = (OpenCount - 1) * TheSize
    BY <1>2, <1>4, <1>7, <1>9, <2>2, <2>3
  <2>5. eng'.pc = "findRow"
    BY <1>1, <1>9
  <2> QED BY <1>5, <1>6, <1>7, <2>1, <2>4, <2>5 DEF Balanced
<1> QED BY <1>8, <1>9

LEMMA AloneBooks ==
  ASSUME EngineAlone, AloneInv, EngineStep
  PROVE  AloneInv'
<1> USE DEF AloneInv
<1>1. /\ UNCHANGED <<holding, fills, syncs, api, crashes>> /\ orders \subseteq orders'
      /\ eng.pc # "idle" /\ \A s \in Syncs : syncs[s].pc = "idle"
  BY DEF EngineStep, EngineAddPosition, EngineFindRow, EngineClose, EngineMetrics, EngineAddOrder,
         exchangeVars, storeVars, history, OrdersInv
<1>2. /\ eng \in [pc : {"idle", "addPosition", "findRow", "close", "metrics", "addOrder"},
                  side : {"long", "short"}, qty : Nat, order : Nat, row : Nat, log : BOOLEAN]
      /\ eng.side \in Sides /\ eng.qty \in Quantities /\ eng.log
      /\ OpenCount \in Nat /\ OpenRows \subseteq Nat
  BY <1>1, OpenRowsAreFinite DEF AloneTyped
<1>3. ASSUME NEW pc \in {"findRow", "close", "metrics", "addOrder"}, NEW row \in Nat,
             eng' = [eng EXCEPT !.pc = pc, !.row = row], book' \in Seq(RowRecs)
      PROVE  AloneTyped' /\ OrdersInv' /\ eng'.pc = pc /\ eng'.row = row
  <2>1. eng'.pc = pc /\ eng'.order = eng.order /\ eng'.row = row
    BY <1>2, <1>3
  <2>2. AloneTyped'
    BY <1>1, <1>2, <1>3 DEF AloneTyped
  <2>3. OrdersInv'
    BY <1>1, <2>1 DEF OrdersInv
  <2> QED BY <2>1, <2>2, <2>3
<1>4. AfterClose = [eng EXCEPT !.pc = "addOrder", !.row = eng.row]
  BY <1>2 DEF AfterClose
<1>5. CASE EngineAddPosition
  <2>1. book' \in Seq(RowRecs) /\ OpenCount' = OpenCount + 1
    BY <1>2, <1>5, RowOpens DEF EngineAddPosition
  <2>2. eng' = [eng EXCEPT !.pc = "addOrder", !.row = eng.row] /\ eng.pc = "addPosition"
    BY <1>2, <1>5 DEF EngineAddPosition
  <2> QED BY <1>1, <1>2, <1>3, <2>1, <2>2 DEF Balanced
<1>6. CASE EngineFindRow
  <2>1. eng.pc = "findRow" /\ book' = book
    BY <1>6 DEF EngineFindRow, storeVars
  <2>2. OpenRows # {}
    BY <2>1, FS_EmptySet DEF Balanced, OpenCount
  <2>3. /\ Newest(OpenRows) \in OpenRows
        /\ eng' = [eng EXCEPT !.pc = "close", !.row = Newest(OpenRows)]
    BY <1>6, <2>2, NewestIsOne DEF EngineFindRow
  <2>4. OpenCount' = OpenCount /\ OpenRows' = OpenRows /\ book' \in Seq(RowRecs)
    BY <2>1 DEF OpenCount, OpenRows, AloneTyped
  <2> QED BY <1>1, <1>2, <1>3, <2>1, <2>3, <2>4 DEF Balanced
<1>7. CASE EngineClose
  <2>1. eng.pc = "close" /\ eng.row \in OpenRows /\ book' = Closed(eng.row, "engine")
    BY <1>7 DEF EngineClose, Balanced
  <2>2. book' \in Seq(RowRecs) /\ OpenCount' = OpenCount - 1
    BY <2>1, RowCloses
  <2>3. eng' = [eng EXCEPT !.pc = "metrics", !.row = eng.row]
    BY <1>2, <1>7 DEF EngineClose
  <2> QED BY <1>1, <1>2, <1>3, <2>1, <2>2, <2>3 DEF Balanced
<1>8. CASE EngineMetrics
  <2>1. eng.pc = "metrics" /\ book' = book /\ eng' = [eng EXCEPT !.pc = "addOrder", !.row = eng.row]
    BY <1>4, <1>8 DEF EngineMetrics
  <2>2. OpenCount' = OpenCount /\ book' \in Seq(RowRecs)
    BY <2>1 DEF OpenCount, OpenRows, AloneTyped
  <2> QED BY <1>1, <1>2, <1>3, <2>1, <2>2 DEF Balanced
<1>9. CASE EngineAddOrder
  <2>1. /\ eng.pc = "addOrder" /\ book' = book /\ eng' = EngineIdle
        /\ orders' = orders \cup {eng.order}
    BY <1>9 DEF EngineAddOrder
  <2>2. OpenCount' = OpenCount
    BY <2>1 DEF OpenCount, OpenRows
  <2>3. AloneTyped'
    BY <1>1, <2>1 DEF AloneTyped, EngineIdle, NoPosition
  <2>4. OrdersInv'
    BY <1>1, <2>1 DEF OrdersInv, EngineIdle
  <2> QED BY <1>1, <2>1, <2>2, <2>3, <2>4 DEF Balanced, EngineIdle
<1> QED BY <1>5, <1>6, <1>7, <1>8, <1>9 DEF EngineStep

(* A goroutine that pulls meets no order that the table does not know.     *)
LEMMA AlonePulls ==
  ASSUME EngineAlone, AloneInv, NEW s \in Syncs, Syncing(s)
  PROVE  AloneInv'
<1> USE DEF AloneInv
<1>1. ASSUME NEW pc \in {"idle", "addFill", "addOrder"}, NEW todo \in Seq(FillRecs), NEW row \in Nat,
             SyncTo(s, pc, todo, row), orders \subseteq orders',
             pc # "idle" => /\ eng.pc = "idle" /\ todo # <<>>
                            /\ \A i \in 1..Len(todo) : todo[i].order \in orders,
             UNCHANGED <<holding, fills, book, eng, api, crashes>>
      PROVE  AloneInv'
  <2>1. /\ syncs' \in [Syncs -> [pc : {"idle", "addFill", "addOrder"}, todo : Seq(FillRecs), row : Nat]]
        /\ syncs'[s] = [pc |-> pc, todo |-> todo, row |-> row]
        /\ \A t \in Syncs : t # s => syncs'[t] = syncs[t]
    BY <1>1 DEF SyncTo, AloneTyped
  <2>2. AloneTyped'
    BY <1>1, <2>1 DEF AloneTyped
  <2>3. OrdersInv'
    <3>1. \A i \in 1..Len(fills') : \/ fills'[i].order \in orders'
                                    \/ eng'.pc # "idle" /\ fills'[i].order = eng'.order
      BY <1>1 DEF OrdersInv
    <3>2. ASSUME NEW t \in Syncs, syncs'[t].pc # "idle"
          PROVE  /\ eng'.pc = "idle" /\ syncs'[t].todo # <<>>
                 /\ \A i \in 1..Len(syncs'[t].todo) : syncs'[t].todo[i].order \in orders'
      <4>1. CASE t = s
        BY <1>1, <2>1, <3>2, <4>1
      <4>2. CASE t # s
        BY <1>1, <2>1, <3>2, <4>2 DEF OrdersInv
      <4> QED BY <4>1, <4>2
    <3> QED BY <3>1, <3>2 DEF OrdersInv
  <2>4. OpenCount' = OpenCount /\ OpenRows' = OpenRows
    BY <1>1 DEF OpenCount, OpenRows
  <2>5. Balanced'
    BY <1>1, <2>4 DEF Balanced
  <2> QED BY <2>2, <2>3, <2>5
<1> DEFINE todo == syncs[s].todo
<1>2. /\ syncs[s].pc \in {"idle", "addFill", "addOrder"} /\ todo \in Seq(FillRecs)
      /\ syncs[s].row \in Nat /\ fills \in Seq(FillRecs) /\ NoPosition \in Nat
      /\ syncs[s].pc # "idle" => /\ eng.pc = "idle" /\ todo # <<>>
                                 /\ \A i \in 1..Len(todo) : todo[i].order \in orders
  BY DEF AloneTyped, OrdersInv, NoPosition
<1>3. syncs[s].pc # "idle" => /\ Head(todo).order \in orders
                              /\ Tail(todo) \in Seq(FillRecs)
                              /\ \A i \in 1..Len(Tail(todo)) : Tail(todo)[i].order \in orders
  <2> SUFFICES ASSUME syncs[s].pc # "idle"
               PROVE  /\ Head(todo).order \in orders
                      /\ Tail(todo) \in Seq(FillRecs)
                      /\ \A i \in 1..Len(Tail(todo)) : Tail(todo)[i].order \in orders
    OBVIOUS
  <2>1. /\ Len(todo) \in Nat /\ Len(todo) >= 1 /\ Head(todo) = todo[1]
        /\ Tail(todo) \in Seq(FillRecs) /\ Len(Tail(todo)) = Len(todo) - 1
        /\ \A i \in 1..(Len(todo) - 1) : Tail(todo)[i] = todo[i + 1]
    BY <1>2
  <2> QED BY <1>2, <2>1
<1>4. CASE SyncPull(s)
  <2>1. eng.pc = "idle" /\ UNCHANGED <<holding, fills, book, eng, api, crashes, orders>>
    BY <1>4 DEF SyncPull, MayBegin, AllIdle, EngineAlone, exchangeVars, storeVars, history
  <2>2. \A i \in 1..Len(fills) : fills[i].order \in orders
    BY <2>1 DEF OrdersInv
  <2>3. CASE fills = <<>>
    BY <1>1, <1>2, <1>4, <2>1, <2>3 DEF SyncPull, SyncAt
  <2>4. CASE fills # <<>>
    BY <1>1, <1>2, <1>4, <2>1, <2>2, <2>4 DEF SyncPull, SyncAt
  <2> QED BY <2>3, <2>4
<1>5. ASSUME syncs[s].pc # "idle", SyncAt(s, Tail(todo)), orders \subseteq orders',
             UNCHANGED <<holding, fills, book, eng, api, crashes>>
      PROVE  AloneInv'
  <2>1. CASE Tail(todo) = <<>>
    BY <1>1, <1>2, <1>3, <1>5, <2>1 DEF SyncAt
  <2>2. CASE Tail(todo) # <<>>
    BY <1>1, <1>2, <1>3, <1>5, <2>2 DEF SyncAt
  <2> QED BY <2>1, <2>2
<1>6. CASE SyncAddFill(s)
  <2>1. /\ syncs[s].pc = "addFill" /\ UNCHANGED <<holding, fills, book, eng, api, crashes, orders>>
        /\ SyncAt(s, Tail(todo)) \/ SyncTo(s, "addOrder", todo, syncs[s].row)
    BY <1>6 DEF SyncAddFill, SyncGoes, exchangeVars, history
  <2> QED BY <1>1, <1>2, <1>5, <2>1
<1>7. CASE SyncAddOrder(s)
  <2>1. /\ syncs[s].pc = "addOrder" /\ UNCHANGED <<holding, fills, book, eng, api, crashes>>
        /\ orders \subseteq orders'
        /\ SyncAt(s, Tail(todo))
    BY <1>3, <1>7 DEF SyncAddOrder, exchangeVars, history
  <2> QED BY <1>5, <2>1
<1>8. ~ (SyncBuild(s) \/ SyncClose(s) \/ SyncMetrics(s) \/ SyncBackfill(s))
  BY <1>2 DEF SyncBuild, SyncClose, SyncMetrics, SyncBackfill
<1> QED BY <1>4, <1>6, <1>7, <1>8 DEF Syncing

LEMMA AloneStep == EngineAlone /\ AloneInv /\ [BookNext]_bookVars => AloneInv'
<1> SUFFICES ASSUME EngineAlone, AloneInv, [BookNext]_bookVars PROVE AloneInv'
  OBVIOUS
<1>1. ~ (TradeByHand \/ EngineTradeLost \/ GuardTrade \/ ApiClose \/ ApiMetrics \/ BookCrash)
  BY BookAssumption DEF EngineAlone, AloneInv, AloneTyped, TradeByHand, EngineTradeLost, GuardTrade,
         ApiClose, ApiMetrics, BookCrash
<1>2. CASE UNCHANGED bookVars
  BY <1>2 DEF bookVars, exchangeVars, storeVars, history, AloneInv, AloneTyped, OrdersInv, Balanced,
              OpenCount, OpenRows
<1> QED BY <1>1, <1>2, AloneTrades, AloneBooks, AlonePulls DEF BookNext

(* The running sum of Booked is the count of the open rows so far, times   *)
(* the size: it satisfies the recursion, and two that do differ nowhere    *)
(* first.                                                                  *)
LEMMA BookedIsCounted ==
  ASSUME EngineAlone, AloneTyped
  PROVE  Booked(TheSide) = OpenCount * TheSize
<1> DEFINE n == Len(book)
           q == TheSize
           Gain(i) == IF book[i].open /\ book[i].side = TheSide THEN book[i].qty ELSE 0
           Upto(i) == {j \in 1..i : book[j].open}
           tally == [i \in 0..n |-> Cardinality(Upto(i)) * q]
           Sums(f) == f = [i \in 0..n |-> IF i = 0 THEN 0 ELSE f[i - 1] + Gain(i)]
<1>1. /\ n \in Nat /\ DOMAIN book = 1..n
      /\ \A i \in 1..n : Gain(i) = (IF book[i].open THEN q ELSE 0)
  <2>1. \A i \in 1..n : book[i] \in RowRecs
    BY DEF AloneTyped
  <2> QED BY <2>1, TheOnes DEF AloneTyped, RowRecs
<1>2. \A i \in 0..n : IsFiniteSet(Upto(i)) /\ Cardinality(Upto(i)) \in Nat
  <2> SUFFICES ASSUME NEW i \in 0..n PROVE IsFiniteSet(Upto(i))
    BY FS_CardinalityType
  <2>1. IsFiniteSet(1..i)
    BY <1>1, FS_Interval
  <2> QED BY <2>1, FS_Subset
<1>3. tally[0] = 0
  <2>1. Upto(0) = {}
    OBVIOUS
  <2>2. Cardinality(Upto(0)) = 0
    BY <2>1, FS_EmptySet
  <2>3. 0 \in 0..n /\ 0 * q = 0
    BY <1>1, TheOnes
  <2> QED BY <2>2, <2>3
<1>4. ASSUME NEW i \in 1..n PROVE tally[i] = tally[i - 1] + Gain(i)
  <2>1. i - 1 \in 0..n /\ i \in 0..n /\ Cardinality(Upto(i - 1)) \in Nat /\ IsFiniteSet(Upto(i - 1))
    BY <1>1, <1>2
  <2>2. CASE book[i].open
    <3>1. Upto(i) = Upto(i - 1) \cup {i} /\ i \notin Upto(i - 1)
      BY <2>2
    <3>2. Cardinality(Upto(i)) = Cardinality(Upto(i - 1)) + 1
      BY <2>1, <3>1, FS_AddElement
    <3>3. Cardinality(Upto(i)) * q = Cardinality(Upto(i - 1)) * q + q
      BY <2>1, <3>2, Times, TheOnes
    <3>4. Gain(i) = q
      BY <1>1, <2>2
    <3> HIDE DEF Gain, Upto
    <3> QED BY <2>1, <3>3, <3>4
  <2>3. CASE ~ book[i].open
    <3>1. Upto(i) = Upto(i - 1)
      BY <2>3
    <3>2. Cardinality(Upto(i - 1)) * q \in Nat
      BY <2>1, Times, TheOnes
    <3>3. Gain(i) = 0
      BY <1>1, <2>3
    <3> HIDE DEF Gain, Upto
    <3> QED BY <2>1, <3>1, <3>2, <3>3
  <2> QED BY <2>2, <2>3
<1>5. \A i \in 0..n : tally[i] \in Nat
  BY <1>2, Times, TheOnes
<1>6. Sums(tally)
  <2>1. \A i \in 0..n : tally[i] = IF i = 0 THEN 0 ELSE tally[i - 1] + Gain(i)
    <3> HIDE DEF tally, Gain
    <3> QED BY <1>1, <1>3, <1>4
  <2>2. tally = [i \in 0..n |-> tally[i]]
    OBVIOUS
  <2> HIDE DEF tally, Gain
  <2> QED BY <2>1, <2>2
<1>7. ASSUME NEW f, Sums(f) PROVE f[n] = tally[n]
  <2>1. f[0] = 0 /\ \A i \in 1..n : i - 1 \in 0..n /\ f[i] = f[i - 1] + Gain(i)
    BY <1>1, <1>7
  <2> HIDE DEF tally, Gain, Upto
  <2> DEFINE Same == {i \in 0..n : f[i] = tally[i]}
  <2>2. 0 \in Same
    BY <1>1, <1>3, <2>1
  <2>3. \A i \in 1..n : i - 1 \in Same => i \in Same
    BY <1>1, <1>4, <2>1
  <2> HIDE DEF Same
  <2>4. \A i \in 0..n : i \in Same
    BY <1>1, <2>2, <2>3, CountingUp
  <2> QED BY <1>1, <2>4 DEF Same
<1>8. Booked(TheSide) = tally[n]
  <2> HIDE DEF tally
  <2>1. Booked(TheSide) = (CHOOSE f : Sums(f))[n]
    BY DEF Booked
  <2> HIDE DEF Sums
  <2> QED BY <1>6, <1>7, <2>1
<1>9. tally[n] = OpenCount * q
  <2>1. Upto(n) = OpenRows /\ n \in 0..n
    BY <1>1 DEF OpenRows
  <2> QED BY <2>1 DEF OpenCount
<1> QED BY <1>8, <1>9

(* For any number of goroutines, orders, parts of fills and size: the book *)
(* of an engine that has the account and one side to itself shows what is  *)
(* held whenever nobody is at work (engine.go:378), for a pull never meets *)
(* an order that the engine has not recorded, and rows and holding move    *)
(* together.                                                               *)
THEOREM BookShowsHolding == EngineAlone => (BookSpec => []BookMatches)
<1> SUFFICES ASSUME EngineAlone PROVE BookSpec => []BookMatches
  OBVIOUS
<1>1. BookInit => AloneInv
  BY AloneBegins
<1>2. AloneInv /\ [BookNext]_bookVars => AloneInv'
  BY AloneStep
<1>3. AloneInv => BookMatches
  <2> SUFFICES ASSUME AloneInv, AllIdle, NEW side \in Sides PROVE Booked(side) = holding[side]
    BY DEF BookMatches, Settled
  <2>1. side = TheSide
    BY TheOnes
  <2>2. holding[TheSide] = OpenCount * TheSize
    BY DEF AllIdle, AloneInv, Balanced
  <2> QED BY <2>1, <2>2, BookedIsCounted DEF AloneInv
<1> QED BY <1>1, <1>2, <1>3, PTL DEF BookSpec

-----------------------------------------------------------------------------
(* The types of the book, its goroutines and the exchange, whoever trades. *)

TradeIds == (1..MaxOrders) \X (1..2)

(* Who remembers a row remembers one of the table. *)
RowOrNone == {NoPosition} \cup DOMAIN book

(* A goroutine goes on with fills it has, and remembers a row of the table. *)
SyncsTyped ==
  \A s \in Syncs : /\ syncs[s].todo \in Seq(FillRecs)
                   /\ syncs[s].pc # "idle" => syncs[s].todo # <<>>
                   /\ syncs[s].row \in RowOrNone

BookTyped ==
  /\ CountShape
  /\ Inv
  /\ holding \in [Sides -> Nat]
  /\ fills \in Seq(FillRecs)
  /\ orders \subseteq 1..MaxOrders
  /\ seen \subseteq TradeIds
  /\ crashes \in 0..MaxCrashes
  /\ eng.pc # "idle" => eng.order \in 1..MaxOrders
  /\ eng.row \in RowOrNone
  /\ SyncsTyped

LEMMA BookTypesBegin == BookInit => BookTyped
<1> SUFFICES ASSUME BookInit PROVE BookTyped
  OBVIOUS
<1>1. CountShape
  <2>1. BookShape
    BY DEF BookInit, BookShape
  <2>2. eng \in [pc : {"idle", "addPosition", "findRow", "close", "metrics", "addOrder"},
                side : {"long", 0}, qty : {"long", 0}, order : {"long", 0}, row : {"long", 0},
                log : BOOLEAN]
    BY DEF BookInit, EngineIdle, NoPosition
  <2>3. EngineShape
    BY <2>2 DEF EngineShape
  <2> QED BY <2>1, <2>3 DEF BookInit, CountShape, SyncShape
<1>2. eng = EngineIdle /\ \A s \in Syncs : syncs[s] = SyncIdle
  BY DEF BookInit
<1>3. /\ Inv /\ holding \in [Sides -> Nat]
      /\ fills \in Seq(FillRecs)
      /\ orders \subseteq 1..MaxOrders
      /\ seen \subseteq TradeIds
      /\ crashes \in 0..MaxCrashes
  BY InvInit, BookAssumption, EmptySeq DEF BookInit
<1>4. eng.pc = "idle" /\ eng.row \in RowOrNone
  BY <1>2 DEF EngineIdle, RowOrNone
<1>5. \A s \in Syncs : /\ syncs[s].todo \in Seq(FillRecs)
                       /\ syncs[s].pc = "idle"
                       /\ syncs[s].row \in RowOrNone
  <2>1. /\ SyncIdle.todo = <<>> /\ SyncIdle.pc = "idle"
        /\ SyncIdle.row \in RowOrNone /\ <<>> \in Seq(FillRecs)
    BY EmptySeq DEF SyncIdle, RowOrNone
  <2> QED BY <1>2, <2>1
<1> QED BY <1>1, <1>3, <1>4, <1>5 DEF BookTyped, SyncsTyped

(* No row leaves the table. *)
LEMMA RowsStay ==
  ASSUME BookShape, [BookNext]_bookVars
  PROVE  /\ DOMAIN book \subseteq DOMAIN book'
         /\ RowOrNone \subseteq RowOrNone'
<1>1. PICK V : book \in Seq(RowsOver(V))
  BY DEF BookShape
<1>2. ASSUME NEW side, NEW qty, NEW order, book' = Append(book, Row(side, qty, order))
      PROVE  DOMAIN book \subseteq DOMAIN book'
  <2>1. DOMAIN book = 1..Len(book) /\ Len(book) \in Nat /\ DOMAIN book' = 1..(Len(book) + 1)
    <3>1. Row(side, qty, order) \in RowsOver(V \cup {side, qty, order})
      BY DEF Row, RowsOver
    <3>2. book \in Seq(RowsOver(V \cup {side, qty, order}))
      BY <1>1, RowsGrow
    <3> QED BY <1>2, <3>1, <3>2
  <2> QED BY <2>1
<1>3. ASSUME NEW i, NEW who, book' = Closed(i, who)
      PROVE  DOMAIN book \subseteq DOMAIN book'
  BY <1>3 DEF Closed
<1>4. DOMAIN book \subseteq DOMAIN book'
  BY <1>2, <1>3, BookSteps
<1> QED BY <1>4 DEF RowOrNone

(* An order is executed, by whomever. *)
LEMMA ExchangeTypes ==
  ASSUME BookTyped, TradeByHand \/ EngineTrade \/ EngineTradeLost \/ GuardTrade
  PROVE  /\ holding' \in [Sides -> Nat] /\ fills' \in Seq(FillRecs)
         /\ eng'.pc # "idle" => eng'.order \in 1..MaxOrders
         /\ eng'.row \in RowOrNone
<1> DEFINE Goal == /\ holding' \in [Sides -> Nat] /\ fills' \in Seq(FillRecs)
                   /\ NextOrder \in 1..MaxOrders
<1>1. ASSUME NEW side \in Sides, NEW kind \in {"open", "close"}, NEW q \in Nat,
             Execute(side, kind, q)
      PROVE  Goal
  BY <1>1, Executed DEF BookTyped
<1> HIDE DEF Goal
<1>2. Quantities \subseteq Nat /\ \A side \in Sides : holding[side] \in Nat
  BY BookAssumption DEF BookTyped
<1>3. Goal
  <2>1. CASE TradeByHand
    BY <1>1, <1>2, <2>1 DEF TradeByHand
  <2>2. CASE EngineTrade
    BY <1>1, <1>2, <2>2 DEF EngineTrade
  <2>3. CASE EngineTradeLost
    BY <1>1, <1>2, <2>3 DEF EngineTradeLost
  <2>4. CASE GuardTrade
    BY <1>1, <1>2, <2>4 DEF GuardTrade
  <2> QED BY <2>1, <2>2, <2>3, <2>4
<1>4. eng' = eng \/ (eng'.order = NextOrder /\ eng'.row = NoPosition)
  BY DEF TradeByHand, EngineTrade, EngineTradeLost, GuardTrade
<1> QED BY <1>3, <1>4 DEF Goal, BookTyped, RowOrNone

(* A row of the table that is open is the newest of those that are. *)
LEMMA NewestRow ==
  ASSUME BookShape, NEW S, S \subseteq OpenRows, S # {}
  PROVE  Newest(S) \in RowOrNone
<1>1. DOMAIN book = 1..Len(book) /\ Len(book) \in Nat
  BY DEF BookShape
<1>2. S \subseteq 1..Len(book)
  BY <1>1 DEF OpenRows
<1>3. Newest(S) \in S
  BY <1>1, <1>2, NewestOf
<1> QED BY <1>1, <1>2, <1>3 DEF RowOrNone

LEMMA EngineTypes ==
  ASSUME BookTyped, EngineStep
  PROVE  /\ eng'.pc # "idle" => eng'.order \in 1..MaxOrders
         /\ eng'.row \in RowOrNone
         /\ orders' \subseteq 1..MaxOrders
<1> USE DEF BookTyped, CountShape
<1>1. PICK V : eng \in [pc : {"idle", "addPosition", "findRow", "close", "metrics", "addOrder"},
                       side : V, qty : V, order : V, row : V, log : BOOLEAN]
  BY DEF EngineShape
<1>2. EngineIdle.pc = "idle" /\ EngineIdle.row \in RowOrNone
  BY DEF EngineIdle, RowOrNone
<1>3. eng.pc # "idle" => AfterClose = EngineIdle
                          \/ (AfterClose.order = eng.order /\ AfterClose.row = eng.row)
  BY <1>1 DEF AfterClose
<1>4. CASE EngineAddPosition
  <2>1. eng' = [eng EXCEPT !.pc = "addOrder"] /\ eng.pc = "addPosition" /\ orders' = orders
    BY <1>4 DEF EngineAddPosition
  <2>2. eng'.order = eng.order /\ eng'.row = eng.row
    BY <1>1, <2>1
  <2> QED BY <2>1, <2>2
<1>5. CASE EngineFindRow
  <2>1. eng.pc = "findRow" /\ orders' = orders
    BY <1>5 DEF EngineFindRow, storeVars
  <2>2. CASE OpenRows = {}
    <3>1. eng' = AfterClose
      BY <1>5, <2>2 DEF EngineFindRow
    <3> QED BY <1>2, <1>3, <2>1, <3>1
  <2>3. CASE OpenRows # {}
    <3>1. eng' = [eng EXCEPT !.pc = "close", !.row = Newest(OpenRows)]
      BY <1>5, <2>3 DEF EngineFindRow
    <3>2. eng'.order = eng.order /\ eng'.row = Newest(OpenRows)
      BY <1>1, <3>1
    <3>3. Newest(OpenRows) \in RowOrNone
      BY <2>3, NewestRow
    <3> QED BY <2>1, <3>2, <3>3
  <2> QED BY <2>2, <2>3
<1>6. CASE EngineClose
  <2>1. eng' = [eng EXCEPT !.pc = "metrics"] /\ eng.pc = "close" /\ orders' = orders
    BY <1>6 DEF EngineClose
  <2>2. eng'.order = eng.order /\ eng'.row = eng.row
    BY <1>1, <2>1
  <2> QED BY <2>1, <2>2
<1>7. CASE EngineMetrics
  BY <1>2, <1>3, <1>7 DEF EngineMetrics
<1>8. CASE EngineAddOrder
  BY <1>2, <1>8 DEF EngineAddOrder
<1> QED BY <1>4, <1>5, <1>6, <1>7, <1>8 DEF EngineStep

LEMMA SyncGoesOn ==
  ASSUME BookTyped, NEW s \in Syncs, NEW pc, NEW todo \in Seq(FillRecs), NEW row \in RowOrNone,
         pc # "idle" => todo # <<>>, SyncTo(s, pc, todo, row),
         RowOrNone \subseteq RowOrNone'
  PROVE  SyncsTyped'
<1>1. /\ syncs'[s] = [pc |-> pc, todo |-> todo, row |-> row]
      /\ \A t \in Syncs : t # s => syncs'[t] = syncs[t]
  BY DEF SyncTo, BookTyped, CountShape, SyncShape
<1> SUFFICES ASSUME NEW t \in Syncs
             PROVE  /\ syncs'[t].todo \in Seq(FillRecs)
                    /\ syncs'[t].pc # "idle" => syncs'[t].todo # <<>>
                    /\ syncs'[t].row \in RowOrNone'
  BY DEF SyncsTyped
<1>2. CASE t = s
  <2>1. syncs'[t].todo = todo /\ syncs'[t].pc = pc /\ syncs'[t].row = row
    BY <1>1, <1>2
  <2> QED BY <2>1
<1>3. CASE t # s
  <2>1. syncs'[t] = syncs[t]
    BY <1>1, <1>3
  <2>2. /\ syncs[t].todo \in Seq(FillRecs)
        /\ syncs[t].pc # "idle" => syncs[t].todo # <<>>
        /\ syncs[t].row \in RowOrNone
    BY DEF BookTyped, SyncsTyped
  <2> QED BY <2>1, <2>2
<1> QED BY <1>2, <1>3

LEMMA SyncTypes ==
  ASSUME BookTyped, NEW s \in Syncs, Syncing(s)
  PROVE  /\ SyncsTyped'
         /\ orders' \subseteq 1..MaxOrders
         /\ seen' \subseteq TradeIds
<1> DEFINE todo == syncs[s].todo
<1>1. /\ todo \in Seq(FillRecs)
      /\ syncs[s].pc # "idle" => todo # <<>>
      /\ syncs[s].row \in RowOrNone /\ NoPosition \in RowOrNone /\ fills \in Seq(FillRecs)
      /\ orders \subseteq 1..MaxOrders /\ seen \subseteq TradeIds
      /\ BookShape
  BY DEF BookTyped, SyncsTyped, RowOrNone, CountShape
<1>2. todo # <<>> => Head(todo) \in FillRecs /\ Tail(todo) \in Seq(FillRecs)
  BY <1>1, HeadTailProperties
<1>3. todo # <<>> => /\ Head(todo).order \in 1..MaxOrders
                     /\ TradeId(Head(todo)) \in TradeIds
  BY <1>2 DEF FillRecs, TradeId, TradeIds
<1>4. RowOrNone \subseteq RowOrNone'
  <2>1. BookNext
    BY DEF BookNext
  <2> QED BY <1>1, <2>1, RowsStay
<1> HIDE DEF todo
<1>5. ASSUME NEW pc, NEW row \in RowOrNone, pc # "idle" => todo # <<>>, SyncTo(s, pc, todo, row)
      PROVE  SyncsTyped'
  BY <1>1, <1>4, <1>5, SyncGoesOn
<1>6. ASSUME NEW rest \in Seq(FillRecs), SyncAt(s, rest) PROVE SyncsTyped'
  <2>1. PICK pc : SyncTo(s, pc, rest, NoPosition) /\ (pc # "idle" => rest # <<>>)
    BY <1>6 DEF SyncAt
  <2> QED BY <1>1, <1>4, <2>1, SyncGoesOn
<1>7. CASE SyncPull(s)
  BY <1>1, <1>6, <1>7 DEF SyncPull, storeVars
<1>8. CASE SyncAddFill(s)
  <2>1. syncs[s].pc = "addFill" /\ seen' = seen \cup {TradeId(Head(todo))} /\ orders' = orders
    BY <1>8 DEF SyncAddFill, todo
  <2>2. SyncAt(s, Tail(todo)) \/ SyncTo(s, "addOrder", todo, syncs[s].row)
    BY <1>8 DEF SyncAddFill, SyncGoes, todo
  <2> QED BY <1>1, <1>2, <1>3, <1>5, <1>6, <2>1, <2>2
<1>9. CASE SyncAddOrder(s)
  <2>1. syncs[s].pc = "addOrder" /\ orders' = orders \cup {Head(todo).order} /\ seen' = seen
    BY <1>9 DEF SyncAddOrder, todo
  <2>2. SyncAt(s, Tail(todo)) \/ SyncTo(s, "build", todo, syncs[s].row)
    BY <1>9 DEF SyncAddOrder, SyncGoes, todo
  <2> QED BY <1>1, <1>2, <1>3, <1>5, <1>6, <2>1, <2>2
<1>10. CASE SyncBuild(s)
  <2>1. syncs[s].pc = "build" /\ orders' = orders /\ seen' = seen
    BY <1>10 DEF SyncBuild, storeVars
  <2>2. \/ SyncAt(s, Tail(todo)) \/ SyncTo(s, "backfill", todo, syncs[s].row)
        \/ \E S : S \subseteq OpenRows /\ S # {} /\ SyncTo(s, "close", todo, Newest(S))
    <3> DEFINE matching == {i \in OpenRows : book[i].side = closingSide(Head(todo))}
    <3>1. IF matching # {}
          THEN \/ SyncTo(s, "close", todo, Newest(matching)) \/ SyncAt(s, Tail(todo))
          ELSE SyncAt(s, Tail(todo)) \/ SyncTo(s, "backfill", todo, syncs[s].row)
      BY <1>10 DEF SyncBuild, SyncGoes, todo
    <3>2. matching \subseteq OpenRows
      OBVIOUS
    <3> HIDE DEF matching
    <3> QED BY <3>1, <3>2
  <2>3. ASSUME NEW S, S \subseteq OpenRows, S # {}, SyncTo(s, "close", todo, Newest(S))
        PROVE  SyncsTyped'
    BY <1>1, <1>5, <2>1, <2>3, NewestRow
  <2> QED BY <1>1, <1>2, <1>5, <1>6, <2>1, <2>2, <2>3
<1>11. CASE SyncClose(s)
  <2>1. /\ syncs[s].pc = "close" /\ orders' = orders /\ seen' = seen
        /\ SyncTo(s, "metrics", todo, syncs[s].row)
    BY <1>11 DEF SyncClose, SyncGoes, todo
  <2> QED BY <1>1, <1>5, <2>1
<1>12. CASE SyncMetrics(s) \/ SyncBackfill(s)
  <2>1. /\ syncs[s].pc # "idle" /\ orders' = orders /\ seen' = seen
        /\ SyncAt(s, Tail(todo))
    BY <1>12 DEF SyncMetrics, SyncBackfill, todo
  <2> QED BY <1>1, <1>2, <1>6, <2>1
<1> QED BY <1>7, <1>8, <1>9, <1>10, <1>11, <1>12 DEF Syncing

LEMMA BookTypesKept == BookTyped /\ [BookNext]_bookVars => BookTyped'
<1> SUFFICES ASSUME BookTyped, [BookNext]_bookVars PROVE BookTyped'
  OBVIOUS
<1>1. CountShape' /\ Inv' /\ RowOrNone \subseteq RowOrNone' /\ NoPosition \in RowOrNone'
  BY CountShapeKept, InvStep, RowsStay DEF BookTyped, CountShape, RowOrNone
<1>2. SyncsTyped /\ (UNCHANGED syncs => SyncsTyped')
  BY <1>1 DEF BookTyped, SyncsTyped
<1> DEFINE EngineOK == /\ eng'.pc # "idle" => eng'.order \in 1..MaxOrders
                       /\ eng'.row \in RowOrNone'
           StoreOK == /\ orders' \subseteq 1..MaxOrders
                      /\ seen' \subseteq TradeIds
           ExchangeOK == holding' \in [Sides -> Nat] /\ fills' \in Seq(FillRecs)
<1>3. /\ UNCHANGED eng => EngineOK
      /\ UNCHANGED <<orders, seen>> => StoreOK
      /\ UNCHANGED <<holding, fills>> => ExchangeOK
      /\ UNCHANGED crashes => crashes' \in 0..MaxCrashes
  BY <1>1 DEF BookTyped
<1>4. ASSUME EngineOK, StoreOK, ExchangeOK, crashes' \in 0..MaxCrashes, SyncsTyped'
      PROVE  BookTyped'
  BY <1>1, <1>4 DEF BookTyped
<1>5. CASE TradeByHand \/ EngineTrade \/ EngineTradeLost \/ GuardTrade
  <2>1. UNCHANGED <<orders, seen, syncs, crashes>>
    BY <1>5 DEF TradeByHand, EngineTrade, EngineTradeLost, GuardTrade, storeVars, history
  <2>2. ExchangeOK /\ EngineOK
    BY <1>1, <1>5, ExchangeTypes
  <2> HIDE DEF EngineOK, StoreOK, ExchangeOK
  <2> QED BY <1>2, <1>3, <1>4, <2>1, <2>2
<1>6. CASE EngineStep
  <2>1. UNCHANGED <<holding, fills, seen, syncs, crashes>>
    BY <1>6 DEF EngineStep, EngineAddPosition, EngineFindRow, EngineClose, EngineMetrics,
                EngineAddOrder, storeVars, exchangeVars, history
  <2>2. EngineOK /\ StoreOK
    BY <1>1, <1>6, <2>1, EngineTypes DEF BookTyped
  <2> HIDE DEF EngineOK, StoreOK, ExchangeOK
  <2> QED BY <1>2, <1>3, <1>4, <2>1, <2>2
<1>7. ASSUME NEW s \in Syncs, Syncing(s) PROVE BookTyped'
  <2>1. UNCHANGED <<holding, fills, eng, crashes>>
    BY <1>7 DEF Syncing, SyncPull, SyncAddFill, SyncAddOrder, SyncBuild, SyncClose,
                SyncMetrics, SyncBackfill, exchangeVars, history
  <2>2. SyncsTyped' /\ StoreOK
    BY <1>7, SyncTypes
  <2> HIDE DEF EngineOK, StoreOK, ExchangeOK
  <2> QED BY <1>3, <1>4, <2>1, <2>2
<1>8. CASE ApiClose \/ ApiMetrics \/ UNCHANGED bookVars
  <2>1. UNCHANGED <<holding, fills, orders, seen, eng, syncs, crashes>>
    BY <1>8 DEF ApiClose, ApiMetrics, bookVars, storeVars, exchangeVars, history
  <2> HIDE DEF EngineOK, StoreOK, ExchangeOK
  <2> QED BY <1>2, <1>3, <1>4, <2>1
<1>9. CASE BookCrash
  <2>1. /\ UNCHANGED <<holding, fills, orders, seen>>
        /\ eng' = EngineIdle /\ syncs' = [s \in Syncs |-> SyncIdle]
        /\ crashes < MaxCrashes /\ crashes' = crashes + 1
    BY <1>9 DEF BookCrash, storeVars, exchangeVars
  <2>2. EngineOK
    BY <1>1, <2>1 DEF EngineIdle
  <2>3. SyncsTyped'
    BY <1>1, <2>1, EmptySeq DEF SyncIdle, SyncsTyped
  <2>4. crashes' \in 0..MaxCrashes
    BY <2>1, BookAssumption DEF BookTyped
  <2> HIDE DEF EngineOK, StoreOK, ExchangeOK
  <2> QED BY <1>3, <1>4, <2>1, <2>2, <2>3, <2>4
<1> QED BY <1>5, <1>6, <1>7, <1>8, <1>9 DEF BookNext

LEMMA BookTypesFollow == BookTyped => BookTypeOK
<1> SUFFICES ASSUME BookTyped PROVE BookTypeOK
  OBVIOUS
<1>1. \A i \in DOMAIN fills : fills[i].dir \in {"buy", "sell"} /\ fills[i].qty \in Nat \ {0}
  <2>1. \A i \in DOMAIN fills : fills[i] \in FillRecs
    BY DEF BookTyped
  <2> QED BY <2>1 DEF FillRecs
<1> QED
  BY <1>1 DEF BookTyped, CountShape, Inv, BuildInv, SyncsTyped, RowOrNone, TradeIds, BookTypeOK

(* Whoever trades and however the process dies, for any sizes: the engine  *)
(* and the goroutines that settle fills remember only rows of the table,   *)
(* and what the store keeps is of orders the exchange executed.            *)
THEOREM BookKeepsTypes == BookSpec => []BookTypeOK
BY BookTypesBegin, BookTypesKept, BookTypesFollow, PTL DEF BookSpec
==============================================================================
