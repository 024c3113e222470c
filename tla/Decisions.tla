------------------------------ MODULE Decisions ------------------------------
(***************************************************************************)
(* One cycle of the trading loop, from the account it reads to the orders  *)
(* it sends: the drawdown guard, the candles of the source chain, the      *)
(* model's answer and how it is read, the risk filter, and the orders,     *)
(* closings first (engine.runCycle and decide, risk.go, kernel/parse.go,   *)
(* provider.go, llm/client.go).                                            *)
(*                                                                         *)
(* Meanwhile order sync and the API change the book, a client edits the    *)
(* strategy, and the engine is stopped.  An order and its row are one step *)
(* here; PositionBook takes them apart.  Amounts are small integers, of    *)
(* USDT or of a symbol.                                                    *)
(***************************************************************************)
EXTENDS Integers, Sequences, FiniteSets, SequencesExt

CONSTANTS
  Symbols,      \* what may be traded
  Majors,       \* BTC, ETH and their kind (isBTCEth)
  NoSymbol,     \* a decision that names none
  Said,         \* decisions a model's answer may hold
  MaxSaid,      \* bound on the decisions of an answer
  RiskControls, \* risk settings a strategy may have
  Equities,     \* balances an account may show
  Sources,      \* market data sources, a sequence in order of preference
  MaxRows       \* bound on the rows of the book and on what a cycle counts

ValidActions == {"open_long", "open_short", "close_long", "close_short", "hold", "wait"}

(* What an answer may put in the place of an action; "other" is no action. *)
Words == ValidActions \cup {"other"}

ASSUME DecisionsAssumption ==
  /\ IsFiniteSet(Symbols)
  /\ Majors \subseteq Symbols
  /\ NoSymbol \notin Symbols
  /\ MaxSaid \in Nat
  /\ MaxRows \in Nat
  /\ Equities \subseteq Nat
  /\ Said \subseteq [action : Words, symbol : Symbols \cup {NoSymbol},
                      qty : Nat, price : Nat, lev : Nat]
  /\ RiskControls # {}
  /\ RiskControls \subseteq [maxPositions : Int, majorLev : Int, altLev : Int,
                             majorRatio : Int, altRatio : Int, usage : Int]

VARIABLES
  risk,     \* store: the risk control of the trader's strategy
  openRows, \* store: open rows of the book, per symbol
  peak,     \* store: the highest equity snapshot, with the first one
  daily,    \* store: does Metrics.DailyPnL hold a settlement?
  cycle     \* the cycle under way

decisionVars == <<risk, openRows, peak, daily, cycle>>

Opens  == {"open_long", "open_short"}
Closes == {"close_long", "close_short"}

IsOpen(d)  == d.action \in Opens
IsClose(d) == d.action \in Closes

(* A decision without a quantity, a price or a leverage. *)
Bare(action, s) == [action |-> action, symbol |-> s, qty |-> 0, price |-> 0, lev |-> 0]

(* Where a list of decisions holds one of the actions, its closings. *)
Where(s, actions) == {i \in DOMAIN s : s[i].action \in actions}
Closings(s) == Where(s, Closes)

(* record: the decision record it leaves in the store; risk: the limits it *)
(* was filtered by; room, tried, opened: history, the rows it may leave    *)
(* behind, the closings it tried, and whether it tried to open.            *)
NoRecord == [success |-> FALSE, decisions |-> <<>>]
NoCycle == [pc |-> "idle", balance |-> 0, market |-> {}, record |-> NoRecord,
            risk |-> CHOOSE rc \in RiskControls : TRUE,
            todo |-> <<>>, room |-> 0, tried |-> 0, opened |-> FALSE]

(* The open rows of all symbols. *)
RowCount == Cardinality(UNION {{s} \X (1..openRows[s]) : s \in Symbols})

DecisionsInit ==
  /\ risk \in RiskControls
  /\ openRows = [s \in Symbols |-> 0]
  /\ peak = [first |-> 0, top |-> 0]
  /\ daily = FALSE
  /\ cycle = NoCycle

Goto(pc) == cycle' = [cycle EXCEPT !.pc = pc]
EndCycle == cycle' = NoCycle

-----------------------------------------------------------------------------
(* The account and the guard *)

(* runCycle resets the day's profit first, whatever the hour; without an   *)
(* exchange account it ends there.                                         *)
BeginCycle(found) ==
  /\ cycle.pc = "idle"
  /\ daily' = FALSE
  /\ IF found THEN Goto("account") ELSE EndCycle
  /\ UNCHANGED <<risk, openRows, peak>>

(* snapshotEquity; the guard reads it with the others. *)
Snapshots(equity) ==
  [first |-> IF peak.first = 0 THEN equity ELSE peak.first,
   top   |-> IF equity > peak.top THEN equity ELSE peak.top]

(* maxDrawdownGuard: in profit by more than 5 percent, and 40 percent or   *)
(* more below the peak.                                                    *)
GuardFires(snap, equity) ==
  /\ snap.first > 0
  /\ 100 * equity > 105 * snap.first
  /\ 100 * (snap.top - equity) >= 40 * snap.top

(* GetBalance and GetPositions; held is what the exchange lists. *)
ReadAccount(equity, held) ==
  /\ cycle.pc = "account"
  /\ peak' = Snapshots(equity)
  /\ IF GuardFires(peak', equity) /\ held # {}
     THEN cycle' = [cycle EXCEPT !.pc = "guard", !.balance = equity,
                      !.todo = [i \in 1..Cardinality(held) |->
                                  Bare("close_long", SetToSeq(held)[i])]]
     ELSE cycle' = [cycle EXCEPT !.pc = "decide", !.balance = equity]
  /\ UNCHANGED <<risk, openRows, daily>>

AccountFails ==
  /\ cycle.pc = "account"
  /\ EndCycle
  /\ UNCHANGED <<risk, openRows, peak, daily>>

(* closePosition: the newest row of the symbol, if there is one. *)
Settle(s) ==
  /\ openRows' = [openRows EXCEPT ![s] = IF @ > 0 THEN @ - 1 ELSE 0]
  /\ daily' = (daily \/ openRows[s] > 0)

(* The guard goes through the holdings; one that fails is passed over.     *)
GuardNext(filled) ==
  /\ cycle.pc = "guard"
  /\ IF filled THEN Settle(Head(cycle.todo).symbol) ELSE UNCHANGED <<openRows, daily>>
  /\ IF Len(cycle.todo) = 1 THEN EndCycle
     ELSE cycle' = [cycle EXCEPT !.todo = Tail(@)]
  /\ UNCHANGED <<risk, peak>>

-----------------------------------------------------------------------------
(* What the model is shown, and its answer *)

Candles == {"error", "empty", "ascending", "descending"}

(* Chain.Klines: the first source with candles, in the order it has them.  *)
FirstGood(answers) ==
  LET good == {i \in DOMAIN answers : answers[i] \in {"ascending", "descending"}}
  IN IF good = {} THEN {} ELSE {answers[CHOOSE i \in good : \A j \in good : i <= j]}

(* decide: no model, no decision.  Candles that cannot be had are left out *)
(* of the prompt.                                                          *)
ModelMissing ==
  /\ cycle.pc = "decide"
  /\ EndCycle
  /\ UNCHANGED <<risk, openRows, peak, daily>>

Ask(answers) ==
  /\ cycle.pc = "decide"
  /\ cycle' = [cycle EXCEPT !.pc = "asking", !.market = FirstGood(answers)]
  /\ UNCHANGED <<risk, openRows, peak, daily>>

SafeWait == <<Bare("wait", NoSymbol)>>

(* Chat fails or times out: a record of SafeWait, and nothing is done.     *)
ChatFails ==
  /\ cycle.pc = "asking"
  /\ EndCycle
  /\ UNCHANGED <<risk, openRows, peak, daily>>

Valid(d) ==
  /\ d.action \in ValidActions
  /\ d.symbol = NoSymbol => d.action \in {"hold", "wait"}

(* ParseDecision: all of the answer or nothing; nothing is an error.  An   *)
(* answer is the list that was found in the text, empty if there is none.  *)
ParseDecision(answer) ==
  IF \A i \in DOMAIN answer : Valid(answer[i]) THEN answer ELSE <<>>

Answers == UNION {[1..n -> Said] : n \in 0..MaxSaid}

ChatAnswers(answer) ==
  /\ cycle.pc = "asking"
  /\ cycle' = [cycle EXCEPT !.pc = "filter", !.market = {},
                  !.todo = ParseDecision(answer),
                  !.record = IF ParseDecision(answer) = <<>>
                             THEN [success |-> FALSE, decisions |-> SafeWait]
                             ELSE [success |-> TRUE, decisions |-> ParseDecision(answer)]]
  /\ UNCHANGED <<risk, openRows, peak, daily>>

-----------------------------------------------------------------------------
(* The risk filter *)

(* engine.strategyConfig: a strategy without a positive limit of positions *)
(* counts for nothing here; the default stands for all of its settings.    *)
DefaultRisk ==
  [maxPositions |-> 3, majorLev |-> 5, altLev |-> 5, majorRatio |-> 5, altRatio |-> 1, usage |-> 0]
strategyConfig(rc) == IF rc.maxPositions > 0 THEN rc ELSE DefaultRisk

(* filterByRisk has defaults of its own. *)
OrElse(setting, default) == IF setting <= 0 THEN default ELSE setting
MaxPositions(rc) == OrElse(rc.maxPositions, 3)
Ratio(rc, s)     == OrElse(IF s \in Majors THEN rc.majorRatio ELSE rc.altRatio, 1)

MaxLev(rc, s) == IF s \in Majors THEN rc.majorLev ELSE rc.altLev
minPositionSize(s) == IF s \in Majors THEN 60 ELSE 12
Leverage(d) == OrElse(d.lev, 1)

(* An order without a price, or without a quantity, is not measured. *)
Priced(d) == d.qty > 0 /\ d.price > 0
Notional(d) == d.qty * d.price

BigEnough(d) == Priced(d) => Notional(d) >= minPositionSize(d.symbol)

WithinRatio(rc, balance, d) ==
  (balance > 0 /\ Priced(d)) => Notional(d) <= Ratio(rc, d.symbol) * balance

(* marginNeeded is the notional * (1.01 / leverage + 0.001); the limit is  *)
(* usage percent of the balance.                                           *)
WithinMargin(rc, balance, d) ==
  (balance > 0 /\ Priced(d) /\ rc.usage > 0) =>
    Notional(d) * (1010 + Leverage(d)) <= 10 * rc.usage * balance * Leverage(d)

(* Over the limit the leverage is lowered, after the margin was computed.  *)
Capped(rc, d) ==
  IF MaxLev(rc, d.symbol) > 0 /\ Leverage(d) > MaxLev(rc, d.symbol)
  THEN [d EXCEPT !.lev = MaxLev(rc, d.symbol)] ELSE d

(* Mutant: the margin is not looked at. *)
FitsAnyMargin(rc, balance, d) == BigEnough(d) /\ WithinRatio(rc, balance, d)

Fits(rc, balance, d) ==
  /\ BigEnough(d)
  /\ WithinRatio(rc, balance, d)
  /\ WithinMargin(rc, balance, d)

(* Mutant: closings are judged as well. *)
JudgedLikeAll(d) == IsOpen(d) \/ IsClose(d)

(* Only what opens a position is judged. *)
Judged(d) == IsOpen(d)

(* Mutant: what is admitted does not count towards the limit. *)
AdmitUncounted(rc, balance, acc, d) ==
  IF ~Judged(d) THEN [acc EXCEPT !.out = Append(@, d)]
  ELSE IF acc.open < MaxPositions(rc) /\ Fits(rc, balance, d)
       THEN [acc EXCEPT !.out = Append(@, Capped(rc, d))]
       ELSE acc

Admit(rc, balance, acc, d) ==
  IF ~Judged(d) THEN [acc EXCEPT !.out = Append(@, d)]
  ELSE IF acc.open < MaxPositions(rc) /\ Fits(rc, balance, d)
       THEN [out |-> Append(acc.out, Capped(rc, d)), open |-> acc.open + 1]
       ELSE acc

(* filterByRisk over the decisions; open rows are counted once, before.    *)
filterByRisk(rc, balance, decisions) ==
  LET after[n \in 0..Len(decisions)] ==
        IF n = 0 THEN [out |-> <<>>, open |-> RowCount]
        ELSE Admit(rc, balance, after[n-1], decisions[n])
  IN after[Len(decisions)].out

(* Mutant: in the order of the answer. *)
AsAnswered(decisions) == decisions

(* runCycle: closings first, the rest in order. *)
Sorted(acc, d) ==
  IF IsClose(d) THEN [acc EXCEPT !.closeFirst = Append(@, d)]
  ELSE [acc EXCEPT !.openActions = Append(@, d)]

ClosesFirst(decisions) ==
  LET split[n \in 0..Len(decisions)] ==
        IF n = 0 THEN [closeFirst |-> <<>>, openActions |-> <<>>]
        ELSE Sorted(split[n-1], decisions[n])
  IN split[Len(decisions)].closeFirst \o split[Len(decisions)].openActions

Greater(a, b) == IF a > b THEN a ELSE b

(* The strategy is read again here; it may not be the one of the prompt.   *)
Filter ==
  /\ cycle.pc = "filter"
  /\ LET rc == strategyConfig(risk)
         passed == filterByRisk(rc, cycle.balance, cycle.todo)
     IN IF passed = <<>> THEN EndCycle
        ELSE cycle' = [cycle EXCEPT !.pc = "execute", !.risk = rc,
                         !.todo = ClosesFirst(passed),
                         !.room = Greater(RowCount, MaxPositions(rc))]
  /\ UNCHANGED <<risk, openRows, peak, daily>>

-----------------------------------------------------------------------------
(* The orders *)

(* execute: an order that fails is passed over. *)
ExecuteNext(filled) ==
  LET d == Head(cycle.todo) IN
  /\ cycle.pc = "execute"
  /\ \/ /\ IsOpen(d) /\ filled
        /\ RowCount < MaxRows
        /\ openRows' = [openRows EXCEPT ![d.symbol] = @ + 1]
        /\ UNCHANGED daily
     \/ IsClose(d) /\ filled /\ Settle(d.symbol)
     \/ ~filled /\ UNCHANGED <<openRows, daily>>
  /\ IF Len(cycle.todo) = 1 THEN EndCycle
     ELSE cycle' = [cycle EXCEPT !.todo = Tail(@),
                      !.tried = @ + (IF IsClose(d) THEN 1 ELSE 0),
                      !.opened = @ \/ IsOpen(d)]
  /\ UNCHANGED <<risk, peak>>

(* The engine is stopped: the rest of the orders is not sent. *)
Stopped ==
  /\ cycle.pc = "execute"
  /\ EndCycle
  /\ UNCHANGED <<risk, openRows, peak, daily>>

-----------------------------------------------------------------------------
(* The others *)

(* positionBuilder backfills a row. *)
OtherOpens(s) ==
  /\ RowCount < MaxRows
  /\ cycle.room < MaxRows
  /\ openRows' = [openRows EXCEPT ![s] = @ + 1]
  /\ cycle' = [cycle EXCEPT !.room = IF cycle.pc = "execute" THEN @ + 1 ELSE @]
  /\ UNCHANGED <<risk, peak, daily>>

(* positionBuilder or the API closes one. *)
OtherCloses(s) ==
  /\ openRows[s] > 0
  /\ Settle(s)
  /\ UNCHANGED <<risk, peak, cycle>>

EditStrategy(rc) ==
  /\ risk' = rc
  /\ UNCHANGED <<openRows, peak, daily, cycle>>

DecisionsNext ==
  \/ \E found \in BOOLEAN : BeginCycle(found)
  \/ \E equity \in Equities, held \in SUBSET Symbols : ReadAccount(equity, held)
  \/ AccountFails
  \/ \E filled \in BOOLEAN : GuardNext(filled) \/ ExecuteNext(filled)
  \/ ModelMissing
  \/ \E answers \in [DOMAIN Sources -> Candles] : Ask(answers)
  \/ ChatFails
  \/ \E answer \in Answers : ChatAnswers(answer)
  \/ Filter
  \/ Stopped
  \/ \E s \in Symbols : OtherOpens(s) \/ OtherCloses(s)
  \/ \E rc \in RiskControls : EditStrategy(rc)

DecisionsSpec == DecisionsInit /\ [][DecisionsNext]_decisionVars

-----------------------------------------------------------------------------
DecisionsTypeOK ==
  /\ risk \in RiskControls
  /\ openRows \in [Symbols -> 0..MaxRows]
  /\ peak.first <= peak.top
  /\ cycle.pc \in {"idle", "account", "guard", "decide", "asking", "filter", "execute"}
  /\ cycle.pc \in {"guard", "execute"} => cycle.todo # <<>>

(* risk.go:54: whatever a cycle opens, it leaves no more rows than the     *)
(* limit in force when it was filtered, or than there were, give or take   *)
(* the rows that order sync adds meanwhile.                                *)
OpensWithinLimit ==
  [][cycle.pc = "execute" => RowCount' <= Greater(cycle.room, cycle'.room)]_decisionVars

(* engine.go:326: orders come only of an answer that was read in full, and *)
(* of the answer the decision record shows: each is in it, at no more      *)
(* leverage, and no closing of the record is left out by the risk filter.  *)
From(d, e) == d = [e EXCEPT !.lev = d.lev] /\ d.lev <= Leverage(e)
RecordTellsOrders ==
  cycle.pc = "execute" =>
    /\ cycle.record.success
    /\ \A i \in DOMAIN cycle.todo :
         \E j \in DOMAIN cycle.record.decisions : From(cycle.todo[i], cycle.record.decisions[j])
    /\ Cardinality(Closings(cycle.record.decisions)) =
         cycle.tried + Cardinality(Closings(cycle.todo))

(* engine.go:222: once a cycle has tried to open it has no closing left.   *)
ClosesComeFirst ==
  cycle.pc = "execute" /\ cycle.opened => Closings(cycle.todo) = {}

(* risk.go:77: an order takes no more of the balance as margin than the    *)
(* limit, at the leverage it is sent with, unless that was lowered.        *)
(* (dto/strategy.go:79 makes no such reservation.)                         *)
MarginUnlessCapped ==
  cycle.pc = "execute" =>
    \A i \in DOMAIN cycle.todo :
      IsOpen(cycle.todo[i]) =>
        \/ WithinMargin(cycle.risk, cycle.balance, cycle.todo[i])
        \/ cycle.todo[i].lev = MaxLev(cycle.risk, cycle.todo[i].symbol)

(* What a cycle sends obeys the risk control it was filtered by, and is    *)
(* what the record of the cycle tells.                                     *)
OrdersFollowRules ==
  /\ [](RecordTellsOrders /\ ClosesComeFirst /\ MarginUnlessCapped)
  /\ OpensWithinLimit

(* kernel/indicators.go:13, "the candles come in ascending order, the      *)
(* provider has seen to it".                                               *)
CandlesAscend == cycle.market \subseteq {"ascending"}
==============================================================================
