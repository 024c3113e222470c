------------------------------- MODULE Listings -------------------------------
(***************************************************************************)
(* The paged lists of the data API: decisions, fills, orders and closed    *)
(* positions, newest first, while the traders go on adding rows            *)
(* (handler/data.go, data_svc.go, the lists of the store).                 *)
(*                                                                         *)
(* A client walks a list from its first page to the last, as told by       *)
(* total_pages.  A page is two reads of the store, the rows and the total, *)
(* with other writers between them.                                        *)
(***************************************************************************)
EXTENDS Integers, Sequences, FiniteSets, SequencesExt

CONSTANTS
  Traders,    \* traders; a page may be of one or of all of a user's
  Users,      \* their owners
  NoUser,     \* the owner of a trader that has none
  AllTraders, \* no trader_id in the query
  Walker,     \* the user whose client walks a list
  Size,       \* rows of a page
  MaxLedger   \* bound on the rows of a table

ASSUME ListingsAssumption ==
  /\ AllTraders \notin Traders
  /\ Walker \in Users
  /\ NoUser \notin Users
  /\ Size \in Nat \ {0}
  /\ MaxLedger \in Nat

VARIABLES
  holder, \* store: the user of each trader, if it has one
  ledger, \* store: the table, oldest first: the trader of each row
  walk    \* the client's walk

listingVars == <<holder, ledger, walk>>

Kinds == {"decisions", "trades", "orders", "history"}

(* got: rows it has seen; goal: history, rows there were when it began.    *)
NoWalk == [pc |-> "idle", kind |-> "trades", trader |-> AllTraders, page |-> 0,
           pages |-> 0, total |-> 0, got |-> {}, goal |-> {}, added |-> 0]

ListingsInit ==
  /\ holder \in [Traders -> Users \cup {NoUser}]
  /\ ledger = <<>>
  /\ walk = NoWalk

(* Mutant: without a trader the list is everybody's. *)
MatchesAll(i, trader) == IF trader = AllTraders THEN TRUE ELSE ledger[i] = trader

(* The filter of every list: a trader's rows, or those of the user's.      *)
Matches(i, trader) ==
  IF trader = AllTraders THEN holder[ledger[i]] = Walker ELSE ledger[i] = trader

(* Row numbers, newest first: Place says where a row stands.               *)
Listed(trader) == {i \in DOMAIN ledger : Matches(i, trader)}
Place(i, trader) == Cardinality({j \in Listed(trader) : j >= i})
NewestFirst(trader) ==
  [n \in 1..Cardinality(Listed(trader)) |->
     CHOOSE i \in Listed(trader) : Place(i, trader) = n]

Slice(list, offset) ==
  SubSeq(list, offset + 1, IF offset + Size < Len(list) THEN offset + Size ELSE Len(list))

(* ListDecisionsByTrader and ListPositionHistory take offset and limit;    *)
(* Trades and Orders cut the whole list.                                   *)
ListDecisionsByTrader(trader, offset) == Slice(NewestFirst(trader), offset)
ListPositionHistory(trader, offset)   == Slice(NewestFirst(trader), offset)
Trades(trader, page) == Slice(NewestFirst(trader), (page - 1) * Size)
Orders(trader, page) == Slice(NewestFirst(trader), (page - 1) * Size)

(* CountDecisions takes the user and does not look at it. *)
CountDecisions(trader) ==
  IF trader = AllTraders THEN Len(ledger) ELSE Cardinality(Listed(trader))
CountPositionHistory(trader) == Cardinality(Listed(trader))
CountTrades(trader) == Cardinality(Listed(trader))
CountOrders(trader) == Cardinality(Listed(trader))

Total(kind, trader) ==
  CASE kind = "decisions" -> CountDecisions(trader)
    [] kind = "trades"    -> CountTrades(trader)
    [] kind = "orders"    -> CountOrders(trader)
    [] kind = "history"   -> CountPositionHistory(trader)

(* authorizeTrader: all of the caller's, or one of the caller's or of      *)
(* nobody's.                                                               *)
Authorized(trader) == IF trader = AllTraders THEN TRUE ELSE holder[trader] \in {Walker, NoUser}

TotalPages(total) == IF total = 0 THEN 1 ELSE (total + Size - 1) \div Size

-----------------------------------------------------------------------------
(* Mutant: the other lists count first as well. *)
CountsFirstAlways(kind) == TRUE

(* DataService.Decisions counts before it lists; the others after.         *)
CountsFirst(kind) == kind = "decisions"

AskPage(kind, trader, page) ==
  IF Authorized(trader)
  THEN walk' = [walk EXCEPT !.pc = IF CountsFirst(kind) THEN "count" ELSE "list",
                  !.kind = kind, !.trader = trader, !.page = page]
  ELSE walk' = NoWalk

BeginWalk(kind, trader) ==
  /\ walk.pc = "idle"
  /\ Authorized(trader)
  /\ walk' = [NoWalk EXCEPT !.pc = IF CountsFirst(kind) THEN "count" ELSE "list",
                !.kind = kind, !.trader = trader, !.page = 1, !.goal = Listed(trader)]
  /\ UNCHANGED <<holder, ledger>>

Page ==
  LET from == (walk.page - 1) * Size IN
  CASE walk.kind = "decisions" ->
         (* an offset past the total just read becomes the total *)
         ListDecisionsByTrader(walk.trader, IF from > walk.total THEN walk.total ELSE from)
    [] walk.kind = "trades"  -> Trades(walk.trader, walk.page)
    [] walk.kind = "orders"  -> Orders(walk.trader, walk.page)
    [] walk.kind = "history" -> ListPositionHistory(walk.trader, from)

ReadRows ==
  /\ walk.pc = "list"
  /\ walk' = [walk EXCEPT !.pc = IF CountsFirst(walk.kind) THEN "next" ELSE "count",
                !.got = @ \cup ToSet(Page)]
  /\ UNCHANGED <<holder, ledger>>

ReadTotal ==
  /\ walk.pc = "count"
  /\ LET total == Total(walk.kind, walk.trader) IN
     walk' = [walk EXCEPT !.pc = IF CountsFirst(walk.kind) THEN "list" ELSE "next",
                !.total = total, !.pages = TotalPages(total)]
  /\ UNCHANGED <<holder, ledger>>

(* The client asks for the next page until it has had the last. *)
NextPage ==
  /\ walk.pc = "next"
  /\ IF walk.page < walk.pages
     THEN AskPage(walk.kind, walk.trader, walk.page + 1)
     ELSE walk' = [walk EXCEPT !.pc = "done"]
  /\ UNCHANGED <<holder, ledger>>

Forget ==
  /\ walk.pc = "done"
  /\ walk' = NoWalk
  /\ UNCHANGED <<holder, ledger>>

(* The loop records a decision, the sync a fill or an order, a position is *)
(* closed.                                                                 *)
AddRow(t) ==
  /\ Len(ledger) < MaxLedger
  /\ ledger' = Append(ledger, t)
  /\ walk' = IF walk.pc \in {"idle", "done"} THEN walk ELSE [walk EXCEPT !.added = @ + 1]
  /\ UNCHANGED holder

ListingsNext ==
  \/ \E kind \in Kinds, trader \in Traders \cup {AllTraders} : BeginWalk(kind, trader)
  \/ ReadRows
  \/ ReadTotal
  \/ NextPage
  \/ Forget
  \/ \E t \in Traders : AddRow(t)

ListingsSpec == ListingsInit /\ [][ListingsNext]_listingVars

-----------------------------------------------------------------------------
ListingsTypeOK ==
  /\ walk.pc \in {"idle", "count", "list", "next", "done"}
  /\ walk.got \subseteq DOMAIN ledger
  /\ walk.goal \subseteq DOMAIN ledger
  /\ walk.page <= MaxLedger + 1

(* data_svc.go:107: a client that reads a list to its last page has seen   *)
(* every row there was when it began, whatever is added meanwhile; of      *)
(* decisions, whose total is older than their rows, it may miss as many as *)
(* were added.                                                             *)
WalkMissesNothing ==
  walk.pc = "done" =>
    Cardinality(walk.goal \ walk.got) <= (IF walk.kind = "decisions" THEN walk.added ELSE 0)

(* handler/data.go:28: no page shows a row of somebody else's trader.      *)
OwnRowsOnly == \A i \in walk.got : holder[ledger[i]] \in {Walker, NoUser}

(* A walk through a list shows its client all of it, and nothing of others. *)
WalkShowsOwnRows == WalkMissesNothing /\ OwnRowsOnly
==============================================================================
