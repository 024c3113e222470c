------------------------------- MODULE MCTrading -------------------------------
(***************************************************************************)
(* The TLC instance of the venues that orders are sent to, of a trader     *)
(* whose starts and stops come one at a time, and of a book of positions   *)
(* that everybody writes.  A behaviour is of one of them, its scene; the   *)
(* others rest.  The venues have two scenes: in "orders" two callers meet, *)
(* in "sizes" the quantities differ.                                       *)
(***************************************************************************)
EXTENDS Venues, TraderLifecycle, PositionBook, TLC

(* Model values: goroutines, order-sync ones too, and runners; a           *)
(* configuration.                                                          *)
CONSTANTS c1, c2, k1

VARIABLE scene

tradingVars == <<scene, venueVars, vars, bookVars>>

Scenes == {"orders", "sizes", "trader", "book"}

(* Two callers ask for a lot and a half, of an account that holds two lots *)
(* of a side at most.  Bybit and KuCoin are left to "sizes", to bound the  *)
(* states.                                                                 *)
Starting(c) == caller[c].pc = "idle" /\ caller'[c].pc = "leverage"
OneSize ==
  /\ \A c \in Callers : Starting(c) => caller'[c].order.qty = 3
  /\ \A s \in PosSides : holds'[s] <= 4

(* One caller at a time. *)
OneCaller == Cardinality({c \in Callers : caller'[c] # Idle}) <= 1

TradingInit ==
  /\ scene \in Scenes
  /\ VenueInit
  /\ scene = "orders" => venue \notin {"bybit", "kucoin"}
  /\ scene \notin {"orders", "sizes"} => venue = "gate" /\ mode = "net"
  /\ Init
  /\ scene # "trader" => config = k1
  /\ BookInit

TradingNext ==
  /\ UNCHANGED scene
  /\ IF scene \in {"orders", "sizes"} THEN VenueNext ELSE UNCHANGED venueVars
  /\ scene = "orders" => OneSize
  /\ scene = "sizes" => OneCaller
  /\ IF scene = "trader" THEN Next ELSE UNCHANGED vars
  /\ IF scene = "book" THEN BookNext ELSE UNCHANGED bookVars

TradingSpec == TradingInit /\ [][TradingNext]_tradingVars

-----------------------------------------------------------------------------
(* The type invariants of the venues and of the trader.                    *)
TypesOK == VenueTypeOK /\ TypeOK

(* Goroutines and runners are interchangeable. *)
Symmetry == Permutations({c1, c2})
================================================================================
