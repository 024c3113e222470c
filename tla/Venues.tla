------------------------------- MODULE Venues -------------------------------
(***************************************************************************)
(* The exchange adapters: what each of them sends for an order, what it    *)
(* makes of the answers, and what that does to an account which other      *)
(* clients and its owner trade at the same time.  One account at one venue *)
(* is modelled, in one contract; the venue is chosen in Init.              *)
(*                                                                         *)
(* The venue is external.  In "net" mode an account holds a long or a      *)
(* short position and orders name no side; in "hedge" mode it may hold     *)
(* both and every order names one; an order of the other form is refused.  *)
(* A reduce-only order is cut to the position it is against, so that it    *)
(* never adds.                                                             *)
(* Quantities are half lots (two units make a lot), so that rounding shows;*)
(* they are floats in the code, and where that shows a definition says so. *)
(***************************************************************************)
EXTENDS Integers, FiniteSets

CONSTANTS
  VenueNames, \* the adapters in use
  Callers,    \* goroutines that trade the account through an adapter each
  Amounts,    \* quantities that are asked for, in half lots
  Leverages,  \* leverages that are asked for; none is 0
  MaxHeld,    \* bound on the holdings, in half lots
  MaxResting, \* bound on the conditional orders that wait
  Figures,    \* at Hyperliquid a quantity is at most so many of its units...
  Scales      \* ... which are these: 100000, and the powers of ten, in the code

Modelled == {"binance", "okx", "bybit", "gate", "kucoin", "bitget", "hyperliquid"}

ASSUME VenueAssumption ==
  /\ VenueNames \subseteq Modelled
  /\ Amounts \subseteq Nat \ {0}
  /\ Leverages \subseteq Nat \ {0}
  /\ MaxHeld \in Nat
  /\ MaxResting \in Nat
  /\ Figures \in Nat
  /\ Scales \subseteq Nat \ {0}
  /\ \A q \in Amounts \cup 1..MaxHeld : \E u \in Scales : q <= Figures * u

VARIABLES
  venue,   \* the type of the account's exchange
  mode,    \* position mode the owner has set: "net" or "hedge"
  holds,   \* venue: quantity held long and short
  lever,   \* venue: leverage of the contract
  resting, \* venue: conditional orders that wait for their trigger
  reported, \* what the fills add up to that GetFills has returned: bought less sold
  caller   \* what each caller's adapter is doing

venueVars == <<venue, mode, holds, lever, resting, reported, caller>>

PosSides == {"long", "short"}
Other(s) == IF s = "long" THEN "short" ELSE "long"

(* What a caller asks for: a kind, the position's side, a quantity, and a  *)
(* leverage.  engine.execute passes neither a stop nor a price.            *)
Asked(kind, pos, qty, lev) ==
  [kind |-> kind, pos |-> pos, qty |-> qty, lev |-> lev]

(* Opening a long or closing a short buys. *)
Direction(o) == IF (o.pos = "long") = (o.kind = "open") THEN "buy" ELSE "sell"
Closing(o) == o.kind # "open"

(* What goes over the wire: the direction, the side named ("net": none),   *)
(* whether it is marked reduce-only, and whether it waits for a trigger.   *)
Wire(dir, pos, reduce, waits) ==
  [dir |-> dir, pos |-> pos, reduce |-> reduce, waits |-> waits]

Absolute(n) == IF n < 0 THEN -n ELSE n

-----------------------------------------------------------------------------
(* The orders each adapter sends.  Kind "stop" is SetStopLoss or           *)
(* SetTakeProfit with reduceOnly = true; they differ in the price only.    *)

Conditional(o) == o.kind = "stop"

(* Binance names the side of opens and closes, not of conditional orders. *)
BinanceOrder(o) ==
  Wire(Direction(o), IF Conditional(o) THEN "net" ELSE o.pos, Closing(o), Conditional(o))

(* OKX: a close is a trade against the named side, never reduce-only; the  *)
(* conditional orders ignore reduceOnly and name no side.                  *)
OKXOrder(o) ==
  Wire(Direction(o), IF Conditional(o) THEN "net" ELSE o.pos, FALSE, Conditional(o))

(* Bybit: posIdx names the side.  posIdxFromSide compares with "Buy" and   *)
(* "Sell"; the callers' "buy" and "sell" give index 0, and a conditional   *)
(* order is an order at market that carries a stop price.                  *)
BybitOrder(o) ==
  Wire(Direction(o), IF Conditional(o) THEN "net" ELSE o.pos, Closing(o), FALSE)

(* Gate: the sign of the size is the direction; conditional orders ignore  *)
(* reduceOnly.                                                             *)
GateOrder(o) ==
  Wire(Direction(o), "net", o.kind = "close", Conditional(o))

(* Mutant: a close is not marked. *)
KuCoinUnmarked(o) == Wire(Direction(o), "net", Conditional(o), Conditional(o))

(* KuCoin: closeOrder marks a close. *)
KuCoinOrder(o) ==
  Wire(Direction(o), "net", Closing(o), Conditional(o))

(* Bitget derives the direction from the side alone: open_long and         *)
(* close_long buy, open_short and close_short sell.  The conditional       *)
(* orders pass the direction they are given.                               *)
BitgetOrder(o) ==
  Wire(IF Conditional(o) THEN Direction(o)
       ELSE IF o.pos = "long" THEN "buy" ELSE "sell",
       "net", Closing(o), Conditional(o))

HyperliquidOrder(o) == Wire(Direction(o), "net", Closing(o), FALSE)

Sends(o) ==
  CASE venue = "binance" -> BinanceOrder(o)
    [] venue = "okx" -> OKXOrder(o)
    [] venue = "bybit" -> BybitOrder(o)
    [] venue = "gate" -> GateOrder(o)
    [] venue = "kucoin" -> KuCoinOrder(o)
    [] venue = "bitget" -> BitgetOrder(o)
    [] OTHER -> HyperliquidOrder(o)

(* SetStopLoss and SetTakeProfit are not implemented by Hyperliquid. *)
Implements(o) == ~ (venue = "hyperliquid" /\ Conditional(o))

(* Conditional orders are sent without FormatQuantity, except by Gate. *)
Formats(o) == ~ Conditional(o) \/ venue = "gate"

(* Floats: a power of two times the step is divided by it without error,   *)
(* any other quotient may come out below its value (0.3 / 0.1 is 2.99...). *)
PowerOfTwo(q) == \E n \in 0..q : q = 2 ^ n
MayLose(q) == ~ PowerOfTwo(q)

(* FormatOKX and FormatGate: floor of a float, which is a whole number of  *)
(* lots or is not.                                                         *)
FloorToLot(q) == 2 * (q \div 2)

(* Mutant: the quotient is rounded up. *)
CeilOfQuotient(q) == {FloorToLot(q + 1)}

(* FormatBinance, FormatBybit and FormatBitget take the floor of a         *)
(* quotient (Bitget: of a product with a power of ten): a quantity of      *)
(* whole lots may lose one of them.                                        *)
FloorOfQuotient(q) ==
  {FloorToLot(q)} \cup (IF q % 2 = 0 /\ MayLose(q) THEN {q - 2} ELSE {})

(* FormatKuCoin rounds the quotient; half a lot goes up, or down where the *)
(* quotient comes out below it.                                            *)
RoundToLot(q) == 2 * ((q + 1) \div 2)
RoundOfQuotient(q) ==
  {RoundToLot(q)} \cup (IF q % 2 = 1 /\ MayLose(q) THEN {q - 1} ELSE {})

(* FormatHyperliquid keeps five figures: the least unit of which q has no  *)
(* more than Figures, and the nearest multiple of it, above q or below.    *)
Unit(u, q) ==
  /\ u \in Scales
  /\ q <= Figures * u
  /\ \A v \in Scales : q <= Figures * v => u <= v
Nearest(q, u) == {v \in {u * (q \div u), u * (q \div u) + u} : 2 * Absolute(v - q) <= u}
FiveFigures(q) ==
  IF q <= 0 THEN {0} ELSE UNION {Nearest(q, u) : u \in {w \in Scales : Unit(w, q)}}

(* formatQty: what a quantity may be formatted to. *)
FormatQuantity(q) ==
  CASE venue = "kucoin" -> RoundOfQuotient(q)
    [] venue = "hyperliquid" -> FiveFigures(q)
    [] venue \in {"okx", "gate"} -> {FloorToLot(q)}
    [] OTHER -> FloorOfQuotient(q)

(* Gate's placeOrder does not set the leverage, Hyperliquid's SetLeverage  *)
(* does nothing.                                                           *)
SetsLeverage(o) == o.lev > 0 /\ venue \notin {"gate", "hyperliquid"} /\ ~ Conditional(o)

-----------------------------------------------------------------------------
(* The venue *)

(* An order w of q units: the quantity it would fill against position s.   *)
Cut(q, s) == IF q <= holds[s] THEN q ELSE holds[s]

(* Holdings after a trade in net mode: first against the opposite side. *)
Bought(dir) == IF dir = "buy" THEN "long" ELSE "short"
Netted(dir, q) ==
  LET s == Bought(dir)
      c == Cut(q, Other(s))
  IN  [holds EXCEPT ![Other(s)] = @ - c, ![s] = @ + (q - c)]

Adds(w, s) == Bought(w.dir) = s

(* What the account holds after w is executed; the same if it is refused. *)
After(w, q) ==
  CASE ~ (w.pos = "net" <=> mode = "net") -> holds
    [] w.pos = "net" /\ mode = "net" ->
         Netted(w.dir, IF w.reduce THEN Cut(q, Other(Bought(w.dir))) ELSE q)
    [] w.pos # "net" /\ mode # "net" /\ Adds(w, w.pos) ->
         IF w.reduce THEN holds ELSE [holds EXCEPT ![w.pos] = @ + q]
    [] OTHER -> [holds EXCEPT ![w.pos] = @ - Cut(q, w.pos)]

Fits(h) == h["long"] <= MaxHeld /\ h["short"] <= MaxHeld

-----------------------------------------------------------------------------
(* What the adapters make of the venue's listings *)

Position(pos, qty) == [pos |-> pos, qty |-> qty]
Signed(s) == IF s = "short" THEN -holds[s] ELSE holds[s]
SideOf(n) == IF n < 0 THEN "short" ELSE "long"
BySign(s) == Position(SideOf(Signed(s)), Absolute(Signed(s)))

BinancePosition(s) == BySign(s)
GatePosition(s) == BySign(s)
KuCoinPosition(s) == BySign(s)
HyperliquidPosition(s) == BySign(s)

(* Mutant: any side that is not the word "short" is long. *)
BybitMisread(s) == Position("long", holds[s])

(* Bybit lists "Buy" or "Sell" and the size, Bitget holdSide and the total. *)
BybitPosition(s) == Position(IF s = "short" THEN "short" ELSE "long", holds[s])
BitgetPosition(s) == Position(s, holds[s])

(* OKX labels the row "net" in net mode and signs the amount; the adapter  *)
(* looks at the label only.                                                *)
OKXPosition(s) ==
  IF mode = "net" THEN Position("long", Signed(s)) ELSE Position(s, holds[s])

PositionOf(s) ==
  CASE venue = "binance" -> BinancePosition(s)
    [] venue = "okx" -> OKXPosition(s)
    [] venue = "bybit" -> BybitPosition(s)
    [] venue = "gate" -> GatePosition(s)
    [] venue = "kucoin" -> KuCoinPosition(s)
    [] venue = "bitget" -> BitgetPosition(s)
    [] OTHER -> HyperliquidPosition(s)

(* How the venue lists an execution of n units, sold if n < 0: a word of   *)
(* its own for the side, and the size, which is signed at Gate.            *)
Listing(side, size) == [side |-> side, size |-> size]
Listed(n) ==
  LET word(b, s) == IF n < 0 THEN s ELSE b IN
  CASE venue = "binance" -> Listing(word("BUY", "SELL"), Absolute(n))
    [] venue = "bybit" -> Listing(word("Buy", "Sell"), Absolute(n))
    [] venue = "gate" -> Listing("", n)
    [] venue = "hyperliquid" -> Listing(word("B", "A"), Absolute(n))
    [] OTHER -> Listing(word("buy", "sell"), Absolute(n))

(* What the adapters' GetFills make of it.  strings.ToLower: *)
Lower(w) == CASE w \in {"BUY", "Buy"} -> "buy" [] w \in {"SELL", "Sell"} -> "sell" [] OTHER -> w

Fill(side, qty) == [side |-> side, qty |-> qty]
BinanceFill(l) == Fill(Lower(l.side), l.size)
BybitFill(l) == Fill(Lower(l.side), l.size)
OKXFill(l) == Fill(l.side, l.size)
KuCoinFill(l) == Fill(l.side, l.size)
BitgetFill(l) == Fill(l.side, l.size)
GateFill(l) == Fill(IF l.size < 0 THEN "sell" ELSE "buy", Absolute(l.size))

(* Mutant: the asks are looked for under another letter. *)
HyperliquidMisread(l) == Fill(IF l.side = "S" THEN "sell" ELSE "buy", l.size)

(* Hyperliquid: "A" sold, anything else bought. *)
HyperliquidFill(l) == Fill(IF l.side = "A" THEN "sell" ELSE "buy", l.size)

FillOf(l) ==
  CASE venue = "binance" -> BinanceFill(l)
    [] venue = "okx" -> OKXFill(l)
    [] venue = "bybit" -> BybitFill(l)
    [] venue = "gate" -> GateFill(l)
    [] venue = "kucoin" -> KuCoinFill(l)
    [] venue = "bitget" -> BitgetFill(l)
    [] OTHER -> HyperliquidFill(l)

(* positionBuilder takes any fill whose side is not "sell" for a buy. *)
Learned(f) == IF f.side = "sell" THEN -f.qty ELSE f.qty

(* The account comes to hold h: an execution, if anything was executed,    *)
(* which the order sync will be told of.                                   *)
Net(h) == h["long"] - h["short"]
Executes(h) ==
  /\ holds' = h
  /\ reported' = IF h = holds THEN reported
                 ELSE reported + Learned(FillOf(Listed(Net(h) - Net(holds))))

(* Rows with nothing held are skipped. *)
GetPositions == {PositionOf(s) : s \in {s \in PosSides : holds[s] > 0}}

-----------------------------------------------------------------------------
(* The callers: goroutines of traders that share the account *)

Idle == [pc |-> "idle", todo |-> {}, order |-> Asked("open", "long", 1, 0), qty |-> 0,
         calm |-> FALSE, levered |-> FALSE]

VenueInit ==
  /\ venue \in VenueNames
  /\ mode \in IF venue \in {"binance", "okx", "bybit"} THEN {"net", "hedge"} ELSE {"net"}
  /\ holds = [s \in PosSides |-> 0]
  /\ lever = 1
  /\ resting = {}
  /\ reported = 0
  /\ caller = [c \in Callers |-> Idle]

(* Someone else's trade: what the callers in D read is no longer so. *)
Disturbed(D) == [c \in Callers |-> IF c \in D THEN [caller[c] EXCEPT !.calm = FALSE]
                                   ELSE caller[c]]

Sized(o) == IF Formats(o) THEN FormatQuantity(o.qty) ELSE {o.qty}

(* Mutant: the quantity is judged before it is formatted. *)
JudgedUnformatted(o, q) == Implements(o) /\ o.qty > 0

(* Mutant: not everything is implemented, and all of it is sent. *)
AcceptsAny(o, q) == TRUE

(* placeOrder sends nothing when the formatted quantity is not positive. *)
Accepted(o, q) == Implements(o) /\ (Formats(o) => q > 0)

(* A call of the adapter begins: the quantity is formatted.  What it       *)
(* refuses, ErrParams or ErrNotImplemented, leaves no trace; no more does  *)
(* a failure to learn the lot.                                             *)
Begin(c, o, from) ==
  /\ \E q \in Sized(o) :
       /\ Accepted(o, q)
       /\ caller' = [caller EXCEPT ![c] =
            [from EXCEPT !.pc = "leverage", !.order = o, !.levered = FALSE, !.qty = q]]
  /\ UNCHANGED <<venue, mode, holds, lever, resting, reported>>

(* engine.execute, or SetStopLoss and SetTakeProfit of a position. *)
Decide(c) ==
  /\ caller[c].pc = "idle"
  /\ \E kind \in {"open", "close", "stop"}, pos \in PosSides,
        qty \in Amounts, lev \in Leverages \cup {0} :
       /\ (kind = "stop") = (lev = 0)
       /\ Begin(c, Asked(kind, pos, qty, lev), Idle)

(* runCycle reads the positions; the drawdown guard will close them all. *)
ReadPositions(c) ==
  /\ caller[c].pc = "idle"
  /\ GetPositions # {}
  /\ caller' = [caller EXCEPT ![c] = [Idle EXCEPT !.pc = "guard", !.calm = TRUE,
                                                 !.todo = GetPositions]]
  /\ UNCHANGED <<venue, mode, holds, lever, resting, reported>>

(* The guard closes the next position it has read, or goes past it.        *)
GuardCloses(c) ==
  /\ caller[c].pc = "guard"
  /\ \E p \in caller[c].todo :
       LET o == Asked("close", p.pos, p.qty, 0)
           rest == [caller[c] EXCEPT !.todo = @ \ {p}]
       IN  \/ Begin(c, o, rest)
           \/ /\ caller' = [caller EXCEPT ![c] =
                   IF rest.todo = {} THEN Idle ELSE [rest EXCEPT !.calm = FALSE]]
              /\ UNCHANGED <<venue, mode, holds, lever, resting, reported>>

(* Mutant: what is sent is capped. *)
LeverageCapped(o) == IF o.lev > 2 THEN 2 ELSE o.lev

LeverageSent(o) == o.lev

(* The leverage is set first, for all of the account's contract; an error  *)
(* is ignored.                                                             *)
SetLeverage(c) ==
  /\ caller[c].pc = "leverage"
  /\ LET o == caller[c].order IN
     \/ /\ SetsLeverage(o)
        /\ lever' = LeverageSent(o)
        /\ caller' = [d \in Callers |->
             IF d = c THEN [caller[c] EXCEPT !.pc = "post", !.levered = TRUE]
             ELSE [caller[d] EXCEPT !.levered = FALSE]]
     \/ /\ caller' = [caller EXCEPT ![c].pc = "post"]
        /\ UNCHANGED lever
  /\ UNCHANGED <<venue, mode, holds, resting, reported>>

(* The guard goes on with what is left, or the call is over.  *)
Guarding(c, calm) ==
  IF caller[c].todo = {} THEN Idle
  ELSE [Idle EXCEPT !.pc = "guard", !.todo = caller[c].todo, !.calm = calm]
Returned(c) == Guarding(c, caller[c].calm)

(* The order is posted: it is executed or refused by its form, or becomes  *)
(* a conditional order.  The answer may be lost; nothing is sent again.    *)
Post(c) ==
  /\ caller[c].pc = "post"
  /\ LET o == caller[c].order
         w == Sends(o)
         q == caller[c].qty
     IN
     /\ IF w.waits
        THEN /\ Cardinality(resting) < MaxResting
             /\ resting' = resting \cup {[wire |-> w, qty |-> q, asked |-> o]}
             /\ caller' = [caller EXCEPT ![c] = Returned(c)]
             /\ UNCHANGED <<holds, reported>>
        ELSE /\ Fits(After(w, q))
             /\ Executes(After(w, q))
             /\ caller' = [Disturbed(Callers \ {c}) EXCEPT ![c] = Returned(c)]
             /\ UNCHANGED resting
  /\ UNCHANGED <<venue, mode, lever>>

(* The request fails, or the venue refuses it for reasons of its own. *)
PostFails(c) ==
  /\ caller[c].pc = "post"
  /\ caller' = [caller EXCEPT ![c] = Guarding(c, FALSE)]
  /\ UNCHANGED <<venue, mode, holds, lever, resting, reported>>

(* A conditional order triggers, long after the position it was for.       *)
Trigger ==
  /\ \E r \in resting :
       /\ Fits(After(r.wire, r.qty))
       /\ Executes(After(r.wire, r.qty))
       /\ resting' = resting \ {r}
       /\ caller' = Disturbed(Callers)
  /\ UNCHANGED <<venue, mode, lever>>

(* The owner trades whole lots by hand. *)
OwnerTrades ==
  /\ \E dir \in {"buy", "sell"}, pos \in PosSides :
       LET w == Wire(dir, IF mode = "net" THEN "net" ELSE pos, FALSE, FALSE) IN
       /\ Fits(After(w, 2))
       /\ Executes(After(w, 2))
  /\ caller' = Disturbed(Callers)
  /\ UNCHANGED <<venue, mode, lever, resting>>

VenueNext ==
  \/ \E c \in Callers :
       \/ Decide(c) \/ ReadPositions(c) \/ GuardCloses(c)
       \/ SetLeverage(c) \/ Post(c) \/ PostFails(c)
  \/ Trigger
  \/ OwnerTrades

VenueSpec == VenueInit /\ [][VenueNext]_venueVars

-----------------------------------------------------------------------------
(* Properties *)

AskedOrders == [kind : {"open", "close", "stop"}, pos : PosSides,
                qty : Nat, lev : Nat]

VenueTypeOK ==
  /\ venue \in VenueNames
  /\ mode \in {"net", "hedge"}
  /\ holds \in [PosSides -> 0..MaxHeld]
  /\ mode = "net" => (holds["long"] = 0 \/ holds["short"] = 0)
  /\ lever \in Nat
  /\ reported \in Int
  /\ \A c \in Callers :
       /\ caller[c].pc \in {"idle", "guard", "leverage", "post"}
       /\ caller[c].order \in AskedOrders
  /\ \A r \in resting : r.wire.waits /\ r.asked \in AskedOrders

(* Orders whose reduceOnly the adapter drops. *)
DropsReduceOnly(o) == venue \in {"okx", "gate"} /\ Conditional(o)

(* A close, and a stop or take that was asked to be reduce-only, never     *)
(* adds to a position or opens the opposite one, though the position may   *)
(* have shrunk, gone or turned since its amount was read or the            *)
(* conditional order was placed.  (OKX's and Gate's conditional orders do  *)
(* not keep this: their adapters drop the flag.)                           *)
ReducesOnly(o) == o.kind # "open" /\ ~ DropsReduceOnly(o)
Posts(c) == caller[c].pc = "post" /\ caller'[c].pc # "post"
ReduceOnlyHolds ==
  [][ (\/ \E c \in Callers : Posts(c) /\ ReducesOnly(caller[c].order)
       \/ \E r \in resting \ resting' : ReducesOnly(r.asked))
        => \A s \in PosSides : holds'[s] <= holds[s] ]_venueVars

(* What is sent is never nothing.  It falls short of what was asked for by *)
(* less than a lot, or by one lot where a quotient of floats loses it;     *)
(* only at KuCoin and at Hyperliquid is it ever more, by half a lot and by *)
(* half of the fifth figure.  A conditional order is sent as it is, except *)
(* by Gate.                                                                *)
Near(asked, sent) ==
  CASE venue = "kucoin" -> Absolute(sent - asked) <= 1
    [] venue = "hyperliquid" -> \E u \in Scales : Unit(u, asked) /\ 2 * Absolute(sent - asked) <= u
    [] venue \in {"okx", "gate"} -> sent <= asked /\ asked - sent < 2
    [] OTHER -> /\ sent <= asked
                /\ asked - sent <= 2
                /\ asked - sent = 2 => MayLose(asked)
SentAsAsked(c) ==
  caller[c].pc \in {"leverage", "post"} =>
    LET o == caller[c].order IN
    /\ caller[c].qty > 0
    /\ IF Formats(o) THEN Near(o.qty, caller[c].qty) ELSE caller[c].qty = o.qty

(* Where the adapter's closes can be executed: not at Bitget, which closes *)
(* in the direction it opens, nor in the one-way mode of the venues whose  *)
(* adapters always name a side.                                            *)
ClosesWork ==
  /\ venue # "bitget"
  /\ venue \in {"binance", "okx", "bybit"} => mode = "hedge"

(* What a close of all of a side may leave of it. *)
Remnant(held, left) ==
  \/ left = 0
  \/ venue \in {"binance", "bybit"} /\ left <= 2
  \/ venue = "kucoin" /\ left <= 1
  \/ venue = "hyperliquid" /\ \E u \in Scales : Unit(u, held) /\ 2 * left <= u

(* The drawdown guard flattens (engine.go:186): when nobody else has       *)
(* traded the account since GetPositions and no request failed, then after *)
(* the last of its closes the account holds nothing on either side but     *)
(* what formatting the quantity has lost.                                  *)
GuardFlattens ==
  [][ \A c \in Callers :
        (ClosesWork /\ Post(c) /\ caller[c].calm /\ caller[c].todo = {})
          => \A s \in PosSides : Remnant(holds[s], holds'[s]) ]_venueVars

(* An order that opens is executed at the leverage it was asked to have,   *)
(* unless setting it failed or another caller has set its own in between.  *)
OpensAtItsLeverage ==
  [][ \A c \in Callers :
        (Posts(c) /\ caller[c].levered /\ holds' # holds)
          => lever = caller[c].order.lev ]_venueVars

(* An order goes out as it was asked for, its amount and its leverage, and *)
(* what the order sync is told comes back as it was executed: whoever      *)
(* traded, the fills add up to what the account holds.                     *)
OrdersAsAsked ==
  /\ []\A c \in Callers : SentAsAsked(c)
  /\ OpensAtItsLeverage
  /\ [](reported = Net(holds))

(* A closing only closes, and the guard's closings close everything.       *)
ClosingsClose == ReduceOnlyHolds /\ GuardFlattens
=============================================================================
