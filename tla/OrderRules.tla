------------------------------ MODULE OrderRules ------------------------------
(***************************************************************************)
(* What the order ticket of the web terminal lets through, against what    *)
(* the trading server takes: the kinds of order a click on the ladder      *)
(* means, stops and targets typed as a price, pips, a percentage or an     *)
(* amount of money, the rules of the ticket and those of the demo broker,  *)
(* while the quote moves between them.                                     *)
(* (frontend/src/domain: market/ladder.ts, orders/risk.ts, validation.ts,  *)
(* order-info.ts, common/decimal.ts; features: OrderTicketWidget.tsx,      *)
(* BracketInput.tsx; backend/cmd/demomarket/broker.go.)                    *)
(*                                                                         *)
(* Prices are whole points of the symbol's digits and volumes whole units. *)
(* The symbol's limits are known and the market is open.                   *)
(***************************************************************************)
EXTENDS Integers, FiniteSets

CONSTANTS
  Bids, Spread,
  TypedPrices, TypedVolumes, TypedStops, TypedTargets,  \* the inputs; a bracket is [unit, value]
  TickSize,      \* points in a step of the price
  TickValue,     \* money a lot unit gains in a step; 0 where the symbol does not tell
  PipPoints, Depth,
  VolumeMin, VolumeMax, VolumeStep,
  MarginFree,
  Empty          \* an empty field

\* The demo broker's smallest volume is one step (broker.go:33).
ASSUME RulesAssumption ==
  /\ Bids \subseteq Nat \ {0} /\ Spread \in Nat
  /\ Empty \notin Int /\ TypedPrices \subseteq Int \cup {Empty} /\ TypedVolumes \subseteq Int
  /\ VolumeMin \in Nat /\ VolumeMax \in Int /\ VolumeStep \in Nat \ {0} /\ VolumeMin % VolumeStep = 0
  /\ Depth \in Nat /\ MarginFree \in Int

VARIABLES
  form,     \* kind, price, volume, stop, target, and the side of the click on the ladder it comes from
  bid,
  sent        \* the order that was sent last, the quotes the two ends had, and the server's answer

ruleVars == <<form, bid, sent>>

Unclicked == "nowhere"
NoStop == [unit |-> "price", value |-> Empty]
NotSent == [answer |-> "none"]

Sides == {"buy", "sell"}
MarketPrice(side, b) == IF side = "buy" THEN b + Spread ELSE b
Below(side, a, b) == IF side = "buy" THEN a < b ELSE a > b

----------------------------------------------------------------------------
\* Stops and targets.

\* The nearest whole, a tie away from zero.
Rounded(num, den) == IF num >= 0 THEN (2 * num + den) \div (2 * den) ELSE -((den - 2 * num) \div (2 * den))
Snapped(num, den) == TickSize * Rounded(num, den * TickSize)
OnPriceStep(price) == price % TickSize = 0

\* A distance goes down from the entry of a buy to its stop and of a sell to its target.
Away(entry, side, which, num, den) ==
  Snapped(IF (which = "stop") = (side = "buy") THEN entry * den - num ELSE entry * den + num, den)

\* Empty where it cannot be converted: the field says so, and the order goes without it.
bracketToPrice(typed, entry, side, which, volume) ==
  LET v == typed.value
      value == volume * TickValue IN
  CASE v = Empty \/ entry = Empty -> Empty
    [] v < 0 -> Empty
    [] typed.unit = "price" -> v
    [] typed.unit = "pips" -> Away(entry, side, which, v * PipPoints, 1)
    [] typed.unit = "percent" -> Away(entry, side, which, v * entry, 100)
    [] value <= 0 -> Empty
    [] which = "stop" /\ side = "buy" /\ entry * value <= v * TickSize -> Empty
    [] which = "target" /\ side = "sell" /\ entry * value <= v * TickSize -> Empty
    [] OTHER -> Away(entry, side, which, v * TickSize, value)

----------------------------------------------------------------------------
\* The ticket.

EntryPrice(t, side, b) == IF t.kind = "market" THEN MarketPrice(side, b) ELSE t.price

Order(t, side, b) ==
  LET entry == EntryPrice(t, side, b) IN
  [kind |-> t.kind, side |-> side, volume |-> t.volume, price |-> entry,
   stop |-> bracketToPrice(t.stop, entry, side, "stop", t.volume),
   target |-> bracketToPrice(t.target, entry, side, "target", t.volume)]

VolumeIsFine(v) ==
  v > 0 /\ v >= VolumeMin /\ v <= VolumeMax /\ (v - VolumeMin) % VolumeStep = 0

\* A limit is not on the far side of the market, a stop not on the near side.
SideIsFine(o, b) ==
  CASE o.kind = "limit" -> ~Below(o.side, MarketPrice(o.side, b), o.price)
    [] o.kind = "stop" -> ~Below(o.side, o.price, MarketPrice(o.side, b))
    [] OTHER -> TRUE

PriceIsFine(o, b) ==
  /\ o.price # Empty /\ o.price > 0
  /\ o.kind # "market" => OnPriceStep(o.price) /\ SideIsFine(o, b)

\* mutant: the side of a stop is not looked at
OnStepOnly(o) == (o.stop # Empty => OnPriceStep(o.stop)) /\ (o.target # Empty => OnPriceStep(o.target))

BracketsAreFine(o) ==
  /\ o.stop # Empty => OnPriceStep(o.stop) /\ Below(o.side, o.stop, o.price)
  /\ o.target # Empty => OnPriceStep(o.target) /\ Below(o.side, o.price, o.target)

marginUsed(o) == o.volume * o.price

\* Either button asks for the margin of a purchase.
insufficientMargin(t, b) ==
  LET o == Order(t, "buy", b) IN o.price # Empty /\ VolumeIsFine(o.volume) /\ marginUsed(o) > MarginFree

canSubmit(t, side, b) ==
  LET o == Order(t, side, b) IN
  VolumeIsFine(o.volume) /\ PriceIsFine(o, b) /\ BracketsAreFine(o) /\ ~insufficientMargin(t, b)

----------------------------------------------------------------------------
\* The ladder.

buildLadder(b) == {p \in (b - Depth + 1)..b : p > 0} \cup (b + Spread)..(b + Spread + Depth - 1)

\* The kind of order a price means; none where it would be refused.
ladderKinds(side, price, b, forceStop) ==
  LET market == MarketPrice(side, b) IN
  CASE Below(side, market, price) -> {"stop"}
    [] Below(side, price, market) -> IF forceStop THEN {} ELSE {"limit"}
    [] OTHER -> {}

----------------------------------------------------------------------------
\* The demo broker.

\* Zero is no level.
stopsValid(o, price) ==
  /\ o.stop \in {Empty, 0} \/ Below(o.side, o.stop, price)
  /\ o.target \in {Empty, 0} \/ Below(o.side, price, o.target)

pendingPriceValid(o, b) ==
  /\ o.price > 0
  /\ IF o.kind = "limit" THEN Below(o.side, o.price, MarketPrice(o.side, b))
     ELSE Below(o.side, MarketPrice(o.side, b), o.price)

Judged(o, b) ==
  LET price == IF o.kind = "market" THEN MarketPrice(o.side, b) ELSE o.price IN
  CASE ~(o.volume \in VolumeMin..VolumeMax /\ o.volume % VolumeStep = 0) -> "volume"
    [] o.kind # "market" /\ ~pendingPriceValid(o, b) -> "price"
    [] ~stopsValid(o, price) -> "stops"
    [] o.kind = "market" /\ MarginFree < o.volume * price -> "margin"
    [] OTHER -> "done"

----------------------------------------------------------------------------

Edited(t) == form' = [t EXCEPT !.clicked = Unclicked] /\ sent' = NotSent /\ UNCHANGED bid

Type ==
  \/ \E k \in {"market", "limit", "stop"} : Edited([form EXCEPT !.kind = k])
  \/ \E p \in TypedPrices : form.kind # "market" /\ Edited([form EXCEPT !.price = p])
  \/ \E v \in TypedVolumes : Edited([form EXCEPT !.volume = v])
  \/ \E s \in TypedStops : Edited([form EXCEPT !.stop = s])
  \/ \E s \in TypedTargets : Edited([form EXCEPT !.target = s])

ClickLadder(side, price, forceStop) ==
  \E k \in ladderKinds(side, price, bid, forceStop) :
    /\ form' = [form EXCEPT !.kind = k, !.price = price, !.clicked = side]
    /\ sent' = NotSent /\ UNCHANGED bid

\* The order goes with the quote that is on the screen and is judged with one that may be newer.
SendOrder(side) ==
  /\ canSubmit(form, side, bid)
  /\ \E b \in Bids :
       sent' = [order |-> Order(form, side, bid), seen |-> bid, met |-> b, answer |-> Judged(Order(form, side, bid), b)]
  /\ UNCHANGED <<form, bid>>

QuoteMoves ==
  /\ bid' \in Bids
  /\ form' = [form EXCEPT !.clicked = Unclicked] /\ sent' = NotSent

----------------------------------------------------------------------------

RulesInit ==
  /\ form = [kind |-> "market", price |-> Empty, volume |-> VolumeMin, stop |-> NoStop, target |-> NoStop, clicked |-> Unclicked]
  /\ bid \in Bids /\ sent = NotSent

RulesNext ==
  \/ Type \/ QuoteMoves
  \/ \E side \in Sides : SendOrder(side)
  \/ \E side \in Sides, price \in buildLadder(bid), forceStop \in BOOLEAN : ClickLadder(side, price, forceStop)

RulesSpec == RulesInit /\ [][RulesNext]_ruleVars

----------------------------------------------------------------------------
\* Properties.

Unmoved == sent # NotSent /\ sent.seen = sent.met

\* What a click on the ladder means passes the ticket's rule for a price, if it is one that the
\* symbol trades in; and what the ticket lets through, in whatever unit it was typed, the server
\* takes as long as the quote has not moved, except an order that rests exactly at the market
\* (validation.ts:14, ladder.ts:98).
TicketAgreesWithTheServer ==
  /\ form.clicked # Unclicked /\ OnPriceStep(form.price) => PriceIsFine(Order(form, form.clicked, bid), bid)
  /\ Unmoved => \/ sent.answer = "done"
                \/ sent.order.kind # "market" /\ sent.order.price = MarketPrice(sent.order.side, sent.met)

=============================================================================
