----------------------------- MODULE DemoBroker -----------------------------
(***************************************************************************)
(* The execution engine of the demo trading server                         *)
(* (backend/cmd/demomarket/broker.go).                                     *)
(*                                                                         *)
(* One mutex serialises the dealer requests and the 250 ms evaluation      *)
(* pass.  The quotes are not under that mutex: a provider's feed moves     *)
(* them while a request or a pass is running, so an operation that reads   *)
(* them twice may see two prices.  A request is one action, with the       *)
(* second reading as the parameter q; a pass is one action per position,   *)
(* order or stop-out round, with quotes free to move in between and        *)
(* requests kept out by `phase'.                                           *)
(*                                                                         *)
(* A refused request changes nothing but its answer, which is modelled     *)
(* where answers matter (TradeSubmission); here it is no step.  Volumes    *)
(* are in units of volumeStep (= volumeMin), money and prices are whole    *)
(* units of an instrument quoted in the account currency with a contract   *)
(* of one, so round2 and toUSD are exact; margin rounds down.              *)
(***************************************************************************)
EXTENDS Integers, FiniteSets, FiniteSetsExt

CONSTANTS
  Logins,          \* trading accounts the CRM knows
  NoLogin,         \* the pass is visiting nobody
  Symbols,         \* listed instruments
  Streamed,        \* those whose provider may stop quoting (binanceProvider.Tick)
  Weekly,          \* those with sessions (FX and metals close at the weekend)
  Bids,            \* bids the feed publishes
  Spread,          \* ask - bid
  Volumes,         \* volumes a request names, valid or not
  VolMax,          \* volumeMax
  Entries,         \* [price, trigger] pairs a pending request names
  Brackets,        \* [sl, tp] pairs a request names, 0 for none
  Lifetimes,       \* [time, exp] pairs a pending request names
  PendingTypes,    \* pending order types requested
  Leverages,       \* leverages an account may be set to
  DefaultLeverage,
  Amounts,         \* balance operations, negative for a withdrawal
  Funding,         \* starting balances the user store holds
  StopOutRounds,   \* 64: positions one stop-out visit closes at most
  MaxTicket,       \* bound: no client request once tickets are past it
  MaxDay           \* bound: days the clock passes

AllPendingTypes == {"buyLimit", "sellLimit", "buyStop", "sellStop",
                    "buyStopLimit", "sellStopLimit"}

ASSUME ConstantsAssumption ==
  /\ NoLogin \notin Logins
  /\ Streamed \subseteq Symbols /\ Weekly \subseteq Symbols
  /\ Bids \subseteq Nat \ {0}
  /\ Spread \in Nat \ {0}
  /\ Volumes \subseteq Int
  /\ VolMax \in Nat
  /\ Entries \subseteq [price : Nat, trigger : Nat]
  /\ Brackets \subseteq [sl : Nat, tp : Nat]
  /\ Lifetimes \subseteq [time : {"gtc", "day", "specified"}, exp : Nat]
  /\ PendingTypes \subseteq AllPendingTypes
  /\ Leverages \subseteq Nat \ {0}
  /\ DefaultLeverage \in Nat \ {0}
  /\ Amounts \subseteq Int
  /\ Funding \subseteq Int
  /\ StopOutRounds \in Nat
  /\ MaxTicket \in Nat
  /\ MaxDay \in Nat

VARIABLES
  quote,        \* symbol -> bid, 0 while the provider has no price
  inSession,    \* symbol -> tradesAt(now)
  day,          \* the clock, in trading days
  balance,      \* login -> settled balance
  leverage,     \* login -> account leverage
  funded,       \* login -> balance the account last started from (history)
  positions,    \* open positions of every account
  orders,       \* working orders of every account
  history,      \* orders in a final state
  deals,        \* fills, closes and balance operations
  nextTicket,   \* next ticket the engine issues
  phase,        \* where the evaluation pass is; "idle": b.mu is free
  visiting,     \* the account the pass is on
  left,         \* accounts the pass has still to visit
  todo,         \* tickets of the current scan still to look at
  now,          \* the pass's own clock reading
  rounds        \* stop-out rounds done in this visit

feed   == <<quote, inSession, day>>
book   == <<balance, leverage, funded, positions, orders, history, deals, nextTicket>>
pass   == <<phase, visiting, left, todo, now, rounds>>
vars   == <<feed, book, pass>>

-----------------------------------------------------------------------------
(* Records *)

Sides == {"buy", "sell"}

Position ==
  [ticket : Nat, login : Logins, symbol : Symbols, side : Sides,
   open : Int, sl : Nat, tp : Nat, vol : Int]

Order ==
  [ticket : Nat, login : Logins, symbol : Symbols, type : AllPendingTypes,
   price : Nat, trigger : Nat, sl : Nat, tp : Nat, vol : Int,
   time : {"gtc", "day", "specified"}, exp : Nat, setup : Nat]

FinalOrder ==
  [ticket : Nat, login : Logins, type : AllPendingTypes \cup Sides,
   state : {"filled", "canceled", "rejected", "expired"},
   price : Int, vol : Int, position : Nat]

Deal ==
  [ticket : Nat, order : Nat, login : Logins, action : Sides \cup {"balance"},
   entry : {"in", "out"}, price : Int, vol : Int, profit : Int, position : Nat]

PositionsOf(l) == {p \in positions : p.login = l}
OrdersOf(l)    == {o \in orders : o.login = l}
Tickets(S)     == {x.ticket : x \in S}

-----------------------------------------------------------------------------
(* Pricing *)

Opposite(side) == IF side = "buy" THEN "sell" ELSE "buy"
IsBuyType(type) == type \in {"buyLimit", "buyStop", "buyStopLimit"}
SideOf(type) == IF IsBuyType(type) THEN "buy" ELSE "sell"

Quoted(q, s) == q[s] > 0
Ask(q, s) == q[s] + Spread

\* The price a side opens at, and the price a position of that side is valued
\* and closed at.
OpenPrice(q, s, side)  == IF side = "buy" THEN Ask(q, s) ELSE q[s]
ClosePrice(q, s, side) == IF side = "buy" THEN q[s] ELSE Ask(q, s)

\* What closing vol of p would realise.
FloatingProfit(q, p, vol) ==
  LET price == ClosePrice(q, p.symbol, p.side)
  IN  (IF p.side = "buy" THEN price - p.open ELSE p.open - price) * vol

MarginFor(l, vol, price) == (vol * price) \div leverage[l]

\* summarize: only positions with a quote count, in profit and in margin alike.
Priced(l, q) == {p \in PositionsOf(l) : Quoted(q, p.symbol)}
Equity(l, q) ==
  balance[l] + MapThenSumSet(LAMBDA p : FloatingProfit(q, p, p.vol), Priced(l, q))
Margin(l, q) ==
  MapThenSumSet(LAMBDA p : MarginFor(l, p.vol, p.open), Priced(l, q))
MarginFree(l, q) == Equity(l, q) - Margin(l, q)

\* The margin level is at or under stopOutLevel (50 %).
StopOutDue(l, q) == Margin(l, q) > 0 /\ 2 * Equity(l, q) <= Margin(l, q)

-----------------------------------------------------------------------------
(* Validation *)

ValidVolume(v) == v \in 1..VolMax

StopsValid(side, price, sl, tp) ==
  IF side = "buy" THEN (sl = 0 \/ sl < price) /\ (tp = 0 \/ tp > price)
                  ELSE (sl = 0 \/ sl > price) /\ (tp = 0 \/ tp < price)

\* Where each pending type may rest relative to the market.
PendingPriceValid(type, price, q, s) ==
  /\ price > 0
  /\ CASE type = "buyLimit"                      -> price < Ask(q, s)
       [] type = "sellLimit"                     -> price > q[s]
       [] type \in {"buyStop", "buyStopLimit"}   -> price > Ask(q, s)
       [] type \in {"sellStop", "sellStopLimit"} -> price < q[s]

\* market(): the session is open and there is a quote.
Tradable(q, s) == inSession[s] /\ Quoted(q, s)

TriggerOf(type, price, trigger) ==
  IF type \in {"buyStopLimit", "sellStopLimit"} /\ trigger > 0
  THEN trigger ELSE price

\* The feed publishes at most one more price while a request is running.
Readings == {quote} \cup {[quote EXCEPT ![s] = b] : s \in Symbols, b \in Bids}

\* b.mu is free; the bound on tickets holds client requests back, never the engine.
Free == phase = "idle"
Admitted == Free /\ nextTicket <= MaxTicket

-----------------------------------------------------------------------------
(* Bookkeeping shared by the requests and the pass *)

Finished(o, state) ==
  [ticket |-> o.ticket, login |-> o.login, type |-> o.type, state |-> state,
   price |-> o.price, vol |-> o.vol,
   position |-> IF state = "filled" THEN o.ticket ELSE 0]

\* record() of a market order: filled the moment it is booked.
MarketOrder(ticket, l, side, price, vol, position) ==
  [ticket |-> ticket, login |-> l, type |-> side, state |-> "filled",
   price |-> price, vol |-> vol, position |-> position]

FillUnticketed(ticket, order, l, side, entry, price, vol, profit, position) ==
  [ticket |-> order, order |-> order, login |-> l, action |-> side,
   entry |-> entry, price |-> price, vol |-> vol, profit |-> profit,
   position |-> position]

\* deal(): a fill of an order into or out of a position.
Fill(ticket, order, l, side, entry, price, vol, profit, position) ==
  [ticket |-> ticket, order |-> order, login |-> l, action |-> side,
   entry |-> entry, price |-> price, vol |-> vol, profit |-> profit,
   position |-> position]

\* credit().
CreditedTwice(l, amount) == [balance EXCEPT ![l] = @ + amount + amount]
Credited(l, amount) == [balance EXCEPT ![l] = @ + amount]

\* What a close of vol leaves of p: nothing, or p with the rest of its volume.
RemainderWhole(p, vol) == IF vol >= p.vol THEN {} ELSE {p}
Remainder(p, vol) == IF vol >= p.vol THEN {} ELSE {[p EXCEPT !.vol = @ - vol]}

\* settle(): book the closing order and its deal, move the realised profit to
\* the balance, shrink or remove the position.
Settle(p, vol, q) ==
  LET price  == ClosePrice(q, p.symbol, p.side)
      profit == FloatingProfit(q, p, vol)
      side   == Opposite(p.side)
  IN  /\ history' = history \cup
           {MarketOrder(nextTicket, p.login, side, price, vol, p.ticket)}
      /\ deals' = deals \cup
           {Fill(nextTicket + 1, nextTicket, p.login, side, "out",
                 price, vol, profit, p.ticket)}
      /\ nextTicket' = nextTicket + 2
      /\ balance' = Credited(p.login, profit)
      /\ positions' = (positions \ {p}) \cup Remainder(p, vol)

-----------------------------------------------------------------------------
(* Dealer requests: each runs whole under b.mu *)

\* A market order.  The price is market()'s quote; the margin check values the
\* account at a later reading q.
OpenPosition(l, s, side, vol, b, q) ==
  LET price == OpenPrice(quote, s, side)
  IN  /\ Admitted
      /\ ValidVolume(vol)
      /\ Tradable(quote, s)
      /\ StopsValid(side, price, b.sl, b.tp)
      /\ MarginFree(l, q) >= MarginFor(l, vol, price)
      /\ positions' = positions \cup
           {[ticket |-> nextTicket, login |-> l, symbol |-> s, side |-> side,
             open |-> price, sl |-> b.sl, tp |-> b.tp, vol |-> vol]}
      /\ history' = history \cup
           {MarketOrder(nextTicket, l, side, price, vol, nextTicket)}
      /\ deals' = deals \cup
           {Fill(nextTicket + 1, nextTicket, l, side, "in", price, vol, 0, nextTicket)}
      /\ nextTicket' = nextTicket + 2
      /\ quote' = q
      /\ UNCHANGED <<inSession, day, balance, leverage, funded, orders, pass>>

\* A close asks for the opposite side; a volume outside the position's means
\* all of it, a part must be a volume the engine trades.
ClosePosition(p, side, vol) ==
  LET part == IF vol <= 0 \/ vol > p.vol THEN p.vol ELSE vol
  IN  /\ Admitted
      /\ side = Opposite(p.side)
      /\ part = p.vol \/ ValidVolume(part)
      /\ Tradable(quote, p.symbol)
      /\ Settle(p, part, quote)
      /\ UNCHANGED <<feed, leverage, funded, orders, pass>>

\* A stop-limit rests at its trigger and fills at its price; the other types
\* trigger at the price itself.  A good-till-cancelled order has no expiration.
PlacePending(l, s, type, vol, e, b, t) ==
  LET trigger == TriggerOf(type, e.price, e.trigger)
  IN  /\ Admitted
      /\ ValidVolume(vol)
      /\ Tradable(quote, s)
      /\ PendingPriceValid(type, trigger, quote, s)
      /\ StopsValid(SideOf(type), e.price, b.sl, b.tp)
      /\ ~(t.time = "specified" /\ t.exp > 0 /\ t.exp <= day)
      /\ orders' = orders \cup
           {[ticket |-> nextTicket, login |-> l, symbol |-> s, type |-> type,
             price |-> e.price, trigger |-> trigger, sl |-> b.sl, tp |-> b.tp,
             vol |-> vol, time |-> t.time,
             exp |-> IF t.time = "gtc" THEN 0 ELSE t.exp, setup |-> day]}
      /\ nextTicket' = nextTicket + 1
      /\ UNCHANGED <<feed, balance, leverage, funded, positions, history, deals, pass>>

ModifyPosition(p, b) ==
  /\ Free
  /\ Tradable(quote, p.symbol)
  /\ StopsValid(p.side, ClosePrice(quote, p.symbol, p.side), b.sl, b.tp)
  /\ <<p.sl, p.tp>> # <<b.sl, b.tp>>
  /\ positions' = (positions \ {p}) \cup {[p EXCEPT !.sl = b.sl, !.tp = b.tp]}
  /\ UNCHANGED <<feed, balance, leverage, funded, orders, history, deals, nextTicket, pass>>

\* Zero keeps the order's price, trigger, volume or lifetime; the brackets are
\* always replaced.  A new expiration is not checked against the clock.
ModifyOrder(o, e, b, vol, t) ==
  LET price   == IF e.price > 0 THEN e.price ELSE o.price
      trigger == IF o.type \in {"buyStopLimit", "sellStopLimit"}
                 THEN IF e.trigger > 0 THEN e.trigger ELSE o.trigger
                 ELSE price
      retimed == t.time # "gtc" \/ t.exp # 0
  IN  /\ Free
      /\ Tradable(quote, o.symbol)
      /\ PendingPriceValid(o.type, trigger, quote, o.symbol)
      /\ StopsValid(SideOf(o.type), price, b.sl, b.tp)
      /\ vol > 0 => ValidVolume(vol)
      /\ orders' = (orders \ {o}) \cup
           {[o EXCEPT !.price = price, !.trigger = trigger,
                      !.sl = b.sl, !.tp = b.tp,
                      !.vol = IF vol > 0 THEN vol ELSE @,
                      !.time = IF retimed THEN t.time ELSE @,
                      !.exp = IF ~retimed THEN @
                              ELSE IF t.time = "gtc" THEN 0 ELSE t.exp]}
      /\ UNCHANGED <<feed, balance, leverage, funded, positions, history, deals, nextTicket, pass>>

\* Cancelling needs neither a session nor a quote.
RemoveOrder(o) ==
  /\ Free
  /\ orders' = orders \ {o}
  /\ history' = history \cup {Finished(o, "canceled")}
  /\ UNCHANGED <<feed, balance, leverage, funded, positions, deals, nextTicket, pass>>

-----------------------------------------------------------------------------
(* Account operations *)

\* Balance: a deposit, or a withdrawal capped by free margin.
Balance(l, amount) ==
  /\ Admitted
  /\ amount < 0 => MarginFree(l, quote) + amount >= 0
  /\ balance' = Credited(l, amount)
  /\ deals' = deals \cup
       {Fill(nextTicket, 0, l, "balance", "in", 0, 0, amount, 0)}
  /\ nextTicket' = nextTicket + 1
  /\ UNCHANGED <<feed, leverage, funded, positions, orders, history, pass>>

\* SetLeverage and UpdateUser.
SetLeverage(l, lev) ==
  /\ Free
  /\ leverage' = [leverage EXCEPT ![l] = lev]
  /\ UNCHANGED <<feed, balance, funded, positions, orders, history, deals, nextTicket, pass>>

\* What a reset of l leaves of a book.
OthersAndOpen(S, l) == {x \in S : x.login # l \/ x.ticket \in Tickets(positions)}
Others(S, l) == {x \in S : x.login # l}

\* Reset: the admin hands the account back in its starting state.
Reset(l, amount) ==
  /\ Free
  /\ positions' = Others(positions, l)
  /\ orders' = Others(orders, l)
  /\ history' = Others(history, l)
  /\ deals' = Others(deals, l)
  /\ leverage' = [leverage EXCEPT ![l] = DefaultLeverage]
  /\ balance' = [balance EXCEPT ![l] = amount]
  /\ funded' = [funded EXCEPT ![l] = amount]
  /\ UNCHANGED <<feed, nextTicket, pass>>

-----------------------------------------------------------------------------
(* The evaluation pass: evaluate() holds b.mu from Evaluate to LeaveAccount *)
(* of the last account, one scan after another over each.                   *)

Unmoved == UNCHANGED <<feed, leverage, funded>>

\* The scans go over the tickets present when they start, in ticket order.
Oldest == Min(todo)
Scanned == todo' = todo \ {Oldest}

VisitAccount(l) ==
  /\ phase' = "stops"
  /\ visiting' = l
  /\ left' = (IF Free THEN Logins ELSE left) \ {l}
  /\ todo' = Tickets(PositionsOf(l))
  /\ rounds' = 0

\* The accounts come in map order: any order.
Evaluate ==
  /\ Free
  /\ now' = day
  /\ \E l \in Logins : VisitAccount(l)
  /\ UNCHANGED <<feed, book>>

StopHit(p, q) ==
  LET price == ClosePrice(q, p.symbol, p.side)
  IN  p.sl > 0 /\ (IF p.side = "buy" THEN price <= p.sl ELSE price >= p.sl)
TargetHit(p, q) ==
  LET price == ClosePrice(q, p.symbol, p.side)
  IN  p.tp > 0 /\ (IF p.side = "buy" THEN price >= p.tp ELSE price <= p.tp)
Touched(p) == Tradable(quote, p.symbol) /\ (StopHit(p, quote) \/ TargetHit(p, quote))

\* checkStops, one position.
CheckStop ==
  /\ phase = "stops" /\ todo # {}
  /\ Scanned
  /\ \E p \in positions :
       /\ p.ticket = Oldest
       /\ IF Touched(p)
          THEN Settle(p, p.vol, quote) /\ UNCHANGED orders
          ELSE UNCHANGED book
  /\ Unmoved
  /\ UNCHANGED <<phase, visiting, left, now, rounds>>

StopsDone ==
  /\ phase = "stops" /\ todo = {}
  /\ phase' = "pending"
  /\ todo' = Tickets(OrdersOf(visiting))
  /\ UNCHANGED <<feed, book, visiting, left, now, rounds>>

Expired(o, at) == \/ o.time = "specified" /\ o.exp > 0 /\ at >= o.exp
                  \/ o.time = "day" /\ at # o.setup

\* A stop-limit whose trigger the market touched.
Triggered(o) == \/ o.type = "buyStopLimit"  /\ Ask(quote, o.symbol) >= o.trigger
                \/ o.type = "sellStopLimit" /\ quote[o.symbol] <= o.trigger

Reached(o) ==
  LET bid == quote[o.symbol]
      ask == Ask(quote, o.symbol)
  IN  \/ o.type = "buyLimit"  /\ ask <= o.price
      \/ o.type = "sellLimit" /\ bid >= o.price
      \/ o.type = "buyStop"   /\ ask >= o.price
      \/ o.type = "sellStop"  /\ bid <= o.price

FillPriceAtTrigger(o) ==
  CASE o.type \in {"buyLimit", "sellLimit"} -> o.trigger
    [] o.type = "buyStop"  -> Ask(quote, o.symbol)
    [] o.type = "sellStop" -> quote[o.symbol]

\* A limit fills at its price or better, a stop at the market.
FillPrice(o) ==
  LET bid == quote[o.symbol]
      ask == Ask(quote, o.symbol)
  IN  CASE o.type = "buyLimit"  -> IF ask < o.price THEN ask ELSE o.price
        [] o.type = "sellLimit" -> IF bid > o.price THEN bid ELSE o.price
        [] o.type = "buyStop"   -> ask
        [] o.type = "sellStop"  -> bid

FinishKept(o, state) ==
  /\ orders' = orders
  /\ history' = history \cup {Finished(o, state)}

\* finishOrder().
Finish(o, state) ==
  /\ orders' = orders \ {o}
  /\ history' = history \cup {Finished(o, state)}

ExpireOrder(o) ==
  /\ Expired(o, now)
  /\ Finish(o, "expired")
  /\ UNCHANGED <<quote, balance, positions, deals, nextTicket>>

\* A triggered stop-limit rests as a limit until a later pass.
TriggerOrder(o) ==
  /\ ~Expired(o, now) /\ Tradable(quote, o.symbol) /\ Triggered(o)
  /\ orders' = (orders \ {o}) \cup
       {[o EXCEPT !.type = IF @ = "buyStopLimit" THEN "buyLimit" ELSE "sellLimit"]}
  /\ UNCHANGED <<quote, balance, positions, history, deals, nextTicket>>

\* The fill price is one reading, the margin check a later one; the position
\* takes the order's ticket.
FillOrder(o, q) ==
  /\ ~Expired(o, now) /\ Tradable(quote, o.symbol) /\ Reached(o)
  /\ quote' = q
  /\ IF MarginFree(o.login, q) < MarginFor(o.login, o.vol, FillPrice(o))
     THEN Finish(o, "rejected") /\ UNCHANGED <<positions, deals, nextTicket>>
     ELSE /\ Finish(o, "filled")
          /\ positions' = positions \cup
               {[ticket |-> o.ticket, login |-> o.login, symbol |-> o.symbol,
                 side |-> SideOf(o.type), open |-> FillPrice(o),
                 sl |-> o.sl, tp |-> o.tp, vol |-> o.vol]}
          /\ deals' = deals \cup
               {Fill(nextTicket, o.ticket, o.login, SideOf(o.type), "in",
                     FillPrice(o), o.vol, 0, o.ticket)}
          /\ nextTicket' = nextTicket + 1
  /\ UNCHANGED balance

LeaveOrder(o) ==
  /\ ~Expired(o, now)
  /\ ~(Tradable(quote, o.symbol) /\ (Triggered(o) \/ Reached(o)))
  /\ UNCHANGED <<quote, book>>

\* checkPending, one order.
CheckOrder ==
  /\ phase = "pending" /\ todo # {}
  /\ Scanned
  /\ \E o \in orders :
       /\ o.ticket = Oldest
       /\ \/ ExpireOrder(o)
          \/ TriggerOrder(o)
          \/ \E q \in Readings : FillOrder(o, q)
          \/ LeaveOrder(o)
  /\ UNCHANGED <<inSession, day, leverage, funded>>
  /\ UNCHANGED <<phase, visiting, left, now, rounds>>

PendingDone ==
  /\ phase = "pending" /\ todo = {}
  /\ phase' = "stopout"
  /\ UNCHANGED <<feed, book, visiting, left, todo, now, rounds>>

\* The position losing most at q, the oldest of equals.
IsWorst(p, q) ==
  \A r \in Priced(p.login, q) \ {p} :
    \/ FloatingProfit(q, p, p.vol) < FloatingProfit(q, r, r.vol)
    \/ /\ FloatingProfit(q, p, p.vol) = FloatingProfit(q, r, r.vol)
       /\ p.ticket < r.ticket

StopOutInSession(q) ==
  /\ phase = "stopout"
  /\ rounds < StopOutRounds /\ StopOutDue(visiting, quote)
  /\ \E p \in Priced(visiting, q) :
       IsWorst(p, q) /\ Tradable(quote, p.symbol) /\ Settle(p, p.vol, q)
  /\ quote' = q
  /\ rounds' = rounds + 1
  /\ UNCHANGED <<inSession, day, leverage, funded, orders>>
  /\ UNCHANGED <<phase, visiting, left, todo, now>>

\* One round of checkStopOut: the level at one reading, the victim at the next.
\* The session is not looked at.
StopOut(q) ==
  /\ phase = "stopout"
  /\ rounds < StopOutRounds /\ StopOutDue(visiting, quote)
  /\ \E p \in Priced(visiting, q) : IsWorst(p, q) /\ Settle(p, p.vol, q)
  /\ quote' = q
  /\ rounds' = rounds + 1
  /\ UNCHANGED <<inSession, day, leverage, funded, orders>>
  /\ UNCHANGED <<phase, visiting, left, todo, now>>

LeaveAccountHeld ==
  /\ phase = "stopout"
  /\ rounds >= StopOutRounds \/ ~StopOutDue(visiting, quote)
  /\ left # {} /\ \E l \in left : VisitAccount(l)
  /\ now' = now
  /\ UNCHANGED <<feed, book>>

\* The visit ends; the pass goes on to another account or lets b.mu go.
LeaveAccount ==
  /\ phase = "stopout"
  /\ rounds >= StopOutRounds \/ ~StopOutDue(visiting, quote)
  /\ IF left = {}
     THEN /\ phase' = "idle" /\ visiting' = NoLogin /\ rounds' = 0
          /\ UNCHANGED <<left, todo>>
     ELSE \E l \in left : VisitAccount(l)
  /\ now' = IF left = {} THEN 0 ELSE now
  /\ UNCHANGED <<feed, book>>

-----------------------------------------------------------------------------
(* The environment: the providers' feeds and the clock *)

QuoteTick(s, b) ==
  /\ quote' = [quote EXCEPT ![s] = b]
  /\ quote' # quote
  /\ UNCHANGED <<inSession, day, book, pass>>

\* A stream older than binanceFresh with nothing polled behind it.
QuoteLost(s) ==
  /\ Quoted(quote, s)
  /\ quote' = [quote EXCEPT ![s] = 0]
  /\ UNCHANGED <<inSession, day, book, pass>>

SessionTurn(s) ==
  /\ inSession' = [inSession EXCEPT ![s] = ~@]
  /\ UNCHANGED <<quote, day, book, pass>>

DayPasses ==
  /\ day < MaxDay
  /\ day' = day + 1
  /\ UNCHANGED <<quote, inSession, book, pass>>

-----------------------------------------------------------------------------
Init ==
  /\ quote = [s \in Symbols |-> 0]
  /\ inSession = [s \in Symbols |-> TRUE]
  /\ day = 0
  /\ balance \in [Logins -> Funding]
  /\ funded = balance
  /\ leverage = [l \in Logins |-> DefaultLeverage]
  /\ positions = {} /\ orders = {} /\ history = {} /\ deals = {}
  /\ nextTicket = 1
  /\ phase = "idle" /\ visiting = NoLogin
  /\ left = {} /\ todo = {} /\ now = 0 /\ rounds = 0

Request ==
  \/ \E l \in Logins, s \in Symbols, vol \in Volumes, b \in Brackets :
       \/ \E side \in Sides, q \in Readings : OpenPosition(l, s, side, vol, b, q)
       \/ \E type \in PendingTypes, e \in Entries, t \in Lifetimes :
            PlacePending(l, s, type, vol, e, b, t)
  \/ \E p \in positions :
       \/ \E side \in Sides, vol \in Volumes : ClosePosition(p, side, vol)
       \/ \E b \in Brackets : ModifyPosition(p, b)
  \/ \E o \in orders :
       \/ \E e \in Entries, b \in Brackets, vol \in Volumes, t \in Lifetimes :
            ModifyOrder(o, e, b, vol, t)
       \/ RemoveOrder(o)
  \/ \E l \in Logins :
       \/ \E amount \in Amounts : Balance(l, amount)
       \/ \E lev \in Leverages : SetLeverage(l, lev)
       \/ \E amount \in Funding : Reset(l, amount)

Engine ==
  \/ Evaluate \/ CheckStop \/ StopsDone \/ CheckOrder \/ PendingDone
  \/ (\E q \in Readings : StopOut(q)) \/ LeaveAccount

Feed ==
  \/ \E s \in Symbols, b \in Bids : QuoteTick(s, b)
  \/ \E s \in Streamed : QuoteLost(s)
  \/ \E s \in Weekly : SessionTurn(s)
  \/ DayPasses

Next == Request \/ Engine \/ Feed

Spec == Init /\ [][Next]_vars

\* Run()'s ticker comes back every 250 ms and the mutex is starvation-free, so
\* the pass always moves on; nobody owes a request, a price or a session.
FairSpec == Spec /\ WF_vars(Engine)
=============================================================================
