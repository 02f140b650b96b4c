-------------------------- MODULE DemoBrokerProofs --------------------------
(***************************************************************************)
(* The engine, for every set of accounts, instruments, prices and          *)
(* requests: its book is consistent (DemoBrokerProperties' BookInv is      *)
(* inductive), the balance is what the deals say, volume is conserved, and *)
(* every step is a step of the abstract TradingBook or leaves it alone.    *)
(***************************************************************************)
EXTENDS DemoBrokerProperties, FiniteSetTheorems, TLAPS

\* What a quote reading of the engine is: a bid for every symbol.
LEMMA ReadingsType ==
  ASSUME quote \in [Symbols -> Nat], NEW q \in Readings
  PROVE  q \in [Symbols -> Nat]
BY ConstantsAssumption DEF Readings

\* Profits are integers, so a balance stays one.
LEMMA ProfitType ==
  ASSUME NEW q \in [Symbols -> Nat], NEW p \in Position, NEW vol \in Int
  PROVE  /\ ClosePrice(q, p.symbol, p.side) \in Int
         /\ OpenPrice(q, p.symbol, p.side) \in Int
         /\ FloatingProfit(q, p, vol) \in Int
BY ConstantsAssumption
DEF Position, ClosePrice, OpenPrice, Ask, FloatingProfit

\* A step that leaves the book alone leaves its invariant alone.
LEMMA BookUnchanged ==
  ASSUME BookInv, UNCHANGED book
  PROVE  BookInv'
BY DEF BookInv, book, BookTypeOK, TicketsUnique, DealsSettled, VolumesTradable,
       PositionsBacked, PositionBacked, EnteredOnce, LimitsHonoured

\* settle() keeps the book consistent: the closing order and its deal take fresh
\* tickets, and what is left of the position is a tradable volume.
LEMMA SettleKeepsBook ==
  ASSUME BookInv,
         NEW p \in positions, NEW vol \in 1..p.vol, NEW q \in [Symbols -> Nat],
         Settle(p, vol, q), UNCHANGED <<orders, leverage, funded>>
  PROVE  BookInv'
<1> DEFINE price == ClosePrice(q, p.symbol, p.side)
           profit == FloatingProfit(q, p, vol)
           side == Opposite(p.side)
           h == MarketOrder(nextTicket, p.login, side, price, vol, p.ticket)
           d == Fill(nextTicket + 1, nextTicket, p.login, side, "out",
                     price, vol, profit, p.ticket)
<1>1. /\ history' = history \cup {h}
      /\ deals' = deals \cup {d}
      /\ nextTicket' = nextTicket + 2
      /\ balance' = Credited(p.login, profit)
      /\ positions' = (positions \ {p}) \cup Remainder(p, vol)
  BY DEF Settle
<1>2. /\ BookTypeOK /\ TicketsUnique /\ DealsSettled /\ VolumesTradable
      /\ PositionsBacked /\ EnteredOnce /\ LimitsHonoured
  BY DEF BookInv
<1>3. p \in Position /\ p.ticket < nextTicket /\ p.ticket \in Nat /\ p.vol \in 1..VolMax
  BY <1>2 DEF BookTypeOK, TicketsUnique, VolumesTradable, ValidVolume, Position
<1>4. price \in Int /\ profit \in Int /\ side \in Sides
  <2>1. vol \in Int
    OBVIOUS
  <2>2. QED
    BY <1>3, <2>1, ProfitType DEF Opposite, Sides, Position
<1>5. \A x \in Remainder(p, vol) :
        /\ x \in Position /\ ValidVolume(x.vol)
        /\ x.ticket = p.ticket /\ x.login = p.login /\ x.side = p.side /\ x.open = p.open
  BY <1>3, ConstantsAssumption DEF Remainder, Position, ValidVolume
<1>6. \A x, y \in Remainder(p, vol) : x = y
  BY DEF Remainder
<1> HIDE DEF price, profit, side
<1>7. BookTypeOK'
  BY <1>1, <1>2, <1>3, <1>4, <1>5
  DEF BookTypeOK, MarketOrder, Fill, FinalOrder, Deal, Credited, Position
<1>8. TicketsUnique'
  BY <1>1, <1>2, <1>3, <1>5, <1>6
  DEF TicketsUnique, BookTypeOK, MarketOrder, Fill, FinalOrder, Deal, Order, Position
<1>9. DealsSettled'
  BY <1>1, <1>2, <1>3
  DEF DealsSettled, TicketsUnique, BookTypeOK, Fill, Deal, Order
<1>10. VolumesTradable'
  BY <1>1, <1>2, <1>5 DEF VolumesTradable
<1>11. PositionsBacked'
  BY <1>1, <1>2, <1>5 DEF PositionsBacked, PositionBacked
<1>12. EnteredOnce'
  BY <1>1, <1>2 DEF EnteredOnce, Fill
<1>13. LimitsHonoured'
  BY <1>1, <1>2, <1>4
  DEF LimitsHonoured, DealsSettled, TicketsUnique, BookTypeOK, MarketOrder, Fill,
      FinalOrder, Deal, Sides
<1>14. QED
  BY <1>7, <1>8, <1>9, <1>10, <1>11, <1>12, <1>13 DEF BookInv

\* openPosition: the position, its order and its deal take two fresh tickets.
LEMMA OpenKeepsBook ==
  ASSUME BookInv, quote \in [Symbols -> Nat],
         NEW l \in Logins, NEW s \in Symbols, NEW side \in Sides, NEW vol \in Volumes,
         NEW b \in Brackets, NEW q \in Readings, OpenPosition(l, s, side, vol, b, q)
  PROVE  BookInv'
<1> DEFINE price == OpenPrice(quote, s, side)
           x == [ticket |-> nextTicket, login |-> l, symbol |-> s, side |-> side,
                 open |-> price, sl |-> b.sl, tp |-> b.tp, vol |-> vol]
           h == MarketOrder(nextTicket, l, side, price, vol, nextTicket)
           d == Fill(nextTicket + 1, nextTicket, l, side, "in", price, vol, 0, nextTicket)
<1>1. /\ positions' = positions \cup {x}
      /\ history' = history \cup {h}
      /\ deals' = deals \cup {d}
      /\ nextTicket' = nextTicket + 2
      /\ UNCHANGED <<balance, leverage, funded, orders>>
      /\ ValidVolume(vol)
  BY DEF OpenPosition
<1>2. /\ BookTypeOK /\ TicketsUnique /\ DealsSettled /\ VolumesTradable
      /\ PositionsBacked /\ EnteredOnce /\ LimitsHonoured
  BY DEF BookInv
<1>3. price \in Int /\ b.sl \in Nat /\ b.tp \in Nat /\ vol \in Int
  BY ConstantsAssumption DEF OpenPrice, Ask
<1> HIDE DEF price
<1>4. BookTypeOK'
  BY <1>1, <1>2, <1>3
  DEF BookTypeOK, MarketOrder, Fill, FinalOrder, Deal, Position, Sides
<1>5. TicketsUnique'
  BY <1>1, <1>2
  DEF TicketsUnique, BookTypeOK, MarketOrder, Fill, FinalOrder, Deal, Order, Position
<1>6. DealsSettled'
  BY <1>1, <1>2 DEF DealsSettled, TicketsUnique, BookTypeOK, Fill, Deal, Order
<1>7. VolumesTradable'
  <2>1. x.vol = vol
    OBVIOUS
  <2>2. QED
    BY <1>1, <1>2, <2>1 DEF VolumesTradable
<1>8. PositionsBacked'
  <2> SUFFICES ASSUME NEW p \in positions' PROVE PositionBacked(p)'
    BY DEF PositionsBacked
  <2>1. CASE p \in positions
    BY <1>1, <1>2, <2>1 DEF PositionsBacked, PositionBacked
  <2>2. CASE p = x
    <3>1. /\ h \in history' /\ h.ticket = x.ticket /\ h.login = x.login
          /\ h.state = "filled" /\ h.position = x.ticket
      BY <1>1 DEF MarketOrder
    <3>2. /\ d \in deals' /\ d.order = x.ticket /\ d.position = x.ticket
          /\ d.entry = "in" /\ d.login = x.login
          /\ d.action = x.side /\ d.price = x.open
      BY <1>1 DEF Fill
    <3> HIDE DEF x, h, d
    <3>3. QED
      BY <2>2, <3>1, <3>2 DEF PositionBacked
  <2>3. QED
    BY <1>1, <2>1, <2>2
<1>9. EnteredOnce'
  BY <1>1, <1>2 DEF EnteredOnce, DealsSettled, BookTypeOK, Deal, Fill
<1>10. LimitsHonoured'
  BY <1>1, <1>2
  DEF LimitsHonoured, DealsSettled, TicketsUnique, BookTypeOK, MarketOrder, Fill,
      FinalOrder, Deal, Sides
<1>11. QED
  BY <1>4, <1>5, <1>6, <1>7, <1>8, <1>9, <1>10 DEF BookInv

\* An order that ends without a fill (cancelled, expired, rejected) moves to
\* history under its own ticket.
LEMMA FinishKeepsBook ==
  ASSUME BookInv, NEW o \in orders,
         NEW state \in {"canceled", "expired", "rejected"}, Finish(o, state),
         UNCHANGED <<balance, leverage, funded, positions, deals, nextTicket>>
  PROVE  BookInv'
<1>1. /\ orders' = orders \ {o}
      /\ history' = history \cup {Finished(o, state)}
  BY DEF Finish
<1>2. /\ BookTypeOK /\ TicketsUnique /\ DealsSettled /\ VolumesTradable
      /\ PositionsBacked /\ EnteredOnce /\ LimitsHonoured
  BY DEF BookInv
<1>3. BookTypeOK'
  BY <1>1, <1>2 DEF BookTypeOK, Finished, FinalOrder, Order
<1>4. TicketsUnique'
  BY <1>1, <1>2 DEF TicketsUnique, BookTypeOK, Finished, FinalOrder, Order
<1>5. DealsSettled' /\ VolumesTradable' /\ EnteredOnce'
  BY <1>1, <1>2 DEF DealsSettled, VolumesTradable, EnteredOnce
<1>6. PositionsBacked'
  BY <1>1, <1>2 DEF PositionsBacked, PositionBacked
<1>7. LimitsHonoured'
  BY <1>1, <1>2 DEF LimitsHonoured, Finished
<1>8. QED
  BY <1>2, <1>3, <1>4, <1>5, <1>6, <1>7 DEF BookInv

\* A limit fills at its price or better.
LEMMA FillPriceBetter ==
  ASSUME quote \in [Symbols -> Nat], NEW o \in Order, Reached(o)
  PROVE  /\ FillPrice(o) \in Int
         /\ o.type = "buyLimit" => FillPrice(o) <= o.price
         /\ o.type = "sellLimit" => FillPrice(o) >= o.price
BY ConstantsAssumption DEF Reached, FillPrice, Ask, Order

\* checkPending's fill: the position takes the order's ticket, which from here on
\* is a final order's and a position's, and no working order's.
LEMMA FillKeepsBook ==
  ASSUME BookInv, quote \in [Symbols -> Nat],
         NEW o \in orders, NEW q \in Readings, FillOrder(o, q),
         UNCHANGED <<leverage, funded>>
  PROVE  BookInv'
<1> DEFINE side == SideOf(o.type)
           price == FillPrice(o)
           x == [ticket |-> o.ticket, login |-> o.login, symbol |-> o.symbol,
                 side |-> side, open |-> price, sl |-> o.sl, tp |-> o.tp, vol |-> o.vol]
           h == Finished(o, "filled")
           d == Fill(nextTicket, o.ticket, o.login, side, "in", price, o.vol, 0, o.ticket)
<1>1. CASE Finish(o, "rejected") /\ UNCHANGED <<positions, deals, nextTicket>>
  BY <1>1, FinishKeepsBook DEF FillOrder
<1>2. CASE /\ Finish(o, "filled")
           /\ positions' = positions \cup {x}
           /\ deals' = deals \cup {d}
           /\ nextTicket' = nextTicket + 1
  <2>1. /\ orders' = orders \ {o}
        /\ history' = history \cup {h}
        /\ positions' = positions \cup {x}
        /\ deals' = deals \cup {d}
        /\ nextTicket' = nextTicket + 1
        /\ balance' = balance
    BY <1>2 DEF Finish, FillOrder
  <2>2. /\ BookTypeOK /\ TicketsUnique /\ DealsSettled /\ VolumesTradable
        /\ PositionsBacked /\ EnteredOnce /\ LimitsHonoured
    BY DEF BookInv
  <2>3. o \in Order /\ o.ticket < nextTicket /\ side \in Sides
    BY <2>2 DEF BookTypeOK, TicketsUnique, SideOf, Sides
  <2>4. /\ price \in Int
        /\ o.type = "buyLimit" => price <= o.price
        /\ o.type = "sellLimit" => price >= o.price
    BY <2>3, FillPriceBetter DEF FillOrder
  <2> HIDE DEF side, price
  <2>5. BookTypeOK'
    BY <2>1, <2>2, <2>3, <2>4
    DEF BookTypeOK, Finished, Fill, FinalOrder, Deal, Order, Position
  <2>6. TicketsUnique'
    BY <2>1, <2>2, <2>3
    DEF TicketsUnique, BookTypeOK, Finished, Fill, FinalOrder, Deal, Order, Position
  <2>7. DealsSettled'
    BY <2>1, <2>2, <2>3 DEF DealsSettled, TicketsUnique, BookTypeOK, Fill, Deal, Order
  <2>8. VolumesTradable'
    BY <2>1, <2>2 DEF VolumesTradable
  <2>9. PositionsBacked'
    <3> SUFFICES ASSUME NEW p \in positions' PROVE PositionBacked(p)'
      BY DEF PositionsBacked
    <3>1. CASE p \in positions
      BY <2>1, <2>2, <3>1 DEF PositionsBacked, PositionBacked
    <3>2. CASE p = x
      <4>1. /\ h \in history' /\ h.ticket = x.ticket /\ h.login = x.login
            /\ h.state = "filled" /\ h.position = x.ticket
        BY <2>1 DEF Finished
      <4>2. /\ d \in deals' /\ d.order = x.ticket /\ d.position = x.ticket
            /\ d.entry = "in" /\ d.login = x.login
            /\ d.action = x.side /\ d.price = x.open
        BY <2>1 DEF Fill
      <4> HIDE DEF x, h, d
      <4>3. QED
        BY <3>2, <4>1, <4>2 DEF PositionBacked
    <3>3. QED
      BY <2>1, <3>1, <3>2
  <2>10. EnteredOnce'
    BY <2>1, <2>2 DEF EnteredOnce, DealsSettled, Fill
  <2>11. LimitsHonoured'
    BY <2>1, <2>2, <2>3, <2>4
    DEF LimitsHonoured, DealsSettled, TicketsUnique, Finished, Fill
  <2>12. QED
    BY <2>5, <2>6, <2>7, <2>8, <2>9, <2>10, <2>11 DEF BookInv
<1>3. QED
  BY <1>1, <1>2 DEF FillOrder

\* placePending: the order takes a fresh ticket no deal can already refer to.
LEMMA PlaceKeepsBook ==
  ASSUME BookInv, day \in Nat,
         NEW l \in Logins, NEW s \in Symbols, NEW type \in PendingTypes,
         NEW vol \in Volumes, NEW e \in Entries, NEW b \in Brackets,
         NEW t \in Lifetimes, PlacePending(l, s, type, vol, e, b, t)
  PROVE  BookInv'
<1> DEFINE trigger == TriggerOf(type, e.price, e.trigger)
           exp == IF t.time = "gtc" THEN 0 ELSE t.exp
           x == [ticket |-> nextTicket, login |-> l, symbol |-> s, type |-> type,
                 price |-> e.price, trigger |-> trigger, sl |-> b.sl, tp |-> b.tp,
                 vol |-> vol, time |-> t.time, exp |-> exp, setup |-> day]
<1>1. /\ orders' = orders \cup {x}
      /\ nextTicket' = nextTicket + 1
      /\ UNCHANGED <<balance, leverage, funded, positions, history, deals>>
      /\ ValidVolume(vol)
  BY DEF PlacePending
<1>2. /\ BookTypeOK /\ TicketsUnique /\ DealsSettled /\ VolumesTradable
      /\ PositionsBacked /\ EnteredOnce /\ LimitsHonoured
  BY DEF BookInv
<1>3. x \in Order
  BY <1>2, ConstantsAssumption DEF Order, TriggerOf, BookTypeOK
<1>4. x.ticket = nextTicket /\ x.vol = vol
  OBVIOUS
<1> HIDE DEF x
<1>5. BookTypeOK'
  BY <1>1, <1>2, <1>3 DEF BookTypeOK
<1>6. TicketsUnique'
  BY <1>1, <1>2, <1>4
  DEF TicketsUnique, BookTypeOK, FinalOrder, Deal, Order, Position
<1>7. DealsSettled'
  BY <1>1, <1>2, <1>4 DEF DealsSettled, BookTypeOK, Deal, Order
<1>8. VolumesTradable'
  BY <1>1, <1>2, <1>4 DEF VolumesTradable
<1>9. PositionsBacked' /\ EnteredOnce' /\ LimitsHonoured'
  BY <1>1, <1>2
  DEF PositionsBacked, PositionBacked, EnteredOnce, LimitsHonoured
<1>10. QED
  BY <1>5, <1>6, <1>7, <1>8, <1>9 DEF BookInv

\* A position that changes its stops stays backed by the deal that opened it.
LEMMA ModifyPositionKeepsBook ==
  ASSUME BookInv, NEW p \in positions, NEW b \in Brackets, ModifyPosition(p, b)
  PROVE  BookInv'
<1> DEFINE x == [p EXCEPT !.sl = b.sl, !.tp = b.tp]
<1>1. /\ positions' = (positions \ {p}) \cup {x}
      /\ UNCHANGED <<balance, leverage, funded, orders, history, deals, nextTicket>>
  BY DEF ModifyPosition
<1>2. /\ BookTypeOK /\ TicketsUnique /\ DealsSettled /\ VolumesTradable
      /\ PositionsBacked /\ EnteredOnce /\ LimitsHonoured
  BY DEF BookInv
<1>3. /\ p \in Position /\ x \in Position
      /\ x.ticket = p.ticket /\ x.login = p.login /\ x.side = p.side
      /\ x.open = p.open /\ x.vol = p.vol
  BY <1>2, ConstantsAssumption DEF BookTypeOK, Position
<1> HIDE DEF x
<1>4. BookTypeOK' /\ TicketsUnique' /\ DealsSettled' /\ VolumesTradable'
  BY <1>1, <1>2, <1>3 DEF BookTypeOK, TicketsUnique, DealsSettled, VolumesTradable
<1>5. PositionsBacked' /\ EnteredOnce' /\ LimitsHonoured'
  BY <1>1, <1>2, <1>3
  DEF PositionsBacked, PositionBacked, EnteredOnce, LimitsHonoured
<1>6. QED
  BY <1>4, <1>5 DEF BookInv

\* A modified order keeps its ticket and, at most, takes a valid volume.
LEMMA ModifyOrderKeepsBook ==
  ASSUME BookInv, NEW o \in orders, NEW e \in Entries, NEW b \in Brackets,
         NEW vol \in Volumes, NEW t \in Lifetimes, ModifyOrder(o, e, b, vol, t)
  PROVE  BookInv'
<1>1. PICK x \in Order : /\ orders' = (orders \ {o}) \cup {x}
                         /\ x.ticket = o.ticket /\ ValidVolume(x.vol)
  <2> DEFINE price == IF e.price > 0 THEN e.price ELSE o.price
             trigger == IF o.type \in {"buyStopLimit", "sellStopLimit"}
                        THEN IF e.trigger > 0 THEN e.trigger ELSE o.trigger
                        ELSE price
             retimed == t.time # "gtc" \/ t.exp # 0
             x == [o EXCEPT !.price = price, !.trigger = trigger,
                            !.sl = b.sl, !.tp = b.tp,
                            !.vol = IF vol > 0 THEN vol ELSE @,
                            !.time = IF retimed THEN t.time ELSE @,
                            !.exp = IF ~retimed THEN @
                                    ELSE IF t.time = "gtc" THEN 0 ELSE t.exp]
  <2>1. orders' = (orders \ {o}) \cup {x} /\ (vol > 0 => ValidVolume(vol))
    BY DEF ModifyOrder
  <2>2. o \in Order /\ ValidVolume(o.vol)
    BY DEF BookInv, BookTypeOK, VolumesTradable
  <2>3. price \in Nat /\ trigger \in Nat
    BY <2>2, ConstantsAssumption DEF Order
  <2> HIDE DEF price, trigger, retimed
  <2>4. x \in Order
    BY <2>2, <2>3, ZenonT(40), ConstantsAssumption DEF Order
  <2>5. x.ticket = o.ticket /\ x.vol = (IF vol > 0 THEN vol ELSE o.vol)
    BY <2>2 DEF Order
  <2>6. ValidVolume(x.vol)
    BY <2>1, <2>2, <2>5
  <2> HIDE DEF x
  <2>7. QED
    BY <2>1, <2>4, <2>5, <2>6
<1>2. UNCHANGED <<balance, leverage, funded, positions, history, deals, nextTicket>>
  BY DEF ModifyOrder
<1>3. /\ BookTypeOK /\ TicketsUnique /\ DealsSettled /\ VolumesTradable
      /\ PositionsBacked /\ EnteredOnce /\ LimitsHonoured
  BY DEF BookInv
<1>4. BookTypeOK' /\ TicketsUnique' /\ DealsSettled' /\ VolumesTradable'
  BY <1>1, <1>2, <1>3 DEF BookTypeOK, TicketsUnique, DealsSettled, VolumesTradable
<1>5. PositionsBacked' /\ EnteredOnce' /\ LimitsHonoured'
  BY <1>1, <1>2, <1>3
  DEF PositionsBacked, PositionBacked, EnteredOnce, LimitsHonoured
<1>6. QED
  BY <1>4, <1>5 DEF BookInv

\* A stop-limit that triggers keeps its ticket, its volume and its price.
LEMMA TriggerKeepsBook ==
  ASSUME BookInv, NEW o \in orders, TriggerOrder(o), UNCHANGED <<leverage, funded>>
  PROVE  BookInv'
<1> DEFINE x == [o EXCEPT !.type = IF @ = "buyStopLimit" THEN "buyLimit" ELSE "sellLimit"]
<1>1. /\ orders' = (orders \ {o}) \cup {x}
      /\ UNCHANGED <<balance, positions, history, deals, nextTicket>>
  BY DEF TriggerOrder
<1>2. /\ BookTypeOK /\ TicketsUnique /\ DealsSettled /\ VolumesTradable
      /\ PositionsBacked /\ EnteredOnce /\ LimitsHonoured
  BY DEF BookInv
<1>3. x \in Order /\ x.ticket = o.ticket /\ x.vol = o.vol
  BY <1>2 DEF BookTypeOK, Order, AllPendingTypes
<1> HIDE DEF x
<1>4. BookTypeOK' /\ TicketsUnique' /\ DealsSettled' /\ VolumesTradable'
  BY <1>1, <1>2, <1>3 DEF BookTypeOK, TicketsUnique, DealsSettled, VolumesTradable
<1>5. PositionsBacked' /\ EnteredOnce' /\ LimitsHonoured'
  BY <1>1, <1>2 DEF PositionsBacked, PositionBacked, EnteredOnce, LimitsHonoured
<1>6. QED
  BY <1>4, <1>5 DEF BookInv

\* Balance: the entry's deal belongs to no order and no position.
LEMMA BalanceKeepsBook ==
  ASSUME BookInv, NEW l \in Logins, NEW amount \in Amounts, Balance(l, amount)
  PROVE  BookInv'
<1> DEFINE d == Fill(nextTicket, 0, l, "balance", "in", 0, 0, amount, 0)
<1>1. /\ deals' = deals \cup {d}
      /\ balance' = Credited(l, amount)
      /\ nextTicket' = nextTicket + 1
      /\ UNCHANGED <<leverage, funded, positions, orders, history>>
  BY DEF Balance
<1>2. /\ BookTypeOK /\ TicketsUnique /\ DealsSettled /\ VolumesTradable
      /\ PositionsBacked /\ EnteredOnce /\ LimitsHonoured
  BY DEF BookInv
<1>3. /\ amount \in Int
      /\ \A h \in history : h.ticket \in Nat /\ h.ticket # 0
      /\ \A o \in orders : o.ticket \in Nat /\ o.ticket # 0
  BY <1>2, ConstantsAssumption DEF BookTypeOK, TicketsUnique
<1>4. BookTypeOK'
  BY <1>1, <1>2, <1>3 DEF BookTypeOK, Fill, Deal, Credited
<1>5. TicketsUnique'
  BY <1>1, <1>2
  DEF TicketsUnique, BookTypeOK, Fill, FinalOrder, Deal, Order, Position
<1>6. DealsSettled'
  BY <1>1, <1>2, <1>3 DEF DealsSettled, BookTypeOK, Fill, Deal
<1>7. VolumesTradable' /\ PositionsBacked'
  BY <1>1, <1>2 DEF VolumesTradable, PositionsBacked, PositionBacked
<1>8. EnteredOnce'
  BY <1>1, <1>2 DEF EnteredOnce, Fill
<1>9. LimitsHonoured'
  BY <1>1, <1>2, <1>3 DEF LimitsHonoured, Fill
<1>10. QED
  BY <1>4, <1>5, <1>6, <1>7, <1>8, <1>9 DEF BookInv

\* Reset and SetLeverage: what is left of a consistent book is consistent, since
\* no position refers to another account's history.
LEMMA ResetKeepsBook ==
  ASSUME BookInv, NEW l \in Logins, NEW amount \in Funding, Reset(l, amount)
  PROVE  BookInv'
<1>1. /\ positions' = {p \in positions : p.login # l}
      /\ orders' = {o \in orders : o.login # l}
      /\ history' = {h \in history : h.login # l}
      /\ deals' = {d \in deals : d.login # l}
      /\ leverage' = [leverage EXCEPT ![l] = DefaultLeverage]
      /\ balance' = [balance EXCEPT ![l] = amount]
      /\ funded' = [funded EXCEPT ![l] = amount]
      /\ nextTicket' = nextTicket
  BY DEF Reset, Others
<1>2. /\ BookTypeOK /\ TicketsUnique /\ DealsSettled /\ VolumesTradable
      /\ PositionsBacked /\ EnteredOnce /\ LimitsHonoured
  BY DEF BookInv
<1>3. BookTypeOK'
  BY <1>1, <1>2, ConstantsAssumption DEF BookTypeOK
<1>4. TicketsUnique' /\ DealsSettled' /\ VolumesTradable'
  BY <1>1, <1>2 DEF TicketsUnique, DealsSettled, VolumesTradable
<1>5. PositionsBacked'
  BY <1>1, <1>2 DEF PositionsBacked, PositionBacked
<1>6. EnteredOnce' /\ LimitsHonoured'
  BY <1>1, <1>2 DEF EnteredOnce, LimitsHonoured
<1>7. QED
  BY <1>3, <1>4, <1>5, <1>6 DEF BookInv

LEMMA SetLeverageKeepsBook ==
  ASSUME BookInv, NEW l \in Logins, NEW lev \in Leverages, SetLeverage(l, lev)
  PROVE  BookInv'
<1>1. BookTypeOK'
  BY ConstantsAssumption DEF BookInv, BookTypeOK, SetLeverage
<1>2. QED
  BY <1>1
  DEF BookInv, SetLeverage, TicketsUnique, DealsSettled, VolumesTradable,
      PositionsBacked, PositionBacked, EnteredOnce, LimitsHonoured

-----------------------------------------------------------------------------
(* The feed's and the pass's own variables *)

LEMMA InitInv == Init => TypeOK /\ BookInv
<1> SUFFICES ASSUME Init PROVE TypeOK /\ BookInv
  OBVIOUS
<1>1. BookTypeOK
  <2>1. Funding \subseteq Int /\ DefaultLeverage \in Nat \ {0}
    BY ConstantsAssumption
  <2>2. balance \in [Logins -> Int] /\ funded \in [Logins -> Int]
    BY <2>1 DEF Init
  <2>3. leverage \in [Logins -> Nat \ {0}]
    BY <2>1 DEF Init
  <2>4. QED
    BY <2>2, <2>3 DEF Init, BookTypeOK
<1>2. TypeOK
  BY <1>1, ConstantsAssumption DEF Init, TypeOK
<1>3. QED
  BY <1>1, <1>2
  DEF Init, BookInv, TicketsUnique, DealsSettled, VolumesTradable, PositionsBacked,
      PositionBacked, EnteredOnce, LimitsHonoured

\* A visit starts at an account's positions.
LEMMA VisitType ==
  ASSUME TypeOK, NEW l \in Logins, VisitAccount(l)
  PROVE  /\ phase' \in {"idle", "stops", "pending", "stopout"}
         /\ visiting' \in Logins \cup {NoLogin}
         /\ left' \subseteq Logins /\ todo' \subseteq Nat /\ rounds' \in Nat
BY DEF TypeOK, BookTypeOK, VisitAccount, Tickets, PositionsOf, Position

LEMMA RequestInv == TypeOK /\ BookInv /\ Request => TypeOK' /\ BookInv'
<1> SUFFICES ASSUME TypeOK, BookInv, Request PROVE TypeOK' /\ BookInv'
  OBVIOUS
<1>1. quote \in [Symbols -> Nat] /\ day \in Nat
  BY DEF TypeOK
<1>2. ASSUME BookInv', UNCHANGED pass, UNCHANGED <<inSession, day>>,
             quote' \in [Symbols -> Nat]
      PROVE  TypeOK'
  BY <1>2 DEF TypeOK, BookInv, pass
<1>3. ASSUME NEW l \in Logins, NEW s \in Symbols, NEW side \in Sides,
             NEW vol \in Volumes, NEW b \in Brackets, NEW q \in Readings,
             OpenPosition(l, s, side, vol, b, q)
      PROVE  TypeOK' /\ BookInv'
  <2>1. BookInv'
    BY <1>1, <1>3, OpenKeepsBook
  <2>2. quote' \in [Symbols -> Nat]
    BY <1>1, <1>3, ReadingsType DEF OpenPosition
  <2>3. QED
    BY <1>2, <1>3, <2>1, <2>2 DEF OpenPosition
<1>4. ASSUME NEW l \in Logins, NEW s \in Symbols, NEW type \in PendingTypes,
             NEW vol \in Volumes, NEW e \in Entries, NEW b \in Brackets,
             NEW t \in Lifetimes, PlacePending(l, s, type, vol, e, b, t)
      PROVE  TypeOK' /\ BookInv'
  BY <1>1, <1>2, <1>4, PlaceKeepsBook DEF PlacePending, feed
<1>5. ASSUME NEW p \in positions, NEW side \in Sides, NEW vol \in Volumes,
             ClosePosition(p, side, vol)
      PROVE  TypeOK' /\ BookInv'
  <2> DEFINE part == IF vol <= 0 \/ vol > p.vol THEN p.vol ELSE vol
  <2>1. part \in 1..p.vol
    BY ConstantsAssumption
    DEF BookInv, BookTypeOK, VolumesTradable, ValidVolume, Position
  <2>2. /\ Settle(p, part, quote)
        /\ UNCHANGED <<orders, leverage, funded, pass, feed>>
    BY <1>5 DEF ClosePosition
  <2> HIDE DEF part
  <2>3. BookInv'
    BY <1>1, <2>1, <2>2, SettleKeepsBook
  <2>4. QED
    BY <1>1, <1>2, <2>2, <2>3 DEF feed
<1>6. ASSUME NEW p \in positions, NEW b \in Brackets, ModifyPosition(p, b)
      PROVE  TypeOK' /\ BookInv'
  BY <1>1, <1>2, <1>6, ModifyPositionKeepsBook DEF ModifyPosition, feed
<1>7. ASSUME NEW o \in orders, NEW e \in Entries, NEW b \in Brackets,
             NEW vol \in Volumes, NEW t \in Lifetimes, ModifyOrder(o, e, b, vol, t)
      PROVE  TypeOK' /\ BookInv'
  BY <1>1, <1>2, <1>7, ModifyOrderKeepsBook DEF ModifyOrder, feed
<1>8. ASSUME NEW o \in orders, RemoveOrder(o)
      PROVE  TypeOK' /\ BookInv'
  <2>1. /\ Finish(o, "canceled")
        /\ UNCHANGED <<balance, leverage, funded, positions, deals, nextTicket>>
        /\ UNCHANGED <<feed, pass>>
    BY <1>8 DEF RemoveOrder, Finish
  <2>2. BookInv'
    BY <2>1, FinishKeepsBook
  <2>3. QED
    BY <1>1, <1>2, <2>1, <2>2 DEF feed
<1>9. ASSUME NEW l \in Logins, NEW amount \in Amounts, Balance(l, amount)
       PROVE  TypeOK' /\ BookInv'
  BY <1>1, <1>2, <1>9, BalanceKeepsBook DEF Balance, feed
<1>10. ASSUME NEW l \in Logins, NEW lev \in Leverages, SetLeverage(l, lev)
       PROVE  TypeOK' /\ BookInv'
  BY <1>1, <1>2, <1>10, SetLeverageKeepsBook DEF SetLeverage, feed
<1>11. ASSUME NEW l \in Logins, NEW amount \in Funding, Reset(l, amount)
       PROVE  TypeOK' /\ BookInv'
  BY <1>1, <1>2, <1>11, ResetKeepsBook DEF Reset, feed
<1>12. QED
  BY <1>3, <1>4, <1>5, <1>6, <1>7, <1>8, <1>9, <1>10, <1>11 DEF Request

LEMMA EngineInv == TypeOK /\ BookInv /\ Engine => TypeOK' /\ BookInv'
<1> SUFFICES ASSUME TypeOK, BookInv, Engine PROVE TypeOK' /\ BookInv'
  OBVIOUS
<1>1. quote \in [Symbols -> Nat] /\ BookTypeOK
  BY DEF TypeOK
<1>2. CASE Evaluate
  <2>1. BookInv'
    BY <1>2, BookUnchanged DEF Evaluate
  <2>2. PICK l \in Logins : VisitAccount(l)
    BY <1>2 DEF Evaluate
  <2>3. QED
    BY <1>2, <2>1, <2>2, VisitType DEF Evaluate, TypeOK, BookInv, feed
<1>3. CASE CheckStop
  <2>1. /\ UNCHANGED <<feed, leverage, funded>>
        /\ UNCHANGED <<phase, visiting, left, now, rounds>>
        /\ todo' \subseteq Nat
    BY <1>3 DEF CheckStop, Unmoved, Scanned, TypeOK
  <2>2. BookInv'
    <3>1. CASE UNCHANGED book
      BY <3>1, BookUnchanged
    <3>2. ASSUME NEW p \in positions, Settle(p, p.vol, quote), UNCHANGED orders
          PROVE  BookInv'
      <4>1. p.vol \in 1..p.vol
        BY DEF BookInv, VolumesTradable, ValidVolume
      <4>2. QED
        BY <1>1, <2>1, <3>2, <4>1, SettleKeepsBook
    <3>3. QED
      BY <1>3, <3>1, <3>2 DEF CheckStop
  <2>3. QED
    BY <2>1, <2>2 DEF TypeOK, BookInv, feed
<1>4. CASE StopsDone
  <2>1. BookInv'
    BY <1>4, BookUnchanged DEF StopsDone
  <2>2. todo' \subseteq Nat
    BY <1>1, <1>4 DEF StopsDone, Tickets, OrdersOf, BookTypeOK, Order
  <2>3. QED
    BY <1>4, <2>1, <2>2 DEF StopsDone, TypeOK, BookInv, feed
<1>5. CASE CheckOrder
  <2>1. /\ UNCHANGED <<inSession, day, leverage, funded>>
        /\ UNCHANGED <<phase, visiting, left, now, rounds>>
        /\ todo' \subseteq Nat
    BY <1>5 DEF CheckOrder, Scanned, TypeOK
  <2>2. PICK o \in orders :
          \/ ExpireOrder(o) \/ TriggerOrder(o)
          \/ \E q \in Readings : FillOrder(o, q)
          \/ LeaveOrder(o)
    BY <1>5 DEF CheckOrder
  <2>3. CASE ExpireOrder(o)
    <3>1. BookInv'
      BY <2>1, <2>3, FinishKeepsBook DEF ExpireOrder
    <3>2. QED
      BY <2>1, <2>3, <3>1 DEF ExpireOrder, TypeOK, BookInv
  <2>4. CASE TriggerOrder(o)
    <3>1. BookInv'
      BY <2>1, <2>4, TriggerKeepsBook
    <3>2. QED
      BY <2>1, <2>4, <3>1 DEF TriggerOrder, TypeOK, BookInv
  <2>5. ASSUME NEW q \in Readings, FillOrder(o, q)
        PROVE  TypeOK' /\ BookInv'
    <3>1. BookInv'
      BY <1>1, <2>1, <2>5, FillKeepsBook
    <3>2. quote' \in [Symbols -> Nat]
      BY <1>1, <2>5, ReadingsType DEF FillOrder
    <3>3. QED
      BY <2>1, <3>1, <3>2 DEF TypeOK, BookInv
  <2>6. CASE LeaveOrder(o)
    <3>1. BookInv'
      BY <2>6, BookUnchanged DEF LeaveOrder
    <3>2. QED
      BY <2>1, <2>6, <3>1 DEF LeaveOrder, TypeOK, BookInv
  <2>7. QED
    BY <2>2, <2>3, <2>4, <2>5, <2>6
<1>6. CASE PendingDone
  <2>1. BookInv'
    BY <1>6, BookUnchanged DEF PendingDone
  <2>2. QED
    BY <1>6, <2>1 DEF PendingDone, TypeOK, BookInv, feed
<1>7. ASSUME NEW q \in Readings, StopOut(q)
      PROVE  TypeOK' /\ BookInv'
  <2>1. q \in [Symbols -> Nat] /\ quote' = q
    BY <1>1, <1>7, ReadingsType DEF StopOut
  <2>2. PICK p \in positions : Settle(p, p.vol, q)
    BY <1>7 DEF StopOut, Priced, PositionsOf
  <2>3. p.vol \in 1..p.vol
    BY DEF BookInv, VolumesTradable, ValidVolume
  <2>4. UNCHANGED <<orders, leverage, funded>>
    BY <1>7 DEF StopOut
  <2>5. BookInv'
    BY <2>1, <2>2, <2>3, <2>4, SettleKeepsBook
  <2>6. QED
    BY <1>7, <2>1, <2>5 DEF StopOut, TypeOK, BookInv
<1>8. CASE LeaveAccount
  <2>1. BookInv'
    BY <1>8, BookUnchanged DEF LeaveAccount
  <2>2. UNCHANGED feed /\ now' \in Nat
    BY <1>8 DEF LeaveAccount, TypeOK
  <2>3. CASE left = {}
    BY <1>8, <2>1, <2>2, <2>3 DEF LeaveAccount, TypeOK, BookInv, feed
  <2>4. CASE left # {}
    <3>1. PICK l \in Logins : VisitAccount(l)
      BY <1>8, <2>4 DEF LeaveAccount, TypeOK
    <3>2. QED
      BY <2>1, <2>2, <3>1, VisitType DEF TypeOK, BookInv, feed
  <2>5. QED
    BY <2>3, <2>4
<1>9. QED
  BY <1>2, <1>3, <1>4, <1>5, <1>6, <1>7, <1>8 DEF Engine

LEMMA FeedInv == TypeOK /\ BookInv /\ Feed => TypeOK' /\ BookInv'
<1> SUFFICES ASSUME TypeOK, BookInv, Feed PROVE TypeOK' /\ BookInv'
  OBVIOUS
<1>1. BookInv' /\ UNCHANGED pass
  BY BookUnchanged DEF Feed, QuoteTick, QuoteLost, SessionTurn, DayPasses
<1>2. quote' \in [Symbols -> Nat] /\ inSession' \in [Symbols -> BOOLEAN] /\ day' \in Nat
  <2>1. Bids \subseteq Nat
    BY ConstantsAssumption
  <2>2. CASE \E s \in Symbols, bid \in Bids : QuoteTick(s, bid)
    BY <2>1, <2>2 DEF TypeOK, QuoteTick
  <2>3. CASE \E s \in Streamed : QuoteLost(s)
    <3>1. PICK s \in Streamed : quote' = [quote EXCEPT ![s] = 0]
      BY <2>3 DEF QuoteLost
    <3>2. UNCHANGED <<inSession, day>>
      BY <2>3 DEF QuoteLost
    <3>3. quote' \in [Symbols -> Nat]
      BY <3>1 DEF TypeOK
    <3>4. QED
      BY <3>2, <3>3 DEF TypeOK
  <2>4. CASE \E s \in Weekly : SessionTurn(s)
    BY <2>4 DEF TypeOK, SessionTurn
  <2>5. CASE DayPasses
    BY <2>5 DEF TypeOK, DayPasses
  <2>6. QED
    BY <2>2, <2>3, <2>4, <2>5 DEF Feed
<1>3. QED
  BY <1>1, <1>2 DEF TypeOK, BookInv, pass

LEMMA NextInv == TypeOK /\ BookInv /\ [Next]_vars => TypeOK' /\ BookInv'
<1> SUFFICES ASSUME TypeOK, BookInv, [Next]_vars PROVE TypeOK' /\ BookInv'
  OBVIOUS
<1>1. CASE Next
  BY <1>1, RequestInv, EngineInv, FeedInv DEF Next
<1>2. CASE UNCHANGED vars
  <2>1. BookInv'
    BY <1>2, BookUnchanged DEF vars
  <2>2. QED
    BY <1>2, <2>1 DEF vars, feed, pass, TypeOK, BookInv
<1>3. QED
  BY <1>1, <1>2

\* The fields keep their types: no request, pass or price makes a volume, a
\* ticket or a state the engine does not know (the whole of demoBroker).
THEOREM Typing == Spec => []TypeOK
<1>1. QED
  BY InitInv, NextInv, PTL DEF Spec

\* The book is consistent in every reachable state: unique tickets, positions
\* backed by their history and entered once, tradable volumes, limits honoured
\* (openPosition, settle, placePending, modifyOrder, checkPending, checkStopOut,
\* Reset).
THEOREM Consistency == Spec => []BookInv
<1>1. QED
  BY InitInv, NextInv, PTL DEF Spec

\* No order is filled twice, whatever interleaves with the pass (checkPending).
THEOREM EntersOnce == Spec => []EnteredOnce
<1>1. BookInv => EnteredOnce
  BY DEF BookInv
<1>2. QED
  BY Consistency, <1>1, PTL

\* No limit fills worse than its price (checkPending, modifyOrder).
THEOREM HonoursLimits == Spec => []LimitsHonoured
<1>1. BookInv => LimitsHonoured
  BY DEF BookInv
<1>2. QED
  BY Consistency, <1>1, PTL

-----------------------------------------------------------------------------
(* Sums over finite sets: MapThenSumSet adds up one element at a time.  g is
   a table of sums of f, one for each subset of S.                           *)

\* The element that MapThenSumSet takes out of T.
First(T) == CHOOSE x \in T : TRUE

\* g maps each subset of S to the sum of f over it.
SumsOver(g, f, S) ==
  \A T \in SUBSET S : g[T] = IF T = {} THEN 0 ELSE f[First(T)] + g[T \ {First(T)}]

\* Induction over the subsets of a finite set, on a set Good instead of a predicate.
LEMMA SubsetInduction ==
  ASSUME NEW S, IsFiniteSet(S), NEW Good,
         \A T \in SUBSET S : (\A U \in SUBSET T : U # T => U \in Good) => T \in Good
  PROVE  \A T \in SUBSET S : T \in Good
<1>. DEFINE Bad == {T \in SUBSET S : T \notin Good}
<1>. SUFFICES ASSUME Bad # {} PROVE FALSE
  OBVIOUS
<1>1. IsWellFoundedOn(StrictSubsetOrdering(S), SUBSET S)
  <2>1. FiniteSubsetsOf(S) = SUBSET S
    BY FS_FiniteSubsetsOfFinite
  <2>2. IsWellFoundedOn(StrictSubsetOrdering(S), FiniteSubsetsOf(S))
    BY FS_StrictSubsetOrderingWellFounded
  <2>. QED  BY <2>1, <2>2
<1>2. Bad \subseteq SUBSET S
  OBVIOUS
<1>. HIDE DEF Bad
<1>3. PICK T \in Bad : \A U \in Bad : ~(<<U, T>> \in StrictSubsetOrdering(S))
  BY <1>1, <1>2, WFMin
<1>. USE DEF Bad
<1>4. \A U \in SUBSET T : U # T => U \in Good
  BY <1>3 DEF StrictSubsetOrdering
<1>. QED  BY <1>3, <1>4

LEMMA FirstIsIn == ASSUME NEW T, T # {} PROVE First(T) \in T
BY DEF First

\* Two tables of sums agree.
LEMMA SumsAreUnique ==
  ASSUME NEW S, IsFiniteSet(S), NEW f, NEW g, NEW h, SumsOver(g, f, S), SumsOver(h, f, S)
  PROVE  \A T \in SUBSET S : g[T] = h[T]
<1>. DEFINE Good == {T \in SUBSET S : g[T] = h[T]}
<1>1. ASSUME NEW T \in SUBSET S, \A U \in SUBSET T : U # T => U \in Good
      PROVE  T \in Good
  <2>1. CASE T = {}
    BY <2>1 DEF SumsOver
  <2>2. CASE T # {}
    <3>1. First(T) \in T
      BY <2>2, FirstIsIn
    <3>2. T \ {First(T)} \in Good
      BY <1>1, <3>1
    <3>3. /\ g[T] = f[First(T)] + g[T \ {First(T)}]
          /\ h[T] = f[First(T)] + h[T \ {First(T)}]
      BY <2>2 DEF SumsOver
    <3>. QED  BY <3>2, <3>3
  <2>. QED  BY <2>1, <2>2
<1>. HIDE DEF Good
<1>2. \A T \in SUBSET S : T \in Good
  BY <1>1, SubsetInduction
<1>. QED  BY <1>2 DEF Good

\* There is a table: each subset extends the tables of its own subsets.
LEMMA SumsExist ==
  ASSUME NEW S, IsFiniteSet(S), NEW f, \A x \in S : f[x] \in Int
  PROVE  \E g \in [SUBSET S -> Int] : SumsOver(g, f, S)
<1>. DEFINE Solves(g, T) == g \in [SUBSET T -> Int] /\ SumsOver(g, f, T)
            Good == {T \in SUBSET S : \E g : Solves(g, T)}
            Sol(T) == CHOOSE g : Solves(g, T)
<1>1. ASSUME NEW T \in SUBSET S, \A U \in SUBSET T : U # T => U \in Good
      PROVE  T \in Good
  <2>1. \A U \in SUBSET T : U # T => Solves(Sol(U), U)
    BY <1>1
  <2>. DEFINE v == IF T = {} THEN 0 ELSE f[First(T)] + Sol(T \ {First(T)})[T \ {First(T)}]
              g == [U \in SUBSET T |-> IF U = T THEN v ELSE Sol(U)[U]]
  <2>2. v \in Int
    <3>1. CASE T # {}
      <4>1. First(T) \in T
        BY <3>1, FirstIsIn
      <4>2. Sol(T \ {First(T)}) \in [SUBSET (T \ {First(T)}) -> Int]
        BY <2>1, <4>1
      <4>3. Sol(T \ {First(T)})[T \ {First(T)}] \in Int
        BY <4>2
      <4>4. f[First(T)] \in Int
        BY <4>1
      <4>. HIDE DEF Sol
      <4>. QED  BY <3>1, <4>3, <4>4
    <3>. QED  BY <3>1
  <2>3. g \in [SUBSET T -> Int]
    <3>. HIDE DEF Sol, v
    <3>1. \A U \in SUBSET T : U # T => Sol(U)[U] \in Int
      BY <2>1
    <3>. QED  BY <2>2, <3>1
  <2>4. ASSUME NEW U \in SUBSET T PROVE g[U] = IF U = {} THEN 0 ELSE f[First(U)] + g[U \ {First(U)}]
    <3>1. CASE U = T
      <4>1. CASE T = {}
        BY <3>1, <4>1
      <4>2. CASE T # {}
        <5>1. First(T) \in T
          BY <4>2, FirstIsIn
        <5>2. g[T \ {First(T)}] = Sol(T \ {First(T)})[T \ {First(T)}]
          BY <5>1
        <5>. QED  BY <3>1, <4>2, <5>2
      <4>. QED  BY <4>1, <4>2
    <3>2. CASE U # T
      <4>. HIDE DEF Sol, v
      <4>1. g[U] = Sol(U)[U] /\ Solves(Sol(U), U)
        BY <2>1, <3>2
      <4>2. CASE U = {}
        BY <4>1, <4>2 DEF SumsOver
      <4>3. CASE U # {}
        <5>. DEFINE W == U \ {First(U)}
        <5>1. First(U) \in U /\ W \in SUBSET T /\ W # T /\ W \in SUBSET U
          BY <4>3, FirstIsIn, <3>2
        <5>2. g[W] = Sol(W)[W] /\ SumsOver(Sol(W), f, W)
          BY <2>1, <5>1
        <5>3. Sol(U)[U] = f[First(U)] + Sol(U)[W]
          BY <4>1, <4>3 DEF SumsOver
        <5>4. SumsOver(Sol(U), f, W)
          BY <4>1, <5>1 DEF SumsOver
        <5>5. IsFiniteSet(W)
          BY <5>1, FS_Subset
        <5>6. Sol(U)[W] = Sol(W)[W]
          BY <5>2, <5>4, <5>5, SumsAreUnique
        <5>. QED  BY <4>1, <4>3, <5>2, <5>3, <5>6
      <4>. QED  BY <4>2, <4>3
    <3>. QED  BY <3>1, <3>2
  <2>. HIDE DEF g
  <2>5. Solves(g, T)
    BY <2>3, <2>4 DEF SumsOver
  <2>. QED  BY <2>5
<1>. HIDE DEF Good
<1>2. \A T \in SUBSET S : T \in Good
  BY <1>1, SubsetInduction
<1>. QED  BY <1>2 DEF Good

\* Whichever element is taken out first, the sum is the same.
LEMMA SumsInAnyOrder ==
  ASSUME NEW S, IsFiniteSet(S), NEW f, \A x \in S : f[x] \in Int, NEW g, SumsOver(g, f, S)
  PROVE  /\ g[{}] = 0
         /\ \A T \in SUBSET S : g[T] \in Int /\ \A y \in T : g[T] = f[y] + g[T \ {y}]
<1>. DEFINE Good == {T \in SUBSET S : g[T] \in Int /\ \A y \in T : g[T] = f[y] + g[T \ {y}]}
<1>0. g[{}] = 0
  BY DEF SumsOver
<1>1. ASSUME NEW T \in SUBSET S, \A U \in SUBSET T : U # T => U \in Good
      PROVE  T \in Good
  <2>1. CASE T = {}
    BY <1>0, <2>1
  <2>2. CASE T # {}
    <3>1. PICK x \in T : g[T] = f[x] + g[T \ {x}]
      BY <2>2, FirstIsIn DEF SumsOver
    <3>2. \A y \in T : T \ {y} \in Good /\ f[y] \in Int
      BY <1>1
    <3>3. ASSUME NEW y \in T, y # x PROVE g[T] = f[y] + g[T \ {y}]
      <4>. DEFINE W == (T \ {x}) \ {y}
      <4>1. g[T \ {x}] = f[y] + g[W]
        BY <3>2, <3>3
      <4>2. (T \ {y}) \ {x} = W
        OBVIOUS
      <4>3. g[T \ {y}] = f[x] + g[W]
        BY <3>2, <3>3, <4>2
      <4>4. g[W] \in Int
        <5>1. W \in SUBSET T /\ W # T
          OBVIOUS
        <5>. QED  BY <1>1, <5>1
      <4>5. f[x] \in Int /\ f[y] \in Int
        BY <3>2
      <4>. HIDE DEF W, Good
      <4>. QED  BY <3>1, <4>1, <4>3, <4>4, <4>5
    <3>4. g[T] \in Int
      <4>1. g[T \ {x}] \in Int /\ f[x] \in Int
        BY <3>2
      <4>. HIDE DEF Good
      <4>. QED  BY <3>1, <4>1
    <3>5. \A y \in T : g[T] = f[y] + g[T \ {y}]
      BY <3>1, <3>3
    <3>. QED  BY <3>4, <3>5
  <2>. QED  BY <2>1, <2>2
<1>. HIDE DEF Good
<1>2. \A T \in SUBSET S : T \in Good
  BY <1>1, SubsetInduction
<1>. QED  BY <1>0, <1>2 DEF Good

\* The sum of f over S.
Total(f, S) == CHOOSE n : \E g : SumsOver(g, f, S) /\ n = g[S]

LEMMA TotalIs ==
  ASSUME NEW S, IsFiniteSet(S), NEW f, NEW g, SumsOver(g, f, S)
  PROVE  Total(f, S) = g[S]
<1>1. \A h : SumsOver(h, f, S) => h[S] = g[S]
  BY SumsAreUnique
<1>. QED  BY <1>1 DEF Total

\* The total, one element at a time.
LEMMA TotalAdds ==
  ASSUME NEW S, IsFiniteSet(S), NEW x, x \notin S, NEW f, \A y \in S \cup {x} : f[y] \in Int
  PROVE  /\ Total(f, {}) = 0
         /\ Total(f, S) \in Int
         /\ Total(f, S \cup {x}) = f[x] + Total(f, S)
<1>. DEFINE T == S \cup {x}
<1>1. IsFiniteSet(T) /\ IsFiniteSet({})
  BY FS_AddElement, FS_EmptySet
<1>2. PICK g : SumsOver(g, f, T)
  BY <1>1, SumsExist
<1>3. SumsOver(g, f, S) /\ SumsOver(g, f, {})
  BY <1>2 DEF SumsOver
<1>4. /\ g[{}] = 0 /\ g[S] \in Int
      /\ g[T] = f[x] + g[T \ {x}]
  BY <1>1, <1>2, SumsInAnyOrder
<1>5. T \ {x} = S
  OBVIOUS
<1>6. Total(f, T) = g[T] /\ Total(f, S) = g[S] /\ Total(f, {}) = g[{}]
  BY <1>1, <1>2, <1>3, TotalIs
<1>. QED  BY <1>4, <1>5, <1>6

\* MapThenSumSet of the volumes, and of the profits, is that total.
LEMMA VolumeIsTotal ==
  ASSUME NEW S, IsFiniteSet(S), NEW U, S \subseteq U, \A d \in S : d.vol \in Int
  PROVE  VolumeOf(S) = Total([d \in U |-> d.vol], S)
<1>. DEFINE f == [d \in U |-> d.vol]
            Rec(g) == g = [T \in SUBSET S |->
                             IF T = {} THEN 0
                             ELSE LET x == CHOOSE x \in T : TRUE IN x.vol + g[T \ {x}]]
            iter == CHOOSE g : Rec(g)
<1>1. PICK g \in [SUBSET S -> Int] : SumsOver(g, f, S)
  BY SumsExist
<1>2. Rec(g)
  BY <1>1, FirstIsIn DEF SumsOver, First
<1>3. Rec(iter)
  BY <1>2
<1>. HIDE DEF iter
<1>4. SumsOver(iter, f, S)
  BY <1>3, FirstIsIn DEF SumsOver, First
<1>5. VolumeOf(S) = iter[S]
  BY DEF VolumeOf, MapThenSumSet, MapThenFoldSet, iter
<1>. QED  BY <1>4, <1>5, TotalIs

LEMMA ProfitIsTotal ==
  ASSUME NEW S, IsFiniteSet(S), NEW U, S \subseteq U, \A d \in S : d.profit \in Int
  PROVE  ProfitOf(S) = Total([d \in U |-> d.profit], S)
<1>. DEFINE f == [d \in U |-> d.profit]
            Rec(g) == g = [T \in SUBSET S |->
                             IF T = {} THEN 0
                             ELSE LET x == CHOOSE x \in T : TRUE IN x.profit + g[T \ {x}]]
            iter == CHOOSE g : Rec(g)
<1>1. PICK g \in [SUBSET S -> Int] : SumsOver(g, f, S)
  BY SumsExist
<1>2. Rec(g)
  BY <1>1, FirstIsIn DEF SumsOver, First
<1>3. Rec(iter)
  BY <1>2
<1>. HIDE DEF iter
<1>4. SumsOver(iter, f, S)
  BY <1>3, FirstIsIn DEF SumsOver, First
<1>5. ProfitOf(S) = iter[S]
  BY DEF ProfitOf, MapThenSumSet, MapThenFoldSet, iter
<1>. QED  BY <1>4, <1>5, TotalIs

LEMMA VolumeAdds ==
  ASSUME NEW S, IsFiniteSet(S), NEW x, x \notin S, \A y \in S \cup {x} : y.vol \in Int
  PROVE  /\ VolumeOf({}) = 0 /\ VolumeOf(S) \in Int
         /\ VolumeOf(S \cup {x}) = VolumeOf(S) + x.vol
<1>. DEFINE T == S \cup {x}
            f == [y \in T |-> y.vol]
<1>1. IsFiniteSet(T) /\ IsFiniteSet({})
  BY FS_AddElement, FS_EmptySet
<1>2. VolumeOf(T) = Total(f, T) /\ VolumeOf(S) = Total(f, S) /\ VolumeOf({}) = Total(f, {})
  BY <1>1, VolumeIsTotal
<1>3. \A y \in T : f[y] \in Int
  OBVIOUS
<1>4. f[x] = x.vol /\ x.vol \in Int
  OBVIOUS
<1>. HIDE DEF f
<1>5. /\ Total(f, {}) = 0 /\ Total(f, S) \in Int
      /\ Total(f, S \cup {x}) = f[x] + Total(f, S)
  BY <1>3, TotalAdds
<1>. QED  BY <1>2, <1>4, <1>5

LEMMA ProfitAdds ==
  ASSUME NEW S, IsFiniteSet(S), NEW x, x \notin S, \A y \in S \cup {x} : y.profit \in Int
  PROVE  /\ ProfitOf({}) = 0 /\ ProfitOf(S) \in Int
         /\ ProfitOf(S \cup {x}) = ProfitOf(S) + x.profit
<1>. DEFINE T == S \cup {x}
            f == [y \in T |-> y.profit]
<1>1. IsFiniteSet(T) /\ IsFiniteSet({})
  BY FS_AddElement, FS_EmptySet
<1>2. ProfitOf(T) = Total(f, T) /\ ProfitOf(S) = Total(f, S) /\ ProfitOf({}) = Total(f, {})
  BY <1>1, ProfitIsTotal
<1>3. \A y \in T : f[y] \in Int
  OBVIOUS
<1>4. f[x] = x.profit /\ x.profit \in Int
  OBVIOUS
<1>. HIDE DEF f
<1>5. /\ Total(f, {}) = 0 /\ Total(f, S) \in Int
      /\ Total(f, S \cup {x}) = f[x] + Total(f, S)
  BY <1>3, TotalAdds
<1>. QED  BY <1>2, <1>4, <1>5

-----------------------------------------------------------------------------
(* The two ledgers, kept by one deal at a time *)

\* A deal that moves an account's balance by its own profit keeps the ledger; the
\* profit is 0 on the way in (deal, credit).
LEMMA BookedInLedger ==
  ASSUME BookInv, IsFiniteSet(deals), BalanceIsLedger,
         NEW d, d \notin deals, d.profit \in Int, deals' = deals \cup {d},
         \A l \in Logins :
           balance'[l] = IF l = d.login THEN balance[l] + d.profit ELSE balance[l],
         funded' = funded
  PROVE  IsFiniteSet(deals') /\ BalanceIsLedger'
<1>1. IsFiniteSet(deals')
  BY FS_AddElement
<1>2. ASSUME NEW l \in Logins
      PROVE  balance'[l] = funded[l] + ProfitOf(DealsOf(l)')
  <2>1. /\ IsFiniteSet(DealsOf(l)) /\ d \notin DealsOf(l)
        /\ \A y \in DealsOf(l) \cup {d} : y.profit \in Int
    <3>1. DealsOf(l) \subseteq deals
      BY DEF DealsOf
    <3>2. \A y \in deals : y.profit \in Int
      BY DEF BookInv, BookTypeOK, Deal
    <3>. QED  BY <3>1, <3>2, FS_Subset
  <2>2. balance[l] = funded[l] + ProfitOf(DealsOf(l)) /\ funded[l] \in Int
    BY DEF BalanceIsLedger, BookInv, BookTypeOK
  <2>3. CASE l = d.login
    <3>1. DealsOf(l)' = DealsOf(l) \cup {d}
      BY <2>3 DEF DealsOf
    <3>2. /\ ProfitOf(DealsOf(l)) \in Int
          /\ ProfitOf(DealsOf(l)') = ProfitOf(DealsOf(l)) + d.profit
      BY <2>1, <3>1, ProfitAdds
    <3>. QED  BY <2>2, <2>3, <3>2
  <2>4. CASE l # d.login
    <3>1. DealsOf(l)' = DealsOf(l)
      BY <2>4 DEF DealsOf
    <3>. QED  BY <2>2, <2>4, <3>1
  <2>. QED  BY <2>3, <2>4
<1>3. BalanceIsLedger'
  BY <1>2 DEF BalanceIsLedger
<1>. QED  BY <1>1, <1>3

\* What touches neither deals nor positions nor money leaves the ledger alone.
LEMMA LedgerStands ==
  ASSUME LedgerInv, UNCHANGED <<balance, funded, positions, deals>>
  PROVE  LedgerInv'
BY DEF LedgerInv, OneOwner, BalanceIsLedger, VolumeConserved, DealsOf, ClosesOf, OpenOf

\* Volumes are integers, and what they are summed over is finite.
LEMMA VolumeSets ==
  ASSUME BookInv, IsFiniteSet(deals), IsFiniteSet(positions), NEW id
  PROVE  /\ IsFiniteSet(ClosesOf(id)) /\ \A c \in ClosesOf(id) : c.vol \in Int
         /\ IsFiniteSet(OpenOf(id)) /\ \A p \in OpenOf(id) : p.vol \in Int
<1>1. ClosesOf(id) \subseteq deals /\ OpenOf(id) \subseteq positions
  BY DEF ClosesOf, OpenOf
<1>2. (\A c \in deals : c.vol \in Int) /\ (\A p \in positions : p.vol \in Int)
  BY DEF BookInv, BookTypeOK, Deal, Position
<1>. QED  BY <1>1, <1>2, FS_Subset

\* The volume of one item, of none, and of one more.
LEMMA VolumeOfOne ==
  ASSUME NEW x, x.vol \in Int
  PROVE  VolumeOf({}) = 0 /\ VolumeOf({x}) = x.vol
<1>1. /\ VolumeOf({}) = 0 /\ VolumeOf({} \cup {x}) = VolumeOf({}) + x.vol
  BY FS_EmptySet, VolumeAdds
<1>2. {} \cup {x} = {x}
  OBVIOUS
<1>. QED  BY <1>1, <1>2

\* A position that is entered under an id no deal and no position has had yet is
\* conserved, and nobody shares it (openPosition, checkPending).
LEMMA EnteredInLedger ==
  ASSUME BookInv, LedgerInv,
         NEW d, NEW x, deals' = deals \cup {d}, positions' = positions \cup {x},
         d.entry = "in", d.position = x.ticket, d.vol = x.vol, x.vol \in Int,
         d.login = x.login,
         \A r \in deals : r.position # x.ticket,
         \A p \in positions : p.ticket # x.ticket
  PROVE  OneOwner' /\ VolumeConserved' /\ IsFiniteSet(positions')
<1>1. IsFiniteSet(positions')
  BY FS_AddElement DEF LedgerInv
<1>2. OneOwner'
  <2>1. \A r \in deals, p \in positions' : r.position = p.ticket => r.login = p.login
    BY DEF LedgerInv, OneOwner
  <2>2. \A p \in positions' : d.position = p.ticket => d.login = p.login
    OBVIOUS
  <2>3. \A r \in deals : r.position # d.position
    OBVIOUS
  <2>. QED  BY <2>1, <2>2, <2>3 DEF LedgerInv, OneOwner
<1>3. ASSUME NEW r \in deals', r.entry = "in", r.position # 0
      PROVE  r.vol = VolumeOf(ClosesOf(r.position)') + VolumeOf(OpenOf(r.position)')
  <2>1. CASE r \in deals
    <3>1. ClosesOf(r.position)' = ClosesOf(r.position)
      BY DEF ClosesOf
    <3>2. OpenOf(r.position)' = OpenOf(r.position)
      BY <2>1 DEF OpenOf
    <3>. QED  BY <1>3, <2>1, <3>1, <3>2 DEF LedgerInv, VolumeConserved
  <2>2. CASE r = d
    <3>1. ClosesOf(r.position)' = {}
      BY <2>2 DEF ClosesOf
    <3>2. OpenOf(r.position)' = {x}
      BY <2>2 DEF OpenOf
    <3>3. VolumeOf({}) = 0 /\ VolumeOf({x}) = x.vol
      BY VolumeOfOne
    <3>4. /\ VolumeOf(ClosesOf(r.position)') = 0
          /\ VolumeOf(OpenOf(r.position)') = x.vol
      BY <3>1, <3>2, <3>3
    <3>5. r.vol = x.vol /\ x.vol \in Int
      BY <2>2
    <3>. QED  BY <3>4, <3>5
  <2>. QED  BY <2>1, <2>2
<1>4. VolumeConserved'
  BY <1>3 DEF VolumeConserved
<1>. QED  BY <1>1, <1>2, <1>4

\* settle(): the closing deal takes out of the position what it books.
LEMMA SettleInLedger ==
  ASSUME BookInv, LedgerInv,
         NEW p \in positions, NEW vol \in 1..p.vol, NEW q \in [Symbols -> Nat],
         Settle(p, vol, q), UNCHANGED funded
  PROVE  LedgerInv'
<1>. DEFINE profit == FloatingProfit(q, p, vol)
            d == Fill(nextTicket + 1, nextTicket, p.login, Opposite(p.side), "out",
                      ClosePrice(q, p.symbol, p.side), vol, profit, p.ticket)
<1>1. /\ deals' = deals \cup {d}
      /\ balance' = Credited(p.login, profit)
      /\ positions' = (positions \ {p}) \cup Remainder(p, vol)
  BY DEF Settle
<1>2. /\ p \in Position /\ p.vol \in Nat /\ p.ticket # 0
      /\ \A r \in positions : r.ticket = p.ticket => r = p
      /\ \A r \in deals : r.ticket < nextTicket
      /\ nextTicket \in Nat
  BY ConstantsAssumption
  DEF BookInv, BookTypeOK, TicketsUnique, VolumesTradable, ValidVolume, Position
<1>3. profit \in Int
  <2>1. vol \in Int
    OBVIOUS
  <2>. QED  BY <1>2, <2>1, ProfitType
<1>4. /\ d.ticket = nextTicket + 1 /\ d.login = p.login /\ d.profit = profit
      /\ d.vol = vol /\ d.entry = "out" /\ d.position = p.ticket
  BY DEF Fill
<1>. HIDE DEF d, profit
<1>5. d \notin deals
  BY <1>2, <1>4
<1>6. IsFiniteSet(deals') /\ BalanceIsLedger'
  <2>1. \A l \in Logins :
          balance'[l] = IF l = d.login THEN balance[l] + d.profit ELSE balance[l]
    BY <1>1, <1>4 DEF Credited, BookInv, BookTypeOK
  <2>. QED  BY <1>1, <1>3, <1>4, <1>5, <2>1, BookedInLedger DEF LedgerInv
<1>7. \A x \in Remainder(p, vol) :
        /\ x.ticket = p.ticket /\ x.login = p.login /\ x.vol = p.vol - vol
  BY <1>2 DEF Remainder, Position
<1>8. IsFiniteSet(positions')
  <2>1. IsFiniteSet(Remainder(p, vol))
    BY FS_EmptySet, FS_Singleton DEF Remainder
  <2>2. IsFiniteSet(positions \ {p})
    BY FS_Difference DEF LedgerInv
  <2>. QED  BY <1>1, <2>1, <2>2, FS_Union
<1>9. OneOwner'
  <2>1. \A r \in deals', x \in positions' : r.position = x.ticket => r.login = x.login
    BY <1>1, <1>2, <1>4, <1>7 DEF LedgerInv, OneOwner
  <2>2. \A r, s \in deals' : r.position = s.position /\ r.position # 0 => r.login = s.login
    BY <1>1, <1>4 DEF LedgerInv, OneOwner
  <2>. QED  BY <2>1, <2>2 DEF OneOwner
<1>10. ASSUME NEW r \in deals', r.entry = "in", r.position # 0
       PROVE  r.vol = VolumeOf(ClosesOf(r.position)') + VolumeOf(OpenOf(r.position)')
  <2>1. /\ r \in deals
        /\ r.vol = VolumeOf(ClosesOf(r.position)) + VolumeOf(OpenOf(r.position))
    BY <1>1, <1>4, <1>10 DEF LedgerInv, VolumeConserved
  <2>2. CASE r.position # p.ticket
    <3>1. ClosesOf(r.position)' = ClosesOf(r.position)
      BY <1>1, <1>4, <2>2 DEF ClosesOf
    <3>2. OpenOf(r.position)' = OpenOf(r.position)
      BY <1>1, <1>7, <2>2 DEF OpenOf
    <3>. QED  BY <2>1, <3>1, <3>2
  <2>3. CASE r.position = p.ticket
    <3>1. ClosesOf(p.ticket)' = ClosesOf(p.ticket) \cup {d} /\ d \notin ClosesOf(p.ticket)
      BY <1>1, <1>4, <1>5 DEF ClosesOf
    <3>2. OpenOf(p.ticket) = {p}
      BY <1>2 DEF OpenOf
    <3>3. OpenOf(p.ticket)' = Remainder(p, vol)
      BY <1>1, <1>2, <1>7 DEF OpenOf
    <3>4. /\ VolumeOf(ClosesOf(p.ticket)) \in Int
          /\ VolumeOf(ClosesOf(p.ticket)') = VolumeOf(ClosesOf(p.ticket)) + vol
      <4>1. /\ IsFiniteSet(ClosesOf(p.ticket))
            /\ \A y \in ClosesOf(p.ticket) \cup {d} : y.vol \in Int
        BY <1>4, VolumeSets DEF LedgerInv
      <4>. QED  BY <1>4, <3>1, <4>1, VolumeAdds
    <3>5. VolumeOf(OpenOf(p.ticket)) = p.vol /\ VolumeOf({}) = 0
      BY <1>2, <3>2, VolumeOfOne
    <3>6. VolumeOf(OpenOf(p.ticket)') = p.vol - vol
      <4>1. CASE vol >= p.vol
        BY <1>2, <3>3, <3>5, <4>1 DEF Remainder
      <4>2. CASE ~(vol >= p.vol)
        <5>1. PICK x : Remainder(p, vol) = {x}
          BY <4>2 DEF Remainder
        <5>2. x.vol = p.vol - vol /\ x.vol \in Int
          BY <1>2, <1>7, <5>1
        <5>. QED  BY <3>3, <5>1, <5>2, VolumeOfOne
      <4>. QED  BY <4>1, <4>2
    <3>. QED  BY <1>2, <2>1, <2>3, <3>4, <3>5, <3>6
  <2>. QED  BY <2>2, <2>3
<1>11. VolumeConserved'
  BY <1>10 DEF VolumeConserved
<1>. QED  BY <1>6, <1>8, <1>9, <1>11 DEF LedgerInv

\* openPosition: a deal without profit, under a fresh id.
LEMMA OpenInLedger ==
  ASSUME BookInv, LedgerInv,
         NEW l \in Logins, NEW s \in Symbols, NEW side \in Sides, NEW vol \in Volumes,
         NEW b \in Brackets, NEW q \in Readings, OpenPosition(l, s, side, vol, b, q)
  PROVE  LedgerInv'
<1>. DEFINE price == OpenPrice(quote, s, side)
            x == [ticket |-> nextTicket, login |-> l, symbol |-> s, side |-> side,
                  open |-> price, sl |-> b.sl, tp |-> b.tp, vol |-> vol]
            d == Fill(nextTicket + 1, nextTicket, l, side, "in", price, vol, 0, nextTicket)
<1>1. /\ positions' = positions \cup {x}
      /\ deals' = deals \cup {d}
      /\ UNCHANGED <<balance, funded>>
  BY DEF OpenPosition
<1>2. x.ticket = nextTicket /\ x.login = l /\ x.vol = vol
  OBVIOUS
<1>3. /\ d.ticket = nextTicket + 1 /\ d.login = l /\ d.profit = 0
      /\ d.vol = vol /\ d.entry = "in" /\ d.position = nextTicket
  BY DEF Fill
<1>. HIDE DEF x, d
<1>4. /\ nextTicket \in Nat /\ vol \in Int
      /\ \A r \in deals : r.ticket < nextTicket /\ r.position < nextTicket
      /\ \A p \in positions : p.ticket < nextTicket
  BY ConstantsAssumption DEF BookInv, BookTypeOK, TicketsUnique, DealsSettled
<1>5. d \notin deals
  BY <1>3, <1>4
<1>6. IsFiniteSet(deals') /\ BalanceIsLedger'
  <2>1. \A k \in Logins :
          balance'[k] = IF k = d.login THEN balance[k] + d.profit ELSE balance[k]
    BY <1>1, <1>3 DEF BookInv, BookTypeOK
  <2>2. d.profit \in Int /\ funded' = funded
    BY <1>1, <1>3
  <2>. QED  BY <1>1, <1>5, <2>1, <2>2, BookedInLedger DEF LedgerInv
<1>7. OneOwner' /\ VolumeConserved' /\ IsFiniteSet(positions')
  <2>1. \A r \in deals : r.position # x.ticket
    BY <1>2, <1>4 DEF BookInv, BookTypeOK, Deal
  <2>2. \A p \in positions : p.ticket # x.ticket
    BY <1>2, <1>4
  <2>. QED  BY <1>1, <1>2, <1>3, <1>4, <2>1, <2>2, EnteredInLedger
<1>. QED  BY <1>6, <1>7 DEF LedgerInv

\* checkPending's fill: no deal refers to an order that still rested.
LEMMA FillInLedger ==
  ASSUME BookInv, LedgerInv, NEW o \in orders, NEW q \in Readings, FillOrder(o, q),
         UNCHANGED funded
  PROVE  LedgerInv'
<1>. DEFINE x == [ticket |-> o.ticket, login |-> o.login, symbol |-> o.symbol,
                  side |-> SideOf(o.type), open |-> FillPrice(o), sl |-> o.sl,
                  tp |-> o.tp, vol |-> o.vol]
            d == Fill(nextTicket, o.ticket, o.login, SideOf(o.type), "in",
                      FillPrice(o), o.vol, 0, o.ticket)
<1>1. UNCHANGED <<balance, funded>>
  BY DEF FillOrder
<1>2. CASE UNCHANGED <<positions, deals>>
  BY <1>1, <1>2, LedgerStands
<1>3. CASE positions' = positions \cup {x} /\ deals' = deals \cup {d}
  <2>1. x.ticket = o.ticket /\ x.login = o.login /\ x.vol = o.vol
    OBVIOUS
  <2>2. /\ d.ticket = nextTicket /\ d.login = o.login /\ d.profit = 0
        /\ d.vol = o.vol /\ d.entry = "in" /\ d.position = o.ticket
    BY DEF Fill
  <2>3. positions' = positions \cup {x} /\ deals' = deals \cup {d}
    BY <1>3
  <2>. HIDE DEF x, d
  <2>4. /\ o.vol \in Int
        /\ \A r \in deals : r.ticket # nextTicket /\ r.position # o.ticket
        /\ \A p \in positions : p.ticket # o.ticket
    BY DEF BookInv, BookTypeOK, TicketsUnique, DealsSettled, Order
  <2>5. d \notin deals
    BY <2>2, <2>4
  <2>6. IsFiniteSet(deals') /\ BalanceIsLedger'
    <3>1. \A k \in Logins :
            balance'[k] = IF k = d.login THEN balance[k] + d.profit ELSE balance[k]
      BY <1>1, <2>2 DEF BookInv, BookTypeOK
    <3>2. d.profit \in Int /\ funded' = funded
      BY <1>1, <2>2
    <3>. QED  BY <2>3, <2>5, <3>1, <3>2, BookedInLedger DEF LedgerInv
  <2>7. OneOwner' /\ VolumeConserved' /\ IsFiniteSet(positions')
    BY <2>1, <2>2, <2>3, <2>4, EnteredInLedger
  <2>. QED  BY <2>6, <2>7 DEF LedgerInv
<1>. QED  BY <1>2, <1>3 DEF FillOrder

\* New stops leave a position's ticket, account and volume.
LEMMA ModifyPositionInLedger ==
  ASSUME BookInv, LedgerInv, NEW p \in positions, NEW b \in Brackets, ModifyPosition(p, b)
  PROVE  LedgerInv'
<1>. DEFINE x == [p EXCEPT !.sl = b.sl, !.tp = b.tp]
<1>1. /\ positions' = (positions \ {p}) \cup {x}
      /\ UNCHANGED <<balance, funded, deals>>
  BY DEF ModifyPosition
<1>2. /\ x.ticket = p.ticket /\ x.login = p.login /\ x.vol = p.vol /\ p.vol \in Int
      /\ \A r \in positions : r.ticket = p.ticket => r = p
  BY DEF BookInv, BookTypeOK, TicketsUnique, Position
<1>. HIDE DEF x
<1>3. IsFiniteSet(positions')
  BY <1>1, FS_RemoveElement, FS_AddElement DEF LedgerInv
<1>4. OneOwner' /\ BalanceIsLedger'
  BY <1>1, <1>2 DEF LedgerInv, OneOwner, BalanceIsLedger, DealsOf
<1>5. ASSUME NEW id PROVE VolumeOf(OpenOf(id)') = VolumeOf(OpenOf(id))
  <2>1. CASE id = p.ticket
    <3>1. OpenOf(id) = {p} /\ OpenOf(id)' = {x}
      BY <1>1, <1>2, <2>1 DEF OpenOf
    <3>. QED  BY <1>2, <3>1, VolumeOfOne
  <2>2. CASE id # p.ticket
    <3>1. OpenOf(id)' = OpenOf(id)
      BY <1>1, <1>2, <2>2 DEF OpenOf
    <3>. QED  BY <3>1
  <2>. QED  BY <2>1, <2>2
<1>6. \A id : ClosesOf(id)' = ClosesOf(id)
  BY <1>1 DEF ClosesOf
<1>7. \A d \in deals : d.entry = "in" /\ d.position # 0 =>
        d.vol = VolumeOf(ClosesOf(d.position)') + VolumeOf(OpenOf(d.position)')
  BY <1>5, <1>6 DEF LedgerInv, VolumeConserved
<1>8. VolumeConserved'
  BY <1>1, <1>7 DEF VolumeConserved
<1>. QED  BY <1>1, <1>3, <1>4, <1>8 DEF LedgerInv

\* Balance: an entry of no position, for exactly the amount credited.
LEMMA BalanceInLedger ==
  ASSUME BookInv, LedgerInv, NEW l \in Logins, NEW amount \in Amounts, Balance(l, amount)
  PROVE  LedgerInv'
<1>. DEFINE d == Fill(nextTicket, 0, l, "balance", "in", 0, 0, amount, 0)
<1>1. /\ deals' = deals \cup {d}
      /\ balance' = Credited(l, amount)
      /\ UNCHANGED <<funded, positions>>
  BY DEF Balance
<1>2. d.ticket = nextTicket /\ d.login = l /\ d.profit = amount /\ d.position = 0 /\ d.entry = "in"
  BY DEF Fill
<1>. HIDE DEF d
<1>3. /\ amount \in Int
      /\ \A r \in deals : r.ticket # nextTicket
      /\ \A p \in positions : p.ticket # 0
  BY ConstantsAssumption DEF BookInv, BookTypeOK, TicketsUnique
<1>4. IsFiniteSet(deals') /\ BalanceIsLedger'
  <2>1. \A k \in Logins :
          balance'[k] = IF k = d.login THEN balance[k] + d.profit ELSE balance[k]
    BY <1>1, <1>2 DEF Credited, BookInv, BookTypeOK
  <2>2. d \notin deals
    BY <1>2, <1>3
  <2>. QED  BY <1>1, <1>2, <1>3, <2>1, <2>2, BookedInLedger DEF LedgerInv
<1>5. OneOwner'
  BY <1>1, <1>2, <1>3 DEF LedgerInv, OneOwner
<1>6. \A id : ClosesOf(id)' = ClosesOf(id) /\ OpenOf(id)' = OpenOf(id)
  BY <1>1, <1>2 DEF ClosesOf, OpenOf
<1>7. \A r \in deals' : r.entry = "in" /\ r.position # 0 =>
        r.vol = VolumeOf(ClosesOf(r.position)') + VolumeOf(OpenOf(r.position)')
  BY <1>1, <1>2, <1>6 DEF LedgerInv, VolumeConserved
<1>8. VolumeConserved'
  BY <1>7 DEF VolumeConserved
<1>. QED  BY <1>1, <1>4, <1>5, <1>8 DEF LedgerInv

\* Reset: the account starts over with nothing booked; since a position has one
\* owner, the sums of the others are over the deals and positions they were over.
LEMMA ResetInLedger ==
  ASSUME BookInv, LedgerInv, NEW l \in Logins, NEW amount \in Funding, Reset(l, amount)
  PROVE  LedgerInv'
<1>1. /\ positions' = {p \in positions : p.login # l}
      /\ deals' = {d \in deals : d.login # l}
      /\ balance' = [balance EXCEPT ![l] = amount]
      /\ funded' = [funded EXCEPT ![l] = amount]
  BY DEF Reset, Others
<1>2. IsFiniteSet(deals') /\ IsFiniteSet(positions')
  <2>1. deals' \subseteq deals /\ positions' \subseteq positions
    BY <1>1
  <2>. QED  BY <2>1, FS_Subset DEF LedgerInv
<1>3. OneOwner'
  BY <1>1 DEF LedgerInv, OneOwner
<1>4. ASSUME NEW k \in Logins PROVE balance'[k] = funded'[k] + ProfitOf(DealsOf(k)')
  <2>1. CASE k = l
    <3>1. DealsOf(k)' = {}
      BY <1>1, <2>1 DEF DealsOf
    <3>2. ProfitOf({}) = 0
      <4>. DEFINE x == [profit |-> 0]
      <4>1. x.profit \in Int
        OBVIOUS
      <4>. HIDE DEF x
      <4>. QED  BY <4>1, FS_EmptySet, ProfitAdds
    <3>3. balance'[k] = amount /\ funded'[k] = amount /\ amount \in Int
      BY <1>1, <2>1, ConstantsAssumption DEF BookInv, BookTypeOK
    <3>. QED  BY <3>1, <3>2, <3>3
  <2>2. CASE k # l
    <3>1. DealsOf(k)' = DealsOf(k)
      BY <1>1, <2>2 DEF DealsOf
    <3>2. balance'[k] = balance[k] /\ funded'[k] = funded[k]
      BY <1>1, <2>2 DEF BookInv, BookTypeOK
    <3>. QED  BY <3>1, <3>2 DEF LedgerInv, BalanceIsLedger
  <2>. QED  BY <2>1, <2>2
<1>5. BalanceIsLedger'
  BY <1>4 DEF BalanceIsLedger
<1>6. ASSUME NEW d \in deals', d.entry = "in", d.position # 0
      PROVE  d.vol = VolumeOf(ClosesOf(d.position)') + VolumeOf(OpenOf(d.position)')
  <2>1. d \in deals /\ d.login # l
    BY <1>1
  <2>2. ClosesOf(d.position)' = ClosesOf(d.position)
    BY <1>1, <1>6, <2>1 DEF ClosesOf, LedgerInv, OneOwner
  <2>3. OpenOf(d.position)' = OpenOf(d.position)
    BY <1>1, <1>6, <2>1 DEF OpenOf, LedgerInv, OneOwner
  <2>. QED  BY <1>6, <2>1, <2>2, <2>3 DEF LedgerInv, VolumeConserved
<1>7. VolumeConserved'
  BY <1>6 DEF VolumeConserved
<1>. QED  BY <1>2, <1>3, <1>5, <1>7 DEF LedgerInv

-----------------------------------------------------------------------------
LEMMA InitLedger == Init => LedgerInv
<1>. SUFFICES ASSUME Init PROVE LedgerInv
  OBVIOUS
<1>1. deals = {} /\ positions = {} /\ funded = balance /\ balance \in [Logins -> Int]
  BY ConstantsAssumption DEF Init
<1>2. ProfitOf({}) = 0
  <2>. DEFINE x == [profit |-> 0]
  <2>1. x.profit \in Int
    OBVIOUS
  <2>. HIDE DEF x
  <2>. QED  BY <2>1, FS_EmptySet, ProfitAdds
<1>3. \A l \in Logins : DealsOf(l) = {}
  BY <1>1 DEF DealsOf
<1>4. BalanceIsLedger
  BY <1>1, <1>2, <1>3 DEF BalanceIsLedger
<1>. QED
  BY <1>1, <1>4, FS_EmptySet DEF LedgerInv, OneOwner, VolumeConserved

LEMMA RequestLedger == TypeOK /\ BookInv /\ LedgerInv /\ Request => LedgerInv'
<1>. SUFFICES ASSUME TypeOK, BookInv, LedgerInv, Request PROVE LedgerInv'
  OBVIOUS
<1>1. quote \in [Symbols -> Nat]
  BY DEF TypeOK
<1>2. ASSUME NEW l \in Logins, NEW s \in Symbols, NEW vol \in Volumes, NEW b \in Brackets,
             \/ \E side \in Sides, q \in Readings : OpenPosition(l, s, side, vol, b, q)
             \/ \E type \in PendingTypes, e \in Entries, t \in Lifetimes :
                  PlacePending(l, s, type, vol, e, b, t)
      PROVE  LedgerInv'
  BY <1>2, OpenInLedger, LedgerStands DEF PlacePending
<1>3. ASSUME NEW p \in positions, NEW side \in Sides, NEW vol \in Volumes,
             ClosePosition(p, side, vol)
      PROVE  LedgerInv'
  <2>. DEFINE part == IF vol <= 0 \/ vol > p.vol THEN p.vol ELSE vol
  <2>1. part \in 1..p.vol
    BY ConstantsAssumption
    DEF BookInv, BookTypeOK, VolumesTradable, ValidVolume, Position
  <2>2. Settle(p, part, quote) /\ UNCHANGED funded
    BY <1>3 DEF ClosePosition
  <2>. HIDE DEF part
  <2>. QED  BY <1>1, <2>1, <2>2, SettleInLedger
<1>4. ASSUME NEW o \in orders, RemoveOrder(o)
      PROVE  LedgerInv'
  BY <1>4, LedgerStands DEF RemoveOrder
<1>5. ASSUME NEW o \in orders, NEW e \in Entries, NEW b \in Brackets, NEW vol \in Volumes,
             NEW t \in Lifetimes, ModifyOrder(o, e, b, vol, t)
      PROVE  LedgerInv'
  BY <1>5, LedgerStands DEF ModifyOrder
<1>6. ASSUME NEW l \in Logins, NEW lev \in Leverages, SetLeverage(l, lev)
      PROVE  LedgerInv'
  BY <1>6, LedgerStands DEF SetLeverage
<1>. QED
  BY <1>2, <1>3, <1>4, <1>5, <1>6, ModifyPositionInLedger, BalanceInLedger, ResetInLedger
  DEF Request

LEMMA EngineLedger == TypeOK /\ BookInv /\ LedgerInv /\ Engine => LedgerInv'
<1>. SUFFICES ASSUME TypeOK, BookInv, LedgerInv, Engine PROVE LedgerInv'
  OBVIOUS
<1>1. quote \in [Symbols -> Nat]
  BY DEF TypeOK
<1>2. ASSUME NEW p \in positions, NEW q \in [Symbols -> Nat],
             Settle(p, p.vol, q), UNCHANGED funded
      PROVE  LedgerInv'
  <2>1. p.vol \in 1..p.vol
    BY DEF BookInv, VolumesTradable, ValidVolume
  <2>. QED  BY <1>2, <2>1, SettleInLedger
<1>3. CASE UNCHANGED book
  BY <1>3, LedgerStands DEF book
<1>4. CASE CheckStop
  BY <1>1, <1>2, <1>3, <1>4 DEF CheckStop, Unmoved
<1>5. CASE CheckOrder
  <2>1. UNCHANGED funded
    BY <1>5 DEF CheckOrder
  <2>2. PICK o \in orders :
          \/ ExpireOrder(o) \/ TriggerOrder(o)
          \/ \E q \in Readings : FillOrder(o, q)
          \/ LeaveOrder(o)
    BY <1>5 DEF CheckOrder
  <2>3. CASE ExpireOrder(o) \/ TriggerOrder(o) \/ LeaveOrder(o)
    BY <1>3, <2>1, <2>3, LedgerStands DEF ExpireOrder, TriggerOrder, LeaveOrder
  <2>. QED  BY <2>1, <2>2, <2>3, FillInLedger
<1>6. ASSUME NEW q \in Readings, StopOut(q)
      PROVE  LedgerInv'
  <2>1. PICK p \in positions : Settle(p, p.vol, q)
    BY <1>6 DEF StopOut, Priced, PositionsOf
  <2>. QED  BY <1>1, <1>2, <1>6, <2>1, ReadingsType DEF StopOut
<1>. QED
  BY <1>3, <1>4, <1>5, <1>6
  DEF Engine, Evaluate, StopsDone, PendingDone, LeaveAccount

LEMMA FeedLedger == LedgerInv /\ Feed => LedgerInv'
BY LedgerStands DEF Feed, QuoteTick, QuoteLost, SessionTurn, DayPasses, book

\* The ledger's invariant holds in every reachable state, given the book's.
LEMMA LedgerHolds == Spec => []LedgerInv
<1>1. TypeOK /\ BookInv /\ LedgerInv /\ [Next]_vars => LedgerInv'
  <2>1. LedgerInv /\ UNCHANGED vars => LedgerInv'
    BY LedgerStands DEF vars, book
  <2>. QED  BY <2>1, RequestLedger, EngineLedger, FeedLedger DEF Next
<1>. QED  BY InitLedger, <1>1, Typing, Consistency, PTL DEF Spec

\* An account's balance is what it started from plus the profit of every deal in
\* its history, over closes, stop-outs, balance operations and resets, for any
\* number of deals (credit, settle, Balance, Reset).
THEOREM BalanceAddsUp == Spec => []BalanceIsLedger
<1>1. LedgerInv => BalanceIsLedger
  BY DEF LedgerInv
<1>. QED  BY LedgerHolds, <1>1, PTL

\* What was entered under a position id is what its closing deals took out plus
\* what is still open, over any sequence of partial closes and stop-outs (settle).
THEOREM ConservesVolume == Spec => []VolumeConserved
<1>1. LedgerInv => VolumeConserved
  BY DEF LedgerInv
<1>. QED  BY LedgerHolds, <1>1, PTL

-----------------------------------------------------------------------------
(* The refinement of TradingBook *)

\* Fields of the two projections.
LEMMA Fields ==
  /\ \A p : Held(p).ticket = p.ticket /\ Held(p).login = p.login /\ Held(p).vol = p.vol
  /\ \A o : Resting(o).ticket = o.ticket /\ Resting(o).login = o.login
BY DEF Held, Resting

LEMMA BookStands ==
  ASSUME UNCHANGED <<balance, positions, orders, nextTicket>>
  PROVE  UNCHANGED Book!bookVars
BY DEF Book!bookVars, RestingBook, OpenBook

\* openPosition is Enter.
LEMMA OpenEnters ==
  ASSUME BookInv, NEW l \in Logins, NEW s \in Symbols, NEW side \in Sides,
         NEW vol \in Volumes, NEW b \in Brackets, NEW q \in Readings,
         OpenPosition(l, s, side, vol, b, q)
  PROVE  Book!Next
<1> DEFINE x == [ticket |-> nextTicket, login |-> l, symbol |-> s, side |-> side,
                 open |-> OpenPrice(quote, s, side), sl |-> b.sl, tp |-> b.tp,
                 vol |-> vol]
<1>1. /\ positions' = positions \cup {x}
      /\ nextTicket' = nextTicket + 2
      /\ UNCHANGED <<balance, orders>>
      /\ vol \in 1..VolMax
  BY DEF OpenPosition, ValidVolume
<1>2. Held(x) = [ticket |-> nextTicket, login |-> l, vol |-> vol]
  BY DEF Held
<1> HIDE DEF x
<1>3. OpenBook' = OpenBook \cup {Held(x)}
  BY <1>1 DEF OpenBook
<1>4. RestingBook' = RestingBook
  BY <1>1 DEF RestingBook
<1>5. Book!Enter(l, vol)
  BY <1>1, <1>2, <1>3, <1>4 DEF Book!Enter
<1>6. QED
  BY <1>1, <1>5 DEF Book!Next

\* settle is Reduce: no other position shares the ticket of the one it shrinks.
LEMMA SettleReduces ==
  ASSUME BookInv, NEW p \in positions, NEW vol \in 1..p.vol,
         NEW q \in [Symbols -> Nat], Settle(p, vol, q), UNCHANGED orders
  PROVE  Book!Next
<1>1. /\ nextTicket' = nextTicket + 2
      /\ balance' = Credited(p.login, FloatingProfit(q, p, vol))
      /\ positions' = (positions \ {p}) \cup Remainder(p, vol)
  BY DEF Settle
<1>2. /\ p \in Position /\ p.vol \in 1..VolMax
      /\ \A r \in positions : r.ticket = p.ticket => r = p
      /\ balance \in [Logins -> Int]
  BY DEF BookInv, BookTypeOK, TicketsUnique, VolumesTradable, ValidVolume
<1>3. Held(p) \in OpenBook
  BY DEF OpenBook
<1>4. OpenBook' = (OpenBook \ {Held(p)}) \cup {Held(r) : r \in Remainder(p, vol)}
  <2>1. \A r \in positions : Held(r) = Held(p) => r = p
    BY <1>2, Fields
  <2>2. QED
    BY <1>1, <2>1 DEF OpenBook
<1>5. {Held(r) : r \in Remainder(p, vol)} =
        IF vol = Held(p).vol THEN {} ELSE {[Held(p) EXCEPT !.vol = Held(p).vol - vol]}
  <2>1. CASE vol = p.vol
    BY <1>2, <2>1, Fields DEF Remainder
  <2>2. CASE vol # p.vol
    <3> DEFINE r == [p EXCEPT !.vol = p.vol - vol]
    <3>1. Remainder(p, vol) = {r}
      BY <1>2, <2>2 DEF Remainder
    <3>2. r.ticket = p.ticket /\ r.login = p.login /\ r.vol = p.vol - vol
      BY <1>2 DEF Position
    <3>3. Held(r) = [Held(p) EXCEPT !.vol = Held(p).vol - vol]
      <4> HIDE DEF r
      <4>1. QED
        BY <3>2 DEF Held
    <3> HIDE DEF r
    <3>4. QED
      BY <2>2, <3>1, <3>3, Fields
  <2>3. QED
    BY <2>1, <2>2
<1>6. \A k \in Logins \ {p.login} : balance'[k] = balance[k]
  BY <1>1, <1>2 DEF Credited
<1>7. RestingBook' = RestingBook
  BY DEF RestingBook
<1>8. vol \in 1..Held(p).vol /\ Held(p).login = p.login /\ vol \in 1..VolMax
  BY <1>2, ConstantsAssumption, Fields
<1>9. Book!Reduce(Held(p), vol)
  BY <1>1, <1>4, <1>5, <1>6, <1>7, <1>8 DEF Book!Reduce, Book!CashOf
<1>10. QED
  BY <1>3, <1>8, <1>9 DEF Book!Next

\* A finished order is dropped.
LEMMA FinishDrops ==
  ASSUME BookInv, NEW o \in orders, orders' = orders \ {o},
         UNCHANGED <<balance, positions, nextTicket>>
  PROVE  Book!Next
<1>1. \A r \in orders : Resting(r) = Resting(o) => r = o
  BY Fields DEF BookInv, TicketsUnique
<1>2. RestingBook' = RestingBook \ {Resting(o)}
  BY <1>1 DEF RestingBook
<1>3. OpenBook' = OpenBook
  BY DEF OpenBook
<1>4. Book!Drop(Resting(o)) /\ Resting(o) \in RestingBook
  BY <1>2, <1>3 DEF Book!Drop, RestingBook
<1>5. QED
  BY <1>4 DEF Book!Next

\* checkPending's fill is Fill, or Drop when there is no money for it.
LEMMA FillFills ==
  ASSUME BookInv, NEW o \in orders, NEW q \in Readings, FillOrder(o, q)
  PROVE  Book!Next
<1> DEFINE x == [ticket |-> o.ticket, login |-> o.login, symbol |-> o.symbol,
                 side |-> SideOf(o.type), open |-> FillPrice(o), sl |-> o.sl,
                 tp |-> o.tp, vol |-> o.vol]
<1>1. CASE Finish(o, "rejected") /\ UNCHANGED <<positions, deals, nextTicket>>
  BY <1>1, FinishDrops DEF FillOrder, Finish
<1>2. CASE /\ Finish(o, "filled")
           /\ positions' = positions \cup {x}
           /\ nextTicket' = nextTicket + 1
  <2>1. /\ orders' = orders \ {o} /\ balance' = balance
        /\ o.vol \in 1..VolMax
    BY <1>2 DEF Finish, FillOrder, BookInv, VolumesTradable, ValidVolume
  <2>2. \A r \in orders : Resting(r) = Resting(o) => r = o
    BY Fields DEF BookInv, TicketsUnique
  <2>3. RestingBook' = RestingBook \ {Resting(o)} /\ Resting(o) \in RestingBook
    BY <2>1, <2>2 DEF RestingBook
  <2>4. Held(x) = [ticket |-> Resting(o).ticket, login |-> Resting(o).login, vol |-> o.vol]
    BY Fields DEF Held
  <2> HIDE DEF x
  <2>5. OpenBook' = OpenBook \cup {Held(x)}
    BY <1>2 DEF OpenBook
  <2>6. Book!Fill(Resting(o), o.vol)
    BY <1>2, <2>1, <2>3, <2>4, <2>5 DEF Book!Fill
  <2>7. QED
    BY <2>1, <2>3, <2>6 DEF Book!Next
<1>3. QED
  BY <1>1, <1>2 DEF FillOrder

\* placePending is Rest.
LEMMA PlaceRests ==
  ASSUME BookInv, NEW l \in Logins, NEW s \in Symbols, NEW type \in PendingTypes,
         NEW vol \in Volumes, NEW e \in Entries, NEW b \in Brackets,
         NEW t \in Lifetimes, PlacePending(l, s, type, vol, e, b, t)
  PROVE  Book!Next
<1> DEFINE x == [ticket |-> nextTicket, login |-> l, symbol |-> s, type |-> type,
                 price |-> e.price, trigger |-> TriggerOf(type, e.price, e.trigger),
                 sl |-> b.sl, tp |-> b.tp, vol |-> vol, time |-> t.time,
                 exp |-> IF t.time = "gtc" THEN 0 ELSE t.exp, setup |-> day]
<1>1. orders' = orders \cup {x} /\ x.ticket = nextTicket /\ x.login = l
  BY DEF PlacePending
<1> HIDE DEF x
<1>2. nextTicket' = nextTicket + 1 /\ UNCHANGED <<balance, positions>>
  BY DEF PlacePending
<1>3. RestingBook' = RestingBook \cup {Resting(x)}
  BY <1>1 DEF RestingBook
<1>4. Resting(x) = [ticket |-> nextTicket, login |-> l]
  BY <1>1 DEF Resting
<1>5. OpenBook' = OpenBook
  BY <1>2 DEF OpenBook
<1>6. Book!Rest(l)
  BY <1>2, <1>3, <1>4, <1>5 DEF Book!Rest
<1>7. QED
  BY <1>6 DEF Book!Next

\* A modified or triggered order is the same resting order.
LEMMA SameOrderStutters ==
  ASSUME NEW o \in orders, NEW x, orders' = (orders \ {o}) \cup {x},
         x.ticket = o.ticket, x.login = o.login,
         UNCHANGED <<balance, positions, nextTicket>>
  PROVE  UNCHANGED Book!bookVars
<1>1. Resting(x) = Resting(o)
  BY DEF Resting
<1>2. RestingBook' = RestingBook
  BY <1>1 DEF RestingBook
<1>3. QED
  BY <1>2 DEF OpenBook, Book!bookVars

LEMMA ModifyOrderStutters ==
  ASSUME BookInv, NEW o \in orders, NEW e \in Entries, NEW b \in Brackets,
         NEW vol \in Volumes, NEW t \in Lifetimes, ModifyOrder(o, e, b, vol, t)
  PROVE  UNCHANGED Book!bookVars
<1>1. PICK x : /\ orders' = (orders \ {o}) \cup {x}
               /\ x.ticket = o.ticket /\ x.login = o.login
  <2>1. o \in Order
    BY DEF BookInv, BookTypeOK
  <2> DEFINE price == IF e.price > 0 THEN e.price ELSE o.price
             trigger == IF o.type \in {"buyStopLimit", "sellStopLimit"}
                        THEN IF e.trigger > 0 THEN e.trigger ELSE o.trigger
                        ELSE price
             retimed == t.time # "gtc" \/ t.exp # 0
             x == [o EXCEPT !.price = price, !.trigger = trigger,
                            !.sl = b.sl, !.tp = b.tp,
                            !.vol = IF vol > 0 THEN vol ELSE @,
                            !.time = IF retimed THEN t.time ELSE @,
                            !.exp = IF ~retimed THEN @
                                    ELSE IF t.time = "gtc" THEN 0 ELSE t.exp]
  <2>2. orders' = (orders \ {o}) \cup {x}
    BY DEF ModifyOrder
  <2>3. x.ticket = o.ticket /\ x.login = o.login
    BY <2>1 DEF Order
  <2> HIDE DEF x
  <2>4. QED
    BY <2>2, <2>3
<1>2. UNCHANGED <<balance, positions, nextTicket>>
  BY DEF ModifyOrder
<1>3. QED
  BY <1>1, <1>2, SameOrderStutters

LEMMA TriggerStutters ==
  ASSUME BookInv, NEW o \in orders, TriggerOrder(o)
  PROVE  UNCHANGED Book!bookVars
<1> DEFINE x == [o EXCEPT !.type = IF @ = "buyStopLimit" THEN "buyLimit" ELSE "sellLimit"]
<1>1. o \in Order /\ x.ticket = o.ticket /\ x.login = o.login
  BY DEF BookInv, BookTypeOK, Order
<1>2. orders' = (orders \ {o}) \cup {x} /\ UNCHANGED <<balance, positions, nextTicket>>
  BY DEF TriggerOrder
<1> HIDE DEF x
<1>3. QED
  BY <1>1, <1>2, SameOrderStutters

\* New stops leave a position's ticket, account and volume.
LEMMA ModifyPositionStutters ==
  ASSUME BookInv, NEW p \in positions, NEW b \in Brackets, ModifyPosition(p, b)
  PROVE  UNCHANGED Book!bookVars
<1> DEFINE x == [p EXCEPT !.sl = b.sl, !.tp = b.tp]
<1>1. p \in Position /\ x.ticket = p.ticket /\ x.login = p.login /\ x.vol = p.vol
  BY DEF BookInv, BookTypeOK, Position
<1>2. /\ positions' = (positions \ {p}) \cup {x}
      /\ UNCHANGED <<balance, orders, nextTicket>>
  BY DEF ModifyPosition
<1> HIDE DEF x
<1>3. Held(x) = Held(p)
  BY <1>1 DEF Held
<1>4. OpenBook' = OpenBook
  BY <1>2, <1>3 DEF OpenBook
<1>5. QED
  BY <1>2, <1>4 DEF RestingBook, Book!bookVars

\* Balance is Book.
LEMMA BalanceBooks ==
  ASSUME BookInv, NEW l \in Logins, NEW amount \in Amounts, Balance(l, amount)
  PROVE  Book!Next
<1>1. /\ nextTicket' = nextTicket + 1
      /\ balance' = Credited(l, amount)
      /\ UNCHANGED <<positions, orders>>
  BY DEF Balance
<1>2. \A k \in Logins \ {l} : balance'[k] = balance[k]
  BY <1>1 DEF Credited, BookInv, BookTypeOK
<1>3. Book!Book(l)
  BY <1>1, <1>2 DEF Book!Book, Book!CashOf, RestingBook, OpenBook
<1>4. QED
  BY <1>3 DEF Book!Next

\* Reset is StartOver.
LEMMA ResetStartsOver ==
  ASSUME BookInv, NEW l \in Logins, NEW amount \in Funding, Reset(l, amount)
  PROVE  Book!Next
<1>1. /\ positions' = {p \in positions : p.login # l}
      /\ orders' = {o \in orders : o.login # l}
      /\ balance' = [balance EXCEPT ![l] = amount]
      /\ nextTicket' = nextTicket
  BY DEF Reset, Others
<1>2. RestingBook' = {o \in RestingBook : o.login # l}
  BY <1>1, Fields DEF RestingBook
<1>3. OpenBook' = {p \in OpenBook : p.login # l}
  BY <1>1, Fields DEF OpenBook
<1>4. \A k \in Logins \ {l} : balance'[k] = balance[k]
  BY <1>1 DEF BookInv, BookTypeOK
<1>5. Book!StartOver(l)
  BY <1>1, <1>2, <1>3, <1>4 DEF Book!StartOver, Book!CashOf
<1>6. QED
  BY <1>5 DEF Book!Next

-----------------------------------------------------------------------------
LEMMA InitBook == Init => Book!Init
BY ConstantsAssumption DEF Init, Book!Init, RestingBook, OpenBook

LEMMA RequestBook == TypeOK /\ BookInv /\ Request => [Book!Next]_(Book!bookVars)
<1> SUFFICES ASSUME TypeOK, BookInv, Request PROVE [Book!Next]_(Book!bookVars)
  OBVIOUS
<1>1. quote \in [Symbols -> Nat]
  BY DEF TypeOK
<1>2. ASSUME NEW l \in Logins, NEW s \in Symbols, NEW vol \in Volumes, NEW b \in Brackets,
             \/ \E side \in Sides, q \in Readings : OpenPosition(l, s, side, vol, b, q)
             \/ \E type \in PendingTypes, e \in Entries, t \in Lifetimes :
                  PlacePending(l, s, type, vol, e, b, t)
      PROVE  Book!Next
  BY <1>2, OpenEnters, PlaceRests
<1>3. ASSUME NEW p \in positions, NEW side \in Sides, NEW vol \in Volumes,
             ClosePosition(p, side, vol)
      PROVE  Book!Next
  <2> DEFINE part == IF vol <= 0 \/ vol > p.vol THEN p.vol ELSE vol
  <2>1. part \in 1..p.vol
    BY ConstantsAssumption
    DEF BookInv, BookTypeOK, VolumesTradable, ValidVolume, Position
  <2>2. Settle(p, part, quote) /\ UNCHANGED orders
    BY <1>3 DEF ClosePosition
  <2> HIDE DEF part
  <2>3. QED
    BY <1>1, <2>1, <2>2, SettleReduces
<1>4. ASSUME NEW o \in orders, RemoveOrder(o)
      PROVE  Book!Next
  BY <1>4, FinishDrops DEF RemoveOrder
<1>5. ASSUME NEW l \in Logins, NEW lev \in Leverages, SetLeverage(l, lev)
      PROVE  UNCHANGED Book!bookVars
  BY <1>5, BookStands DEF SetLeverage
<1>6. QED
  BY <1>2, <1>3, <1>4, <1>5, ModifyPositionStutters, ModifyOrderStutters,
     BalanceBooks, ResetStartsOver
  DEF Request

LEMMA EngineBook == TypeOK /\ BookInv /\ Engine => [Book!Next]_(Book!bookVars)
<1> SUFFICES ASSUME TypeOK, BookInv, Engine PROVE [Book!Next]_(Book!bookVars)
  OBVIOUS
<1>1. quote \in [Symbols -> Nat]
  BY DEF TypeOK
<1>2. ASSUME NEW p \in positions, NEW q \in [Symbols -> Nat],
             Settle(p, p.vol, q), UNCHANGED orders
      PROVE  Book!Next
  <2>1. p.vol \in 1..p.vol
    BY DEF BookInv, VolumesTradable, ValidVolume
  <2>2. QED
    BY <1>2, <2>1, SettleReduces
<1>3. CASE UNCHANGED book
  BY <1>3, BookStands DEF book
<1>4. CASE CheckStop
  BY <1>1, <1>2, <1>3, <1>4 DEF CheckStop
<1>5. CASE CheckOrder
  <2>1. PICK o \in orders :
          \/ ExpireOrder(o) \/ TriggerOrder(o)
          \/ \E q \in Readings : FillOrder(o, q)
          \/ LeaveOrder(o)
    BY <1>5 DEF CheckOrder
  <2>2. CASE ExpireOrder(o)
    BY <2>2, FinishDrops DEF ExpireOrder, Finish
  <2>3. CASE LeaveOrder(o)
    BY <1>3, <2>3 DEF LeaveOrder
  <2>4. QED
    BY <2>1, <2>2, <2>3, TriggerStutters, FillFills
<1>6. ASSUME NEW q \in Readings, StopOut(q)
      PROVE  Book!Next
  <2>1. PICK p \in positions : Settle(p, p.vol, q)
    BY <1>6 DEF StopOut, Priced, PositionsOf
  <2>2. QED
    BY <1>1, <1>2, <1>6, <2>1, ReadingsType DEF StopOut
<1>7. QED
  BY <1>3, <1>4, <1>5, <1>6
  DEF Engine, Evaluate, StopsDone, PendingDone, LeaveAccount

LEMMA FeedBook == Feed => UNCHANGED Book!bookVars
BY BookStands DEF Feed, QuoteTick, QuoteLost, SessionTurn, DayPasses, book

\* The engine implements TradingBook, for every set of accounts and instruments
\* and every request, price and interleaving of them (the whole of demoBroker).
THEOREM Implements == Spec => KeepsTheBook
<1>1. TypeOK /\ BookInv /\ [Next]_vars => [Book!Next]_(Book!bookVars)
  <2>1. UNCHANGED vars => UNCHANGED Book!bookVars
    BY BookStands DEF vars, book
  <2>2. QED
    BY <2>1, RequestBook, EngineBook, FeedBook DEF Next
<1>2. QED
  BY InitBook, <1>1, Typing, Consistency, PTL DEF Spec, KeepsTheBook, Book!Spec
=============================================================================
