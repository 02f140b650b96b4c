------------------------ MODULE DemoBrokerProperties ------------------------
(***************************************************************************)
(* What the engine's book promises, apart from how it is kept: the         *)
(* invariants, action properties and liveness that the runs check and      *)
(* DemoBrokerProofs proves.                                                *)
(***************************************************************************)
EXTENDS DemoBroker

BookTypeOK ==
  /\ balance \in [Logins -> Int] /\ funded \in [Logins -> Int]
  /\ leverage \in [Logins -> Nat \ {0}]
  /\ positions \subseteq Position
  /\ orders \subseteq Order
  /\ history \subseteq FinalOrder
  /\ deals \subseteq Deal
  /\ nextTicket \in Nat \ {0}

\* Types of the feed, the book and the evaluation pass (demoBroker's fields).
TypeOK ==
  /\ quote \in [Symbols -> Nat]
  /\ inSession \in [Symbols -> BOOLEAN]
  /\ day \in Nat /\ now \in Nat
  /\ BookTypeOK
  /\ phase \in {"idle", "stops", "pending", "stopout"}
  /\ visiting \in Logins \cup {NoLogin}
  /\ left \subseteq Logins
  /\ todo \subseteq Nat
  /\ rounds \in Nat

HistoryOf(l) == {h \in history : h.login = l}
DealsOf(l)   == {d \in deals : d.login = l}

\* Every ticket is issued once, over all accounts: nothing in the book carries a
\* ticket not yet issued; no two positions, working orders, final orders or deals
\* share one; an order is working or final but never both; a working order has no
\* position; a deal has a ticket of its own (b.ticket(), called by openPosition,
\* settle, placePending and deal).
TicketsUnique ==
  /\ \A x \in positions \cup orders \cup history \cup deals : x.ticket \in 1..(nextTicket - 1)
  /\ \A p, r \in positions : p.ticket = r.ticket => p = r
  /\ \A o, r \in orders : o.ticket = r.ticket => o = r
  /\ \A h, r \in history : h.ticket = r.ticket => h = r
  /\ \A d, r \in deals : d.ticket = r.ticket => d = r
  /\ \A o \in orders, h \in history : o.ticket # h.ticket
  /\ \A o \in orders, p \in positions : o.ticket # p.ticket
  /\ \A d \in deals, x \in positions \cup orders \cup history : d.ticket # x.ticket

PositionBacked(p) ==
  /\ \E h \in history : /\ h.ticket = p.ticket /\ h.login = p.login
                        /\ h.state = "filled" /\ h.position = p.ticket
  /\ \E d \in deals : /\ d.order = p.ticket /\ d.position = p.ticket
                      /\ d.entry = "in" /\ d.login = p.login
                      /\ d.action = p.side /\ d.price = p.open

\* Every open position is explained by the trader's history: the order that
\* opened it is final and filled, and there is a deal of that order into the
\* position at its open price (openPosition, checkPending).
PositionsBacked == \A p \in positions : PositionBacked(p)

\* A position is entered once: an order that triggers while a pass, a modify or a
\* cancel is about cannot be filled twice (checkPending, removeOrder).
EnteredOnce ==
  \A d, r \in deals :
    d.entry = "in" /\ r.entry = "in" /\ d.position = r.position /\ d.position # 0
      => d = r

\* What is left of every position, and what an order would fill, is a volume the
\* engine itself would trade, so the trader can close it (validVolume against closePosition's part).
VolumesTradable == \A x \in positions \cup orders : ValidVolume(x.vol)

\* A limit order never fills worse than its price, whatever was modified while it
\* rested and whichever stop-limit it came from (README.md: "limits never fill
\* worse than their price").
LimitsHonoured ==
  \A h \in history, d \in deals :
    h.state = "filled" /\ d.order = h.ticket =>
      /\ h.type = "buyLimit"  => d.price <= h.price
      /\ h.type = "sellLimit" => d.price >= h.price

\* What a deal refers to is issued and no longer works as an order: it happened.
DealsSettled ==
  \A d \in deals :
    /\ d.order < nextTicket /\ d.position < nextTicket
    /\ \A o \in orders : d.order # o.ticket /\ d.position # o.ticket

\* The book's inductive invariant: DealsSettled is what keeps an order about to
\* fill apart from every deal already booked.
BookInv ==
  /\ BookTypeOK
  /\ TicketsUnique /\ DealsSettled
  /\ VolumesTradable
  /\ PositionsBacked /\ EnteredOnce /\ LimitsHonoured

VolumeOf(S) == MapThenSumSet(LAMBDA x : x.vol, S)
ProfitOf(S) == MapThenSumSet(LAMBDA d : d.profit, S)

\* The deals that closed parts of a position, and what is still open of it.
ClosesOf(id) == {c \in deals : c.entry = "out" /\ c.position = id}
OpenOf(id)   == {p \in positions : p.ticket = id}

\* No volume appears or disappears: what was entered under a position id is what
\* its closing deals took out plus what is still open (settle's partial closes).
VolumeConserved ==
  \A d \in deals :
    d.entry = "in" /\ d.position # 0 =>
      d.vol = VolumeOf(ClosesOf(d.position)) + VolumeOf(OpenOf(d.position))

\* The balance is the money the account started from plus the profit of every
\* deal in its history: nothing moves money without booking it (credit, settle,
\* Balance, Reset).
BalanceIsLedger ==
  \A l \in Logins : balance[l] = funded[l] + ProfitOf(DealsOf(l))

\* One account owns a position, with every deal into and out of it: what keeps the
\* two sums of the others when one account is reset (Reset).
OneOwner ==
  /\ \A d, r \in deals : d.position = r.position /\ d.position # 0 => d.login = r.login
  /\ \A d \in deals, p \in positions : d.position = p.ticket => d.login = p.login

\* The ledger's inductive invariant, given BookInv.
LedgerInv ==
  /\ IsFiniteSet(deals) /\ IsFiniteSet(positions)
  /\ OneOwner
  /\ BalanceIsLedger /\ VolumeConserved

-----------------------------------------------------------------------------
(* Action properties *)

\* What a trading server's book promises (TradingBook), read off the engine's own
\* records.
Resting(o) == [ticket |-> o.ticket, login |-> o.login]
Held(p)    == [ticket |-> p.ticket, login |-> p.login, vol |-> p.vol]

RestingBook == {Resting(o) : o \in orders}
OpenBook    == {Held(p) : p \in positions}

Book == INSTANCE TradingBook
          WITH issued <- nextTicket, resting <- RestingBook, open <- OpenBook, cash <- balance

\* Every request, pass and account operation keeps that promise: no ticket is
\* issued twice, no closed position or finished order comes back, a position only
\* shrinks, and money moves only with a close, an entry or a reset (the whole of
\* demoBroker).
KeepsTheBook == Book!Spec

-----------------------------------------------------------------------------
(* Liveness, under FairSpec *)

StopDue(t) == \E p \in positions : p.ticket = t /\ Touched(p)

\* A position whose stop or target the market touches does not stay open while the
\* market stays there and the session is open (checkStops).
StopsServed == \A t \in 1..MaxTicket : StopDue(t) ~> ~StopDue(t)

OrderDue(t) ==
  \E o \in orders :
    /\ o.ticket = t
    /\ \/ Expired(o, day)
       \/ Tradable(quote, o.symbol) /\ (Reached(o) \/ Triggered(o))

\* An account does not stay at or under the stop-out level while it has positions
\* with a quote, however many rounds a visit is allowed (checkStopOut).
StopOutServed ==
  \A l \in Logins : StopOutDue(l, quote) ~> ~StopOutDue(l, quote)

=============================================================================
