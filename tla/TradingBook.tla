---------------------------- MODULE TradingBook ----------------------------
(***************************************************************************)
(* What a trading server's book promises a trader, whatever market moves   *)
(* it (backend/cmd/demomarket/broker.go, the demoBroker type):             *)
(*                                                                         *)
(*   - tickets are issued in order, each once;                             *)
(*   - a position is entered at a fresh ticket or under the ticket of an   *)
(*     order that was resting, and from then on only shrinks;              *)
(*   - an order rests until it is dropped or becomes that position;        *)
(*   - an account's cash moves only when a position of that account is     *)
(*     reduced, when an entry is booked for it, or when it starts over.    *)
(***************************************************************************)
EXTENDS Integers

CONSTANTS
  Logins,  \* trading accounts
  VolMax   \* the largest volume a position is entered with

VARIABLES
  issued,   \* the next ticket
  resting,  \* working orders: [ticket, login]
  open,     \* open positions: [ticket, login, vol]
  cash      \* login -> settled balance

bookVars == <<issued, resting, open, cash>>

Init ==
  /\ issued = 1
  /\ resting = {} /\ open = {}
  /\ cash \in [Logins -> Int]

\* No account but l sees its cash move.
CashOf(l) == \A k \in Logins \ {l} : cash'[k] = cash[k]

Rest(l) ==
  /\ resting' = resting \cup {[ticket |-> issued, login |-> l]}
  /\ issued' = issued + 1
  /\ UNCHANGED <<open, cash>>

\* A market order: the position's ticket and the deal's.
Enter(l, vol) ==
  /\ open' = open \cup {[ticket |-> issued, login |-> l, vol |-> vol]}
  /\ issued' = issued + 2
  /\ UNCHANGED <<resting, cash>>

Drop(o) ==
  /\ resting' = resting \ {o}
  /\ UNCHANGED <<issued, open, cash>>

Fill(o, vol) ==
  /\ resting' = resting \ {o}
  /\ open' = open \cup {[ticket |-> o.ticket, login |-> o.login, vol |-> vol]}
  /\ issued' = issued + 1
  /\ UNCHANGED cash

\* A close, whole or in part: the closing order's ticket and the deal's.
Reduce(p, vol) ==
  /\ vol \in 1..p.vol
  /\ open' = (open \ {p}) \cup
       (IF vol = p.vol THEN {} ELSE {[p EXCEPT !.vol = p.vol - vol]})
  /\ issued' = issued + 2
  /\ CashOf(p.login)
  /\ UNCHANGED resting

Book(l) ==
  /\ issued' = issued + 1
  /\ CashOf(l)
  /\ UNCHANGED <<resting, open>>

StartOver(l) ==
  /\ resting' = {o \in resting : o.login # l}
  /\ open' = {p \in open : p.login # l}
  /\ CashOf(l)
  /\ UNCHANGED issued

Next ==
  \/ \E l \in Logins :
       \/ Rest(l) \/ Book(l) \/ StartOver(l)
       \/ \E vol \in 1..VolMax : Enter(l, vol)
  \/ \E o \in resting : Drop(o) \/ \E vol \in 1..VolMax : Fill(o, vol)
  \/ \E p \in open, vol \in 1..VolMax : Reduce(p, vol)

Spec == Init /\ [][Next]_bookVars
=============================================================================
