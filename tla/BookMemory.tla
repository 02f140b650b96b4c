----------------------------- MODULE BookMemory -----------------------------
(***************************************************************************)
(* The demo broker's book as its save loop sees it: what is in memory,     *)
(* whether it changed since the last snapshot, and the snapshot on its way *)
(* to the store (broker.go: save, load, restore; store.go: snapshot).      *)
(* BookFile and BookTables add the two stores.                             *)
(*                                                                         *)
(* Of an order, a position or a deal only the ticket matters here, and the *)
(* era (the process start) that issued it, so that two things given the    *)
(* same ticket are told apart.                                             *)
(***************************************************************************)
EXTENDS Integers, Sequences

CONSTANTS
  Logins,       \* trading accounts
  Resettable,   \* those an admin resets
  AnswersLost,  \* a commit may be reported as failed: the store is remote
  MaxTicket,    \* bound: no change once tickets are past it
  MaxEra        \* bound: process starts

ASSUME MemoryAssumption ==
  /\ Resettable \subseteq Logins
  /\ AnswersLost \in BOOLEAN
  /\ MaxTicket \in Nat /\ MaxEra \in Nat

VARIABLES
  book,     \* [next, acc]: the ticket counter and the accounts touched so far
  dirty,    \* b.dirty
  writing,  \* save() is writing
  saving,   \* the snapshot it writes
  up,       \* the process runs
  era,      \* how often it has started
  issued    \* the highest ticket ever issued (history)

memory == <<book, dirty, writing, saving, up, era, issued>>

-----------------------------------------------------------------------------
(* The book *)

Untouched == [positions |-> {}, working |-> {}, history |-> <<>>, deals |-> <<>>]
EmptyBook == [next |-> 1, acc |-> <<>>]

\* acct(): a login's record, created at its first touch.
Account(l) == IF l \in DOMAIN book.acc THEN book.acc[l] ELSE Untouched

Fresh(n) == [ticket |-> book.next + n, era |-> era]

\* The engine's operations, by what they do to the book: l's record becomes a,
\* n tickets are issued.
Becomes(l, a, n) ==
  /\ book' = [next |-> book.next + n,
              acc |-> [m \in DOMAIN book.acc \cup {l} |-> IF m = l THEN a ELSE book.acc[m]]]
  /\ issued' = IF book.next + n - 1 > issued THEN book.next + n - 1 ELSE issued

Open(l) ==
  Becomes(l, [Account(l) EXCEPT !.positions = @ \cup {Fresh(0)},
                                !.history = Append(@, Fresh(0)),
                                !.deals = Append(@, Fresh(1))], 2)
Rest(l) == Becomes(l, [Account(l) EXCEPT !.working = @ \cup {Fresh(0)}], 1)
Close(l, p) ==
  Becomes(l, [Account(l) EXCEPT !.positions = @ \ {p},
                                !.history = Append(@, Fresh(0)),
                                !.deals = Append(@, Fresh(1))], 2)
Cancel(l, o) ==
  Becomes(l, [Account(l) EXCEPT !.working = @ \ {o}, !.history = Append(@, o)], 0)

Fill(l, o) ==
  Becomes(l, [Account(l) EXCEPT !.working = @ \ {o}, !.history = Append(@, o),
                                !.positions = @ \cup {o},
                                !.deals = Append(@, Fresh(0))], 1)
BalanceOp(l) == Becomes(l, [Account(l) EXCEPT !.deals = Append(@, Fresh(0))], 1)
Reset(l) == Becomes(l, Untouched, 0)

-----------------------------------------------------------------------------
(* The process *)

\* What a request, an account operation or the pass does to the book of l, a reset
\* apart.  Requests run while a save is writing; the pass shares the save's
\* goroutine and does not.
Operate(l) ==
  \/ Open(l) \/ Rest(l) \/ BalanceOp(l)
  \/ \E p \in Account(l).positions : Close(l, p)
  \/ \E o \in Account(l).working : Cancel(l, o) \/ (~writing /\ Fill(l, o))

Marked ==
  /\ up /\ book.next <= MaxTicket
  /\ dirty' = TRUE
  /\ UNCHANGED <<writing, saving, up, era>>

Grow == Marked /\ \E l \in Logins : Operate(l)
Change == Grow \/ (Marked /\ \E l \in Resettable : Reset(l))

\* save(): the snapshot and the clearing of dirty under b.mu; the write after it.
SaveBegin ==
  /\ up /\ dirty /\ ~writing
  /\ writing' = TRUE /\ saving' = book
  /\ dirty' = FALSE
  /\ UNCHANGED <<book, up, era, issued>>

SaveEnds ==
  /\ writing
  /\ writing' = FALSE /\ saving' = EmptyBook
  /\ UNCHANGED <<book, up, era, issued>>

\* The write returned without an error: dirty is what changed since the snapshot.
SaveReturnsClean == SaveEnds /\ dirty' = FALSE
SaveReturns == SaveEnds /\ UNCHANGED dirty

\* The write returned an error: try again on the next tick.
SaveErrsForgotten == SaveEnds /\ UNCHANGED dirty
SaveErrs == SaveEnds /\ dirty' = TRUE

\* The process dies, or is told to stop: Run's context is never cancelled, so
\* both are the same (main.go).
Stop ==
  /\ up
  /\ up' = FALSE
  /\ book' = EmptyBook /\ dirty' = FALSE
  /\ writing' = FALSE /\ saving' = EmptyBook
  /\ UNCHANGED <<era, issued>>

\* newDemoBroker: a fresh engine adopts what load found, EmptyBook when that was
\* nothing.
Start(found) ==
  /\ ~up /\ era < MaxEra
  /\ up' = TRUE
  /\ era' = era + 1
  /\ book' = found
  /\ UNCHANGED <<dirty, writing, saving, issued>>

MemoryInit ==
  /\ book = EmptyBook /\ dirty = FALSE
  /\ writing = FALSE /\ saving = EmptyBook
  /\ up = TRUE /\ era = 1 /\ issued = 0
=============================================================================
