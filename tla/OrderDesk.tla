----------------------------- MODULE OrderDesk -----------------------------
(***************************************************************************)
(* Order entry and order management of the web terminal (frontend/src:     *)
(* domain/orders/trading-service.ts, gateway/api/trading-api.ts, the order *)
(* ticket, the dialogs of the positions and orders tables).                *)
(*                                                                         *)
(* A component of the screen has at most one call under way.  The dealer   *)
(* executes or refuses it; the answer may be lost, and the call may then   *)
(* reach the dealer all the same.  The screen shows a view of the book     *)
(* that lags; rows and dialogs act on the item as they saw it.  Levels     *)
(* and volumes are small numbers, level 0 is "none".                       *)
(***************************************************************************)
EXTENDS Integers, FiniteSets

CONSTANTS
  Logins,
  Uses,      \* the sets of components that a behaviour may use
  Levels,    \* prices of a stop-loss or take-profit
  Symbols,
  MaxOps     \* bound: calls made

ASSUME DeskAssumption == Levels \subseteq Nat \ {0} /\ MaxOps \in Nat

Components == {"ticket", "stop-loss", "take-profit", "close", "modify", "resize", "bulk"}

VARIABLES
  using,     \* the components used in this behaviour
  login,
  book,      \* external: the dealer's items [id, login, kind, vol, sl, tp, from]
  late,      \* external: unanswered calls that may still reach the dealer
  executed,  \* external: serials of the calls executed
  ops,       \* calls made; the serial of the next
  view,      \* the trading store
  call,      \* component -> its call under way
  report,    \* component -> what the user was last told, and of which call
  ticket,    \* [symbol, asking, result, confirmation, ref]
  dialog,    \* component -> the item a dialog was opened on, or None
  resize,    \* [step, vol, item, cancel: the serial of its cancellation]
  bulk       \* [open, kind, targets, left, done, failed, undecided]

vars == <<using, login, book, late, executed, ops, view, call, report, ticket, dialog, resize, bulk>>

None == [id |-> -1, kind |-> "position"]
NoCall == [op |-> "none"]
Silence == [says |-> "nothing", serial |-> -1]
Legs == {"stop-loss", "take-profit"}

Find(items, id) == {x \in items : x.id = id}
Ids(items) == {x.id : x \in items}

----------------------------------------------------------------------------
\* The trading service: what each operation asks of the dealer.

Op(op, l, x, vol, sl, tp) ==
  [op |-> op, login |-> l, id |-> x.id, kind |-> x.kind, vol |-> vol, sl |-> sl, tp |-> tp, serial |-> ops]

openPosition(vol, sl, tp) == Op("open", login, None, vol, sl, tp)
placePendingOrder(x, vol) == [Op("place", login, x, vol, x.sl, x.tp) EXCEPT !.id = x.from]
modify(x, sl, tp) == Op("modify", login, x, x.vol, sl, tp)
modifyPositionBrackets(x, sl, tp) == modify([x EXCEPT !.kind = "position"], sl, tp)
modifyOrder(x, sl, tp) == modify([x EXCEPT !.kind = "order"], sl, tp)
closePosition(x, vol) == Op("close", login, [x EXCEPT !.kind = "position"], vol, x.sl, x.tp)
cancelOrder(x) == Op("close", login, [x EXCEPT !.kind = "order"], x.vol, x.sl, x.tp)

\* One leg goes; the other is named as the row shows it.
cancelBracketLeg(x, leg) ==
  LET sl == IF leg = "stop-loss" THEN 0 ELSE x.sl
      tp == IF leg = "take-profit" THEN 0 ELSE x.tp
  IN  IF x.kind = "order" THEN modifyOrder(x, sl, tp) ELSE modifyPositionBrackets(x, sl, tp)

----------------------------------------------------------------------------
\* External: the dealer.  A cancellation closes the whole of an order.

Kept(b, o) == {x \in b : x.id # o.id}
Target(b, o) == CHOOSE x \in Find(b, o.id) : TRUE
Wanted(b, o) == \/ o.op \in {"open", "place"}
                \/ \E x \in Find(b, o.id) : x.login = o.login /\ x.kind = o.kind /\ (o.op = "close" => o.vol <= x.vol)

Opened(o, kind, from) ==
  [id |-> o.serial, login |-> o.login, kind |-> kind, vol |-> o.vol, sl |-> o.sl, tp |-> o.tp, from |-> from]

After(b, o) ==
  CASE o.op = "open" -> b \cup {Opened(o, "position", o.serial)}
    [] o.op = "place" -> b \cup {Opened(o, "order", o.id)}
    [] o.op = "modify" -> Kept(b, o) \cup {[Target(b, o) EXCEPT !.sl = o.sl, !.tp = o.tp]}
    [] o.op = "close" ->
         LET x == Target(b, o)
         IN  Kept(b, o) \cup (IF o.vol < x.vol THEN {[x EXCEPT !.vol = @ - o.vol]} ELSE {})

Execute(o) ==
  /\ Wanted(book, o)
  /\ book' = After(book, o)
  /\ executed' = executed \cup {o.serial}

Deal(k) ==
  /\ call[k].op # "none" /\ call[k].fate = "sent"
  /\ \/ Execute(call[k].asks) /\ call' = [call EXCEPT ![k].fate = "executed"]
     \/ call' = [call EXCEPT ![k].fate = "refused"] /\ UNCHANGED <<book, executed>>
  /\ UNCHANGED <<using, login, late, ops, view, report, ticket, dialog, resize, bulk>>

\* An order that triggers becomes a position of the same ticket.
Trigger(x) ==
  /\ x.kind = "order"
  /\ book' = Kept(book, x) \cup {[x EXCEPT !.kind = "position"]}
  /\ UNCHANGED <<using, login, late, executed, ops, view, call, report, ticket, dialog, resize, bulk>>

\* A call nobody waits for any more is executed, or lost.
DealLate(o) ==
  /\ late' = late \ {o}
  /\ Execute(o) \/ UNCHANGED <<book, executed>>
  /\ UNCHANGED <<using, login, ops, view, call, report, ticket, dialog, resize, bulk>>

----------------------------------------------------------------------------
\* The gateway's answers and what the terminal makes of them.

\* What is thrown as an error though it says nothing of the order: the connection breaks, the
\* body is lost, a status of 500 or more, the gateway's own call to the dealer fails.
Failures == {"network", "body lost", "unavailable", "upstream failed"}

\* External: what the gateway may answer, by the fate of the call.  Only an "error" says that
\* the dealer did nothing: the call was refused on the way.
Answers(fate) ==
  {"timeout", "not the contract", "unsure", "retcode unsure"} \cup Failures \cup
  CASE fate = "executed" -> {"outcome accepted", "retcode done", "order ticket", "bare 200"}
    [] fate = "refused"  -> {"outcome rejected", "retcode refused", "result 0", "order status rejected", "error"}
    [] fate = "sent"     -> {"error"}

\* The legacy order object says 0 for a refusal.
interpretTradeResult(a) ==
  CASE a \in {"outcome accepted", "retcode done", "order ticket", "bare 200"} -> "accepted"
    [] a \in {"unsure", "retcode unsure"} -> "unknown"
    [] a \in {"outcome rejected", "retcode refused", "result 0", "order status rejected"} -> "refused"

\* mutant: a call without an answer failed
TimeoutFailed(a) ==
  CASE a \in {"timeout", "not the contract", "error"} -> "refused"
    [] a \in Failures -> "failed"
    [] OTHER -> interpretTradeResult(a)

sendRequest(a) ==
  CASE a \in {"timeout", "not the contract"} -> "unknown"
    [] a = "error" -> "refused"
    [] a \in Failures -> "failed"
    [] OTHER -> interpretTradeResult(a)

\* The verdict v of component k's call arrives; what the dealer has not seen may still reach it.
Verdict(k, v) ==
  /\ call[k].op # "none"
  /\ \E a \in Answers(call[k].fate) :
       /\ v = sendRequest(a)
       /\ late' = IF call[k].fate = "sent" /\ a # "error" THEN late \cup {call[k].asks} ELSE late

\* To a handler a refusal and a failure are one thing, an exception.
NotDone == {"refused", "failed"}

Told(k, v) == report' = [report EXCEPT ![k] = [says |-> v, serial |-> call[k].asks.serial]]

Room == ops < MaxOps

\* A component makes a call.
Send(k, o) ==
  /\ k \in using /\ call[k] = NoCall
  /\ ops' = ops + 1
  /\ call' = [call EXCEPT ![k] = [op |-> o.op, fate |-> "sent", asks |-> o]]
  /\ UNCHANGED <<using, login, book, late, executed, view>>

Answered(k, v) ==
  /\ Verdict(k, v)
  /\ call' = [call EXCEPT ![k] = NoCall]
  /\ UNCHANGED <<using, login, book, executed, ops, view>>

----------------------------------------------------------------------------
\* The store, the account and the symbol.

SyncView ==
  /\ view' = {x \in book : x.login = login}
  /\ UNCHANGED <<using, login, book, late, executed, ops, call, report, ticket, dialog, resize, bulk>>

\* A dialog covers the account picker while it is open.
SwitchAccount(l) ==
  /\ l # login /\ \A k \in Components : dialog[k] = None
  /\ ~bulk.open /\ ~ticket.asking
  /\ login' = l /\ view' = {}
  /\ UNCHANGED <<using, book, late, executed, ops, call, report, ticket, dialog, resize, bulk>>

----------------------------------------------------------------------------
\* The order ticket.

NoRef == [id |-> -1, known |-> {-1}]
Submitting == call["ticket"] # NoCall
Cleared(t) == [t EXCEPT !.result = "none", !.confirmation = "awaiting", !.ref = NoRef]

\* A new symbol shows no result of the old one; what is under way goes on.
SwitchSymbol(s) ==
  /\ "ticket" \in using /\ s # ticket.symbol
  /\ ticket' = [Cleared(ticket) EXCEPT !.symbol = s]
  /\ UNCHANGED <<using, login, book, late, executed, ops, view, call, report, dialog, resize, bulk>>

RequestSubmit ==
  /\ "ticket" \in using /\ ~ticket.asking
  /\ ticket' = [ticket EXCEPT !.asking = TRUE]
  /\ UNCHANGED <<using, login, book, late, executed, ops, view, call, report, dialog, resize, bulk>>

DropRequest ==
  /\ ticket.asking /\ ~Submitting
  /\ ticket' = [ticket EXCEPT !.asking = FALSE]
  /\ UNCHANGED <<using, login, book, late, executed, ops, view, call, report, dialog, resize, bulk>>

\* From the confirmation, or at once when one-click trading is on.
Submit(sl, tp) ==
  /\ Room /\ Send("ticket", openPosition(1, sl, tp))
  /\ ticket' = [Cleared(ticket) EXCEPT !.ref = [id |-> -1, known |-> Ids(view)]]
  /\ UNCHANGED <<report, dialog, resize, bulk>>

TicketAnswered(v) ==
  /\ Answered("ticket", v) /\ Told("ticket", v)
  /\ ticket' = [ticket EXCEPT !.asking = FALSE,
                  !.result = IF v \in NotDone THEN "error" ELSE v,
                  !.ref.id = IF v = "accepted" /\ ticket.ref # NoRef THEN call["ticket"].asks.serial ELSE @]
  /\ UNCHANGED <<dialog, resize, bulk>>

\* The item is in the store, or a position is that was not there when the order was sent.
Confirm ==
  /\ ticket.result = "accepted" /\ ticket.confirmation = "awaiting" /\ ticket.ref # NoRef
  /\ \/ ticket.ref.id \in Ids(view)
     \/ \E x \in view : x.kind = "position" /\ x.id \notin ticket.ref.known
  /\ ticket' = [ticket EXCEPT !.confirmation = "confirmed"]
  /\ UNCHANGED <<using, login, book, late, executed, ops, view, call, report, dialog, resize, bulk>>

BannerTimer ==
  /\ ticket.result = "accepted" /\ ticket.confirmation # "overdue"
  /\ ticket' = IF ticket.confirmation = "confirmed" THEN Cleared(ticket)
               ELSE [ticket EXCEPT !.confirmation = "overdue"]
  /\ UNCHANGED <<using, login, book, late, executed, ops, view, call, report, dialog, resize, bulk>>

----------------------------------------------------------------------------
\* Rows and dialogs.

\* A level that is set has a row, or a button, of its own.
LegRows(x) == {leg \in Legs : IF leg = "stop-loss" THEN x.sl # 0 ELSE x.tp # 0}

\* What the row of an order or a position offers.
OrderActions == {"modify", "resize", "cancel"}
PositionActions == {"close", "modify", "break even"}
Offered(x) == IF x.kind = "order" THEN OrderActions ELSE PositionActions

CancelLeg(leg, x) ==
  /\ x \in view /\ leg \in LegRows(x)
  /\ Room /\ Send(leg, cancelBracketLeg(x, leg))
  /\ UNCHANGED <<report, ticket, dialog, resize, bulk>>

LegAnswered(leg, v) ==
  /\ Answered(leg, v) /\ Told(leg, v)
  /\ UNCHANGED <<ticket, dialog, resize, bulk>>

OpenDialog(k, x) ==
  /\ k \in using \cap {"close", "modify", "resize"} /\ \A d \in Components : dialog[d] = None
  /\ x \in view /\ k \in Offered(x)
  /\ call[k] = NoCall /\ (k = "resize" => resize.step = "idle")
  /\ dialog' = [dialog EXCEPT ![k] = x]
  /\ UNCHANGED <<using, login, book, late, executed, ops, view, call, report, ticket, resize, bulk>>

\* A dialog can be closed under a call: what it asked for goes on.  Escape answers a question, too.
CloseDialog(k) ==
  /\ dialog[k] # None
  /\ dialog' = [dialog EXCEPT ![k] = None]
  /\ resize' = IF k = "resize" /\ resize.step = "asking" THEN [resize EXCEPT !.step = "idle"] ELSE resize
  /\ UNCHANGED <<using, login, book, late, executed, ops, view, call, report, ticket, bulk>>

validateCloseVolume(x, vol) == vol \in 1..x.vol

SubmitClose(vol) ==
  /\ dialog["close"] # None /\ validateCloseVolume(dialog["close"], vol)
  /\ Room /\ Send("close", closePosition(dialog["close"], vol))
  /\ UNCHANGED <<report, ticket, dialog, resize, bulk>>

SaveBrackets(sl, tp) ==
  LET x == dialog["modify"] IN
  /\ x # None /\ x.kind = "position"
  /\ Room /\ Send("modify", modifyPositionBrackets(x, sl, tp))
  /\ UNCHANGED <<report, ticket, dialog, resize, bulk>>

SaveOrder(sl, tp) ==
  LET x == dialog["modify"] IN
  /\ x # None /\ x.kind = "order"
  /\ Room /\ Send("modify", modifyOrder(x, sl, tp))
  /\ UNCHANGED <<report, ticket, dialog, resize, bulk>>

\* The stop goes to the entry price, the take-profit stays as the row shows it.
MoveToBreakEven(x) ==
  /\ x \in view /\ "break even" \in Offered(x) /\ dialog["modify"] = None /\ Room
  /\ \E entry \in Levels : x.sl # entry /\ Send("modify", modifyPositionBrackets(x, entry, x.tp))
  /\ UNCHANGED <<report, ticket, dialog, resize, bulk>>

\* The dialog stays open with an error; otherwise it closes.
DialogAnswered(k, v) ==
  /\ k \in {"close", "modify"}
  /\ Answered(k, v) /\ Told(k, v)
  /\ dialog' = IF v \in NotDone THEN dialog ELSE [dialog EXCEPT ![k] = None]
  /\ UNCHANGED <<ticket, resize, bulk>>

----------------------------------------------------------------------------
\* Resizing an order: it is cancelled, and placed anew once the cancellation is certain.

AskResize(vol) ==
  /\ dialog["resize"] # None /\ vol # dialog["resize"].vol /\ resize.step = "idle" /\ call["resize"] = NoCall
  /\ Room
  /\ resize' = [step |-> "asking", vol |-> vol, item |-> dialog["resize"], cancel |-> -1]
  /\ UNCHANGED <<using, login, book, late, executed, ops, view, call, report, ticket, dialog, bulk>>

AnswerResize(confirmed) ==
  /\ resize.step = "asking"
  /\ IF confirmed
     THEN /\ Send("resize", cancelOrder(resize.item))
          /\ resize' = [resize EXCEPT !.step = "cancelling", !.cancel = ops]
          /\ UNCHANGED <<report, ticket, dialog, bulk>>
     ELSE /\ resize' = [resize EXCEPT !.step = "idle"]
          /\ UNCHANGED <<using, login, book, late, executed, ops, view, call, report, ticket, dialog, bulk>>

EndResize(says) ==
  /\ Told("resize", says)
  /\ resize' = [resize EXCEPT !.step = "idle"]

\* mutant: an undecided cancellation is taken for one
CancelPerhaps(v) ==
  /\ resize.step = "cancelling" /\ v = "unknown" /\ Verdict("resize", v)
  /\ ops' = ops + 1
  /\ LET o == placePendingOrder(resize.item, resize.vol)
     IN  call' = [call EXCEPT !["resize"] = [op |-> o.op, fate |-> "sent", asks |-> o]]
  /\ resize' = [resize EXCEPT !.step = "placing"]
  /\ UNCHANGED <<using, login, book, executed, view, report, ticket, dialog, bulk>>

\* Without a certain cancellation nothing is placed.
CancelNotCertain(v) ==
  /\ resize.step = "cancelling" /\ v # "accepted"
  /\ Answered("resize", v)
  /\ EndResize(IF v = "unknown" THEN "check your orders" ELSE v)
  /\ UNCHANGED <<ticket, dialog, bulk>>

\* The service goes on with the account that is active by then.
CancelAccepted ==
  /\ resize.step = "cancelling" /\ Verdict("resize", "accepted")
  /\ ops' = ops + 1
  /\ LET o == placePendingOrder(resize.item, resize.vol)
     IN  call' = [call EXCEPT !["resize"] = [op |-> o.op, fate |-> "sent", asks |-> o]]
  /\ resize' = [resize EXCEPT !.step = "placing"]
  /\ UNCHANGED <<using, login, book, executed, view, report, ticket, dialog, bulk>>

\* mutant: the replacement that was not done is told as any refusal
ReplacementRefused(v) ==
  /\ resize.step = "placing"
  /\ Answered("resize", v)
  /\ EndResize(v)
  /\ dialog' = IF v \in NotDone THEN dialog ELSE [dialog EXCEPT !["resize"] = None]
  /\ UNCHANGED <<ticket, bulk>>

ReplacementAnswered(v) ==
  /\ resize.step = "placing"
  /\ Answered("resize", v)
  /\ EndResize(IF v \in NotDone THEN "orphaned" ELSE v)
  /\ dialog' = IF v \in NotDone THEN dialog ELSE [dialog EXCEPT !["resize"] = None]
  /\ UNCHANGED <<ticket, bulk>>

----------------------------------------------------------------------------
\* Closing or cancelling several items, one after the other.

NoBulk == [open |-> FALSE, kind |-> "order", targets |-> {}, left |-> {}, done |-> 0, failed |-> 0, undecided |-> 0]

\* One order, or all of them; all positions, or those in profit.
ToClose == SUBSET Ids({x \in view : x.kind = "position"})
ToCancel ==
  LET orders == Ids({x \in view : x.kind = "order"})
  IN  {{o} : o \in orders} \cup {orders}

StartBulk(targets) ==
  /\ "bulk" \in using /\ bulk.left = {} /\ Room /\ targets # {}
  /\ \E kind \in {"order", "position"} :
       /\ targets \in IF kind = "order" THEN ToCancel ELSE ToClose
       /\ bulk' = [NoBulk EXCEPT !.open = TRUE, !.kind = kind, !.targets = targets, !.left = targets]
  /\ UNCHANGED <<using, login, book, late, executed, ops, view, call, report, ticket, dialog, resize>>

Shown(id) == {x \in Find(view, id) : x.kind = bulk.kind}
Counted(id, what) ==
  LET b == [bulk EXCEPT !.left = @ \ {id}, ![what] = @ + 1]
  IN  [b EXCEPT !.open = @ /\ ~(b.left = {} /\ b.failed = 0 /\ b.undecided = 0)]

\* An item the store no longer shows needs nothing.
RunTarget(id) ==
  /\ id \in bulk.left /\ call["bulk"] = NoCall
  /\ IF Shown(id) = {}
     THEN /\ bulk' = Counted(id, "done")
          /\ UNCHANGED <<using, login, book, late, executed, ops, view, call>>
     ELSE LET x == CHOOSE x \in Shown(id) : TRUE
          IN  /\ Send("bulk", IF bulk.kind = "order" THEN cancelOrder(x) ELSE closePosition(x, x.vol))
              /\ UNCHANGED bulk
  /\ UNCHANGED <<report, ticket, dialog, resize>>

TargetAnswered(v) ==
  /\ Answered("bulk", v) /\ Told("bulk", v)
  /\ bulk' = Counted(call["bulk"].asks.id,
                     CASE v = "accepted" -> "done" [] v = "unknown" -> "undecided" [] v \in NotDone -> "failed")
  /\ UNCHANGED <<ticket, dialog, resize>>

BulkSucceeded == bulk.targets # {} /\ bulk.left = {} /\ bulk.failed = 0 /\ bulk.undecided = 0

\* Closed by the user, the loop under it goes on; it closes itself after a success.
DismissBulk ==
  /\ bulk.open /\ bulk' = [bulk EXCEPT !.open = FALSE]
  /\ UNCHANGED <<using, login, book, late, executed, ops, view, call, report, ticket, dialog, resize>>

----------------------------------------------------------------------------

\* Each account has an order and a position, with both levels.
Held(l, id, kind) == [id |-> id, login |-> l, kind |-> kind, vol |-> 2, sl |-> 1, tp |-> 1, from |-> id]

Init ==
  /\ using \in Uses
  /\ login \in Logins
  /\ book = {Held(login, -3, "order"), Held(login, -2, "position")}
  /\ late = {} /\ executed = {} /\ ops = 0
  /\ view = book
  /\ call = [k \in Components |-> NoCall]
  /\ report = [k \in Components |-> Silence]
  /\ ticket = [symbol |-> CHOOSE s \in Symbols : TRUE, asking |-> FALSE, result |-> "none",
               confirmation |-> "awaiting", ref |-> NoRef]
  /\ dialog = [k \in Components |-> None]
  /\ resize = [step |-> "idle", vol |-> 0, item |-> None, cancel |-> -1]
  /\ bulk = NoBulk

Verdicts == {"accepted", "unknown", "refused", "failed"}

Dealer == (\E k \in Components : Deal(k)) \/ (\E x \in book : Trigger(x)) \/ (\E o \in late : DealLate(o))
Ticket ==
  \/ \E s \in Symbols : SwitchSymbol(s)
  \/ RequestSubmit \/ DropRequest \/ Confirm \/ BannerTimer
  \/ \E level \in {0} \cup Levels : Submit(level, level)
  \/ \E v \in Verdicts : TicketAnswered(v)
Rows == \E leg \in Legs : (\E x \in view : CancelLeg(leg, x)) \/ (\E v \in Verdicts : LegAnswered(leg, v))
Dialogs ==
  \/ \E k \in Components : CloseDialog(k) \/ (\E x \in view : OpenDialog(k, x))
                           \/ (\E v \in Verdicts : DialogAnswered(k, v))
  \/ \E vol \in 1..2 : SubmitClose(vol)
  \/ \E sl, tp \in {0} \cup Levels : SaveBrackets(sl, tp) \/ SaveOrder(sl, tp)
  \/ \E x \in view : MoveToBreakEven(x)
Resize ==
  \/ \E vol \in 1..2 : AskResize(vol)
  \/ \E confirmed \in BOOLEAN : AnswerResize(confirmed)
  \/ CancelAccepted \/ \E v \in Verdicts : CancelNotCertain(v) \/ ReplacementAnswered(v)
Bulk ==
  \/ \E targets \in ToCancel \cup ToClose : StartBulk(targets)
  \/ \E id \in bulk.left : RunTarget(id)
  \/ \E v \in Verdicts : TargetAnswered(v)
  \/ DismissBulk

Next == SyncView \/ (\E l \in Logins : SwitchAccount(l)) \/ Dealer \/ Ticket \/ Rows \/ Dialogs \/ Resize \/ Bulk

Spec == Init /\ [][Next]_vars

----------------------------------------------------------------------------
\* Properties.

\* Resizing never leaves two live orders for one intent, whatever is lost or comes late
\* (resizePendingOrder places only after a certain cancellation).
ResizeKeepsOne == \A x, y \in book : x.from = y.from => x = y

\* What the user is told was accepted was executed; what they are told the dealer refused never
\* is, not even by a call that reaches the dealer late (sendRequest, interpretTradeResult).  An
\* error that is no verdict claims nothing: of what "failed", or whose replacement is "orphaned",
\* the call may have been executed, or may yet be.
TruthfulReports ==
  \A k \in Components : LET r == report[k] IN
    /\ r.says = "accepted" => r.serial \in executed
    /\ r.says = "refused" => r.serial \notin executed /\ \A o \in late : o.serial # r.serial

\* What the user is told of a resize is what became of the order.  Told that it was accepted, or
\* refused: it was never taken off, or what replaces it was entered.  Warned that it is gone: it
\* was taken off (trade.resize-orphaned).  Not so when the cancellation "failed", or its outcome
\* is unknown: the order may then be gone.
NothingLostSilently ==
  [][resize.step \in {"cancelling", "placing"} /\ resize'.step = "idle" =>
       LET says == report'["resize"].says IN
         /\ says \in {"accepted", "refused"} =>
              resize.cancel \notin executed \/ report'["resize"].serial \in executed \ {resize.cancel}
         /\ says = "orphaned" => resize.cancel \in executed]_vars

=============================================================================
