------------------------- MODULE TerminalToolsProofs -------------------------
(***************************************************************************)
(* What a trader works with in the web terminal, for any instance: the     *)
(* desk says the truth of its calls, a resize keeps one order and loses    *)
(* none, the numbers of the ticket stay with their instrument, the ticket  *)
(* and the server agree, the docks can always be drawn, and the address    *)
(* wins over a stored layout.                                              *)
(*                                                                         *)
(* The desk: a call has one serial, which is executed at most once and     *)
(* waits in one place until it is (SerialsOK).  What once was one order is *)
(* in the book, or asked to be placed, or taken off to be placed anew: one *)
(* of the three, once (OneToken), which needs that a number is one thing   *)
(* wherever it is shown (IdentitiesOK).                                    *)
(*                                                                         *)
(* The draft: its property speaks of a mounted ticket only; while it is    *)
(* away the draft waits under its own symbol and the volumes under theirs. *)
(*                                                                         *)
(* The address: an intent of the link stays in the store until the trader  *)
(* chooses.  The rules: a click on the ladder is on the side of the market *)
(* its kind is for, as long as the quote stands.  The docks: what a filter *)
(* keeps comes from places of its own (RanksCount), so a widget that is    *)
(* taken out leaves every other with its one place, and the one group that *)
(* gains a widget gains one that is nowhere else (OneMore).                *)
(*                                                                         *)
(* The chart: a page that is out has only candles before all that the pane *)
(* holds, of whatever series they are (EarlierOK), which needs that what   *)
(* is older than the oldest candle was there before every first page and   *)
(* every frame of the stream (OldestOK).                                   *)
(***************************************************************************)
EXTENDS OrderDesk, OrderDraft, OrderRules, WorkspaceLayout, ChartSeries, DeepLink,
        FiniteSetTheorems, FunctionTheorems, WellFoundedInduction, TLAPS

----------------------------------------------------------------------------
\* The desk.

\* What is known by its number: what the desk started with, and what was executed.
Known == executed \cup {-3, -2}

Kinds == {"order", "position"}
Items == [id : Int, login : Logins, kind : Kinds, vol : Int, sl : Nat, tp : Nat, from : Int]
Requests ==
  [op : {"open", "place", "modify", "close"}, login : Logins, id : Int, kind : Kinds, vol : Int,
   sl : Nat, tp : Nat, serial : Nat]
CallsOut == [op : {"open", "place", "modify", "close"}, fate : {"sent", "executed", "refused"}, asks : Requests]

DeskTypes ==
  /\ login \in Logins /\ ops \in Nat
  /\ executed \subseteq 0..(ops - 1)
  /\ book \subseteq Items /\ view \subseteq Items
  /\ late \subseteq Requests
  /\ call \in [Components -> CallsOut \cup {NoCall}]
  /\ DOMAIN report = Components /\ \A k \in Components : report[k].serial \in Int
  /\ dialog \in [Components -> Items \cup {None}]
  /\ resize \in [step : {"idle", "asking", "cancelling", "placing"}, vol : Int, item : Items \cup {None}, cancel : Int]
  /\ resize.step # "idle" => resize.item \in Items

UnderWay(k) == call[k].op # "none"
Asked(k) == call[k].asks

\* Every call has a serial of its own, and what is known of a call is true of its serial.
SerialsOK ==
  /\ \A o \in late : o.serial < ops /\ o.serial \notin executed
  /\ \A o, r \in late : o.serial = r.serial => o = r
  /\ \A k \in Components : UnderWay(k) =>
       /\ Asked(k).serial < ops
       /\ call[k].fate = "executed" <=> Asked(k).serial \in executed
       /\ \A o \in late : o.serial # Asked(k).serial
       /\ \A j \in Components : UnderWay(j) /\ Asked(j).serial = Asked(k).serial => j = k
  /\ \A k \in Components : 
       /\ report[k].serial < ops
       /\ report[k].says = "refused" =>
            \A j \in Components : UnderWay(j) => Asked(j).serial # report[k].serial

ReportInv == DeskTypes /\ SerialsOK /\ TruthfulReports

\* The items on the screen and in the book.
Seen == {x \in book \cup view \cup {dialog[k] : k \in Components} \cup {resize.item} : x \in Items}

\* Requests that the dealer may still execute.
Pending == late \cup {Asked(k) : k \in {j \in Components : UnderWay(j) /\ call[j].fate = "sent"}}

\* A number is one thing: its origin stays, and while it is an order its volume.
SameThing(x, y) == x.id = y.id => x.from = y.from /\ (x.kind = "order" /\ y.kind = "order" => x.vol = y.vol)
IdentitiesOK ==
  /\ \A x \in Seen : x.id \in Known /\ x.from \in Known
  /\ \A x, y \in Seen : SameThing(x, y)
  /\ \A x, y \in book : x.id = y.id => x = y
  /\ \A o \in Pending : o.op \in {"close", "place"} => o.id \in Known
  /\ \A o \in Pending : o.op = "close" /\ o.kind = "order" =>
       \A x \in Seen : x.id = o.id /\ x.kind = "order" => x.vol = o.vol

ResizeSteps ==
  /\ resize.step \in {"idle", "asking"} => call["resize"] = NoCall
  /\ resize.step # "idle" => resize.item.kind = "order"
  /\ dialog["resize"] # None => dialog["resize"].kind = "order"
  /\ resize.step = "cancelling" =>
       /\ UnderWay("resize") /\ Asked("resize").op = "close" /\ Asked("resize").kind = "order"
       /\ Asked("resize").id = resize.item.id
  /\ resize.step = "placing" => UnderWay("resize") /\ Asked("resize").op = "place"

\* An order that was cancelled for certain, and not placed again yet.
Taken(from) == resize.step = "cancelling" /\ call["resize"].fate = "executed" /\ resize.item.from = from

\* What was one order is in the book, or on its way there, or taken: one of the three, once.
OneToken ==
  /\ ResizeKeepsOne
  /\ \A o \in Pending : o.op = "place" =>
       /\ \A x \in book : x.from # o.id
       /\ \A r \in Pending : r.op = "place" /\ r.id = o.id => r = o
       /\ ~Taken(o.id)
  /\ \A x \in book : ~Taken(x.from)

ResizeInv == IdentitiesOK /\ ResizeSteps /\ OneToken
DeskInv == ReportInv /\ ResizeInv

USE DeskAssumption

----------------------------------------------------------------------------
\* Requests and items.

\* What an operation asks of the dealer is a request with the next serial.
LEMMA OpType ==
  ASSUME NEW op \in {"open", "place", "modify", "close"}, NEW l \in Logins, NEW x,
         x.id \in Int, x.kind \in Kinds, NEW vol \in Int, NEW sl \in Nat, NEW tp \in Nat, ops \in Nat
  PROVE  /\ Op(op, l, x, vol, sl, tp) \in Requests
         /\ Op(op, l, x, vol, sl, tp).op = op /\ Op(op, l, x, vol, sl, tp).serial = ops
         /\ Op(op, l, x, vol, sl, tp).kind = x.kind /\ Op(op, l, x, vol, sl, tp).id = x.id
         /\ Op(op, l, x, vol, sl, tp).vol = vol
BY DEF Op, Requests

\* The requests of the ticket, the rows, the dialogs, a resize and the bulk dialog
\* (openPosition, closePosition, modifyPositionBrackets, modifyOrder, cancelBracketLeg,
\* cancelOrder, placePendingOrder).
IsAsked(o, op) == o \in Requests /\ o.op = op /\ o.serial = ops

LEMMA OpenIsAsked ==
  ASSUME DeskTypes, NEW sl \in Nat, NEW tp \in Nat
  PROVE  IsAsked(openPosition(1, sl, tp), "open")
BY DEF DeskTypes, openPosition, IsAsked, Op, Requests, None, Kinds

LEMMA ModifyIsAsked ==
  ASSUME DeskTypes, NEW x \in Items, NEW sl \in Nat, NEW tp \in Nat
  PROVE  /\ IsAsked(modifyPositionBrackets(x, sl, tp), "modify")
         /\ IsAsked(modifyOrder(x, sl, tp), "modify")
BY DEF DeskTypes, modifyPositionBrackets, modifyOrder, modify, IsAsked, Op, Requests, Items, Kinds

LEMMA LegIsAsked ==
  ASSUME DeskTypes, NEW x \in Items, NEW leg \in Legs
  PROVE  IsAsked(cancelBracketLeg(x, leg), "modify")
BY ModifyIsAsked DEF cancelBracketLeg, Items

LEMMA CloseIsAsked ==
  ASSUME DeskTypes, NEW x \in Items, NEW vol \in Int
  PROVE  /\ IsAsked(closePosition(x, vol), "close") /\ closePosition(x, vol).kind = "position"
         /\ closePosition(x, vol).id = x.id
         /\ IsAsked(cancelOrder(x), "close") /\ cancelOrder(x).kind = "order"
         /\ cancelOrder(x).id = x.id /\ cancelOrder(x).vol = x.vol
BY DEF DeskTypes, closePosition, cancelOrder, IsAsked, Op, Requests, Items, Kinds

LEMMA PlaceIsAsked ==
  ASSUME DeskTypes, NEW x \in Items, NEW vol \in Int
  PROVE  IsAsked(placePendingOrder(x, vol), "place") /\ placePendingOrder(x, vol).id = x.from
BY DEF DeskTypes, placePendingOrder, IsAsked, Op, Requests, Items, Kinds

\* An item whose levels or volume a request changes is an item.
LEMMA ItemChanged ==
  ASSUME NEW t \in Items, NEW o \in Requests
  PROVE  /\ [t EXCEPT !.sl = o.sl, !.tp = o.tp] \in Items
         /\ [t EXCEPT !.vol = @ - o.vol] \in Items
<1>1. o.sl \in Nat /\ o.tp \in Nat /\ o.vol \in Int
  BY DEF Requests
<1>2. t.vol \in Int /\ t.vol - o.vol \in Int
  BY <1>1 DEF Items
<1>3. [t EXCEPT !.sl = o.sl, !.tp = o.tp] \in Items
  BY <1>1 DEF Items
<1>4. [t EXCEPT !.vol = t.vol - o.vol] \in Items
  BY <1>2 DEF Items
<1>. QED  BY <1>3, <1>4

\* What an executed request leaves in the book.
LEMMA AfterType ==
  ASSUME DeskTypes, NEW o \in Requests, Wanted(book, o)
  PROVE  After(book, o) \subseteq Items
<1>1. CASE o.op \in {"open", "place"}
  BY <1>1 DEF DeskTypes, After, Opened, Items, Requests, Kinds
<1>2. CASE o.op \in {"modify", "close"}
  <2>1. PICK x \in Find(book, o.id) : TRUE
    BY <1>2 DEF Wanted
  <2>2. Target(book, o) \in Items
    BY <2>1 DEF Target, Find, DeskTypes
  <2>. DEFINE t == Target(book, o)
  <2>3. t \in Items
    BY <2>2
  <2>. HIDE DEF t
  <2>4. /\ [t EXCEPT !.sl = o.sl, !.tp = o.tp] \in Items
        /\ [t EXCEPT !.vol = @ - o.vol] \in Items
    BY <2>3, ItemChanged
  <2>5. Kept(book, o) \subseteq Items
    BY DEF Kept, DeskTypes
  <2>. QED
    BY <1>2, <2>4, <2>5 DEF After, t
<1>. QED  BY <1>1, <1>2 DEF Requests

----------------------------------------------------------------------------
\* Types.

LEMMA SendTypes ==
  ASSUME DeskTypes, NEW k \in Components, NEW o, Send(k, o), NEW op, IsAsked(o, op),
         UNCHANGED <<report, dialog>>, resize'.item = resize.item,
         resize' \in [step : {"idle", "asking", "cancelling", "placing"}, vol : Int,
                      item : Items \cup {None}, cancel : Int],
         resize'.step # "idle" => resize.item \in Items
  PROVE  DeskTypes'
<1>1. [op |-> o.op, fate |-> "sent", asks |-> o] \in CallsOut
  BY DEF IsAsked, CallsOut, Requests
<1>. QED  BY <1>1 DEF DeskTypes, Send, IsAsked

LEMMA AnsweredTypes ==
  ASSUME DeskTypes, NEW k \in Components, NEW v, Answered(k, v), NEW says, Told(k, says),
         dialog' \in [Components -> Items \cup {None}],
         \/ resize' = resize
         \/ resize' = [resize EXCEPT !.step = "idle"]
  PROVE  DeskTypes'
<1>1. late' \subseteq Requests
  BY DEF DeskTypes, Answered, Verdict, CallsOut, NoCall
<1>2. \A j \in Components : report'[j].serial \in Int
  BY DEF DeskTypes, Answered, Verdict, Told, CallsOut, NoCall, Requests
<1>3. resize' \in [step : {"idle", "asking", "cancelling", "placing"}, vol : Int,
                  item : Items \cup {None}, cancel : Int]
  BY DEF DeskTypes
<1>4. resize'.step # "idle" => resize'.item \in Items
  BY DEF DeskTypes
<1>. QED  BY <1>1, <1>2, <1>3, <1>4 DEF DeskTypes, Answered, Told

\* What a step leaves alone: all but the components' own fields.
Quiet == UNCHANGED <<late, executed, ops, call, report>>

LEMMA ScreenTypes ==
  ASSUME DeskTypes, Quiet, UNCHANGED book,
         login' \in Logins, view' \subseteq Items,
         dialog' \in [Components -> Items \cup {None}],
         resize' \in [step : {"idle", "asking", "cancelling", "placing"}, vol : Int,
                      item : Items \cup {None}, cancel : Int],
         resize'.step # "idle" => resize'.item \in Items
  PROVE  DeskTypes'
BY DEF DeskTypes, Quiet

LEMMA DealTypes ==
  ASSUME DeskTypes, SerialsOK, NEW k \in Components, Deal(k)
  PROVE  DeskTypes'
<1>1. /\ call[k] \in CallsOut /\ Asked(k) \in Requests /\ Asked(k).serial \in 0..(ops - 1)
      /\ UNCHANGED <<login, late, ops, view, report, dialog, resize>>
  BY DEF Deal, DeskTypes, SerialsOK, UnderWay, NoCall, CallsOut, Asked, Requests
<1>2. CASE Execute(Asked(k)) /\ call' = [call EXCEPT ![k].fate = "executed"]
  <2>1. book' \subseteq Items /\ executed' \subseteq 0..(ops - 1)
    BY <1>1, <1>2, AfterType DEF Execute, DeskTypes
  <2>2. call' \in [Components -> CallsOut \cup {NoCall}]
    BY <1>1, <1>2 DEF DeskTypes, CallsOut
  <2>. QED  BY <1>1, <2>1, <2>2 DEF DeskTypes
<1>3. CASE call' = [call EXCEPT ![k].fate = "refused"] /\ UNCHANGED <<book, executed>>
  BY <1>1, <1>3 DEF DeskTypes, CallsOut
<1>. QED  BY <1>2, <1>3 DEF Deal, Asked

LEMMA DealLateTypes ==
  ASSUME DeskTypes, SerialsOK, NEW o \in late, DealLate(o)
  PROVE  DeskTypes'
<1>1. /\ o \in Requests /\ o.serial \in 0..(ops - 1)
      /\ late' = late \ {o}
      /\ UNCHANGED <<login, ops, view, call, report, dialog, resize>>
  BY DEF DealLate, DeskTypes, SerialsOK, Requests
<1>2. book' \subseteq Items /\ executed' \subseteq 0..(ops - 1)
  BY <1>1, AfterType DEF DealLate, Execute, DeskTypes
<1>. QED  BY <1>1, <1>2 DEF DeskTypes

LEMMA TriggerTypes ==
  ASSUME DeskTypes, NEW x \in book, Trigger(x)
  PROVE  DeskTypes'
<1>1. [x EXCEPT !.kind = "position"] \in Items
  BY DEF DeskTypes, Items, Kinds
<1>2. book' \subseteq Items
  BY <1>1 DEF Trigger, Kept, DeskTypes
<1>. QED  BY <1>2 DEF Trigger, DeskTypes

LEMMA CancelAcceptedTypes ==
  ASSUME DeskTypes, CancelAccepted
  PROVE  DeskTypes'
<1>. DEFINE o == placePendingOrder(resize.item, resize.vol)
<1>1. resize.item \in Items /\ resize.vol \in Int /\ resize' = [resize EXCEPT !.step = "placing"]
  BY DEF DeskTypes, CancelAccepted
<1>2. IsAsked(o, "place")
  BY <1>1, PlaceIsAsked
<1>3. [op |-> o.op, fate |-> "sent", asks |-> o] \in CallsOut
  BY <1>2 DEF IsAsked, CallsOut
<1>4. /\ call' = [call EXCEPT !["resize"] = [op |-> o.op, fate |-> "sent", asks |-> o]]
      /\ ops' = ops + 1 /\ UNCHANGED <<login, book, executed, view, report, dialog>>
  BY DEF CancelAccepted
<1>5. late' \subseteq Requests
  BY DEF DeskTypes, CancelAccepted, Verdict, CallsOut, NoCall, Components
<1>. HIDE DEF o
<1>6. call' \in [Components -> CallsOut \cup {NoCall}]
  BY <1>3, <1>4 DEF DeskTypes
<1>. QED  BY <1>1, <1>4, <1>5, <1>6 DEF DeskTypes

----------------------------------------------------------------------------
\* Serials and reports.

\* What an answer says of the call it answers (sendRequest, interpretTradeResult).
LEMMA VerdictIs ==
  ASSUME DeskTypes, NEW k \in Components, NEW v, Verdict(k, v)
  PROVE  /\ UnderWay(k) /\ call[k] \in CallsOut
         /\ \/ late' = late
            \/ late' = late \cup {Asked(k)} /\ call[k].fate = "sent" /\ v \in {"unknown", "failed"}
         /\ v = "accepted" => call[k].fate = "executed"
         /\ v = "refused" => call[k].fate # "executed"
<1>1. UnderWay(k) /\ call[k] \in CallsOut /\ call[k].fate \in {"sent", "executed", "refused"}
  BY DEF Verdict, DeskTypes, UnderWay, NoCall, CallsOut
<1>2. PICK a \in Answers(call[k].fate) :
        /\ v = sendRequest(a)
        /\ late' = IF call[k].fate = "sent" /\ a # "error" THEN late \cup {Asked(k)} ELSE late
  BY DEF Verdict, Asked
<1>3. CASE call[k].fate = "sent"
  BY <1>1, <1>2, <1>3 DEF Answers, Failures, sendRequest, interpretTradeResult
<1>4. CASE call[k].fate = "executed"
  BY <1>1, <1>2, <1>4 DEF Answers, Failures, sendRequest, interpretTradeResult
<1>5. CASE call[k].fate = "refused"
  BY <1>1, <1>2, <1>5 DEF Answers, Failures, sendRequest, interpretTradeResult
<1>. QED  BY <1>1, <1>3, <1>4, <1>5

LEMMA QuietSerials ==
  ASSUME SerialsOK, TruthfulReports, Quiet
  PROVE  SerialsOK' /\ TruthfulReports'
BY DEF SerialsOK, TruthfulReports, Quiet, UnderWay, Asked

LEMMA SendSerials ==
  ASSUME DeskTypes, SerialsOK, TruthfulReports,
         NEW k \in Components, NEW o, NEW op, IsAsked(o, op), Send(k, o), UNCHANGED report
  PROVE  SerialsOK' /\ TruthfulReports'
<1>1. /\ call' = [call EXCEPT ![k] = [op |-> o.op, fate |-> "sent", asks |-> o]]
      /\ ops' = ops + 1 /\ o.serial = ops /\ UNCHANGED <<late, executed, report>>
      /\ call \in [Components -> CallsOut \cup {NoCall}]
  BY DEF Send, IsAsked, DeskTypes
<1>2. \A j \in Components : j # k => UnderWay(j)' = UnderWay(j) /\ Asked(j)' = Asked(j) /\ call'[j] = call[j]
  BY <1>1 DEF UnderWay, Asked
<1>3. Asked(k)' = o /\ call'[k].fate = "sent"
  BY <1>1 DEF Asked
<1>4. /\ ops \in Nat /\ \A n \in executed : n < ops
      /\ \A j \in Components : UnderWay(j) => Asked(j).serial \in Nat /\ Asked(j).serial < ops
      /\ \A r \in late : r.serial \in Nat /\ r.serial < ops
      /\ \A j \in Components : report[j].serial \in Int /\ report[j].serial < ops
  BY DEF DeskTypes, SerialsOK, UnderWay, Asked, CallsOut, NoCall, Requests
<1>5. SerialsOK'
  <2>1. \A r \in late' : r.serial < ops' /\ r.serial \notin executed'
    BY <1>1, <1>4 DEF SerialsOK
  <2>2. ASSUME NEW j \in Components, UnderWay(j)'
        PROVE  /\ Asked(j)'.serial < ops'
               /\ call'[j].fate = "executed" <=> Asked(j)'.serial \in executed'
               /\ \A r \in late' : r.serial # Asked(j)'.serial
               /\ \A i \in Components : UnderWay(i)' /\ Asked(i)'.serial = Asked(j)'.serial => i = j
    BY <1>1, <1>2, <1>3, <1>4, <2>2 DEF SerialsOK
  <2>. QED
    BY <1>1, <1>2, <1>3, <1>4, <2>1, <2>2 DEF SerialsOK
<1>6. TruthfulReports'
  BY <1>1 DEF TruthfulReports
<1>. QED  BY <1>5, <1>6

LEMMA AnsweredSerials ==
  ASSUME DeskTypes, SerialsOK, TruthfulReports,
         NEW k \in Components, NEW v, Answered(k, v), NEW says, Told(k, says),
         says = "accepted" => v = "accepted", says = "refused" => v = "refused"
  PROVE  SerialsOK' /\ TruthfulReports'
<1>1. /\ call' = [call EXCEPT ![k] = NoCall] /\ call \in [Components -> CallsOut \cup {NoCall}]
      /\ UNCHANGED <<executed, ops>>
      /\ DOMAIN report = Components
      /\ report' = [report EXCEPT ![k] = [says |-> says, serial |-> Asked(k).serial]]
  BY DEF Answered, Told, DeskTypes, Asked
<1>2. /\ UnderWay(k)
      /\ \/ late' = late
         \/ late' = late \cup {Asked(k)} /\ call[k].fate = "sent" /\ v \in {"unknown", "failed"}
      /\ v = "accepted" => call[k].fate = "executed"
      /\ v = "refused" => call[k].fate # "executed"
  BY VerdictIs DEF Answered
<1>3. \A j \in Components : UnderWay(j)' => j # k /\ UnderWay(j) /\ Asked(j)' = Asked(j) /\ call'[j] = call[j]
  BY <1>1 DEF UnderWay, Asked, NoCall
<1>4. /\ report'[k].says = says /\ report'[k].serial = Asked(k).serial
      /\ \A j \in Components \ {k} : report'[j] = report[j]
  BY <1>1
<1>5. SerialsOK'
  BY <1>1, <1>2, <1>3, <1>4 DEF SerialsOK
<1>6. ASSUME NEW j \in Components
      PROVE  /\ report'[j].says = "accepted" => report'[j].serial \in executed'
             /\ report'[j].says = "refused" =>
                  report'[j].serial \notin executed' /\ \A o \in late' : o.serial # report'[j].serial
  <2>1. CASE j = k
    BY <1>1, <1>2, <1>4, <2>1 DEF SerialsOK
  <2>2. CASE j # k
    BY <1>1, <1>2, <1>4, <2>2 DEF SerialsOK, TruthfulReports
  <2>. QED  BY <2>1, <2>2
<1>7. TruthfulReports'
  BY <1>6 DEF TruthfulReports
<1>. QED  BY <1>5, <1>7

LEMMA DealSerials ==
  ASSUME DeskTypes, SerialsOK, TruthfulReports, NEW k \in Components, Deal(k)
  PROVE  SerialsOK' /\ TruthfulReports'
<1>1. /\ UnderWay(k) /\ call[k].fate = "sent" /\ call \in [Components -> CallsOut \cup {NoCall}]
      /\ UNCHANGED <<late, ops, report>>
  BY DEF Deal, UnderWay, DeskTypes
<1>2. call[k] \in CallsOut
  BY <1>1 DEF UnderWay, NoCall, CallsOut
<1>3. CASE Execute(Asked(k)) /\ call' = [call EXCEPT ![k].fate = "executed"]
  <2>1. executed' = executed \cup {Asked(k).serial}
    BY <1>3 DEF Execute
  <2>2. /\ \A j \in Components : UnderWay(j)' = UnderWay(j) /\ Asked(j)' = Asked(j)
        /\ \A j \in Components \ {k} : call'[j] = call[j]
        /\ call'[k].fate = "executed"
    BY <1>1, <1>2, <1>3 DEF UnderWay, Asked, CallsOut
  <2>3. \A j \in Components \ {k} : UnderWay(j) => Asked(j).serial # Asked(k).serial
    BY <1>1 DEF SerialsOK
  <2>4. SerialsOK'
    BY <1>1, <2>1, <2>2, <2>3 DEF SerialsOK
  <2>5. TruthfulReports'
    BY <1>1, <2>1 DEF SerialsOK, TruthfulReports
  <2>. QED  BY <2>4, <2>5
<1>4. CASE call' = [call EXCEPT ![k].fate = "refused"] /\ UNCHANGED <<book, executed>>
  <2>1. /\ \A j \in Components : UnderWay(j)' = UnderWay(j) /\ Asked(j)' = Asked(j)
        /\ \A j \in Components \ {k} : call'[j] = call[j]
        /\ call'[k].fate = "refused"
    BY <1>1, <1>2, <1>4 DEF UnderWay, Asked, CallsOut
  <2>. QED  BY <1>1, <1>4, <2>1 DEF SerialsOK, TruthfulReports
<1>. QED  BY <1>3, <1>4 DEF Deal, Asked

LEMMA DealLateSerials ==
  ASSUME DeskTypes, SerialsOK, TruthfulReports, NEW o \in late, DealLate(o)
  PROVE  SerialsOK' /\ TruthfulReports'
<1>1. /\ late' = late \ {o} /\ executed' \subseteq executed \cup {o.serial} /\ executed \subseteq executed'
      /\ UNCHANGED <<ops, call, report>>
  BY DEF DealLate, Execute
<1>. QED
  BY <1>1 DEF SerialsOK, TruthfulReports, UnderWay, Asked

\* A certain cancellation takes the next serial for the order that takes its place.
LEMMA CancelAcceptedSerials ==
  ASSUME DeskTypes, SerialsOK, TruthfulReports, CancelAccepted
  PROVE  SerialsOK' /\ TruthfulReports'
<1>. DEFINE o == placePendingOrder(resize.item, resize.vol)
<1>1. IsAsked(o, "place")
  BY PlaceIsAsked DEF DeskTypes, CancelAccepted
<1>2. /\ call' = [call EXCEPT !["resize"] = [op |-> o.op, fate |-> "sent", asks |-> o]]
      /\ ops' = ops + 1 /\ UNCHANGED <<executed, report>>
      /\ call \in [Components -> CallsOut \cup {NoCall}] /\ "resize" \in Components
  BY DEF CancelAccepted, DeskTypes, Components
<1>3. late' = late
  <2>1. Verdict("resize", "accepted")
    BY DEF CancelAccepted
  <2>. QED  BY <1>2, <2>1, VerdictIs
<1>. HIDE DEF o
<1>4. \A j \in Components : j # "resize" => UnderWay(j)' = UnderWay(j) /\ Asked(j)' = Asked(j) /\ call'[j] = call[j]
  BY <1>2 DEF UnderWay, Asked
<1>5. Asked("resize")' = o /\ call'["resize"].fate = "sent" /\ o.serial = ops
  BY <1>1, <1>2 DEF Asked, IsAsked
<1>6. /\ ops \in Nat /\ \A n \in executed : n < ops
      /\ \A j \in Components : UnderWay(j) => Asked(j).serial \in Nat /\ Asked(j).serial < ops
      /\ \A r \in late : r.serial \in Nat /\ r.serial < ops
      /\ \A j \in Components : report[j].serial \in Int /\ report[j].serial < ops
  BY DEF DeskTypes, SerialsOK, UnderWay, Asked, CallsOut, NoCall, Requests
<1>7. SerialsOK'
  <2>1. \A r \in late' : r.serial < ops' /\ r.serial \notin executed'
    BY <1>2, <1>3, <1>6 DEF SerialsOK
  <2>2. ASSUME NEW j \in Components, UnderWay(j)'
        PROVE  /\ Asked(j)'.serial < ops'
               /\ call'[j].fate = "executed" <=> Asked(j)'.serial \in executed'
               /\ \A r \in late' : r.serial # Asked(j)'.serial
               /\ \A i \in Components : UnderWay(i)' /\ Asked(i)'.serial = Asked(j)'.serial => i = j
    BY <1>2, <1>3, <1>4, <1>5, <1>6, <2>2 DEF SerialsOK
  <2>. QED
    BY <1>2, <1>3, <1>4, <1>5, <1>6, <2>1, <2>2 DEF SerialsOK
<1>8. TruthfulReports'
  BY <1>2, <1>3 DEF TruthfulReports
<1>. QED  BY <1>7, <1>8

----------------------------------------------------------------------------
\* Every action of the desk keeps types, serials and reports.

LEMMA TicketReports == ASSUME ReportInv, Ticket PROVE ReportInv'
<1>. USE DEF ReportInv
<1>1. ASSUME NEW v \in Verdicts, TicketAnswered(v) PROVE ReportInv'
  <2>1. /\ Answered("ticket", v) /\ Told("ticket", v) /\ UNCHANGED <<dialog, resize>>
        /\ "ticket" \in Components
    BY <1>1 DEF TicketAnswered, Components
  <2>. QED  BY <2>1, AnsweredTypes, AnsweredSerials DEF DeskTypes
<1>2. ASSUME NEW level \in {0} \cup Levels, Submit(level, level) PROVE ReportInv'
  <2>1. /\ Send("ticket", openPosition(1, level, level)) /\ UNCHANGED <<report, dialog, resize>>
        /\ "ticket" \in Components /\ level \in Nat
    BY <1>2 DEF Submit, Components
  <2>2. IsAsked(openPosition(1, level, level), "open")
    BY <2>1, OpenIsAsked
  <2>. QED  BY <2>1, <2>2, SendTypes, SendSerials DEF DeskTypes
<1>3. CASE (\E s \in Symbols : SwitchSymbol(s)) \/ RequestSubmit \/ DropRequest \/ Confirm \/ BannerTimer
  <2>1. Quiet /\ UNCHANGED <<book, login, view, dialog, resize>>
    BY <1>3 DEF SwitchSymbol, RequestSubmit, DropRequest, Confirm, BannerTimer, Quiet
  <2>. QED  BY <2>1, ScreenTypes, QuietSerials DEF DeskTypes
<1>. QED  BY <1>1, <1>2, <1>3 DEF Ticket

LEMMA RowReports == ASSUME ReportInv, Rows PROVE ReportInv'
<1>. USE DEF ReportInv
<1>1. ASSUME NEW leg \in Legs, NEW x \in view, CancelLeg(leg, x) PROVE ReportInv'
  <2>1. Send(leg, cancelBracketLeg(x, leg)) /\ UNCHANGED <<report, dialog, resize>> /\ leg \in Components
    BY <1>1 DEF CancelLeg, Components, Legs
  <2>2. IsAsked(cancelBracketLeg(x, leg), "modify")
    BY LegIsAsked DEF DeskTypes
  <2>. QED  BY <2>1, <2>2, SendTypes, SendSerials DEF DeskTypes
<1>2. ASSUME NEW leg \in Legs, NEW v \in Verdicts, LegAnswered(leg, v) PROVE ReportInv'
  <2>1. Answered(leg, v) /\ Told(leg, v) /\ UNCHANGED <<dialog, resize>> /\ leg \in Components
    BY <1>2 DEF LegAnswered, Components, Legs
  <2>. QED  BY <2>1, AnsweredTypes, AnsweredSerials DEF DeskTypes
<1>. QED  BY <1>1, <1>2 DEF Rows

LEMMA DialogReports == ASSUME ReportInv, Dialogs PROVE ReportInv'
<1>. USE DEF ReportInv
<1>1. ASSUME NEW k \in Components, CloseDialog(k) PROVE ReportInv'
  <2>1. Quiet /\ UNCHANGED <<book, login, view>> /\ dialog' = [dialog EXCEPT ![k] = None]
    BY <1>1 DEF CloseDialog, Quiet
  <2>2. resize' = resize \/ resize' = [resize EXCEPT !.step = "idle"]
    BY <1>1 DEF CloseDialog
  <2>. QED  BY <2>1, <2>2, ScreenTypes, QuietSerials DEF DeskTypes
<1>2. ASSUME NEW k \in Components, NEW x \in view, OpenDialog(k, x) PROVE ReportInv'
  <2>1. Quiet /\ UNCHANGED <<book, login, view, resize>> /\ dialog' = [dialog EXCEPT ![k] = x]
    BY <1>2 DEF OpenDialog, Quiet
  <2>. QED  BY <2>1, ScreenTypes, QuietSerials DEF DeskTypes
<1>3. ASSUME NEW k \in Components, NEW v \in Verdicts, DialogAnswered(k, v) PROVE ReportInv'
  <2>1. /\ Answered(k, v) /\ Told(k, v) /\ UNCHANGED resize
        /\ dialog' \in [Components -> Items \cup {None}]
    BY <1>3 DEF DialogAnswered, DeskTypes
  <2>. QED  BY <2>1, AnsweredTypes, AnsweredSerials DEF DeskTypes
<1>4. ASSUME NEW vol \in 1..2, SubmitClose(vol) PROVE ReportInv'
  <2>1. /\ Send("close", closePosition(dialog["close"], vol)) /\ UNCHANGED <<report, dialog, resize>>
        /\ "close" \in Components /\ dialog["close"] \in Items
    BY <1>4 DEF SubmitClose, Components, DeskTypes
  <2>2. IsAsked(closePosition(dialog["close"], vol), "close")
    BY <2>1, CloseIsAsked
  <2>. QED  BY <2>1, <2>2, SendTypes, SendSerials DEF DeskTypes
<1>5. ASSUME NEW sl \in {0} \cup Levels, NEW tp \in {0} \cup Levels,
             SaveBrackets(sl, tp) \/ SaveOrder(sl, tp)
      PROVE  ReportInv'
  <2>. DEFINE x == dialog["modify"]
  <2>1. /\ x \in Items /\ UNCHANGED <<report, dialog, resize>> /\ "modify" \in Components
        /\ sl \in Nat /\ tp \in Nat
    <3>1. UNCHANGED <<report, dialog, resize>> /\ dialog["modify"] # None
      BY <1>5 DEF SaveBrackets, SaveOrder
    <3>2. "modify" \in Components /\ x \in Items
      BY <3>1 DEF Components, DeskTypes
    <3>3. sl \in Nat /\ tp \in Nat
      BY DeskAssumption
    <3>. QED  BY <3>1, <3>2, <3>3
  <2>2. PICK o : Send("modify", o) /\ IsAsked(o, "modify")
    BY <1>5, <2>1, ModifyIsAsked DEF SaveBrackets, SaveOrder
  <2>. QED  BY <2>1, <2>2, SendTypes, SendSerials DEF DeskTypes
<1>6. ASSUME NEW x \in view, MoveToBreakEven(x) PROVE ReportInv'
  <2>1. UNCHANGED <<report, dialog, resize>> /\ "modify" \in Components /\ x \in Items /\ x.tp \in Nat
    BY <1>6 DEF MoveToBreakEven, Components, DeskTypes, Items
  <2>2. PICK o : Send("modify", o) /\ IsAsked(o, "modify")
    BY <1>6, <2>1, ModifyIsAsked DEF MoveToBreakEven
  <2>. QED  BY <2>1, <2>2, SendTypes, SendSerials DEF DeskTypes
<1>. QED  BY <1>1, <1>2, <1>3, <1>4, <1>5, <1>6 DEF Dialogs

LEMMA ResizeReports == ASSUME ReportInv, Resize PROVE ReportInv'
<1>. USE DEF ReportInv
<1>0. "resize" \in Components
  BY DEF Components
<1>1. ASSUME NEW vol \in 1..2, AskResize(vol) PROVE ReportInv'
  <2>1. /\ Quiet /\ UNCHANGED <<book, login, view, dialog>> /\ dialog["resize"] \in Items
        /\ resize' = [step |-> "asking", vol |-> vol, item |-> dialog["resize"], cancel |-> -1]
    BY <1>0, <1>1 DEF AskResize, Quiet, DeskTypes
  <2>. QED  BY <2>1, ScreenTypes, QuietSerials DEF DeskTypes
<1>2. CASE AnswerResize(TRUE)
  <2>1. /\ Send("resize", cancelOrder(resize.item)) /\ UNCHANGED <<report, dialog>>
        /\ resize' = [resize EXCEPT !.step = "cancelling", !.cancel = ops] /\ resize.item \in Items
        /\ ops \in Nat
    BY <1>2 DEF AnswerResize, DeskTypes
  <2>2. IsAsked(cancelOrder(resize.item), "close")
    BY <2>1, CloseIsAsked
  <2>3. resize \in [step : {"idle", "asking", "cancelling", "placing"}, vol : Int, item : Items \cup {None}, cancel : Int]
    BY DEF DeskTypes
  <2>4. resize'.item = resize.item
    BY <2>1, <2>3
  <2>5. ops \in Int
    BY <2>1
  <2>6. resize' \in [step : {"idle", "asking", "cancelling", "placing"}, vol : Int, item : Items \cup {None}, cancel : Int]
    BY <2>1, <2>3, <2>5
  <2>. QED  BY <1>0, <2>1, <2>2, <2>4, <2>6, SendTypes, SendSerials
<1>3. CASE AnswerResize(FALSE)
  <2>1. Quiet /\ UNCHANGED <<book, login, view, dialog>> /\ resize' = [resize EXCEPT !.step = "idle"]
    BY <1>3 DEF AnswerResize, Quiet
  <2>. QED  BY <2>1, ScreenTypes, QuietSerials DEF DeskTypes
<1>4. CASE CancelAccepted
  BY <1>4, CancelAcceptedTypes, CancelAcceptedSerials
<1>5. ASSUME NEW v \in Verdicts, CancelNotCertain(v) PROVE ReportInv'
  <2>. DEFINE says == IF v = "unknown" THEN "check your orders" ELSE v
  <2>1. /\ Answered("resize", v) /\ Told("resize", says) /\ UNCHANGED dialog
        /\ resize' = [resize EXCEPT !.step = "idle"]
    BY <1>5 DEF CancelNotCertain, EndResize
  <2>2. (says = "accepted" => v = "accepted") /\ (says = "refused" => v = "refused")
    BY DEF Verdicts, NotDone
  <2>. HIDE DEF says
  <2>. QED  BY <1>0, <2>1, <2>2, AnsweredTypes, AnsweredSerials DEF DeskTypes
<1>6. ASSUME NEW v \in Verdicts, ReplacementAnswered(v) PROVE ReportInv'
  <2>. DEFINE says == IF v \in NotDone THEN "orphaned" ELSE v
  <2>1. /\ Answered("resize", v) /\ Told("resize", says)
        /\ resize' = [resize EXCEPT !.step = "idle"]
        /\ dialog' \in [Components -> Items \cup {None}]
    BY <1>6 DEF ReplacementAnswered, EndResize, DeskTypes
  <2>2. (says = "accepted" => v = "accepted") /\ (says = "refused" => v = "refused")
    BY DEF Verdicts, NotDone
  <2>. HIDE DEF says
  <2>. QED  BY <1>0, <2>1, <2>2, AnsweredTypes, AnsweredSerials
<1>. QED  BY <1>1, <1>2, <1>3, <1>4, <1>5, <1>6 DEF Resize

LEMMA BulkReports == ASSUME ReportInv, Bulk PROVE ReportInv'
<1>. USE DEF ReportInv
<1>0. "bulk" \in Components
  BY DEF Components
<1>1. ASSUME NEW id \in bulk.left, RunTarget(id) PROVE ReportInv'
  <2>1. UNCHANGED <<report, dialog, resize>>
    BY <1>1 DEF RunTarget
  <2>2. CASE Shown(id) = {}
    <3>1. Quiet /\ UNCHANGED <<book, login, view, dialog, resize>>
      BY <1>1, <2>2 DEF RunTarget, Quiet
    <3>. QED  BY <3>1, ScreenTypes, QuietSerials DEF DeskTypes
  <2>3. CASE Shown(id) # {}
    <3>1. PICK x \in Shown(id) : Send("bulk", IF bulk.kind = "order" THEN cancelOrder(x) ELSE closePosition(x, x.vol))
      BY <1>1, <2>3 DEF RunTarget
    <3>2. x \in Items /\ x.vol \in Int
      BY DEF Shown, Find, DeskTypes, Items
    <3>3. PICK o : Send("bulk", o) /\ IsAsked(o, "close")
      BY <3>1, <3>2, CloseIsAsked
    <3>. QED  BY <1>0, <2>1, <3>3, SendTypes, SendSerials DEF DeskTypes
  <2>. QED  BY <2>2, <2>3
<1>2. ASSUME NEW v \in Verdicts, TargetAnswered(v) PROVE ReportInv'
  <2>1. Answered("bulk", v) /\ Told("bulk", v) /\ UNCHANGED <<dialog, resize>>
    BY <1>2 DEF TargetAnswered
  <2>. QED  BY <1>0, <2>1, AnsweredTypes, AnsweredSerials DEF DeskTypes
<1>3. CASE DismissBulk \/ \E targets \in ToCancel \cup ToClose : StartBulk(targets)
  <2>1. Quiet /\ UNCHANGED <<book, login, view, dialog, resize>>
    BY <1>3 DEF DismissBulk, StartBulk, Quiet
  <2>. QED  BY <2>1, ScreenTypes, QuietSerials DEF DeskTypes
<1>. QED  BY <1>1, <1>2, <1>3 DEF Bulk

LEMMA ReportInvKept == ASSUME ReportInv, [Next]_vars PROVE ReportInv'
<1>1. CASE SyncView \/ \E l \in Logins : SwitchAccount(l)
  <2>1. /\ Quiet /\ UNCHANGED <<book, dialog, resize>> /\ login' \in Logins /\ view' \subseteq Items
    BY <1>1 DEF SyncView, SwitchAccount, Quiet, ReportInv, DeskTypes
  <2>. QED  BY <2>1, ScreenTypes, QuietSerials DEF ReportInv, DeskTypes
<1>2. CASE Dealer
  <2>1. ASSUME NEW x \in book, Trigger(x) PROVE ReportInv'
    <3>1. Quiet
      BY <2>1 DEF Trigger, Quiet
    <3>. QED  BY <2>1, <3>1, TriggerTypes, QuietSerials DEF ReportInv
  <2>. QED
    BY <1>2, <2>1, DealTypes, DealSerials, DealLateTypes, DealLateSerials DEF Dealer, ReportInv
<1>3. CASE UNCHANGED vars
  <2>1. Quiet /\ UNCHANGED <<book, login, view, dialog, resize>>
    BY <1>3 DEF vars, Quiet
  <2>. QED  BY <2>1, ScreenTypes, QuietSerials DEF ReportInv, DeskTypes
<1>. QED
  BY <1>1, <1>2, <1>3, TicketReports, RowReports, DialogReports, ResizeReports, BulkReports DEF Next

LEMMA ReportInvHolds == Init => ReportInv
BY DEF Init, ReportInv, DeskTypes, SerialsOK, TruthfulReports, Held, Items, Kinds, UnderWay, NoCall,
       Silence, Components, None

\* What the user is told was accepted was executed, what they are told was refused never is, for any
\* accounts, components and calls, whatever is lost or comes late (sendRequest).
THEOREM ReportsAreTrue == Spec => []TruthfulReports
<1>1. ReportInv => TruthfulReports
  BY DEF ReportInv
<1>. QED  BY ReportInvHolds, ReportInvKept, <1>1, PTL DEF Spec

----------------------------------------------------------------------------
\* Resizing.

\* An item after a step is what an item was before: the same number, from the same origin.
Alike(y, x) == y.id = x.id /\ y.from = x.from /\ (y.kind = "order" => x.kind = "order" /\ y.vol = x.vol)

\* A request that opens, changes or closes what the screen shows.
Harmless(p) ==
  \/ p.op \in {"open", "modify"}
  \/ p.op = "close" /\ \E x \in Seen : p.id = x.id /\ (p.kind = "order" => x.kind = "order" /\ p.vol = x.vol)

LEMMA PendingIs ==
  ASSUME NEW p
  PROVE  p \in Pending <=> p \in late \/ \E k \in Components : UnderWay(k) /\ call[k].fate = "sent" /\ p = Asked(k)
BY DEF Pending

\* Most steps leave the book with what it had, or with less.
LEMMA AlikeKeeps ==
  ASSUME DeskTypes, DeskTypes', IdentitiesOK, OneToken,
         \A y \in book' : \E x \in book : Alike(y, x),
         \A y, z \in book' : y.id = z.id => y = z,
         \A y \in Seen' : y \in book' \/ y \in Seen,
         executed \subseteq executed',
         \A p \in Pending' : p \in Pending \/ Harmless(p),
         \A f : Taken(f)' => \/ Taken(f)
                            \/ /\ \A x \in book' : x.from # f
                               /\ \A p \in Pending' : p.op = "place" => p.id # f
  PROVE  IdentitiesOK' /\ OneToken'
<1>1. book \subseteq Seen /\ Known \subseteq Known'
  BY DEF Seen, DeskTypes, Known
<1>2. \A y \in Seen' : \E x \in Seen : Alike(y, x)
  BY <1>1 DEF Alike
<1>3. \A y \in Seen' : y.id \in Known' /\ y.from \in Known'
  BY <1>1, <1>2 DEF IdentitiesOK, Alike
<1>4. \A y, z \in Seen' : SameThing(y, z)
  BY <1>2 DEF IdentitiesOK, Alike, SameThing
<1>5. \A p \in Pending' : p.op \in {"close", "place"} => p.id \in Known'
  BY <1>1 DEF IdentitiesOK, Harmless
<1>6. ASSUME NEW p \in Pending', p.op = "close", p.kind = "order",
             NEW y \in Seen', y.id = p.id, y.kind = "order"
      PROVE  y.vol = p.vol
  <2>1. PICK x \in Seen : Alike(y, x)
    BY <1>2
  <2>2. x.id = p.id /\ x.kind = "order" /\ x.vol = y.vol
    BY <1>6, <2>1 DEF Alike
  <2>3. CASE p \in Pending
    BY <1>6, <2>2, <2>3 DEF IdentitiesOK
  <2>4. CASE Harmless(p)
    <3>1. PICK z \in Seen : z.id = p.id /\ z.kind = "order" /\ z.vol = p.vol
      BY <1>6, <2>4 DEF Harmless
    <3>. QED  BY <2>2, <3>1 DEF IdentitiesOK, SameThing
  <2>. QED  BY <2>3, <2>4
<1>7. IdentitiesOK'
  BY <1>3, <1>4, <1>5, <1>6 DEF IdentitiesOK, SameThing
<1>8. ResizeKeepsOne'
  BY DEF ResizeKeepsOne, OneToken, Alike
<1>9. \A p \in Pending' : p.op = "place" => p \in Pending
  BY DEF Harmless
<1>10. OneToken'
  BY <1>8, <1>9 DEF OneToken, Alike
<1>. QED  BY <1>7, <1>10

\* What opens or is placed is new, and so is its number.
LEMMA NewKeeps ==
  ASSUME DeskTypes, DeskTypes', IdentitiesOK, OneToken, NEW n,
         book' = book \cup {n}, n.id \notin Known, n.id \in Known', n.from \in Known',
         executed \subseteq executed',
         \A y \in Seen' : y = n \/ y \in Seen,
         Pending' \subseteq Pending,
         \A x \in book : x.from # n.from,
         \A p \in Pending' : p.op = "place" => p.id # n.from,
         ~Taken(n.from), \A f : Taken(f)' => Taken(f)
  PROVE  IdentitiesOK' /\ OneToken'
<1>1. book \subseteq Seen /\ Known \subseteq Known'
  BY DEF Seen, DeskTypes, Known
<1>2. \A x \in Seen : x.id # n.id
  BY DEF IdentitiesOK
<1>3. \A p \in Pending' : p.op = "close" => p.id # n.id
  BY DEF IdentitiesOK
<1>4. \A y, z \in Seen' : SameThing(y, z)
  BY <1>2 DEF IdentitiesOK, SameThing
<1>5. IdentitiesOK'
  BY <1>1, <1>2, <1>3, <1>4 DEF IdentitiesOK, SameThing
<1>6. OneToken'
  BY DEF OneToken, ResizeKeepsOne
<1>. QED  BY <1>5, <1>6

\* A request that may still be executed has a serial that names nothing yet.
LEMMA PendingIsNew ==
  ASSUME DeskTypes, SerialsOK, NEW p \in Pending
  PROVE  p \in Requests /\ p.serial \in Nat /\ p.serial \notin Known
<1>1. CASE p \in late
  BY <1>1 DEF DeskTypes, SerialsOK, Requests, Known
<1>2. ASSUME NEW k \in Components, UnderWay(k), call[k].fate = "sent", p = Asked(k)
      PROVE  p \in Requests /\ p.serial \in Nat /\ p.serial \notin Known
  BY <1>2 DEF DeskTypes, SerialsOK, UnderWay, NoCall, CallsOut, Asked, Requests, Known
<1>. QED  BY <1>1, <1>2, PendingIs

\* A request that is executed leaves no trace but in the book.  p is one the dealer may execute.
LEMMA ExecuteKeeps ==
  ASSUME DeskTypes, DeskTypes', SerialsOK, IdentitiesOK, OneToken, NEW p \in Pending, Execute(p),
         Pending' = Pending \ {p}, UNCHANGED <<view, dialog, resize>>,
         \A f : Taken(f)' => Taken(f) \/ (p.op = "close" /\ p.kind = "order" /\ resize.item \in Seen
                                          /\ p.id = resize.item.id /\ f = resize.item.from)
  PROVE  IdentitiesOK' /\ OneToken'
<1>1. p \in Requests /\ p.serial \notin Known /\ p.serial \in Known' /\ executed \subseteq executed'
  BY PendingIsNew DEF Execute, Known
<1>2. book \subseteq Seen /\ \A y \in Seen' : y \in book' \/ y \in Seen
  BY DEF Seen, DeskTypes
<1>3. CASE p.op = "open"
  <2>. DEFINE n == Opened(p, "position", p.serial)
  <2>1. book' = book \cup {n} /\ n.id = p.serial /\ n.from = p.serial
    BY <1>3 DEF Execute, After, Opened
  <2>. HIDE DEF n
  <2>2. \A x \in book : x.from # n.from
    BY <1>1, <1>2, <2>1 DEF IdentitiesOK
  <2>3. \A r \in Pending' : r.op = "place" => r.id # n.from
    BY <1>1, <2>1 DEF IdentitiesOK
  <2>4. ~Taken(n.from)
    <3>1. resize.step = "cancelling" => resize.item \in Seen
      BY DEF DeskTypes, Seen
    <3>. QED  BY <1>1, <2>1, <3>1 DEF Taken, IdentitiesOK
  <2>5. \A f : Taken(f)' => Taken(f)
    BY <1>3
  <2>6. \A y \in Seen' : y = n \/ y \in Seen
    BY <1>2, <2>1
  <2>. QED  BY <1>1, <2>1, <2>2, <2>3, <2>4, <2>5, <2>6, NewKeeps
<1>4. CASE p.op = "place"
  <2>. DEFINE n == Opened(p, "order", p.id)
  <2>1. book' = book \cup {n} /\ n.id = p.serial /\ n.from = p.id
    BY <1>4 DEF Execute, After, Opened
  <2>. HIDE DEF n
  <2>2. \A x \in book : x.from # n.from
    BY <1>4, <2>1 DEF OneToken
  <2>3. \A r \in Pending' : r.op = "place" => r.id # n.from
    BY <1>4, <2>1 DEF OneToken
  <2>4. ~Taken(n.from)
    BY <1>4, <2>1 DEF OneToken
  <2>5. \A f : Taken(f)' => Taken(f)
    BY <1>4
  <2>6. \A y \in Seen' : y = n \/ y \in Seen
    BY <1>2, <2>1
  <2>7. p.id \in Known'
    BY <1>1, <1>4 DEF IdentitiesOK, Known
  <2>. QED  BY <1>1, <2>1, <2>2, <2>3, <2>4, <2>5, <2>6, <2>7, NewKeeps
<1>5. CASE p.op \in {"modify", "close"}
  <2>1. PICK x \in book : /\ x.id = p.id /\ x.login = p.login /\ x.kind = p.kind
                          /\ p.op = "close" => p.vol <= x.vol
    BY <1>5 DEF Execute, Wanted, Find
  <2>2. Find(book, p.id) = {x}
    BY <2>1 DEF Find, IdentitiesOK
  <2>3. Target(book, p) = x
    BY <2>2 DEF Target
  <2>4. \A y \in Kept(book, p) : y \in book /\ y.id # x.id
    BY <2>1 DEF Kept
  <2>5. x \in Items /\ x \in Seen
    BY <1>2 DEF DeskTypes
  <2>6. CASE p.op = "modify"
    <3>. DEFINE y == [x EXCEPT !.sl = p.sl, !.tp = p.tp]
    <3>1. book' = Kept(book, p) \cup {y}
      BY <2>3, <2>6 DEF Execute, After
    <3>2. y.id = x.id /\ y.from = x.from /\ y.kind = x.kind /\ y.vol = x.vol
      BY <2>5 DEF Items
    <3>. HIDE DEF y
    <3>3. \A z \in book' : \E w \in book : Alike(z, w)
      BY <2>4, <3>1, <3>2 DEF Alike
    <3>4. \A z, w \in book' : z.id = w.id => z = w
      BY <2>4, <3>1, <3>2 DEF IdentitiesOK
    <3>. QED  BY <1>1, <1>2, <2>6, <3>3, <3>4, AlikeKeeps
  <2>7. CASE p.op = "close" /\ p.kind = "order"
    <3>1. p.vol = x.vol
      BY <2>1, <2>5, <2>7 DEF IdentitiesOK
    <3>2. book' = Kept(book, p)
      BY <2>3, <2>5, <2>7, <3>1 DEF Execute, After, Items
    <3>3. \A z \in book' : \E w \in book : Alike(z, w)
      BY <2>4, <3>2 DEF Alike
    <3>4. \A z, w \in book' : z.id = w.id => z = w
      BY <2>4, <3>2 DEF IdentitiesOK
    <3>5. ASSUME NEW f, Taken(f)', ~Taken(f)
          PROVE  /\ \A y \in book' : y.from # f
                 /\ \A r \in Pending' : r.op = "place" => r.id # f
      <4>1. f = x.from
        BY <2>1, <2>5, <3>5 DEF IdentitiesOK, SameThing
      <4>. QED  BY <2>1, <2>4, <3>2, <4>1 DEF OneToken, ResizeKeepsOne
    <3>. QED  BY <1>1, <1>2, <3>3, <3>4, <3>5, AlikeKeeps
  <2>8. CASE p.op = "close" /\ p.kind = "position"
    <3>. DEFINE y == [x EXCEPT !.vol = x.vol - p.vol]
    <3>1. book' = Kept(book, p) \/ book' = Kept(book, p) \cup {y}
      BY <2>3, <2>8 DEF Execute, After
    <3>2. y.id = x.id /\ y.from = x.from /\ y.kind = x.kind /\ x.kind = "position"
      BY <2>1, <2>5, <2>8 DEF Items
    <3>. HIDE DEF y
    <3>3. \A z \in book' : \E w \in book : Alike(z, w)
      BY <2>4, <3>1, <3>2 DEF Alike
    <3>4. \A z, w \in book' : z.id = w.id => z = w
      BY <2>4, <3>1, <3>2 DEF IdentitiesOK
    <3>. QED  BY <1>1, <1>2, <2>8, <3>3, <3>4, AlikeKeeps
  <2>. QED  BY <1>1, <1>5, <2>6, <2>7, <2>8 DEF Requests, Kinds
<1>. QED  BY <1>1, <1>3, <1>4, <1>5 DEF Requests

\* A call that is dealt with is no longer to be executed, and no other one is it.
LEMMA DealKeeps ==
  ASSUME DeskInv, DeskTypes', NEW k \in Components, Deal(k)
  PROVE  IdentitiesOK' /\ OneToken'
<1>. USE DEF DeskInv, ReportInv, ResizeInv
<1>1. /\ UnderWay(k) /\ call[k].fate = "sent" /\ call[k] \in CallsOut
      /\ call \in [Components -> CallsOut \cup {NoCall}] /\ Asked(k) \in Pending
      /\ UNCHANGED <<late, view, dialog, resize>>
  BY DEF Deal, UnderWay, DeskTypes, NoCall, Pending
<1>2. ASSUME NEW fate \in {"executed", "refused"}, call' = [call EXCEPT ![k].fate = fate]
      PROVE  /\ \A j \in Components : UnderWay(j)' = UnderWay(j) /\ Asked(j)' = Asked(j)
             /\ \A j \in Components \ {k} : call'[j] = call[j]
             /\ call'[k].fate = fate
             /\ Pending' = Pending \ {Asked(k)}
  <2>1. /\ \A j \in Components : UnderWay(j)' = UnderWay(j) /\ Asked(j)' = Asked(j)
        /\ \A j \in Components \ {k} : call'[j] = call[j]
        /\ call'[k].fate = fate
    BY <1>1, <1>2 DEF UnderWay, Asked, CallsOut
  <2>2. /\ Asked(k) \notin late
        /\ \A j \in Components : UnderWay(j) /\ Asked(j) = Asked(k) => j = k
    BY <1>1 DEF SerialsOK
  <2>. QED  BY <1>1, <2>1, <2>2 DEF Pending
<1>3. CASE Execute(Asked(k)) /\ call' = [call EXCEPT ![k].fate = "executed"]
  <2>1. /\ \A j \in Components \ {k} : call'[j] = call[j]
        /\ Pending' = Pending \ {Asked(k)}
    BY <1>2, <1>3
  <2>2. ASSUME NEW f, Taken(f)', ~Taken(f)
        PROVE  /\ Asked(k).op = "close" /\ Asked(k).kind = "order" /\ resize.item \in Seen
               /\ Asked(k).id = resize.item.id /\ f = resize.item.from
    <3>1. k = "resize" /\ resize.step = "cancelling" /\ f = resize.item.from
      BY <1>1, <2>1, <2>2 DEF Taken, Components
    <3>. QED  BY <3>1 DEF ResizeSteps, DeskTypes, Seen
  <2>. QED  BY <1>1, <1>3, <2>1, <2>2, ExecuteKeeps
<1>4. CASE call' = [call EXCEPT ![k].fate = "refused"] /\ UNCHANGED <<book, executed>>
  <2>1. /\ \A j \in Components \ {k} : call'[j] = call[j]
        /\ call'[k].fate = "refused"
        /\ Pending' = Pending \ {Asked(k)}
    BY <1>2, <1>4
  <2>2. \A f : Taken(f)' => Taken(f)
    BY <1>1, <2>1 DEF Taken, Components
  <2>3. Seen' = Seen /\ \A y \in book' : Alike(y, y)
    BY <1>1, <1>4 DEF Seen, Alike
  <2>4. \A y, z \in book' : y.id = z.id => y = z
    BY <1>4 DEF IdentitiesOK
  <2>. QED  BY <1>4, <2>1, <2>2, <2>3, <2>4, AlikeKeeps
<1>. QED  BY <1>3, <1>4 DEF Deal, Asked

LEMMA DealLateKeeps ==
  ASSUME DeskInv, DeskTypes', NEW o \in late, DealLate(o)
  PROVE  IdentitiesOK' /\ OneToken'
<1>. USE DEF DeskInv, ReportInv, ResizeInv
<1>1. /\ o \in Pending /\ UNCHANGED <<view, dialog, call, resize>>
      /\ late' = late \ {o}
  BY DEF Pending, DealLate
<1>2. \A j \in Components : UnderWay(j) => Asked(j) # o
  BY DEF SerialsOK
<1>3. Pending' = Pending \ {o}
  BY <1>1, <1>2 DEF Pending, UnderWay, Asked
<1>4. \A f : Taken(f)' => Taken(f)
  BY <1>1 DEF Taken
<1>5. CASE Execute(o)
  BY <1>1, <1>3, <1>4, <1>5, ExecuteKeeps
<1>6. CASE UNCHANGED <<book, executed>>
  <2>1. Seen' = Seen /\ \A y \in book' : Alike(y, y)
    BY <1>1, <1>6 DEF Seen, Alike
  <2>2. \A y, z \in book' : y.id = z.id => y = z
    BY <1>6 DEF IdentitiesOK
  <2>. QED  BY <1>3, <1>4, <1>6, <2>1, <2>2, AlikeKeeps
<1>. QED  BY <1>5, <1>6 DEF DealLate

LEMMA TriggerKeeps ==
  ASSUME DeskInv, DeskTypes', NEW x \in book, Trigger(x)
  PROVE  IdentitiesOK' /\ OneToken'
<1>. USE DEF DeskInv, ReportInv, ResizeInv
<1>. DEFINE y == [x EXCEPT !.kind = "position"]
<1>1. /\ book' = Kept(book, x) \cup {y}
      /\ UNCHANGED <<late, executed, view, call, dialog, resize>>
  BY DEF Trigger
<1>2. y.id = x.id /\ y.from = x.from /\ y.kind = "position"
  BY DEF DeskTypes, Items
<1>. HIDE DEF y
<1>3. \A z \in book' : \E w \in book : Alike(z, w)
  BY <1>1, <1>2 DEF Alike, Kept
<1>4. \A z, w \in book' : z.id = w.id => z = w
  BY <1>1, <1>2 DEF IdentitiesOK, Kept
<1>5. Pending' = Pending /\ \A f : Taken(f)' = Taken(f)
  BY <1>1 DEF Pending, UnderWay, Asked, Taken
<1>6. \A z \in Seen' : z \in book' \/ z \in Seen
  BY <1>1 DEF Seen
<1>. QED  BY <1>1, <1>3, <1>4, <1>5, <1>6, AlikeKeeps

\* The steps of the screen leave the book and what was executed alone.
LEMMA ScreenKeeps ==
  ASSUME DeskInv, DeskTypes', UNCHANGED <<book, executed>>, Seen' \subseteq Seen,
         \A p \in Pending' : p \in Pending \/ Harmless(p),
         \A f : Taken(f)' => Taken(f)
  PROVE  IdentitiesOK' /\ OneToken'
<1>. USE DEF DeskInv, ReportInv, ResizeInv
<1>1. \A y \in book' : Alike(y, y)
  BY DEF Alike
<1>2. \A y, z \in book' : y.id = z.id => y = z
  BY DEF IdentitiesOK
<1>. QED  BY <1>1, <1>2, AlikeKeeps

LEMMA QuietKeeps ==
  ASSUME DeskInv, DeskTypes', Quiet, UNCHANGED book, Seen' \subseteq Seen,
         resize' = resize \/ resize'.step \in {"idle", "asking"}
  PROVE  IdentitiesOK' /\ OneToken'
<1>1. Pending' = Pending
  BY DEF Quiet, Pending, UnderWay, Asked
<1>2. \A f : Taken(f)' => Taken(f)
  BY DEF Quiet, Taken
<1>. QED  BY <1>1, <1>2, ScreenKeeps DEF Quiet

LEMMA SendKeeps ==
  ASSUME DeskInv, DeskTypes', NEW k \in Components, NEW o, Send(k, o), Harmless(o),
         UNCHANGED dialog, resize'.item = resize.item, k = "resize" \/ resize' = resize
  PROVE  IdentitiesOK' /\ OneToken'
<1>1. /\ call' = [call EXCEPT ![k] = [op |-> o.op, fate |-> "sent", asks |-> o]]
      /\ call \in [Components -> CallsOut \cup {NoCall}] /\ UNCHANGED <<late, executed, book, view>>
  BY DEF DeskInv, ReportInv, DeskTypes, Send
<1>2. /\ \A j \in Components : j # k => UnderWay(j)' = UnderWay(j) /\ Asked(j)' = Asked(j) /\ call'[j] = call[j]
      /\ Asked(k)' = o /\ call'[k].fate = "sent"
  BY <1>1 DEF UnderWay, Asked
<1>3. \A p \in Pending' : p \in Pending \/ p = o
  BY <1>1, <1>2 DEF Pending
<1>4. \A f : Taken(f)' => Taken(f)
  BY <1>1, <1>2 DEF Taken, Components
<1>5. Seen' = Seen
  BY <1>1 DEF Seen
<1>. QED  BY <1>1, <1>3, <1>4, <1>5, ScreenKeeps

LEMMA AnsweredKeeps ==
  ASSUME DeskInv, DeskTypes', NEW k \in Components, NEW v, Answered(k, v),
         Seen' \subseteq Seen,
         (k # "resize" /\ resize' = resize) \/ resize'.step = "idle"
  PROVE  IdentitiesOK' /\ OneToken'
<1>1. /\ call' = [call EXCEPT ![k] = NoCall] /\ UNCHANGED <<book, executed>>
      /\ call \in [Components -> CallsOut \cup {NoCall}] /\ Verdict(k, v)
  BY DEF DeskInv, ReportInv, DeskTypes, Answered
<1>2. /\ \A j \in Components : j # k => UnderWay(j)' = UnderWay(j) /\ Asked(j)' = Asked(j) /\ call'[j] = call[j]
      /\ ~UnderWay(k)'
  BY <1>1 DEF UnderWay, Asked, NoCall
<1>3. \A p \in late' : p \in late \/ (p = Asked(k) /\ UnderWay(k) /\ call[k].fate = "sent")
  <2>1. DeskTypes
    BY DEF DeskInv, ReportInv
  <2>2. \/ late' = late
        \/ late' = late \cup {Asked(k)} /\ UnderWay(k) /\ call[k].fate = "sent"
    BY <1>1, <2>1, VerdictIs
  <2>. QED  BY <2>2
<1>4. Pending' \subseteq Pending
  BY <1>2, <1>3 DEF Pending
<1>5. \A f : Taken(f)' => Taken(f)
  BY <1>1, <1>2 DEF Taken, Components
<1>. QED  BY <1>1, <1>4, <1>5, ScreenKeeps

LEMMA CancelAcceptedKeeps ==
  ASSUME DeskInv, DeskTypes', CancelAccepted
  PROVE  IdentitiesOK' /\ OneToken'
<1>. USE DEF DeskInv, ReportInv, ResizeInv
<1>. DEFINE o == placePendingOrder(resize.item, resize.vol)
<1>1. "resize" \in Components /\ Verdict("resize", "accepted") /\ resize.item \in Items /\ resize.vol \in Int
  BY DEF CancelAccepted, Components, DeskTypes
<1>2. o.op = "place" /\ o.id = resize.item.from
  BY <1>1, PlaceIsAsked DEF IsAsked
<1>3. late' = late /\ call["resize"].fate = "executed" /\ UnderWay("resize")
  BY <1>1, VerdictIs
<1>4. /\ call' = [call EXCEPT !["resize"] = [op |-> o.op, fate |-> "sent", asks |-> o]]
      /\ call \in [Components -> CallsOut \cup {NoCall}]
      /\ resize' = [resize EXCEPT !.step = "placing"]
      /\ UNCHANGED <<book, executed, view, dialog>>
  BY DEF CancelAccepted, DeskTypes
<1>. HIDE DEF o
<1>5. /\ \A j \in Components : j # "resize" => UnderWay(j)' = UnderWay(j) /\ Asked(j)' = Asked(j) /\ call'[j] = call[j]
      /\ Asked("resize")' = o
  BY <1>1, <1>4 DEF UnderWay, Asked
<1>6. Pending' \subseteq Pending \cup {o}
  BY <1>3, <1>5 DEF Pending
<1>7. Taken(o.id) /\ \A f : ~Taken(f)'
  BY <1>2, <1>3, <1>4 DEF Taken, CancelAccepted, DeskTypes
<1>8. resize.item \in Seen /\ Seen' = Seen
  BY <1>1, <1>4 DEF Seen, DeskTypes
<1>9. o.id \in Known /\ Known' = Known
  BY <1>2, <1>4, <1>8 DEF IdentitiesOK, Known
<1>10. IdentitiesOK'
  BY <1>2, <1>4, <1>6, <1>8, <1>9 DEF IdentitiesOK
<1>11. OneToken'
  BY <1>2, <1>4, <1>6, <1>7 DEF OneToken, ResizeKeepsOne
<1>. QED  BY <1>10, <1>11

----------------------------------------------------------------------------
\* Every action keeps the order that is resized one.

LEMMA StepsKept ==
  ASSUME ResizeSteps, resize' = resize, call'["resize"] = call["resize"],
         dialog'["resize"] \in {None, dialog["resize"]}
  PROVE  ResizeSteps'
BY DEF ResizeSteps, UnderWay, Asked

\* The other components' calls and answers.
LEMMA OtherSends ==
  ASSUME DeskInv, DeskTypes', NEW k \in Components \ {"resize"}, NEW o, Send(k, o), Harmless(o),
         UNCHANGED <<dialog, resize>>
  PROVE  ResizeInv'
<1>1. call'["resize"] = call["resize"]
  BY DEF Send, DeskInv, ReportInv, DeskTypes, Components
<1>. QED  BY <1>1, SendKeeps, StepsKept DEF DeskInv, ResizeInv

LEMMA OtherAnswered ==
  ASSUME DeskInv, DeskTypes', NEW k \in Components \ {"resize"}, NEW v, Answered(k, v), UNCHANGED resize,
         dialog' = dialog \/ dialog' = [dialog EXCEPT ![k] = None]
  PROVE  ResizeInv'
<1>1. /\ call'["resize"] = call["resize"] /\ UNCHANGED <<book, view>>
      /\ dialog \in [Components -> Items \cup {None}]
  BY DEF Answered, DeskInv, ReportInv, DeskTypes, Components
<1>2. \A j \in Components : dialog'[j] \in {None, dialog[j]}
  BY <1>1
<1>3. Seen' \subseteq Seen /\ "resize" \in Components
  <2>1. \A y \in Items : y \in Seen' => y \in Seen \/ y = None
    BY <1>1, <1>2 DEF Seen
  <2>2. None \notin Items
    BY DEF None, Items
  <2>. QED  BY <2>1, <2>2 DEF Seen, Components
<1>. QED  BY <1>1, <1>2, <1>3, AnsweredKeeps, StepsKept DEF DeskInv, ResizeInv

LEMMA ShownIsSeen ==
  ASSUME DeskTypes
  PROVE  /\ view \subseteq Seen
         /\ \A k \in Components : dialog[k] # None => dialog[k] \in Seen
         /\ resize.step # "idle" => resize.item \in Seen
BY DEF DeskTypes, Seen

LEMMA CloseIsHarmless ==
  ASSUME DeskTypes, NEW x \in Seen, NEW vol \in Int
  PROVE  /\ IsAsked(closePosition(x, vol), "close") /\ Harmless(closePosition(x, vol))
         /\ x.kind = "order" => IsAsked(cancelOrder(x), "close") /\ Harmless(cancelOrder(x))
<1>1. x \in Items
  BY DEF Seen
<1>. QED  BY <1>1, CloseIsAsked DEF IsAsked, Harmless

LEMMA OthersAreHarmless ==
  ASSUME NEW o, IsAsked(o, "open") \/ IsAsked(o, "modify")
  PROVE  Harmless(o)
BY DEF IsAsked, Harmless

LEMMA TicketResizes == ASSUME DeskInv, DeskTypes', Ticket PROVE ResizeInv'
<1>0. DeskTypes /\ "ticket" \in Components \ {"resize"}
  BY DEF DeskInv, ReportInv, Components
<1>1. ASSUME NEW v \in Verdicts, TicketAnswered(v) PROVE ResizeInv'
  <2>1. Answered("ticket", v) /\ UNCHANGED <<dialog, resize>>
    BY <1>1 DEF TicketAnswered
  <2>. QED  BY <1>0, <2>1, OtherAnswered
<1>2. ASSUME NEW level \in {0} \cup Levels, Submit(level, level) PROVE ResizeInv'
  <2>1. Send("ticket", openPosition(1, level, level)) /\ UNCHANGED <<dialog, resize>> /\ level \in Nat
    BY <1>2 DEF Submit
  <2>2. Harmless(openPosition(1, level, level))
    BY <1>0, <2>1, OpenIsAsked, OthersAreHarmless
  <2>. QED  BY <1>0, <2>1, <2>2, OtherSends
<1>3. CASE (\E s \in Symbols : SwitchSymbol(s)) \/ RequestSubmit \/ DropRequest \/ Confirm \/ BannerTimer
  <2>1. Quiet /\ UNCHANGED <<book, view, dialog, resize>>
    BY <1>3 DEF SwitchSymbol, RequestSubmit, DropRequest, Confirm, BannerTimer, Quiet
  <2>2. Seen' = Seen
    BY <2>1 DEF Seen
  <2>. QED  BY <2>1, <2>2, QuietKeeps, StepsKept DEF DeskInv, ResizeInv, Quiet
<1>. QED  BY <1>1, <1>2, <1>3 DEF Ticket

LEMMA RowResizes == ASSUME DeskInv, DeskTypes', Rows PROVE ResizeInv'
<1>0. DeskTypes
  BY DEF DeskInv, ReportInv
<1>1. ASSUME NEW leg \in Legs, NEW x \in view, CancelLeg(leg, x) PROVE ResizeInv'
  <2>1. /\ Send(leg, cancelBracketLeg(x, leg)) /\ UNCHANGED <<dialog, resize>>
        /\ leg \in Components \ {"resize"} /\ x \in Items
    BY <1>0, <1>1 DEF CancelLeg, Components, Legs, DeskTypes
  <2>2. Harmless(cancelBracketLeg(x, leg))
    BY <1>0, <2>1, LegIsAsked, OthersAreHarmless
  <2>. QED  BY <2>1, <2>2, OtherSends
<1>2. ASSUME NEW leg \in Legs, NEW v \in Verdicts, LegAnswered(leg, v) PROVE ResizeInv'
  <2>1. Answered(leg, v) /\ UNCHANGED <<dialog, resize>> /\ leg \in Components \ {"resize"}
    BY <1>2 DEF LegAnswered, Components, Legs
  <2>. QED  BY <2>1, OtherAnswered
<1>. QED  BY <1>1, <1>2 DEF Rows

LEMMA BulkResizes == ASSUME DeskInv, DeskTypes', Bulk PROVE ResizeInv'
<1>0. DeskTypes /\ "bulk" \in Components \ {"resize"}
  BY DEF DeskInv, ReportInv, Components
<1>1. CASE \/ \E id \in bulk.left : RunTarget(id) /\ Shown(id) = {}
           \/ DismissBulk \/ \E targets \in ToCancel \cup ToClose : StartBulk(targets)
  <2>1. Quiet /\ UNCHANGED <<book, view, dialog, resize>>
    BY <1>1 DEF RunTarget, DismissBulk, StartBulk, Quiet
  <2>2. Seen' = Seen
    BY <2>1 DEF Seen
  <2>. QED  BY <2>1, <2>2, QuietKeeps, StepsKept DEF DeskInv, ResizeInv, Quiet
<1>2. ASSUME NEW id \in bulk.left, RunTarget(id), Shown(id) # {} PROVE ResizeInv'
  <2>1. PICK x \in Shown(id) : Send("bulk", IF bulk.kind = "order" THEN cancelOrder(x) ELSE closePosition(x, x.vol))
    BY <1>2 DEF RunTarget
  <2>2. x \in Seen /\ x.kind = bulk.kind /\ x.vol \in Int
    BY <1>0, ShownIsSeen DEF Shown, Find, DeskTypes, Items
  <2>3. PICK o : Send("bulk", o) /\ Harmless(o)
    BY <1>0, <2>1, <2>2, CloseIsHarmless
  <2>. QED  BY <1>0, <1>2, <2>3, OtherSends DEF RunTarget
<1>3. ASSUME NEW v \in Verdicts, TargetAnswered(v) PROVE ResizeInv'
  <2>1. Answered("bulk", v) /\ UNCHANGED <<dialog, resize>>
    BY <1>3 DEF TargetAnswered
  <2>. QED  BY <1>0, <2>1, OtherAnswered
<1>. QED  BY <1>1, <1>2, <1>3 DEF Bulk

LEMMA DialogResizes == ASSUME DeskInv, DeskTypes', Dialogs PROVE ResizeInv'
<1>0. DeskTypes /\ ResizeSteps /\ {"close", "modify"} \subseteq Components \ {"resize"} /\ "resize" \in Components
  BY DEF DeskInv, ReportInv, ResizeInv, Components
<1>1. ASSUME NEW k \in Components, CloseDialog(k) PROVE ResizeInv'
  <2>1. /\ Quiet /\ UNCHANGED <<book, view>> /\ dialog' = [dialog EXCEPT ![k] = None]
        /\ dialog \in [Components -> Items \cup {None}]
    BY <1>0, <1>1 DEF CloseDialog, Quiet, DeskTypes
  <2>2. /\ resize' = resize \/ (resize.step = "asking" /\ resize'.step = "idle")
        /\ resize'.item = resize.item
    BY <1>0, <1>1 DEF CloseDialog, DeskTypes
  <2>3. Seen' \subseteq Seen
    <3>1. \A y \in Items : y \in Seen' => y \in Seen \/ y = None
      BY <2>1, <2>2 DEF Seen
    <3>2. None \notin Items
      BY DEF None, Items
    <3>. QED  BY <3>1, <3>2 DEF Seen
  <2>4. dialog'["resize"] \in {None, dialog["resize"]} /\ call' = call
    BY <1>0, <2>1 DEF Quiet
  <2>5. ResizeSteps'
    BY <1>0, <2>2, <2>4 DEF ResizeSteps, UnderWay, Asked
  <2>. QED  BY <2>1, <2>2, <2>3, <2>5, QuietKeeps DEF ResizeInv
<1>2. ASSUME NEW k \in Components, NEW x \in view, OpenDialog(k, x) PROVE ResizeInv'
  <2>1. /\ Quiet /\ UNCHANGED <<book, view, resize>> /\ dialog' = [dialog EXCEPT ![k] = x]
        /\ dialog \in [Components -> Items \cup {None}]
        /\ k = "resize" => x.kind = "order"
    BY <1>0, <1>2 DEF OpenDialog, Quiet, DeskTypes, Offered, OrderActions, PositionActions
  <2>2. Seen' \subseteq Seen
    BY <2>1 DEF Seen
  <2>3. ResizeSteps'
    BY <1>0, <2>1 DEF ResizeSteps, UnderWay, Asked, Quiet
  <2>. QED  BY <2>1, <2>2, <2>3, QuietKeeps DEF ResizeInv
<1>3. ASSUME NEW k \in Components, NEW v \in Verdicts, DialogAnswered(k, v) PROVE ResizeInv'
  BY <1>0, <1>3, OtherAnswered DEF DialogAnswered
<1>4. ASSUME NEW vol \in 1..2, SubmitClose(vol) PROVE ResizeInv'
  <2>1. /\ Send("close", closePosition(dialog["close"], vol)) /\ UNCHANGED <<dialog, resize>>
        /\ dialog["close"] \in Seen
    BY <1>0, <1>4, ShownIsSeen DEF SubmitClose
  <2>. QED  BY <1>0, <2>1, CloseIsHarmless, OtherSends
<1>5. ASSUME NEW sl \in {0} \cup Levels, NEW tp \in {0} \cup Levels,
             SaveBrackets(sl, tp) \/ SaveOrder(sl, tp)
      PROVE  ResizeInv'
  <2>1. /\ dialog["modify"] \in Items /\ UNCHANGED <<dialog, resize>>
        /\ sl \in Nat /\ tp \in Nat
    BY <1>0, <1>5 DEF SaveBrackets, SaveOrder, DeskTypes
  <2>2. PICK o : Send("modify", o) /\ IsAsked(o, "modify")
    BY <1>0, <1>5, <2>1, ModifyIsAsked DEF SaveBrackets, SaveOrder
  <2>. QED  BY <1>0, <2>1, <2>2, OthersAreHarmless, OtherSends
<1>6. ASSUME NEW x \in view, MoveToBreakEven(x) PROVE ResizeInv'
  <2>1. UNCHANGED <<dialog, resize>> /\ x \in Items /\ x.tp \in Nat
    BY <1>0, <1>6 DEF MoveToBreakEven, DeskTypes, Items
  <2>2. PICK o : Send("modify", o) /\ IsAsked(o, "modify")
    BY <1>0, <1>6, <2>1, ModifyIsAsked DEF MoveToBreakEven
  <2>. QED  BY <1>0, <2>1, <2>2, OthersAreHarmless, OtherSends
<1>. QED  BY <1>1, <1>2, <1>3, <1>4, <1>5, <1>6 DEF Dialogs

LEMMA ResizeResizes == ASSUME DeskInv, DeskTypes', Resize PROVE ResizeInv'
<1>0. DeskTypes /\ ResizeSteps /\ "resize" \in Components /\ call \in [Components -> CallsOut \cup {NoCall}]
  BY DEF DeskInv, ReportInv, ResizeInv, Components, DeskTypes
<1>1. ASSUME NEW vol \in 1..2, AskResize(vol) PROVE ResizeInv'
  <2>1. /\ Quiet /\ UNCHANGED <<book, view, dialog>> /\ dialog["resize"] # None
        /\ resize' = [step |-> "asking", vol |-> vol, item |-> dialog["resize"], cancel |-> -1]
        /\ call["resize"] = NoCall
    BY <1>1 DEF AskResize, Quiet
  <2>2. Seen' \subseteq Seen
    BY <1>0, <2>1 DEF Seen
  <2>3. ResizeSteps'
    BY <1>0, <2>1 DEF ResizeSteps, Quiet
  <2>. QED  BY <2>1, <2>2, <2>3, QuietKeeps DEF ResizeInv
<1>2. CASE AnswerResize(TRUE)
  <2>. DEFINE o == cancelOrder(resize.item)
  <2>1. /\ Send("resize", o) /\ UNCHANGED dialog
        /\ resize' = [resize EXCEPT !.step = "cancelling", !.cancel = ops]
        /\ resize.item \in Seen /\ resize.item.kind = "order" /\ resize.item \in Items
    BY <1>0, <1>2, ShownIsSeen DEF AnswerResize, DeskTypes, ResizeSteps
  <2>2. /\ IsAsked(o, "close") /\ o.kind = "order" /\ o.id = resize.item.id
        /\ Harmless(o)
    BY <1>0, <2>1, CloseIsAsked, CloseIsHarmless
  <2>3. call'["resize"] = [op |-> o.op, fate |-> "sent", asks |-> o]
    BY <1>0, <2>1 DEF Send
  <2>4. resize'.item = resize.item /\ resize'.step = "cancelling"
    BY <1>0, <2>1 DEF DeskTypes
  <2>. HIDE DEF o
  <2>5. ResizeSteps'
    BY <1>0, <2>1, <2>2, <2>3, <2>4 DEF ResizeSteps, UnderWay, Asked, IsAsked
  <2>. QED  BY <1>0, <2>1, <2>2, <2>4, <2>5, SendKeeps DEF ResizeInv
<1>3. CASE AnswerResize(FALSE)
  <2>1. /\ Quiet /\ UNCHANGED <<book, view, dialog>> /\ resize.step = "asking"
        /\ resize'.step = "idle" /\ resize'.item = resize.item
    BY <1>0, <1>3 DEF AnswerResize, Quiet, DeskTypes
  <2>2. Seen' = Seen
    BY <2>1 DEF Seen
  <2>3. ResizeSteps'
    BY <1>0, <2>1 DEF ResizeSteps, Quiet
  <2>. QED  BY <2>1, <2>2, <2>3, QuietKeeps DEF ResizeInv
<1>4. CASE CancelAccepted
  <2>1. /\ resize' = [resize EXCEPT !.step = "placing"] /\ resize.step = "cancelling"
        /\ call' = [call EXCEPT !["resize"] = [op |-> "place", fate |-> "sent",
                                               asks |-> placePendingOrder(resize.item, resize.vol)]]
        /\ UNCHANGED dialog /\ placePendingOrder(resize.item, resize.vol).op = "place"
    BY <1>0, <1>4, PlaceIsAsked, ZenonT(30) DEF CancelAccepted, DeskTypes, IsAsked
  <2>2. ResizeSteps'
    BY <1>0, <2>1 DEF ResizeSteps, UnderWay, Asked, DeskTypes
  <2>. QED  BY <1>4, <2>2, CancelAcceptedKeeps DEF ResizeInv
<1>5. ASSUME NEW v \in Verdicts, CancelNotCertain(v) \/ ReplacementAnswered(v) PROVE ResizeInv'
  <2>1. /\ Answered("resize", v) /\ resize' = [resize EXCEPT !.step = "idle"]
        /\ dialog' = dialog \/ dialog' = [dialog EXCEPT !["resize"] = None]
    BY <1>5 DEF CancelNotCertain, ReplacementAnswered, EndResize
  <2>2. resize'.step = "idle" /\ resize'.item = resize.item /\ call'["resize"] = NoCall
    BY <1>0, <2>1 DEF Answered, DeskTypes
  <2>3. \A j \in Components : dialog'[j] \in {None, dialog[j]}
    BY <1>0, <2>1 DEF DeskTypes
  <2>4. Seen' \subseteq Seen
    <3>1. \A y \in Items : y \in Seen' => y \in Seen \/ y = None
      BY <2>1, <2>2, <2>3 DEF Seen, Answered
    <3>2. None \notin Items
      BY DEF None, Items
    <3>. QED  BY <3>1, <3>2 DEF Seen
  <2>5. ResizeSteps'
    BY <1>0, <2>2, <2>3 DEF ResizeSteps
  <2>. QED  BY <1>0, <2>1, <2>2, <2>4, <2>5, AnsweredKeeps DEF ResizeInv
<1>. QED  BY <1>1, <1>2, <1>3, <1>4, <1>5 DEF Resize

LEMMA DealerResizes == ASSUME DeskInv, DeskTypes', Dealer PROVE ResizeInv'
<1>0. DeskTypes /\ ResizeSteps /\ "resize" \in Components /\ call \in [Components -> CallsOut \cup {NoCall}]
  BY DEF DeskInv, ReportInv, ResizeInv, Components, DeskTypes
<1>1. ASSUME NEW k \in Components, Deal(k) PROVE ResizeInv'
  <2>1. /\ UNCHANGED <<dialog, resize>> /\ call[k] # NoCall /\ call[k] \in CallsOut
        /\ call' = [call EXCEPT ![k].fate = "executed"] \/ call' = [call EXCEPT ![k].fate = "refused"]
    BY <1>0, <1>1 DEF Deal, NoCall
  <2>2. /\ call["resize"] = NoCall => call'["resize"] = NoCall
        /\ UnderWay("resize")' = UnderWay("resize") /\ Asked("resize")' = Asked("resize")
    BY <1>0, <2>1 DEF UnderWay, Asked, CallsOut
  <2>3. ResizeSteps'
    BY <1>0, <2>1, <2>2 DEF ResizeSteps
  <2>. QED  BY <1>1, <2>3, DealKeeps DEF ResizeInv
<1>2. ASSUME NEW x \in book, Trigger(x) PROVE ResizeInv'
  BY <1>0, <1>2, TriggerKeeps, StepsKept DEF ResizeInv, Trigger
<1>3. ASSUME NEW o \in late, DealLate(o) PROVE ResizeInv'
  BY <1>0, <1>3, DealLateKeeps, StepsKept DEF ResizeInv, DealLate
<1>. QED  BY <1>1, <1>2, <1>3 DEF Dealer

LEMMA DeskInvKept == ASSUME DeskInv, [Next]_vars PROVE DeskInv'
<1>1. ReportInv' /\ DeskTypes'
  BY ReportInvKept DEF DeskInv, ReportInv
<1>2. CASE SyncView \/ (\E l \in Logins : SwitchAccount(l)) \/ UNCHANGED vars
  <2>1. Quiet /\ UNCHANGED <<book, dialog, resize>> /\ view' \subseteq view \cup book
    BY <1>2 DEF SyncView, SwitchAccount, vars, Quiet
  <2>2. Seen' \subseteq Seen
    BY <2>1 DEF Seen
  <2>. QED  BY <1>1, <2>1, <2>2, QuietKeeps, StepsKept DEF DeskInv, ResizeInv, Quiet
<1>. QED
  BY <1>1, <1>2, TicketResizes, RowResizes, BulkResizes, DialogResizes, ResizeResizes, DealerResizes
     DEF DeskInv, Next

LEMMA DeskInvHolds == Init => DeskInv
<1>. SUFFICES ASSUME Init PROVE ResizeInv
  BY ReportInvHolds DEF DeskInv
<1>1. /\ book = {Held(login, -3, "order"), Held(login, -2, "position")} /\ view = book /\ late = {}
      /\ \A k \in Components : dialog[k] = None /\ ~UnderWay(k)
      /\ call["resize"] = NoCall /\ resize.step = "idle" /\ resize.item = None
  BY DEF Init, UnderWay, NoCall, Components
<1>2. None \notin Items
  BY DEF None, Items
<1>3. Seen \subseteq book /\ Pending = {} /\ \A f : ~Taken(f)
  BY <1>1, <1>2 DEF Seen, Pending, Taken
<1>4. \A x, y \in book : x.id = y.id \/ x.from = y.from => x = y
  BY <1>1 DEF Held
<1>5. \A x \in book : x.id \in Known /\ x.from \in Known
  BY <1>1 DEF Held, Known
<1>. QED
  BY <1>1, <1>3, <1>4, <1>5 DEF ResizeInv, IdentitiesOK, SameThing, ResizeSteps, OneToken, ResizeKeepsOne, Components

\* Resizing never leaves two live orders for one intent, for any accounts, components and calls:
\* an order is in the book, taken out by its cancellation or about to be placed anew, and only one
\* of the three (resizePendingOrder).
THEOREM OneOrderPerIntent == Spec => []ResizeKeepsOne
<1>1. DeskInv => ResizeKeepsOne
  BY DEF DeskInv, ResizeInv, OneToken
<1>. QED  BY DeskInvHolds, DeskInvKept, <1>1, PTL DEF Spec

\* The cancellation of a resize is known by its serial; that of its replacement is later, and
\* is asked for when the order was taken off.
CancelNamed ==
  /\ resize.step = "asking" => resize.cancel = -1
  /\ resize.step = "cancelling" => resize.cancel = Asked("resize").serial
  /\ resize.step = "placing" => resize.cancel < Asked("resize").serial /\ resize.cancel \in executed
NamedInv == DeskInv /\ CancelNamed

LEMMA OthersName ==
  ASSUME CancelNamed, UNCHANGED resize, executed \subseteq executed',
         call'["resize"] = call["resize"] \/ Asked("resize")' = Asked("resize")
  PROVE  CancelNamed'
BY DEF CancelNamed, Asked

LEMMA ResizeNames == ASSUME NamedInv, Resize PROVE CancelNamed'
<1>0. /\ DeskTypes /\ SerialsOK /\ ResizeSteps /\ CancelNamed
      /\ "resize" \in Components /\ call \in [Components -> CallsOut \cup {NoCall}]
  BY DEF NamedInv, DeskInv, ReportInv, ResizeInv, DeskTypes, Components
<1>1. ASSUME NEW vol \in 1..2, AskResize(vol) PROVE CancelNamed'
  BY <1>1 DEF AskResize, CancelNamed
<1>2. CASE AnswerResize(TRUE)
  <2>. DEFINE o == cancelOrder(resize.item)
  <2>1. resize'.step = "cancelling" /\ resize'.cancel = ops /\ Send("resize", o)
    BY <1>0, <1>2 DEF AnswerResize, DeskTypes
  <2>2. o.serial = ops
    BY DEF cancelOrder, Op
  <2>. HIDE DEF o
  <2>3. Asked("resize")' = o
    BY <1>0, <2>1 DEF Send, Asked
  <2>. QED  BY <2>1, <2>2, <2>3 DEF CancelNamed
<1>3. CASE AnswerResize(FALSE)
  <2>1. resize'.step = "idle"
    BY <1>0, <1>3 DEF AnswerResize, DeskTypes
  <2>. QED  BY <2>1 DEF CancelNamed
<1>4. CASE CancelAccepted
  <2>1. /\ resize'.step = "placing" /\ resize'.cancel = resize.cancel
        /\ Asked("resize")' = placePendingOrder(resize.item, resize.vol)
        /\ resize.cancel = Asked("resize").serial /\ Asked("resize").serial < ops
        /\ Verdict("resize", "accepted") /\ UNCHANGED executed
    BY <1>0, <1>4 DEF CancelAccepted, DeskTypes, Asked, CancelNamed, SerialsOK, ResizeSteps
  <2>3. call["resize"].fate = "executed" /\ UnderWay("resize")
    BY <1>0, <2>1, VerdictIs
  <2>4. resize.cancel \in executed'
    BY <1>0, <2>1, <2>3 DEF SerialsOK
  <2>2. placePendingOrder(resize.item, resize.vol).serial = ops
    BY DEF placePendingOrder, Op
  <2>. QED  BY <2>1, <2>2, <2>4 DEF CancelNamed, Asked
<1>5. ASSUME NEW v \in Verdicts, CancelNotCertain(v) \/ ReplacementAnswered(v) PROVE CancelNamed'
  <2>1. resize'.step = "idle"
    BY <1>0, <1>5 DEF CancelNotCertain, ReplacementAnswered, EndResize, DeskTypes
  <2>. QED  BY <2>1 DEF CancelNamed
<1>. QED  BY <1>1, <1>2, <1>3, <1>4, <1>5 DEF Resize

\* Only the resize itself and the closing of its dialog change it.
LEMMA ResizeStays ==
  ASSUME DeskTypes, [Next]_vars, ~Resize, ~CloseDialog("resize")
  PROVE  UNCHANGED resize /\ (call'["resize"] = call["resize"] \/ Asked("resize")' = Asked("resize"))
<1>0. "resize" \in Components /\ call \in [Components -> CallsOut \cup {NoCall}]
  BY DEF DeskTypes, Components
<1>1. CASE SyncView \/ (\E l \in Logins : SwitchAccount(l)) \/ UNCHANGED vars
  BY <1>1 DEF SyncView, SwitchAccount, vars
<1>2. CASE Dealer
  <2>1. ASSUME NEW k \in Components, Deal(k) PROVE UNCHANGED resize /\ Asked("resize")' = Asked("resize")
    <3>1. /\ call[k] # NoCall /\ call[k] \in CallsOut /\ UNCHANGED resize
          /\ call' = [call EXCEPT ![k].fate = "executed"] \/ call' = [call EXCEPT ![k].fate = "refused"]
      BY <1>0, <2>1 DEF Deal, NoCall
    <3>. QED  BY <1>0, <3>1 DEF Asked, CallsOut
  <2>. QED  BY <1>2, <2>1 DEF Dealer, Trigger, DealLate
<1>3. CASE Ticket
  BY <1>0, <1>3, OtherSends, OtherAnswered DEF Ticket, SwitchSymbol, RequestSubmit, DropRequest, Confirm, BannerTimer, Submit, TicketAnswered,
     Send, Answered, Components
<1>4. CASE Rows
  BY <1>0, <1>4 DEF Rows, CancelLeg, LegAnswered, Send, Answered, Components, Legs
<1>5. CASE Dialogs
  BY <1>0, <1>5 DEF Dialogs, CloseDialog, OpenDialog, DialogAnswered, SubmitClose, SaveBrackets,
     SaveOrder, MoveToBreakEven, Send, Answered, Components
<1>6. CASE Bulk
  BY <1>0, <1>6 DEF Bulk, StartBulk, RunTarget, TargetAnswered, DismissBulk, Send, Answered, Components
<1>. QED  BY <1>1, <1>2, <1>3, <1>4, <1>5, <1>6 DEF Next

\* What was executed stays so.
LEMMA ExecutedStays == [Next]_vars => executed \subseteq executed'
<1>. SUFFICES ASSUME [Next]_vars PROVE executed \subseteq executed'
  OBVIOUS
<1>1. CASE SyncView \/ (\E l \in Logins : SwitchAccount(l)) \/ UNCHANGED vars
  BY <1>1 DEF SyncView, SwitchAccount, vars
<1>2. CASE Dealer
  BY <1>2 DEF Dealer, Deal, DealLate, Trigger, Execute
<1>3. CASE Ticket
  BY <1>3 DEF Ticket, SwitchSymbol, RequestSubmit, DropRequest, Confirm, BannerTimer, Submit, TicketAnswered,
     Send, Answered
<1>4. CASE Rows
  BY <1>4 DEF Rows, CancelLeg, LegAnswered, Send, Answered
<1>5. CASE Dialogs
  BY <1>5 DEF Dialogs, CloseDialog, OpenDialog, DialogAnswered, SubmitClose, SaveBrackets, SaveOrder,
     MoveToBreakEven, Send, Answered
<1>6. CASE Resize
  <2>1. ASSUME NEW confirmed \in BOOLEAN, AnswerResize(confirmed) PROVE UNCHANGED executed
    BY <2>1 DEF AnswerResize, Send
  <2>2. ASSUME NEW v \in Verdicts, CancelNotCertain(v) \/ ReplacementAnswered(v) PROVE UNCHANGED executed
    BY <2>2 DEF CancelNotCertain, ReplacementAnswered, Answered
  <2>3. ASSUME CancelAccepted \/ \E vol \in 1..2 : AskResize(vol) PROVE UNCHANGED executed
    BY <2>3 DEF AskResize, CancelAccepted
  <2>. QED
    BY <1>6, <2>1, <2>2, <2>3 DEF Resize
<1>7. CASE Bulk
  BY <1>7 DEF Bulk, StartBulk, RunTarget, TargetAnswered, DismissBulk, Send, Answered
<1>. QED  BY <1>1, <1>2, <1>3, <1>4, <1>5, <1>6, <1>7 DEF Next

LEMMA NamedInvKept == ASSUME NamedInv, [Next]_vars PROVE NamedInv'
<1>1. DeskInv' /\ DeskTypes
  BY DeskInvKept DEF NamedInv, DeskInv, ReportInv
<1>2. CASE Resize
  BY <1>1, <1>2, ResizeNames DEF NamedInv
<1>3. CASE CloseDialog("resize")
  <2>1. resize' = resize \/ resize'.step = "idle"
    BY <1>1, <1>3 DEF CloseDialog, DeskTypes
  <2>2. UNCHANGED <<call, executed>>
    BY <1>3 DEF CloseDialog
  <2>. QED  BY <1>1, <2>1, <2>2 DEF NamedInv, CancelNamed, Asked
<1>4. CASE ~Resize /\ ~CloseDialog("resize")
  <2>1. CancelNamed /\ UNCHANGED resize /\ (call'["resize"] = call["resize"] \/ Asked("resize")' = Asked("resize"))
    BY <1>1, <1>4, ResizeStays DEF NamedInv
  <2>2. CancelNamed'
    BY <2>1, ExecutedStays, OthersName
  <2>. QED  BY <1>1, <2>2 DEF NamedInv
<1>. QED  BY <1>2, <1>3, <1>4

\* A resize that ends as accepted, or as refused, has not cost the user the order: either its
\* cancellation was not executed, or the call that enters its replacement was.  One that ends with
\* the warning that the order is gone did take it off.  For any accounts, components, calls and
\* lost answers (resizePendingOrder, trade.resize-orphaned).
THEOREM NoOrderIsLost == Spec => NothingLostSilently
<1>1. Init => NamedInv
  BY DeskInvHolds DEF NamedInv, CancelNamed, Init
<1>. DEFINE says == report'["resize"].says
<1>2. ASSUME NamedInv, [Next]_vars, resize.step \in {"cancelling", "placing"}, resize'.step = "idle"
      PROVE  /\ says \in {"accepted", "refused"} =>
                  resize.cancel \notin executed \/ report'["resize"].serial \in executed \ {resize.cancel}
             /\ says = "orphaned" => resize.cancel \in executed
  <2>0. /\ DeskTypes /\ SerialsOK /\ ResizeSteps /\ CancelNamed /\ "resize" \in Components
        /\ call \in [Components -> CallsOut \cup {NoCall}] /\ DOMAIN report = Components
        /\ executed \subseteq 0..(ops - 1)
    BY <1>2 DEF NamedInv, DeskInv, ReportInv, ResizeInv, DeskTypes, Components
  <2>1. Resize
    <3>1. ASSUME CloseDialog("resize") PROVE FALSE
      BY <1>2, <3>1 DEF CloseDialog
    <3>2. ASSUME ~Resize, ~CloseDialog("resize") PROVE FALSE
      BY <1>2, <2>0, <3>2, ResizeStays
    <3>. QED  BY <3>1, <3>2
  <2>2. \E v \in Verdicts : CancelNotCertain(v) \/ ReplacementAnswered(v)
    BY <1>2, <2>0, <2>1 DEF Resize, AskResize, AnswerResize, CancelAccepted, DeskTypes
  <2>3. ASSUME NEW v \in Verdicts, CancelNotCertain(v)
        PROVE  says # "orphaned" /\ (says \in {"accepted", "refused"} => resize.cancel \notin executed)
    <3>1. /\ Verdict("resize", v) /\ resize.step = "cancelling" /\ v # "accepted"
          /\ says = IF v = "unknown" THEN "check your orders" ELSE v
      BY <2>0, <2>3 DEF CancelNotCertain, Answered, EndResize, Told
    <3>2. says # "orphaned" /\ (says \in {"accepted", "refused"} => v = "refused")
      BY <3>1 DEF Verdicts
    <3>3. v = "refused" => call["resize"].fate # "executed" /\ UnderWay("resize")
      BY <2>0, <3>1, VerdictIs
    <3>. QED  BY <2>0, <3>1, <3>2, <3>3 DEF SerialsOK, CancelNamed
  <2>4. ASSUME NEW v \in Verdicts, ReplacementAnswered(v)
        PROVE  /\ resize.cancel \in executed
               /\ says \in {"accepted", "refused"} => report'["resize"].serial \in executed \ {resize.cancel}
    <3>1. /\ Verdict("resize", v) /\ resize.step = "placing"
          /\ report'["resize"] = [says |-> IF v \in NotDone THEN "orphaned" ELSE v, serial |-> Asked("resize").serial]
      BY <2>0, <2>4 DEF ReplacementAnswered, Answered, EndResize, Told, Asked
    <3>2. says \in {"accepted", "refused"} => v = "accepted"
      BY <3>1 DEF Verdicts, NotDone
    <3>3. v = "accepted" => call["resize"].fate = "executed"
      BY <2>0, <3>1, VerdictIs
    <3>4. UnderWay("resize") /\ call["resize"] \in CallsOut
      BY <2>0, <3>1, VerdictIs
    <3>5. Asked("resize").serial \in Nat /\ resize.cancel \in Int
      BY <2>0, <3>4 DEF Asked, CallsOut, Requests, DeskTypes
    <3>. QED  BY <2>0, <3>1, <3>2, <3>3, <3>4, <3>5 DEF SerialsOK, CancelNamed
  <2>. QED  BY <2>2, <2>3, <2>4
<1>3. ASSUME NamedInv, [Next]_vars
      PROVE  [resize.step \in {"cancelling", "placing"} /\ resize'.step = "idle" =>
                /\ says \in {"accepted", "refused"} =>
                     resize.cancel \notin executed \/ report'["resize"].serial \in executed \ {resize.cancel}
                /\ says = "orphaned" => resize.cancel \in executed]_vars
  BY <1>2, <1>3
<1>. QED  BY <1>1, <1>3, NamedInvKept, PTL DEF Spec, NothingLostSilently

----------------------------------------------------------------------------
\* The draft.

Panels == {"nowhere", "default", "closed", "ticket", "minimum", "calculator", "ladder"}
Numbers == [for : Instruments \cup {NoInstrument}, in : Panels]
Drafts ==
  [symbol : Instruments \cup {NoInstrument}, price : Numbers, stop : Numbers, volume : Numbers,
   appliedFrom : {"nothing", "calculator", "ladder"}]

\* A number that was typed in the ticket, or seeded there, is for instrument i.
MeantFor(n, i) == n.in \in {"ticket", "minimum"} => i \in Instruments /\ n.for = i

DraftTypes ==
  /\ instrument \in Instruments
  /\ draft \in Drafts
  /\ volumeBySymbol \in [Instruments -> Numbers]
  /\ ticketOpen \in BOOLEAN
  /\ calculator \in Numbers

\* The draft's numbers belong to the draft's symbol.
DraftIsOfItsSymbol(d) ==
  MeantFor(d.price, d.symbol) /\ MeantFor(d.stop, d.symbol) /\ MeantFor(d.volume, d.symbol)

VolumesAreOfTheirSymbol == \A i \in Instruments : MeantFor(volumeBySymbol[i], i)

DraftInv ==
  /\ DraftTypes
  /\ ticketOpen => draft.symbol = instrument
  /\ DraftIsOfItsSymbol(draft)
  /\ VolumesAreOfTheirSymbol
  /\ calculator.in \notin {"ticket", "minimum"}

USE DraftAssumption

----------------------------------------------------------------------------
\* The operators of the store.

\* A panel's number for an instrument, or for none, is a number (the fields of the draft).
LEMMA NumberType ==
  ASSUME NEW i \in Instruments \cup {NoInstrument}, NEW panel \in Panels
  PROVE  /\ Number(i, panel) \in Numbers
         /\ Number(i, panel).for = i /\ Number(i, panel).in = panel
BY DEF Number, Numbers

\* The placeholders of the store are numbers that nobody typed (INITIAL_VOLUME, an empty field,
\* a panel that is closed).
LEMMA PlaceholdersAreUntyped ==
  /\ Blank \in Numbers /\ InitialVolume \in Numbers /\ Closed \in Numbers
  /\ Blank.in \notin {"ticket", "minimum"}
  /\ InitialVolume.in \notin {"ticket", "minimum"}
  /\ Closed.in \notin {"ticket", "minimum"}
BY DEF Blank, InitialVolume, Closed, Number, Numbers, Panels

\* The volume remembered for an instrument, or the default, is meant for it (volumeFor).
LEMMA VolumeForIsMeant ==
  ASSUME NEW volumes \in [Instruments -> Numbers], NEW i \in Instruments,
         MeantFor(volumes[i], i)
  PROVE  VolumeFor(volumes, i) \in Numbers /\ MeantFor(VolumeFor(volumes, i), i)
BY PlaceholdersAreUntyped DEF VolumeFor, MeantFor

\* A draft emptied for an instrument holds nothing of another (the reset of the store).
LEMMA EmptiedIsOfItsSymbol ==
  ASSUME NEW d \in Drafts, NEW i \in Instruments, NEW volume \in Numbers, MeantFor(volume, i)
  PROVE  /\ Emptied(d, i, volume) \in Drafts
         /\ Emptied(d, i, volume).symbol = i
         /\ DraftIsOfItsSymbol(Emptied(d, i, volume))
BY PlaceholdersAreUntyped DEF Emptied, Drafts, DraftIsOfItsSymbol, MeantFor

\* A mount leaves a draft of the instrument that is shown, with numbers of that instrument
\* (adoptSymbol).
LEMMA AdoptIsOfItsSymbol ==
  ASSUME NEW d \in Drafts, NEW i \in Instruments, volumeBySymbol \in [Instruments -> Numbers],
         DraftIsOfItsSymbol(d), VolumesAreOfTheirSymbol
  PROVE  /\ adoptSymbol(d, i) \in Drafts
         /\ adoptSymbol(d, i).symbol = i
         /\ DraftIsOfItsSymbol(adoptSymbol(d, i))
<1>1. CASE d.symbol = i
  BY <1>1 DEF adoptSymbol
<1>2. CASE d.symbol # i /\ d.symbol = NoInstrument
  <2>1. adoptSymbol(d, i) = [d EXCEPT !.symbol = i]
    BY <1>2 DEF adoptSymbol
  <2>. QED  BY <2>1, <1>2 DEF Drafts, DraftIsOfItsSymbol, MeantFor
<1>3. CASE d.symbol # i /\ d.symbol # NoInstrument
  <2>1. adoptSymbol(d, i) = Emptied(d, i, VolumeFor(volumeBySymbol, i))
    BY <1>3 DEF adoptSymbol
  <2>2. VolumeFor(volumeBySymbol, i) \in Numbers /\ MeantFor(VolumeFor(volumeBySymbol, i), i)
    BY VolumeForIsMeant DEF VolumesAreOfTheirSymbol
  <2>. QED  BY <2>1, <2>2, EmptiedIsOfItsSymbol
<1>. QED  BY <1>1, <1>2, <1>3

----------------------------------------------------------------------------
\* The steps.

\* A new session has an empty draft, remembers no volume and shows no panel (the initial state of
\* the store).
LEMMA DraftInvHolds == ASSUME DraftInit PROVE DraftInv
BY PlaceholdersAreUntyped
   DEF DraftInit, DraftInv, DraftTypes, Drafts, DraftIsOfItsSymbol, VolumesAreOfTheirSymbol, MeantFor, Unsized

\* Choosing another instrument in front of the ticket remembers the volume under the one that is
\* left (resetForSymbol).
LEMMA SelectKeeps ==
  ASSUME DraftInv, NEW i \in Instruments, SelectInstrument(i) PROVE DraftInv'
<1>. USE DEF DraftInv, DraftTypes
<1>1. CASE ~ticketOpen
  BY <1>1 DEF SelectInstrument, DraftIsOfItsSymbol, VolumesAreOfTheirSymbol, MeantFor
<1>2. CASE ticketOpen
  <2>. DEFINE known == [volumeBySymbol EXCEPT ![instrument] = draft.volume]
  <2>1. /\ volumeBySymbol' = known
        /\ draft' = Emptied(draft, i, VolumeFor(known, i))
        /\ instrument' = i /\ ticketOpen' = ticketOpen /\ calculator' = calculator
    BY <1>2 DEF SelectInstrument, resetForSymbol
  <2>2. draft.volume \in Numbers /\ MeantFor(draft.volume, instrument)
    BY <1>2 DEF Drafts, DraftIsOfItsSymbol
  <2>3. known \in [Instruments -> Numbers]
    BY <2>2
  <2>4. \A j \in Instruments : MeantFor(known[j], j)
    BY <2>2 DEF VolumesAreOfTheirSymbol
  <2>5. VolumeFor(known, i) \in Numbers /\ MeantFor(VolumeFor(known, i), i)
    BY <2>3, <2>4, VolumeForIsMeant
  <2>6. draft' \in Drafts /\ draft'.symbol = i /\ DraftIsOfItsSymbol(draft')
    BY <2>1, <2>5, EmptiedIsOfItsSymbol
  <2>. QED
    BY <2>1, <2>3, <2>4, <2>6 DEF VolumesAreOfTheirSymbol, DraftIsOfItsSymbol, MeantFor
<1>. QED  BY <1>1, <1>2

\* Typing in the ticket writes a number of the instrument that is shown, which a mounted ticket's
\* draft belongs to (setPrice, setStopLoss, setVolume).
LEMMA TypingKeeps ==
  ASSUME DraftInv, NEW field \in Fields, TypeInTicket(field) PROVE DraftInv'
<1>. DEFINE typed == Number(instrument, "ticket")
<1>1. typed \in Numbers /\ MeantFor(typed, instrument)
  BY NumberType DEF DraftInv, DraftTypes, Panels, MeantFor
<1>2. /\ draft' = [draft EXCEPT ![field] = typed] /\ draft.symbol = instrument
      /\ UNCHANGED <<instrument, volumeBySymbol, ticketOpen, calculator>>
  BY DEF TypeInTicket, DraftInv
<1>. HIDE DEF typed
<1>3. draft' \in Drafts /\ draft'.symbol = instrument /\ DraftIsOfItsSymbol(draft')
  <2>. DraftIsOfItsSymbol(draft) /\ draft \in Drafts
    BY DEF DraftInv, DraftTypes
  <2>1. CASE field = "price"
    BY <2>1, <1>1, <1>2 DEF Drafts, DraftIsOfItsSymbol
  <2>2. CASE field = "stop"
    BY <2>2, <1>1, <1>2 DEF Drafts, DraftIsOfItsSymbol
  <2>3. CASE field = "volume"
    BY <2>3, <1>1, <1>2 DEF Drafts, DraftIsOfItsSymbol
  <2>. QED  BY <2>1, <2>2, <2>3 DEF Fields
<1>. QED
  BY <1>2, <1>3 DEF DraftInv, DraftTypes, VolumesAreOfTheirSymbol, DraftIsOfItsSymbol, MeantFor

\* The smallest volume is seeded for the instrument of the draft, in the draft and in what is
\* remembered (seedMinimumVolume).
LEMMA SeedKeeps == ASSUME DraftInv, SeedMinimumVolume PROVE DraftInv'
<1>. DEFINE seeded == Number(instrument, "minimum")
<1>1. seeded \in Numbers /\ MeantFor(seeded, instrument)
  BY NumberType DEF DraftInv, DraftTypes, Panels, MeantFor
<1>2. /\ draft' = [draft EXCEPT !.volume = seeded] /\ draft.symbol = instrument
      /\ volumeBySymbol' = [volumeBySymbol EXCEPT ![instrument] = seeded]
      /\ UNCHANGED <<instrument, ticketOpen, calculator>>
  BY DEF SeedMinimumVolume
<1>. HIDE DEF seeded
<1>3. draft' \in Drafts /\ draft'.symbol = instrument /\ DraftIsOfItsSymbol(draft')
  BY <1>1, <1>2 DEF DraftInv, DraftTypes, Drafts, DraftIsOfItsSymbol
<1>4. volumeBySymbol' \in [Instruments -> Numbers] /\ VolumesAreOfTheirSymbol'
  BY <1>1, <1>2 DEF DraftInv, DraftTypes, VolumesAreOfTheirSymbol, MeantFor
<1>. QED
  BY <1>2, <1>3, <1>4 DEF DraftInv, DraftTypes, DraftIsOfItsSymbol, MeantFor

\* Applying a calculation changes the draft under whatever symbol it waits; the numbers are the
\* calculator's, never typed in the ticket (applyRiskCalculation).
LEMMA ApplyKeeps == ASSUME DraftInv, ApplyCalculator PROVE DraftInv'
<1>. DEFINE sized == Number(instrument, "calculator")
            filled == [draft EXCEPT !.volume = sized, !.stop = calculator, !.appliedFrom = "calculator"]
<1>1. sized \in Numbers /\ sized.in \notin {"ticket", "minimum"}
  BY NumberType DEF DraftInv, DraftTypes, Panels
<1>2. /\ UNCHANGED <<instrument, volumeBySymbol>>
      /\ \/ draft' = filled /\ UNCHANGED <<ticketOpen, calculator>>
         \/ ticketOpen' = TRUE /\ draft' = adoptSymbol(filled, instrument) /\ calculator' \in {calculator, Closed}
  BY DEF ApplyCalculator
<1>. HIDE DEF sized
<1>3. filled \in Drafts /\ filled.symbol = draft.symbol /\ DraftIsOfItsSymbol(filled)
  BY <1>1 DEF DraftInv, DraftTypes, Drafts, DraftIsOfItsSymbol, MeantFor
<1>. HIDE DEF filled
<1>4. CASE draft' = filled /\ UNCHANGED <<ticketOpen, calculator>>
  BY <1>2, <1>3, <1>4 DEF DraftInv, DraftTypes, DraftIsOfItsSymbol, VolumesAreOfTheirSymbol, MeantFor
<1>5. CASE /\ ticketOpen' = TRUE /\ draft' = adoptSymbol(filled, instrument)
           /\ calculator' \in {calculator, Closed}
  <2>1. draft' \in Drafts /\ draft'.symbol = instrument /\ DraftIsOfItsSymbol(draft')
    BY <1>3, <1>5, AdoptIsOfItsSymbol DEF DraftInv, DraftTypes
  <2>2. calculator' \in Numbers /\ calculator'.in \notin {"ticket", "minimum"}
    BY <1>5, PlaceholdersAreUntyped DEF DraftInv, DraftTypes
  <2>. QED
    BY <1>2, <1>5, <2>1, <2>2 DEF DraftInv, DraftTypes, DraftIsOfItsSymbol, VolumesAreOfTheirSymbol, MeantFor
<1>. QED  BY <1>2, <1>4, <1>5

\* The ladder writes a price of its own, or none, and leaves the symbol (setPrice of the depth).
LEMMA LadderKeeps == ASSUME DraftInv, WorkLadder PROVE DraftInv'
<1>1. PICK price \in {Blank, Number(instrument, "ladder")} :
        draft' = [draft EXCEPT !.price = price, !.appliedFrom = "ladder"]
  BY DEF WorkLadder
<1>2. price \in Numbers /\ price.in \notin {"ticket", "minimum"}
  BY NumberType, PlaceholdersAreUntyped DEF DraftInv, DraftTypes, Panels
<1>3. UNCHANGED <<instrument, volumeBySymbol, ticketOpen, calculator>>
  BY DEF WorkLadder
<1>4. draft' \in Drafts /\ draft'.symbol = draft.symbol /\ DraftIsOfItsSymbol(draft')
  BY <1>1, <1>2 DEF DraftInv, DraftTypes, Drafts, DraftIsOfItsSymbol, MeantFor
<1>. QED
  BY <1>3, <1>4 DEF DraftInv, DraftTypes, DraftIsOfItsSymbol, VolumesAreOfTheirSymbol, MeantFor

\* After a reload a ticket adopts the draft that the tab kept (the persisted store).
LEMMA ReloadKeeps == ASSUME DraftInv, ReloadPage PROVE DraftInv'
<1>. DEFINE persisted == [draft EXCEPT !.appliedFrom = "nothing"]
<1>1. persisted \in Drafts /\ DraftIsOfItsSymbol(persisted)
  BY DEF DraftInv, DraftTypes, Drafts, DraftIsOfItsSymbol
<1>2. /\ instrument' \in Instruments /\ ticketOpen' \in BOOLEAN
      /\ draft' = IF ticketOpen' THEN adoptSymbol(persisted, instrument') ELSE persisted
      /\ calculator' \in {Closed, Blank} /\ volumeBySymbol' = volumeBySymbol
  BY DEF ReloadPage
<1>. HIDE DEF persisted
<1>3. draft' \in Drafts /\ DraftIsOfItsSymbol(draft') /\ (ticketOpen' => draft'.symbol = instrument')
  <2>1. CASE ticketOpen'
    BY <2>1, <1>1, <1>2, AdoptIsOfItsSymbol DEF DraftInv, DraftTypes
  <2>2. CASE ~ticketOpen'
    BY <2>2, <1>1, <1>2
  <2>. QED  BY <2>1, <2>2
<1>4. calculator' \in Numbers /\ calculator'.in \notin {"ticket", "minimum"}
  BY <1>2, PlaceholdersAreUntyped
<1>. QED
  BY <1>2, <1>3, <1>4 DEF DraftInv, DraftTypes, DraftIsOfItsSymbol, VolumesAreOfTheirSymbol, MeantFor

\* Every action of the ticket, the calculator and the ladder keeps the invariant.
LEMMA DraftInvKept == ASSUME DraftInv, [DraftNext]_draftVars PROVE DraftInv'
<1>. USE DEF DraftInv, DraftTypes
<1>1. CASE SeedMinimumVolume
  BY <1>1, SeedKeeps
<1>2. CASE OpenTicket
  <2>1. draft' \in Drafts /\ draft'.symbol = instrument /\ DraftIsOfItsSymbol(draft')
    BY <1>2, AdoptIsOfItsSymbol DEF OpenTicket
  <2>. QED
    BY <1>2, <2>1 DEF OpenTicket, DraftIsOfItsSymbol, VolumesAreOfTheirSymbol, MeantFor
<1>3. CASE CloseTicket
  BY <1>3 DEF CloseTicket, DraftIsOfItsSymbol, VolumesAreOfTheirSymbol, MeantFor
<1>4. CASE Acknowledge
  <2>1. draft' \in Drafts /\ draft'.symbol = draft.symbol /\ DraftIsOfItsSymbol(draft')
    BY <1>4 DEF Acknowledge, Drafts, DraftIsOfItsSymbol
  <2>. QED
    BY <1>4, <2>1 DEF Acknowledge, DraftIsOfItsSymbol, VolumesAreOfTheirSymbol, MeantFor
<1>5. CASE ReloadPage
  BY <1>5, ReloadKeeps
<1>6. CASE TypeInCalculator
  <2>1. calculator' \in Numbers /\ calculator'.in \notin {"ticket", "minimum"}
    BY <1>6, NumberType DEF TypeInCalculator, Panels
  <2>. QED
    BY <1>6, <2>1 DEF TypeInCalculator, DraftIsOfItsSymbol, VolumesAreOfTheirSymbol, MeantFor
<1>7. CASE OpenCalculator \/ CloseCalculator
  BY <1>7, PlaceholdersAreUntyped
     DEF OpenCalculator, CloseCalculator, DraftIsOfItsSymbol, VolumesAreOfTheirSymbol, MeantFor
<1>8. CASE ApplyCalculator
  BY <1>8, ApplyKeeps
<1>9. CASE WorkLadder
  BY <1>9, LadderKeeps
<1>10. ASSUME NEW i \in Instruments, SelectInstrument(i) PROVE DraftInv'
  BY <1>10, SelectKeeps
<1>11. ASSUME NEW field \in Fields, TypeInTicket(field) PROVE DraftInv'
  BY <1>11, TypingKeeps
<1>12. CASE UNCHANGED draftVars
  BY <1>12 DEF draftVars, DraftIsOfItsSymbol, VolumesAreOfTheirSymbol, MeantFor
<1>. QED
  BY <1>1, <1>2, <1>3, <1>4, <1>5, <1>6, <1>7, <1>8, <1>9, <1>10, <1>11, <1>12 DEF DraftNext, Fields

\* What was typed for one instrument, and what was remembered or seeded for it, is never shown
\* for another, for any instruments and over any moves, remounts and reloads
\* (order-draft-store.ts:160).
THEOREM NumbersStay == DraftSpec => []TypedNumbersStayWithTheirInstrument
<1>1. DraftInit => DraftInv
  BY DraftInvHolds
<1>2. DraftInv /\ [DraftNext]_draftVars => DraftInv'
  BY DraftInvKept
<1>3. DraftInv => TypedNumbersStayWithTheirInstrument
  BY DEF DraftInv, DraftIsOfItsSymbol, MeantFor, TypedNumbersStayWithTheirInstrument, Fields
<1>. QED  BY <1>1, <1>2, <1>3, PTL DEF DraftSpec

----------------------------------------------------------------------------
\* The address.

\* A layout is nothing but its three fields.
IsLayout(l) == l = [activeSymbol |-> l.activeSymbol, tab |-> l.tab, panes |-> l.panes]

Linked == followed /\ link.symbol \notin {Unnamed, remembered}

\* While only the link has chosen, the store holds its symbol as an intent that copies cannot undo.
LinkInv ==
  /\ IsLayout(layout)
  /\ Linked => layout.activeSymbol = link.symbol /\ urlSymbolIntent = link.symbol

\* Choosing a symbol, a tab or the charts changes what it says and leaves the rest
\* (setActiveSymbol, activateWidget, setChartLayout).
LEMMA SymbolChosen ==
  ASSUME NEW l, IsLayout(l), NEW s
  PROVE  IsLayout(Activated(l, s)) /\ Activated(l, s).activeSymbol = s
<1>1. PICK a, t, q : l = [activeSymbol |-> a, tab |-> t, panes |-> q]
  BY DEF IsLayout
<1>. DEFINE m == [l EXCEPT !.activeSymbol = s]
            p == FirstPaneShows(l.panes, s)
<1>2. m = [activeSymbol |-> s, tab |-> t, panes |-> q]
  BY <1>1
<1>3. Activated(l, s) = [m EXCEPT !.panes = p]
  BY <1>1 DEF Activated
<1>. HIDE DEF m, p
<1>4. [m EXCEPT !.panes = p] = [activeSymbol |-> s, tab |-> t, panes |-> p]
  BY <1>2
<1>. QED  BY <1>3, <1>4 DEF IsLayout

LEMMA TabChosen ==
  ASSUME NEW l, IsLayout(l), NEW t
  PROVE  IsLayout([l EXCEPT !.tab = t]) /\ [l EXCEPT !.tab = t].activeSymbol = l.activeSymbol
BY DEF IsLayout

LEMMA ChartsChosen ==
  ASSUME NEW l, IsLayout(l), NEW n
  PROVE  IsLayout(setChartLayout(l, n)) /\ setChartLayout(l, n).activeSymbol = l.activeSymbol
<1>1. ASSUME NEW p PROVE IsLayout([l EXCEPT !.panes = p]) /\ [l EXCEPT !.panes = p].activeSymbol = l.activeSymbol
  BY DEF IsLayout
<1>. QED  BY <1>1 DEF setChartLayout

\* What a device has saved is a layout (workspaceSchema).
LEMMA SavedIsLayout == ASSUME NEW l \in SavedLayouts PROVE IsLayout(l)
BY DEF SavedLayouts, IsLayout

\* The intents of the link outlive a copy that arrives (the merge of a stored layout).
LEMMA IntendedIs ==
  ASSUME NEW stored, IsLayout(stored)
  PROVE  /\ IsLayout(Intended(stored))
         /\ urlSymbolIntent # Unnamed => Intended(stored).activeSymbol = urlSymbolIntent
<1>. DEFINE l == IF urlSymbolIntent = Unnamed THEN stored ELSE Activated(stored, urlSymbolIntent)
<1>1. IsLayout(l) /\ (urlSymbolIntent # Unnamed => l.activeSymbol = urlSymbolIntent)
  BY SymbolChosen
<1>2. Intended(stored) = IF urlTabIntent = Unnamed THEN l ELSE [l EXCEPT !.tab = urlTabIntent]
  BY DEF Intended
<1>. HIDE DEF l
<1>. QED  BY <1>1, <1>2, TabChosen

LEMMA LinkInvHolds == LinkInit => LinkInv
<1>. SUFFICES ASSUME LinkInit PROVE LinkInv
  OBVIOUS
<1>1. PICK l \in SavedLayouts : remembered = l.activeSymbol /\ Mounted(link, l)
  BY DEF LinkInit
<1>. DEFINE bySymbol == link.symbol \notin {Unnamed, l.activeSymbol}
            adopted == IF bySymbol THEN Activated(l, link.symbol) ELSE l
<1>2. /\ urlSymbolIntent = IF bySymbol THEN link.symbol ELSE Unnamed
      /\ layout = IF link.tab = Unnamed THEN adopted ELSE [adopted EXCEPT !.tab = link.tab]
  BY <1>1 DEF Mounted
<1>3. IsLayout(l)
  BY SavedIsLayout
<1>4. IsLayout(adopted) /\ (bySymbol => adopted.activeSymbol = link.symbol)
  BY <1>3, SymbolChosen
<1>. HIDE DEF adopted
<1>. QED  BY <1>1, <1>2, <1>4, TabChosen DEF LinkInv, Linked

LEMMA LinkInvKept == ASSUME LinkInv, [LinkNext]_linkVars PROVE LinkInv'
<1>. USE DEF LinkInv, Linked
<1>1. ASSUME NEW s \in Watched, SelectSymbol(s) PROVE LinkInv'
  BY <1>1, SymbolChosen DEF SelectSymbol, Becomes, KeptIntent
<1>2. ASSUME NEW t \in TabNames, SelectTab(t) \/ DropTab(t) PROVE LinkInv'
  <2>1. /\ layout' = [layout EXCEPT !.tab = t]
        /\ UNCHANGED <<urlSymbolIntent, link, remembered, followed>>
    BY <1>2 DEF SelectTab, DropTab, Becomes
  <2>. QED  BY <2>1, TabChosen
<1>3. ASSUME NEW n \in PaneCounts, SetChartLayout(n) PROVE LinkInv'
  BY <1>3, ChartsChosen DEF SetChartLayout, Becomes
<1>4. ASSUME NEW l \in SavedLayouts, Resync(l) PROVE LinkInv'
  BY <1>4, SavedIsLayout, IntendedIs DEF Resync, Becomes
<1>5. ASSUME NEW l \in SavedLayouts, OpenSavedLayout(l) PROVE LinkInv'
  BY <1>5, SavedIsLayout DEF OpenSavedLayout, Becomes
<1>6. ASSUME NEW to \in 1..MaxEntries, Travel(to) PROVE LinkInv'
  <2>. DEFINE entry == visits.entries[to]
              chosen == IF entry.symbol \in {Unnamed, layout.activeSymbol} THEN layout
                        ELSE Activated(layout, entry.symbol)
  <2>1. /\ layout' = IF entry.tab = Unnamed THEN chosen ELSE [chosen EXCEPT !.tab = entry.tab]
        /\ urlSymbolIntent' = IF chosen = layout THEN urlSymbolIntent ELSE KeptIntent(urlSymbolIntent, entry.symbol)
        /\ followed' = (followed /\ layout'.activeSymbol = layout.activeSymbol)
        /\ UNCHANGED <<link, remembered>>
    BY <1>6 DEF Travel
  <2>2. /\ IsLayout(chosen)
        /\ chosen # layout => chosen.activeSymbol = entry.symbol /\ entry.symbol # layout.activeSymbol
    BY SymbolChosen
  <2>. HIDE DEF chosen, entry
  <2>3. IsLayout(layout') /\ layout'.activeSymbol = chosen.activeSymbol
    BY <2>1, <2>2, TabChosen
  <2>. QED  BY <2>1, <2>2, <2>3
<1>7. CASE UNCHANGED linkVars
  BY <1>7 DEF linkVars
<1>. QED  BY <1>1, <1>2, <1>3, <1>4, <1>5, <1>6, <1>7 DEF LinkNext

\* The symbol of the link stays until the trader chooses another, for any symbols, tabs, layouts
\* and length of the history (workspace-store.ts:223, url-state.ts:154).
THEOREM LinkStays == LinkSpec => []LinkWins
<1>1. LinkInv => LinkWins
  BY DEF LinkInv, Linked, LinkWins
<1>. QED  BY LinkInvHolds, LinkInvKept, <1>1, PTL DEF LinkSpec

----------------------------------------------------------------------------
\* The rules.

OrderKinds == {"market", "limit", "stop"}
Forms ==
  [kind : OrderKinds, price : Int \cup {Empty}, volume : Int, stop : TypedStops \cup {NoStop},
   target : TypedTargets \cup {NoStop}, clicked : Sides \cup {Unclicked}]

\* A click on the ladder names a price above zero on the side of the market its kind is for.
ClickIsMeant ==
  form.clicked # Unclicked =>
    LET market == MarketPrice(form.clicked, bid) IN
    /\ form.price \in Nat \ {0}
    /\ \/ form.kind = "stop" /\ Below(form.clicked, market, form.price)
       \/ form.kind = "limit" /\ Below(form.clicked, form.price, market)

\* The answer to what was sent, when the quote did not move.
AnswerAgrees ==
  Unmoved => sent.answer = "done" \/ (sent.order.kind # "market" /\ sent.order.price = MarketPrice(sent.order.side, sent.met))

RulesInv == form \in Forms /\ bid \in Bids /\ ClickIsMeant /\ AnswerAgrees

USE RulesAssumption

\* The volumes the ticket lets through are whole steps for the server, whose smallest volume is one
\* of them (validateVolume, validVolume of broker.go).
LEMMA WholeSteps ==
  ASSUME NEW v \in Int, (v - VolumeMin) % VolumeStep = 0
  PROVE  v % VolumeStep = 0
<1>. DEFINE n == VolumeStep
            q == (v - VolumeMin) \div n
            r == VolumeMin \div n
<1>1. n \in Int /\ n > 0 /\ v - VolumeMin \in Int /\ VolumeMin \in Int
  OBVIOUS
<1>2. \A a \in Int, d \in Int : d > 0 /\ a % d = 0 => a = d * (a \div d)
  OBVIOUS
<1>3. v - VolumeMin = n * q /\ VolumeMin = n * r
  BY <1>1, <1>2
<1>4. q \in Int /\ r \in Int
  BY <1>1
<1>. HIDE DEF q, r
<1>5. v = n * (q + r)
  BY <1>1, <1>3, <1>4
<1>6. \A d \in Int, k \in Int : d > 0 => (d * k) % d = 0
  OBVIOUS
<1>7. PICK k \in Int : v = n * k
  BY <1>4, <1>5
<1>8. (n * k) % n = 0
  BY <1>1, <1>6
<1>. QED  BY <1>7, <1>8

\* A purchase needs the larger margin, so one that covers it covers a sale (insufficientMargin).
LEMMA SaleNeedsLess ==
  ASSUME NEW v \in Int, v > 0, NEW b \in Nat
  PROVE  v * b <= v * (b + Spread)
<1>1. v * (b + Spread) = v * b + v * Spread
  OBVIOUS
<1>2. v * Spread >= 0
  OBVIOUS
<1>. DEFINE x == v * b
            y == v * Spread
<1>3. x \in Int /\ y \in Int
  OBVIOUS
<1>. HIDE DEF x, y
<1>. QED  BY <1>1, <1>2, <1>3 DEF x, y

\* An order that the ticket lets through is taken, unless it rests at the market (canSubmit,
\* execute and placePending of broker.go).
LEMMA SubmittedIsTaken ==
  ASSUME NEW t \in Forms, NEW b \in Bids, NEW side \in Sides, canSubmit(t, side, b)
  PROVE  LET o == Order(t, side, b) IN
         Judged(o, b) = "done" \/ (o.kind # "market" /\ o.price = MarketPrice(o.side, b))
<1>. DEFINE o == Order(t, side, b)
<1>1. /\ o.kind = t.kind /\ o.side = side /\ o.volume = t.volume
      /\ o.price = EntryPrice(t, side, b)
      /\ o.kind \in OrderKinds /\ o.volume \in Int /\ MarketPrice(side, b) \in Int
  BY DEF Order, Forms, MarketPrice
<1>2. VolumeIsFine(o.volume) /\ PriceIsFine(o, b) /\ BracketsAreFine(o) /\ ~insufficientMargin(t, b)
  BY DEF canSubmit
<1>3. Order(t, "buy", b).volume = t.volume /\ Order(t, "buy", b).price = EntryPrice(t, "buy", b)
  BY DEF Order
<1>. HIDE DEF o
<1>4. SUFFICES ASSUME ~(o.kind # "market" /\ o.price = MarketPrice(side, b))
               PROVE  Judged(o, b) = "done"
  BY <1>1 DEF o
<1>5. o.volume \in VolumeMin..VolumeMax /\ o.volume % VolumeStep = 0 /\ o.volume > 0
  BY <1>1, <1>2, WholeSteps DEF VolumeIsFine
<1>6. o.kind # "market" => o.price \in Int /\ o.price > 0
  BY <1>1, <1>2 DEF PriceIsFine, EntryPrice, Forms
<1>7. o.kind # "market" => pendingPriceValid(o, b)
  BY <1>1, <1>2, <1>4, <1>6 DEF PriceIsFine, SideIsFine, pendingPriceValid, Below, Sides, OrderKinds
<1>8. o.kind = "market" => o.price = MarketPrice(side, b)
  BY <1>1 DEF EntryPrice
<1>9. stopsValid(o, o.price)
  BY <1>1, <1>2 DEF BracketsAreFine, stopsValid
<1>10. o.kind = "market" => ~(MarginFree < o.volume * o.price)
  <2>. SUFFICES ASSUME o.kind = "market" PROVE ~(MarginFree < o.volume * o.price)
    OBVIOUS
  <2>1. Order(t, "buy", b).price = b + Spread /\ b + Spread # Empty
    BY <1>1, <1>3 DEF EntryPrice, MarketPrice
  <2>2. ~(o.volume * (b + Spread) > MarginFree)
    BY <1>1, <1>2, <1>3, <2>1 DEF insufficientMargin, marginUsed
  <2>3. o.price \in {b, b + Spread} /\ b \in Nat
    BY <1>1, <1>8 DEF MarketPrice
  <2>4. o.volume * b <= o.volume * (b + Spread)
    BY <1>1, <1>5, <2>3, SaleNeedsLess
  <2>. QED  BY <1>1, <2>2, <2>3, <2>4
<1>. QED
  BY <1>1, <1>5, <1>7, <1>8, <1>9, <1>10 DEF Judged

LEMMA ClickPasses ==
  ASSUME RulesInv, form.clicked # Unclicked, OnPriceStep(form.price)
  PROVE  PriceIsFine(Order(form, form.clicked, bid), bid)
<1>. DEFINE o == Order(form, form.clicked, bid)
<1>1. /\ o.kind = form.kind /\ o.side = form.clicked /\ form.kind \in {"limit", "stop"}
      /\ o.price = form.price /\ form.price \in Nat \ {0} /\ MarketPrice(form.clicked, bid) \in Int
      /\ form.clicked \in Sides
  BY DEF Order, EntryPrice, RulesInv, ClickIsMeant, Forms, MarketPrice, Sides, Unclicked
<1>. HIDE DEF o
<1>2. SideIsFine(o, bid)
  BY <1>1 DEF SideIsFine, Below, RulesInv, ClickIsMeant, Sides
<1>. QED
  BY <1>1, <1>2 DEF PriceIsFine, o

LEMMA RulesInvHolds == RulesInit => RulesInv
BY DEF RulesInit, RulesInv, Forms, OrderKinds, ClickIsMeant, AnswerAgrees, Unmoved, NotSent

LEMMA RulesInvKept == ASSUME RulesInv, [RulesNext]_ruleVars PROVE RulesInv'
<1>. USE DEF RulesInv
<1>1. ASSUME Type PROVE RulesInv'
  <2>1. PICK t \in Forms : Edited(t)
    BY <1>1 DEF Type, Forms, OrderKinds
  <2>2. [t EXCEPT !.clicked = Unclicked] \in Forms
    BY DEF Forms
  <2>. QED  BY <2>1, <2>2 DEF Edited, ClickIsMeant, AnswerAgrees, Unmoved, Forms
<1>2. CASE QuoteMoves
  <2>1. form' \in Forms /\ form'.clicked = Unclicked
    BY <1>2 DEF QuoteMoves, Forms
  <2>. QED  BY <1>2, <2>1 DEF QuoteMoves, ClickIsMeant, AnswerAgrees, Unmoved
<1>3. ASSUME NEW side \in Sides, SendOrder(side) PROVE RulesInv'
  <2>1. PICK b \in Bids :
          sent' = [order |-> Order(form, side, bid), seen |-> bid, met |-> b, answer |-> Judged(Order(form, side, bid), b)]
    BY <1>3 DEF SendOrder
  <2>2. sent'.order = Order(form, side, bid) /\ sent'.seen = bid /\ sent'.met = b
        /\ sent'.answer = Judged(Order(form, side, bid), b)
    BY <2>1
  <2>3. canSubmit(form, side, bid) /\ UNCHANGED <<form, bid>>
    BY <1>3 DEF SendOrder
  <2>. DEFINE o == Order(form, side, bid)
  <2>4. Judged(o, bid) = "done" \/ (o.kind # "market" /\ o.price = MarketPrice(o.side, bid))
    BY <2>3, SubmittedIsTaken
  <2>. HIDE DEF o
  <2>5. ASSUME b = bid PROVE AnswerAgrees'
    BY <2>2, <2>4, <2>5 DEF AnswerAgrees, o
  <2>6. ASSUME b # bid PROVE AnswerAgrees'
    BY <2>2, <2>6 DEF AnswerAgrees, Unmoved
  <2>7. AnswerAgrees'
    BY <2>5, <2>6
  <2>. QED  BY <2>3, <2>7 DEF ClickIsMeant
<1>4. ASSUME NEW side \in Sides, NEW price \in buildLadder(bid), NEW forceStop \in BOOLEAN,
             ClickLadder(side, price, forceStop)
      PROVE  RulesInv'
  <2>1. PICK k \in ladderKinds(side, price, bid, forceStop) :
          form' = [form EXCEPT !.kind = k, !.price = price, !.clicked = side]
    BY <1>4 DEF ClickLadder
  <2>2. UNCHANGED bid /\ sent' = NotSent
    BY <1>4 DEF ClickLadder
  <2>3. price \in Nat \ {0}
    BY DEF buildLadder
  <2>4. /\ k \in {"stop", "limit"}
        /\ \/ k = "stop" /\ Below(side, MarketPrice(side, bid), price)
           \/ k = "limit" /\ Below(side, price, MarketPrice(side, bid))
    BY DEF ladderKinds
  <2>5. form' \in Forms /\ form'.kind = k /\ form'.price = price /\ form'.clicked = side
    <3>1. k \in OrderKinds /\ price \in Int \cup {Empty} /\ side \in Sides \cup {Unclicked}
      BY <2>3, <2>4 DEF OrderKinds
    <3>. QED  BY <2>1, <3>1 DEF Forms
  <2>. QED
    BY <2>2, <2>3, <2>4, <2>5 DEF ClickIsMeant, AnswerAgrees, Unmoved
<1>5. CASE UNCHANGED ruleVars
  BY <1>5 DEF ruleVars, ClickIsMeant, AnswerAgrees, Unmoved
<1>. QED  BY <1>1, <1>2, <1>3, <1>4, <1>5 DEF RulesNext

\* What the ticket lets through the server takes while the quote stands still, and a click on the
\* ladder passes the ticket's rules, for any quotes, prices, volumes, brackets and limits of the
\* symbol (validation.ts:14, ladder.ts:98).
THEOREM RulesAgree == RulesSpec => []TicketAgreesWithTheServer
<1>1. RulesInv => TicketAgreesWithTheServer
  BY ClickPasses DEF RulesInv, AnswerAgrees, TicketAgreesWithTheServer
<1>. QED  BY RulesInvHolds, RulesInvKept, <1>1, PTL DEF RulesSpec

----------------------------------------------------------------------------
\* The docks.

\* The places that a filter keeps are counted off from one, each once.
LEMMA RanksCount ==
  ASSUME NEW n \in Nat, NEW K \in SUBSET (1..n)
  PROVE  /\ Cardinality(K) \in Nat
         /\ \A i \in K : Rank(K, i) \in 1..Cardinality(K) /\ Nth(K, Rank(K, i)) = i
         /\ \A k \in 1..Cardinality(K) : Nth(K, k) \in K /\ Rank(K, Nth(K, k)) = k
<1>1. IsFiniteSet(K) /\ Cardinality(K) \in Nat
  <2>1. IsFiniteSet(1..n)
    BY FS_Interval
  <2>2. IsFiniteSet(K)
    BY <2>1, FS_Subset
  <2>. QED  BY <2>2, FS_CardinalityType
<1>. DEFINE UpTo(i) == {j \in K : j <= i}
<1>2. ASSUME NEW i \in K
      PROVE  IsFiniteSet(UpTo(i)) /\ Cardinality(UpTo(i)) \in Nat /\ Cardinality(UpTo(i)) <= Cardinality(K)
  <2>1. UpTo(i) \in SUBSET K
    OBVIOUS
  <2>. HIDE DEF UpTo
  <2>. QED  BY <1>1, <2>1, FS_Subset, FS_CardinalityType
<1>3. ASSUME NEW i \in K PROVE Rank(K, i) = Cardinality(UpTo(i))
  BY DEF Rank
<1>4. ASSUME NEW i \in K PROVE Cardinality(UpTo(i)) # 0
  <2>1. i \in UpTo(i)
    OBVIOUS
  <2>. HIDE DEF UpTo
  <2>. QED  BY <1>2, <2>1, FS_EmptySet
<1>5. ASSUME NEW i \in K PROVE Rank(K, i) \in 1..Cardinality(K)
  <2>. HIDE DEF UpTo
  <2>. QED  BY <1>1, <1>2, <1>3, <1>4
<1>6. ASSUME NEW i \in K, NEW j \in K, i < j PROVE Rank(K, i) # Rank(K, j)
  <2>. i \in Int /\ j \in Int /\ \A x \in K : x \in Int
    OBVIOUS
  <2>1. \A x \in UpTo(i) : x \in UpTo(j)
    BY <1>6
  <2>2. j \in UpTo(j) /\ j \notin UpTo(i)
    BY <1>6
  <2>. HIDE DEF UpTo
  <2>3. UpTo(i) \in SUBSET UpTo(j) /\ UpTo(i) # UpTo(j)
    BY <2>1, <2>2
  <2>4. Cardinality(UpTo(i)) # Cardinality(UpTo(j))
    BY <1>2, <2>3, FS_Subset
  <2>. QED  BY <1>3, <2>4
<1>. DEFINE rank == [i \in K |-> Rank(K, i)]
<1>7. rank \in [K -> 1..Cardinality(K)]
  BY <1>5
<1>8. ASSUME NEW i \in K, NEW j \in K, rank[i] = rank[j] PROVE i = j
  <2>1. Rank(K, i) = Rank(K, j)
    BY <1>8
  <2>2. i < j \/ j < i \/ i = j
    OBVIOUS
  <2>. QED  BY <1>6, <2>1, <2>2
<1>9. rank \in Injection(K, 1..Cardinality(K))
  <2>. HIDE DEF rank
  <2>. QED  BY <1>7, <1>8, Fun_IsInj
<1>10. Cardinality(1..Cardinality(K)) = Cardinality(K)
  <2>1. Cardinality(1..Cardinality(K)) = IF 1 > Cardinality(K) THEN 0 ELSE Cardinality(K) - 1 + 1
    BY <1>1, FS_Interval
  <2>. QED  BY <1>1, <2>1
<1>11. rank \in Surjection(K, 1..Cardinality(K))
  <2>. HIDE DEF rank
  <2>1. IsFiniteSet(1..Cardinality(K))
    BY <1>1, FS_Interval
  <2>. QED  BY <1>1, <1>9, <1>10, <2>1, FS_Injection
<1>12. ASSUME NEW k \in 1..Cardinality(K) PROVE Nth(K, k) \in K /\ Rank(K, Nth(K, k)) = k
  <2>1. \E i \in K : rank[i] = k
    BY <1>11 DEF Surjection
  <2>2. \E i \in K : Rank(K, i) = k
    BY <2>1
  <2>. QED  BY <2>2 DEF Nth
<1>13. ASSUME NEW i \in K PROVE Nth(K, Rank(K, i)) = i
  <2>1. Nth(K, Rank(K, i)) \in K /\ Rank(K, Nth(K, Rank(K, i))) = Rank(K, i)
    BY <1>5, <1>12
  <2>2. rank[Nth(K, Rank(K, i))] = rank[i]
    BY <2>1
  <2>. HIDE DEF rank
  <2>. QED  BY <1>8, <2>1, <2>2
<1>. QED  BY <1>1, <1>5, <1>12, <1>13

\* A filter's result is a list of the kept elements, each from a place of its own.
LEMMA FilteredIs ==
  ASSUME NEW S, NEW s \in Seq(S), NEW K \in SUBSET DOMAIN s
  PROVE  /\ Filtered(s, K) \in Seq(S)
         /\ DOMAIN Filtered(s, K) = 1..Cardinality(K) /\ Len(Filtered(s, K)) = Cardinality(K)
         /\ Cardinality(K) \in Nat
         /\ \A k \in DOMAIN Filtered(s, K) : Nth(K, k) \in K /\ Filtered(s, K)[k] = s[Nth(K, k)]
         /\ \A k, l \in DOMAIN Filtered(s, K) : Nth(K, k) = Nth(K, l) => k = l
         /\ \A i \in K : Rank(K, i) \in DOMAIN Filtered(s, K) /\ Nth(K, Rank(K, i)) = i
<1>1. Len(s) \in Nat /\ K \in SUBSET (1..Len(s))
  OBVIOUS
<1>2. /\ Cardinality(K) \in Nat
      /\ \A k \in 1..Cardinality(K) : Nth(K, k) \in K /\ Rank(K, Nth(K, k)) = k
  BY <1>1, RanksCount
<1>3. \A k \in 1..Cardinality(K) : s[Nth(K, k)] \in S
  BY <1>1, <1>2
<1>4. Filtered(s, K) = [k \in 1..Cardinality(K) |-> s[Nth(K, k)]]
  BY DEF Filtered
<1>5. DOMAIN Filtered(s, K) = 1..Cardinality(K)
  BY <1>4
<1>6. Filtered(s, K) \in Seq(S) /\ Len(Filtered(s, K)) = Cardinality(K)
  BY <1>2, <1>3, <1>4
<1>7. \A k \in 1..Cardinality(K) : Filtered(s, K)[k] = s[Nth(K, k)]
  BY <1>4
<1>8. \A k, l \in 1..Cardinality(K) : Nth(K, k) = Nth(K, l) => k = l
  BY <1>2, Zenon
<1>9. \A i \in K : Rank(K, i) \in 1..Cardinality(K) /\ Nth(K, Rank(K, i)) = i
  BY <1>1, RanksCount
<1>. QED  BY <1>2, <1>5, <1>6, <1>7, <1>8, <1>9

TabGroups == [widgets : Seq(Widgets), active : Widgets]

\* A tab closes: the group keeps its other tabs, and shows one of them.
LEMMA WithoutIs ==
  ASSUME NEW g \in TabGroups, NEW w \in Widgets, IsInjective(g.widgets), g.active \in Tabs(g), Holds(g, w)
  PROVE  /\ Without(g, w) \in TabGroups
         /\ Tabs(Without(g, w)) \subseteq Tabs(g) \ {w}
         /\ IsInjective(Without(g, w).widgets)
         /\ Without(g, w).active \in Tabs(Without(g, w))
<1>. DEFINE s == g.widgets
            K == {i \in DOMAIN s : s[i] # w}
            o == Filtered(s, K)
<1>1. s \in Seq(Widgets) /\ K \in SUBSET DOMAIN s /\ g.active \in Widgets
  BY DEF TabGroups
<1>2. /\ o \in Seq(Widgets) /\ DOMAIN o = 1..Len(o) /\ Len(o) \in Nat
      /\ \A k \in DOMAIN o : Nth(K, k) \in K /\ o[k] = s[Nth(K, k)]
      /\ \A k, l \in DOMAIN o : Nth(K, k) = Nth(K, l) => k = l
      /\ \A i \in K : Rank(K, i) \in DOMAIN o /\ Nth(K, Rank(K, i)) = i
  <2>. HIDE DEF K, s
  <2>. QED  BY <1>1, FilteredIs
<1>3. Tabs(g) = {s[i] : i \in DOMAIN s} /\ ToSet(o) = {o[k] : k \in DOMAIN o}
  BY DEF Tabs, ToSet
<1>4. \A i \in DOMAIN s : i \in K <=> s[i] # w
  OBVIOUS
<1>5. Without(g, w) = [widgets |-> o, active |-> IF g.active = w THEN Head(o) ELSE g.active]
  BY DEF Without, Others
<1>6. \A x \in Tabs(g) : x # w => x \in ToSet(o)
  <2>. HIDE DEF K, s, o
  <2>. QED  BY <1>2, <1>3, <1>4
<1>7. \A x \in ToSet(o) : x \in Tabs(g) /\ x # w
  <2>. HIDE DEF K, s, o
  <2>. QED  BY <1>1, <1>2, <1>3, <1>4
<1>8. IsInjective(o)
  <2>1. \A i, j \in DOMAIN s : s[i] = s[j] => i = j
    BY DEF IsInjective
  <2>. HIDE DEF K, s, o
  <2>2. \A k, l \in DOMAIN o : o[k] = o[l] => k = l
    BY <1>1, <1>2, <2>1
  <2>. QED  BY <2>2 DEF IsInjective
<1>9. ASSUME g.active = w PROVE Head(o) \in ToSet(o) /\ Head(o) \in Widgets
  <2>1. PICK x \in Tabs(g) : x # w
    BY <1>9 DEF Holds
  <2>. HIDE DEF K, s, o
  <2>2. PICK k \in DOMAIN o : o[k] = x
    BY <1>3, <1>6, <2>1
  <2>3. o # <<>> /\ 1 \in DOMAIN o /\ Head(o) = o[1]
    BY <1>2, <2>2
  <2>. QED  BY <1>2, <1>3, <2>3
<1>10. /\ Without(g, w).widgets = o
       /\ Without(g, w).active \in ToSet(o) /\ Without(g, w).active \in Widgets
  <2>. HIDE DEF K, s, o
  <2>. QED  BY <1>1, <1>5, <1>6, <1>9
<1>11. Without(g, w) \in TabGroups
  <2>. HIDE DEF K, s, o
  <2>. QED  BY <1>2, <1>5, <1>10 DEF TabGroups
<1>12. Tabs(Without(g, w)) = ToSet(o)
  BY <1>10 DEF Tabs
<1>. QED  BY <1>7, <1>8, <1>10, <1>11, <1>12

\* What a layout that can be drawn is, place by place.
LEMMA DrawnPlaces ==
  ASSUME NEW rs \in Layouts, Drawable(rs), NEW r \in Regions
  PROVE  /\ rs[r].groups \in Seq(TabGroups) /\ rs[r].collapsed \in BOOLEAN
         /\ \A i \in DOMAIN rs[r].groups :
              /\ rs[r].groups[i] \in TabGroups
              /\ rs[r].groups[i].active \in Tabs(rs[r].groups[i])
              /\ IsInjective(rs[r].groups[i].widgets)
              /\ \A w \in Tabs(rs[r].groups[i]) : r \in Allowed[w]
         /\ \A i \in DOMAIN rs[r].groups, q \in Regions : \A j \in DOMAIN rs[q].groups :
              <<q, j>> # <<r, i>> => Tabs(rs[q].groups[j]) \cap Tabs(rs[r].groups[i]) = {}
<1>1. rs[r].groups \in Seq(TabGroups) /\ rs[r].collapsed \in BOOLEAN
  BY DEF Layouts, TabGroups
<1>2. \A i \in DOMAIN rs[r].groups : rs[r].groups[i] \in TabGroups
  BY <1>1
<1>. QED  BY <1>1, <1>2 DEF Drawable

LEMMA OneEach ==
  ASSUME NEW rs \in Layouts, Drawable(rs), NEW r \in Regions, NEW i \in DOMAIN rs[r].groups,
         NEW q \in Regions, NEW j \in DOMAIN rs[q].groups, <<q, j>> # <<r, i>>
  PROVE  Tabs(rs[q].groups[j]) \cap Tabs(rs[r].groups[i]) = {}
BY DEF Drawable

\* A widget goes: the others stay where they may be, and the places that are left are those
\* that still hold a tab.
LEMMA RemovedIs ==
  ASSUME NEW rs \in Layouts, Drawable(rs), NEW w \in Widgets, NEW out, out = removeWidgetFrom(rs, w)
  PROVE  /\ out \in Layouts /\ Drawable(out) /\ w \notin Open(out)
         /\ \A r \in Regions : \A i \in Remaining(rs[r].groups, w) :
              Rank(Remaining(rs[r].groups, w), i) \in DOMAIN out[r].groups
<1>. DEFINE K(r) == Remaining(rs[r].groups, w)
            kept(r) == Filtered(rs[r].groups, K(r))
<1>1. ASSUME NEW r \in Regions
      PROVE  /\ kept(r) \in Seq(TabGroups)
             /\ \A k \in DOMAIN kept(r) : Nth(K(r), k) \in K(r) /\ kept(r)[k] = rs[r].groups[Nth(K(r), k)]
             /\ \A k, l \in DOMAIN kept(r) : Nth(K(r), k) = Nth(K(r), l) => k = l
             /\ \A i \in K(r) : Rank(K(r), i) \in DOMAIN kept(r)
  <2>1. rs[r].groups \in Seq(TabGroups) /\ K(r) \in SUBSET DOMAIN rs[r].groups
    BY DrawnPlaces DEF Remaining
  <2>. HIDE DEF K
  <2>. QED  BY <2>1, FilteredIs
<1>2. ASSUME NEW r \in Regions
      PROVE  /\ out[r].collapsed = rs[r].collapsed
             /\ DOMAIN out[r].groups = DOMAIN kept(r)
             /\ \A k \in DOMAIN kept(r) : out[r].groups[k] = Without(kept(r)[k], w)
             /\ out[r] = [collapsed |-> rs[r].collapsed, groups |-> [k \in DOMAIN kept(r) |-> Without(kept(r)[k], w)]]
  BY DEF removeWidgetFrom
<1>. DEFINE source(r, k) == rs[r].groups[Nth(K(r), k)]
<1>3. ASSUME NEW r \in Regions, NEW k \in DOMAIN kept(r)
      PROVE  /\ Nth(K(r), k) \in DOMAIN rs[r].groups
             /\ out[r].groups[k] = Without(source(r, k), w)
             /\ out[r].groups[k] \in TabGroups
             /\ out[r].groups[k].active \in Tabs(out[r].groups[k])
             /\ IsInjective(out[r].groups[k].widgets)
             /\ Tabs(out[r].groups[k]) \subseteq Tabs(source(r, k)) \ {w}
  <2>1. Nth(K(r), k) \in K(r) /\ kept(r)[k] = source(r, k)
    BY <1>1
  <2>2. Nth(K(r), k) \in DOMAIN rs[r].groups /\ Holds(source(r, k), w)
    BY <2>1 DEF Remaining
  <2>3. out[r].groups[k] = Without(source(r, k), w)
    <3>1. out[r].groups[k] = Without(kept(r)[k], w)
      BY <1>2
    <3>. HIDE DEF kept, K, source
    <3>. QED  BY <2>1, <3>1
  <2>4. /\ source(r, k) \in TabGroups /\ IsInjective(source(r, k).widgets)
        /\ source(r, k).active \in Tabs(source(r, k))
    BY <2>2, DrawnPlaces
  <2>. HIDE DEF source, kept, K
  <2>. QED  BY <2>2, <2>3, <2>4, WithoutIs
<1>4. out \in Layouts
  <2>1. out = [r \in Regions |-> [collapsed |-> rs[r].collapsed,
                                  groups |-> [k \in DOMAIN kept(r) |-> Without(kept(r)[k], w)]]]
    BY DEF removeWidgetFrom
  <2>2. ASSUME NEW r \in Regions
        PROVE  [k \in DOMAIN kept(r) |-> Without(kept(r)[k], w)] \in Seq(TabGroups)
    <3>1. DOMAIN kept(r) = 1..Len(kept(r)) /\ Len(kept(r)) \in Nat
      <4>. HIDE DEF kept
      <4>. QED  BY <1>1
    <3>2. \A k \in DOMAIN kept(r) : Without(kept(r)[k], w) \in TabGroups
      <4>1. \A k \in DOMAIN kept(r) : out[r].groups[k] = Without(kept(r)[k], w) /\ out[r].groups[k] \in TabGroups
        BY <1>2, <1>3
      <4>. HIDE DEF kept
      <4>. QED  BY <4>1
    <3>. HIDE DEF kept
    <3>. QED  BY <3>1, <3>2
  <2>3. \A r \in Regions : rs[r].collapsed \in BOOLEAN
    BY DrawnPlaces
  <2>4. Layouts = [Regions -> [groups : Seq(TabGroups), collapsed : BOOLEAN]]
    BY DEF Layouts, TabGroups
  <2>. HIDE DEF kept
  <2>. QED  BY <2>1, <2>2, <2>3, <2>4
<1>5. ASSUME NEW r \in Regions, NEW i \in DOMAIN out[r].groups,
             NEW q \in Regions, NEW j \in DOMAIN out[q].groups, <<q, j>> # <<r, i>>
      PROVE  Tabs(out[q].groups[j]) \cap Tabs(out[r].groups[i]) = {}
  <2>1. i \in DOMAIN kept(r) /\ j \in DOMAIN kept(q)
    BY <1>2
  <2>2. <<q, Nth(K(q), j)>> # <<r, Nth(K(r), i)>>
    <3>. HIDE DEF kept, K
    <3>. QED  BY <1>1, <1>5, <2>1
  <2>3. Tabs(source(q, j)) \cap Tabs(source(r, i)) = {}
    <3>1. Nth(K(q), j) \in DOMAIN rs[q].groups /\ Nth(K(r), i) \in DOMAIN rs[r].groups
      BY <1>3, <2>1
    <3>. HIDE DEF kept, K
    <3>. QED  BY <2>2, <3>1, DrawnPlaces
  <2>. HIDE DEF source, kept, K
  <2>. QED  BY <1>3, <2>1, <2>3
<1>6. ASSUME NEW r \in Regions, NEW i \in DOMAIN out[r].groups
      PROVE  /\ out[r].groups[i].active \in Tabs(out[r].groups[i])
             /\ IsInjective(out[r].groups[i].widgets)
             /\ \A x \in Tabs(out[r].groups[i]) : r \in Allowed[x] /\ x # w
  <2>1. i \in DOMAIN kept(r)
    BY <1>2
  <2>2. \A x \in Tabs(source(r, i)) : r \in Allowed[x]
    BY <1>3, <2>1, DrawnPlaces
  <2>. HIDE DEF source, kept, K
  <2>. QED  BY <1>3, <2>1, <2>2
<1>7. Drawable(out)
  BY <1>5, <1>6 DEF Drawable
<1>8. w \notin Open(out)
  <2>1. \A r \in Regions : ToSet(out[r].groups) = {out[r].groups[i] : i \in DOMAIN out[r].groups}
    BY DEF ToSet
  <2>. QED  BY <1>6, <2>1 DEF Open
<1>9. ASSUME NEW r \in Regions, NEW i \in K(r) PROVE Rank(K(r), i) \in DOMAIN out[r].groups
  BY <1>1, <1>2
<1>. QED  BY <1>4, <1>7, <1>8, <1>9

\* One group gets a widget that was nowhere: alone in a group of its own, or as the last tab.
Gains(rs, w, r, m, out) ==
  /\ \A q \in Regions : \A j \in DOMAIN out[q].groups :
       <<q, j>> # <<r, m>> => j \in DOMAIN rs[q].groups /\ out[q].groups[j] = rs[q].groups[j]
  /\ out[r].groups[m].active = w /\ w \in Tabs(out[r].groups[m])
  /\ IsInjective(out[r].groups[m].widgets)
  /\ \A x \in Tabs(out[r].groups[m]) :
       x = w \/ (m \in DOMAIN rs[r].groups /\ x \in Tabs(rs[r].groups[m]))

LEMMA OneMore ==
  ASSUME NEW rs \in Layouts, Drawable(rs), NEW w \in Widgets, w \notin Open(rs),
         NEW r \in Regions, r \in Allowed[w], NEW m,
         NEW out \in Layouts, Gains(rs, w, r, m, out)
  PROVE  Drawable(out)
<1>0. /\ \A q \in Regions : \A j \in DOMAIN out[q].groups :
           <<q, j>> # <<r, m>> => j \in DOMAIN rs[q].groups /\ out[q].groups[j] = rs[q].groups[j]
      /\ out[r].groups[m].active = w /\ w \in Tabs(out[r].groups[m])
      /\ IsInjective(out[r].groups[m].widgets)
      /\ \A x \in Tabs(out[r].groups[m]) :
           x = w \/ (m \in DOMAIN rs[r].groups /\ x \in Tabs(rs[r].groups[m]))
  BY DEF Gains
<1>1. ASSUME NEW q \in Regions, NEW j \in DOMAIN rs[q].groups PROVE w \notin Tabs(rs[q].groups[j])
  <2>1. rs[q].groups[j] \in ToSet(rs[q].groups)
    BY DEF ToSet
  <2>. QED  BY <2>1 DEF Open
<1>2. ASSUME NEW q \in Regions, NEW j \in DOMAIN out[q].groups, <<q, j>> # <<r, m>>
      PROVE  Tabs(out[q].groups[j]) \cap Tabs(out[r].groups[m]) = {}
  <2>1. j \in DOMAIN rs[q].groups /\ out[q].groups[j] = rs[q].groups[j]
    BY <1>0, <1>2
  <2>2. w \notin Tabs(out[q].groups[j])
    BY <1>1, <2>1
  <2>3. m \in DOMAIN rs[r].groups => Tabs(rs[q].groups[j]) \cap Tabs(rs[r].groups[m]) = {}
    BY <1>2, <2>1, OneEach
  <2>. QED  BY <1>0, <2>1, <2>2, <2>3
<1>3. ASSUME NEW p \in Regions, NEW i \in DOMAIN out[p].groups,
             NEW q \in Regions, NEW j \in DOMAIN out[q].groups, <<q, j>> # <<p, i>>
      PROVE  Tabs(out[q].groups[j]) \cap Tabs(out[p].groups[i]) = {}
  <2>1. CASE <<p, i>> = <<r, m>>
    BY <1>2, <1>3, <2>1
  <2>2. CASE <<q, j>> = <<r, m>>
    BY <1>2, <1>3, <2>2
  <2>3. CASE <<p, i>> # <<r, m>> /\ <<q, j>> # <<r, m>>
    <3>1. /\ i \in DOMAIN rs[p].groups /\ out[p].groups[i] = rs[p].groups[i]
          /\ j \in DOMAIN rs[q].groups /\ out[q].groups[j] = rs[q].groups[j]
      BY <1>0, <2>3
    <3>2. Tabs(rs[q].groups[j]) \cap Tabs(rs[p].groups[i]) = {}
      BY <1>3, <3>1, OneEach
    <3>. QED  BY <3>1, <3>2
  <2>. QED  BY <2>1, <2>2, <2>3
<1>4. ASSUME NEW p \in Regions, NEW i \in DOMAIN out[p].groups
      PROVE  /\ out[p].groups[i].active \in Tabs(out[p].groups[i])
             /\ IsInjective(out[p].groups[i].widgets)
             /\ \A x \in Tabs(out[p].groups[i]) : p \in Allowed[x]
  <2>1. CASE <<p, i>> = <<r, m>>
    <3>1. m \in DOMAIN rs[r].groups => \A x \in Tabs(rs[r].groups[m]) : r \in Allowed[x]
      BY DrawnPlaces
    <3>. QED  BY <1>0, <2>1, <3>1
  <2>2. CASE <<p, i>> # <<r, m>>
    <3>1. i \in DOMAIN rs[p].groups /\ out[p].groups[i] = rs[p].groups[i]
      BY <1>0, <2>2
    <3>. QED  BY <3>1, DrawnPlaces
  <2>. QED  BY <2>1, <2>2
<1>. QED  BY <1>3, <1>4 DEF Drawable

LEMMA LayoutsAre == Layouts = [Regions -> [groups : Seq(TabGroups), collapsed : BOOLEAN]]
BY DEF Layouts, TabGroups

LEMMA ActivatedIs ==
  ASSUME NEW rs \in Layouts, Drawable(rs), NEW w \in Widgets, NEW out, out = activateWidgetIn(rs, w)
  PROVE  out \in Layouts /\ Drawable(out)
<1>1. CASE w \notin Open(rs)
  BY <1>1 DEF activateWidgetIn
<1>2. CASE w \in Open(rs)
  <2>. DEFINE h == Home(rs, w)
              gs == rs[h].groups
              opened(i) == IF w \in Tabs(gs[i]) THEN [gs[i] EXCEPT !.active = w] ELSE gs[i]
  <2>1. h \in Regions
    BY <1>2 DEF Open, Home
  <2>2. gs \in Seq(TabGroups)
    BY <2>1, DrawnPlaces
  <2>3. out = [rs EXCEPT ![h] = [collapsed |-> FALSE, groups |-> [i \in DOMAIN gs |-> opened(i)]]]
    BY <1>2 DEF activateWidgetIn
  <2>4. ASSUME NEW i \in DOMAIN gs
        PROVE  /\ opened(i) \in TabGroups /\ opened(i).widgets = gs[i].widgets
               /\ opened(i).active = gs[i].active \/ (opened(i).active = w /\ w \in Tabs(gs[i]))
    <3>1. gs[i] \in TabGroups
      BY <2>2
    <3>. HIDE DEF gs
    <3>. QED  BY <3>1 DEF TabGroups
  <2>5. [i \in DOMAIN gs |-> opened(i)] \in Seq(TabGroups)
    <3>1. DOMAIN gs = 1..Len(gs) /\ Len(gs) \in Nat
      BY <2>2
    <3>. HIDE DEF gs, opened
    <3>. QED  BY <2>4, <3>1
  <2>6. rs \in [Regions -> [groups : Seq(TabGroups), collapsed : BOOLEAN]]
    BY LayoutsAre
  <2>7. out \in Layouts
    <3>. DEFINE new == [collapsed |-> FALSE, groups |-> [i \in DOMAIN gs |-> opened(i)]]
    <3>1. new \in [groups : Seq(TabGroups), collapsed : BOOLEAN]
      BY <2>5
    <3>. HIDE DEF new, gs, opened, h
    <3>2. out \in [Regions -> [groups : Seq(TabGroups), collapsed : BOOLEAN]]
      BY <2>3, <2>6, <3>1 DEF new
    <3>. QED  BY <3>2, LayoutsAre
  <2>8. ASSUME NEW r \in Regions
        PROVE  /\ DOMAIN out[r].groups = DOMAIN rs[r].groups
               /\ \A i \in DOMAIN rs[r].groups :
                    /\ out[r].groups[i].widgets = rs[r].groups[i].widgets
                    /\ \/ out[r].groups[i].active = rs[r].groups[i].active
                       \/ out[r].groups[i].active = w /\ w \in Tabs(rs[r].groups[i])
    <3>1. CASE r = h
      <4>. DEFINE gs2 == [i \in DOMAIN gs |-> opened(i)]
      <4>1. out[r].groups = gs2
        <5>. HIDE DEF gs2, h
        <5>. QED  BY <2>1, <2>3, <2>6, <3>1 DEF gs2
      <4>2. DOMAIN out[r].groups = DOMAIN gs /\ \A i \in DOMAIN gs : out[r].groups[i] = opened(i)
        BY <4>1
      <4>. HIDE DEF gs2, opened
      <4>. QED  BY <2>4, <3>1, <4>2
    <3>2. CASE r # h
      <4>1. out[r] = rs[r]
        <5>. HIDE DEF h, opened
        <5>. QED  BY <2>3, <2>6, <3>2
      <4>. QED  BY <4>1
    <3>. QED  BY <3>1, <3>2
  <2>9. \A r \in Regions : \A i \in DOMAIN rs[r].groups : Tabs(out[r].groups[i]) = Tabs(rs[r].groups[i])
    BY <2>8 DEF Tabs
  <2>10. ASSUME NEW r \in Regions, NEW i \in DOMAIN out[r].groups
         PROVE  /\ out[r].groups[i].active \in Tabs(out[r].groups[i])
                /\ IsInjective(out[r].groups[i].widgets)
                /\ \A x \in Tabs(out[r].groups[i]) : r \in Allowed[x]
                /\ \A q \in Regions : \A j \in DOMAIN out[q].groups :
                     <<q, j>> # <<r, i>> => Tabs(out[q].groups[j]) \cap Tabs(out[r].groups[i]) = {}
    <3>1. i \in DOMAIN rs[r].groups /\ \A q \in Regions : DOMAIN out[q].groups = DOMAIN rs[q].groups
      BY <2>8
    <3>2. /\ rs[r].groups[i].active \in Tabs(rs[r].groups[i])
          /\ IsInjective(rs[r].groups[i].widgets)
          /\ \A x \in Tabs(rs[r].groups[i]) : r \in Allowed[x]
          /\ \A q \in Regions : \A j \in DOMAIN rs[q].groups :
               <<q, j>> # <<r, i>> => Tabs(rs[q].groups[j]) \cap Tabs(rs[r].groups[i]) = {}
      BY <3>1, DrawnPlaces
    <3>. QED  BY <2>8, <2>9, <3>1, <3>2
  <2>11. Drawable(out)
    BY <2>10 DEF Drawable
  <2>. QED  BY <2>7, <2>11
<1>. QED  BY <1>1, <1>2

\* A region that shows gets other groups.
Put(rs, r, gs) == [rs EXCEPT ![r] = [groups |-> gs, collapsed |-> FALSE]]

LEMMA RegionPut ==
  ASSUME NEW rs \in Layouts, NEW r \in Regions, NEW gs \in Seq(TabGroups),
         NEW out, out = Put(rs, r, gs)
  PROVE  out \in Layouts /\ out[r].groups = gs /\ \A q \in Regions : q # r => out[q] = rs[q]
<1>. USE DEF Put
<1>1. rs \in [Regions -> [groups : Seq(TabGroups), collapsed : BOOLEAN]]
  BY LayoutsAre
<1>2. [groups |-> gs, collapsed |-> FALSE] \in [groups : Seq(TabGroups), collapsed : BOOLEAN]
  OBVIOUS
<1>3. out[r] = [groups |-> gs, collapsed |-> FALSE] /\ \A q \in Regions : q # r => out[q] = rs[q]
  BY <1>1
<1>4. out \in [Regions -> [groups : Seq(TabGroups), collapsed : BOOLEAN]]
  BY <1>1, <1>2
<1>. QED  BY <1>3, <1>4, LayoutsAre

\* A widget that was nowhere gets a group of its own, after the others of its region.
LEMMA NewGroupIs ==
  ASSUME NEW rs \in Layouts, Drawable(rs), NEW w \in Widgets, w \notin Open(rs),
         NEW r \in Regions, r \in Allowed[w],
         NEW out, out = [rs EXCEPT ![r] = [groups |-> Append(@.groups, Group(w)), collapsed |-> FALSE]]
  PROVE  out \in Layouts /\ Drawable(out)
<1>. DEFINE gs == rs[r].groups
            m == Len(gs) + 1
<1>1. rs \in [Regions -> [groups : Seq(TabGroups), collapsed : BOOLEAN]]
  BY LayoutsAre
<1>2. gs \in Seq(TabGroups)
  BY DrawnPlaces
<1>3. /\ Group(w) \in TabGroups /\ Group(w).active = w /\ Tabs(Group(w)) = {w}
      /\ IsInjective(Group(w).widgets)
  <2>1. Group(w).widgets = <<w>> /\ Group(w).active = w
    BY DEF Group
  <2>2. DOMAIN <<w>> = {1} /\ <<w>>[1] = w
    OBVIOUS
  <2>3. Tabs(Group(w)) = {w}
    BY <2>1, <2>2 DEF Tabs, ToSet
  <2>4. IsInjective(Group(w).widgets)
    BY <2>1, <2>2 DEF IsInjective
  <2>5. Group(w) \in TabGroups
    BY DEF Group, TabGroups
  <2>. QED  BY <2>1, <2>3, <2>4, <2>5
<1>4. /\ Append(gs, Group(w)) \in Seq(TabGroups)
      /\ Append(gs, Group(w))[m] = Group(w)
      /\ \A j \in DOMAIN Append(gs, Group(w)) : j # m => j \in DOMAIN gs /\ Append(gs, Group(w))[j] = gs[j]
  <2>. HIDE DEF gs
  <2>. QED  BY <1>2, <1>3
<1>5. /\ out[r].groups = Append(gs, Group(w)) /\ \A q \in Regions : q # r => out[q] = rs[q]
      /\ out \in Layouts
  <2>. DEFINE new == Append(gs, Group(w))
  <2>1. new \in Seq(TabGroups) /\ out = Put(rs, r, new)
    BY <1>4 DEF Put
  <2>. HIDE DEF new
  <2>2. /\ out \in Layouts /\ out[r].groups = new
        /\ \A q \in Regions : q # r => out[q] = rs[q]
    BY ONLY <2>1, rs \in Layouts, r \in Regions, RegionPut
  <2>. QED  BY <2>2 DEF new
<1>6. out \in Layouts
  BY <1>5
<1>7. \A q \in Regions : \A j \in DOMAIN out[q].groups :
        <<q, j>> # <<r, m>> => j \in DOMAIN rs[q].groups /\ out[q].groups[j] = rs[q].groups[j]
  <2>. HIDE DEF m
  <2>. QED  BY <1>4, <1>5
<1>8. out[r].groups[m] = Group(w)
  BY <1>4, <1>5
<1>. HIDE DEF gs, m
<1>9. Drawable(out)
  <2>1. Gains(rs, w, r, m, out)
    BY <1>3, <1>7, <1>8 DEF Gains
  <2>. QED  BY <1>6, <2>1, OneMore
<1>. QED  BY <1>6, <1>9

\* A widget that was nowhere becomes the last tab of a group, and the one it shows.
LEMMA JoinedIs ==
  ASSUME NEW rs \in Layouts, Drawable(rs), NEW w \in Widgets, w \notin Open(rs),
         NEW r \in Regions, r \in Allowed[w], NEW m \in DOMAIN rs[r].groups,
         NEW g, g = [widgets |-> Append(rs[r].groups[m].widgets, w), active |-> w],
         NEW out, out = [rs EXCEPT ![r] = [groups |-> [rs[r].groups EXCEPT ![m] = g], collapsed |-> FALSE]]
  PROVE  out \in Layouts /\ Drawable(out)
<1>. DEFINE gs == rs[r].groups
            ws == gs[m].widgets
            to == [gs EXCEPT ![m] = g]
<1>1. rs \in [Regions -> [groups : Seq(TabGroups), collapsed : BOOLEAN]]
  BY LayoutsAre
<1>2. gs \in Seq(TabGroups) /\ m \in DOMAIN gs /\ gs[m] \in TabGroups /\ IsInjective(ws)
  BY DrawnPlaces
<1>3. ws \in Seq(Widgets) /\ w \notin ToSet(ws)
  <2>1. gs[m] \in ToSet(gs)
    BY <1>2 DEF ToSet
  <2>2. w \notin Tabs(gs[m])
    BY <2>1 DEF Open
  <2>. QED  BY <1>2, <2>2 DEF Tabs, TabGroups
<1>4. g \in TabGroups /\ g.active = w /\ g.widgets = Append(ws, w)
  <2>1. g = [widgets |-> Append(ws, w), active |-> w]
    OBVIOUS
  <2>. HIDE DEF ws
  <2>2. Append(ws, w) \in Seq(Widgets)
    BY <1>3
  <2>3. \A s \in Seq(Widgets) : [widgets |-> s, active |-> w] \in TabGroups
    BY DEF TabGroups
  <2>4. g \in TabGroups
    BY ONLY <2>1, <2>2, <2>3, Zenon
  <2>5. g.active = w /\ g.widgets = Append(ws, w)
    BY ONLY <2>1
  <2>. QED  BY <2>4, <2>5
<1>5. Tabs(g) = ToSet(ws) \cup {w} /\ IsInjective(g.widgets)
  <2>. DEFINE a == Append(ws, w)
  <2>. HIDE DEF ws
  <2>1. /\ DOMAIN a = DOMAIN ws \cup {Len(ws) + 1} /\ Len(ws) + 1 \notin DOMAIN ws
        /\ a[Len(ws) + 1] = w /\ \A i \in DOMAIN ws : a[i] = ws[i]
    BY <1>3
  <2>2. /\ ToSet(ws) = {ws[i] : i \in DOMAIN ws} /\ ToSet(a) = {a[i] : i \in DOMAIN a}
    BY DEF ToSet
  <2>3. \A i, j \in DOMAIN ws : ws[i] = ws[j] => i = j
    BY <1>2 DEF IsInjective
  <2>. HIDE DEF a
  <2>4. ToSet(a) = ToSet(ws) \cup {w}
    BY <2>1, <2>2
  <2>5. ASSUME NEW i \in DOMAIN a, NEW j \in DOMAIN a, a[i] = a[j] PROVE i = j
    <3>1. \A k \in DOMAIN ws : ws[k] # w
      BY <1>3, <2>2
    <3>. QED  BY <2>1, <2>3, <2>5, <3>1
  <2>6. IsInjective(a)
    BY <2>5 DEF IsInjective
  <2>. QED  BY <1>4, <2>4, <2>6 DEF Tabs, a
<1>6. /\ to \in Seq(TabGroups) /\ to[m] = g
      /\ \A j \in DOMAIN to : j # m => j \in DOMAIN gs /\ to[j] = gs[j]
  <2>. HIDE DEF gs
  <2>. QED  BY <1>2, <1>4
<1>7. /\ out[r].groups = to /\ \A q \in Regions : q # r => out[q] = rs[q]
      /\ out \in Layouts
  <2>1. out = Put(rs, r, to)
    BY DEF Put
  <2>. HIDE DEF to
  <2>2. to \in Seq(TabGroups)
    BY <1>6
  <2>. QED  BY ONLY <2>1, <2>2, rs \in Layouts, r \in Regions, RegionPut
<1>8. out \in Layouts
  BY <1>7
<1>9. \A q \in Regions : \A j \in DOMAIN out[q].groups :
        <<q, j>> # <<r, m>> => j \in DOMAIN rs[q].groups /\ out[q].groups[j] = rs[q].groups[j]
  <2>. HIDE DEF to
  <2>. QED  BY <1>6, <1>7
<1>10. out[r].groups[m] = g
  BY <1>6, <1>7
<1>11. \A x \in Tabs(g) : x = w \/ (m \in DOMAIN rs[r].groups /\ x \in Tabs(rs[r].groups[m]))
  BY <1>5 DEF Tabs
<1>12. Drawable(out)
  <2>. HIDE DEF gs, ws, to
  <2>1. out[r].groups[m].active = w /\ w \in Tabs(out[r].groups[m]) /\ IsInjective(out[r].groups[m].widgets)
    BY <1>4, <1>5, <1>10
  <2>2. \A x \in Tabs(out[r].groups[m]) : x = w \/ (m \in DOMAIN rs[r].groups /\ x \in Tabs(rs[r].groups[m]))
    BY <1>10, <1>11
  <2>3. Gains(rs, w, r, m, out)
    BY <1>9, <2>1, <2>2 DEF Gains
  <2>. QED  BY <1>8, <2>3, OneMore
<1>. QED  BY <1>8, <1>12

\* A region is folded or opened, and its groups stay.
LEMMA RegionFlips ==
  ASSUME NEW rs \in Layouts, Drawable(rs), NEW r \in Regions, NEW c \in BOOLEAN,
         NEW out, out = [rs EXCEPT ![r].collapsed = c]
  PROVE  out \in Layouts /\ Drawable(out)
<1>1. rs \in [Regions -> [groups : Seq(TabGroups), collapsed : BOOLEAN]]
  BY LayoutsAre
<1>2. out \in [Regions -> [groups : Seq(TabGroups), collapsed : BOOLEAN]]
  BY <1>1
<1>3. \A q \in Regions : out[q].groups = rs[q].groups
  BY <1>1
<1>4. ASSUME NEW p \in Regions, NEW i \in DOMAIN out[p].groups
      PROVE  /\ out[p].groups[i].active \in Tabs(out[p].groups[i])
             /\ IsInjective(out[p].groups[i].widgets)
             /\ \A x \in Tabs(out[p].groups[i]) : p \in Allowed[x]
             /\ \A q \in Regions : \A j \in DOMAIN out[q].groups :
                  <<q, j>> # <<p, i>> => Tabs(out[q].groups[j]) \cap Tabs(out[p].groups[i]) = {}
  <2>1. i \in DOMAIN rs[p].groups
    BY <1>3
  <2>2. /\ rs[p].groups[i].active \in Tabs(rs[p].groups[i])
        /\ IsInjective(rs[p].groups[i].widgets)
        /\ \A x \in Tabs(rs[p].groups[i]) : p \in Allowed[x]
    BY <2>1, DrawnPlaces
  <2>3. \A q \in Regions : \A j \in DOMAIN rs[q].groups :
          <<q, j>> # <<p, i>> => Tabs(rs[q].groups[j]) \cap Tabs(rs[p].groups[i]) = {}
    BY <2>1, OneEach
  <2>. QED  BY ONLY <1>3, <2>2, <2>3, p \in Regions
<1>5. Drawable(out)
  BY <1>4 DEF Drawable
<1>. QED  BY <1>2, <1>5, LayoutsAre

\* The layout goes through every handler of the docks as one that can be drawn.
DocksInv == docks \in Layouts /\ Drawable(docks)

LEMMA DocksInvHolds == DocksInit => DocksInv
BY DocksAssumption DEF DocksInit, DocksInv

\* To put a widget where it may be.
LEMMA MovedAlone ==
  ASSUME DocksInv, NEW w \in Widgets, NEW r \in Regions, r \in Allowed[w],
         docks' = movedToNewGroup(docks, w, r)
  PROVE  DocksInv'
<1>. DEFINE removed == removeWidgetFrom(docks, w)
<1>1. removed \in Layouts /\ Drawable(removed) /\ w \notin Open(removed)
  BY RemovedIs DEF DocksInv
<1>2. docks' = [removed EXCEPT ![r] = [groups |-> Append(@.groups, Group(w)), collapsed |-> FALSE]]
  BY DEF movedToNewGroup
<1>. HIDE DEF removed
<1>. QED  BY <1>1, <1>2, NewGroupIs DEF DocksInv

LEMMA MovedIn ==
  ASSUME DocksInv, NEW w \in Widgets, NEW r \in Regions, NEW i \in DOMAIN docks[r].groups,
         r \in Allowed[w], docks' = movedIntoGroup(docks, w, r, i)
  PROVE  DocksInv'
<1>. DEFINE removed == removeWidgetFrom(docks, w)
            at == Rank(Remaining(docks[r].groups, w), i)
            g == [widgets |-> Append(removed[r].groups[at].widgets, w), active |-> w]
<1>1. /\ removed \in Layouts /\ Drawable(removed) /\ w \notin Open(removed)
      /\ \A k \in Remaining(docks[r].groups, w) :
           Rank(Remaining(docks[r].groups, w), k) \in DOMAIN removed[r].groups
  BY RemovedIs DEF DocksInv
<1>2. CASE Holds(docks[r].groups[i], w)
  <2>1. at \in DOMAIN removed[r].groups
    BY <1>1, <1>2 DEF Remaining
  <2>2. docks' = [removed EXCEPT ![r] = [groups |-> [removed[r].groups EXCEPT ![at] = g], collapsed |-> FALSE]]
    BY <1>2 DEF movedIntoGroup
  <2>3. g = [widgets |-> Append(removed[r].groups[at].widgets, w), active |-> w]
    OBVIOUS
  <2>. HIDE DEF removed, at, g
  <2>4. docks' \in Layouts /\ Drawable(docks')
    BY ONLY <1>1, <2>1, <2>2, <2>3, r \in Allowed[w], w \in Widgets, r \in Regions, JoinedIs
  <2>. QED  BY <2>4 DEF DocksInv
<1>3. CASE ~Holds(docks[r].groups[i], w)
  <2>1. docks' = [removed EXCEPT ![r].collapsed = FALSE]
    BY <1>3 DEF movedIntoGroup
  <2>. HIDE DEF removed
  <2>. QED  BY <1>1, <2>1, RegionFlips DEF DocksInv
<1>. QED  BY <1>2, <1>3

LEMMA DocksInvKept == DocksInv /\ [DocksNext]_docks => DocksInv'
<1>. SUFFICES ASSUME DocksInv, [DocksNext]_docks PROVE DocksInv'
  OBVIOUS
<1>1. CASE ResetLayout
  BY <1>1, DocksAssumption DEF ResetLayout, DocksInv
<1>2. ASSUME NEW r \in Regions, ToggleRegion(r) PROVE DocksInv'
  <2>1. docks' = [docks EXCEPT ![r].collapsed = ~docks[r].collapsed]
    BY <1>2 DEF ToggleRegion
  <2>2. docks[r].collapsed \in BOOLEAN
    BY DrawnPlaces DEF DocksInv
  <2>. QED  BY <2>1, <2>2, RegionFlips DEF DocksInv
<1>3. ASSUME NEW w \in Widgets, OpenWidget(w) PROVE DocksInv'
  <2>. DEFINE added == addWidget(docks, w)
  <2>1. added \in Layouts /\ Drawable(added)
    <3>1. CASE w \in Open(docks)
      BY <3>1, ActivatedIs DEF addWidget, DocksInv
    <3>2. CASE w \notin Open(docks)
      <4>1. DefaultRegion[w] \in Allowed[w] /\ DefaultRegion[w] \in Regions
        BY DocksAssumption
      <4>2. added = [docks EXCEPT ![DefaultRegion[w]] =
                       [groups |-> Append(@.groups, Group(w)), collapsed |-> FALSE]]
        BY <3>2 DEF addWidget
      <4>. HIDE DEF added
      <4>. QED  BY <3>2, <4>1, <4>2, NewGroupIs DEF DocksInv
    <3>. QED  BY <3>1, <3>2
  <2>2. docks' = activateWidgetIn(added, w)
    BY <1>3 DEF OpenWidget
  <2>. HIDE DEF added
  <2>. QED  BY <2>1, <2>2, ActivatedIs DEF DocksInv
<1>4. ASSUME NEW w \in Widgets, ActivateWidget(w) PROVE DocksInv'
  BY <1>4, ActivatedIs DEF ActivateWidget, DocksInv
<1>5. ASSUME NEW w \in Widgets, CloseTab(w) PROVE DocksInv'
  BY <1>5, RemovedIs DEF CloseTab, DocksInv
<1>6. ASSUME NEW w \in Widgets, NEW r \in Regions, DropIntoEmptyRegion(w, r) PROVE DocksInv'
  BY <1>6, MovedAlone DEF DropIntoEmptyRegion
<1>7. ASSUME NEW w \in Widgets, NEW r \in Regions, MoveToRegion(w, r) PROVE DocksInv'
  BY <1>7, MovedAlone DEF MoveToRegion
<1>8. ASSUME NEW w \in Widgets, NEW r \in Regions, NEW i \in 1..Cardinality(Widgets), DropIntoGroup(w, r, i)
      PROVE  DocksInv'
  BY <1>8, MovedIn DEF DropIntoGroup
<1>9. CASE UNCHANGED docks
  BY <1>9 DEF DocksInv
<1>. QED  BY <1>1, <1>2, <1>3, <1>4, <1>5, <1>6, <1>7, <1>8, <1>9 DEF DocksNext

\* Whatever is opened, closed, shown and dragged, the layout can be loaded and drawn again, for
\* any widgets and regions (layout/workspace-store.ts:344, schema.ts:22).
THEOREM DocksStayDrawable == DocksSpec => []LayoutCanBeDrawn
<1>1. DocksInv => LayoutCanBeDrawn
  BY DEF DocksInv, LayoutCanBeDrawn
<1>. QED  BY DocksInvHolds, DocksInvKept, <1>1, PTL DEF DocksSpec

----------------------------------------------------------------------------
\* The chart.

\* Greater numbers are further on.
LEMMA PlacesAscend ==
  ASSUME NEW n \in Nat, NEW K \in SUBSET (1..n),
         NEW k \in 1..Cardinality(K), NEW l \in 1..Cardinality(K), k < l
  PROVE  Nth(K, k) < Nth(K, l)
<1>. DEFINE UpTo(i) == {j \in K : j <= i}
<1>1. /\ Nth(K, k) \in K /\ Rank(K, Nth(K, k)) = k
      /\ Nth(K, l) \in K /\ Rank(K, Nth(K, l)) = l
      /\ Cardinality(K) \in Nat
  BY RanksCount
<1>2. \A x \in K : x \in Int
  OBVIOUS
<1>. SUFFICES ASSUME ~(Nth(K, k) < Nth(K, l)) PROVE FALSE
  OBVIOUS
<1>3. UpTo(Nth(K, l)) \in SUBSET UpTo(Nth(K, k))
  <2>1. Nth(K, k) \in Int /\ Nth(K, l) \in Int
    BY <1>1, <1>2
  <2>2. Nth(K, l) <= Nth(K, k)
    BY <2>1
  <2>3. \A x \in K : x <= Nth(K, l) => x <= Nth(K, k)
    BY <1>2, <2>1, <2>2
  <2>. QED  BY <2>3
<1>4. IsFiniteSet(UpTo(Nth(K, k)))
  <2>1. IsFiniteSet(1..n)
    BY FS_Interval
  <2>2. UpTo(Nth(K, k)) \in SUBSET (1..n)
    OBVIOUS
  <2>. HIDE DEF UpTo
  <2>. QED  BY <2>1, <2>2, FS_Subset
<1>5. Cardinality(UpTo(Nth(K, l))) = l /\ Cardinality(UpTo(Nth(K, k))) = k
  BY <1>1 DEF Rank
<1>. HIDE DEF UpTo
<1>6. Cardinality(UpTo(Nth(K, l))) <= Cardinality(UpTo(Nth(K, k)))
  BY <1>3, <1>4, FS_Subset
<1>. QED  BY <1>1, <1>5, <1>6

Candles == [of : Series, t : Nat]

LEMMA CandlesAre ==
  ASSUME NEW x \in Seq(Candles), NEW i \in DOMAIN x
  PROVE  x[i] \in Candles /\ x[i].of \in Series /\ x[i].t \in Nat /\ x[i].t \in Int
<1>1. x[i] \in Candles
  OBVIOUS
<1>. QED  BY <1>1 DEF Candles

\* A page or a frame: candles of the series in the window, from the first that traded in it.
LEMMA AnsweredIs ==
  ASSUME NEW s \in Series, NEW from \in Int, NEW to \in Int, clock \in Nat,
         NEW page, page = BarsAnswered(s, from, to)
  PROVE  /\ page \in Seq(Candles) /\ Ascends(page)
         /\ \A i \in DOMAIN page : page[i].of = s /\ page[i].t \in Trades[s]
                                   /\ page[i].t <= clock /\ from <= page[i].t /\ page[i].t <= to
         /\ \A t \in Trades[s] : t <= clock /\ from <= t /\ t <= to => page # <<>> /\ page[1].t <= t
<1>. DEFINE K == {t \in Trades[s] : t <= clock /\ from <= t /\ t <= to}
            n == Cardinality(K)
<1>1. Trades[s] \subseteq Nat \ {0}
  BY ChartAssumption
<1>2. K \in SUBSET (1..clock)
  BY <1>1
<1>3. /\ n \in Nat
      /\ \A i \in K : Rank(K, i) \in 1..n /\ Nth(K, Rank(K, i)) = i
      /\ \A k \in 1..n : Nth(K, k) \in K
  <2>. HIDE DEF K
  <2>. QED  BY <1>2, RanksCount
<1>4. page = [k \in 1..n |-> Candle(s, Nth(K, k))]
  BY DEF BarsAnswered
<1>5. \A k \in 1..n : Candle(s, Nth(K, k)) \in Candles
  BY <1>1, <1>3 DEF Candle, Candles
<1>. HIDE DEF n
<1>6. /\ page \in Seq(Candles) /\ DOMAIN page = 1..n /\ Len(page) = n
      /\ \A k \in 1..n : page[k] = Candle(s, Nth(K, k))
  <2>. HIDE DEF K
  <2>. QED  BY <1>3, <1>4, <1>5
<1>7. \A k \in 1..n : page[k].of = s /\ page[k].t = Nth(K, k)
  BY ONLY <1>6 DEF Candle
<1>8. \A k, l \in 1..n : k < l => Nth(K, k) < Nth(K, l)
  <2>. HIDE DEF K
  <2>. QED  BY <1>2, PlacesAscend DEF n
<1>9. Ascends(page)
  <2>. HIDE DEF K
  <2>1. ASSUME NEW i \in 1..n - 1 PROVE page[i].t < page[i + 1].t
    <3>1. i \in 1..n /\ i + 1 \in 1..n /\ i < i + 1
      BY <1>3
    <3>. QED  BY <1>7, <1>8, <3>1
  <2>. QED  BY <1>6, <2>1 DEF Ascends
<1>10. ASSUME NEW t \in Trades[s], t <= clock, from <= t, t <= to
       PROVE  page # <<>> /\ page[1].t <= t
  <2>1. t \in K
    BY <1>10
  <2>2. K \subseteq Int
    BY <1>1
  <2>. HIDE DEF K
  <2>3. Rank(K, t) \in 1..n /\ Nth(K, Rank(K, t)) = t
    BY <1>3, <2>1
  <2>4. 1 \in 1..n
    BY <1>3, <2>3
  <2>5. Nth(K, 1) <= t
    <3>1. Nth(K, 1) \in Int /\ t \in Int
      BY <1>3, <2>1, <2>2, <2>4
    <3>2. CASE Rank(K, t) = 1
      BY <2>3, <3>1, <3>2
    <3>3. CASE 1 < Rank(K, t)
      <4>1. Nth(K, 1) < Nth(K, Rank(K, t))
        BY <1>8, <2>3, <2>4, <3>3
      <4>. QED  BY <2>3, <3>1, <4>1
    <3>. QED  BY <1>3, <2>3, <3>2, <3>3
  <2>. QED  BY <1>6, <1>7, <2>4, <2>5
<1>11. \A i \in DOMAIN page : page[i].t \in K
  BY <1>3, <1>6, <1>7
<1>. QED  BY <1>6, <1>7, <1>9, <1>10, <1>11

\* What a frame makes of the candles: they ascend, the new ones are not before the last of them,
\* and where there were none not before low, and what came last is of the series s.
Continues(old, new, s, low) ==
  /\ new \in Seq(Candles) /\ Ascends(new)
  /\ old # <<>> => new # <<>>
  /\ new = old \/ (new # <<>> /\ Last(new).of = s)
  /\ \A i \in DOMAIN new : \/ old = <<>> /\ low <= new[i].t
                           \/ \E j \in DOMAIN old : old[j].t <= new[i].t

LEMMA ContinuesItself ==
  ASSUME NEW x \in Seq(Candles), Ascends(x), NEW s, NEW low \in Int
  PROVE  Continues(x, x, s, low)
<1>1. \A i \in DOMAIN x : x[i].t \in Nat
  BY CandlesAre
<1>2. \A i \in DOMAIN x : x[i].t <= x[i].t
  BY <1>1
<1>. QED  BY <1>2 DEF Continues

LEMMA ContinuesOn ==
  ASSUME NEW x \in Seq(Candles), NEW y, NEW z, NEW s, NEW low \in Int,
         Continues(x, y, s, low), Continues(y, z, s, low)
  PROVE  Continues(x, z, s, low)
<1>1. /\ \A i \in DOMAIN x : x[i].t \in Int
      /\ y \in Seq(Candles) /\ z \in Seq(Candles)
  BY CandlesAre DEF Continues
<1>2. /\ \A i \in DOMAIN y : y[i].t \in Int
      /\ \A i \in DOMAIN z : z[i].t \in Int
  BY <1>1, CandlesAre
<1>3. ASSUME NEW i \in DOMAIN z
      PROVE  (x = <<>> /\ low <= z[i].t) \/ \E j \in DOMAIN x : x[j].t <= z[i].t
  <2>1. CASE y = <<>>
    BY <2>1 DEF Continues
  <2>2. CASE y # <<>>
    <3>1. PICK j \in DOMAIN y : y[j].t <= z[i].t
      BY <2>2 DEF Continues
    <3>2. CASE x = <<>> /\ low <= y[j].t
      BY <1>2, <3>1, <3>2
    <3>3. CASE \E h \in DOMAIN x : x[h].t <= y[j].t
      <4>1. PICK h \in DOMAIN x : x[h].t <= y[j].t
        BY <3>3
      <4>2. x[h].t \in Int /\ y[j].t \in Int /\ z[i].t \in Int
        BY <1>1, <1>2
      <4>3. x[h].t <= z[i].t
        BY <3>1, <4>1, <4>2
      <4>. QED  BY <4>3
    <3>. QED  BY <3>2, <3>3 DEF Continues
  <2>. QED  BY <2>1, <2>2
<1>4. z = x \/ (z # <<>> /\ Last(z).of = s)
  BY DEF Continues
<1>. QED  BY <1>1, <1>3, <1>4 DEF Continues

\* One candle: dropped, in the place of the last, or after it.
LEMMA OneCandle ==
  ASSUME NEW x \in Seq(Candles), Ascends(x), NEW c \in Candles, NEW low \in Int, low <= c.t
  PROVE  Continues(x, IF Extends(x, c) THEN publish(x, c) ELSE x, c.of, low)
<1>. DEFINE n == Len(x)
<1>1. n \in Nat /\ DOMAIN x = 1..n /\ (x = <<>> <=> n = 0) /\ c.t \in Int
      /\ \A i \in 1..n : x[i] \in Candles /\ x[i].t \in Int
  <2>1. n \in Nat /\ DOMAIN x = 1..n /\ (x = <<>> <=> n = 0)
    OBVIOUS
  <2>2. c.t \in Int
    BY DEF Candles
  <2>. QED  BY <2>1, <2>2, CandlesAre
<1>2. CASE ~Extends(x, c)
  BY <1>2, ContinuesItself
<1>3. CASE Extends(x, c) /\ x # <<>> /\ c.t = Last(x).t
  <2>. DEFINE y == Front(x) \o <<c>>
  <2>1. Front(x) \in Seq(Candles) /\ Len(Front(x)) = n - 1 /\ \A i \in 1..n-1 : Front(x)[i] = x[i]
    BY <1>1, <1>3 DEF Front
  <2>2. /\ y \in Seq(Candles) /\ Len(y) = n /\ DOMAIN y = 1..n /\ y[n] = c
        /\ \A i \in 1..n-1 : y[i] = x[i]
    <3>. DEFINE f == Front(x)
    <3>. HIDE DEF f
    <3>1. f \in Seq(Candles) /\ Len(f) = n - 1 /\ n - 1 \in Nat
      BY <1>1, <1>3, <2>1 DEF f
    <3>2. /\ f \o <<c>> \in Seq(Candles) /\ Len(f \o <<c>>) = n /\ (f \o <<c>>)[n] = c
          /\ \A i \in 1..n-1 : (f \o <<c>>)[i] = f[i]
      BY <3>1
    <3>. QED  BY <2>1, <3>2 DEF f
  <2>. HIDE DEF y
  <2>3. Last(x) = x[n] /\ Last(y) = y[n] /\ n \in 1..n
    BY <1>1, <1>3, <2>2 DEF Last
  <2>4. \A i \in 1..n : y[i].t = x[i].t
    BY <1>1, <1>3, <2>2, <2>3
  <2>5. Ascends(y)
    BY <1>1, <2>2, <2>4 DEF Ascends
  <2>6. \A i \in DOMAIN y : x[i].t <= y[i].t
    BY <1>1, <2>2, <2>4
  <2>7. Continues(x, y, c.of, low)
    BY <1>1, <2>2, <2>3, <2>5, <2>6 DEF Continues
  <2>8. publish(x, c) = y
    BY <1>3 DEF publish, y
  <2>. QED  BY <1>3, <2>7, <2>8
<1>4. CASE Extends(x, c) /\ ~(x # <<>> /\ c.t = Last(x).t)
  <2>. DEFINE y == Append(x, c)
  <2>1. /\ y \in Seq(Candles) /\ Len(y) = n + 1 /\ DOMAIN y = 1..n+1 /\ y[n+1] = c
        /\ \A i \in 1..n : y[i] = x[i]
    BY <1>1
  <2>. HIDE DEF y
  <2>2. Last(y) = c
    BY <2>1 DEF Last
  <2>3. x # <<>> => n \in 1..n /\ Last(x) = x[n] /\ x[n].t < c.t
    <3>1. ASSUME x # <<>> PROVE n \in 1..n /\ Last(x) = x[n] /\ x[n].t < c.t
      <4>1. n \in 1..n /\ Last(x) = x[n]
        BY <1>1, <3>1 DEF Last
      <4>2. x[n].t \in Int /\ c.t >= x[n].t /\ c.t # x[n].t
        BY <1>1, <1>4, <3>1, <4>1 DEF Extends
      <4>. QED  BY <1>1, <4>1, <4>2
    <3>. QED  BY <3>1
  <2>4. Ascends(y)
    <3>1. ASSUME NEW i \in 1..n PROVE y[i].t < y[i + 1].t
      <4>1. CASE i = n
        BY <1>1, <2>1, <2>3, <4>1
      <4>2. CASE i # n
        <5>1. i \in 1..Len(x) - 1 /\ i + 1 \in 1..n
          <6>. HIDE DEF n
          <6>1. i \in 1..n - 1 /\ i + 1 \in 1..n
            BY <1>1, <4>2
          <6>. QED  BY <6>1 DEF n
        <5>. QED  BY <2>1, <5>1 DEF Ascends
      <4>. QED  BY <4>1, <4>2
    <3>. QED  BY <1>1, <2>1, <3>1 DEF Ascends
  <2>5. ASSUME NEW i \in DOMAIN y
        PROVE  (x = <<>> /\ low <= y[i].t) \/ \E j \in DOMAIN x : x[j].t <= y[i].t
    <3>1. CASE i \in 1..n
      BY <1>1, <2>1, <3>1
    <3>2. CASE i = n + 1
      <4>1. CASE x = <<>>
        BY <2>1, <3>2, <4>1
      <4>2. CASE x # <<>>
        <5>1. n \in DOMAIN x /\ x[n].t <= y[i].t
          BY <1>1, <2>1, <2>3, <3>2, <4>2
        <5>. QED  BY <5>1
      <4>. QED  BY <4>1, <4>2
    <3>. QED  BY <1>1, <2>1, <3>1, <3>2
  <2>6. y # <<>>
    BY <1>1, <2>1
  <2>7. Continues(x, y, c.of, low)
    BY <2>1, <2>2, <2>4, <2>5, <2>6 DEF Continues
  <2>8. publish(x, c) = y
    BY <1>4 DEF publish, y
  <2>. QED  BY <1>4, <2>7, <2>8
<1>. QED  BY <1>2, <1>3, <1>4

\* Induction over the naturals, on a set Good instead of a predicate.
LEMMA CountingUp ==
  ASSUME NEW Good, 0 \in Good, \A n \in Nat : n \in Good => n + 1 \in Good
  PROVE  \A n \in Nat : n \in Good
<1>. DEFINE Bad == {n \in Nat : n \notin Good}
<1>. SUFFICES ASSUME Bad # {} PROVE FALSE
  OBVIOUS
<1>1. IsWellFoundedOn(OpToRel(<, Nat), Nat)
  BY NatLessThanWellFounded
<1>2. Bad \subseteq Nat
  OBVIOUS
<1>. HIDE DEF Bad
<1>3. PICK m \in Bad : \A k \in Bad : ~(<<k, m>> \in OpToRel(<, Nat))
  BY <1>1, <1>2, WFMin
<1>4. m \in Nat /\ m \notin Good
  BY <1>3 DEF Bad
<1>5. m # 0 /\ m - 1 \in Nat /\ m - 1 < m
  BY <1>4
<1>6. m - 1 \notin Bad
  BY <1>3, <1>4, <1>5 DEF OpToRel
<1>7. m - 1 \in Good
  BY <1>5, <1>6 DEF Bad
<1>8. (m - 1) + 1 \in Good
  BY <1>5, <1>7
<1>. QED  BY <1>4, <1>8

\* The candles after each of a frame's bars.
MergedUpTo(f, series, frame, m) ==
  f = [n \in 0..m |-> IF n = 0 THEN series ELSE mergeStreamBar(f[n - 1], frame[n])]

LEMMA MergedExists ==
  ASSUME NEW series, NEW frame, NEW m \in Nat
  PROVE  \E f : MergedUpTo(f, series, frame, m)
<1>. DEFINE Good == {k \in Nat : \E f : MergedUpTo(f, series, frame, k)}
<1>1. 0 \in Good
  <2>. DEFINE f == [n \in 0..0 |-> series]
  <2>1. f = [n \in 0..0 |-> IF n = 0 THEN series ELSE mergeStreamBar(f[n - 1], frame[n])]
    OBVIOUS
  <2>. HIDE DEF f
  <2>. QED  BY <2>1 DEF MergedUpTo
<1>2. ASSUME NEW k \in Nat, k \in Good PROVE k + 1 \in Good
  <2>1. PICK f : f = [n \in 0..k |-> IF n = 0 THEN series ELSE mergeStreamBar(f[n - 1], frame[n])]
    BY <1>2 DEF MergedUpTo
  <2>. DEFINE last == mergeStreamBar(f[k], frame[k + 1])
              g == [n \in 0..k+1 |-> IF n = k + 1 THEN last ELSE f[n]]
  <2>2. ASSUME NEW n \in 0..k+1
        PROVE  g[n] = IF n = 0 THEN series ELSE mergeStreamBar(g[n - 1], frame[n])
    <3>. HIDE DEF last
    <3>1. CASE n = k + 1
      <4>1. g[n] = last /\ n # 0 /\ n - 1 = k /\ k \in 0..k+1 /\ k # k + 1
        BY <3>1
      <4>2. g[n - 1] = f[k]
        BY <4>1
      <4>. QED  BY <3>1, <4>1, <4>2 DEF last
    <3>2. CASE n # k + 1
      <4>1. n \in 0..k /\ g[n] = f[n]
        BY <3>2
      <4>2. CASE n = 0
        BY <2>1, <4>1, <4>2
      <4>3. CASE n # 0
        <5>1. n - 1 \in 0..k+1 /\ n - 1 # k + 1
          BY <4>1, <4>3
        <5>2. g[n - 1] = f[n - 1]
          BY <5>1
        <5>3. f[n] = mergeStreamBar(f[n - 1], frame[n])
          BY <2>1, <4>1, <4>3
        <5>. QED  BY <4>1, <4>3, <5>2, <5>3
      <4>. QED  BY <4>2, <4>3
    <3>. QED  BY <3>1, <3>2
  <2>3. g = [n \in 0..k+1 |-> g[n]]
    OBVIOUS
  <2>. HIDE DEF g
  <2>4. g = [n \in 0..k+1 |-> IF n = 0 THEN series ELSE mergeStreamBar(g[n - 1], frame[n])]
    BY <2>2, <2>3, Zenon
  <2>. QED  BY <2>4 DEF MergedUpTo
<1>. HIDE DEF Good
<1>3. m \in Good
  BY <1>1, <1>2, CountingUp
<1>. QED  BY <1>3 DEF Good

\* A frame of candles of one series continues what is there.
LEMMA FrameContinues ==
  ASSUME NEW x \in Seq(Candles), Ascends(x), NEW frame \in Seq(Candles), NEW s, NEW low \in Int,
         \A i \in DOMAIN frame : frame[i].of = s /\ low <= frame[i].t
  PROVE  Continues(x, mergeStreamBars(x, frame), s, low)
<1>. DEFINE m == Len(frame)
            Merged(f) == MergedUpTo(f, x, frame, m)
            merged == CHOOSE f : Merged(f)
<1>1. m \in Nat
  OBVIOUS
<1>2. Merged(merged)
  BY <1>1, MergedExists
<1>3. mergeStreamBars(x, frame) = merged[m]
  BY DEF mergeStreamBars, MergedUpTo
<1>. HIDE DEF merged
<1>4. \A n \in 0..m : merged[n] = IF n = 0 THEN x ELSE mergeStreamBar(merged[n - 1], frame[n])
  BY <1>2 DEF MergedUpTo
<1>. DEFINE Good == {n \in Nat : n <= m => Continues(x, merged[n], s, low)}
<1>5. 0 \in Good
  <2>1. merged[0] = x
    BY <1>1, <1>4
  <2>. QED  BY <2>1, ContinuesItself
<1>6. ASSUME NEW n \in Nat, n \in Good PROVE n + 1 \in Good
  <2>. SUFFICES ASSUME n + 1 <= m PROVE Continues(x, merged[n + 1], s, low)
    OBVIOUS
  <2>1. n <= m /\ n + 1 \in 0..m /\ n + 1 # 0 /\ (n + 1) - 1 = n /\ n + 1 \in DOMAIN frame
    BY <1>1
  <2>2. merged[n + 1] = mergeStreamBar(merged[n], frame[n + 1])
    BY <1>4, <2>1
  <2>3. Continues(x, merged[n], s, low)
    BY <1>6, <2>1
  <2>4. merged[n] \in Seq(Candles) /\ Ascends(merged[n])
    BY <2>3 DEF Continues
  <2>5. frame[n + 1] \in Candles /\ frame[n + 1].of = s /\ low <= frame[n + 1].t
    BY <2>1
  <2>6. Continues(merged[n], merged[n + 1], s, low)
    BY <2>2, <2>4, <2>5, OneCandle DEF mergeStreamBar
  <2>. QED  BY <2>3, <2>6, ContinuesOn
<1>. HIDE DEF Good
<1>7. m \in Good
  BY <1>1, <1>5, <1>6, CountingUp
<1>. QED  BY <1>1, <1>3, <1>7 DEF Good

ChartTypes ==
  /\ clock \in Nat /\ shown \in Series /\ shows \in Nat
  /\ asked \subseteq [of : Series, run : Nat, to : Nat]
  /\ bars \in Seq(Candles) /\ stateBars \in Seq(Candles) /\ drawn \in Seq(Candles)
  /\ oldest \in Nat /\ live \in BOOLEAN
  /\ earlier \in [of : Series, before : Nat] \cup {NoPage}
  /\ stateLast \in Candles \cup {NoCandle}

\* A run of the effect asks once, of the series it is for.
AsksOK ==
  /\ \A a, b \in asked : a.run = b.run => a = b
  /\ \A a \in asked : a.run <= shows /\ a.to <= clock /\ (~Stale(a) => a.of = shown)

\* What traded in bucket t is before every page and frame that may still be the first.
Behind(t) == t <= clock - Page /\ \A ask \in asked : Stale(ask) \/ t <= ask.to - Page

\* No candle is older than the oldest, and nothing older is in a page on its way or in the stream.
OldestOK ==
  oldest # Never =>
    /\ bars # <<>>
    /\ \A i \in DOMAIN bars : oldest <= bars[i].t
    /\ \A t \in Trades[shown] : t < oldest => Behind(t)

\* The page that is out is of candles before all others, whatever series they are of.
EarlierOK ==
  earlier # NoPage =>
    \A t \in Trades[earlier.of] : t < earlier.before => Behind(t) /\ \A i \in DOMAIN bars : t < bars[i].t

ChartInv == ChartTypes /\ CandlesInOrder /\ AsksOK /\ OldestOK /\ EarlierOK

LEMMA ChartInvHolds == ChartInit => ChartInv
<1>. SUFFICES ASSUME ChartInit PROVE ChartInv
  OBVIOUS
<1>1. ChartTypes
  <2>1. clock \in Nat /\ clock = Page + 1
    BY ChartAssumption DEF ChartInit
  <2>2. [of |-> shown, run |-> 1, to |-> clock] \in [of : Series, run : Nat, to : Nat]
    BY <2>1 DEF ChartInit
  <2>3. asked \subseteq [of : Series, run : Nat, to : Nat]
    BY <2>2 DEF ChartInit
  <2>4. /\ bars = <<>> /\ stateBars = <<>> /\ drawn = <<>> /\ shown \in Series /\ shows = 1
        /\ oldest = 0 /\ live = FALSE /\ earlier = NoPage /\ stateLast = NoCandle
    BY DEF ChartInit, Never
  <2>5. bars \in Seq(Candles) /\ stateBars \in Seq(Candles) /\ drawn \in Seq(Candles)
    <3>1. <<>> \in Seq(Candles)
      OBVIOUS
    <3>. QED  BY ONLY <2>4, <3>1
  <2>6. shows \in Nat /\ oldest \in Nat
    BY <2>4
  <2>7. live \in BOOLEAN
    BY ONLY <2>4, Zenon
  <2>8. earlier \in [of : Series, before : Nat] \cup {NoPage} /\ stateLast \in Candles \cup {NoCandle}
    BY <2>4
  <2>. QED  BY <2>1, <2>3, <2>4, <2>5, <2>6, <2>7, <2>8 DEF ChartTypes
<1>2. CandlesInOrder
  BY DEF ChartInit, CandlesInOrder, Ascends
<1>3. AsksOK
  BY <1>1 DEF ChartInit, AsksOK, ChartTypes
<1>. QED  BY <1>1, <1>2, <1>3 DEF ChartInv, ChartInit, OldestOK, EarlierOK

\* The pane begins anew: the page that is out is still before all that it will hold.
LEMMA BeginKeeps ==
  ASSUME ChartInv, NEW s \in Series, Begin(s)
  PROVE  ChartInv'
<1>. DEFINE ask == [of |-> s, run |-> shows + 1, to |-> clock]
<1>1. /\ shows' = shows + 1 /\ shown' = s /\ asked' = asked \cup {ask} /\ live' = FALSE
      /\ bars' = <<>> /\ oldest' = Never /\ stateBars' = <<>> /\ stateLast' = NoCandle
      /\ UNCHANGED <<clock, earlier, drawn>>
  BY DEF Begin
<1>2. clock \in Nat /\ shows \in Nat /\ ask \in [of : Series, run : Nat, to : Nat]
  BY DEF ChartInv, ChartTypes
<1>3. ask.of = s /\ ask.run = shows + 1 /\ ask.to = clock
  OBVIOUS
<1>. HIDE DEF ask
<1>4. ChartTypes'
  <2>1. asked' \subseteq [of : Series, run : Nat, to : Nat]
    BY <1>1, <1>2 DEF ChartInv, ChartTypes
  <2>2. oldest' = 0 /\ shows' \in Nat /\ shown' \in Series
    BY <1>1, <1>2 DEF Never
  <2>3. clock' \in Nat /\ drawn' \in Seq(Candles) /\ (earlier \in [of : Series, before : Nat] \cup {NoPage})'
    BY <1>1 DEF ChartInv, ChartTypes
  <2>4. bars' \in Seq(Candles) /\ stateBars' \in Seq(Candles)
    <3>1. <<>> \in Seq(Candles)
      OBVIOUS
    <3>. QED  BY ONLY <1>1, <3>1
  <2>5. live' \in BOOLEAN
    BY ONLY <1>1, Zenon
  <2>6. stateLast' \in Candles \cup {NoCandle}
    BY <1>1
  <2>. QED  BY <2>1, <2>2, <2>3, <2>4, <2>5, <2>6 DEF ChartTypes
<1>5. CandlesInOrder'
  BY <1>1 DEF ChartInv, CandlesInOrder, Ascends
<1>6. \A a \in asked : a \in [of : Series, run : Nat, to : Nat] /\ a.run \in Nat /\ a.run <= shows /\ a.to <= clock
  BY DEF ChartInv, ChartTypes, AsksOK
<1>7. \A a \in asked : a.run # shows + 1
  BY <1>2, <1>6
<1>8. AsksOK'
  BY <1>1, <1>2, <1>3, <1>6, <1>7 DEF ChartInv, AsksOK, Stale
<1>9. \A t \in Int : Behind(t) => Behind(t)'
  BY <1>1, <1>3, <1>7 DEF Behind, Stale
<1>10. EarlierOK'
  <2>. SUFFICES ASSUME earlier # NoPage, NEW t \in Trades[earlier.of], t < earlier.before PROVE Behind(t)'
    BY <1>1 DEF EarlierOK
  <2>1. Behind(t)
    BY DEF ChartInv, EarlierOK
  <2>2. t \in Int
    BY ChartAssumption DEF ChartInv, ChartTypes, NoPage
  <2>. QED  BY <1>9, <2>1, <2>2
<1>. QED  BY <1>1, <1>4, <1>5, <1>8, <1>10 DEF ChartInv, OldestOK

\* The asks of other runs are left out of account.
LEMMA BehindStays ==
  ASSUME NEW t, Behind(t), asked' \subseteq asked, UNCHANGED <<clock, shows>>
  PROVE  Behind(t)'
BY DEF Behind, Stale

\* The first page is all the pane holds, and what is not in it and older is behind.
LEMMA FirstPageKeeps ==
  ASSUME ChartInv, NEW ask \in asked, FirstPage(ask)
  PROVE  ChartInv'
<1>1. /\ asked' = asked \ {ask}
      /\ UNCHANGED <<clock, shown, shows, earlier, drawn>>
  BY DEF FirstPage
<1>2. \A t : Behind(t) => Behind(t)'
  BY <1>1, BehindStays
<1>3. AsksOK'
  BY <1>1 DEF ChartInv, AsksOK, Stale
<1>4. CASE Stale(ask)
  <2>1. UNCHANGED <<bars, oldest, live, stateBars, stateLast>>
    BY <1>4 DEF FirstPage
  <2>2. ChartTypes' /\ CandlesInOrder'
    BY <1>1, <2>1 DEF ChartInv, ChartTypes, CandlesInOrder
  <2>3. OldestOK' /\ EarlierOK'
    BY <1>1, <1>2, <2>1 DEF ChartInv, OldestOK, EarlierOK
  <2>. QED  BY <1>3, <2>2, <2>3 DEF ChartInv
<1>5. CASE ~Stale(ask)
  <2>. DEFINE page == BarsAnswered(ask.of, ask.to - Page + 1, ask.to)
  <2>1. /\ bars' = page /\ stateBars' = page /\ live' = TRUE
        /\ oldest' = IF page = <<>> THEN Never ELSE Head(page).t
        /\ stateLast' = IF page = <<>> THEN NoCandle ELSE Last(page)
    BY <1>5 DEF FirstPage
  <2>2. /\ ask.of \in Series /\ ask.of = shown /\ ask.to \in Nat /\ ask.to <= clock
        /\ clock \in Nat /\ Page \in Nat
    BY <1>5, ChartAssumption DEF ChartInv, ChartTypes, AsksOK
  <2>3. /\ page \in Seq(Candles) /\ Ascends(page)
        /\ \A i \in DOMAIN page : page[i].of = shown /\ ask.to - Page + 1 <= page[i].t
        /\ \A t \in Trades[shown] :
             t <= clock /\ ask.to - Page + 1 <= t /\ t <= ask.to => page # <<>> /\ page[1].t <= t
    <3>1. ask.to - Page + 1 \in Int /\ ask.to \in Int
      BY <2>2
    <3>. QED  BY <2>2, <3>1, AnsweredIs
  <2>4. \A a \in asked' : Stale(a)'
    <3>1. \A a \in asked : ~Stale(a) => a = ask
      BY <1>5 DEF ChartInv, AsksOK, Stale
    <3>. QED  BY <1>1, <3>1 DEF Stale
  <2>. HIDE DEF page
  <2>5. page # <<>> => /\ 1 \in DOMAIN page /\ Head(page) = page[1]
                       /\ Len(page) \in DOMAIN page /\ Last(page) = page[Len(page)]
    BY <2>3 DEF Last
  <2>6. ChartTypes'
    <3>1. oldest' \in Nat /\ stateLast' \in Candles \cup {NoCandle}
      BY <2>1, <2>3, <2>5, CandlesAre DEF Never
    <3>. QED  BY <1>1, <2>1, <2>3, <3>1 DEF ChartInv, ChartTypes
  <2>7. CandlesInOrder'
    BY <1>1, <2>1, <2>3, <2>5 DEF ChartInv, CandlesInOrder
  <2>8. OldestOK'
    <3>. SUFFICES ASSUME page # <<>>
                  PROVE  /\ \A i \in DOMAIN page : page[1].t <= page[i].t
                         /\ \A t \in Trades[shown] : t < page[1].t => Behind(t)'
      BY <1>1, <2>1, <2>5 DEF OldestOK
    <3>1. \A i \in DOMAIN page : page[i].t \in Trades[shown] /\ page[i].t <= clock /\ page[i].t <= ask.to
      BY <2>2, AnsweredIs DEF page
    <3>2. \A i \in DOMAIN page : page[1].t <= page[i].t
      BY <2>3, <3>1
    <3>3. ASSUME NEW t \in Trades[shown], t < page[1].t PROVE Behind(t)'
      <4>1. t \in Int /\ page[1].t \in Int /\ page[1].t <= ask.to
        BY <2>5, <3>1, CandlesAre, <2>3, ChartAssumption DEF ChartInv, ChartTypes
      <4>2. ~(ask.to - Page + 1 <= t)
        BY <2>2, <2>3, <3>3, <4>1
      <4>3. t <= clock - Page
        BY <2>2, <4>1, <4>2
      <4>. QED  BY <1>1, <2>4, <4>3 DEF Behind
    <3>. QED  BY <3>2, <3>3
  <2>9. EarlierOK'
    <3>. SUFFICES ASSUME earlier # NoPage, NEW t \in Trades[earlier.of], t < earlier.before
                  PROVE  Behind(t)' /\ \A i \in DOMAIN page : t < page[i].t
      BY <1>1, <2>1 DEF EarlierOK
    <3>1. Behind(t) /\ t \in Int
      BY ChartAssumption DEF ChartInv, EarlierOK, ChartTypes, NoPage
    <3>2. t <= ask.to - Page
      BY <1>5, <3>1 DEF Behind
    <3>3. \A i \in DOMAIN page : t < page[i].t
      BY <2>2, <2>3, <3>1, <3>2, CandlesAre
    <3>. QED  BY <1>2, <3>1, <3>3
  <2>. QED  BY <1>3, <2>6, <2>7, <2>8, <2>9 DEF ChartInv
<1>. QED  BY <1>4, <1>5

LEMMA LoadEarlierKeeps == ChartInv /\ LoadEarlier => ChartInv'
<1>. SUFFICES ASSUME ChartInv, LoadEarlier PROVE ChartInv'
  OBVIOUS
<1>1. /\ oldest # Never /\ earlier' = [of |-> shown, before |-> oldest]
      /\ UNCHANGED <<clock, shown, shows, asked, bars, oldest, live, stateBars, stateLast, drawn>>
  BY DEF LoadEarlier
<1>2. earlier' \in [of : Series, before : Nat] /\ earlier'.of = shown /\ earlier'.before = oldest
  BY <1>1 DEF ChartInv, ChartTypes
<1>3. ChartTypes' /\ CandlesInOrder' /\ AsksOK'
  BY <1>1, <1>2 DEF ChartInv, ChartTypes, CandlesInOrder, AsksOK, Stale
<1>4. \A t : Behind(t) => Behind(t)'
  BY <1>1, BehindStays
<1>5. OldestOK'
  BY <1>1, <1>4 DEF ChartInv, OldestOK
<1>6. EarlierOK'
  <2>. SUFFICES ASSUME NEW t \in Trades[shown], t < oldest
                PROVE  Behind(t)' /\ \A i \in DOMAIN bars : t < bars[i].t
    BY <1>1, <1>2 DEF EarlierOK
  <2>1. Behind(t) /\ \A i \in DOMAIN bars : oldest <= bars[i].t
    BY <1>1 DEF ChartInv, OldestOK
  <2>2. t \in Int /\ oldest \in Int /\ bars \in Seq(Candles)
    BY ChartAssumption DEF ChartInv, ChartTypes
  <2>3. \A i \in DOMAIN bars : t < bars[i].t
    BY <2>1, <2>2, CandlesAre
  <2>. QED  BY <1>4, <2>1, <2>3
<1>. QED  BY <1>3, <1>5, <1>6 DEF ChartInv

\* The page goes in front of the candles, and its first is the oldest.
LEMMA EarlierPageKeeps == ChartInv /\ EarlierPage => ChartInv'
<1>. SUFFICES ASSUME ChartInv, EarlierPage PROVE ChartInv'
  OBVIOUS
<1>. DEFINE page == BarsAnswered(earlier.of, earlier.before - Page, earlier.before - 1)
<1>1. /\ earlier # NoPage /\ earlier' = NoPage
      /\ UNCHANGED <<clock, shown, shows, asked, live, stateLast, drawn>>
      /\ page = <<>> => UNCHANGED <<bars, oldest, stateBars>>
      /\ page # <<>> => bars' = page \o bars /\ stateBars' = bars' /\ oldest' = Head(page).t
  BY DEF EarlierPage
<1>2. earlier.of \in Series /\ earlier.before \in Nat /\ clock \in Nat /\ Page \in Nat
  BY <1>1, ChartAssumption DEF ChartInv, ChartTypes
<1>3. /\ page \in Seq(Candles) /\ Ascends(page)
      /\ \A i \in DOMAIN page : page[i].t \in Trades[earlier.of] /\ page[i].t <= clock
                                /\ earlier.before - Page <= page[i].t /\ page[i].t <= earlier.before - 1
      /\ \A t \in Trades[earlier.of] :
           t <= clock /\ earlier.before - Page <= t /\ t <= earlier.before - 1 => page # <<>> /\ page[1].t <= t
  <2>1. earlier.before - Page \in Int /\ earlier.before - 1 \in Int
    BY <1>2
  <2>. QED  BY <1>2, <2>1, AnsweredIs
<1>. HIDE DEF page
<1>4. \A i \in DOMAIN page : /\ page[i].t \in Int /\ page[i].t < earlier.before /\ Behind(page[i].t)
                             /\ \A j \in DOMAIN bars : page[i].t < bars[j].t
  <2>1. \A i \in DOMAIN page : page[i].t \in Int
    BY <1>3, CandlesAre
  <2>2. \A i \in DOMAIN page : page[i].t \in Trades[earlier.of] /\ page[i].t < earlier.before
    BY <1>2, <1>3, <2>1
  <2>. QED  BY <1>1, <2>1, <2>2 DEF ChartInv, EarlierOK
<1>5. AsksOK'
  BY <1>1 DEF ChartInv, AsksOK, Stale
<1>6. \A t : Behind(t) => Behind(t)'
  BY <1>1, BehindStays
<1>7. EarlierOK'
  BY <1>1 DEF EarlierOK
<1>8. CASE page = <<>>
  <2>1. ChartTypes' /\ CandlesInOrder'
    BY <1>1, <1>8 DEF ChartInv, ChartTypes, CandlesInOrder
  <2>2. OldestOK'
    BY <1>1, <1>6, <1>8 DEF ChartInv, OldestOK
  <2>. QED  BY <1>5, <1>7, <2>1, <2>2 DEF ChartInv
<1>9. CASE page # <<>>
  <2>. DEFINE m == Len(page)
              n == Len(bars)
  <2>1. /\ m \in Nat /\ n \in Nat /\ DOMAIN page = 1..m /\ DOMAIN bars = 1..n /\ m # 0
        /\ bars \in Seq(Candles)
    BY <1>3, <1>9 DEF ChartInv, ChartTypes
  <2>2. /\ bars' \in Seq(Candles) /\ Len(bars') = m + n /\ DOMAIN bars' = 1..m+n
        /\ \A i \in 1..m : bars'[i] = page[i]
        /\ \A i \in 1..n : bars'[m + i] = bars[i]
    <3>1. bars' = page \o bars
      BY <1>1, <1>9
    <3>. QED  BY <1>3, <2>1, <3>1
  <2>. HIDE DEF m, n
  <2>3. Ascends(bars')
    <3>. SUFFICES ASSUME NEW i \in 1..Len(bars') - 1 PROVE bars'[i].t < bars'[i + 1].t
      BY DEF Ascends
    <3>1. CASE i + 1 <= m
      <4>1. i \in 1..m /\ i + 1 \in 1..m /\ i \in 1..m - 1
        BY <2>1, <3>1
      <4>. QED  BY <1>3, <2>2, <4>1 DEF Ascends, m
    <3>2. CASE i = m
      <4>1. 1 \in 1..n /\ m \in 1..m
        BY <2>1, <2>2, <3>2
      <4>2. bars'[i] = page[m] /\ bars'[i + 1] = bars[1]
        BY <2>2, <3>2, <4>1
      <4>. QED  BY <1>4, <2>1, <4>1, <4>2
    <3>3. CASE i > m
      <4>. DEFINE j == i - m
      <4>1. j \in 1..n - 1 /\ j \in 1..n /\ j + 1 \in 1..n /\ m + j = i /\ m + (j + 1) = i + 1
        BY <2>1, <2>2, <3>3
      <4>2. bars'[i] = bars[j] /\ bars'[i + 1] = bars[j + 1]
        BY <2>2, <4>1
      <4>3. bars[j].t < bars[j + 1].t
        BY <4>1 DEF ChartInv, CandlesInOrder, Ascends, n
      <4>. QED  BY <4>2, <4>3
    <3>. QED  BY <2>1, <2>2, <3>1, <3>2, <3>3
  <2>4. stateBars' = bars' /\ oldest' = page[1].t /\ 1 \in 1..m /\ oldest' \in Nat
    <3>1. 1 \in 1..m /\ Head(page) = page[1]
      BY <1>3, <1>9, <2>1
    <3>2. page[1].t \in Nat
      BY <1>3, <2>1, <3>1, CandlesAre
    <3>. QED  BY <1>1, <1>9, <3>1, <3>2
  <2>5. ChartTypes'
    BY <1>1, <2>2, <2>4 DEF ChartInv, ChartTypes
  <2>6. CandlesInOrder'
    BY <1>1, <2>3, <2>4 DEF ChartInv, CandlesInOrder
  <2>7. OldestOK'
    <3>1. \A i \in 1..m : page[1].t <= page[i].t
      BY <1>3, <2>1
    <3>2. \A i \in DOMAIN bars' : page[1].t <= bars'[i].t
      <4>1. ASSUME NEW i \in 1..m+n, i > m PROVE page[1].t <= bars'[i].t
        <5>. DEFINE j == i - m
        <5>1. j \in 1..n /\ m + j = i
          BY <2>1, <4>1
        <5>2. bars'[i] = bars[j] /\ bars[j].t \in Int /\ page[1].t \in Int /\ page[1].t < bars[j].t
          BY <1>4, <2>1, <2>2, <2>4, <5>1, CandlesAre
        <5>. QED  BY <5>2
      <4>2. ASSUME NEW i \in 1..m PROVE page[1].t <= bars'[i].t
        BY <2>2, <3>1
      <4>. QED  BY <2>1, <2>2, <4>1, <4>2
    <3>3. ASSUME NEW t \in Trades[shown], t < page[1].t PROVE Behind(t)'
      <4>1. Behind(page[1].t) /\ page[1].t \in Int
        BY <1>4, <2>1, <2>4
      <4>2. t \in Int
        BY ChartAssumption DEF ChartInv, ChartTypes
      <4>3. Behind(t)
        <5>1. \A a \in asked : a.to \in Int
          BY DEF ChartInv, ChartTypes
        <5>. QED  BY <1>2, <3>3, <4>1, <4>2, <5>1 DEF Behind
      <4>. QED  BY <1>6, <4>3
    <3>4. bars' # <<>>
      BY <2>1, <2>2
    <3>. QED  BY <1>1, <2>4, <3>2, <3>3, <3>4 DEF OldestOK
  <2>. QED  BY <1>5, <1>7, <2>5, <2>6, <2>7 DEF ChartInv
<1>. QED  BY <1>8, <1>9

\* Bars of the stream and quotes come after whatever is behind.
LEMMA PublishedKeeps ==
  ASSUME ChartInv, NEW next, NEW low \in Int, low >= clock - Page + 1,
         Continues(bars, next, shown, low), Published(next)
  PROVE  ChartInv'
<1>1. /\ bars' = next /\ stateLast' = IF next = bars THEN stateLast ELSE Last(next)
      /\ UNCHANGED <<clock, shown, shows, asked, oldest, earlier, live, stateBars, drawn>>
  BY DEF Published
<1>2. next \in Seq(Candles) /\ Ascends(next)
  BY DEF Continues
<1>3. next # bars => Last(next).of = shown /\ Last(next) \in Candles
  <2>1. ASSUME next # bars PROVE Last(next).of = shown /\ Last(next) \in Candles
    <3>1. next # <<>> /\ Last(next).of = shown
      BY <2>1 DEF Continues
    <3>2. Last(next) \in Candles
      BY <1>2, <3>1 DEF Last
    <3>. QED  BY <3>1, <3>2
  <2>. QED  BY <2>1
<1>4. ChartTypes'
  BY <1>1, <1>2, <1>3 DEF ChartInv, ChartTypes
<1>5. CandlesInOrder'
  BY <1>1, <1>2, <1>3 DEF ChartInv, CandlesInOrder
<1>6. AsksOK'
  BY <1>1 DEF ChartInv, AsksOK, Stale
<1>7. \A t : Behind(t) => Behind(t)'
  BY <1>1, BehindStays
<1>8. /\ \A i \in DOMAIN bars : bars[i].t \in Int
      /\ \A i \in DOMAIN next : next[i].t \in Int
      /\ oldest \in Int /\ clock \in Int /\ Page \in Int
  BY <1>2, CandlesAre, ChartAssumption DEF ChartInv, ChartTypes
<1>9. OldestOK'
  <2>1. ASSUME oldest # Never, NEW i \in DOMAIN next PROVE oldest <= next[i].t
    <3>1. bars # <<>> /\ \A j \in DOMAIN bars : oldest <= bars[j].t
      BY <2>1 DEF ChartInv, OldestOK
    <3>2. PICK j \in DOMAIN bars : bars[j].t <= next[i].t
      BY <2>1, <3>1 DEF Continues
    <3>. QED  BY <1>8, <3>1, <3>2
  <2>2. oldest # Never => next # <<>>
    BY DEF ChartInv, OldestOK, Continues
  <2>. QED  BY <1>1, <1>7, <2>1, <2>2 DEF ChartInv, OldestOK
<1>10. EarlierOK'
  <2>. SUFFICES ASSUME earlier # NoPage, NEW t \in Trades[earlier.of], t < earlier.before, NEW i \in DOMAIN next
                PROVE  t < next[i].t
    BY <1>1, <1>7 DEF ChartInv, EarlierOK
  <2>1. Behind(t) /\ (\A j \in DOMAIN bars : t < bars[j].t) /\ t \in Int
    BY ChartAssumption DEF ChartInv, EarlierOK, ChartTypes, NoPage
  <2>2. t < low
    BY <1>8, <2>1 DEF Behind
  <2>3. low <= next[i].t \/ \E j \in DOMAIN bars : bars[j].t <= next[i].t
    BY DEF Continues
  <2>. QED  BY <1>8, <2>1, <2>2, <2>3
<1>. QED  BY <1>4, <1>5, <1>6, <1>9, <1>10 DEF ChartInv

LEMMA ChartInvKept == ChartInv /\ [ChartNext]_chartVars => ChartInv'
<1>. SUFFICES ASSUME ChartInv, [ChartNext]_chartVars PROVE ChartInv'
  OBVIOUS
<1>0. /\ clock \in Nat /\ shown \in Series /\ Page \in Nat /\ Page >= 2 /\ Window \in Nat /\ Window <= Page
      /\ bars \in Seq(Candles) /\ Ascends(bars)
  BY ChartAssumption DEF ChartInv, ChartTypes, CandlesInOrder
<1>1. ASSUME NEW s \in Series, Show(s) PROVE ChartInv'
  BY <1>1, BeginKeeps DEF Show
<1>2. CASE Retry
  BY <1>0, <1>2, BeginKeeps DEF Retry
<1>3. ASSUME NEW ask \in asked, FirstPage(ask) PROVE ChartInv'
  BY <1>3, FirstPageKeeps
<1>4. ASSUME NEW ask \in asked, FirstPageFails(ask) PROVE ChartInv'
  <2>1. /\ asked' \subseteq asked
        /\ UNCHANGED <<clock, shown, shows, bars, oldest, earlier, live, stateBars, stateLast, drawn>>
    BY <1>4 DEF FirstPageFails
  <2>2. ChartTypes' /\ CandlesInOrder' /\ AsksOK'
    BY <2>1 DEF ChartInv, ChartTypes, CandlesInOrder, AsksOK, Stale
  <2>3. \A t : Behind(t) => Behind(t)'
    BY <2>1, BehindStays
  <2>4. OldestOK' /\ EarlierOK'
    BY <2>1, <2>3 DEF ChartInv, OldestOK, EarlierOK
  <2>. QED  BY <2>2, <2>4 DEF ChartInv
<1>5. CASE LoadEarlier
  BY <1>5, LoadEarlierKeeps
<1>6. CASE EarlierPage
  BY <1>6, EarlierPageKeeps
<1>7. CASE EarlierFails
  <2>1. /\ earlier' = NoPage
        /\ UNCHANGED <<clock, shown, shows, asked, bars, oldest, live, stateBars, stateLast, drawn>>
    BY <1>7 DEF EarlierFails
  <2>2. ChartTypes' /\ CandlesInOrder' /\ AsksOK'
    BY <2>1 DEF ChartInv, ChartTypes, CandlesInOrder, AsksOK, Stale
  <2>3. \A t : Behind(t) => Behind(t)'
    BY <2>1, BehindStays
  <2>4. OldestOK' /\ EarlierOK'
    BY <2>1, <2>3 DEF ChartInv, OldestOK, EarlierOK
  <2>. QED  BY <2>2, <2>4 DEF ChartInv
<1>8. CASE BarFrame
  <2>. DEFINE low == clock - Window + 1
              frame == BarsAnswered(shown, low, clock)
  <2>1. low \in Int /\ low >= clock - Page + 1 /\ clock \in Int
    BY <1>0
  <2>2. frame \in Seq(Candles) /\ \A i \in DOMAIN frame : frame[i].of = shown /\ low <= frame[i].t
    <3>. HIDE DEF low
    <3>. QED  BY <1>0, <2>1, AnsweredIs
  <2>3. Published(mergeStreamBars(bars, frame))
    BY <1>8 DEF BarFrame
  <2>. HIDE DEF low, frame
  <2>4. Continues(bars, mergeStreamBars(bars, frame), shown, low)
    BY <1>0, <2>1, <2>2, FrameContinues
  <2>. QED  BY <2>1, <2>3, <2>4, PublishedKeeps
<1>9. CASE QuoteFrame
  <2>1. PICK at \in {clock - 1, clock} \cap Trades[shown] : Published(applyTick(bars, Candle(shown, at)))
    BY <1>9 DEF QuoteFrame
  <2>. DEFINE c == Candle(shown, at)
  <2>2. at \in Nat /\ at >= clock - Page + 1 /\ at \in Int
    BY <1>0, ChartAssumption
  <2>3. c \in Candles /\ c.of = shown /\ c.t = at
    BY <1>0, <2>2 DEF Candle, Candles
  <2>. HIDE DEF c
  <2>4. at <= c.t
    BY <2>2, <2>3
  <2>5. Continues(bars, applyTick(bars, c), c.of, at)
    BY <1>0, <2>2, <2>3, <2>4, OneCandle DEF applyTick
  <2>6. Continues(bars, applyTick(bars, c), shown, at) /\ Published(applyTick(bars, c))
    BY <2>1, <2>3, <2>5 DEF c
  <2>. QED  BY <2>2, <2>6, PublishedKeeps
<1>10. CASE Render
  <2>. DEFINE base == IF stateBars # applied THEN stateBars ELSE drawn
  <2>1. /\ drawn' = IF stateLast \notin {appliedLast, NoCandle} THEN withLiveBar(base, stateLast) ELSE base
        /\ UNCHANGED <<clock, shown, shows, asked, bars, oldest, earlier, live, stateBars, stateLast>>
    BY <1>10 DEF Render
  <2>2. base \in Seq(Candles) /\ Ascends(base)
    BY DEF ChartInv, ChartTypes, CandlesInOrder
  <2>. HIDE DEF base
  <2>3. drawn' \in Seq(Candles) /\ Ascends(drawn')
    <3>1. ASSUME stateLast # NoCandle
          PROVE  withLiveBar(base, stateLast) \in Seq(Candles) /\ Ascends(withLiveBar(base, stateLast))
      <4>1. stateLast \in Candles
        BY <3>1 DEF ChartInv, ChartTypes
      <4>2. stateLast.t \in Int /\ stateLast.t <= stateLast.t
        BY <4>1 DEF Candles
      <4>3. Continues(base, withLiveBar(base, stateLast), stateLast.of, stateLast.t)
        BY <2>2, <4>1, <4>2, OneCandle DEF withLiveBar
      <4>. QED  BY <4>3 DEF Continues
    <3>. QED  BY <2>1, <2>2, <3>1
  <2>4. ChartTypes' /\ CandlesInOrder' /\ AsksOK'
    BY <2>1, <2>3 DEF ChartInv, ChartTypes, CandlesInOrder, AsksOK, Stale
  <2>5. \A t : Behind(t) => Behind(t)'
    BY <2>1, BehindStays
  <2>6. OldestOK' /\ EarlierOK'
    BY <2>1, <2>5 DEF ChartInv, OldestOK, EarlierOK
  <2>. QED  BY <2>4, <2>6 DEF ChartInv
<1>11. CASE BucketOpens
  <2>1. /\ clock' = clock + 1
        /\ UNCHANGED <<shown, shows, asked, bars, oldest, earlier, live, stateBars, stateLast, drawn>>
    BY <1>11 DEF BucketOpens
  <2>2. ChartTypes' /\ CandlesInOrder'
    BY <1>0, <2>1 DEF ChartInv, ChartTypes, CandlesInOrder
  <2>3. AsksOK'
    <3>1. \A a \in asked : a.to \in Int /\ a.to <= clock
      BY DEF ChartInv, ChartTypes, AsksOK
    <3>2. \A a \in asked : a.to <= clock'
      BY <1>0, <2>1, <3>1
    <3>. QED  BY <2>1, <3>2 DEF ChartInv, AsksOK, Stale
  <2>4. \A t \in Int : Behind(t) => Behind(t)'
    BY <1>0, <2>1 DEF Behind, Stale
  <2>5. Trades[shown] \subseteq Int /\ (earlier # NoPage => Trades[earlier.of] \subseteq Int)
    BY <1>0, ChartAssumption DEF ChartInv, ChartTypes
  <2>6. OldestOK'
    BY <2>1, <2>4, <2>5 DEF ChartInv, OldestOK
  <2>7. EarlierOK'
    BY <2>1, <2>4, <2>5 DEF ChartInv, EarlierOK
  <2>. QED  BY <2>2, <2>3, <2>6, <2>7 DEF ChartInv
<1>12. CASE UNCHANGED chartVars
  BY <1>12 DEF chartVars, ChartInv, ChartTypes, CandlesInOrder, AsksOK, OldestOK, EarlierOK, Behind, Stale
<1>. QED
  BY <1>1, <1>2, <1>3, <1>4, <1>5, <1>6, <1>7, <1>8, <1>9, <1>10, <1>11, <1>12 DEF ChartNext

\* The candles of a pane ascend, in the copy the callbacks extend and in what React draws,
\* for any series, hours of trading, pages and frames (use-chart-series.ts:31, :189).
THEOREM HistoryAscends == ChartSpec => []CandlesInOrder
<1>1. ChartInv => CandlesInOrder
  BY DEF ChartInv
<1>. QED  BY ChartInvHolds, ChartInvKept, <1>1, PTL DEF ChartSpec

=============================================================================
