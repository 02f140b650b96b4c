---------------------------- MODULE AccountSync ----------------------------
(***************************************************************************)
(* One tab of the web terminal following one trading account               *)
(* (frontend/src: app/providers/use-account-sync.ts and                    *)
(* use-trade-notifications.ts, stores/trading-store.ts and                 *)
(* session-store.ts, websocket/session-generation.ts, LeverageField.tsx).  *)
(*                                                                         *)
(* The account, its positions and its orders are slices.  Each slice is    *)
(* filled by REST snapshots and by the frames of a WebSocket stream; a     *)
(* change of account starts a new generation, which empties the store,     *)
(* subscribes the streams of the new account and loads a snapshot.         *)
(* JavaScript runs to completion, so an action is a callback: a frame, an  *)
(* answer, a timer or a click.  A slice is a version of the broker's data, *)
(* tagged with the account it is of.                                       *)
(***************************************************************************)
EXTENDS Integers, FiniteSets

CONSTANTS
  Logins, NoLogin,
  Slices,        \* "account", "positions" and perhaps "orders"
  LiveSlices,    \* those whose frames the terminal can apply
  Tickets,       \* login -> its position tickets
  StartOpen,     \* the tickets open at first
  Leverages,
  ReadOnlyLogins,  \* read-only in the list of accounts
  Disabled,        \* external: those the broker disables for trading
  MaxChanges,    \* bound: changes at the broker
  MaxSyncs,      \* bound: generations
  Loads,         \* bound: snapshot requests in flight at a time
  LoadsFail      \* a snapshot request may fail

ASSUME SyncAssumption ==
  /\ NoLogin \notin Logins
  /\ {"account", "positions"} \subseteq Slices /\ LiveSlices \subseteq Slices
  /\ Leverages # {} /\ MaxChanges \in Nat /\ MaxSyncs \in Nat /\ LoadsFail \in BOOLEAN

VARIABLES
  watch,       \* the slices this behaviour looks at; the others are loaded, and stay as they are
  broker,      \* external: login -> slice -> [of, ver, val]
  record,      \* external: login -> [lev, which its frames show later, past tickets]
  login, sync, \* the active account and the generation that follows it
  readOnly,
  tab,         \* the trading store, the memory of the notifier, and (history) whose leverage the
               \* store shows or holds, and whether that came after its account was left
  stream,      \* the slices whose stream is connected
  hasConnected,  \* those whose stream has been, in this generation
  gate,        \* slice -> [open, buffered]
  frame,       \* slice -> the frame on its way to the tab
  load,        \* request -> [out, live, got, after]
  reload,      \* the timer of a reload after a reconnection runs
  lever        \* the leverage field: [phase, login, val]

vars == <<watch, broker, record, login, sync, readOnly, tab, stream, hasConnected, gate, frame, load, reload, lever>>

state == <<broker, record, login, sync, readOnly, tab, stream, hasConnected, gate, frame, load, reload, lever>>

None == [of |-> NoLogin, ver |-> -1, val |-> {}]
NoHold == {}
Total == Cardinality({c \in Logins \X Slices \X (1..MaxChanges) : c[3] <= broker[c[1]][c[2]].ver})

----------------------------------------------------------------------------
\* The trading store.

Open(t) == t.slices["positions"].val
EmptySlices == [s \in Slices |-> None]

\* A confirmed write is held over the frames that do not show it yet.
Reconciled(t, v) ==
  IF t.held \in {NoHold, v.val}
  THEN [t EXCEPT !.slices["account"] = v, !.held = NoHold, !.whose = v.of, !.late = FALSE]
  ELSE [t EXCEPT !.slices["account"] = [v EXCEPT !.val = t.held]]

\* The notifier compares the positions with those it saw last, once it has seen a loaded store:
\* it says "opened" of Open(t) \ t.previous and "closed" of t.previous \ Open(t).
Noticed(t) ==
  IF t.seeded THEN [t EXCEPT !.previous = Open(t)]
  ELSE IF t.pending THEN t ELSE [t EXCEPT !.seeded = TRUE, !.previous = Open(t)]

\* applyAccount, applyPositions and applyOrders, for the slices ss of the values v.
AppliedAll(t, ss, v) ==
  LET a == IF "account" \in ss THEN Reconciled(t, v["account"]) ELSE t
      rest == ss \ {"account"}
  IN  Noticed([a EXCEPT !.slices = [s \in Slices |-> IF s \in rest THEN v[s] ELSE a.slices[s]]])

Applied(t, s, v) == AppliedAll(t, {s}, [x \in {s} |-> v])

LoadEnded(t) == Noticed([t EXCEPT !.pending = FALSE])

\* mutant: the confirmed write stays
ResetButHeld(t) == Noticed([t EXCEPT !.slices = EmptySlices, !.pending = TRUE])

ResetStore(t) ==
  Noticed([t EXCEPT !.slices = EmptySlices, !.held = NoHold, !.pending = TRUE,
                    !.whose = NoLogin, !.late = FALSE])

\* The load that counts has seen these slices applied since it started.
Seen(ld, ss) == [i \in Loads |-> IF ld[i].live THEN [ld[i] EXCEPT !.after = @ \cup ss] ELSE ld[i]]

----------------------------------------------------------------------------
\* The generation.

NewLoad == [out |-> TRUE, live |-> TRUE, got |-> EmptySlices, after |-> {}]
NoLoad == [NewLoad EXCEPT !.out = FALSE, !.live = FALSE]
\* mutant: an older load still counts
SupersededNever(ld) == ld

Superseded(ld) == [i \in Loads |-> [NoLoad EXCEPT !.out = ld[i].out]]

\* loadSnapshots up to its await: the requests go out together.
StartLoad(ld) ==
  \E i \in Loads : ~ld[i].out /\ load' = [Superseded(ld) EXCEPT ![i] = NewLoad]

\* The effect of a new account or symbol naming: the old streams are left, a load starts.
Resync ==
  /\ sync < MaxSyncs
  /\ sync' = sync + 1
  /\ tab' = ResetStore(tab)
  /\ stream' = {}
  /\ hasConnected' = {}
  /\ gate' = [s \in Slices |-> [open |-> FALSE, buffered |-> None]]
  /\ frame' = [s \in Slices |-> None]
  /\ reload' = FALSE
  /\ StartLoad(load)
  /\ UNCHANGED <<broker, record, lever>>

SetActiveAccount(l) ==
  /\ l # login /\ login' = l
  /\ readOnly' = (l \in ReadOnlyLogins)
  /\ Resync

CorrectSuffix == login # NoLogin /\ UNCHANGED <<login, readOnly>> /\ Resync

----------------------------------------------------------------------------
\* Streams.

StreamUp(s) ==
  /\ login # NoLogin /\ s \notin stream
  /\ stream' = stream \cup {s}
  /\ hasConnected' = hasConnected \cup {s}
  /\ reload' = (reload \/ s \in hasConnected)
  /\ UNCHANGED <<broker, record, login, sync, readOnly, tab, gate, frame, load, lever>>

StreamDown(s) ==
  /\ s \in stream
  /\ stream' = stream \ {s}
  /\ frame' = [frame EXCEPT ![s] = None]
  /\ UNCHANGED <<broker, record, login, sync, readOnly, tab, hasConnected, gate, load, reload, lever>>

\* A frame of the active account, until its stream is delivered or dropped.
Emit(s) ==
  /\ s \in stream /\ frame[s] = None
  /\ frame' = [frame EXCEPT ![s] = broker[login][s]]
  /\ UNCHANGED <<broker, record, login, sync, readOnly, tab, stream, hasConnected, gate, load, reload, lever>>

\* Order frames that do not state a side are refused.
Usable(s) == s \in LiveSlices

Receive(s) ==
  /\ frame[s] # None
  /\ frame' = [frame EXCEPT ![s] = None]
  /\ IF ~gate[s].open
     THEN gate' = [gate EXCEPT ![s].buffered = frame[s]] /\ UNCHANGED <<tab, load>>
     ELSE /\ tab' = IF Usable(s) THEN Applied(tab, s, frame[s]) ELSE tab
          /\ load' = IF Usable(s) THEN Seen(load, {s}) ELSE load
          /\ UNCHANGED gate
  /\ UNCHANGED <<broker, record, login, sync, readOnly, stream, hasConnected, reload, lever>>

----------------------------------------------------------------------------
\* Snapshots.

Reconcile ==
  /\ login # NoLogin
  /\ StartLoad(load)
  /\ UNCHANGED <<broker, record, login, sync, readOnly, tab, stream, hasConnected, gate, frame, reload, lever>>

ReloadAfterReconnect ==
  /\ reload /\ reload' = FALSE
  /\ StartLoad(load)
  /\ UNCHANGED <<broker, record, login, sync, readOnly, tab, stream, hasConnected, gate, frame, lever>>

\* The broker reads its books for the requests of a load.
Read(i) ==
  /\ load[i].live /\ load[i].got = EmptySlices
  /\ load' = [load EXCEPT ![i].got = broker[login]]
  /\ UNCHANGED <<broker, record, login, sync, readOnly, tab, stream, hasConnected, gate, frame, reload, lever>>

\* mutant: a snapshot is applied whatever came since it was asked for
FreshAlways(ld) == Slices

Fresh(ld) == {s \in Slices : s \notin ld.after}
Released(ss) == {s \in ss : gate[s].buffered # None /\ Usable(s)}
Opened == [s \in Slices |-> [open |-> TRUE, buffered |-> None]]
FromGates(t) == AppliedAll(t, Released(Slices), [s \in Slices |-> gate[s].buffered])

LoadSucceeds(i) ==
  /\ load[i].out /\ (load[i].live => load[i].got # EmptySlices)
  /\ LET ld == load[i]
         rest == LoadEnded(AppliedAll(tab, Fresh(ld), ld.got))
     IN  IF ld.live
         THEN /\ tab' = FromGates(rest) /\ gate' = Opened
              /\ load' = [Seen(load, Fresh(ld) \cup Released(Slices)) EXCEPT ![i] = NoLoad]
              /\ readOnly' = (login \in ReadOnlyLogins \cup Disabled)
         ELSE load' = [load EXCEPT ![i] = NoLoad] /\ UNCHANGED <<tab, gate, readOnly>>
  /\ UNCHANGED <<broker, record, login, sync, stream, hasConnected, frame, reload, lever>>

LoadFails(i) ==
  /\ LoadsFail /\ load[i].out
  /\ IF load[i].live
     THEN /\ tab' = LoadEnded(FromGates(tab)) /\ gate' = Opened
          /\ load' = [Seen(load, Released(Slices)) EXCEPT ![i] = NoLoad]
     ELSE load' = [load EXCEPT ![i] = NoLoad] /\ UNCHANGED <<tab, gate>>
  /\ UNCHANGED <<broker, record, login, sync, readOnly, stream, hasConnected, frame, reload, lever>>

----------------------------------------------------------------------------
\* Leverage.

\* The dialog offers the other leverages of an account that may trade, one change at a time.
Choosable(v) ==
  login # NoLogin /\ ~readOnly /\ lever.phase = "idle" /\ v # record[login].lev

ConfirmLeverage(v) ==
  /\ "account" \in watch /\ Choosable(v)
  /\ lever' = [phase |-> "sent", login |-> login, val |-> v]
  /\ UNCHANGED <<broker, record, login, sync, readOnly, tab, stream, hasConnected, gate, frame, load, reload>>

RecordLeverage ==
  /\ lever.phase = "sent" /\ Total < MaxChanges
  /\ \A l \in Logins : broker[l]["account"].val = record[l].lev
  /\ record' = [record EXCEPT ![lever.login].lev = lever.val]
  /\ lever' = [lever EXCEPT !.phase = "taken"]
  /\ UNCHANGED <<broker, login, sync, readOnly, tab, stream, hasConnected, gate, frame, load, reload>>

RefuseLeverage ==
  /\ lever.phase = "sent"
  /\ lever' = [lever EXCEPT !.phase = "idle"]
  /\ UNCHANGED <<broker, record, login, sync, readOnly, tab, stream, hasConnected, gate, frame, load, reload>>

\* patchAccount: l's leverage, into whatever account the store then holds.
Patched(t, v, l) ==
  IF t.slices["account"] = None THEN t
  ELSE [t EXCEPT !.slices["account"].val = v, !.held = v, !.whose = l, !.late = l # login]

LeverageAnswered ==
  /\ lever.phase = "taken"
  /\ lever' = [lever EXCEPT !.phase = "idle"]
  /\ tab' = Patched(tab, lever.val, lever.login)
  /\ UNCHANGED <<broker, record, login, sync, readOnly, stream, hasConnected, gate, frame, load, reload>>

\* mutant: held until the broker agrees
HoldForever == FALSE /\ UNCHANGED state

\* After its time to live a write is held no more; the next frame shows the broker's value.
HoldExpires ==
  /\ tab.held # NoHold
  /\ tab' = [tab EXCEPT !.held = NoHold]
  /\ UNCHANGED <<broker, record, login, sync, readOnly, stream, hasConnected, gate, frame, load, reload, lever>>

----------------------------------------------------------------------------
\* The broker.

Changed(l, s, v) == broker' = [broker EXCEPT ![l][s].ver = @ + 1, ![l][s].val = v]

Propagate(l) ==
  /\ broker[l]["account"].val # record[l].lev
  /\ Changed(l, "account", record[l].lev)
  /\ UNCHANGED <<record, login, sync, readOnly, tab, stream, hasConnected, gate, frame, load, reload, lever>>

\* A ticket is opened once.
OpenPosition(l, p) ==
  /\ "positions" \in watch /\ Total < MaxChanges /\ p \in Tickets[l] \ (broker[l]["positions"].val \cup record[l].past)
  /\ Changed(l, "positions", broker[l]["positions"].val \cup {p})
  /\ UNCHANGED <<record, login, sync, readOnly, tab, stream, hasConnected, gate, frame, load, reload, lever>>

ClosePosition(l, p) ==
  /\ "positions" \in watch /\ Total < MaxChanges /\ p \in broker[l]["positions"].val
  /\ Changed(l, "positions", broker[l]["positions"].val \ {p})
  /\ record' = [record EXCEPT ![l].past = @ \cup {p}]
  /\ UNCHANGED <<login, sync, readOnly, tab, stream, hasConnected, gate, frame, load, reload, lever>>

ChangeOrders(l) ==
  /\ "orders" \in watch /\ Total < MaxChanges
  /\ Changed(l, "orders", {})
  /\ UNCHANGED <<record, login, sync, readOnly, tab, stream, hasConnected, gate, frame, load, reload, lever>>

----------------------------------------------------------------------------

\* Signed in, no account active yet, the broker's books as they are.
Init ==
  LET lev == CHOOSE v \in Leverages : TRUE IN
    /\ watch \in {{s} : s \in Slices}
    /\ record = [l \in Logins |-> [lev |-> lev, past |-> {}]]
    /\ broker = [l \in Logins |-> [s \in Slices |->
         [of |-> l, ver |-> 0,
          val |-> IF s = "account" THEN lev ELSE IF s = "positions" THEN Tickets[l] \cap StartOpen ELSE {}]]]
    /\ login = NoLogin /\ sync = 0 /\ readOnly = FALSE
    /\ tab = [slices |-> EmptySlices, held |-> NoHold, pending |-> TRUE, seeded |-> FALSE, previous |-> {},
              whose |-> NoLogin, late |-> FALSE]
    /\ stream = {}
    /\ hasConnected = {}
    /\ gate = [s \in Slices |-> [open |-> FALSE, buffered |-> None]]
    /\ frame = [s \in Slices |-> None]
    /\ load = [i \in Loads |-> NoLoad]
    /\ reload = FALSE
    /\ lever = [phase |-> "idle", login |-> NoLogin, val |-> lev]

Streams == \E s \in watch : StreamUp(s) \/ StreamDown(s) \/ Emit(s) \/ Receive(s)
Snapshots ==
  \/ Reconcile \/ ReloadAfterReconnect
  \/ \E i \in Loads : LoadSucceeds(i) \/ LoadFails(i) \/ Read(i)
Leverage ==
  \/ \E v \in Leverages : ConfirmLeverage(v)
  \/ RecordLeverage \/ RefuseLeverage \/ LeverageAnswered \/ HoldExpires
Broker ==
  \E l \in Logins :
    Propagate(l) \/ ChangeOrders(l) \/ \E p \in Tickets[l] : OpenPosition(l, p) \/ ClosePosition(l, p)
Next ==
  /\ UNCHANGED watch
  /\ (\E l \in Logins : SetActiveAccount(l)) \/ CorrectSuffix \/ Streams \/ Snapshots \/ Leverage \/ Broker

\* The broker and the network serve what is asked of them again and again, and the user and
\* the reconnections do not ask for a new load for ever before the last one is answered.
Fairness ==
  /\ WF_state(\E s \in watch : StreamUp(s))
  /\ SF_state(\E s \in watch : Emit(s)) /\ SF_state(\E s \in watch : Receive(s))
  /\ SF_state(\E i \in Loads : Read(i)) /\ SF_state(\E i \in Loads : load[i].live /\ LoadSucceeds(i))
  /\ \A i \in Loads : WF_state(~load[i].live /\ LoadSucceeds(i))
  /\ WF_state(ReloadAfterReconnect) /\ WF_state(HoldExpires) /\ \A l \in Logins : WF_state(Propagate(l))

Spec == Init /\ [][Next]_vars /\ Fairness

----------------------------------------------------------------------------
\* Properties.

\* Nothing of an account the user has left is shown: not from a frame that was on its way, nor
\* from a snapshot asked for before the switch (isCurrent, the generation of the trading store),
\* nor a leverage confirmed for it, and held, before the switch (resetForAccountSwitch).  One
\* thing is: a change of leverage that is answered after the switch goes into the account shown
\* then (LeverageField's confirm asks not whose it is), until that account's own leverage is
\* applied; nothing else may pass as late.
ShownIsOfTheActiveAccount ==
  /\ \A s \in Slices : tab.slices[s].of \in {login, NoLogin}
  /\ tab.whose \in {login, NoLogin} \/ tab.late

\* A snapshot never replaces a newer frame (shouldApplyRestSnapshot), nor, of two loads, the
\* newer by the older (reconcileSequence).
SnapshotsNeverRegress ==
  [][\A i \in Loads : LoadSucceeds(i) =>
       \A s \in Slices : Released({s}) = {} => tab'.slices[s].ver >= tab.slices[s].ver]_vars

\* Whatever was switched, dropped, patched or loaded out of order, the store comes to agree with
\* the broker once the account stays active and the broker's books stay as they are.
Agrees == login # NoLogin =>
  \A s \in watch \cap LiveSlices : tab.slices[s] = broker[login][s]
Settles == <>[]Agrees

=============================================================================
