------------------------- MODULE AccountSyncProofs -------------------------
(***************************************************************************)
(* What the terminal shows is of the active account, and a snapshot never  *)
(* replaces what is newer, for all accounts, slices, loads and bounds.     *)
(*                                                                         *)
(* The first is not inductive: it rests on what is on its way to the       *)
(* store.  A frame, what a gate buffers and what a load that counts has    *)
(* read are of the active account too, because a new generation drops the  *)
(* first two and no longer counts the third.  The second rests on the      *)
(* versions: nothing of the account is ahead of the broker, and what a     *)
(* load has read is as new as what is shown, but for the slices applied    *)
(* since it started.                                                       *)
(***************************************************************************)
EXTENDS AccountSync, TLAPS

AllTickets == UNION {Tickets[l] : l \in Logins}
Values == Leverages \cup SUBSET AllTickets
Versions == [of : Logins \cup {NoLogin}, ver : Int, val : Values]
Tabs == [slices : [Slices -> Versions], held : Leverages \cup {NoHold},
         pending : BOOLEAN, seeded : BOOLEAN, previous : Values,
         whose : Logins \cup {NoLogin}, late : BOOLEAN]
LoadStates == [out : BOOLEAN, live : BOOLEAN, got : [Slices -> Versions], after : SUBSET Slices]

Types ==
  /\ watch \in SUBSET Slices
  /\ broker \in [Logins -> [Slices -> Versions]]
  /\ record \in [Logins -> [lev : Leverages, past : SUBSET AllTickets]]
  /\ login \in Logins \cup {NoLogin}
  /\ sync \in Nat
  /\ readOnly \in BOOLEAN
  /\ tab \in Tabs
  /\ stream \in SUBSET Slices
  /\ hasConnected \in SUBSET Slices
  /\ gate \in [Slices -> [open : BOOLEAN, buffered : Versions]]
  /\ frame \in [Slices -> Versions]
  /\ load \in [Loads -> LoadStates]
  /\ reload \in BOOLEAN
  /\ lever \in [phase : {"idle", "sent", "taken"}, login : Logins \cup {NoLogin}, val : Leverages]

\* A stream, a timer and a load that counts exist only for an active account.
ActiveFirst ==
  login = NoLogin => stream = {} /\ ~reload /\ \A i \in Loads : ~load[i].live

BooksAreTagged ==
  \A l \in Logins : /\ \A s \in Slices : broker[l][s].of = l
                   /\ broker[l]["positions"].val \in SUBSET AllTickets
GatesAreOfTheAccount == \A s \in Slices : gate[s].buffered.of \in {login, NoLogin}
FramesAreOfTheAccount == \A s \in Slices : frame[s].of \in {login, NoLogin}
LoadsAreOfTheAccount ==
  \A i \in Loads : load[i].live => \A s \in Slices : load[i].got[s].of \in {login, NoLogin}

SyncInv ==
  /\ Types
  /\ ActiveFirst
  /\ BooksAreTagged
  /\ ShownIsOfTheActiveAccount
  /\ GatesAreOfTheAccount
  /\ FramesAreOfTheAccount
  /\ LoadsAreOfTheAccount

USE SyncAssumption

\* What a store shows, and the leverage it holds unless that came late, is of these accounts.
Shows(t, ls) == (\A s \in Slices : t.slices[s].of \in ls) /\ (t.whose \in ls \/ t.late)

LEMMA ShownShows == ShownIsOfTheActiveAccount <=> Shows(tab, {login, NoLogin})
  BY DEF ShownIsOfTheActiveAccount, Shows

----------------------------------------------------------------------------
\* The operators on the trading store.

\* An empty slice is a value like any other.
LEMMA EmptyTyped == None \in Versions /\ None.of = NoLogin /\ EmptySlices \in [Slices -> Versions]
  BY DEF None, EmptySlices, Versions, Values

\* The notifier's memory is no part of what is shown.
LEMMA NoticedKeeps ==
  ASSUME NEW t \in Tabs
  PROVE  /\ Noticed(t) \in Tabs
         /\ Noticed(t).slices = t.slices /\ Noticed(t).whose = t.whose /\ Noticed(t).late = t.late
  BY DEF Noticed, Open, Tabs, Versions

\* A reconciled account is of the account its frame is of, and as new.
LEMMA ReconciledKeeps ==
  ASSUME NEW t \in Tabs, NEW v \in Versions
  PROVE  /\ Reconciled(t, v) \in Tabs
         /\ Reconciled(t, v).slices["account"].of = v.of
         /\ Reconciled(t, v).slices["account"].ver = v.ver
         /\ \A s \in Slices \ {"account"} : Reconciled(t, v).slices[s] = t.slices[s]
         /\ \/ Reconciled(t, v).whose = t.whose /\ Reconciled(t, v).late = t.late
            \/ Reconciled(t, v).whose = v.of
  BY DEF Reconciled, Tabs, Versions, Values, NoHold

\* Applied slices are of the account their values are of and as new, the others as they were.
LEMMA AppliedKeeps ==
  ASSUME NEW t \in Tabs, NEW ss \in SUBSET Slices, NEW v, \A s \in ss : v[s] \in Versions
  PROVE  /\ AppliedAll(t, ss, v) \in Tabs
         /\ \A s \in ss : AppliedAll(t, ss, v).slices[s].of = v[s].of
         /\ \A s \in ss : AppliedAll(t, ss, v).slices[s].ver = v[s].ver
         /\ \A s \in Slices \ ss : AppliedAll(t, ss, v).slices[s] = t.slices[s]
<1> DEFINE a == IF "account" \in ss THEN Reconciled(t, v["account"]) ELSE t
           rest == ss \ {"account"}
           b == [a EXCEPT !.slices = [s \in Slices |-> IF s \in rest THEN v[s] ELSE a.slices[s]]]
<1>1. /\ a \in Tabs
      /\ "account" \in ss => a.slices["account"].of = v["account"].of
      /\ "account" \in ss => a.slices["account"].ver = v["account"].ver
      /\ \A s \in Slices \ {"account"} : a.slices[s] = t.slices[s]
      /\ "account" \notin ss => a = t
  BY ReconciledKeeps
<1> HIDE DEF a
<1>2. b \in Tabs /\ b.slices = [s \in Slices |-> IF s \in rest THEN v[s] ELSE a.slices[s]]
  BY <1>1 DEF Tabs
<1>3. AppliedAll(t, ss, v) = Noticed(b)
  BY DEF AppliedAll, a
<1> HIDE DEF b
<1>4. AppliedAll(t, ss, v) \in Tabs /\ AppliedAll(t, ss, v).slices = b.slices
  BY <1>2, <1>3, NoticedKeeps
<1> QED
  BY <1>1, <1>2, <1>4

\* The leverage the store shows or holds stays whose it is, or becomes the applied account's.
LEMMA AppliedIsWhose ==
  ASSUME NEW t \in Tabs, NEW ss \in SUBSET Slices, NEW v, \A s \in ss : v[s] \in Versions
  PROVE  \/ AppliedAll(t, ss, v).whose = t.whose /\ AppliedAll(t, ss, v).late = t.late
         \/ "account" \in ss /\ AppliedAll(t, ss, v).whose = v["account"].of
<1> DEFINE a == IF "account" \in ss THEN Reconciled(t, v["account"]) ELSE t
           rest == ss \ {"account"}
           b == [a EXCEPT !.slices = [s \in Slices |-> IF s \in rest THEN v[s] ELSE a.slices[s]]]
<1>1. /\ a \in Tabs
      /\ \/ a.whose = t.whose /\ a.late = t.late
         \/ "account" \in ss /\ a.whose = v["account"].of
  <2>1. CASE "account" \in ss
    <3>1. v["account"] \in Versions /\ a = Reconciled(t, v["account"])
      BY <2>1
    <3> QED
      BY <2>1, <3>1, ReconciledKeeps
  <2>2. CASE "account" \notin ss
    BY <2>2
  <2> QED
    BY <2>1, <2>2
<1> HIDE DEF a
<1>2. b \in Tabs /\ b.whose = a.whose /\ b.late = a.late
  BY <1>1 DEF Tabs
<1>3. AppliedAll(t, ss, v) = Noticed(b)
  BY DEF AppliedAll, a
<1> HIDE DEF b
<1> QED
  BY <1>1, <1>2, <1>3, NoticedKeeps

\* The end of a load and an emptied store.
LEMMA LoadEndedKeeps ==
  ASSUME NEW t \in Tabs
  PROVE  /\ LoadEnded(t) \in Tabs
         /\ LoadEnded(t).slices = t.slices /\ LoadEnded(t).whose = t.whose /\ LoadEnded(t).late = t.late
<1> DEFINE e == [t EXCEPT !.pending = FALSE]
<1>1. e \in Tabs /\ e.slices = t.slices /\ e.whose = t.whose /\ e.late = t.late
  BY DEF Tabs
<1>2. LoadEnded(t) = Noticed(e)
  BY DEF LoadEnded
<1> HIDE DEF e
<1> QED
  BY <1>1, <1>2, NoticedKeeps

LEMMA ResetKeeps ==
  ASSUME NEW t \in Tabs
  PROVE  /\ ResetStore(t) \in Tabs
         /\ ResetStore(t).slices = EmptySlices /\ ResetStore(t).whose = NoLogin
<1> DEFINE e == [t EXCEPT !.slices = EmptySlices, !.held = NoHold, !.pending = TRUE,
                          !.whose = NoLogin, !.late = FALSE]
<1>1. e \in Tabs /\ e.slices = EmptySlices /\ e.whose = NoLogin
  BY EmptyTyped DEF Tabs
<1> HIDE DEF e
<1>2. ResetStore(t) = Noticed(e)
  BY DEF ResetStore, e
<1> QED
  BY <1>1, <1>2, NoticedKeeps

\* What the store shows once slices of the account, or empty ones, were applied.
LEMMA AppliedShows ==
  ASSUME NEW t \in Tabs, NEW ss \in SUBSET Slices, NEW v, NEW ls,
         \A s \in ss : v[s] \in Versions /\ v[s].of \in ls,
         Shows(t, ls)
  PROVE  AppliedAll(t, ss, v) \in Tabs /\ Shows(AppliedAll(t, ss, v), ls)
<1>1. \A s \in ss : v[s] \in Versions
  OBVIOUS
<1>2. AppliedAll(t, ss, v) \in Tabs
  BY ONLY <1>1, AppliedKeeps, t \in Tabs, ss \in SUBSET Slices, ZenonT(30)
<1>3. \A s \in ss : AppliedAll(t, ss, v).slices[s].of = v[s].of
  BY ONLY <1>1, AppliedKeeps, t \in Tabs, ss \in SUBSET Slices, ZenonT(30)
<1>4. \A s \in Slices \ ss : AppliedAll(t, ss, v).slices[s] = t.slices[s]
  BY ONLY <1>1, AppliedKeeps, t \in Tabs, ss \in SUBSET Slices, ZenonT(30)
<1>5. \/ AppliedAll(t, ss, v).whose = t.whose /\ AppliedAll(t, ss, v).late = t.late
      \/ "account" \in ss /\ AppliedAll(t, ss, v).whose = v["account"].of
  BY <1>1, AppliedIsWhose
<1> DEFINE after == AppliedAll(t, ss, v)
<1>6. \A s \in Slices : after.slices[s].of \in ls
  BY <1>3, <1>4 DEF Shows
<1>7. after.whose \in ls \/ after.late
  BY <1>5 DEF Shows
<1> HIDE DEF after
<1>8. Shows(after, ls)
  BY <1>6, <1>7 DEF Shows
<1> QED
  BY <1>2, <1>8 DEF after

\* The store after the buffered frames of the gates were released.
LEMMA GatesShow ==
  ASSUME Types, GatesAreOfTheAccount, NEW t \in Tabs,
         Shows(t, {login, NoLogin})
  PROVE  FromGates(t) \in Tabs /\ Shows(FromGates(t), {login, NoLogin})
<1> DEFINE v == [s \in Slices |-> gate[s].buffered]
           ss == Released(Slices)
<1>1. ss \in SUBSET Slices
  BY DEF Released
<1>2. \A s \in ss : v[s] \in Versions /\ v[s].of \in {login, NoLogin}
  BY <1>1 DEF Types, GatesAreOfTheAccount
<1>3. FromGates(t) = AppliedAll(t, ss, v)
  BY DEF FromGates
<1> HIDE DEF v, ss
<1> QED
  BY <1>1, <1>2, <1>3, AppliedShows

----------------------------------------------------------------------------
\* The requests of loads.

\* Slices seen since a load started change nothing else of it.
LEMMA SeenKeeps ==
  ASSUME NEW ld \in [Loads -> LoadStates], NEW ss \in SUBSET Slices
  PROVE  /\ Seen(ld, ss) \in [Loads -> LoadStates]
         /\ \A i \in Loads : Seen(ld, ss)[i].live = ld[i].live /\ Seen(ld, ss)[i].got = ld[i].got
  BY DEF Seen, LoadStates

\* A load that starts is the only one that counts, and has read nothing.
LEMMA StartKeeps ==
  ASSUME Types, StartLoad(load)
  PROVE  /\ load' \in [Loads -> LoadStates]
         /\ \A i \in Loads : load'[i].live => load'[i].got = EmptySlices
<1>1. PICK i \in Loads : load' = [Superseded(load) EXCEPT ![i] = NewLoad]
  BY DEF StartLoad
<1>2. NewLoad \in LoadStates /\ NewLoad.got = EmptySlices
  BY EmptyTyped DEF NewLoad, LoadStates
<1>3. /\ Superseded(load) \in [Loads -> LoadStates]
      /\ \A j \in Loads : ~Superseded(load)[j].live
  BY <1>2 DEF Superseded, NoLoad, LoadStates, Types, NewLoad
<1> QED
  BY <1>1, <1>2, <1>3

----------------------------------------------------------------------------
\* The initial state and the steps.

LEMMA InitInv == Init => SyncInv
<1> SUFFICES ASSUME Init PROVE SyncInv
  OBVIOUS
<1> DEFINE lev == CHOOSE v \in Leverages : TRUE
<1>1. lev \in Leverages
  OBVIOUS
<1> HIDE DEF lev
<1>2. Types
  <2>1. broker \in [Logins -> [Slices -> Versions]]
    <3>1. ASSUME NEW l \in Logins, NEW s \in Slices
          PROVE  [of |-> l, ver |-> 0,
                  val |-> IF s = "account" THEN lev
                          ELSE IF s = "positions" THEN Tickets[l] \cap StartOpen ELSE {}] \in Versions
      <4>1. Tickets[l] \cap StartOpen \in Values /\ {} \in Values /\ lev \in Values
        BY <1>1 DEF Values, AllTickets
      <4> QED
        BY <4>1 DEF Versions
    <3> QED
      BY <3>1 DEF Init, lev
  <2>2. record \in [Logins -> [lev : Leverages, past : SUBSET AllTickets]]
    BY <1>1 DEF Init, lev
  <2>3. tab \in Tabs
    BY EmptyTyped DEF Init, Tabs, NoHold, Values
  <2>4. load \in [Loads -> LoadStates]
    BY EmptyTyped DEF Init, NoLoad, NewLoad, LoadStates
  <2>5. lever \in [phase : {"idle", "sent", "taken"}, login : Logins \cup {NoLogin}, val : Leverages]
    BY <1>1 DEF Init, lev
  <2>6. /\ gate \in [Slices -> [open : BOOLEAN, buffered : Versions]]
        /\ frame \in [Slices -> Versions]
    BY EmptyTyped DEF Init
  <2>7. /\ watch \in SUBSET Slices /\ login \in Logins \cup {NoLogin} /\ sync \in Nat
        /\ readOnly \in BOOLEAN /\ reload \in BOOLEAN
        /\ stream \in SUBSET Slices /\ hasConnected \in SUBSET Slices
    BY DEF Init
  <2> QED
    BY <2>1, <2>2, <2>3, <2>4, <2>5, <2>6, <2>7 DEF Types
<1>3. ActiveFirst
  BY DEF Init, ActiveFirst, NoLoad, NewLoad
<1>4. BooksAreTagged
  BY DEF Init, BooksAreTagged, AllTickets
<1>5. ShownIsOfTheActiveAccount
  BY DEF Init, ShownIsOfTheActiveAccount, EmptySlices, None
<1>6. GatesAreOfTheAccount /\ FramesAreOfTheAccount
  BY DEF Init, GatesAreOfTheAccount, FramesAreOfTheAccount, None
<1>7. LoadsAreOfTheAccount
  BY DEF Init, LoadsAreOfTheAccount, NoLoad, NewLoad
<1> QED
  BY <1>2, <1>3, <1>4, <1>5, <1>6, <1>7 DEF SyncInv

\* A new generation drops or no longer counts all that was on its way.
LEMMA ResyncInv ==
  ASSUME SyncInv, Resync, login' \in Logins, readOnly' \in BOOLEAN, UNCHANGED watch
  PROVE  SyncInv'
<1>1. tab' \in Tabs /\ tab'.slices = EmptySlices /\ tab'.whose = NoLogin
  BY ResetKeeps DEF SyncInv, Types, Resync
<1>2. /\ load' \in [Loads -> LoadStates]
      /\ \A i \in Loads : load'[i].live => load'[i].got = EmptySlices
  BY StartKeeps DEF SyncInv, Resync
<1>3. /\ gate' = [s \in Slices |-> [open |-> FALSE, buffered |-> None]]
      /\ frame' = [s \in Slices |-> None]
      /\ sync' = sync + 1 /\ stream' = {} /\ hasConnected' = {} /\ reload' = FALSE
      /\ UNCHANGED <<broker, record, lever>>
  BY DEF Resync
<1>4. Types'
  <2>1. /\ gate' \in [Slices -> [open : BOOLEAN, buffered : Versions]]
        /\ frame' \in [Slices -> Versions]
    BY <1>3, EmptyTyped
  <2>2. reload' \in BOOLEAN /\ stream' \in SUBSET Slices /\ hasConnected' \in SUBSET Slices
    BY <1>3
  <2>3. Types
    BY DEF SyncInv
  <2>4. sync' \in Nat
    BY <1>3, <2>3 DEF Types
  <2> QED
    BY <1>1, <1>2, <1>3, <2>1, <2>2, <2>3, <2>4 DEF Types
<1>5. ActiveFirst'
  BY DEF ActiveFirst
<1>6. BooksAreTagged'
  BY <1>3 DEF SyncInv, BooksAreTagged
<1>7. ShownIsOfTheActiveAccount'
  BY <1>1 DEF ShownIsOfTheActiveAccount, EmptySlices, None
<1>8. GatesAreOfTheAccount' /\ FramesAreOfTheAccount'
  BY <1>3 DEF GatesAreOfTheAccount, FramesAreOfTheAccount, None
<1>9. LoadsAreOfTheAccount'
  BY <1>2 DEF LoadsAreOfTheAccount, EmptySlices, None
<1> QED
  BY <1>4, <1>5, <1>6, <1>7, <1>8, <1>9 DEF SyncInv

\* The frames of the streams.
LEMMA StreamsInv ==
  ASSUME SyncInv, Streams, UNCHANGED watch
  PROVE  SyncInv'
<1>0. Types
  BY DEF SyncInv
<1>1. PICK s \in Slices : StreamUp(s) \/ StreamDown(s) \/ Emit(s) \/ Receive(s)
  BY <1>0 DEF Streams, Types
<1>2. CASE StreamUp(s)
  <2>1. Types'
    BY <1>0, <1>2 DEF StreamUp, Types
  <2>2. ActiveFirst'
    BY <1>2 DEF StreamUp, ActiveFirst
  <2> QED
    BY <1>2, <2>1, <2>2 DEF SyncInv, StreamUp, BooksAreTagged, ShownIsOfTheActiveAccount,
      GatesAreOfTheAccount, FramesAreOfTheAccount, LoadsAreOfTheAccount
<1>3. CASE StreamDown(s)
  <2>1. Types'
    BY <1>0, <1>3, EmptyTyped DEF StreamDown, Types
  <2>2. ActiveFirst'
    BY <1>3 DEF SyncInv, StreamDown, ActiveFirst
  <2>3. FramesAreOfTheAccount'
    BY <1>0, <1>3, EmptyTyped DEF SyncInv, StreamDown, FramesAreOfTheAccount, Types
  <2> QED
    BY <1>3, <2>1, <2>2, <2>3 DEF SyncInv, StreamDown, BooksAreTagged, ShownIsOfTheActiveAccount,
      GatesAreOfTheAccount, LoadsAreOfTheAccount
<1>4. CASE Emit(s)
  <2>1. login \in Logins
    BY <1>0, <1>4 DEF SyncInv, Emit, ActiveFirst, Types
  <2>2. Types'
    BY <1>0, <1>4, <2>1 DEF Emit, Types
  <2>3. FramesAreOfTheAccount'
    BY <1>0, <1>4, <2>1 DEF SyncInv, Emit, FramesAreOfTheAccount, BooksAreTagged, Types
  <2> QED
    BY <1>4, <2>2, <2>3 DEF SyncInv, Emit, ActiveFirst, BooksAreTagged, ShownIsOfTheActiveAccount,
      GatesAreOfTheAccount, LoadsAreOfTheAccount
<1>5. CASE Receive(s)
  <2> DEFINE v == [x \in {s} |-> frame[s]]
  <2>1. frame[s] \in Versions /\ frame[s].of \in {login, NoLogin}
    BY <1>0 DEF SyncInv, Types, FramesAreOfTheAccount
  <2>2. frame' \in [Slices -> Versions] /\ FramesAreOfTheAccount'
    BY <1>0, <1>5, EmptyTyped DEF SyncInv, Receive, FramesAreOfTheAccount, Types
  <2>3. gate' \in [Slices -> [open : BOOLEAN, buffered : Versions]] /\ GatesAreOfTheAccount'
    <3>1. CASE gate[s].open
      BY <1>0, <1>5, <3>1 DEF SyncInv, Receive, GatesAreOfTheAccount, Types
    <3>2. CASE ~gate[s].open
      <4>1. gate' = [gate EXCEPT ![s].buffered = frame[s]] /\ UNCHANGED login
        BY <1>5, <3>2 DEF Receive
      <4> QED
        BY <1>0, <2>1, <4>1, ZenonT(30) DEF SyncInv, GatesAreOfTheAccount, Types
    <3> QED
      BY <3>1, <3>2
  <2>4. tab' \in Tabs /\ ShownIsOfTheActiveAccount'
    <3>1. Applied(tab, s, frame[s]) = AppliedAll(tab, {s}, v)
      BY DEF Applied
    <3>2. /\ Applied(tab, s, frame[s]) \in Tabs
          /\ Shows(Applied(tab, s, frame[s]), {login, NoLogin})
      <4>1. tab \in Tabs /\ Shows(tab, {login, NoLogin})
        BY <1>0, ShownShows DEF SyncInv, Types
      <4>2. \A x \in {s} : v[x] \in Versions /\ v[x].of \in {login, NoLogin}
        BY <2>1
      <4>3. {s} \in SUBSET Slices
        OBVIOUS
      <4> HIDE DEF v
      <4>4. /\ AppliedAll(tab, {s}, v) \in Tabs
            /\ Shows(AppliedAll(tab, {s}, v), {login, NoLogin})
        BY <4>1, <4>2, <4>3, AppliedShows
      <4> QED
        BY <3>1, <4>4
    <3>3. tab' \in {tab, Applied(tab, s, frame[s])} /\ UNCHANGED login
      BY <1>5 DEF Receive
    <3> QED
      BY <1>0, <3>2, <3>3 DEF SyncInv, Types, ShownIsOfTheActiveAccount, Shows
  <2>5. /\ load' \in [Loads -> LoadStates]
        /\ \A i \in Loads : load'[i].live = load[i].live /\ load'[i].got = load[i].got
    <3>1. {s} \in SUBSET Slices
      OBVIOUS
    <3>2. load \in [Loads -> LoadStates]
      BY <1>0 DEF Types
    <3>3. load' \in {load, Seen(load, {s})}
      BY <1>5 DEF Receive
    <3> QED
      BY <3>1, <3>2, <3>3, SeenKeeps
  <2>6. UNCHANGED <<broker, record, login, sync, readOnly, stream, hasConnected, reload, lever>>
    BY <1>5 DEF Receive
  <2>7. Types'
    BY <1>0, <2>2, <2>3, <2>4, <2>5, <2>6 DEF Types
  <2> QED
    BY <2>2, <2>3, <2>4, <2>5, <2>6, <2>7 DEF SyncInv, ActiveFirst, BooksAreTagged, LoadsAreOfTheAccount
<1> QED
  BY <1>1, <1>2, <1>3, <1>4, <1>5

\* Asking for a snapshot, and the timer that does.
LEMMA AskingInv ==
  ASSUME SyncInv, Reconcile \/ ReloadAfterReconnect, UNCHANGED watch
  PROVE  SyncInv'
<1>0. Types
  BY DEF SyncInv
<1>1. /\ StartLoad(load) /\ login # NoLogin /\ reload' \in BOOLEAN
      /\ UNCHANGED <<broker, record, login, sync, readOnly, tab, stream, hasConnected, gate, frame, lever>>
  BY <1>0 DEF SyncInv, Reconcile, ReloadAfterReconnect, ActiveFirst, Types
<1>2. /\ load' \in [Loads -> LoadStates]
      /\ \A i \in Loads : load'[i].live => load'[i].got = EmptySlices
  BY <1>0, <1>1, StartKeeps
<1>3. Types'
  BY <1>0, <1>1, <1>2 DEF Types
<1>4. LoadsAreOfTheAccount'
  BY <1>2 DEF LoadsAreOfTheAccount, EmptySlices, None
<1> QED
  BY <1>1, <1>3, <1>4 DEF SyncInv, ActiveFirst, BooksAreTagged, ShownIsOfTheActiveAccount,
    GatesAreOfTheAccount, FramesAreOfTheAccount

\* The broker's answers to the requests of a load.
LEMMA ReadInv ==
  ASSUME SyncInv, NEW i \in Loads, Read(i), UNCHANGED watch
  PROVE  SyncInv'
<1>0. Types
  BY DEF SyncInv
<1>1. login \in Logins
  BY <1>0 DEF SyncInv, Read, ActiveFirst, Types
<1>2. Types'
  <2>1. load' \in [Loads -> LoadStates]
    BY <1>0, <1>1, ZenonT(30) DEF Read, Types, LoadStates
  <2> QED
    BY <1>0, <2>1 DEF Read, Types
<1>3. LoadsAreOfTheAccount'
  BY <1>0, <1>1 DEF SyncInv, Read, LoadsAreOfTheAccount, BooksAreTagged, Types, LoadStates
<1> QED
  BY <1>0, <1>1, <1>2, <1>3 DEF SyncInv, Read, ActiveFirst, BooksAreTagged, ShownIsOfTheActiveAccount,
    GatesAreOfTheAccount, FramesAreOfTheAccount, Types

\* The first load of a generation that is answered opens the gates; a load that no longer counts
\* leaves the store alone.
LEMMA LoadSucceedsInv ==
  ASSUME SyncInv, NEW i \in Loads, LoadSucceeds(i), UNCHANGED watch
  PROVE  SyncInv'
<1>0. Types /\ NoLoad \in LoadStates /\ ~NoLoad.live
  BY EmptyTyped DEF SyncInv, NoLoad, NewLoad, LoadStates
<1>1. UNCHANGED <<broker, record, login, sync, stream, hasConnected, frame, reload, lever>>
  BY DEF LoadSucceeds
<1>2. CASE ~load[i].live
  <2>1. load' = [load EXCEPT ![i] = NoLoad] /\ UNCHANGED <<tab, gate, readOnly>>
    BY <1>2 DEF LoadSucceeds
  <2>2. Types'
    BY <1>0, <1>1, <2>1 DEF Types
  <2> QED
    BY <1>0, <1>1, <2>1, <2>2 DEF SyncInv, ActiveFirst, BooksAreTagged, ShownIsOfTheActiveAccount,
      GatesAreOfTheAccount, FramesAreOfTheAccount, LoadsAreOfTheAccount, Types
<1>3. CASE load[i].live
  <2> DEFINE ld == load[i]
             got == AppliedAll(tab, Fresh(ld), ld.got)
             rest == LoadEnded(got)
             seen == Fresh(ld) \cup Released(Slices)
  <2>1. /\ tab' = FromGates(rest) /\ gate' = Opened
        /\ load' = [Seen(load, seen) EXCEPT ![i] = NoLoad]
        /\ readOnly' = (login \in ReadOnlyLogins \cup Disabled)
    BY <1>3 DEF LoadSucceeds
  <2>2. /\ tab \in Tabs /\ Shows(tab, {login, NoLogin})
        /\ ld \in LoadStates /\ \A s \in Slices : ld.got[s].of \in {login, NoLogin}
    BY <1>0, <1>3, ShownShows DEF SyncInv, Types, LoadsAreOfTheAccount
  <2>3. /\ Fresh(ld) \in SUBSET Slices /\ seen \in SUBSET Slices
        /\ \A s \in Fresh(ld) : ld.got[s] \in Versions /\ ld.got[s].of \in {login, NoLogin}
    BY <2>2 DEF Fresh, Released, LoadStates
  <2> HIDE DEF ld, seen
  <2>4. got \in Tabs /\ Shows(got, {login, NoLogin})
    BY <2>2, <2>3, AppliedShows
  <2> HIDE DEF got
  <2>5. rest \in Tabs /\ Shows(rest, {login, NoLogin})
    BY <2>4, LoadEndedKeeps DEF Shows
  <2> HIDE DEF rest
  <2>6. tab' \in Tabs /\ Shows(tab', {login, NoLogin})
    BY <1>0, <2>1, <2>5, GatesShow DEF SyncInv
  <2>7. gate' \in [Slices -> [open : BOOLEAN, buffered : Versions]] /\ GatesAreOfTheAccount'
    BY <2>1, EmptyTyped DEF Opened, GatesAreOfTheAccount
  <2>8. /\ load' \in [Loads -> LoadStates]
        /\ \A j \in Loads : load'[j].live => load[j].live /\ load'[j].got = load[j].got
    <3>1. load \in [Loads -> LoadStates]
      BY <1>0 DEF Types
    <3>2. /\ Seen(load, seen) \in [Loads -> LoadStates]
          /\ \A j \in Loads : Seen(load, seen)[j].live = load[j].live /\ Seen(load, seen)[j].got = load[j].got
      BY <2>3, <3>1, SeenKeeps
    <3> QED
      BY <1>0, <2>1, <3>2
  <2>9. readOnly' \in BOOLEAN
    BY <2>1
  <2>10. Types'
    BY <1>0, <1>1, <2>6, <2>7, <2>8, <2>9 DEF Types
  <2> QED
    BY <1>1, <2>6, <2>7, <2>8, <2>10 DEF SyncInv, ActiveFirst, BooksAreTagged, ShownIsOfTheActiveAccount, Shows,
      FramesAreOfTheAccount, LoadsAreOfTheAccount
<1> QED
  BY <1>2, <1>3

LEMMA LoadFailsInv ==
  ASSUME SyncInv, NEW i \in Loads, LoadFails(i), UNCHANGED watch
  PROVE  SyncInv'
<1>0. Types /\ NoLoad \in LoadStates /\ ~NoLoad.live
  BY EmptyTyped DEF SyncInv, NoLoad, NewLoad, LoadStates
<1>1. UNCHANGED <<broker, record, login, sync, readOnly, stream, hasConnected, frame, reload, lever>>
  BY DEF LoadFails
<1>2. CASE ~load[i].live
  <2>1. load' = [load EXCEPT ![i] = NoLoad] /\ UNCHANGED <<tab, gate>>
    BY <1>2 DEF LoadFails
  <2>2. Types'
    BY <1>0, <1>1, <2>1 DEF Types
  <2> QED
    BY <1>0, <1>1, <2>1, <2>2 DEF SyncInv, ActiveFirst, BooksAreTagged, ShownIsOfTheActiveAccount,
      GatesAreOfTheAccount, FramesAreOfTheAccount, LoadsAreOfTheAccount, Types
<1>3. CASE load[i].live
  <2> DEFINE rest == FromGates(tab)
             seen == Released(Slices)
  <2>1. /\ tab' = LoadEnded(rest) /\ gate' = Opened
        /\ load' = [Seen(load, seen) EXCEPT ![i] = NoLoad]
    BY <1>3 DEF LoadFails
  <2>2. seen \in SUBSET Slices
    BY DEF Released
  <2> HIDE DEF seen
  <2>3. rest \in Tabs /\ Shows(rest, {login, NoLogin})
    BY <1>0, GatesShow, ShownShows DEF SyncInv, Types
  <2> HIDE DEF rest
  <2>4. tab' \in Tabs /\ Shows(tab', {login, NoLogin})
    BY <2>1, <2>3, LoadEndedKeeps DEF Shows
  <2>5. gate' \in [Slices -> [open : BOOLEAN, buffered : Versions]] /\ GatesAreOfTheAccount'
    BY <2>1, EmptyTyped DEF Opened, GatesAreOfTheAccount
  <2>6. /\ load' \in [Loads -> LoadStates]
        /\ \A j \in Loads : load'[j].live => load[j].live /\ load'[j].got = load[j].got
    <3>1. load \in [Loads -> LoadStates]
      BY <1>0 DEF Types
    <3>2. /\ Seen(load, seen) \in [Loads -> LoadStates]
          /\ \A j \in Loads : Seen(load, seen)[j].live = load[j].live /\ Seen(load, seen)[j].got = load[j].got
      BY <2>2, <3>1, SeenKeeps
    <3> QED
      BY <1>0, <2>1, <3>2
  <2>7. Types'
    BY <1>0, <1>1, <2>4, <2>5, <2>6 DEF Types
  <2> QED
    BY <1>1, <2>4, <2>5, <2>6, <2>7 DEF SyncInv, ActiveFirst, BooksAreTagged, ShownIsOfTheActiveAccount, Shows,
      FramesAreOfTheAccount, LoadsAreOfTheAccount
<1> QED
  BY <1>2, <1>3

\* A change of leverage patches whatever account is shown when it is answered, and is late when
\* its own account was left.
LEMMA LeverageInv ==
  ASSUME SyncInv, Leverage, UNCHANGED watch
  PROVE  SyncInv'
<1>0. Types
  BY DEF SyncInv
<1>1. /\ tab' \in Tabs
      /\ \A s \in Slices : tab'.slices[s].of = tab.slices[s].of
      /\ \/ tab'.whose = tab.whose /\ tab'.late = tab.late
         \/ tab'.whose = login \/ tab'.late
  <2>1. CASE LeverageAnswered
    <3>1. /\ tab' = Patched(tab, lever.val, lever.login) /\ lever.val \in Leverages /\ tab \in Tabs
          /\ lever.login \in Logins \cup {NoLogin}
      BY <1>0, <2>1 DEF LeverageAnswered, Types
    <3>2. CASE tab.slices["account"] = None
      BY <3>1, <3>2 DEF Patched
    <3>3. CASE tab.slices["account"] # None
      <4> DEFINE w == lever.val
                 l == lever.login
      <4>1. /\ tab' = [tab EXCEPT !.slices["account"].val = w, !.held = w, !.whose = l, !.late = l # login]
            /\ w \in Leverages /\ w \in Values /\ l \in Logins \cup {NoLogin}
        BY <3>1, <3>3 DEF Patched, Values
      <4> HIDE DEF w, l
      <4>2. tab' \in Tabs
        <5> DEFINE x == [tab.slices["account"] EXCEPT !.val = w]
                   slices == [tab.slices EXCEPT !["account"] = x]
        <5>1. tab.slices \in [Slices -> Versions] /\ tab.slices["account"] \in Versions
          BY <3>1 DEF Tabs
        <5>2. x \in Versions
          BY <4>1, <5>1 DEF Versions
        <5>3. tab' = [tab EXCEPT !.slices = slices, !.held = w, !.whose = l, !.late = l # login]
          BY <3>1, <4>1 DEF Tabs
        <5> HIDE DEF x
        <5>4. slices \in [Slices -> Versions]
          BY <5>1, <5>2
        <5> HIDE DEF slices
        <5> QED
          BY <3>1, <4>1, <5>3, <5>4 DEF Tabs
      <4>3. \A s \in Slices : tab'.slices[s].of = tab.slices[s].of
        BY <3>1, <4>1 DEF Tabs, Versions
      <4>4. tab'.whose = l /\ tab'.late = (l # login)
        BY <3>1, <4>1 DEF Tabs
      <4> QED
        BY <4>2, <4>3, <4>4
    <3> QED
      BY <3>2, <3>3
  <2>2. CASE HoldExpires
    BY <1>0, <2>2 DEF HoldExpires, Types, Tabs
  <2>3. CASE ~LeverageAnswered /\ ~HoldExpires
    BY <1>0, <2>3 DEF Leverage, ConfirmLeverage, RecordLeverage, RefuseLeverage, Types
  <2> QED
    BY <2>1, <2>2, <2>3
<1>2. lever' \in [phase : {"idle", "sent", "taken"}, login : Logins \cup {NoLogin}, val : Leverages]
  <2>1. \A v \in Leverages : ConfirmLeverage(v) =>
          lever' \in [phase : {"idle", "sent", "taken"}, login : Logins \cup {NoLogin}, val : Leverages]
    BY <1>0 DEF ConfirmLeverage, Types
  <2> QED
    BY <1>0, <2>1 DEF Leverage, RecordLeverage, RefuseLeverage, LeverageAnswered, HoldExpires, Types
<1>3. record' \in [Logins -> [lev : Leverages, past : SUBSET AllTickets]]
  <2>1. CASE RecordLeverage
    <3>1. /\ record' = [record EXCEPT ![lever.login].lev = lever.val]
          /\ lever.val \in Leverages
          /\ record \in [Logins -> [lev : Leverages, past : SUBSET AllTickets]]
      BY <1>0, <2>1 DEF RecordLeverage, Types
    <3> QED
      BY <3>1
  <2>2. CASE ~RecordLeverage
    BY <1>0, <2>2 DEF Leverage, ConfirmLeverage, RefuseLeverage, LeverageAnswered, HoldExpires, Types
  <2> QED
    BY <2>1, <2>2
<1>4. UNCHANGED <<broker, login, sync, readOnly, stream, hasConnected, gate, frame, load, reload>>
  BY DEF Leverage, ConfirmLeverage, RecordLeverage, RefuseLeverage, LeverageAnswered, HoldExpires
<1>5. Types'
  BY <1>0, <1>1, <1>2, <1>3, <1>4 DEF Types
<1> QED
  BY <1>1, <1>4, <1>5 DEF SyncInv, ActiveFirst, BooksAreTagged, ShownIsOfTheActiveAccount,
    GatesAreOfTheAccount, FramesAreOfTheAccount, LoadsAreOfTheAccount

\* The next version of a slice.
LEMMA NextVersion ==
  ASSUME NEW w \in Versions, NEW n \in Int, NEW v \in Values
  PROVE  /\ [w EXCEPT !.ver = n, !.val = v] \in Versions
         /\ [w EXCEPT !.ver = n, !.val = v].of = w.of
         /\ [w EXCEPT !.ver = n, !.val = v].val = v
<1>1. [w EXCEPT !.ver = n, !.val = v] \in Versions
  BY DEF Versions
<1>2. [w EXCEPT !.ver = n, !.val = v].of = w.of
  BY DEF Versions
<1>3. [w EXCEPT !.ver = n, !.val = v].val = v
  BY DEF Versions
<1> QED
  BY <1>1, <1>2, <1>3

\* A new version of a slice in the broker's books is of the same account.
LEMMA ChangedKeeps ==
  ASSUME Types, BooksAreTagged, NEW l \in Logins, NEW s \in Slices, NEW v \in Values, Changed(l, s, v),
         s = "positions" => v \in SUBSET AllTickets
  PROVE  broker' \in [Logins -> [Slices -> Versions]] /\ BooksAreTagged'
<1> DEFINE new == [broker[l][s] EXCEPT !.ver = broker[l][s].ver + 1, !.val = v]
<1>1. broker' = [broker EXCEPT ![l][s].ver = @ + 1, ![l][s].val = v]
  BY DEF Changed
<1>2. broker \in [Logins -> [Slices -> Versions]] /\ broker[l][s] \in Versions /\ broker[l][s].of = l
  BY DEF Types, BooksAreTagged
<1>3. broker' = [broker EXCEPT ![l][s] = new]
  <2>1. DOMAIN broker' = Logins /\ \A k \in Logins \ {l} : broker'[k] = broker[k]
    BY <1>1, <1>2
  <2>2. broker'[l] = [broker[l] EXCEPT ![s] = new]
    BY <1>1, <1>2
  <2>3. broker' = [k \in Logins |-> broker'[k]]
    BY <1>1, <1>2
  <2> HIDE DEF new
  <2> QED
    BY <1>2, <2>1, <2>2, <2>3
<1>4. new \in Versions /\ new.of = l /\ new.val = v
  <2>1. broker[l][s].ver + 1 \in Int
    BY <1>2 DEF Versions
  <2>2. broker[l][s] \in Versions /\ broker[l][s].of = l
    BY <1>2
  <2> DEFINE w == broker[l][s]
             n == broker[l][s].ver + 1
  <2>3. w \in Versions /\ w.of = l /\ n \in Int /\ new = [w EXCEPT !.ver = n, !.val = v]
    BY <2>1, <2>2
  <2> HIDE DEF w, n, new
  <2>4. v \in Values
    OBVIOUS
  <2>5. /\ [w EXCEPT !.ver = n, !.val = v] \in Versions
        /\ [w EXCEPT !.ver = n, !.val = v].of = w.of
        /\ [w EXCEPT !.ver = n, !.val = v].val = v
    <3>1. w \in Versions /\ n \in Int
      BY <2>3
    <3> QED
      BY ONLY <2>4, <3>1, NextVersion, ZenonT(30)
  <2> QED
    BY <2>3, <2>5
<1> HIDE DEF new
<1>5. broker' \in [Logins -> [Slices -> Versions]]
  BY <1>2, <1>3, <1>4
<1>6. \A k \in Logins, x \in Slices :
        broker'[k][x] = IF k = l /\ x = s THEN new ELSE broker[k][x]
  BY <1>2, <1>3
<1>7. BooksAreTagged'
  BY <1>4, <1>6 DEF BooksAreTagged
<1> QED
  BY <1>5, <1>7

LEMMA BrokerInv ==
  ASSUME SyncInv, Broker, UNCHANGED watch
  PROVE  SyncInv'
<1>0. Types /\ BooksAreTagged
  BY DEF SyncInv
<1>1. PICK l \in Logins :
        Propagate(l) \/ ChangeOrders(l) \/ \E p \in Tickets[l] : OpenPosition(l, p) \/ ClosePosition(l, p)
  BY DEF Broker
<1>2. UNCHANGED <<login, sync, readOnly, tab, stream, hasConnected, gate, frame, load, reload, lever>>
  BY <1>1 DEF Propagate, ChangeOrders, OpenPosition, ClosePosition
<1>3. /\ broker' \in [Logins -> [Slices -> Versions]] /\ BooksAreTagged'
      /\ record' \in [Logins -> [lev : Leverages, past : SUBSET AllTickets]]
  <2>1. CASE Propagate(l)
    <3>1. record[l].lev \in Values
      BY <1>0 DEF Types, Values
    <3> QED
      BY <1>0, <2>1, <3>1, ChangedKeeps DEF Propagate, Types
  <2>2. CASE ChangeOrders(l)
    <3>1. {} \in Values /\ "orders" \in Slices
      BY <1>0, <2>2 DEF ChangeOrders, Types, Values
    <3> QED
      BY <1>0, <2>2, <3>1, ChangedKeeps DEF ChangeOrders, Types
  <2>3. ASSUME NEW p \in Tickets[l], OpenPosition(l, p) \/ ClosePosition(l, p)
        PROVE  /\ broker' \in [Logins -> [Slices -> Versions]] /\ BooksAreTagged'
               /\ record' \in [Logins -> [lev : Leverages, past : SUBSET AllTickets]]
    <3>1. p \in AllTickets /\ broker[l]["positions"].val \in SUBSET AllTickets
      BY <1>0 DEF BooksAreTagged, AllTickets
    <3>2. /\ broker[l]["positions"].val \cup {p} \in Values \cap SUBSET AllTickets
          /\ broker[l]["positions"].val \ {p} \in Values \cap SUBSET AllTickets
      BY <3>1 DEF Values
    <3>3. broker' \in [Logins -> [Slices -> Versions]] /\ BooksAreTagged'
      <4>1. CASE OpenPosition(l, p)
        BY <1>0, <3>2, <4>1, ChangedKeeps DEF OpenPosition
      <4>2. CASE ClosePosition(l, p)
        BY <1>0, <3>2, <4>2, ChangedKeeps DEF ClosePosition
      <4> QED
        BY <2>3, <4>1, <4>2
    <3>4. record' \in {record, [record EXCEPT ![l].past = @ \cup {p}]}
      BY <2>3 DEF OpenPosition, ClosePosition
    <3>5. record' \in [Logins -> [lev : Leverages, past : SUBSET AllTickets]]
      <4>1. record \in [Logins -> [lev : Leverages, past : SUBSET AllTickets]]
        BY <1>0 DEF Types
      <4>2. CASE record' = [record EXCEPT ![l].past = @ \cup {p}]
        BY <3>1, <4>1, <4>2
      <4> QED
        BY <3>4, <4>1, <4>2
    <3> QED
      BY <3>3, <3>5
  <2> QED
    BY <1>1, <2>1, <2>2, <2>3
<1>4. Types'
  BY <1>0, <1>2, <1>3 DEF Types
<1> QED
  BY <1>2, <1>3, <1>4 DEF SyncInv, ActiveFirst, ShownIsOfTheActiveAccount,
    GatesAreOfTheAccount, FramesAreOfTheAccount, LoadsAreOfTheAccount

----------------------------------------------------------------------------
\* The specification.

LEMMA NextInv == SyncInv /\ [Next]_vars => SyncInv'
<1> SUFFICES ASSUME SyncInv, [Next]_vars PROVE SyncInv'
  OBVIOUS
<1>1. ASSUME NEW l \in Logins, SetActiveAccount(l), UNCHANGED watch PROVE SyncInv'
  BY <1>1, ResyncInv DEF SetActiveAccount
<1>2. ASSUME CorrectSuffix, UNCHANGED watch PROVE SyncInv'
  BY <1>2, ResyncInv DEF CorrectSuffix, SyncInv, Types
<1>3. ASSUME Snapshots, UNCHANGED watch PROVE SyncInv'
  BY <1>3, AskingInv, LoadSucceedsInv, LoadFailsInv, ReadInv DEF Snapshots
<1>4. CASE Next
  BY <1>1, <1>2, <1>3, <1>4, StreamsInv, LeverageInv, BrokerInv DEF Next
<1>5. CASE UNCHANGED vars
  BY <1>5 DEF vars, SyncInv, Types, ActiveFirst, BooksAreTagged, ShownIsOfTheActiveAccount,
    GatesAreOfTheAccount, FramesAreOfTheAccount, LoadsAreOfTheAccount
<1> QED
  BY <1>4, <1>5

\* The state of the terminal and of the broker's books keeps its types
\* (trading-store.ts, use-account-sync.ts, session-generation.ts).
THEOREM TypesKept == Spec => []Types
<1>1. SyncInv => Types
  BY DEF SyncInv
<1> QED
  BY <1>1, InitInv, NextInv, PTL DEF Spec

\* Nothing of an account the user has left is ever shown, whatever was on its way when the account
\* was switched (use-account-sync.ts:37-128, trading-store.ts:142-182).
THEOREM ShowsTheActiveAccount == Spec => []ShownIsOfTheActiveAccount
<1>1. SyncInv => ShownIsOfTheActiveAccount
  BY DEF SyncInv
<1> QED
  BY <1>1, InitInv, NextInv, PTL DEF Spec

----------------------------------------------------------------------------
\* The versions.

BooksAreNumbered == \A l \in Logins, s \in Slices : broker[l][s].ver \in Nat

\* Nothing of the active account is newer than the broker's books.
NothingAhead ==
  login # NoLogin => \A s \in Slices :
    /\ tab.slices[s].ver <= broker[login][s].ver
    /\ gate[s].buffered.ver <= broker[login][s].ver
    /\ frame[s].ver <= broker[login][s].ver
    /\ \A i \in Loads : load[i].live => load[i].got[s].ver <= broker[login][s].ver

\* What a load that counts has read is as new as what is shown, but for the slices that were
\* applied since it started.
LoadsAreFresh ==
  \A i \in Loads : load[i].live /\ load[i].got # EmptySlices =>
    \A s \in Fresh(load[i]) : load[i].got[s].ver >= tab.slices[s].ver

VersionInv == SyncInv /\ BooksAreNumbered /\ NothingAhead /\ LoadsAreFresh

\* What was applied is as new as what was there, or as what it was applied from.
LEMMA AppliedIsBehind ==
  ASSUME NEW t \in Tabs, NEW ss \in SUBSET Slices, NEW v, NEW n,
         \A s \in ss : v[s] \in Versions /\ v[s].ver <= n[s].ver,
         \A s \in Slices : t.slices[s].ver <= n[s].ver
  PROVE  \A s \in Slices : AppliedAll(t, ss, v).slices[s].ver <= n[s].ver
<1>1. \A s \in ss : AppliedAll(t, ss, v).slices[s].ver = v[s].ver
  BY AppliedKeeps
<1>2. \A s \in Slices \ ss : AppliedAll(t, ss, v).slices[s] = t.slices[s]
  BY AppliedKeeps
<1> HIDE DEF AppliedAll
<1> QED
  BY <1>1, <1>2

\* The gates that are opened apply what they have buffered, and nothing else.
LEMMA GatesApply ==
  ASSUME Types, NEW t \in Tabs
  PROVE  /\ FromGates(t) \in Tabs
         /\ \A s \in Released(Slices) : FromGates(t).slices[s].ver = gate[s].buffered.ver
         /\ \A s \in Slices \ Released(Slices) : FromGates(t).slices[s] = t.slices[s]
<1> DEFINE v == [s \in Slices |-> gate[s].buffered]
           ss == Released(Slices)
<1>1. ss \in SUBSET Slices
  BY DEF Released
<1>2. \A s \in ss : v[s] \in Versions /\ v[s] = gate[s].buffered
  BY <1>1 DEF Types
<1>3. FromGates(t) = AppliedAll(t, ss, v)
  BY DEF FromGates
<1>4. \A s \in ss : v[s] \in Versions
  BY <1>2
<1>5. /\ AppliedAll(t, ss, v) \in Tabs
      /\ \A s \in ss : AppliedAll(t, ss, v).slices[s].ver = v[s].ver
      /\ \A s \in Slices \ ss : AppliedAll(t, ss, v).slices[s] = t.slices[s]
  <2> HIDE DEF v, ss
  <2> QED
    BY <1>1, <1>4, AppliedKeeps
<1> HIDE DEF v
<1> QED
  BY <1>2, <1>3, <1>5

\* Slices that were seen are no longer fresh.
LEMMA SeenIsStale ==
  ASSUME NEW ld \in [Loads -> LoadStates], NEW ss \in SUBSET Slices, NEW i \in Loads, ld[i].live
  PROVE  Fresh(Seen(ld, ss)[i]) = Fresh(ld[i]) \ ss
  BY DEF Seen, LoadStates, Fresh

\* A step that leaves the loads that count and the books, and changes what is shown only of slices
\* that it marks as seen.
LEMMA StaysFresh ==
  ASSUME VersionInv, SyncInv', NEW ss \in SUBSET Slices,
         \A s \in Slices \ ss : tab'.slices[s].ver = tab.slices[s].ver,
         \A j \in Loads : load'[j].live =>
            load[j].live /\ load'[j].got = load[j].got /\ Fresh(load'[j]) \subseteq Fresh(load[j]) \ ss
  PROVE  LoadsAreFresh'
<1>1. ASSUME NEW j \in Loads, load'[j].live, load'[j].got # EmptySlices, NEW s \in Fresh(load'[j])
      PROVE  load'[j].got[s].ver >= tab'.slices[s].ver
  <2>1. load[j].live /\ load'[j].got = load[j].got /\ s \in Fresh(load[j]) \ ss
    BY <1>1
  <2>2. s \in Slices
    BY <2>1 DEF Fresh
  <2>3. load[j].got[s].ver >= tab.slices[s].ver
    BY <1>1, <2>1 DEF VersionInv, LoadsAreFresh
  <2> QED
    BY <2>1, <2>2, <2>3
<1>2. EmptySlices' = EmptySlices
  BY DEF EmptySlices
<1> QED
  BY <1>1, <1>2 DEF LoadsAreFresh, Fresh

LEMMA ResyncVersions ==
  ASSUME VersionInv, Resync, login' \in Logins, readOnly' \in BOOLEAN, UNCHANGED watch
  PROVE  VersionInv'
<1>1. SyncInv'
  BY ResyncInv DEF VersionInv
<1>2. tab' \in Tabs /\ tab'.slices = EmptySlices
  BY ResetKeeps DEF VersionInv, SyncInv, Types, Resync
<1>3. \A i \in Loads : load'[i].live => load'[i].got = EmptySlices
  BY StartKeeps DEF VersionInv, SyncInv, Resync
<1>4. /\ gate' = [s \in Slices |-> [open |-> FALSE, buffered |-> None]]
      /\ frame' = [s \in Slices |-> None]
      /\ UNCHANGED broker
  BY DEF Resync
<1>5. \A s \in Slices : EmptySlices[s].ver = -1 /\ None.ver = -1
  BY DEF EmptySlices, None
<1>6. BooksAreNumbered'
  BY <1>4 DEF VersionInv, BooksAreNumbered
<1>7. NothingAhead'
  BY <1>2, <1>3, <1>4, <1>5, <1>6 DEF NothingAhead, BooksAreNumbered
<1>8. LoadsAreFresh'
  BY <1>3 DEF LoadsAreFresh, EmptySlices
<1> QED
  BY <1>1, <1>6, <1>7, <1>8 DEF VersionInv

LEMMA StreamsVersions ==
  ASSUME VersionInv, Streams, UNCHANGED watch
  PROVE  VersionInv'
<1>0. SyncInv' /\ Types
  BY StreamsInv DEF VersionInv, SyncInv
<1>1. PICK s \in Slices : StreamUp(s) \/ StreamDown(s) \/ Emit(s) \/ Receive(s)
  BY <1>0 DEF Streams, Types
<1>2. UNCHANGED <<broker, login>> /\ BooksAreNumbered'
  BY <1>1 DEF StreamUp, StreamDown, Emit, Receive, VersionInv, BooksAreNumbered
<1>3. ASSUME StreamUp(s) \/ StreamDown(s) \/ Emit(s)
      PROVE  VersionInv'
  <2>1. UNCHANGED <<tab, gate, load>>
    BY <1>3 DEF StreamUp, StreamDown, Emit
  <2>2. LoadsAreFresh'
    BY <2>1 DEF VersionInv, LoadsAreFresh, Fresh, EmptySlices
  <2>3. login # NoLogin => \A x \in Slices : frame'[x].ver <= broker[login][x].ver
    <3>1. CASE StreamUp(s)
      BY <3>1 DEF StreamUp, VersionInv, NothingAhead
    <3>2. CASE StreamDown(s)
      <4>1. None.ver = -1
        BY DEF None
      <4>2. login # NoLogin => login \in Logins
        BY <1>0 DEF Types
      <4> QED
        BY <1>0, <3>2, <4>1, <4>2 DEF StreamDown, VersionInv, NothingAhead, BooksAreNumbered, Types
    <3>3. CASE Emit(s)
      <4>1. login # NoLogin => broker[login][s].ver \in Nat
        BY <1>0 DEF Types, VersionInv, BooksAreNumbered
      <4> QED
        BY <1>0, <3>3, <4>1 DEF Emit, VersionInv, NothingAhead, Types
    <3> QED
      BY <1>3, <3>1, <3>2, <3>3
  <2>4. NothingAhead'
    BY <1>2, <2>1, <2>3 DEF VersionInv, NothingAhead
  <2> QED
    BY <1>0, <1>2, <2>2, <2>4 DEF VersionInv
<1>4. CASE Receive(s)
  <2> DEFINE v == [x \in {s} |-> frame[s]]
             n == broker[login]
  <2>1. frame[s] \in Versions /\ (login # NoLogin => frame[s].ver <= n[s].ver /\ n[s].ver \in Nat)
    BY <1>0 DEF VersionInv, NothingAhead, BooksAreNumbered, Types
  <2>2. login # NoLogin => \A x \in Slices : frame'[x].ver <= n[x].ver
    <3>1. None.ver = -1 /\ frame' = [frame EXCEPT ![s] = None]
      BY <1>4 DEF None, Receive
    <3> QED
      BY <1>0, <2>1, <3>1 DEF VersionInv, NothingAhead, Types
  <2>3. CASE ~gate[s].open
    <3>1. gate' = [gate EXCEPT ![s].buffered = frame[s]] /\ UNCHANGED <<tab, load>>
      BY <1>4, <2>3 DEF Receive
    <3>2. login # NoLogin => \A x \in Slices : gate'[x].buffered.ver <= n[x].ver
      BY <1>0, <2>1, <3>1 DEF VersionInv, NothingAhead, Types
    <3>3. LoadsAreFresh'
      BY <3>1 DEF VersionInv, LoadsAreFresh, Fresh, EmptySlices
    <3>4. NothingAhead'
      BY <1>2, <2>2, <3>1, <3>2 DEF VersionInv, NothingAhead
    <3> QED
      BY <1>0, <1>2, <3>3, <3>4 DEF VersionInv
  <2>4. CASE gate[s].open /\ ~Usable(s)
    <3>1. UNCHANGED <<tab, load, gate>>
      BY <1>4, <2>4 DEF Receive
    <3>2. LoadsAreFresh'
      BY <3>1 DEF VersionInv, LoadsAreFresh, Fresh, EmptySlices
    <3>3. NothingAhead'
      BY <1>2, <2>2, <3>1 DEF VersionInv, NothingAhead
    <3> QED
      BY <1>0, <1>2, <3>2, <3>3 DEF VersionInv
  <2>5. CASE gate[s].open /\ Usable(s)
    <3>1. tab' = AppliedAll(tab, {s}, v) /\ load' = Seen(load, {s}) /\ UNCHANGED gate
      BY <1>4, <2>5 DEF Receive, Applied
    <3>2. tab \in Tabs /\ load \in [Loads -> LoadStates]
      BY <1>0 DEF Types
    <3>3. v[s] = frame[s] /\ \A x \in {s} : v[x] \in Versions
      BY <2>1
    <3> HIDE DEF v
    <3>4. /\ tab'.slices[s].ver = frame[s].ver
          /\ \A x \in Slices \ {s} : tab'.slices[x] = tab.slices[x]
      <4>1. {s} \in SUBSET Slices
        OBVIOUS
      <4>2. /\ \A x \in {s} : AppliedAll(tab, {s}, v).slices[x].ver = v[x].ver
            /\ \A x \in Slices \ {s} : AppliedAll(tab, {s}, v).slices[x] = tab.slices[x]
        BY <3>2, <3>3, <4>1, AppliedKeeps, ZenonT(30)
      <4> QED
        BY <3>1, <3>3, <4>2
    <3>5. \A j \in Loads : load'[j].live = load[j].live /\ load'[j].got = load[j].got
      BY <3>1, <3>2, SeenKeeps
    <3>6. \A j \in Loads : load[j].live => Fresh(load'[j]) = Fresh(load[j]) \ {s}
      BY <3>1, <3>2, SeenIsStale
    <3>7. LoadsAreFresh'
      BY <1>0, <3>4, <3>5, <3>6, StaysFresh
    <3>8. NothingAhead'
      BY <1>2, <2>1, <2>2, <3>1, <3>4, <3>5 DEF VersionInv, NothingAhead
    <3> QED
      BY <1>0, <1>2, <3>7, <3>8 DEF VersionInv
  <2> QED
    BY <2>3, <2>4, <2>5
<1> QED
  BY <1>1, <1>3, <1>4

\* A load that starts is fresh in nothing yet; what it reads is the newest there is.
LEMMA AskingVersions ==
  ASSUME VersionInv, Reconcile \/ ReloadAfterReconnect, UNCHANGED watch
  PROVE  VersionInv'
<1>0. SyncInv' /\ Types
  BY AskingInv DEF VersionInv, SyncInv
<1>1. StartLoad(load) /\ UNCHANGED <<broker, login, tab, gate, frame>>
  BY DEF Reconcile, ReloadAfterReconnect
<1>2. \A i \in Loads : load'[i].live => load'[i].got = EmptySlices
  BY <1>0, <1>1, StartKeeps
<1>3. \A s \in Slices : EmptySlices[s].ver = -1
  BY DEF EmptySlices, None
<1>4. BooksAreNumbered' /\ (login # NoLogin => \A s \in Slices : broker[login][s].ver \in Nat)
  BY <1>0, <1>1 DEF VersionInv, BooksAreNumbered, Types
<1>5. NothingAhead'
  BY <1>1, <1>2, <1>3, <1>4 DEF VersionInv, NothingAhead
<1>6. LoadsAreFresh'
  BY <1>2 DEF LoadsAreFresh, EmptySlices
<1> QED
  BY <1>0, <1>4, <1>5, <1>6 DEF VersionInv

LEMMA ReadVersions ==
  ASSUME VersionInv, NEW i \in Loads, Read(i), UNCHANGED watch
  PROVE  VersionInv'
<1>0. SyncInv' /\ Types
  BY ReadInv DEF VersionInv, SyncInv
<1>1. /\ load[i].live /\ load' = [load EXCEPT ![i].got = broker[login]]
      /\ UNCHANGED <<broker, login, tab, gate, frame>>
  BY DEF Read
<1>2. login \in Logins
  BY <1>0, <1>1 DEF VersionInv, SyncInv, ActiveFirst, Types
<1>3. /\ load'[i].got = broker[login]
      /\ \A j \in Loads \ {i} : load'[j] = load[j]
      /\ \A j \in Loads : load'[j].live = load[j].live
  BY <1>0, <1>1 DEF Types, LoadStates
<1>4. BooksAreNumbered' /\ \A s \in Slices : broker[login][s].ver \in Nat
  BY <1>1, <1>2 DEF VersionInv, BooksAreNumbered
<1>5. NothingAhead'
  BY <1>1, <1>3, <1>4 DEF VersionInv, NothingAhead
<1>6. LoadsAreFresh'
  <2>1. ASSUME NEW s \in Slices PROVE broker[login][s].ver >= tab.slices[s].ver
    <3>1. tab.slices[s].ver <= broker[login][s].ver
      BY <1>2 DEF VersionInv, NothingAhead
    <3>2. tab.slices[s].ver \in Int
      BY <1>0 DEF Types, Tabs, Versions
    <3> QED
      BY <1>4, <3>1, <3>2
  <2> QED
    BY <1>1, <1>3, <2>1 DEF VersionInv, LoadsAreFresh, Fresh, EmptySlices
<1> QED
  BY <1>0, <1>4, <1>5, <1>6 DEF VersionInv

\* What a load that counts applies: the fresh slices as it read them, then what the gates release.
LEMMA LoadApplies ==
  ASSUME VersionInv, NEW i \in Loads, LoadSucceeds(i), load[i].live
  PROVE  /\ \A s \in Released(Slices) : tab'.slices[s].ver = gate[s].buffered.ver
         /\ \A s \in Fresh(load[i]) \ Released(Slices) : tab'.slices[s].ver = load[i].got[s].ver
         /\ \A s \in Slices \ (Fresh(load[i]) \cup Released(Slices)) : tab'.slices[s] = tab.slices[s]
         /\ load[i].got # EmptySlices /\ gate' = Opened
         /\ load' = [Seen(load, Fresh(load[i]) \cup Released(Slices)) EXCEPT ![i] = NoLoad]
<1> DEFINE ld == load[i]
           got == AppliedAll(tab, Fresh(ld), ld.got)
           rest == LoadEnded(got)
<1>1. /\ tab' = FromGates(rest) /\ gate' = Opened /\ ld.got # EmptySlices
      /\ load' = [Seen(load, Fresh(ld) \cup Released(Slices)) EXCEPT ![i] = NoLoad]
  BY DEF LoadSucceeds
<1>2. Types /\ tab \in Tabs /\ Fresh(ld) \in SUBSET Slices /\ \A s \in Fresh(ld) : ld.got[s] \in Versions
  BY DEF VersionInv, SyncInv, Types, LoadStates, Fresh
<1>3. /\ got \in Tabs
      /\ \A s \in Fresh(ld) : got.slices[s].ver = ld.got[s].ver
      /\ \A s \in Slices \ Fresh(ld) : got.slices[s] = tab.slices[s]
  <2> DEFINE ff == Fresh(ld)
             v == ld.got
  <2>1. ff \in SUBSET Slices /\ \A s \in ff : v[s] \in Versions
    BY <1>2
  <2>2. got = AppliedAll(tab, ff, v)
    OBVIOUS
  <2> HIDE DEF ff, v, got
  <2>3. tab \in Tabs
    BY <1>2
  <2>4. got \in Tabs
    BY <2>1, <2>2, <2>3, AppliedKeeps
  <2>5. \A s \in ff : got.slices[s].ver = v[s].ver
    BY <2>1, <2>2, <2>3, AppliedKeeps, ZenonT(30)
  <2>6. \A s \in Slices \ ff : got.slices[s] = tab.slices[s]
    BY <2>1, <2>2, <2>3, AppliedKeeps
  <2> QED
    BY <2>4, <2>5, <2>6 DEF ff, v
<1> HIDE DEF got
<1>4. rest \in Tabs /\ rest.slices = got.slices
  BY <1>3, LoadEndedKeeps
<1> HIDE DEF rest
<1>5. /\ \A s \in Released(Slices) : tab'.slices[s].ver = gate[s].buffered.ver
      /\ \A s \in Slices \ Released(Slices) : tab'.slices[s] = rest.slices[s]
  BY <1>1, <1>2, <1>4, GatesApply
<1> QED
  BY <1>1, <1>2, <1>3, <1>4, <1>5

LEMMA LoadSucceedsVersions ==
  ASSUME VersionInv, NEW i \in Loads, LoadSucceeds(i), UNCHANGED watch
  PROVE  VersionInv'
<1>0. SyncInv' /\ Types /\ ~NoLoad.live
  BY LoadSucceedsInv DEF VersionInv, SyncInv, NoLoad, NewLoad
<1>1. UNCHANGED <<broker, login, frame>> /\ BooksAreNumbered'
  BY DEF LoadSucceeds, VersionInv, BooksAreNumbered
<1>2. CASE ~load[i].live
  <2>1. load' = [load EXCEPT ![i] = NoLoad] /\ UNCHANGED <<tab, gate>>
    BY <1>2 DEF LoadSucceeds
  <2>2. \A j \in Loads : load'[j].live => load'[j] = load[j]
    BY <1>0, <2>1 DEF Types
  <2> QED
    BY <1>0, <1>1, <2>1, <2>2 DEF VersionInv, NothingAhead, LoadsAreFresh, Fresh, EmptySlices
<1>3. CASE load[i].live
  <2> DEFINE ss == Fresh(load[i]) \cup Released(Slices)
  <2>1. /\ \A s \in Released(Slices) : tab'.slices[s].ver = gate[s].buffered.ver
        /\ \A s \in Fresh(load[i]) \ Released(Slices) : tab'.slices[s].ver = load[i].got[s].ver
        /\ \A s \in Slices \ ss : tab'.slices[s] = tab.slices[s]
        /\ gate' = Opened /\ load' = [Seen(load, ss) EXCEPT ![i] = NoLoad]
    BY <1>3, LoadApplies
  <2>2. ss \in SUBSET Slices /\ load \in [Loads -> LoadStates]
    BY <1>0 DEF Types, Fresh, Released
  <2> HIDE DEF ss
  <2>3. /\ Seen(load, ss) \in [Loads -> LoadStates]
        /\ \A j \in Loads : Seen(load, ss)[j].live = load[j].live /\ Seen(load, ss)[j].got = load[j].got
    BY <2>2, SeenKeeps
  <2>4. \A j \in Loads : load[j].live => Fresh(Seen(load, ss)[j]) = Fresh(load[j]) \ ss
    BY <2>2, SeenIsStale
  <2>5. \A j \in Loads : load'[j].live =>
          load[j].live /\ load'[j].got = load[j].got /\ Fresh(load'[j]) \subseteq Fresh(load[j]) \ ss
    BY <1>0, <2>1, <2>3, <2>4
  <2>6. LoadsAreFresh'
    BY <1>0, <2>1, <2>2, <2>5, StaysFresh
  <2>7. NothingAhead'
    <3> SUFFICES ASSUME login # NoLogin, NEW s \in Slices
                 PROVE  /\ tab'.slices[s].ver <= broker[login][s].ver
                        /\ gate'[s].buffered.ver <= broker[login][s].ver
                        /\ frame'[s].ver <= broker[login][s].ver
                        /\ \A j \in Loads : load'[j].live => load'[j].got[s].ver <= broker[login][s].ver
      BY <1>1 DEF NothingAhead
    <3>1. /\ tab.slices[s].ver <= broker[login][s].ver
          /\ gate[s].buffered.ver <= broker[login][s].ver
          /\ frame[s].ver <= broker[login][s].ver
          /\ \A j \in Loads : load[j].live => load[j].got[s].ver <= broker[login][s].ver
          /\ broker[login][s].ver \in Nat
      BY <1>0 DEF VersionInv, NothingAhead, BooksAreNumbered, Types
    <3>2. tab'.slices[s].ver <= broker[login][s].ver
      BY <1>3, <2>1, <3>1 DEF ss
    <3>3. gate'[s].buffered.ver = -1
      BY <2>1 DEF Opened, None
    <3> QED
      BY <1>1, <2>5, <3>1, <3>2, <3>3
  <2> QED
    BY <1>0, <1>1, <2>6, <2>7 DEF VersionInv
<1> QED
  BY <1>2, <1>3

LEMMA LoadFailsVersions ==
  ASSUME VersionInv, NEW i \in Loads, LoadFails(i), UNCHANGED watch
  PROVE  VersionInv'
<1>0. SyncInv' /\ Types /\ ~NoLoad.live
  BY LoadFailsInv DEF VersionInv, SyncInv, NoLoad, NewLoad
<1>1. UNCHANGED <<broker, login, frame>> /\ BooksAreNumbered'
  BY DEF LoadFails, VersionInv, BooksAreNumbered
<1>2. CASE ~load[i].live
  <2>1. load' = [load EXCEPT ![i] = NoLoad] /\ UNCHANGED <<tab, gate>>
    BY <1>2 DEF LoadFails
  <2>2. \A j \in Loads : load'[j].live => load'[j] = load[j]
    BY <1>0, <2>1 DEF Types
  <2> QED
    BY <1>0, <1>1, <2>1, <2>2 DEF VersionInv, NothingAhead, LoadsAreFresh, Fresh, EmptySlices
<1>3. CASE load[i].live
  <2> DEFINE ss == Released(Slices)
             rest == FromGates(tab)
  <2>1. tab' = LoadEnded(rest) /\ gate' = Opened /\ load' = [Seen(load, ss) EXCEPT ![i] = NoLoad]
    BY <1>3 DEF LoadFails
  <2>2. ss \in SUBSET Slices /\ load \in [Loads -> LoadStates] /\ tab \in Tabs
    BY <1>0 DEF Types, Released
  <2>3. /\ rest \in Tabs
        /\ \A s \in ss : rest.slices[s].ver = gate[s].buffered.ver
        /\ \A s \in Slices \ ss : rest.slices[s] = tab.slices[s]
    BY <1>0, <2>2, GatesApply
  <2> HIDE DEF ss, rest
  <2>4. tab'.slices = rest.slices
    BY <2>1, <2>3, LoadEndedKeeps
  <2>5. /\ Seen(load, ss) \in [Loads -> LoadStates]
        /\ \A j \in Loads : Seen(load, ss)[j].live = load[j].live /\ Seen(load, ss)[j].got = load[j].got
    BY <2>2, SeenKeeps
  <2>6. \A j \in Loads : load[j].live => Fresh(Seen(load, ss)[j]) = Fresh(load[j]) \ ss
    BY <2>2, SeenIsStale
  <2>7. \A j \in Loads : load'[j].live =>
          load[j].live /\ load'[j].got = load[j].got /\ Fresh(load'[j]) \subseteq Fresh(load[j]) \ ss
    BY <1>0, <2>1, <2>5, <2>6
  <2>8. LoadsAreFresh'
    BY <1>0, <2>2, <2>3, <2>4, <2>7, StaysFresh
  <2>9. NothingAhead'
    <3> SUFFICES ASSUME login # NoLogin, NEW s \in Slices
                 PROVE  /\ tab'.slices[s].ver <= broker[login][s].ver
                        /\ gate'[s].buffered.ver <= broker[login][s].ver
                        /\ frame'[s].ver <= broker[login][s].ver
                        /\ \A j \in Loads : load'[j].live => load'[j].got[s].ver <= broker[login][s].ver
      BY <1>1 DEF NothingAhead
    <3>1. /\ tab.slices[s].ver <= broker[login][s].ver
          /\ gate[s].buffered.ver <= broker[login][s].ver
          /\ frame[s].ver <= broker[login][s].ver
          /\ \A j \in Loads : load[j].live => load[j].got[s].ver <= broker[login][s].ver
          /\ broker[login][s].ver \in Nat
      BY <1>0 DEF VersionInv, NothingAhead, BooksAreNumbered, Types
    <3>2. tab'.slices[s].ver <= broker[login][s].ver
      BY <2>3, <2>4, <3>1
    <3>3. gate'[s].buffered.ver = -1
      BY <2>1 DEF Opened, None
    <3> QED
      BY <1>1, <2>7, <3>1, <3>2, <3>3
  <2> QED
    BY <1>0, <1>1, <2>8, <2>9 DEF VersionInv
<1> QED
  BY <1>2, <1>3

\* A write that is answered changes a value that is shown and no version.
LEMMA LeverageVersions ==
  ASSUME VersionInv, Leverage, UNCHANGED watch
  PROVE  VersionInv'
<1>0. SyncInv' /\ Types
  BY LeverageInv DEF VersionInv, SyncInv
<1>1. \A s \in Slices : tab'.slices[s].ver = tab.slices[s].ver
  <2>1. CASE LeverageAnswered
    <3>1. tab' = Patched(tab, lever.val, lever.login) /\ tab \in Tabs
      BY <1>0, <2>1 DEF LeverageAnswered, Types
    <3> QED
      BY <3>1 DEF Patched, Tabs, Versions
  <2>2. CASE HoldExpires
    BY <1>0, <2>2 DEF HoldExpires, Types, Tabs
  <2>3. CASE ~LeverageAnswered /\ ~HoldExpires
    BY <1>0, <2>3 DEF Leverage, ConfirmLeverage, RecordLeverage, RefuseLeverage, Types
  <2> QED
    BY <2>1, <2>2, <2>3
<1>2. UNCHANGED <<broker, login, gate, frame, load>>
  BY DEF Leverage, ConfirmLeverage, RecordLeverage, RefuseLeverage, LeverageAnswered, HoldExpires
<1>3. LoadsAreFresh'
  <2>1. \A j \in Loads : Fresh(load'[j]) \subseteq Fresh(load[j]) \ {}
    BY <1>2
  <2> QED
    BY <1>0, <1>1, <1>2, <2>1, StaysFresh
<1> QED
  BY <1>0, <1>1, <1>2, <1>3 DEF VersionInv, NothingAhead, BooksAreNumbered

\* The books only go on.
LEMMA BrokerVersions ==
  ASSUME VersionInv, Broker, UNCHANGED watch
  PROVE  VersionInv'
<1>0. SyncInv' /\ Types
  BY BrokerInv DEF VersionInv, SyncInv
<1>1. PICK l \in Logins :
        Propagate(l) \/ ChangeOrders(l) \/ \E p \in Tickets[l] : OpenPosition(l, p) \/ ClosePosition(l, p)
  BY DEF Broker
<1>2. UNCHANGED <<login, tab, gate, frame, load>>
  BY <1>1 DEF Propagate, ChangeOrders, OpenPosition, ClosePosition
<1>3. PICK s \in Slices : \E v : Changed(l, s, v)
  <2>1. ChangeOrders(l) => "orders" \in Slices
    BY <1>0 DEF ChangeOrders, Types
  <2> QED
    BY <1>1, <2>1 DEF Propagate, ChangeOrders, OpenPosition, ClosePosition
<1>v. PICK v : Changed(l, s, v)
  BY <1>3
<1>4. ASSUME NEW k \in Logins, NEW x \in Slices
      PROVE  broker'[k][x].ver \in {broker[k][x].ver, broker[k][x].ver + 1}
  <2>1. broker \in [Logins -> [Slices -> Versions]] /\ broker' = [broker EXCEPT ![l][s].ver = @ + 1, ![l][s].val = v]
    BY <1>0, <1>v DEF Types, Changed
  <2> QED
    BY <2>1 DEF Versions
<1>5. \A k \in Logins, x \in Slices : broker'[k][x].ver \in Nat /\ broker'[k][x].ver >= broker[k][x].ver
  BY <1>4 DEF VersionInv, BooksAreNumbered
<1>6. NothingAhead'
  <2> SUFFICES ASSUME login # NoLogin, NEW x \in Slices
               PROVE  /\ tab.slices[x].ver <= broker'[login][x].ver
                      /\ gate[x].buffered.ver <= broker'[login][x].ver
                      /\ frame[x].ver <= broker'[login][x].ver
                      /\ \A j \in Loads : load[j].live => load[j].got[x].ver <= broker'[login][x].ver
    BY <1>2 DEF NothingAhead
  <2>1. login \in Logins
    BY <1>0 DEF Types
  <2>2. /\ tab.slices[x].ver \in Int /\ gate[x].buffered.ver \in Int /\ frame[x].ver \in Int
        /\ \A j \in Loads : load[j].got[x].ver \in Int
    BY <1>0 DEF Types, Tabs, Versions, LoadStates
  <2>3. /\ broker[login][x].ver \in Nat /\ broker'[login][x].ver \in Nat
        /\ broker'[login][x].ver >= broker[login][x].ver
    BY <1>5, <2>1 DEF VersionInv, BooksAreNumbered
  <2> QED
    BY <2>2, <2>3 DEF VersionInv, NothingAhead
<1>7. LoadsAreFresh'
  BY <1>2 DEF VersionInv, LoadsAreFresh, Fresh, EmptySlices
<1> QED
  BY <1>0, <1>5, <1>6, <1>7 DEF VersionInv, BooksAreNumbered

LEMMA InitVersions == Init => VersionInv
<1> SUFFICES ASSUME Init PROVE VersionInv
  OBVIOUS
<1>1. SyncInv
  BY InitInv
<1>2. BooksAreNumbered
  BY DEF Init, BooksAreNumbered
<1>3. login = NoLogin /\ \A i \in Loads : ~load[i].live
  BY DEF Init, NoLoad, NewLoad
<1> QED
  BY <1>1, <1>2, <1>3 DEF VersionInv, NothingAhead, LoadsAreFresh

LEMMA NextVersions == VersionInv /\ [Next]_vars => VersionInv'
<1> SUFFICES ASSUME VersionInv, [Next]_vars PROVE VersionInv'
  OBVIOUS
<1>1. ASSUME NEW l \in Logins, SetActiveAccount(l), UNCHANGED watch PROVE VersionInv'
  BY <1>1, ResyncVersions DEF SetActiveAccount
<1>2. ASSUME CorrectSuffix, UNCHANGED watch PROVE VersionInv'
  BY <1>2, ResyncVersions DEF CorrectSuffix, VersionInv, SyncInv, Types
<1>3. ASSUME Snapshots, UNCHANGED watch PROVE VersionInv'
  BY <1>3, AskingVersions, LoadSucceedsVersions, LoadFailsVersions, ReadVersions DEF Snapshots
<1>4. CASE Next
  BY <1>1, <1>2, <1>3, <1>4, StreamsVersions, LeverageVersions, BrokerVersions DEF Next
<1>5. CASE UNCHANGED vars
  <2>1. SyncInv'
    BY <1>5, NextInv DEF VersionInv
  <2> QED
    BY <1>5, <2>1 DEF vars, VersionInv, BooksAreNumbered, NothingAhead, LoadsAreFresh, Fresh, EmptySlices
<1> QED
  BY <1>4, <1>5

\* A snapshot never replaces what is newer, a frame that came meanwhile or a later load, for any
\* accounts, slices, loads and order of their answers (shouldApplyRestSnapshot, reconcileSequence).
THEOREM SnapshotsOnlyAdvance == Spec => SnapshotsNeverRegress
<1>1. ASSUME VersionInv, [Next]_vars
      PROVE  [\A i \in Loads : LoadSucceeds(i) =>
                \A s \in Slices : Released({s}) = {} => tab'.slices[s].ver >= tab.slices[s].ver]_vars
  <2>1. ASSUME NEW i \in Loads, LoadSucceeds(i), NEW s \in Slices, Released({s}) = {}
        PROVE  tab'.slices[s].ver >= tab.slices[s].ver
    <3>1. tab.slices[s].ver \in Int
      BY <1>1 DEF VersionInv, SyncInv, Types, Tabs, Versions
    <3>2. CASE ~load[i].live
      BY <2>1, <3>1, <3>2 DEF LoadSucceeds
    <3>3. CASE load[i].live
      <4>1. s \notin Released(Slices)
        BY <2>1 DEF Released
      <4>2. CASE s \in Fresh(load[i])
        BY <1>1, <2>1, <3>3, <4>1, <4>2, LoadApplies, ZenonT(30) DEF VersionInv, LoadsAreFresh
      <4>3. CASE s \notin Fresh(load[i])
        <5>1. tab'.slices[s] = tab.slices[s]
          BY <1>1, <2>1, <3>3, <4>1, <4>3, LoadApplies
        <5> QED
          BY <3>1, <5>1
      <4> QED
        BY <4>2, <4>3
    <3> QED
      BY <3>2, <3>3
  <2> QED
    BY <2>1
<1> QED
  BY <1>1, InitVersions, NextVersions, PTL DEF Spec, SnapshotsNeverRegress
============================================================================
