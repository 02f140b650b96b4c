------------------------ MODULE WorkspaceSyncProofs ------------------------
(***************************************************************************)
(* The mirror of the workspace, for any accounts, layouts and faults: what *)
(* a tab could not read at the gateway it leaves there, and the latest     *)
(* edit of a layout is in the storage or on its way to it.                 *)
(*                                                                         *)
(* What cannot be read stays so whatever is stored elsewhere, and a push   *)
(* goes only to an account whose bundle was read (ReadFirst).  An edit is  *)
(* the document that waits for the timer, or nothing waits and the storage *)
(* has it (EditInv): no older document can come over it.                   *)
(***************************************************************************)
EXTENDS WorkspaceSync, TLAPS

USE SyncAssumption

IsBundle(b) == b.kind = "bundle" /\ b.active \in Ids \cup {None}

\* The gateway's entry of each account.
Entries ==
  /\ server = [l \in Logins |-> server[l]]
  /\ \A l \in Logins : server[l] \in {NoBundle, Garbled} \/ IsBundle(server[l])

Accounts ==
  /\ login \in Logins \cup {NoLogin} /\ pulls \subseteq Logins
  /\ due => login # NoLogin

\* Whoever's bundle was read, and whoever's push is out, has none that cannot be read.
IsSafe(push) == push.login \in Logins /\ server[push.login] # Garbled /\ IsBundle(push.bundle)
ReadFirst ==
  /\ pulledFor # NoLogin => pulledFor \in Logins /\ server[pulledFor] # Garbled
  /\ pushInFlight # Nothing => IsSafe(pushInFlight)

Storage ==
  /\ now \in Nat
  /\ local = [i \in Ids |-> local[i]]
  /\ activeId \in Ids \cup {None}
  /\ screen = [id |-> screen.id, doc |-> screen.doc] /\ screen.id \in Ids

Stays(doc) == Migrated(doc) = doc
IsStored(x) == local[x.id] # Absent /\ local[x.id].doc = x.doc
EditInv ==
  kept # Nothing => /\ kept.id \in Ids /\ Stays(kept.doc)
                    /\ pending = kept \/ (pending = Nothing /\ IsStored(kept))

MirrorInv == Entries /\ Accounts /\ ReadFirst /\ Storage /\ EditInv

----------------------------------------------------------------------------
\* The gateway.

\* What a push would send goes to the account whose bundle was read.
LEMMA SendsAreSafe == ASSUME MirrorInv, NEW loc, Sends(loc) PROVE IsSafe(Out(loc))
BY DEF MirrorInv, ReadFirst, Storage, Sends, Out, Pushed, Bundle, IsBundle, IsSafe

\* What is stored replaces one entry, and none that cannot be read.
SameReads ==
  /\ Entries'
  /\ \A l \in Logins : server'[l] = Garbled <=> server[l] = Garbled

LEMMA BundleIsRead == ASSUME NEW b, IsBundle(b) PROVE b # Garbled
BY DEF IsBundle, Garbled

LEMMA StoredReads ==
  ASSUME Entries, NEW push, IsSafe(push), server' = Stored(push)
  PROVE  SameReads
<1>1. \A l \in Logins : server'[l] = IF l = push.login THEN push.bundle ELSE server[l]
  BY DEF Stored, Entries
<1>2. server' = [l \in Logins |-> server'[l]]
  BY DEF Stored, Entries
<1>3. push.bundle # Garbled /\ server[push.login] # Garbled /\ IsBundle(push.bundle)
  BY BundleIsRead DEF IsSafe
<1>4. \A l \in Logins : server'[l] \in {NoBundle, Garbled} \/ IsBundle(server'[l])
  BY <1>1, <1>3 DEF Entries
<1>. QED  BY <1>1, <1>2, <1>3, <1>4 DEF SameReads, Entries, IsBundle

LEMMA NothingStored == ASSUME Entries, UNCHANGED server PROVE SameReads
BY DEF Entries, SameReads, IsBundle

LEMMA EntriesKept == ASSUME MirrorInv, [Next]_vars PROVE SameReads
<1>0. Entries /\ ReadFirst
  BY DEF MirrorInv
<1>1. CASE Layouts \/ UNCHANGED vars
  BY <1>0, <1>1, NothingStored DEF Layouts, vars, Edit, ResetToDefault, SaveTimer, SaveAs, LoadLayout,
     WriteNote, RemoveNote
<1>2. CASE PushAccepted \/ PushFails
  BY <1>0, <1>2, NothingStored, StoredReads DEF PushAccepted, PushFails, ReadFirst
<1>3. CASE Mirror /\ ~PushAccepted /\ ~PushFails
  BY <1>0, <1>3, NothingStored DEF Mirror, Attach, PushTimer, Hide, SwitchAccount, PullFails, PullAnswered
<1>4. CASE Reload
  <2>1. \/ UNCHANGED server
        \/ pushInFlight # Nothing /\ server' = Stored(pushInFlight)
        \/ Sends(Flushed) /\ server' = Stored(Out(Flushed))
    BY <1>4 DEF Reload
  <2>. QED  BY <1>0, <2>1, NothingStored, StoredReads, SendsAreSafe DEF ReadFirst
<1>5. ASSUME NEW l \in Logins, OtherDeviceWrites(l) PROVE SameReads
  <2>1. PICK b : IsBundle(b) /\ server' = [server EXCEPT ![l] = b]
    BY <1>5 DEF OtherDeviceWrites, IsBundle
  <2>2. server' = Stored([login |-> l, bundle |-> b]) /\ IsSafe([login |-> l, bundle |-> b])
    BY <1>5, <2>1 DEF Stored, IsSafe, OtherDeviceWrites
  <2>. QED  BY <1>0, <2>2, StoredReads
<1>. QED  BY <1>1, <1>2, <1>3, <1>4, <1>5 DEF Next

LEMMA AccountsKept == ASSUME MirrorInv, [Next]_vars PROVE Accounts'
<1>0. Accounts
  BY DEF MirrorInv
<1>1. CASE Layouts \/ UNCHANGED vars
  <2>1. UNCHANGED <<login, pulls, due>>
    BY <1>1 DEF Layouts, vars, syncer, Edit, ResetToDefault, SaveTimer, SaveAs, LoadLayout,
       WriteNote, RemoveNote
  <2>. QED  BY <1>0, <2>1 DEF Accounts
<1>2. CASE Mirror
  BY <1>0, <1>2 DEF Mirror, Attach, PushTimer, PushAccepted, PushFails, Hide, SwitchAccount, PullFails,
     PullAnswered, Accounts, syncer
<1>3. CASE Reload \/ \E l \in Logins : OtherDeviceWrites(l)
  <2>1. \/ UNCHANGED <<login, pulls, due>>
        \/ login' = NoLogin /\ pulls' = {} /\ due' = FALSE
    BY <1>3 DEF Reload, OtherDeviceWrites, syncer
  <2>. QED  BY <1>0, <2>1 DEF Accounts
<1>. QED  BY <1>1, <1>2, <1>3 DEF Next

LEMMA ReadFirstKept == ASSUME MirrorInv, [Next]_vars PROVE ReadFirst'
<1>0. ReadFirst /\ SameReads /\ Accounts
  BY EntriesKept DEF MirrorInv
<1>1. ASSUME NEW push, IsSafe(push) PROVE IsSafe(push)'
  BY <1>0, <1>1 DEF IsSafe, SameReads, IsBundle
<1>2. ASSUME \/ pulledFor' \in {pulledFor, NoLogin}
             \/ pulledFor' \in Logins /\ server[pulledFor'] # Garbled,
             \/ pushInFlight' \in {pushInFlight, Nothing}
             \/ \E loc : Sends(loc) /\ pushInFlight' = Out(loc)
      PROVE  ReadFirst'
  <2>1. pulledFor' # NoLogin => pulledFor' \in Logins /\ server'[pulledFor'] # Garbled
    BY <1>0, <1>2 DEF ReadFirst, SameReads
  <2>2. pushInFlight' # Nothing => IsSafe(pushInFlight')
    BY <1>0, <1>2, SendsAreSafe DEF ReadFirst
  <2>3. pushInFlight' # Nothing => IsSafe(pushInFlight)'
    BY <1>0, <2>2 DEF IsSafe, SameReads, IsBundle
  <2>. QED  BY <2>1, <2>3 DEF ReadFirst
<1>3. CASE Layouts \/ UNCHANGED vars
  BY <1>2, <1>3 DEF Layouts, vars, syncer, Edit, ResetToDefault, SaveTimer, SaveAs, LoadLayout,
     WriteNote, RemoveNote
<1>4. CASE \E l \in Logins : PullAnswered(l)
  BY <1>2, <1>4 DEF PullAnswered, Keeps, Takes
<1>5. CASE Mirror /\ ~(\E l \in Logins : PullAnswered(l))
  BY <1>2, <1>5 DEF Mirror, Attach, PushTimer, PushAccepted, PushFails, Hide, SwitchAccount, PullFails,
     syncer
<1>6. CASE Reload \/ \E l \in Logins : OtherDeviceWrites(l)
  BY <1>2, <1>6 DEF Reload, OtherDeviceWrites, syncer
<1>. QED  BY <1>3, <1>4, <1>5, <1>6 DEF Next

----------------------------------------------------------------------------
\* The storage and the screen.

LEMMA DocStays == ASSUME NEW v, NEW real PROVE Stays(Doc(v, real))
BY DEF Stays, Migrated, Doc

\* What goes to the storage is there.
LEMMA SavedIsStored ==
  ASSUME Storage, NEW i \in Ids, NEW doc, Stays(doc), local' = SavedLocally(local, i, doc)
  PROVE  local'[i] # Absent /\ local'[i].doc = doc
<1>1. local'[i] = [doc |-> doc, at |-> now + 1]
  BY DEF SavedLocally, Storage, Stays
<1>2. now + 1 # 0
  BY DEF Storage
<1>. QED  BY <1>1, <1>2 DEF Absent

LEMMA SavedKeepsForm ==
  ASSUME Storage, NEW i, NEW doc
  PROVE  SavedLocally(local, i, doc) = [j \in Ids |-> SavedLocally(local, i, doc)[j]]
BY DEF SavedLocally, Storage

\* The document that waits goes to the storage.
LEMMA FlushedEdits ==
  ASSUME Storage, EditInv, local' = Flushed, pending' = Nothing, UNCHANGED kept
  PROVE  EditInv'
<1>. SUFFICES ASSUME kept # Nothing PROVE kept.id \in Ids /\ Stays(kept.doc) /\ IsStored(kept)'
  BY DEF EditInv, Stays, Migrated
<1>1. CASE pending = kept
  <2>1. local' = SavedLocally(local, kept.id, kept.doc)
    BY <1>1 DEF Flushed
  <2>. QED  BY <2>1, SavedIsStored DEF EditInv, IsStored
<1>2. CASE pending = Nothing /\ IsStored(kept)
  BY <1>2 DEF Flushed, EditInv, IsStored
<1>. QED  BY <1>1, <1>2 DEF EditInv

LEMMA FlushedKeepsForm ==
  ASSUME Storage PROVE Flushed = [j \in Ids |-> Flushed[j]]
BY SavedKeepsForm DEF Flushed, Storage

\* A bundle is taken: either its layout is on the screen, or the storage stays as it was.
LEMMA TakesEdits ==
  ASSUME MirrorInv, NEW l \in Logins, IsBundle(server[l]), Takes(l, server[l]), UNCHANGED pending
  PROVE  Storage' /\ EditInv'
<1>. DEFINE b == server[l]
            active == IF b.active = None THEN activeId ELSE b.active
            id == IF active = None THEN Default ELSE active
<1>1. /\ now' = now + 1 /\ local' = Applied(b)
      /\ IF \E i \in DOMAIN b.docs : Readable(b.docs[i])
         THEN activeId' = active /\ screen' = [id |-> id, doc |-> Loaded(Applied(b), id)] /\ kept' = Nothing
         ELSE UNCHANGED <<activeId, screen, kept>>
  BY DEF Takes, Tick
<1>2. active \in Ids \cup {None} /\ id \in Ids
  BY DEF IsBundle, MirrorInv, Storage
<1>. HIDE DEF id, active
<1>3. Applied(b) = [i \in Ids |-> Applied(b)[i]]
  BY DEF Applied
<1>4. Storage'
  BY <1>1, <1>2, <1>3 DEF MirrorInv, Storage
<1>5. CASE \E i \in DOMAIN b.docs : Readable(b.docs[i])
  BY <1>1, <1>4, <1>5 DEF EditInv
<1>6. CASE ~(\E i \in DOMAIN b.docs : Readable(b.docs[i]))
  <2>1. \A i \in Ids : local'[i] = local[i]
    BY <1>1, <1>6 DEF Applied
  <2>. QED  BY <1>1, <1>4, <1>6, <2>1 DEF MirrorInv, EditInv, IsStored, Stays, Migrated
<1>. QED  BY <1>5, <1>6

LEMMA StorageKept == ASSUME MirrorInv, [Next]_vars PROVE Storage' /\ EditInv'
<1>0. Storage /\ EditInv
  BY DEF MirrorInv
<1>1. CASE UNCHANGED <<now, browser, screen, pending, kept>>
  BY <1>0, <1>1 DEF browser, Storage, EditInv, IsStored, Stays, Migrated
<1>2. CASE Edit \/ ResetToDefault
  <2>1. PICK doc : /\ Stays(doc) /\ screen' = [screen EXCEPT !.doc = doc] /\ UNCHANGED <<now, browser>>
                   /\ pending' = [id |-> screen.id, doc |-> doc] /\ kept' = [id |-> screen.id, doc |-> doc]
    BY <1>2, DocStays DEF Edit, ResetToDefault, scheduleSave
  <2>2. screen' = [id |-> screen.id, doc |-> doc]
    BY <1>0, <2>1 DEF Storage
  <2>. QED  BY <1>0, <2>1, <2>2 DEF browser, Storage, EditInv, Stays, Migrated
<1>3. CASE SaveTimer
  <2>1. local' = Flushed /\ pending' = Nothing /\ now' = now + 1 /\ UNCHANGED <<screen, activeId, kept>>
    BY <1>3 DEF SaveTimer, Flushed, Tick
  <2>. QED  BY <1>0, <2>1, FlushedEdits, FlushedKeepsForm DEF Storage
<1>4. ASSUME NEW i \in Ids, SaveAs(i) \/ LoadLayout(i) PROVE Storage' /\ EditInv'
  <2>1. /\ kept' = Nothing /\ activeId' = i /\ now' \in {now, now + 1}
        /\ screen' = [screen EXCEPT !.id = i] \/ screen' = [id |-> i, doc |-> Loaded(local, i)]
        /\ local' = local \/ local' = SavedLocally(local, i, screen.doc)
    BY <1>4 DEF SaveAs, LoadLayout, Tick
  <2>2. local' = [j \in Ids |-> local'[j]]
    BY <1>0, <2>1, SavedKeepsForm DEF Storage
  <2>3. screen' = [id |-> i, doc |-> screen'.doc]
    BY <1>0, <2>1 DEF Storage
  <2>. QED  BY <1>0, <2>1, <2>2, <2>3 DEF Storage, EditInv
<1>5. CASE WriteNote \/ RemoveNote
  BY <1>0, <1>5 DEF WriteNote, RemoveNote, Storage, EditInv, IsStored, Stays, Migrated
<1>6. ASSUME NEW l \in Logins, PullAnswered(l) PROVE Storage' /\ EditInv'
  <2>1. \/ UNCHANGED <<now, local, activeId, screen, pending, kept>>
        \/ Takes(l, server[l]) /\ UNCHANGED pending /\ server[l] \notin {NoBundle, Garbled}
    BY <1>6 DEF PullAnswered, Keeps, browser
  <2>2. CASE UNCHANGED <<now, local, activeId, screen, pending, kept>>
    BY <1>0, <2>2 DEF Storage, EditInv, IsStored, Stays, Migrated
  <2>. QED  BY <2>1, <2>2, TakesEdits DEF MirrorInv, Entries
<1>7. CASE Hide \/ Reload
  <2>1. /\ local' = Flushed /\ pending' = Nothing /\ now' \in {now, now + 1}
        /\ UNCHANGED <<activeId, kept>>
        /\ screen' = screen \/ screen' = [id |-> Active, doc |-> Loaded(Flushed, Active)]
    BY <1>7 DEF Hide, Reload, Tick
  <2>2. Active \in Ids
    BY <1>0 DEF Active, Storage
  <2>. QED  BY <1>0, <2>1, <2>2, FlushedEdits, FlushedKeepsForm DEF Storage
<1>8. CASE \/ Attach \/ PushTimer \/ PushAccepted \/ PushFails
           \/ \E l \in Logins : SwitchAccount(l) \/ PullFails(l)
  BY <1>1, <1>8 DEF Attach, PushTimer, PushAccepted, PushFails, SwitchAccount, PullFails
<1>9. ASSUME NEW l \in Logins, OtherDeviceWrites(l) PROVE Storage' /\ EditInv'
  BY <1>0, <1>9 DEF OtherDeviceWrites, Tick, browser, Storage, EditInv, IsStored, Stays, Migrated
<1>. QED
  BY <1>1, <1>2, <1>3, <1>4, <1>5, <1>6, <1>7, <1>8, <1>9 DEF Next, Layouts, Mirror, vars

LEMMA MirrorInvHolds == Init => MirrorInv
<1>. SUFFICES ASSUME Init PROVE MirrorInv
  OBVIOUS
<1>1. Entries
  <2>1. \A l \in Logins : server[l] \in {NoBundle, Garbled} \/ IsBundle(server[l])
    <3>. SUFFICES ASSUME NEW l \in Logins, server[l] \notin {NoBundle, Garbled}
                 PROVE  IsBundle(server[l])
      OBVIOUS
    <3>1. \E s \in {SchemaVersion, SchemaVersion + 1} : server[l] =
            [kind |-> "bundle", at |-> 1, docs |-> [i \in {Default} |-> [Doc(1, TRUE) EXCEPT !.schema = s]],
             active |-> None, note |-> 1]
      BY DEF Init
    <3>2. server[l].kind = "bundle" /\ server[l].active = None
      BY <3>1
    <3>. QED
      BY <3>2 DEF IsBundle
  <2>2. server = [l \in Logins |-> server[l]]
    BY DEF Init
  <2>. QED  BY <2>1, <2>2 DEF Entries
<1>. QED  BY <1>1 DEF Init, MirrorInv, Accounts, ReadFirst, Storage, EditInv

LEMMA MirrorInvKept == MirrorInv /\ [Next]_vars => MirrorInv'
BY EntriesKept, AccountsKept, ReadFirstKept, StorageKept DEF MirrorInv, SameReads

\* What a tab could not read at the gateway it never overwrites, for any accounts, faults and other
\* devices: a push goes only to an account whose bundle was read (synced-store.ts, push).
THEOREM PushesAreInformed == Spec => PushesKnowTheServer
<1>1. ASSUME MirrorInv, [Next]_vars
      PROVE  [\A l \in Logins : server[l] = Garbled => server'[l] = Garbled]_vars
  BY <1>1, EntriesKept DEF SameReads
<1>. QED  BY <1>1, MirrorInvHolds, MirrorInvKept, PTL DEF Spec, PushesKnowTheServer

\* The latest edit of the layout on the screen is in the storage or waits for its timer, over
\* reloads, hidden pages, pulls and changes of account (update, flushWorkspaceSave).
THEOREM EditsAreKept == Spec => []LatestEditIsKept
<1>1. MirrorInv => LatestEditIsKept
  BY DEF MirrorInv, EditInv, IsStored, LatestEditIsKept
<1>. QED  BY <1>1, MirrorInvHolds, MirrorInvKept, PTL DEF Spec
=============================================================================
