---------------------------- MODULE WorkspaceSync ----------------------------
(***************************************************************************)
(* The layouts of the web terminal and the notes of its journal, in one    *)
(* tab: the document on the screen, the copy in the browser's storage, and *)
(* the bundle that mirrors it at the gateway, one per account.             *)
(* (frontend/src/workspace/persistence, layout/workspace-store.ts,         *)
(* features/journal/journal-store.ts.)                                     *)
(*                                                                         *)
(* What a layout contains is a version number: the contents are the module *)
(* WorkspaceLayout.  Two timers run, of 600 ms before a document goes to   *)
(* the storage and of 2 s before the storage goes to the gateway; other    *)
(* devices write the bundles too.                                          *)
(***************************************************************************)
EXTENDS Integers, FiniteSets, FiniteSetsExt

CONSTANTS
  Logins, NoLogin,
  Ids, Default,   \* the ids of layouts, and the one of the layout that comes with the terminal
  Past,           \* the versions of the terminal that a layout in the storage may come from
  MaxEdits,       \* bound: versions of the layouts and the note
  MaxTime,        \* bound: instants at which something is stamped
  MaxFaults       \* bound: failures, reloads, account switches and writes of other devices

ASSUME SyncAssumption == NoLogin \notin Logins /\ Default \in Ids /\ MaxEdits \in Nat /\ MaxTime \in Nat /\ MaxFaults \in Nat

VARIABLES
  now, edits, faults,
  screen,     \* [id, doc]: the workspace of the store
  pending,    \* pendingSave and its timer: [id, doc] or Nothing
  local,      \* id -> [doc, at], or Absent
  activeId,   \* the id in the storage, or None
  note,       \* the journal: the version of its note; 0 is no note
  login,      \* the active account
  due,        \* the effect of a change of account has still to run
  pulls,      \* the accounts whose bundle is being read
  pulledFor, pushTimer,
  pushInFlight,   \* the push that is out, [login, bundle], or Nothing
  lastPushed, \* lastPushedSignature, or Nothing
  server,     \* login -> bundle, NoBundle or Garbled
  kept        \* history: the latest edit, until something else is put on the screen

browser == <<local, activeId, note>>
syncer == <<pulls, pulledFor, pushTimer, pushInFlight, lastPushed>>
vars == <<now, edits, faults, screen, pending, browser, login, due, syncer, server, kept>>

Nothing == [id |-> "nothing"]
None == "none"
Absent == [at |-> 0]
SchemaVersion == 3

\* real: someone has arranged this layout, it does not descend from the terminal's own.
Doc(v, real) == [schema |-> SchemaVersion, v |-> v, real |-> real]
Blank == Doc(0, FALSE)
NoBundle == [kind |-> "none"]
Garbled == [kind |-> "garbled"]

Tick == now < MaxTime /\ now' = now + 1
Fault == faults < MaxFaults /\ faults' = faults + 1

----------------------------------------------------------------------------
\* The storage of the browser.

\* migrateWorkspace: an older document is upgraded, a newer one is not understood.
Readable(doc) == doc.schema <= SchemaVersion
Migrated(doc) == [doc EXCEPT !.schema = SchemaVersion]

Listed(loc) == {i \in Ids : loc[i] # Absent}

\* load: what cannot be read is replaced by the terminal's own layout.
Loaded(loc, i) == IF loc[i] # Absent /\ Readable(loc[i].doc) THEN Migrated(loc[i].doc) ELSE Blank

SavedLocally(loc, i, doc) == [loc EXCEPT ![i] = [doc |-> Migrated(doc), at |-> now + 1]]

Active == IF activeId = None THEN Default ELSE activeId

----------------------------------------------------------------------------
\* The bundle.

\* bundleSignature: the contents without their stamps.
Contents(b) == [docs |-> b.docs, active |-> b.active, note |-> b.note]
Bundle(loc, active, n) ==
  [kind |-> "bundle", at |-> now,
   docs |-> [i \in {i \in Listed(loc) : Readable(loc[i].doc)} |-> Migrated(loc[i].doc)],
   active |-> active, note |-> n]

NewestLocal == Max({local[i].at : i \in Listed(local)})
remoteIsNewer(b) == Listed(local) = {} \/ b.at > NewestLocal

\* applyBundle saves what it can read, with a stamp of this browser.
Applied(b) == [i \in Ids |-> IF i \in DOMAIN b.docs /\ Readable(b.docs[i])
                             THEN [doc |-> Migrated(b.docs[i]), at |-> now + 1] ELSE local[i]]

\* mergeRemoteJournal: note by note, the newer wins; a bundle without notes says nothing.
mergeRemoteJournal(mine, theirs) == IF theirs > mine THEN theirs ELSE mine

----------------------------------------------------------------------------
\* The screen.

scheduleSave(doc) == pending' = doc

\* update(): any change to the layout, a panel that measures itself included.
Edit ==
  LET doc == Doc(edits + 1, screen.doc.real) IN
  /\ edits < MaxEdits /\ edits' = edits + 1
  /\ screen' = [screen EXCEPT !.doc = doc]
  /\ scheduleSave([id |-> screen.id, doc |-> doc])
  /\ kept' = [id |-> screen.id, doc |-> doc]
  /\ UNCHANGED <<now, faults, browser, login, due, syncer, server>>

\* resetToDefault: the user's choice, so it counts as an arranged layout.
ResetToDefault ==
  LET doc == Doc(edits + 1, TRUE) IN
  /\ edits < MaxEdits /\ edits' = edits + 1
  /\ screen' = [screen EXCEPT !.doc = doc]
  /\ scheduleSave([id |-> screen.id, doc |-> doc])
  /\ kept' = [id |-> screen.id, doc |-> doc]
  /\ UNCHANGED <<now, faults, browser, login, due, syncer, server>>

\* schedulePush: nothing is pushed for an account whose bundle has not been read.
schedulePush(known) == pushTimer' = (pushTimer \/ known # NoLogin)

SaveTimer ==
  /\ pending # Nothing /\ Tick
  /\ local' = SavedLocally(local, pending.id, pending.doc)
  /\ pending' = Nothing
  /\ schedulePush(pulledFor)
  /\ UNCHANGED <<edits, faults, screen, activeId, note, login, due, pulls, pulledFor, pushInFlight, lastPushed, server, kept>>

SaveAs(i) ==
  /\ i \notin Listed(local) \cup {Default} /\ Tick
  /\ local' = SavedLocally(local, i, screen.doc)
  /\ activeId' = i
  /\ screen' = [screen EXCEPT !.id = i]
  /\ schedulePush(pulledFor)
  /\ kept' = Nothing
  /\ UNCHANGED <<edits, faults, pending, note, login, due, pulls, pulledFor, pushInFlight, lastPushed, server>>

LoadLayout(i) ==
  /\ i \in Listed(local) /\ i # screen.id
  /\ activeId' = i
  /\ screen' = [id |-> i, doc |-> Loaded(local, i)]
  /\ schedulePush(pulledFor)
  /\ kept' = Nothing
  /\ UNCHANGED <<now, edits, faults, pending, local, note, login, due, pulls, pulledFor, pushInFlight, lastPushed, server>>

WriteNote ==
  /\ edits < MaxEdits /\ edits' = edits + 1 /\ note' = edits'
  /\ schedulePush(pulledFor)
  /\ UNCHANGED <<now, faults, screen, pending, local, activeId, login, due, pulls, pulledFor, pushInFlight, lastPushed, server, kept>>

RemoveNote ==
  /\ note # 0 /\ note' = 0
  /\ schedulePush(pulledFor)
  /\ UNCHANGED <<now, edits, faults, screen, pending, local, activeId, login, due, pulls, pulledFor, pushInFlight, lastPushed, server, kept>>

----------------------------------------------------------------------------
\* The mirror.

SwitchAccount(l) ==
  /\ l # login
  /\ IF login = NoLogin THEN UNCHANGED faults ELSE Fault
  /\ login' = l /\ due' = TRUE
  /\ UNCHANGED <<now, edits, screen, pending, browser, syncer, server, kept>>

\* reset() and resync(), in an effect of the new account.
Attach ==
  /\ due /\ due' = FALSE
  /\ pulledFor' = NoLogin /\ lastPushed' = Nothing /\ pushTimer' = FALSE
  /\ pulls' = pulls \cup {login}
  /\ UNCHANGED <<now, edits, faults, screen, pending, browser, login, pushInFlight, server, kept>>

PullFails(l) ==
  /\ l \in pulls /\ Fault
  /\ pulls' = pulls \ {l}
  /\ UNCHANGED <<now, edits, screen, pending, browser, login, due, pulledFor, pushTimer, pushInFlight, lastPushed, server, kept>>

\* The server's layouts are older, or there are none: the browser's will be pushed.
Keeps(l) == pulledFor' = l /\ pushTimer' = TRUE /\ UNCHANGED <<now, local, activeId, screen, kept>>

\* resync shows the layout that has come.
Takes(l, b) ==
  LET loc == Applied(b)
      active == IF b.active = None THEN activeId ELSE b.active
      id == IF active = None THEN Default ELSE active IN
  /\ Tick
  /\ pulledFor' = l /\ UNCHANGED pushTimer
  /\ local' = loc
  /\ IF \E i \in DOMAIN b.docs : Readable(b.docs[i])
     THEN activeId' = active /\ screen' = [id |-> id, doc |-> Loaded(loc, id)] /\ kept' = Nothing
     ELSE UNCHANGED <<activeId, screen, kept>>

\* mutant: a bundle that cannot be read counts as none
PullGarbledAsNone(l) ==
  LET b == server[l] IN
  /\ l \in pulls /\ pulls' = pulls \ {l}
  /\ IF b \in {NoBundle, Garbled} THEN Keeps(l) /\ UNCHANGED note
     ELSE /\ note' = mergeRemoteJournal(note, b.note)
          /\ IF remoteIsNewer(b) THEN Takes(l, b) ELSE Keeps(l)
  /\ UNCHANGED <<edits, faults, pending, login, due, pushInFlight, lastPushed, server>>

PullAnswered(l) ==
  LET b == server[l] IN
  /\ l \in pulls /\ pulls' = pulls \ {l}
  /\ CASE b = NoBundle -> Keeps(l) /\ UNCHANGED note
       [] b = Garbled -> UNCHANGED <<pulledFor, pushTimer, now, browser, screen, kept>>
       [] OTHER -> /\ note' = mergeRemoteJournal(note, b.note)
                   /\ IF remoteIsNewer(b) THEN Takes(l, b) ELSE Keeps(l)
  /\ UNCHANGED <<edits, faults, pending, login, due, pushInFlight, lastPushed, server>>

\* What push() would send; a push that meets another, or has nothing new to say, is dropped.
Pushed(loc) == Bundle(loc, activeId, note)
Sends(loc) ==
  /\ login # NoLogin /\ login = pulledFor /\ pushInFlight = Nothing
  /\ DOMAIN Pushed(loc).docs # {}
  /\ Contents(Pushed(loc)) # lastPushed
Out(loc) == [id |-> "push", login |-> login, bundle |-> Pushed(loc)]

PushTimer ==
  /\ pushTimer /\ pushTimer' = FALSE
  /\ pushInFlight' = IF Sends(local) THEN Out(local) ELSE pushInFlight
  /\ UNCHANGED <<now, edits, faults, screen, pending, browser, login, due, pulls, pulledFor, lastPushed, server, kept>>

Stored(push) == [server EXCEPT ![push.login] = push.bundle]

PushAccepted ==
  /\ pushInFlight # Nothing
  /\ server' = Stored(pushInFlight)
  /\ lastPushed' = Contents(pushInFlight.bundle) /\ pushInFlight' = Nothing
  /\ UNCHANGED <<now, edits, faults, screen, pending, browser, login, due, pulls, pulledFor, pushTimer, kept>>

PushFails ==
  /\ pushInFlight # Nothing /\ Fault
  /\ server' \in {server, Stored(pushInFlight)}
  /\ pushInFlight' = Nothing
  /\ UNCHANGED <<now, edits, screen, pending, browser, login, due, pulls, pulledFor, pushTimer, lastPushed, kept>>

\* mutant: leaving the page only pushes
FlushedNothing == local

\* flushWorkspaceSave, when the page is hidden or left.
Flushed == IF pending = Nothing THEN local ELSE SavedLocally(local, pending.id, pending.doc)

Hide ==
  /\ pending # Nothing \/ pushTimer
  /\ IF pending = Nothing THEN UNCHANGED now ELSE Tick
  /\ local' = Flushed /\ pending' = Nothing
  /\ pushInFlight' = IF Sends(Flushed) THEN Out(Flushed) ELSE pushInFlight
  \* The save schedules a push of its own after this one.
  /\ pushTimer' = (pending # Nothing /\ pulledFor # NoLogin)
  /\ UNCHANGED <<edits, faults, screen, activeId, note, login, due, pulls, pulledFor, lastPushed, server, kept>>

\* A new document; what was on its way to the gateway may arrive or not.
Reload ==
  /\ Fault /\ Tick
  /\ local' = Flushed /\ pending' = Nothing
  /\ server' \in {server} \cup (IF pushInFlight # Nothing THEN {Stored(pushInFlight)} ELSE {})
                          \cup (IF Sends(Flushed) THEN {Stored(Out(Flushed))} ELSE {})
  /\ screen' = [id |-> Active, doc |-> Loaded(Flushed, Active)]   \* hydrate
  /\ login' = NoLogin /\ due' = FALSE
  /\ pulls' = {} /\ pulledFor' = NoLogin /\ pushTimer' = FALSE /\ pushInFlight' = Nothing /\ lastPushed' = Nothing
  /\ UNCHANGED <<edits, activeId, note, kept>>

OtherDeviceWrites(l) ==
  /\ server[l] # Garbled /\ edits < MaxEdits /\ Fault /\ Tick
  /\ edits' = edits + 1
  /\ \E n \in {0, edits'} :
       server' = [server EXCEPT ![l] =
         [kind |-> "bundle", at |-> now, docs |-> [i \in {Default} |-> Doc(edits + 1, TRUE)], active |-> Default, note |-> n]]
  /\ UNCHANGED <<screen, pending, browser, login, due, syncer, kept>>

----------------------------------------------------------------------------

\* A browser that is new, or that has a layout of an older or a newer version of the terminal;
\* gateways that hold nothing, something else, or a layout of the past.
Init ==
  /\ now = 1 /\ edits = 1 /\ faults = 0
  /\ local \in [Ids -> {Absent}] \cup
       {[i \in Ids |-> IF i = Default THEN [doc |-> [Doc(0, TRUE) EXCEPT !.schema = s], at |-> 1] ELSE Absent] : s \in Past}
  /\ activeId = None /\ note = 0
  /\ screen = [id |-> Default, doc |-> Loaded(local, Default)]
  /\ pending = Nothing /\ kept = Nothing
  /\ login = NoLogin /\ due = FALSE
  /\ pulls = {} /\ pulledFor = NoLogin /\ pushTimer = FALSE /\ pushInFlight = Nothing /\ lastPushed = Nothing
  /\ server \in [Logins -> {NoBundle, Garbled} \cup
       {[kind |-> "bundle", at |-> 1, docs |-> [i \in {Default} |-> [Doc(1, TRUE) EXCEPT !.schema = s]], active |-> None, note |-> 1]
          : s \in {SchemaVersion, SchemaVersion + 1}}]

Layouts == Edit \/ ResetToDefault \/ SaveTimer \/ (\E i \in Ids : SaveAs(i) \/ LoadLayout(i)) \/ WriteNote \/ RemoveNote
Mirror ==
  \/ Attach \/ PushTimer \/ PushAccepted \/ PushFails \/ Hide
  \/ \E l \in Logins : SwitchAccount(l) \/ PullFails(l) \/ PullAnswered(l)

Next == Layouts \/ Mirror \/ Reload \/ \E l \in Logins : OtherDeviceWrites(l)

Spec == Init /\ [][Next]_vars

----------------------------------------------------------------------------
\* Properties.

\* What this tab could not read at the gateway it never overwrites, whatever it has read for
\* another account or before a reload: a push needs a bundle of the same account that was read
\* since the tab took the account up (synced-store.ts:16 and :166).
PushesKnowTheServer ==
  [][\A l \in Logins : server[l] = Garbled => server'[l] = Garbled]_vars

\* The latest change to the layout on the screen is in the storage or on its way to it, across
\* reloads, pulls and hidden pages (flushWorkspaceSave).
LatestEditIsKept ==
  kept # Nothing =>
    \/ pending = kept
    \/ local[kept.id] # Absent /\ local[kept.id].doc = kept.doc

\* A browser that starts on the terminal's own layout does not put it over one that somebody has
\* arranged (synced-store.ts:18).
RealLayoutsSurvive ==
  [][\A l \in Logins : \A i \in Ids :
       server[l].kind = "bundle" /\ i \in DOMAIN server[l].docs /\ server[l].docs[i].real
         => ~(i \in DOMAIN server'[l].docs /\ ~server'[l].docs[i].real)]_vars

=============================================================================
