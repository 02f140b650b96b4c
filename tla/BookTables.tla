----------------------------- MODULE BookTables -----------------------------
(***************************************************************************)
(* The book in PostgreSQL: pgBrokerStore (store.go) writes, in one         *)
(* transaction, the counters, every account's positions and working        *)
(* orders, and only the rows its history and deals have gained since the   *)
(* last save it knows of.                                                  *)
(*                                                                         *)
(* disk is what a load would read.  Two things can part the tables and the *)
(* snapshot: an engine that could not read the tables starts empty and     *)
(* writes over them, and a list that a reset emptied may have grown past   *)
(* what was stored of it before the next save sees it short.  tie tells    *)
(* which commit is the first to do so; nothing is followed after it.  (The *)
(* accounts of a save are written in one go here: their order is seen only *)
(* where two of them clash on a ticket, which takes such an engine.)       *)
(***************************************************************************)
EXTENDS BookFile, FiniteSets

VARIABLES
  meta,        \* broker_meta.next_ticket, 0 before the first commit
  known,       \* broker_accounts: logins
  posRows,     \* broker_positions: [login, item]
  orderRows,   \* broker_orders: [login, item, working, seq]
  dealRows,    \* broker_deals: [login, item, seq]
  persisted,   \* login -> [history, deals]: rows the store knows it has written
  emptied,     \* logins reset since the last snapshot (history)
  emptying,    \* logins reset in a snapshot that the store is not known to have (history)
  tie          \* "sound"; "unread": Load failed; "broken": the tables are no snapshot (history)

tables == <<meta, known, posRows, orderRows, dealRows>>

resets == <<emptied, emptying>>

NothingPersisted == [l \in Logins |-> [history |-> 0, deals |-> 0]]

-----------------------------------------------------------------------------
(* Save *)

\* Where in a list of the snapshot a save starts: after what is persisted, or at
\* its beginning when it has shrunk.
From(list, was) == IF Len(list) < was THEN 1 ELSE was + 1

\* The rows of l a save deletes, and the ones it inserts; seq counts from zero.
Shrunk(list, was) == Len(list) < was

Inserted(l, list, was) ==
  {[login |-> l, item |-> list[i], working |-> FALSE, seq |-> i - 1] :
     i \in From(list, was)..Len(list)}

InsertedDealsRenumbered(l, list, was) ==
  {[login |-> l, item |-> list[i], seq |-> i - From(list, was)] :
     i \in From(list, was)..Len(list)}

InsertedDeals(l, list, was) ==
  {[login |-> l, item |-> list[i], seq |-> i - 1] : i \in From(list, was)..Len(list)}

Resting(l, items) ==
  {[login |-> l, item |-> o, working |-> TRUE, seq |-> 0] : o \in items}

\* ON CONFLICT (ticket) DO UPDATE: the row stays the account's it was.  And DO NOTHING.
Upsert(rows, new) ==
  LET Same(r) == {n \in new : n.item.ticket = r.item.ticket}
  IN  {r \in rows : Same(r) = {}}
        \cup (UNION {{[r EXCEPT !.working = n.working, !.seq = n.seq] : n \in Same(r)} : r \in rows})
        \cup {n \in new : \A r \in rows : r.item.ticket # n.item.ticket}
InsertOrKeep(rows, new) ==
  rows \cup {n \in new : \A r \in rows : r.item.ticket # n.item.ticket}

\* pgBrokerStore.Save of snapshot st, as the transaction leaves the tables.  It cannot commit
\* while a ticket of a position is the key of another account's row.
Written(st) ==
  LET touched == DOMAIN st.acc
  IN  /\ \A r \in posRows, l \in touched : \A p \in st.acc[l].positions :
           r.login \notin touched => r.item.ticket # p.ticket
      /\ meta' = st.next
      /\ known' = known \cup touched
      /\ posRows' = {r \in posRows : r.login \notin touched} \cup
           UNION {{[login |-> l, item |-> p] : p \in st.acc[l].positions} : l \in touched}
      /\ orderRows' = Upsert(
           {r \in orderRows :
              r.login \in touched =>
                /\ ~r.working
                /\ ~Shrunk(st.acc[r.login].history, persisted[r.login].history)},
           UNION {Resting(l, st.acc[l].working) \cup
                  Inserted(l, st.acc[l].history, persisted[l].history) : l \in touched})
      /\ dealRows' = InsertOrKeep(
           {r \in dealRows :
              r.login \in touched =>
                ~Shrunk(st.acc[r.login].deals, persisted[r.login].deals)},
           UNION {InsertedDeals(l, st.acc[l].deals, persisted[l].deals) : l \in touched})

-----------------------------------------------------------------------------
(* Load *)

\* ORDER BY seq, ticket.
BySeq(r, s) == \/ r.seq < s.seq
               \/ r.seq = s.seq /\ r.item.ticket < s.item.ticket
Place(r, rows) == Cardinality({s \in rows : BySeq(s, r)}) + 1
Listed(rows) == [i \in 1..Cardinality(rows) |-> (CHOOSE r \in rows : Place(r, rows) = i).item]

LoadedAccount(l) ==
  [positions |-> {r.item : r \in {p \in posRows : p.login = l}},
   working   |-> {r.item : r \in {o \in orderRows : o.login = l /\ o.working}},
   history   |-> Listed({o \in orderRows : o.login = l /\ ~o.working}),
   deals     |-> Listed({d \in dealRows : d.login = l})]

\* What the tables hold, as pgBrokerStore.Load reads them.
Loaded ==
  IF meta = 0 THEN EmptyBook
  ELSE [next |-> meta, acc |-> [l \in known |-> LoadedAccount(l)]]

-----------------------------------------------------------------------------
(* What a save needs to be right *)

Prefix(s, t) == Len(s) <= Len(t) /\ \A i \in 1..Len(s) : s[i] = t[i]

\* The rows of a list are replaced, or it goes on where they end: was of the stored ones count.
Follows(list, was, stored) == Shrunk(list, was) \/ (was <= Len(stored) /\ Prefix(stored, list))

Stored(l) == IF l \in DOMAIN disk.acc THEN disk.acc[l] ELSE Untouched

\* An account that was reset has grown again before the store saw it short.
Overtaken(l, st) ==
  \/ ~Follows(st.acc[l].history, persisted[l].history, Stored(l).history)
  \/ ~Follows(st.acc[l].deals, persisted[l].deals, Stored(l).deals)

\* The transaction goes through.
Taken(st) ==
  /\ Written(st)
  /\ tie' = IF tie = "unread" \/ \E l \in emptying \cap DOMAIN st.acc : Overtaken(l, st)
            THEN "broken" ELSE tie

-----------------------------------------------------------------------------
GrowInMemory == Grow /\ UNCHANGED <<tables, persisted, resets, tie>>

ResetInMemory ==
  /\ Marked
  /\ \E l \in Resettable : Reset(l) /\ emptied' = emptied \cup {l}
  /\ UNCHANGED <<tables, persisted, emptying, tie>>

BeginCommit ==
  /\ SaveBegin
  /\ emptied' = {} /\ emptying' = emptying \cup emptied
  /\ UNCHANGED <<tables, persisted, tie>>

Counts(st, l) ==
  IF l \in DOMAIN st.acc
  THEN [history |-> Len(st.acc[l].history), deals |-> Len(st.acc[l].deals)]
  ELSE persisted[l]

Commit ==
  /\ SaveReturns
  /\ Taken(saving)
  /\ persisted' = [l \in Logins |-> Counts(saving, l)]
  /\ emptying' = {} /\ UNCHANGED emptied

\* The transaction is rolled back.
Rollback == SaveErrs /\ UNCHANGED <<tables, persisted, resets, tie>>

\* The commit went through and its answer was lost: the counts are not advanced.
CommitUnheard ==
  /\ AnswersLost
  /\ SaveErrs
  /\ Taken(saving)
  /\ UNCHANGED <<persisted, resets>>

Die ==
  /\ Stop
  /\ \/ UNCHANGED tables /\ tie' = "sound"
     \/ writing /\ Taken(saving)
  /\ persisted' = NothingPersisted
  /\ emptied' = {} /\ emptying' = {}

\* openPGBrokerStore and load: the counts are those of the rows read.
Reopen ==
  /\ Start(Loaded)
  /\ persisted' = [l \in Logins |->
       IF l \in known THEN [history |-> Len(LoadedAccount(l).history),
                            deals |-> Len(LoadedAccount(l).deals)]
       ELSE persisted[l]]
  /\ UNCHANGED <<tables, resets, tie>>

\* load(), "starting empty": the counts stay at nothing, and so does the ticket counter.
ReopenEmpty ==
  /\ LoadMayFail
  /\ Start(EmptyBook)
  /\ tie' = IF meta = 0 THEN "sound" ELSE "unread"
  /\ UNCHANGED <<tables, persisted, resets>>

TablesInit ==
  /\ MemoryInit
  /\ meta = 0 /\ known = {}
  /\ posRows = {} /\ orderRows = {} /\ dealRows = {}
  /\ persisted = NothingPersisted
  /\ emptied = {} /\ emptying = {} /\ tie = "sound"
  /\ disk = Loaded

TablesNext ==
  /\ tie # "broken"
  /\ \/ GrowInMemory \/ ResetInMemory \/ BeginCommit \/ Commit \/ Rollback \/ CommitUnheard
     \/ Die \/ Reopen \/ ReopenEmpty
  /\ disk' = Loaded'

tablesVars == <<fileVars, tables, persisted, resets, tie>>

TablesSpec == TablesInit /\ [][TablesNext]_tablesVars

-----------------------------------------------------------------------------
\* Appending rows keeps the same promise as writing whole snapshots: whatever commits, fails, is
\* lost or crashes, the tables read back as a snapshot that the engine took (pgBrokerStore.Save,
\* Load).  Accounts that are reset are no exception as long as a save sees their lists shorter
\* than it knows them.  Two commits break the promise, and are where this property ends: that of
\* an engine that could not load the tables, and that of lists that grew again unseen.
StoresSnapshots == Init /\ [][Next \/ tie' = "broken"]_fileVars

\* No change is forgotten by the save loop, over either store (ChangesKept), as long as the
\* tables have not been broken.
CleanIsDurable == tie # "broken" => ChangesKept

\* While the process runs and the store accepts a snapshot now and then, every ticket given out
\* is some day behind a stored counter (the save loop).  An engine over tables it could not load
\* may never save: a ticket it gives out again can be the key of a stored position.
EventuallyDurable ==
  \A t \in 1..MaxTicket : (up /\ t < book.next) ~> (~up \/ t < disk.next \/ tie # "sound")
=============================================================================
