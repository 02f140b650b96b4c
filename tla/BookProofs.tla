----------------------------- MODULE BookProofs -----------------------------
(***************************************************************************)
(* No change to the book is forgotten by the save loop, and the tables of  *)
(* the relational store implement a store of whole snapshots: for every    *)
(* set of accounts and every interleaving of changes, resets, saves,       *)
(* failures, lost answers, crashes and failed loads, up to the commit of   *)
(* an engine that could not load, or of a list that was emptied and grew   *)
(* again unseen.                                                           *)
(***************************************************************************)
EXTENDS BookTables, FiniteSetTheorems, FunctionTheorems, TLAPS

-----------------------------------------------------------------------------
(* The save loop *)

LEMMA InitSave == Init => SaveInv
BY DEF Init, MemoryInit, SaveInv, ChangesKept

\* What the engine does to the book marks it changed.
LEMMA ChangeSave == SaveInv /\ ChangeBook => SaveInv'
BY DEF SaveInv, ChangesKept, ChangeBook, Change, Grow, Marked

\* save() clears the mark only together with taking the snapshot.
LEMMA BeginSave_ == SaveInv /\ BeginSave => SaveInv'
BY DEF SaveInv, ChangesKept, BeginSave, SaveBegin

LEMMA EndSave == SaveInv /\ (SaveDone \/ SaveFailed \/ SaveUnheard) => SaveInv'
BY DEF SaveInv, ChangesKept, SaveDone, SaveFailed, SaveUnheard,
       SaveReturns, SaveErrs, SaveEnds

LEMMA StopStartSave ==
  SaveInv /\ (Crash \/ Restart \/ RestartEmpty) => SaveInv'
BY DEF SaveInv, ChangesKept, Crash, Stop, Restart, RestartEmpty, Start

LEMMA StepSave == SaveInv /\ [Next]_fileVars => SaveInv'
<1> SUFFICES ASSUME SaveInv, [Next]_fileVars PROVE SaveInv'
  OBVIOUS
<1>1. CASE UNCHANGED fileVars
  BY <1>1 DEF fileVars, memory, SaveInv, ChangesKept
<1>2. CASE Next
  BY <1>2, ChangeSave, BeginSave_, EndSave, StopStartSave DEF Next
<1> QED
  BY <1>1, <1>2

-----------------------------------------------------------------------------
(* Books, and the rows that hold one *)

Items == [ticket : Nat, era : Nat]

Accounts == [positions : SUBSET Items, working : SUBSET Items,
             history : Seq(Items), deals : Seq(Items)]

Books == [next : Nat \ {0}, acc : UNION {[D -> Accounts] : D \in SUBSET Logins}]

\* The tickets an account has used for orders, and for deals.
OrderTickets(a) == {o.ticket : o \in a.working} \cup {a.history[i].ticket : i \in 1..Len(a.history)}
DealTickets(a) == {a.deals[i].ticket : i \in 1..Len(a.deals)}

\* No two entries of a list have the same ticket.
Distinct(list) ==
  \A i, j \in 1..Len(list) : list[i].ticket = list[j].ticket => i = j

\* An account's orders, resting and done, have tickets of their own, and so have its deals.
Tidy(a) ==
  /\ Distinct(a.history) /\ Distinct(a.deals)
  /\ \A o, p \in a.working : o.ticket = p.ticket => o = p
  /\ \A o \in a.working : \A i \in 1..Len(a.history) : o.ticket # a.history[i].ticket

\* Every ticket was issued once, to one account.
Numbered(b) ==
  /\ \A l \in DOMAIN b.acc :
       /\ Tidy(b.acc[l])
       /\ \A t \in OrderTickets(b.acc[l]) \cup DealTickets(b.acc[l]) : t < b.next
  /\ \A l, m \in DOMAIN b.acc : l # m =>
       /\ OrderTickets(b.acc[l]) \cap OrderTickets(b.acc[m]) = {}
       /\ DealTickets(b.acc[l]) \cap DealTickets(b.acc[m]) = {}

\* b is what d has become: accounts are added, and history and deals only grow but for those
\* of E, which were reset.
Grown(d, b, E) ==
  /\ DOMAIN d.acc \subseteq DOMAIN b.acc
  /\ \A l \in DOMAIN d.acc \ E :
       /\ Prefix(d.acc[l].history, b.acc[l].history)
       /\ Prefix(d.acc[l].deals, b.acc[l].deals)

PosRows(d) ==
  UNION {{[login |-> l, item |-> p] : p \in d.acc[l].positions} : l \in DOMAIN d.acc}

OrderRows(d) ==
  UNION {Resting(l, d.acc[l].working) \cup Inserted(l, d.acc[l].history, 0) : l \in DOMAIN d.acc}

DealRows(d) == UNION {InsertedDeals(l, d.acc[l].deals, 0) : l \in DOMAIN d.acc}

\* The tables hold d and nothing else.
RowsHold(d) ==
  /\ (meta = 0 /\ d = EmptyBook) \/ meta = d.next
  /\ known = DOMAIN d.acc
  /\ posRows = PosRows(d) /\ orderRows = OrderRows(d) /\ dealRows = DealRows(d)

\* The store believes that it has written no more of an account than it has, a reset
\* that it may have missed apart.
CountsOK ==
  /\ persisted \in [Logins -> [history : Nat, deals : Nat]]
  /\ \A l \in Logins :
       /\ l \notin DOMAIN disk.acc => persisted[l] = [history |-> 0, deals |-> 0]
       /\ l \in DOMAIN disk.acc \ emptying =>
            /\ persisted[l].history <= Len(disk.acc[l].history)
            /\ persisted[l].deals <= Len(disk.acc[l].deals)

\* What is in memory, on its way to the store and stored are three ages of one book, when the
\* engine has loaded what was stored.
AgesOK ==
  /\ writing => up
  /\ tie = "sound" =>
       /\ up /\ ~writing => Grown(disk, book, emptied \cup emptying)
       /\ writing => Grown(disk, saving, emptying) /\ Grown(saving, book, emptied)

TablesTypes ==
  /\ book \in Books /\ saving \in Books /\ disk \in Books
  /\ era \in Nat
  /\ tie \in {"sound", "unread"}

TablesOK ==
  /\ TablesTypes
  /\ Numbered(book) /\ Numbered(saving) /\ Numbered(disk)
  /\ RowsHold(disk)
  /\ CountsOK /\ AgesOK

TablesInv == tie = "broken" \/ TablesOK

-----------------------------------------------------------------------------
(* Reading back *)

\* The rows of a list, numbered from zero, are read back in its order.
LEMMA ListedInOrder ==
  ASSUME NEW S, NEW n \in Nat, NEW row \in [1..n -> S],
         \A i \in 1..n : row[i].seq = i - 1 /\ row[i].item \in Items,
         NEW R, R = {row[i] : i \in 1..n}
  PROVE  Listed(R) = [i \in 1..n |-> row[i].item]
<1>1. ASSUME NEW k \in 0..n PROVE Cardinality({row[i] : i \in 1..k}) = k
  <2> DEFINE g == [i \in 1..k |-> row[i]]
             T == {row[i] : i \in 1..k}
  <2>1. g \in [1..k -> T]
    OBVIOUS
  <2>2. \A i, j \in 1..k : g[i] = g[j] => i = j
    <3> SUFFICES ASSUME NEW i \in 1..k, NEW j \in 1..k, row[i] = row[j] PROVE i = j
      OBVIOUS
    <3>1. row[i].seq = i - 1 /\ row[j].seq = j - 1
      OBVIOUS
    <3> QED
      BY <3>1
  <2>3. \A t \in T : \E i \in 1..k : g[i] = t
    OBVIOUS
  <2> HIDE DEF g, T
  <2>4. g \in Bijection(1..k, T)
    BY <2>1, <2>2, <2>3, Fun_IsBij
  <2> QED
    <3>1. ExistsBijection(1..k, T)
      BY <2>4 DEF ExistsBijection
    <3>2. Cardinality(T) = k
      BY <3>1, FS_CountingElements
    <3> QED
      BY <3>2 DEF T
<1>2. Cardinality(R) = n
  BY <1>1
<1>3. ASSUME NEW i \in 1..n PROVE Place(row[i], R) = i
  <2>1. {s \in R : BySeq(s, row[i])} = {row[j] : j \in 1..(i-1)}
    <3>1. ASSUME NEW j \in 1..n PROVE BySeq(row[j], row[i]) <=> j \in 1..(i-1)
      <4>1. row[j].seq = j - 1 /\ row[i].seq = i - 1
        OBVIOUS
      <4>2. ~(row[i].item.ticket < row[i].item.ticket)
        BY DEF Items
      <4> QED
        BY <4>1, <4>2 DEF BySeq
    <3> QED
      BY <3>1
  <2>2. i - 1 \in 0..n
    OBVIOUS
  <2>3. Cardinality({row[j] : j \in 1..(i-1)}) = i - 1
    BY <1>1, <2>2
  <2>4. Place(row[i], R) = (i - 1) + 1
    BY <2>1, <2>3 DEF Place
  <2> QED
    BY <2>4
<1>4. ASSUME NEW i \in 1..n PROVE (CHOOSE r \in R : Place(r, R) = i) = row[i]
  <2>1. \A r \in R : Place(r, R) = i => r = row[i]
    BY <1>3
  <2> QED
    BY <1>3, <2>1
<1>5. Listed(R) = [i \in 1..n |-> (CHOOSE r \in R : Place(r, R) = i).item]
  BY <1>2 DEF Listed
<1> QED
  BY <1>4, <1>5

\* An account of a book, and its lists.
LEMMA AccountOf ==
  ASSUME NEW d \in Books, NEW l \in DOMAIN d.acc
  PROVE  /\ l \in Logins /\ d.acc[l] \in Accounts /\ d.next \in Nat \ {0}
         /\ d.acc[l].positions \subseteq Items /\ d.acc[l].working \subseteq Items
         /\ d.acc[l].history \in Seq(Items) /\ d.acc[l].deals \in Seq(Items)
BY DEF Books, Accounts

HistoryRow(l, list, i) == [login |-> l, item |-> list[i], working |-> FALSE, seq |-> i - 1]
DealRow(l, list, i) == [login |-> l, item |-> list[i], seq |-> i - 1]
RestingRow(l, o) == [login |-> l, item |-> o, working |-> TRUE, seq |-> 0]

LEMMA InsertedRows ==
  ASSUME NEW l, NEW list \in Seq(Items), NEW was \in Nat
  PROVE  /\ Inserted(l, list, was) = {HistoryRow(l, list, i) : i \in From(list, was)..Len(list)}
         /\ InsertedDeals(l, list, was) = {DealRow(l, list, i) : i \in From(list, was)..Len(list)}
BY Zenon DEF Inserted, InsertedDeals, HistoryRow, DealRow

LEMMA RowsOfBook ==
  ASSUME NEW d \in Books, NEW r
  PROVE  /\ r \in PosRows(d) <=>
               \E l \in DOMAIN d.acc : \E p \in d.acc[l].positions : r = [login |-> l, item |-> p]
         /\ r \in OrderRows(d) <=>
               \E l \in DOMAIN d.acc :
                 \/ \E o \in d.acc[l].working : r = RestingRow(l, o)
                 \/ \E i \in 1..Len(d.acc[l].history) : r = HistoryRow(l, d.acc[l].history, i)
         /\ r \in DealRows(d) <=>
               \E l \in DOMAIN d.acc :
                 \E i \in 1..Len(d.acc[l].deals) : r = DealRow(l, d.acc[l].deals, i)
<1>1. ASSUME NEW l \in DOMAIN d.acc
      PROVE  /\ Inserted(l, d.acc[l].history, 0) =
                   {HistoryRow(l, d.acc[l].history, i) : i \in 1..Len(d.acc[l].history)}
             /\ InsertedDeals(l, d.acc[l].deals, 0) =
                   {DealRow(l, d.acc[l].deals, i) : i \in 1..Len(d.acc[l].deals)}
  <2>1. ASSUME NEW list \in Seq(Items)
        PROVE  /\ Inserted(l, list, 0) = {HistoryRow(l, list, i) : i \in 1..Len(list)}
               /\ InsertedDeals(l, list, 0) = {DealRow(l, list, i) : i \in 1..Len(list)}
    <3>1. 0 \in Nat /\ From(list, 0) = 1
      BY DEF From
    <3>2. /\ Inserted(l, list, 0) = {HistoryRow(l, list, i) : i \in From(list, 0)..Len(list)}
          /\ InsertedDeals(l, list, 0) = {DealRow(l, list, i) : i \in From(list, 0)..Len(list)}
      BY <3>1, InsertedRows, ZenonT(60)
    <3> QED
      BY ONLY <3>1, <3>2, Zenon
  <2> QED
    BY <2>1, AccountOf
<1>2. r \in PosRows(d) <=>
        \E l \in DOMAIN d.acc : \E p \in d.acc[l].positions : r = [login |-> l, item |-> p]
  BY DEF PosRows
<1>3. r \in OrderRows(d) <=>
        \E l \in DOMAIN d.acc :
          \/ \E o \in d.acc[l].working : r = RestingRow(l, o)
          \/ \E i \in 1..Len(d.acc[l].history) : r = HistoryRow(l, d.acc[l].history, i)
  <2>1. r \in OrderRows(d) <=>
          \E l \in DOMAIN d.acc :
            r \in Resting(l, d.acc[l].working) \/ r \in Inserted(l, d.acc[l].history, 0)
    BY DEF OrderRows
  <2>2. \A l \in DOMAIN d.acc :
          r \in Resting(l, d.acc[l].working) <=> \E o \in d.acc[l].working : r = RestingRow(l, o)
    BY DEF Resting, RestingRow
  <2>3. \A l \in DOMAIN d.acc :
          r \in Inserted(l, d.acc[l].history, 0) <=>
            \E i \in 1..Len(d.acc[l].history) : r = HistoryRow(l, d.acc[l].history, i)
    BY <1>1
  <2> QED
    BY <2>1, <2>2, <2>3
<1>4. r \in DealRows(d) <=>
        \E l \in DOMAIN d.acc :
          \E i \in 1..Len(d.acc[l].deals) : r = DealRow(l, d.acc[l].deals, i)
  BY <1>1, ZenonT(60) DEF DealRows
<1> QED
  BY <1>2, <1>3, <1>4

\* An account as it is read from given rows: LoadedAccount, of any tables.
AccountIn(pos, orders, deals, l) ==
  [positions |-> {r.item : r \in {p \in pos : p.login = l}},
   working   |-> {r.item : r \in {o \in orders : o.login = l /\ o.working}},
   history   |-> Listed({o \in orders : o.login = l /\ ~o.working}),
   deals     |-> Listed({d \in deals : d.login = l})]

LEMMA AccountReadBack ==
  ASSUME NEW d \in Books, NEW l \in DOMAIN d.acc
  PROVE  AccountIn(PosRows(d), OrderRows(d), DealRows(d), l) = d.acc[l]
<1> DEFINE a == d.acc[l]
<1>0. /\ a \in Accounts /\ a.positions \subseteq Items /\ a.working \subseteq Items
      /\ a.history \in Seq(Items) /\ a.deals \in Seq(Items)
  BY AccountOf
<1>1. {r.item : r \in {p \in PosRows(d) : p.login = l}} = a.positions
  <2>1. {p \in PosRows(d) : p.login = l} = {[login |-> l, item |-> p] : p \in a.positions}
    BY RowsOfBook
  <2>2. ASSUME NEW S PROVE {r.item : r \in {[login |-> l, item |-> p] : p \in S}} = S
    <3>1. \A p : [login |-> l, item |-> p].item = p
      OBVIOUS
    <3> QED
      BY ONLY <3>1, Zenon
  <2> QED
    BY ONLY <2>1, <2>2
<1>2. {r.item : r \in {o \in OrderRows(d) : o.login = l /\ o.working}} = a.working
  <2>1. {o \in OrderRows(d) : o.login = l /\ o.working} = {RestingRow(l, o) : o \in a.working}
    BY RowsOfBook DEF RestingRow, HistoryRow
  <2>2. ASSUME NEW S PROVE {r.item : r \in {RestingRow(l, o) : o \in S}} = S
    <3>1. \A o : RestingRow(l, o).item = o
      BY DEF RestingRow
    <3> QED
      BY ONLY <3>1, Zenon
  <2> QED
    BY ONLY <2>1, <2>2
<1>3. Listed({o \in OrderRows(d) : o.login = l /\ ~o.working}) = a.history
  <2> DEFINE n == Len(a.history)
             row == [i \in 1..n |-> HistoryRow(l, a.history, i)]
             R == {o \in OrderRows(d) : o.login = l /\ ~o.working}
  <2>1. R = {HistoryRow(l, a.history, i) : i \in 1..n}
    BY RowsOfBook DEF RestingRow, HistoryRow
  <2> DEFINE S == {HistoryRow(l, a.history, i) : i \in 1..n}
  <2>2. n \in Nat /\ row \in [1..n -> S] /\ R = {row[i] : i \in 1..n}
    <3>1. n \in Nat
      BY <1>0
    <3>2. row \in [1..n -> S]
      OBVIOUS
    <3>3. R = {row[i] : i \in 1..n}
      BY <2>1
    <3> QED
      BY <3>1, <3>2, <3>3
  <2>3. /\ \A i \in 1..n : row[i].seq = i - 1 /\ row[i].item \in Items
        /\ \A i \in 1..n : row[i].item = a.history[i]
    BY <1>0 DEF HistoryRow
  <2> HIDE DEF R, row, n, S
  <2>4. Listed(R) = [i \in 1..n |-> row[i].item]
    BY ONLY <2>2, <2>3, ListedInOrder, ZenonT(60)
  <2>5. Listed(R) = [i \in 1..n |-> a.history[i]]
    BY <2>3, <2>4
  <2> QED
    BY <1>0, <2>5 DEF R, n
<1>4. Listed({x \in DealRows(d) : x.login = l}) = a.deals
  <2> DEFINE n == Len(a.deals)
             row == [i \in 1..n |-> DealRow(l, a.deals, i)]
             R == {x \in DealRows(d) : x.login = l}
  <2>1. R = {DealRow(l, a.deals, i) : i \in 1..n}
    BY RowsOfBook DEF DealRow
  <2> DEFINE S == {DealRow(l, a.deals, i) : i \in 1..n}
  <2>2. n \in Nat /\ row \in [1..n -> S] /\ R = {row[i] : i \in 1..n}
    <3>1. n \in Nat
      BY <1>0
    <3>2. row \in [1..n -> S]
      OBVIOUS
    <3>3. R = {row[i] : i \in 1..n}
      BY <2>1
    <3> QED
      BY <3>1, <3>2, <3>3
  <2>3. /\ \A i \in 1..n : row[i].seq = i - 1 /\ row[i].item \in Items
        /\ \A i \in 1..n : row[i].item = a.deals[i]
    BY <1>0 DEF DealRow
  <2> HIDE DEF R, row, n, S
  <2>4. Listed(R) = [i \in 1..n |-> row[i].item]
    BY ONLY <2>2, <2>3, ListedInOrder, ZenonT(60)
  <2>5. Listed(R) = [i \in 1..n |-> a.deals[i]]
    BY <2>3, <2>4
  <2> QED
    BY <1>0, <2>5 DEF R, n
<1>5. AccountIn(PosRows(d), OrderRows(d), DealRows(d), l) =
        [positions |-> a.positions, working |-> a.working, history |-> a.history, deals |-> a.deals]
  BY <1>1, <1>2, <1>3, <1>4 DEF AccountIn
<1> QED
  BY <1>0, <1>5 DEF Accounts

\* Tables that hold a book are read as that book (pgBrokerStore.Load), before a step and after it.
LEMMA LoadedIs ==
  ASSUME NEW CONSTANT d \in Books
  PROVE  (RowsHold(d) => Loaded = d) /\ (RowsHold(d)' => Loaded' = d)
<1>1. d = [next |-> d.next, acc |-> [l \in DOMAIN d.acc |-> d.acc[l]]] /\ d.next # 0
  BY DEF Books
<1>2. [l \in DOMAIN d.acc |-> AccountIn(PosRows(d), OrderRows(d), DealRows(d), l)] =
        [l \in DOMAIN d.acc |-> d.acc[l]]
  BY AccountReadBack, Zenon
<1>3. ASSUME NEW m, NEW k, (m = 0 /\ d = EmptyBook) \/ m = d.next, k = DOMAIN d.acc
      PROVE  d = IF m = 0 THEN EmptyBook
                 ELSE [next |-> m,
                       acc |-> [l \in k |-> AccountIn(PosRows(d), OrderRows(d), DealRows(d), l)]]
  <2>1. CASE m = 0 /\ d = EmptyBook
    BY <2>1
  <2>2. CASE m = d.next
    BY <1>1, <1>2, <1>3, <2>2, Zenon
  <2> QED
    BY <1>3, <2>1, <2>2
<1>4. Loaded = IF meta = 0 THEN EmptyBook
               ELSE [next |-> meta, acc |-> [l \in known |-> AccountIn(posRows, orderRows, dealRows, l)]]
  BY DEF Loaded, LoadedAccount, AccountIn
<1>5. Loaded' = IF meta' = 0 THEN EmptyBook
                ELSE [next |-> meta',
                      acc |-> [l \in known' |-> AccountIn(posRows', orderRows', dealRows', l)]]
  BY DEF Loaded, LoadedAccount, AccountIn
<1>6. RowsHold(d) => Loaded = d
  BY <1>3, <1>4, Zenon DEF RowsHold
<1>7. RowsHold(d)' => Loaded' = d
  BY <1>3, <1>5, Zenon DEF RowsHold
<1> QED
  BY <1>6, <1>7

-----------------------------------------------------------------------------
(* Writing *)

LEMMA TicketsDiffer ==
  ASSUME NEW b \in Books, Numbered(b), NEW l \in DOMAIN b.acc, NEW m \in DOMAIN b.acc
  PROVE  /\ \A i \in 1..Len(b.acc[l].history) :
              /\ \A o \in b.acc[m].working : o.ticket # b.acc[l].history[i].ticket
              /\ \A j \in 1..Len(b.acc[m].history) :
                   b.acc[m].history[j].ticket = b.acc[l].history[i].ticket => l = m /\ j = i
         /\ \A i \in 1..Len(b.acc[l].deals), j \in 1..Len(b.acc[m].deals) :
              b.acc[m].deals[j].ticket = b.acc[l].deals[i].ticket => l = m /\ j = i
<1>1. CASE l = m
  BY <1>1 DEF Numbered, Tidy, Distinct
<1>2. CASE l # m
  <2>1. /\ OrderTickets(b.acc[l]) \cap OrderTickets(b.acc[m]) = {}
        /\ DealTickets(b.acc[l]) \cap DealTickets(b.acc[m]) = {}
    BY <1>2 DEF Numbered
  <2> QED
    BY <2>1 DEF OrderTickets, DealTickets
<1> QED
  BY <1>1, <1>2

\* The account l of the book d.
AccountAt(d, l) == IF l \in DOMAIN d.acc THEN d.acc[l] ELSE Untouched

\* What a save of st needs of the counts when d is stored: the rows of a list are replaced,
\* or it goes on where they end.
Continues(was, d, st) ==
  /\ DOMAIN d.acc \subseteq DOMAIN st.acc
  /\ \A l \in DOMAIN st.acc :
       /\ was[l].history \in Nat /\ was[l].deals \in Nat
       /\ Follows(st.acc[l].history, was[l].history, AccountAt(d, l).history)
       /\ Follows(st.acc[l].deals, was[l].deals, AccountAt(d, l).deals)

\* Of a list that follows the stored one: what is kept of the stored rows is where it was, what
\* is inserted is the rest.
LEMMA ListFollows ==
  ASSUME NEW list \in Seq(Items), NEW stored \in Seq(Items), NEW was \in Nat,
         Follows(list, was, stored)
  PROVE  /\ From(list, was)..Len(list) \subseteq 1..Len(list)
         /\ ~Shrunk(list, was) => \A i \in 1..Len(stored) : i \in 1..Len(list) /\ stored[i] = list[i]
         /\ \A i \in 1..Len(list) : i \notin From(list, was)..Len(list) =>
              ~Shrunk(list, was) /\ i \in 1..Len(stored)
<1>1. Len(list) \in Nat /\ Len(stored) \in Nat
  OBVIOUS
<1>2. CASE Shrunk(list, was)
  <2>1. From(list, was) = 1
    BY <1>2 DEF From, Shrunk
  <2> QED
    BY <1>1, <1>2, <2>1
<1>3. CASE ~Shrunk(list, was)
  <2>1. From(list, was) = was + 1 /\ was <= Len(stored) /\ Prefix(stored, list)
    BY <1>3 DEF From, Shrunk, Follows
  <2> QED
    BY <1>1, <1>3, <2>1 DEF Prefix
<1> QED
  BY <1>2, <1>3

LEMMA AccountAtOK ==
  ASSUME NEW d \in Books, NEW l
  PROVE  /\ AccountAt(d, l) \in Accounts
         /\ AccountAt(d, l).history \in Seq(Items) /\ AccountAt(d, l).deals \in Seq(Items)
         /\ l \in DOMAIN d.acc => AccountAt(d, l) = d.acc[l]
         /\ l \notin DOMAIN d.acc =>
              1..Len(AccountAt(d, l).history) = {} /\ 1..Len(AccountAt(d, l).deals) = {}
<1>1. Untouched \in Accounts /\ Untouched.history = <<>> /\ Untouched.deals = <<>>
  BY DEF Untouched, Accounts
<1>2. AccountAt(d, l) \in Accounts
  BY <1>1, AccountOf DEF AccountAt
<1> QED
  BY <1>1, <1>2 DEF AccountAt, Accounts

\* In a book whose tickets were issued once, an order's row is told by its ticket, and so is a
\* deal's.
LEMMA RowsByTicket ==
  ASSUME NEW b \in Books, Numbered(b)
  PROVE  /\ \A r, s \in OrderRows(b) : r.item.ticket = s.item.ticket => r = s
         /\ \A r, s \in DealRows(b) : r.item.ticket = s.item.ticket => r = s
<1>1. ASSUME NEW l \in DOMAIN b.acc, NEW m \in DOMAIN b.acc,
             NEW o \in b.acc[l].working, NEW p \in b.acc[m].working, o.ticket = p.ticket
      PROVE  l = m /\ o = p
  <2>1. l = m
    <3>1. o.ticket \in OrderTickets(b.acc[l]) /\ p.ticket \in OrderTickets(b.acc[m])
      BY DEF OrderTickets
    <3> QED
      BY <1>1, <3>1 DEF Numbered
  <2> QED
    BY <1>1, <2>1 DEF Numbered, Tidy
<1>2. ASSUME NEW r \in OrderRows(b), NEW s \in OrderRows(b), r.item.ticket = s.item.ticket
      PROVE  r = s
  <2>1. PICK l \in DOMAIN b.acc :
               \/ \E o \in b.acc[l].working : r = RestingRow(l, o)
               \/ \E i \in 1..Len(b.acc[l].history) : r = HistoryRow(l, b.acc[l].history, i)
    BY RowsOfBook
  <2>2. PICK m \in DOMAIN b.acc :
               \/ \E o \in b.acc[m].working : s = RestingRow(m, o)
               \/ \E i \in 1..Len(b.acc[m].history) : s = HistoryRow(m, b.acc[m].history, i)
    BY RowsOfBook
  <2>3. \A k, x : RestingRow(k, x).item = x
    BY DEF RestingRow
  <2>4. \A k, list, i : HistoryRow(k, list, i).item = list[i]
    BY DEF HistoryRow
  <2>5. CASE /\ \E o \in b.acc[l].working : r = RestingRow(l, o)
             /\ \E p \in b.acc[m].working : s = RestingRow(m, p)
    BY <1>1, <1>2, <2>3, <2>5
  <2>6. CASE /\ \E o \in b.acc[l].working : r = RestingRow(l, o)
             /\ \E i \in 1..Len(b.acc[m].history) : s = HistoryRow(m, b.acc[m].history, i)
    BY <1>2, <2>3, <2>4, <2>6, TicketsDiffer
  <2>7. CASE /\ \E i \in 1..Len(b.acc[l].history) : r = HistoryRow(l, b.acc[l].history, i)
             /\ \E p \in b.acc[m].working : s = RestingRow(m, p)
    BY <1>2, <2>3, <2>4, <2>7, TicketsDiffer
  <2>8. CASE /\ \E i \in 1..Len(b.acc[l].history) : r = HistoryRow(l, b.acc[l].history, i)
             /\ \E i \in 1..Len(b.acc[m].history) : s = HistoryRow(m, b.acc[m].history, i)
    <3>1. PICK i \in 1..Len(b.acc[l].history) : r = HistoryRow(l, b.acc[l].history, i)
      BY <2>8
    <3>2. PICK j \in 1..Len(b.acc[m].history) : s = HistoryRow(m, b.acc[m].history, j)
      BY <2>8
    <3>3. b.acc[m].history[j].ticket = b.acc[l].history[i].ticket
      BY <1>2, <2>4, <3>1, <3>2
    <3>4. l = m /\ j = i
      BY <3>3, TicketsDiffer
    <3> QED
      BY <3>1, <3>2, <3>4
  <2> QED
    BY <2>1, <2>2, <2>5, <2>6, <2>7, <2>8
<1>3. ASSUME NEW r \in DealRows(b), NEW s \in DealRows(b), r.item.ticket = s.item.ticket
      PROVE  r = s
  <2>1. PICK l \in DOMAIN b.acc : \E i \in 1..Len(b.acc[l].deals) : r = DealRow(l, b.acc[l].deals, i)
    BY RowsOfBook
  <2>2. PICK m \in DOMAIN b.acc : \E i \in 1..Len(b.acc[m].deals) : s = DealRow(m, b.acc[m].deals, i)
    BY RowsOfBook
  <2>3. PICK i \in 1..Len(b.acc[l].deals) : r = DealRow(l, b.acc[l].deals, i)
    BY <2>1
  <2>4. PICK j \in 1..Len(b.acc[m].deals) : s = DealRow(m, b.acc[m].deals, j)
    BY <2>2
  <2>5. b.acc[m].deals[j].ticket = b.acc[l].deals[i].ticket
    BY <1>3, <2>3, <2>4 DEF DealRow
  <2>6. l = m /\ j = i
    BY <2>5, TicketsDiffer
  <2> QED
    BY <2>3, <2>4, <2>6
<1> QED
  BY <1>2, <1>3

\* A row told by its ticket is inserted, or updated to what it is.
LEMMA UpsertUnion ==
  ASSUME NEW rows, NEW kept, NEW new, kept \cup new = rows,
         \A r, s \in rows : r.item.ticket = s.item.ticket => r = s,
         \A r \in rows : r = [login |-> r.login, item |-> r.item, working |-> r.working, seq |-> r.seq]
  PROVE  Upsert(kept, new) = rows
<1>1. ASSUME NEW r \in kept, NEW n \in new, n.item.ticket = r.item.ticket
      PROVE  n = r /\ [r EXCEPT !.working = n.working, !.seq = n.seq] = r
  <2>1. n = r
    BY <1>1
  <2>2. r = [login |-> r.login, item |-> r.item, working |-> r.working, seq |-> r.seq]
    OBVIOUS
  <2>3. [r EXCEPT !.working = r.working, !.seq = r.seq] = r
    BY ONLY <2>2
  <2> QED
    BY <2>1, <2>3
<1> DEFINE Same(r) == {n \in new : n.item.ticket = r.item.ticket}
           Updated(r) == {[r EXCEPT !.working = n.working, !.seq = n.seq] : n \in Same(r)}
           alone == {r \in kept : Same(r) = {}}
           updated == UNION {Updated(r) : r \in kept}
           added == {n \in new : \A r \in kept : r.item.ticket # n.item.ticket}
<1>2. Upsert(kept, new) = alone \cup updated \cup added
  BY DEF Upsert
<1>3. ASSUME NEW r \in kept PROVE Same(r) = {n \in new : n = r}
  BY <1>1, <1>3
<1>4. ASSUME NEW r \in kept PROVE Updated(r) = {n \in new : n = r}
  <2>1. \A n \in Same(r) : [r EXCEPT !.working = n.working, !.seq = n.seq] = n
    BY <1>1, <1>4
  <2>2. Same(r) = {n \in new : n = r}
    BY <1>3, <1>4
  <2> HIDE DEF Same
  <2>3. Updated(r) = {n : n \in Same(r)}
    BY ONLY <2>1, Zenon
  <2>4. {n : n \in Same(r)} = Same(r)
    BY ONLY Zenon
  <2> QED
    BY ONLY <2>2, <2>3, <2>4
<1> HIDE DEF Same, Updated
<1>5. updated = kept \cap new
  BY <1>4
<1>6. alone = kept \ new
  BY <1>3
<1>7. added = new \ kept
  <2>1. \A n \in new, r \in kept : r.item.ticket = n.item.ticket => n = r
    BY <1>1
  <2> QED
    BY ONLY <2>1
<1> HIDE DEF alone, updated, added
<1> QED
  BY <1>2, <1>5, <1>6, <1>7

LEMMA OrdersWritten ==
  ASSUME NEW d \in Books, NEW st \in Books, Numbered(st), NEW was, Continues(was, d, st)
  PROVE  OrderRows(st) = Upsert(
           {r \in OrderRows(d) :
              r.login \in DOMAIN st.acc =>
                ~r.working /\ ~Shrunk(st.acc[r.login].history, was[r.login].history)},
           UNION {Resting(l, st.acc[l].working) \cup
                  Inserted(l, st.acc[l].history, was[l].history) : l \in DOMAIN st.acc})
<1> DEFINE kept == {r \in OrderRows(d) :
              r.login \in DOMAIN st.acc =>
                ~r.working /\ ~Shrunk(st.acc[r.login].history, was[r.login].history)}
           new == UNION {Resting(l, st.acc[l].working) \cup
                  Inserted(l, st.acc[l].history, was[l].history) : l \in DOMAIN st.acc}
<1>0. ASSUME NEW l \in DOMAIN st.acc
      PROVE  /\ was[l].history \in Nat /\ st.acc[l].history \in Seq(Items)
             /\ AccountAt(d, l).history \in Seq(Items)
             /\ Follows(st.acc[l].history, was[l].history, AccountAt(d, l).history)
  BY AccountOf, AccountAtOK DEF Continues
<1>1. ASSUME NEW r
      PROVE  r \in new <=>
               \E l \in DOMAIN st.acc :
                 \/ \E o \in st.acc[l].working : r = RestingRow(l, o)
                 \/ \E i \in From(st.acc[l].history, was[l].history)..Len(st.acc[l].history) :
                      r = HistoryRow(l, st.acc[l].history, i)
  <2>1. r \in new <=>
          \E l \in DOMAIN st.acc :
            \/ r \in Resting(l, st.acc[l].working)
            \/ r \in Inserted(l, st.acc[l].history, was[l].history)
    OBVIOUS
  <2>2. \A l \in DOMAIN st.acc :
          r \in Resting(l, st.acc[l].working) <=> \E o \in st.acc[l].working : r = RestingRow(l, o)
    BY DEF Resting, RestingRow
  <2>3. ASSUME NEW l \in DOMAIN st.acc
        PROVE  Inserted(l, st.acc[l].history, was[l].history) =
                 {HistoryRow(l, st.acc[l].history, i) :
                    i \in From(st.acc[l].history, was[l].history)..Len(st.acc[l].history)}
    BY ONLY <1>0, <2>3, InsertedRows, ZenonT(60)
  <2> QED
    BY <2>1, <2>2, <2>3, ZenonT(60)
<1>2. ASSUME NEW r
      PROVE  r \in kept <=>
               \E l \in DOMAIN d.acc :
                 /\ l \in DOMAIN st.acc /\ ~Shrunk(st.acc[l].history, was[l].history)
                 /\ \E i \in 1..Len(d.acc[l].history) : r = HistoryRow(l, d.acc[l].history, i)
  <2>1. r \in OrderRows(d) => r.login \in DOMAIN st.acc
    BY RowsOfBook DEF HistoryRow, RestingRow, Continues
  <2>2. r \in kept <=>
          /\ r \in OrderRows(d) /\ r.login \in DOMAIN st.acc
          /\ ~r.working /\ ~Shrunk(st.acc[r.login].history, was[r.login].history)
    BY <2>1
  <2>3. r \in OrderRows(d) /\ ~r.working <=>
          \E l \in DOMAIN d.acc :
            \E i \in 1..Len(d.acc[l].history) : r = HistoryRow(l, d.acc[l].history, i)
    BY RowsOfBook DEF HistoryRow, RestingRow
  <2>4. \A l, i : r = HistoryRow(l, d.acc[l].history, i) => r.login = l
    BY DEF HistoryRow
  <2> HIDE DEF kept
  <2> QED
    BY <2>2, <2>3, <2>4
<1> HIDE DEF kept, new
<1>3. ASSUME NEW r \in kept PROVE r \in OrderRows(st)
  <2>1. PICK l \in DOMAIN d.acc :
           /\ l \in DOMAIN st.acc /\ ~Shrunk(st.acc[l].history, was[l].history)
           /\ \E i \in 1..Len(d.acc[l].history) : r = HistoryRow(l, d.acc[l].history, i)
    BY <1>2
  <2>2. PICK i \in 1..Len(d.acc[l].history) : r = HistoryRow(l, d.acc[l].history, i)
    BY <2>1
  <2>3. i \in 1..Len(st.acc[l].history) /\ d.acc[l].history[i] = st.acc[l].history[i]
    <3>1. AccountAt(d, l) = d.acc[l]
      BY AccountAtOK
    <3> QED
      BY <1>0, <2>1, <2>2, <3>1, ListFollows
  <2>4. r = HistoryRow(l, st.acc[l].history, i)
    BY <2>2, <2>3 DEF HistoryRow
  <2> QED
    BY <2>1, <2>3, <2>4, RowsOfBook
<1>4. ASSUME NEW r \in new PROVE r \in OrderRows(st)
  <2>1. PICK l \in DOMAIN st.acc :
               \/ \E o \in st.acc[l].working : r = RestingRow(l, o)
               \/ \E i \in From(st.acc[l].history, was[l].history)..Len(st.acc[l].history) :
                    r = HistoryRow(l, st.acc[l].history, i)
    BY <1>1
  <2>2. From(st.acc[l].history, was[l].history)..Len(st.acc[l].history) \subseteq 1..Len(st.acc[l].history)
    BY <1>0, ListFollows
  <2> QED
    BY <2>1, <2>2, RowsOfBook
<1>5. ASSUME NEW r \in OrderRows(st), r \notin new PROVE r \in kept
  <2>1. PICK l \in DOMAIN st.acc :
           \/ \E o \in st.acc[l].working : r = RestingRow(l, o)
           \/ \E i \in 1..Len(st.acc[l].history) : r = HistoryRow(l, st.acc[l].history, i)
    BY RowsOfBook
  <2>2. PICK i \in 1..Len(st.acc[l].history) : r = HistoryRow(l, st.acc[l].history, i)
    BY <1>1, <1>5, <2>1
  <2>3. i \notin From(st.acc[l].history, was[l].history)..Len(st.acc[l].history)
    BY <1>1, <1>5, <2>2
  <2>4. /\ ~Shrunk(st.acc[l].history, was[l].history) /\ i \in 1..Len(AccountAt(d, l).history)
        /\ AccountAt(d, l).history[i] = st.acc[l].history[i]
    BY <1>0, <2>3, ListFollows
  <2>5. l \in DOMAIN d.acc /\ AccountAt(d, l) = d.acc[l]
    BY <2>4, AccountAtOK
  <2>6. r = HistoryRow(l, d.acc[l].history, i)
    BY <2>2, <2>4, <2>5 DEF HistoryRow
  <2> QED
    BY <1>2, <2>4, <2>5, <2>6
<1>6. \A r \in OrderRows(st) :
        r = [login |-> r.login, item |-> r.item, working |-> r.working, seq |-> r.seq]
  BY RowsOfBook DEF HistoryRow, RestingRow
<1>7. OrderRows(st) = Upsert(kept, new)
  BY <1>3, <1>4, <1>5, <1>6, RowsByTicket, UpsertUnion
<1> QED
  BY <1>7 DEF kept, new

LEMMA DealsWritten ==
  ASSUME NEW d \in Books, NEW st \in Books, Numbered(st), NEW was, Continues(was, d, st)
  PROVE  DealRows(st) = InsertOrKeep(
           {r \in DealRows(d) :
              r.login \in DOMAIN st.acc => ~Shrunk(st.acc[r.login].deals, was[r.login].deals)},
           UNION {InsertedDeals(l, st.acc[l].deals, was[l].deals) : l \in DOMAIN st.acc})
<1> DEFINE kept == {r \in DealRows(d) :
              r.login \in DOMAIN st.acc => ~Shrunk(st.acc[r.login].deals, was[r.login].deals)}
           new == UNION {InsertedDeals(l, st.acc[l].deals, was[l].deals) : l \in DOMAIN st.acc}
<1>0. ASSUME NEW l \in DOMAIN st.acc
      PROVE  /\ was[l].deals \in Nat /\ st.acc[l].deals \in Seq(Items)
             /\ AccountAt(d, l).deals \in Seq(Items)
             /\ Follows(st.acc[l].deals, was[l].deals, AccountAt(d, l).deals)
  BY AccountOf, AccountAtOK DEF Continues
<1>1. ASSUME NEW r
      PROVE  r \in new <=>
               \E l \in DOMAIN st.acc :
                 \E i \in From(st.acc[l].deals, was[l].deals)..Len(st.acc[l].deals) :
                   r = DealRow(l, st.acc[l].deals, i)
  <2>1. ASSUME NEW l \in DOMAIN st.acc
        PROVE  InsertedDeals(l, st.acc[l].deals, was[l].deals) =
                 {DealRow(l, st.acc[l].deals, i) :
                    i \in From(st.acc[l].deals, was[l].deals)..Len(st.acc[l].deals)}
    BY ONLY <1>0, <2>1, InsertedRows, ZenonT(60)
  <2> QED
    BY <2>1
<1>2. ASSUME NEW r
      PROVE  r \in kept <=>
               \E l \in DOMAIN d.acc :
                 /\ l \in DOMAIN st.acc /\ ~Shrunk(st.acc[l].deals, was[l].deals)
                 /\ \E i \in 1..Len(d.acc[l].deals) : r = DealRow(l, d.acc[l].deals, i)
  <2>1. r \in DealRows(d) => r.login \in DOMAIN st.acc
    BY RowsOfBook DEF DealRow, Continues
  <2>2. r \in kept <=>
          /\ r \in DealRows(d) /\ r.login \in DOMAIN st.acc
          /\ ~Shrunk(st.acc[r.login].deals, was[r.login].deals)
    BY <2>1
  <2>3. \A l, i : r = DealRow(l, d.acc[l].deals, i) => r.login = l
    BY DEF DealRow
  <2>4. r \in DealRows(d) <=>
          \E l \in DOMAIN d.acc :
            \E i \in 1..Len(d.acc[l].deals) : r = DealRow(l, d.acc[l].deals, i)
    BY RowsOfBook
  <2> HIDE DEF kept
  <2> QED
    BY <2>2, <2>3, <2>4
<1> HIDE DEF kept, new
<1>3. ASSUME NEW r \in kept PROVE r \in DealRows(st)
  <2>1. PICK l \in DOMAIN d.acc :
           /\ l \in DOMAIN st.acc /\ ~Shrunk(st.acc[l].deals, was[l].deals)
           /\ \E i \in 1..Len(d.acc[l].deals) : r = DealRow(l, d.acc[l].deals, i)
    BY <1>2
  <2>2. PICK i \in 1..Len(d.acc[l].deals) : r = DealRow(l, d.acc[l].deals, i)
    BY <2>1
  <2>3. i \in 1..Len(st.acc[l].deals) /\ d.acc[l].deals[i] = st.acc[l].deals[i]
    <3>1. AccountAt(d, l) = d.acc[l]
      BY AccountAtOK
    <3> QED
      BY <1>0, <2>1, <2>2, <3>1, ListFollows
  <2>4. r = DealRow(l, st.acc[l].deals, i)
    BY <2>2, <2>3 DEF DealRow
  <2> QED
    BY <2>1, <2>3, <2>4, RowsOfBook
<1>4. ASSUME NEW r \in new PROVE r \in DealRows(st)
  <2>1. PICK l \in DOMAIN st.acc :
           \E i \in From(st.acc[l].deals, was[l].deals)..Len(st.acc[l].deals) :
             r = DealRow(l, st.acc[l].deals, i)
    BY <1>1
  <2>2. From(st.acc[l].deals, was[l].deals)..Len(st.acc[l].deals) \subseteq 1..Len(st.acc[l].deals)
    BY <1>0, ListFollows
  <2> QED
    BY <2>1, <2>2, RowsOfBook
<1>5. ASSUME NEW r \in DealRows(st), r \notin new PROVE r \in kept
  <2>1. PICK l \in DOMAIN st.acc : \E i \in 1..Len(st.acc[l].deals) : r = DealRow(l, st.acc[l].deals, i)
    BY RowsOfBook
  <2>2. PICK i \in 1..Len(st.acc[l].deals) : r = DealRow(l, st.acc[l].deals, i)
    BY <2>1
  <2>3. i \notin From(st.acc[l].deals, was[l].deals)..Len(st.acc[l].deals)
    BY <1>1, <1>5, <2>2
  <2>4. /\ ~Shrunk(st.acc[l].deals, was[l].deals) /\ i \in 1..Len(AccountAt(d, l).deals)
        /\ AccountAt(d, l).deals[i] = st.acc[l].deals[i]
    BY <1>0, <2>3, ListFollows
  <2>5. l \in DOMAIN d.acc /\ AccountAt(d, l) = d.acc[l]
    BY <2>4, AccountAtOK
  <2>6. r = DealRow(l, d.acc[l].deals, i)
    BY <2>2, <2>4, <2>5 DEF DealRow
  <2> QED
    BY <1>2, <2>4, <2>5, <2>6
<1>6. ASSUME NEW n \in new, NEW r \in kept, r.item.ticket = n.item.ticket PROVE n \in kept
  BY <1>3, <1>4, <1>6, RowsByTicket
<1>7. DealRows(st) = InsertOrKeep(kept, new)
  BY <1>3, <1>4, <1>5, <1>6 DEF InsertOrKeep
<1> QED
  BY <1>7 DEF kept, new

\* A save that continues the stored book leaves the tables with the one it writes.
LEMMA SaveWrites ==
  ASSUME NEW CONSTANT d \in Books, NEW CONSTANT st \in Books, Numbered(st),
         Continues(persisted, d, st), RowsHold(d), Written(st)
  PROVE  RowsHold(st)'
<1>1. DOMAIN d.acc \subseteq DOMAIN st.acc
  BY DEF Continues
<1>2. meta' = st.next /\ known' = DOMAIN st.acc
  BY <1>1 DEF Written, RowsHold
<1>3. posRows' = PosRows(st)
  <2>1. {r \in PosRows(d) : r.login \notin DOMAIN st.acc} = {}
    BY <1>1, RowsOfBook
  <2> QED
    BY <2>1 DEF Written, RowsHold, PosRows
<1>4. orderRows' = OrderRows(st)
  <2>1. orderRows = OrderRows(d)
    BY DEF RowsHold
  <2>2. orderRows' = Upsert(
           {r \in orderRows :
              r.login \in DOMAIN st.acc =>
                ~r.working /\ ~Shrunk(st.acc[r.login].history, persisted[r.login].history)},
           UNION {Resting(l, st.acc[l].working) \cup
                  Inserted(l, st.acc[l].history, persisted[l].history) : l \in DOMAIN st.acc})
    BY DEF Written
  <2> QED
    BY <2>1, <2>2, OrdersWritten
<1>5. dealRows' = DealRows(st)
  <2>1. dealRows = DealRows(d)
    BY DEF RowsHold
  <2>2. dealRows' = InsertOrKeep(
           {r \in dealRows :
              r.login \in DOMAIN st.acc => ~Shrunk(st.acc[r.login].deals, persisted[r.login].deals)},
           UNION {InsertedDeals(l, st.acc[l].deals, persisted[l].deals) : l \in DOMAIN st.acc})
    BY DEF Written
  <2> QED
    BY <2>1, <2>2, DealsWritten
<1> QED
  BY <1>2, <1>3, <1>4, <1>5, Zenon DEF RowsHold

-----------------------------------------------------------------------------
(* What the engine does to the book *)

LEMMA TicketOf ==
  /\ \A x \in Items : x.ticket \in Nat
  /\ \A list \in Seq(Items) : \A i \in 1..Len(list) : list[i] \in Items /\ list[i].ticket \in Nat
<1>1. \A list \in Seq(Items) : \A i \in 1..Len(list) : list[i] \in Items
  OBVIOUS
<1>2. \A x \in Items : x.ticket \in Nat
  BY DEF Items
<1> QED
  BY <1>1, <1>2

LEMMA GrownTrans ==
  ASSUME NEW a \in Books, NEW b \in Books, NEW c \in Books, NEW E, NEW F,
         Grown(a, b, E), Grown(b, c, F)
  PROVE  Grown(a, c, E \cup F)
<1>1. DOMAIN a.acc \subseteq DOMAIN c.acc
  BY DEF Grown
<1>2. ASSUME NEW l \in DOMAIN a.acc \ (E \cup F)
      PROVE  Prefix(a.acc[l].history, c.acc[l].history) /\ Prefix(a.acc[l].deals, c.acc[l].deals)
  <2>1. l \in DOMAIN a.acc \ E /\ l \in DOMAIN b.acc \ F /\ l \in DOMAIN c.acc
    BY <1>1 DEF Grown
  <2>2. /\ Prefix(a.acc[l].history, b.acc[l].history) /\ Prefix(b.acc[l].history, c.acc[l].history)
        /\ Prefix(a.acc[l].deals, b.acc[l].deals) /\ Prefix(b.acc[l].deals, c.acc[l].deals)
    BY <2>1 DEF Grown
  <2>3. \A r, s, t \in Seq(Items) : Prefix(r, s) /\ Prefix(s, t) => Prefix(r, t)
    BY DEF Prefix
  <2> QED
    BY <2>1, <2>2, <2>3, AccountOf
<1> QED
  BY <1>1, <1>2 DEF Grown

LEMMA GrownSelf == ASSUME NEW b \in Books, NEW E PROVE Grown(b, b, E)
<1>1. \A l \in DOMAIN b.acc : Len(b.acc[l].history) \in Nat /\ Len(b.acc[l].deals) \in Nat
  BY AccountOf
<1> QED
  BY <1>1 DEF Grown, Prefix

LEMMA EmptyBookOK == /\ EmptyBook \in Books /\ Numbered(EmptyBook)
                     /\ \A b, E : Grown(EmptyBook, b, E)
<1>1. DOMAIN EmptyBook.acc = {} /\ EmptyBook.next = 1 /\ EmptyBook.acc = [l \in {} |-> 0]
  BY DEF EmptyBook
<1>2. EmptyBook.acc \in [{} -> Accounts]
  BY <1>1
<1>3. EmptyBook \in Books
  BY <1>1, <1>2 DEF EmptyBook, Books
<1> QED
  BY <1>1, <1>3 DEF Numbered, Grown

\* An account whose tickets were just issued, or were its own.
Ticketed(a, was, from, to) ==
  /\ a \in Accounts /\ Tidy(a)
  /\ \A t \in OrderTickets(a) : t \in OrderTickets(was) \/ (from <= t /\ t < to)
  /\ \A t \in DealTickets(a) : t \in DealTickets(was) \/ (from <= t /\ t < to)

\* And one that has grown by such entries.
Extends(a, was, from, to) ==
  /\ Ticketed(a, was, from, to)
  /\ Prefix(was.history, a.history) /\ Prefix(was.deals, a.deals)

LEMMA BecomesNumbered ==
  ASSUME book \in Books, Numbered(book), NEW l \in Logins, NEW a, NEW n \in Nat, Becomes(l, a, n),
         Ticketed(a, Account(l), book.next, book.next + n)
  PROVE  /\ book' \in Books /\ Numbered(book)'
         /\ Grown(book, book', {l})
         /\ Extends(a, Account(l), book.next, book.next + n) => Grown(book, book', {})
<1> DEFINE acc == [m \in DOMAIN book.acc \cup {l} |-> IF m = l THEN a ELSE book.acc[m]]
<1>1. book' = [next |-> book.next + n, acc |-> acc]
  BY DEF Becomes
<1>2. /\ DOMAIN acc = DOMAIN book.acc \cup {l} /\ acc[l] = a
      /\ \A m \in DOMAIN book.acc \ {l} : acc[m] = book.acc[m]
      /\ acc = [m \in DOMAIN book.acc \cup {l} |-> acc[m]]
  OBVIOUS
<1> HIDE DEF acc
<1>3. a \in Accounts /\ book.next + n \in Nat \ {0} /\ book.next \in Nat \ {0}
  BY DEF Ticketed, Books
<1>4. \A m \in DOMAIN acc : acc[m] \in Accounts /\ m \in Logins
  BY <1>2, <1>3, AccountOf
<1>5. book' \in Books
  <2>1. acc \in [DOMAIN acc -> Accounts] /\ DOMAIN acc \in SUBSET Logins
    BY <1>2, <1>4
  <2>2. acc \in UNION {[D -> Accounts] : D \in SUBSET Logins}
    BY ONLY <2>1
  <2> QED
    BY ONLY <1>1, <1>3, <2>2 DEF Books
<1>6. \A m \in DOMAIN book.acc : \A t \in OrderTickets(book.acc[m]) \cup DealTickets(book.acc[m]) :
        t < book.next /\ t \in Nat
  <2> SUFFICES ASSUME NEW m \in DOMAIN book.acc,
                      NEW t \in OrderTickets(book.acc[m]) \cup DealTickets(book.acc[m])
      PROVE  t < book.next /\ t \in Nat
    OBVIOUS
  <2>1. t < book.next
    BY DEF Numbered
  <2>2. t \in Nat
    <3>1. /\ \A o \in book.acc[m].working : o.ticket \in Nat
          /\ \A i \in 1..Len(book.acc[m].history) : book.acc[m].history[i].ticket \in Nat
          /\ \A i \in 1..Len(book.acc[m].deals) : book.acc[m].deals[i].ticket \in Nat
      BY AccountOf, TicketOf
    <3> QED
      BY <3>1 DEF OrderTickets, DealTickets
  <2> QED
    BY <2>1, <2>2
<1>7. /\ l \in DOMAIN book.acc => Account(l) = book.acc[l]
      /\ l \notin DOMAIN book.acc => OrderTickets(Account(l)) = {} /\ DealTickets(Account(l)) = {}
  BY DEF Account, Untouched, OrderTickets, DealTickets
<1>8. /\ \A t \in OrderTickets(a) :
           (l \in DOMAIN book.acc /\ t \in OrderTickets(book.acc[l])) \/ (book.next <= t /\ t < book.next + n)
      /\ \A t \in DealTickets(a) :
           (l \in DOMAIN book.acc /\ t \in DealTickets(book.acc[l])) \/ (book.next <= t /\ t < book.next + n)
  BY <1>7 DEF Ticketed
<1>9. Numbered(book')
  <2>1. \A m \in DOMAIN acc : Tidy(acc[m])
    BY <1>2 DEF Ticketed, Numbered
  <2>2. \A m \in DOMAIN acc : \A t \in OrderTickets(acc[m]) \cup DealTickets(acc[m]) : t < book.next + n
    <3>1. \A t \in OrderTickets(a) \cup DealTickets(a) : t < book.next + n
      BY <1>3, <1>6, <1>8
    <3>2. \A m \in DOMAIN book.acc \ {l} :
            \A t \in OrderTickets(book.acc[m]) \cup DealTickets(book.acc[m]) : t < book.next + n
      BY <1>3, <1>6
    <3> QED
      BY <1>2, <3>1, <3>2
  <2>3. \A m \in DOMAIN book.acc \ {l} :
          /\ OrderTickets(a) \cap OrderTickets(book.acc[m]) = {}
          /\ DealTickets(a) \cap DealTickets(book.acc[m]) = {}
    <3> SUFFICES ASSUME NEW m \in DOMAIN book.acc \ {l}
        PROVE  /\ OrderTickets(a) \cap OrderTickets(book.acc[m]) = {}
               /\ DealTickets(a) \cap DealTickets(book.acc[m]) = {}
      OBVIOUS
    <3>1. l \in DOMAIN book.acc =>
            /\ OrderTickets(book.acc[l]) \cap OrderTickets(book.acc[m]) = {}
            /\ DealTickets(book.acc[l]) \cap DealTickets(book.acc[m]) = {}
      BY DEF Numbered
    <3>2. \A t \in OrderTickets(book.acc[m]) \cup DealTickets(book.acc[m]) : ~(book.next <= t)
      BY <1>3, <1>6
    <3> QED
      BY <1>8, <3>1, <3>2
  <2>4. \A m, k \in DOMAIN acc : m # k =>
          /\ OrderTickets(acc[m]) \cap OrderTickets(acc[k]) = {}
          /\ DealTickets(acc[m]) \cap DealTickets(acc[k]) = {}
    <3> SUFFICES ASSUME NEW m \in DOMAIN acc, NEW k \in DOMAIN acc, m # k
        PROVE  /\ OrderTickets(acc[m]) \cap OrderTickets(acc[k]) = {}
               /\ DealTickets(acc[m]) \cap DealTickets(acc[k]) = {}
      OBVIOUS
    <3>1. CASE m = l
      BY <1>2, <2>3, <3>1
    <3>2. CASE k = l
      BY <1>2, <2>3, <3>2
    <3>3. CASE m # l /\ k # l
      BY <1>2, <3>3 DEF Numbered
    <3> QED
      BY <3>1, <3>2, <3>3
  <2>5. book'.acc = acc /\ book'.next = book.next + n
    BY <1>1
  <2> QED
    BY <2>1, <2>2, <2>4, <2>5 DEF Numbered
<1>10. DOMAIN book.acc \subseteq DOMAIN book'.acc /\ book'.acc = acc
  BY <1>1, <1>2
<1>11. ASSUME NEW m \in DOMAIN book.acc \ {l}
       PROVE  Prefix(book.acc[m].history, acc[m].history) /\ Prefix(book.acc[m].deals, acc[m].deals)
  <2>1. acc[m] = book.acc[m]
    BY <1>2
  <2>2. Grown(book, book, {})
    BY GrownSelf
  <2> QED
    BY <2>1, <2>2 DEF Grown
<1>12. Grown(book, book', {l})
  BY <1>10, <1>11 DEF Grown
<1>13. ASSUME Extends(a, Account(l), book.next, book.next + n) PROVE Grown(book, book', {})
  <2>1. l \in DOMAIN book.acc =>
          Prefix(book.acc[l].history, acc[l].history) /\ Prefix(book.acc[l].deals, acc[l].deals)
    BY <1>2, <1>7, <1>13 DEF Extends
  <2> QED
    BY <1>10, <1>11, <2>1 DEF Grown
<1> QED
  BY <1>5, <1>9, <1>12, <1>13 DEF Numbered

\* An entry with a ticket of its own, appended.
LEMMA AppendedList ==
  ASSUME NEW list \in Seq(Items), NEW x \in Items, Distinct(list),
         \A i \in 1..Len(list) : list[i].ticket # x.ticket
  PROVE  /\ Append(list, x) \in Seq(Items) /\ Distinct(Append(list, x))
         /\ Prefix(list, Append(list, x))
         /\ Len(Append(list, x)) = Len(list) + 1
         /\ \A i \in 1..Len(Append(list, x)) :
              \/ i \in 1..Len(list) /\ Append(list, x)[i] = list[i]
              \/ i = Len(list) + 1 /\ Append(list, x)[i] = x
<1>1. /\ Append(list, x) \in Seq(Items) /\ Len(Append(list, x)) = Len(list) + 1 /\ Len(list) \in Nat
      /\ \A i \in 1..Len(list) : Append(list, x)[i] = list[i]
      /\ Append(list, x)[Len(list) + 1] = x
  OBVIOUS
<1> QED
  BY <1>1 DEF Distinct, Prefix

LEMMA SamePrefix == ASSUME NEW list \in Seq(Items) PROVE Prefix(list, list)
BY DEF Prefix

\* What an operation may do to an account's orders: nothing, leave one to rest, record one
\* just made, or record one that rested.
OrdersMove(w, from, to, W, H) ==
  \/ W = w.working /\ H = w.history
  \/ \E o \in Items : from <= o.ticket /\ o.ticket < to /\ W = w.working \cup {o} /\ H = w.history
  \/ \E o \in Items : from <= o.ticket /\ o.ticket < to /\ W = w.working /\ H = Append(w.history, o)
  \/ \E o \in w.working : W = w.working \ {o} /\ H = Append(w.history, o)

DealsMove(w, from, to, D) ==
  \/ D = w.deals
  \/ \E x \in Items : from <= x.ticket /\ x.ticket < to /\ D = Append(w.deals, x)

LEMMA AccountExtends ==
  ASSUME NEW w \in Accounts, Tidy(w), NEW from \in Nat, NEW to \in Nat,
         \A t \in OrderTickets(w) \cup DealTickets(w) : t < from,
         NEW P \in SUBSET Items, NEW W, NEW H, NEW D,
         OrdersMove(w, from, to, W, H), DealsMove(w, from, to, D)
  PROVE  Extends([positions |-> P, working |-> W, history |-> H, deals |-> D], w, from, to)
<1> DEFINE a == [positions |-> P, working |-> W, history |-> H, deals |-> D]
<1>0. /\ w.working \subseteq Items /\ w.history \in Seq(Items) /\ w.deals \in Seq(Items)
      /\ Distinct(w.history) /\ Distinct(w.deals)
      /\ \A o, p \in w.working : o.ticket = p.ticket => o = p
      /\ \A o \in w.working : \A i \in 1..Len(w.history) : o.ticket # w.history[i].ticket
  BY DEF Accounts, Tidy
<1>1. /\ \A o \in w.working : o.ticket < from /\ o.ticket \in Nat /\ o \in Items
      /\ \A i \in 1..Len(w.history) : w.history[i].ticket < from /\ w.history[i].ticket \in Nat
      /\ \A i \in 1..Len(w.deals) : w.deals[i].ticket < from /\ w.deals[i].ticket \in Nat
  <2>1. /\ \A o \in w.working : o.ticket \in Nat /\ o \in Items
        /\ \A i \in 1..Len(w.history) : w.history[i].ticket \in Nat
        /\ \A i \in 1..Len(w.deals) : w.deals[i].ticket \in Nat
    BY <1>0, TicketOf
  <2> QED
    BY <2>1 DEF OrderTickets, DealTickets
<1>2. /\ W \subseteq Items /\ H \in Seq(Items) /\ Distinct(H) /\ Prefix(w.history, H)
      /\ \A o, p \in W : o.ticket = p.ticket => o = p
      /\ \A o \in W : \A i \in 1..Len(H) : o.ticket # H[i].ticket
      /\ \A o \in W : o \in w.working \/ (from <= o.ticket /\ o.ticket < to)
      /\ \A i \in 1..Len(H) : \/ \E j \in 1..Len(w.history) : H[i].ticket = w.history[j].ticket
                              \/ \E o \in w.working : H[i].ticket = o.ticket
                              \/ from <= H[i].ticket /\ H[i].ticket < to
  <2>1. CASE W = w.working /\ H = w.history
    BY <1>0, <2>1, SamePrefix
  <2>2. CASE \E o \in Items : from <= o.ticket /\ o.ticket < to /\ W = w.working \cup {o} /\ H = w.history
    <3>1. PICK o \in Items : from <= o.ticket /\ o.ticket < to /\ W = w.working \cup {o} /\ H = w.history
      BY <2>2
    <3>2. /\ \A p \in w.working : p.ticket # o.ticket
          /\ \A i \in 1..Len(H) : H[i].ticket # o.ticket
      BY <1>1, <3>1 DEF Items
    <3> QED
      BY <1>0, <3>1, <3>2, SamePrefix
  <2>3. CASE \E o \in Items : /\ from <= o.ticket /\ o.ticket < to
                             /\ W = w.working /\ H = Append(w.history, o)
    <3>1. PICK o \in Items : from <= o.ticket /\ o.ticket < to /\ W = w.working /\ H = Append(w.history, o)
      BY <2>3
    <3>2. /\ \A p \in w.working : p.ticket # o.ticket
          /\ \A i \in 1..Len(w.history) : w.history[i].ticket # o.ticket
      BY <1>1, <3>1 DEF Items
    <3>3. /\ H \in Seq(Items) /\ Distinct(H) /\ Prefix(w.history, H)
          /\ \A i \in 1..Len(H) : (i \in 1..Len(w.history) /\ H[i] = w.history[i]) \/ H[i] = o
      BY <1>0, <3>1, <3>2, AppendedList
    <3> QED
      BY <1>0, <3>1, <3>2, <3>3
  <2>4. CASE \E o \in w.working : W = w.working \ {o} /\ H = Append(w.history, o)
    <3>1. PICK o \in w.working : W = w.working \ {o} /\ H = Append(w.history, o)
      BY <2>4
    <3>2. /\ \A p \in W : p.ticket # o.ticket
          /\ \A i \in 1..Len(w.history) : w.history[i].ticket # o.ticket
      BY <1>0, <3>1
    <3>3. /\ H \in Seq(Items) /\ Distinct(H) /\ Prefix(w.history, H)
          /\ \A i \in 1..Len(H) : (i \in 1..Len(w.history) /\ H[i] = w.history[i]) \/ H[i] = o
      BY <1>0, <3>1, <3>2, AppendedList
    <3> QED
      BY <1>0, <3>1, <3>2, <3>3
  <2> QED
    BY <2>1, <2>2, <2>3, <2>4 DEF OrdersMove
<1>3. /\ D \in Seq(Items) /\ Distinct(D) /\ Prefix(w.deals, D)
      /\ \A i \in 1..Len(D) : \/ \E j \in 1..Len(w.deals) : D[i].ticket = w.deals[j].ticket
                              \/ from <= D[i].ticket /\ D[i].ticket < to
  <2>1. CASE D = w.deals
    BY <1>0, <2>1, SamePrefix
  <2>2. CASE \E x \in Items : from <= x.ticket /\ x.ticket < to /\ D = Append(w.deals, x)
    <3>1. PICK x \in Items : from <= x.ticket /\ x.ticket < to /\ D = Append(w.deals, x)
      BY <2>2
    <3>2. \A i \in 1..Len(w.deals) : w.deals[i].ticket # x.ticket
      BY <1>1, <3>1 DEF Items
    <3>3. /\ D \in Seq(Items) /\ Distinct(D) /\ Prefix(w.deals, D)
          /\ \A i \in 1..Len(D) : (i \in 1..Len(w.deals) /\ D[i] = w.deals[i]) \/ D[i] = x
      BY <1>0, <3>1, <3>2, AppendedList
    <3> QED
      BY <3>1, <3>3
  <2> QED
    BY <2>1, <2>2 DEF DealsMove
<1>4. /\ a.positions = P /\ a.working = W /\ a.history = H /\ a.deals = D
      /\ a \in Accounts
  BY <1>2, <1>3 DEF Accounts
<1> HIDE DEF a
<1>5. Tidy(a)
  BY <1>2, <1>3, <1>4 DEF Tidy
<1>6. \A t \in OrderTickets(a) : t \in OrderTickets(w) \/ (from <= t /\ t < to)
  BY <1>2, <1>4 DEF OrderTickets
<1>7. \A t \in DealTickets(a) : t \in DealTickets(w) \/ (from <= t /\ t < to)
  BY <1>3, <1>4 DEF DealTickets
<1>8. Prefix(w.history, a.history) /\ Prefix(w.deals, a.deals)
  BY <1>2, <1>3, <1>4
<1> QED
  BY <1>4, <1>5, <1>6, <1>7, <1>8 DEF Extends, Ticketed, a

\* The records the operations make.
LEMMA OpenedRecord ==
  ASSUME NEW w \in Accounts, NEW x, NEW y, NEW a,
         a = [w EXCEPT !.positions = @ \cup {x}, !.history = Append(@, x), !.deals = Append(@, y)]
  PROVE  a = [positions |-> w.positions \cup {x}, working |-> w.working,
              history |-> Append(w.history, x), deals |-> Append(w.deals, y)]
BY DEF Accounts

LEMMA RestedRecord ==
  ASSUME NEW w \in Accounts, NEW x, NEW a,
         a = [w EXCEPT !.working = @ \cup {x}]
  PROVE  a = [positions |-> w.positions, working |-> w.working \cup {x},
              history |-> w.history, deals |-> w.deals]
BY DEF Accounts

LEMMA BalancedRecord ==
  ASSUME NEW w \in Accounts, NEW x, NEW a,
         a = [w EXCEPT !.deals = Append(@, x)]
  PROVE  a = [positions |-> w.positions, working |-> w.working,
              history |-> w.history, deals |-> Append(w.deals, x)]
BY DEF Accounts

LEMMA CanceledRecord ==
  ASSUME NEW w \in Accounts, NEW x, NEW a,
         a = [w EXCEPT !.working = @ \ {x}, !.history = Append(@, x)]
  PROVE  a = [positions |-> w.positions, working |-> w.working \ {x},
              history |-> Append(w.history, x), deals |-> w.deals]
BY DEF Accounts

LEMMA ClosedRecord ==
  ASSUME NEW w \in Accounts, NEW p, NEW x, NEW y, NEW a,
         a = [w EXCEPT !.positions = @ \ {p}, !.history = Append(@, x), !.deals = Append(@, y)]
  PROVE  a = [positions |-> w.positions \ {p}, working |-> w.working,
              history |-> Append(w.history, x), deals |-> Append(w.deals, y)]
BY DEF Accounts

LEMMA FilledRecord ==
  ASSUME NEW w \in Accounts, NEW o, NEW x, NEW a,
         a = [w EXCEPT !.working = @ \ {o}, !.history = Append(@, o),
                        !.positions = @ \cup {o}, !.deals = Append(@, x)]
  PROVE  a = [positions |-> w.positions \cup {o}, working |-> w.working \ {o},
              history |-> Append(w.history, o), deals |-> Append(w.deals, x)]
BY DEF Accounts

\* Everything but a reset adds to the book and gives out tickets once (openPosition,
\* placePending, settle, finishOrder, checkPending, Balance).
LEMMA OperateGrows ==
  ASSUME book \in Books, Numbered(book), era \in Nat, NEW l \in Logins, Operate(l)
  PROVE  book' \in Books /\ Numbered(book') /\ Grown(book, book', {})
<1> DEFINE w == Account(l)
           from == book.next
<1>1. /\ w \in Accounts /\ Tidy(w) /\ from \in Nat
      /\ \A t \in OrderTickets(w) \cup DealTickets(w) : t < from
  <2>1. CASE l \in DOMAIN book.acc
    BY <2>1, AccountOf DEF Account, Numbered
  <2>2. CASE l \notin DOMAIN book.acc
    <3>1. w = Untouched
      BY <2>2 DEF Account
    <3>2. Untouched \in Accounts
      BY DEF Untouched, Accounts
    <3>3. Tidy(Untouched) /\ OrderTickets(Untouched) = {} /\ DealTickets(Untouched) = {}
      BY DEF Untouched, Tidy, Distinct, OrderTickets, DealTickets
    <3>4. from \in Nat
      BY DEF Books
    <3> QED
      BY <3>1, <3>2, <3>3, <3>4
  <2> QED
    BY <2>1, <2>2
<1>2. /\ Fresh(0) \in Items /\ Fresh(0).ticket = from /\ Fresh(1) \in Items /\ Fresh(1).ticket = from + 1
      /\ from <= from /\ from < from + 1 /\ from <= from + 1 /\ from < from + 2 /\ from + 1 < from + 2
  BY <1>1 DEF Fresh, Items
<1>3. w.positions \subseteq Items /\ w.working \subseteq Items
  BY <1>1 DEF Accounts
<1>4. ASSUME NEW n \in Nat, NEW P \in SUBSET Items, NEW W, NEW H, NEW D,
             OrdersMove(w, from, from + n, W, H), DealsMove(w, from, from + n, D),
             Becomes(l, [positions |-> P, working |-> W, history |-> H, deals |-> D], n)
      PROVE  book' \in Books /\ Numbered(book') /\ Grown(book, book', {})
  <2>1. from + n \in Nat
    BY <1>1
  <2>2. Extends([positions |-> P, working |-> W, history |-> H, deals |-> D], w, from, from + n)
    BY <1>1, <1>4, <2>1, AccountExtends
  <2>3. Ticketed([positions |-> P, working |-> W, history |-> H, deals |-> D], w, from, from + n)
    BY <2>2 DEF Extends
  <2> QED
    BY <1>4, <2>2, <2>3, BecomesNumbered DEF Numbered
<1>5. CASE Open(l)
  <2> DEFINE P == w.positions \cup {Fresh(0)}
             H == Append(w.history, Fresh(0))
             D == Append(w.deals, Fresh(1))
  <2>1. Becomes(l, [positions |-> P, working |-> w.working, history |-> H, deals |-> D], 2)
    BY <1>1, <1>5, OpenedRecord, Zenon DEF Open
  <2>2. OrdersMove(w, from, from + 2, w.working, H) /\ DealsMove(w, from, from + 2, D)
    BY <1>2, Zenon DEF OrdersMove, DealsMove
  <2>3. P \in SUBSET Items
    BY <1>2, <1>3
  <2> QED
    BY <1>4, <2>1, <2>2, <2>3
<1>6. CASE Rest(l)
  <2> DEFINE W == w.working \cup {Fresh(0)}
  <2>1. Becomes(l, [positions |-> w.positions, working |-> W, history |-> w.history, deals |-> w.deals], 1)
    BY <1>1, <1>6, RestedRecord, Zenon DEF Rest
  <2>2. OrdersMove(w, from, from + 1, W, w.history) /\ DealsMove(w, from, from + 1, w.deals)
    BY <1>2, Zenon DEF OrdersMove, DealsMove
  <2> QED
    BY <1>3, <1>4, <2>1, <2>2
<1>7. CASE BalanceOp(l)
  <2> DEFINE D == Append(w.deals, Fresh(0))
  <2>1. Becomes(l, [positions |-> w.positions, working |-> w.working, history |-> w.history, deals |-> D], 1)
    BY <1>1, <1>7, BalancedRecord, Zenon DEF BalanceOp
  <2>2. OrdersMove(w, from, from + 1, w.working, w.history) /\ DealsMove(w, from, from + 1, D)
    BY <1>2, Zenon DEF OrdersMove, DealsMove
  <2> QED
    BY <1>3, <1>4, <2>1, <2>2
<1>8. ASSUME NEW p \in w.positions, Close(l, p)
      PROVE  book' \in Books /\ Numbered(book') /\ Grown(book, book', {})
  <2> DEFINE P == w.positions \ {p}
             H == Append(w.history, Fresh(0))
             D == Append(w.deals, Fresh(1))
  <2>1. Becomes(l, [positions |-> P, working |-> w.working, history |-> H, deals |-> D], 2)
    BY <1>1, <1>8, ClosedRecord, Zenon DEF Close
  <2>2. OrdersMove(w, from, from + 2, w.working, H) /\ DealsMove(w, from, from + 2, D)
    BY <1>2, Zenon DEF OrdersMove, DealsMove
  <2> QED
    BY <1>3, <1>4, <2>1, <2>2
<1>9. ASSUME NEW o \in w.working, Cancel(l, o)
      PROVE  book' \in Books /\ Numbered(book') /\ Grown(book, book', {})
  <2> DEFINE W == w.working \ {o}
             H == Append(w.history, o)
  <2>1. Becomes(l, [positions |-> w.positions, working |-> W, history |-> H, deals |-> w.deals], 0)
    BY <1>1, <1>9, CanceledRecord, Zenon DEF Cancel
  <2>2. OrdersMove(w, from, from + 0, W, H) /\ DealsMove(w, from, from + 0, w.deals)
    BY DEF OrdersMove, DealsMove
  <2> QED
    BY <1>3, <1>4, <2>1, <2>2
<1>10. ASSUME NEW o \in w.working, Fill(l, o)
       PROVE  book' \in Books /\ Numbered(book') /\ Grown(book, book', {})
  <2> DEFINE P == w.positions \cup {o}
             W == w.working \ {o}
             H == Append(w.history, o)
             D == Append(w.deals, Fresh(0))
  <2>1. Becomes(l, [positions |-> P, working |-> W, history |-> H, deals |-> D], 1)
    BY <1>1, <1>10, FilledRecord, Zenon DEF Fill
  <2>2. OrdersMove(w, from, from + 1, W, H) /\ DealsMove(w, from, from + 1, D)
    BY <1>2, Zenon DEF OrdersMove, DealsMove
  <2> QED
    BY <1>3, <1>4, <2>1, <2>2
<1> QED
  BY <1>5, <1>6, <1>7, <1>8, <1>9, <1>10 DEF Operate

\* A reset gives out no ticket and takes none of another account's (Reset).
LEMMA ResetEmpties ==
  ASSUME book \in Books, Numbered(book), NEW l \in Logins, Reset(l)
  PROVE  book' \in Books /\ Numbered(book') /\ Grown(book, book', {l})
<1>1. Becomes(l, Untouched, 0)
  BY DEF Reset
<1>2. Ticketed(Untouched, Account(l), book.next, book.next + 0)
  <2>1. Untouched \in Accounts
    BY DEF Untouched, Accounts
  <2>2. Tidy(Untouched) /\ OrderTickets(Untouched) = {} /\ DealTickets(Untouched) = {}
    BY DEF Untouched, Tidy, Distinct, OrderTickets, DealTickets
  <2> QED
    BY <2>1, <2>2 DEF Ticketed
<1> QED
  BY <1>1, <1>2, BecomesNumbered DEF Numbered

-----------------------------------------------------------------------------
(* The steps of the relational store *)

LEMMA InitTables == TablesInit => TablesOK /\ Init
<1> SUFFICES ASSUME TablesInit PROVE TablesOK /\ Init
  OBVIOUS
<1>1. disk = EmptyBook
  BY DEF TablesInit, Loaded
<1>2. RowsHold(disk)
  <2>1. DOMAIN EmptyBook.acc = {}
    BY DEF EmptyBook
  <2> QED
    BY <1>1, <2>1 DEF TablesInit, RowsHold, PosRows, OrderRows, DealRows
<1>3. CountsOK
  BY <1>1 DEF CountsOK, TablesInit, NothingPersisted, EmptyBook
<1> QED
  BY <1>1, <1>2, <1>3, EmptyBookOK
     DEF TablesOK, TablesTypes, AgesOK, TablesInit, MemoryInit, Init

\* A step that leaves the tables alone leaves the stored book alone.
LEMMA TablesAlone ==
  ASSUME TablesOK, UNCHANGED tables, disk' = Loaded'
  PROVE  disk' = disk /\ RowsHold(disk)'
<1>1. PICK d \in Books : d = disk
  BY DEF TablesOK, TablesTypes
<1>2. RowsHold(d)'
  BY <1>1 DEF TablesOK, RowsHold, tables
<1>3. disk' = d
  BY <1>2, LoadedIs
<1> QED
  BY <1>1, <1>2, <1>3 DEF RowsHold

LEMMA CountsAlone ==
  ASSUME CountsOK, disk' = disk, persisted' = persisted, emptying \subseteq emptying'
  PROVE  CountsOK'
BY DEF CountsOK

\* A save that breaks nothing continues the stored book: a list that was not reset has grown,
\* and one that was is seen shorter than it is known (store.go).
LEMMA SaveContinues ==
  ASSUME TablesOK, writing, tie = "sound",
         ~\E l \in emptying \cap DOMAIN saving.acc : Overtaken(l, saving)
  PROVE  Continues(persisted, disk, saving)
<1>1. /\ Grown(disk, saving, emptying) /\ saving \in Books /\ disk \in Books
      /\ persisted \in [Logins -> [history : Nat, deals : Nat]]
  BY DEF TablesOK, TablesTypes, AgesOK, CountsOK
<1>2. DOMAIN disk.acc \subseteq DOMAIN saving.acc
  BY <1>1 DEF Grown
<1>3. ASSUME NEW l \in DOMAIN saving.acc
      PROVE  /\ persisted[l].history \in Nat /\ persisted[l].deals \in Nat
             /\ Follows(saving.acc[l].history, persisted[l].history, AccountAt(disk, l).history)
             /\ Follows(saving.acc[l].deals, persisted[l].deals, AccountAt(disk, l).deals)
  <2>1. l \in Logins /\ persisted[l].history \in Nat /\ persisted[l].deals \in Nat
    BY <1>1, AccountOf
  <2>2. CASE l \in emptying
    <3>1. ~Overtaken(l, saving) /\ Stored(l) = AccountAt(disk, l)
      BY <2>2 DEF Stored, AccountAt
    <3> QED
      BY <2>1, <3>1 DEF Overtaken
  <2>3. CASE l \notin emptying /\ l \in DOMAIN disk.acc
    <3>1. /\ persisted[l].history <= Len(disk.acc[l].history)
          /\ persisted[l].deals <= Len(disk.acc[l].deals)
      BY <2>1, <2>3 DEF TablesOK, CountsOK
    <3>2. /\ Prefix(disk.acc[l].history, saving.acc[l].history)
          /\ Prefix(disk.acc[l].deals, saving.acc[l].deals)
      BY <1>1, <2>3 DEF Grown
    <3>3. AccountAt(disk, l) = disk.acc[l]
      BY <2>3 DEF AccountAt
    <3> QED
      BY <2>1, <3>1, <3>2, <3>3 DEF Follows
  <2>4. CASE l \notin DOMAIN disk.acc
    <3>1. persisted[l] = [history |-> 0, deals |-> 0]
      BY <2>1, <2>4 DEF TablesOK, CountsOK
    <3>2. AccountAt(disk, l).history = <<>> /\ AccountAt(disk, l).deals = <<>>
      BY <2>4 DEF AccountAt, Untouched
    <3>3. Len(saving.acc[l].history) \in Nat /\ Len(saving.acc[l].deals) \in Nat
      BY <1>1, AccountOf
    <3>4. \A list : Len(list) \in Nat => Follows(list, 0, <<>>)
      BY DEF Follows, Prefix
    <3> QED
      BY <2>1, <3>1, <3>2, <3>3, <3>4
  <2> QED
    BY <2>2, <2>3, <2>4
<1> QED
  BY <1>2, <1>3 DEF Continues

\* A transaction that breaks nothing stores the snapshot.
LEMMA TablesWritten ==
  ASSUME TablesOK, writing, Taken(saving), tie' # "broken", disk' = Loaded'
  PROVE  tie = "sound" /\ tie' = "sound" /\ disk' = saving /\ RowsHold(disk)'
<1>1. /\ tie = "sound" /\ tie' = "sound" /\ Written(saving)
      /\ ~\E l \in emptying \cap DOMAIN saving.acc : Overtaken(l, saving)
  BY DEF TablesOK, TablesTypes, Taken
<1>2. PICK d \in Books : d = disk
  BY DEF TablesOK, TablesTypes
<1>3. PICK st \in Books : st = saving
  BY DEF TablesOK, TablesTypes
<1>4. Continues(persisted, d, st) /\ Numbered(st) /\ RowsHold(d) /\ Written(st)
  BY <1>1, <1>2, <1>3, SaveContinues DEF TablesOK
<1>5. RowsHold(st)'
  BY <1>4, SaveWrites
<1>6. disk' = st
  BY <1>5, LoadedIs
<1> QED
  BY <1>1, <1>3, <1>5, <1>6 DEF RowsHold

\* A change in memory, of an account that was reset or of one that was not.
LEMMA ChangeTables ==
  ASSUME TablesOK, Marked, UNCHANGED <<tables, persisted, emptying, tie>>, disk' = Loaded',
         NEW E, book' \in Books, Numbered(book'), Grown(book, book', E),
         emptied' = emptied \cup E
  PROVE  TablesOK' /\ disk' = disk
<1>1. disk' = disk /\ RowsHold(disk)'
  BY TablesAlone
<1>2. UNCHANGED <<persisted, saving, writing, up, era, emptying, tie>>
  BY DEF Marked
<1>3. CountsOK'
  BY <1>1, <1>2, CountsAlone DEF TablesOK
<1>4. ASSUME tie = "sound", ~writing PROVE Grown(disk, book', emptied' \cup emptying)
  <2>1. Grown(disk, book, emptied \cup emptying)
    BY <1>4 DEF TablesOK, AgesOK, Marked
  <2>2. Grown(disk, book', (emptied \cup emptying) \cup E)
    BY <2>1, GrownTrans DEF TablesOK, TablesTypes
  <2>3. (emptied \cup emptying) \cup E = emptied' \cup emptying
    OBVIOUS
  <2> QED
    BY <2>2, <2>3
<1>5. ASSUME tie = "sound", writing PROVE Grown(saving, book', emptied')
  <2>1. Grown(saving, book, emptied)
    BY <1>5 DEF TablesOK, AgesOK
  <2> QED
    BY <2>1, GrownTrans DEF TablesOK, TablesTypes
<1>6. AgesOK'
  BY <1>1, <1>2, <1>4, <1>5 DEF TablesOK, AgesOK
<1> QED
  BY <1>1, <1>2, <1>3, <1>6 DEF TablesOK, TablesTypes, Numbered

LEMMA GrowTables ==
  ASSUME TablesOK, GrowInMemory, disk' = Loaded'
  PROVE  TablesOK' /\ ChangeBook
<1>1. Grow /\ UNCHANGED <<tables, persisted, emptying, tie>> /\ emptied' = emptied \cup {}
  BY DEF GrowInMemory, resets
<1>2. book' \in Books /\ Numbered(book') /\ Grown(book, book', {})
  BY <1>1, OperateGrows DEF TablesOK, TablesTypes, Grow
<1>3. TablesOK' /\ disk' = disk
  BY <1>1, <1>2, ChangeTables DEF Grow
<1> QED
  BY <1>1, <1>3 DEF ChangeBook, Change

LEMMA ResetTables ==
  ASSUME TablesOK, ResetInMemory, disk' = Loaded'
  PROVE  TablesOK' /\ ChangeBook
<1>1. PICK l \in Resettable : Reset(l) /\ emptied' = emptied \cup {l}
  BY DEF ResetInMemory
<1>2. Marked /\ UNCHANGED <<tables, persisted, emptying, tie>> /\ l \in Logins
  BY MemoryAssumption DEF ResetInMemory
<1>3. book' \in Books /\ Numbered(book') /\ Grown(book, book', {l})
  BY <1>1, <1>2, ResetEmpties DEF TablesOK, TablesTypes
<1>4. TablesOK' /\ disk' = disk
  BY <1>1, <1>2, <1>3, ChangeTables
<1> QED
  BY <1>1, <1>2, <1>4 DEF ChangeBook, Change

LEMMA BeginTables ==
  ASSUME TablesOK, BeginCommit, disk' = Loaded'
  PROVE  TablesOK' /\ BeginSave
<1>1. disk' = disk /\ RowsHold(disk)'
  BY TablesAlone DEF BeginCommit
<1>2. /\ UNCHANGED <<persisted, book, up, era, tie>> /\ saving' = book /\ writing' /\ up /\ ~writing
      /\ emptied' = {} /\ emptying' = emptying \cup emptied
  BY DEF BeginCommit, SaveBegin
<1>3. AgesOK'
  <2>1. Grown(book, book, {})
    BY GrownSelf DEF TablesOK, TablesTypes
  <2>2. emptied \cup emptying = emptying'
    BY <1>2
  <2>3. tie = "sound" => Grown(disk, book, emptying')
    BY <1>2, <2>2 DEF TablesOK, AgesOK
  <2> QED
    BY <1>1, <1>2, <2>1, <2>3 DEF AgesOK
<1>4. CountsOK'
  BY <1>1, <1>2, CountsAlone DEF TablesOK
<1>5. BeginSave
  BY <1>1 DEF BeginCommit, BeginSave
<1> QED
  BY <1>1, <1>2, <1>3, <1>4, <1>5 DEF TablesOK, TablesTypes, Numbered

\* What a save leaves behind in memory, whether or not it wrote.
LEMMA EndTables ==
  ASSUME TablesOK, SaveEnds, tie' = tie, RowsHold(disk)', CountsOK', UNCHANGED emptied,
         \/ disk' = saving
         \/ disk' = disk /\ UNCHANGED emptying
  PROVE  TablesOK'
<1>1. /\ UNCHANGED <<book, up, era>> /\ saving' = EmptyBook /\ writing /\ ~writing'
  BY DEF SaveEnds
<1>2. tie = "sound" => Grown(disk, saving, emptying) /\ Grown(saving, book, emptied)
  BY <1>1 DEF TablesOK, AgesOK
<1>3. ASSUME tie = "sound" PROVE Grown(disk', book, emptied \cup emptying')
  <2>1. CASE disk' = saving
    BY <1>2, <1>3, <2>1 DEF Grown
  <2>2. CASE disk' = disk /\ UNCHANGED emptying
    <3>1. Grown(disk, book, emptying \cup emptied)
      BY <1>2, <1>3, GrownTrans DEF TablesOK, TablesTypes
    <3>2. emptying \cup emptied = emptied \cup emptying'
      BY <2>2
    <3> QED
      BY <2>2, <3>1, <3>2
  <2> QED
    BY <2>1, <2>2
<1>4. AgesOK'
  BY <1>1, <1>3 DEF AgesOK
<1>5. disk' \in Books /\ Numbered(disk')
  BY DEF TablesOK, TablesTypes
<1> QED
  BY <1>1, <1>4, <1>5, EmptyBookOK DEF TablesOK, TablesTypes, Numbered

\* Counts of the store after a save of st.
LEMMA CountsAfter ==
  ASSUME TablesOK, writing, tie = "sound", disk' = saving,
         \/ UNCHANGED <<persisted, emptying>>
         \/ persisted' = [l \in Logins |-> Counts(saving, l)]
  PROVE  CountsOK'
<1>1. /\ Grown(disk, saving, emptying) /\ saving \in Books /\ disk \in Books
      /\ persisted \in [Logins -> [history : Nat, deals : Nat]]
  BY DEF TablesOK, TablesTypes, AgesOK, CountsOK
<1>2. ASSUME NEW l \in DOMAIN saving.acc
      PROVE  Len(saving.acc[l].history) \in Nat /\ Len(saving.acc[l].deals) \in Nat
  BY <1>1, AccountOf
<1>3. ASSUME NEW l \in Logins
      PROVE  /\ persisted[l].history \in Nat /\ persisted[l].deals \in Nat
             /\ l \in DOMAIN saving.acc \ emptying =>
                  /\ persisted[l].history <= Len(saving.acc[l].history)
                  /\ persisted[l].deals <= Len(saving.acc[l].deals)
             /\ l \notin DOMAIN saving.acc => persisted[l] = [history |-> 0, deals |-> 0]
  <2>1. persisted[l].history \in Nat /\ persisted[l].deals \in Nat
    BY <1>1
  <2>2. CASE l \in DOMAIN disk.acc /\ l \in emptying
    BY <1>1, <2>1, <2>2 DEF Grown
  <2>3. CASE l \in DOMAIN disk.acc /\ l \notin emptying
    <3>1. /\ l \in DOMAIN saving.acc
          /\ Len(disk.acc[l].history) <= Len(saving.acc[l].history)
          /\ Len(disk.acc[l].deals) <= Len(saving.acc[l].deals)
      BY <1>1, <2>3 DEF Grown, Prefix
    <3>2. /\ persisted[l].history <= Len(disk.acc[l].history)
          /\ persisted[l].deals <= Len(disk.acc[l].deals)
      BY <2>3 DEF TablesOK, CountsOK
    <3>3. /\ Len(disk.acc[l].history) \in Nat /\ Len(disk.acc[l].deals) \in Nat
          /\ Len(saving.acc[l].history) \in Nat /\ Len(saving.acc[l].deals) \in Nat
      BY <1>1, <1>2, <2>3, <3>1, AccountOf
    <3>4. \A a, b, c \in Nat : a <= b /\ b <= c => a <= c
      OBVIOUS
    <3>5. /\ persisted[l].history <= Len(saving.acc[l].history)
          /\ persisted[l].deals <= Len(saving.acc[l].deals)
      BY <2>1, <3>1, <3>2, <3>3, <3>4, Zenon
    <3> QED
      BY <2>1, <3>1, <3>5
  <2>4. CASE l \notin DOMAIN disk.acc
    <3>1. persisted[l] = [history |-> 0, deals |-> 0]
      BY <2>4 DEF TablesOK, CountsOK
    <3> QED
      BY <1>2, <2>1, <3>1
  <2> QED
    BY <2>2, <2>3, <2>4
<1>4. ASSUME NEW l \in Logins
      PROVE  /\ Counts(saving, l) \in [history : Nat, deals : Nat]
             /\ l \in DOMAIN saving.acc => /\ Counts(saving, l).history <= Len(saving.acc[l].history)
                                           /\ Counts(saving, l).deals <= Len(saving.acc[l].deals)
             /\ l \notin DOMAIN saving.acc => Counts(saving, l) = [history |-> 0, deals |-> 0]
  <2>1. CASE l \in DOMAIN saving.acc
    BY <1>2, <2>1 DEF Counts
  <2>2. CASE l \notin DOMAIN saving.acc
    BY <1>3, <2>2 DEF Counts
  <2> QED
    BY <2>1, <2>2
<1>5. CASE UNCHANGED <<persisted, emptying>>
  BY <1>1, <1>3, <1>5 DEF CountsOK
<1>6. CASE persisted' = [l \in Logins |-> Counts(saving, l)]
  BY <1>4, <1>6 DEF CountsOK
<1> QED
  BY <1>5, <1>6

LEMMA CommitTables ==
  ASSUME TablesOK, Commit \/ CommitUnheard, tie' # "broken", disk' = Loaded'
  PROVE  TablesOK' /\ (SaveDone \/ SaveUnheard)
<1>1. /\ SaveEnds /\ writing /\ Taken(saving) /\ UNCHANGED emptied
      /\ UNCHANGED <<persisted, emptying>> \/ persisted' = [l \in Logins |-> Counts(saving, l)]
  BY DEF Commit, CommitUnheard, SaveReturns, SaveErrs, SaveEnds, resets
<1>2. tie = "sound" /\ tie' = "sound" /\ disk' = saving /\ RowsHold(disk)'
  BY <1>1, TablesWritten
<1>3. CountsOK'
  BY <1>1, <1>2, CountsAfter
<1>4. TablesOK'
  BY <1>1, <1>2, <1>3, EndTables
<1> QED
  BY <1>2, <1>4 DEF Commit, CommitUnheard, SaveDone, SaveUnheard

LEMMA RollbackTables ==
  ASSUME TablesOK, Rollback, disk' = Loaded'
  PROVE  TablesOK' /\ SaveFailed
<1>1. /\ disk' = disk /\ RowsHold(disk)' /\ SaveEnds
      /\ UNCHANGED <<persisted, emptied, emptying, tie>>
  BY TablesAlone DEF Rollback, SaveErrs, resets
<1>2. CountsOK'
  BY <1>1, CountsAlone DEF TablesOK
<1> QED
  BY <1>1, <1>2, EndTables DEF Rollback, SaveFailed

\* A process that dies while the database commits.
LEMMA DieTables ==
  ASSUME TablesOK, Die, tie' # "broken", disk' = Loaded'
  PROVE  TablesOK' /\ Crash
<1>1. /\ book' = EmptyBook /\ saving' = EmptyBook /\ ~up' /\ ~writing' /\ era' = era
      /\ persisted' = NothingPersisted
  BY DEF Die, Stop
<1>2. /\ disk' = disk \/ (writing /\ disk' = saving)
      /\ RowsHold(disk)' /\ tie' = "sound"
  BY TablesAlone, TablesWritten DEF Die
<1>3. disk' \in Books /\ Numbered(disk')
  BY <1>2 DEF TablesOK, TablesTypes
<1>4. CountsOK'
  <2>1. \A l \in DOMAIN disk'.acc : Len(disk'.acc[l].history) \in Nat /\ Len(disk'.acc[l].deals) \in Nat
    BY <1>3, AccountOf
  <2> QED
    BY <1>1, <2>1 DEF CountsOK, NothingPersisted
<1>5. AgesOK'
  BY <1>1 DEF AgesOK
<1>6. TablesTypes'
  BY <1>1, <1>2, <1>3, EmptyBookOK DEF TablesOK, TablesTypes
<1>7. Numbered(book)' /\ Numbered(saving)' /\ Numbered(disk)'
  BY <1>1, <1>3, EmptyBookOK, ZenonT(60) DEF Numbered
<1>8. Crash
  BY <1>2 DEF Die, Crash
<1> QED
  BY <1>2, <1>4, <1>5, <1>6, <1>7, <1>8 DEF TablesOK

LEMMA ReopenTables ==
  ASSUME TablesOK, Reopen, disk' = Loaded'
  PROVE  TablesOK' /\ Restart
<1>1. disk' = disk /\ RowsHold(disk)'
  BY TablesAlone DEF Reopen
<1>2. /\ book' = Loaded /\ up' /\ ~up /\ era' = era + 1
      /\ UNCHANGED <<writing, saving, emptied, emptying, tie>>
  BY DEF Reopen, Start, resets
<1>3. PICK d \in Books : d = disk
  BY DEF TablesOK, TablesTypes
<1>4. Loaded = d /\ RowsHold(d)
  BY <1>3, LoadedIs DEF TablesOK
<1>5. \A l \in DOMAIN d.acc : LoadedAccount(l) = d.acc[l]
  <2>1. \A l : LoadedAccount(l) = AccountIn(PosRows(d), OrderRows(d), DealRows(d), l)
    BY <1>4 DEF LoadedAccount, AccountIn, RowsHold
  <2> QED
    BY <2>1, AccountReadBack
<1>6. CountsOK'
  <2>1. known = DOMAIN d.acc
    BY <1>4 DEF RowsHold
  <2>2. \A l \in DOMAIN d.acc : Len(d.acc[l].history) \in Nat /\ Len(d.acc[l].deals) \in Nat
    BY AccountOf
  <2>3. persisted' = [l \in Logins |->
           IF l \in DOMAIN d.acc THEN [history |-> Len(d.acc[l].history), deals |-> Len(d.acc[l].deals)]
           ELSE persisted[l]]
    BY <1>5, <2>1 DEF Reopen
  <2> QED
    BY <1>1, <1>3, <2>2, <2>3 DEF TablesOK, CountsOK
<1>7. Restart
  BY <1>1, <1>3, <1>4 DEF Reopen, Restart
<1>8. AgesOK'
  <2>1. Grown(disk', book', emptied' \cup emptying')
    BY <1>1, <1>2, <1>3, <1>4, GrownSelf
  <2> QED
    BY <1>2, <2>1 DEF TablesOK, AgesOK
<1>9. TablesTypes'
  BY <1>1, <1>2, <1>3, <1>4 DEF TablesOK, TablesTypes
<1>10. Numbered(book)' /\ Numbered(saving)' /\ Numbered(disk)'
  BY <1>1, <1>2, <1>3, <1>4, ZenonT(60) DEF TablesOK, Numbered
<1> QED
  BY <1>1, <1>6, <1>7, <1>8, <1>9, <1>10 DEF TablesOK

\* An engine that could not load stands over the tables; it has broken nothing yet.
LEMMA ReopenEmptyTables ==
  ASSUME TablesOK, ReopenEmpty, disk' = Loaded'
  PROVE  TablesOK' /\ RestartEmpty
<1>1. disk' = disk /\ RowsHold(disk)'
  BY TablesAlone DEF ReopenEmpty
<1>2. /\ book' = EmptyBook /\ up' /\ ~up /\ era' = era + 1
      /\ UNCHANGED <<writing, saving, persisted, emptied, emptying>>
      /\ tie' \in {"sound", "unread"}
  BY DEF ReopenEmpty, Start, resets
<1>3. CountsOK'
  BY <1>1, <1>2, CountsAlone DEF TablesOK
<1>4. AgesOK'
  <2>1. ASSUME tie' = "sound" PROVE Grown(disk', book', emptied' \cup emptying')
    <3>1. disk = EmptyBook
      BY <2>1 DEF ReopenEmpty, TablesOK, TablesTypes, RowsHold, Books
    <3> QED
      BY <1>1, <3>1, EmptyBookOK
  <2> QED
    BY <1>2, <2>1 DEF TablesOK, AgesOK
<1>5. TablesTypes'
  BY <1>1, <1>2, EmptyBookOK DEF TablesOK, TablesTypes
<1>6. Numbered(book)' /\ Numbered(saving)' /\ Numbered(disk)'
  BY <1>1, <1>2, EmptyBookOK, ZenonT(60) DEF TablesOK, Numbered
<1>7. RestartEmpty
  BY <1>1 DEF ReopenEmpty, RestartEmpty
<1> QED
  BY <1>1, <1>3, <1>4, <1>5, <1>6, <1>7 DEF TablesOK

LEMMA StepTables ==
  TablesInv /\ [TablesNext]_tablesVars => TablesInv' /\ [Next \/ tie' = "broken"]_fileVars
<1> SUFFICES ASSUME TablesInv, [TablesNext]_tablesVars
    PROVE  TablesInv' /\ [Next \/ tie' = "broken"]_fileVars
  OBVIOUS
<1>1. CASE UNCHANGED tablesVars
  <2>1. UNCHANGED fileVars
    BY <1>1 DEF tablesVars
  <2>2. CASE tie = "broken"
    BY <1>1, <2>1, <2>2 DEF tablesVars, TablesInv
  <2>3. CASE TablesOK
    <3>1. UNCHANGED <<book, dirty, writing, saving, up, era, issued, disk>>
      BY <2>1 DEF fileVars, memory
    <3>2. UNCHANGED <<meta, known, posRows, orderRows, dealRows, persisted, emptied, emptying, tie>>
      BY <1>1 DEF tablesVars, tables, resets
    <3>3. TablesTypes' /\ Numbered(book)' /\ Numbered(saving)' /\ Numbered(disk)'
      BY <2>3, <3>1, <3>2 DEF TablesOK, TablesTypes, Numbered
    <3>4. RowsHold(disk)' /\ CountsOK' /\ AgesOK'
      BY <2>3, <3>1, <3>2 DEF TablesOK, RowsHold, CountsOK, AgesOK
    <3> QED
      BY <2>1, <3>3, <3>4 DEF TablesInv, TablesOK
  <2> QED
    BY <2>2, <2>3 DEF TablesInv
<1>2. CASE TablesNext /\ tie' = "broken"
  BY <1>2 DEF TablesInv
<1>3. CASE TablesNext /\ tie' # "broken"
  <2>1. TablesOK /\ disk' = Loaded'
    BY <1>3 DEF TablesInv, TablesNext
  <2>2. TablesOK' /\ Next
    BY <1>3, <2>1, GrowTables, ResetTables, BeginTables, CommitTables, RollbackTables, DieTables,
       ReopenTables, ReopenEmptyTables
       DEF TablesNext, Next
  <2> QED
    BY <2>2 DEF TablesInv
<1> QED
  BY <1>1, <1>2, <1>3

\* Appending the rows a history has gained is as good as writing whole snapshots: every run of
\* the engine over pgBrokerStore is one over a store that keeps the last snapshot it took
\* (pgBrokerStore.Save, Load), whatever commits, fails, goes unheard or is cut off and whatever
\* is reset, up to a commit that breaks the tables: by an engine that could not load them, or of
\* a list that grew again before the store saw it short.
THEOREM TablesStoreSnapshots == TablesSpec => StoresSnapshots
<1>1. TablesInit => TablesInv /\ Init
  BY InitTables DEF TablesInv
<1> QED
  BY <1>1, StepTables, PTL DEF TablesSpec, StoresSnapshots

\* The book handed back by a restart is the book, unless a change is marked or on its way (save,
\* load): over a store of whole snapshots, and over the tables as long as they are not broken.
THEOREM NothingForgotten == (Spec => []ChangesKept) /\ (TablesSpec => []CleanIsDurable)
<1>1. SaveInv => ChangesKept
  BY DEF SaveInv
<1>2. Spec => []ChangesKept
  BY InitSave, StepSave, <1>1, PTL DEF Spec
<1> DEFINE Inv == TablesInv /\ (tie # "broken" => SaveInv)
<1>3. TablesInit => Inv
  BY InitTables, InitSave DEF TablesInv
<1>4. Inv /\ [TablesNext]_tablesVars => Inv'
  <2> SUFFICES ASSUME Inv, [TablesNext]_tablesVars, tie' # "broken" PROVE SaveInv'
    BY StepTables
  <2>1. [Next]_fileVars
    BY StepTables
  <2>2. tie # "broken"
    BY DEF TablesNext, tablesVars
  <2> QED
    BY <2>1, <2>2, StepSave
<1>5. Inv => CleanIsDurable
  BY <1>1 DEF CleanIsDurable
<1>6. TablesSpec => []CleanIsDurable
  BY <1>3, <1>4, <1>5, PTL DEF TablesSpec
<1> QED
  BY <1>2, <1>6
=============================================================================
