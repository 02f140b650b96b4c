----------------------------- MODULE TradeHistory -----------------------------
(***************************************************************************)
(* The closed positions of the history panel: a window of the account's    *)
(* deals is walked page by page while the server adds to it, the entries   *)
(* that lie before the window are fetched apart, and exits are paired with *)
(* entries, each paying its part of what the entry cost.                   *)
(* (frontend/src: features/history/useHistory.ts, entry-backfill.ts,       *)
(* net-result.ts; integrations/gateway: api/trading-api.ts,                *)
(* mappers/to-domain.ts; backend/cmd/demomarket/broker.go.)                *)
(*                                                                         *)
(* Time is in seconds.  A deal costs one per lot, whatever it does, and a  *)
(* lot that is closed earns Gain.                                          *)
(***************************************************************************)
EXTENDS Integers, SequencesExt, FiniteSetsExt

CONSTANTS
  Positions, NoPosition, Gain, MaxVolume,
  PageSize, MaxPages,
  HistoryRange, Lookbacks,   \* how far the window reaches back, and how far before it an entry is looked for
  WindowSlips,               \* how much the start of the window may differ when the broker's clock is not known
  MaxDeals, MaxSeconds       \* bounds of the model

VARIABLES
  ledger,    \* the deals of the account, as the server has them
  seconds,
  walk,      \* the window that is being fetched, and what has come of it
  window,    \* the last one fetched
  older      \* what was fetched for the entries that lie before it, by the positions that lacked one

historyVars == <<ledger, seconds, walk, window, older>>

NoWalk == [going |-> FALSE]
NotFetched == [from |-> 0, deals |-> <<>>, truncated |-> FALSE]

----------------------------------------------------------------------------
\* The server.

DealsOf(p) == SelectSeq(ledger, LAMBDA d : d.position = p)
Volumes(seq) == FoldLeft(LAMBDA sum, d : sum + d.volume, 0, seq)

\* A reversal closes what is open and opens the rest of its volume.
OpenVolume(p) ==
  FoldLeft(LAMBDA open, d : CASE d.entry = "in" -> d.volume
                              [] d.entry = "inout" -> d.volume - open
                              [] OTHER -> open - d.volume, 0, DealsOf(p))

Book(p, entry, volume, closed) ==
  /\ Len(ledger) < MaxDeals
  /\ ledger' = Append(ledger, [id |-> Len(ledger) + 1, position |-> p, entry |-> entry, volume |-> volume,
                               profit |-> Gain * closed, fee |-> volume, time |-> seconds])
  /\ UNCHANGED <<seconds, walk, window, older>>

Opens(p) == DealsOf(p) = <<>> /\ \E v \in 1..MaxVolume : Book(p, "in", v, 0)
Closes(p) == \E v \in 1..OpenVolume(p) : Book(p, "out", v, v)
Reverses(p) ==
  LET open == OpenVolume(p) IN
  open > 0 /\ \E v \in (open + 1)..MaxVolume : Book(p, "inout", v, open)
Deposit == Book(NoPosition, "none", 0, 0)

\* Both ends are within the range.
Deals(from, to) == SelectSeq(ledger, LAMBDA d : from <= d.time /\ d.time <= to)
PageAt(from, to, offset) == LET all == Deals(from, to) IN SubSeq(all, offset + 1, IF offset + PageSize < Len(all) THEN offset + PageSize ELSE Len(all))

\* Every page of a range whose deals are all in.
Walked(from, to) == LET all == Deals(from, to) IN SubSeq(all, 1, IF Len(all) < PageSize * MaxPages THEN Len(all) ELSE PageSize * MaxPages)

----------------------------------------------------------------------------
\* Pairing.

NoLeg == [opening |-> NoPosition, volume |-> 0, fee |-> 0]
openLegOf(d) == [opening |-> d.id, volume |-> d.volume, fee |-> d.fee]

\* mutant: every exit pays for the whole entry
ChargedInFull(leg, closedVolume) == leg.fee

\* The last exit takes what is left.
chargeEntry(leg, closedVolume) ==
  IF closedVolume < leg.volume THEN (leg.fee * closedVolume) \div leg.volume ELSE leg.fee

Spent(leg, closedVolume) ==
  IF closedVolume < leg.volume
  THEN [leg EXCEPT !.volume = @ - closedVolume, !.fee = @ - chargeEntry(leg, closedVolume)]
  ELSE [leg EXCEPT !.volume = 0, !.fee = 0]

\* In the order of time, and of the list where the time is the same.
InTime(deals) == FlattenSeq([t \in 1..(MaxSeconds + 1) |-> SelectSeq(deals, LAMBDA d : d.time = t - 1)])

RowOf(d, leg) ==
  [id |-> d.position, exit |-> d.id, volume |-> d.volume, profit |-> d.profit, closeTime |-> d.time,
   fee |-> d.fee + (IF leg = NoLeg THEN 0 ELSE chargeEntry(leg, d.volume)),
   openedBeforeRange |-> leg = NoLeg]

Paired(acc, d) ==
  LET leg == acc.legs[d.position]
      closed == [legs |-> [acc.legs EXCEPT ![d.position] = IF leg = NoLeg THEN leg ELSE Spent(leg, d.volume)],
                 rows |-> Append(acc.rows, RowOf(d, leg))] IN
  CASE d.entry = "in" -> [acc EXCEPT !.legs[d.position] = openLegOf(d)]
    [] d.entry = "inout" -> [closed EXCEPT !.legs[d.position] = openLegOf(d)]
    [] OTHER -> closed

pairDealsIntoClosedPositions(deals) ==
  LET trades == SelectSeq(InTime(deals), LAMBDA d : d.position # NoPosition) IN
  FoldLeft(Paired, [legs |-> [p \in Positions |-> NoLeg], rows |-> <<>>], trades).rows

missingEntryIdsOf(deals) == {r.id : r \in {s \in ToSet(pairDealsIntoClosedPositions(deals)) : s.openedBeforeRange}}

netResultOf(r) == r.profit - r.fee

----------------------------------------------------------------------------
\* Fetching.

\* What the ranges that were looked through so far brought of the missing positions; the next range
\* ends in the second in which the last one began.
LookedBack(acc, lookback) ==
  LET from == acc.start - lookback
      page == Walked(from, acc.coveredFrom) IN
  IF acc.outstanding = {} \/ from >= acc.coveredFrom THEN acc
  ELSE [acc EXCEPT !.coveredFrom = from,
          !.found = @ \o SelectSeq(page, LAMBDA d : d.position \in acc.outstanding),
          !.outstanding = @ \ {d.position : d \in {e \in ToSet(page) : e.entry \in {"in", "inout"}}}]

fetchEntryBackfill(start, ids) ==
  FoldLeft(LookedBack, [start |-> start, coveredFrom |-> start, outstanding |-> ids, found |-> <<>>], Lookbacks).found

rangeWindow == {seconds - HistoryRange + slip : slip \in WindowSlips}

\* A later fetch of the same range takes the place of one that is under way.
Fetch ==
  /\ \E from \in rangeWindow : walk' = [going |-> TRUE, from |-> from, to |-> seconds, deals |-> <<>>, page |-> 0]
  /\ UNCHANGED <<ledger, seconds, window, older>>

NextPage ==
  /\ walk.going
  /\ LET rows == PageAt(walk.from, walk.to, walk.page * PageSize)
         all == walk.deals \o rows IN
     IF Len(rows) < PageSize \/ walk.page = MaxPages - 1
     THEN walk' = NoWalk /\ window' = [from |-> walk.from, deals |-> all, truncated |-> Len(rows) = PageSize]
     ELSE walk' = [walk EXCEPT !.page = @ + 1, !.deals = all] /\ UNCHANGED window
  /\ UNCHANGED <<ledger, seconds, older>>

MissingIds == missingEntryIdsOf(window.deals)

\* Once for the same positions, wherever the window has moved since.
Backfill ==
  /\ MissingIds \notin DOMAIN older \cup {{}}
  /\ older' = [ids \in DOMAIN older \cup {MissingIds} |->
                 IF ids \in DOMAIN older THEN older[ids] ELSE fetchEntryBackfill(window.from, ids)]
  /\ UNCHANGED <<ledger, seconds, walk, window>>

\* The rows of the panel.
Older == IF MissingIds \in DOMAIN older THEN older[MissingIds] ELSE <<>>

closedPositions ==
  IF Older = <<>> THEN pairDealsIntoClosedPositions(window.deals)
  ELSE SelectSeq(pairDealsIntoClosedPositions(Older \o window.deals), LAMBDA r : r.closeTime >= window.from)

----------------------------------------------------------------------------

HistoryInit == ledger = <<>> /\ seconds = 0 /\ walk = NoWalk /\ window = NotFetched /\ older = [ids \in {} |-> <<>>]

SecondPasses == seconds < MaxSeconds /\ seconds' = seconds + 1 /\ UNCHANGED <<ledger, walk, window, older>>

HistoryNext ==
  \/ \E p \in Positions : Opens(p) \/ Closes(p) \/ Reverses(p)
  \/ Deposit \/ SecondPasses \/ Fetch \/ NextPage \/ Backfill

----------------------------------------------------------------------------
\* Properties.

Settled == MissingIds \in DOMAIN older \cup {{}}
RowsOf(p) == SelectSeq(closedPositions, LAMBDA r : r.id = p)
Exits(p) == SelectSeq(window.deals, LAMBDA d : d.position = p /\ d.entry # "in")
EntryDeal(p) == Head(DealsOf(p))
Reversed(p) == \E d \in ToSet(DealsOf(p)) : d.entry = "inout"
FetchedTwice(p) ==
  \E d \in ToSet(Older) : d.position = p /\ (d \in ToSet(window.deals) \/ Len(SelectSeq(Older, LAMBDA e : e = d)) > 1)

NetOf(rows) == FoldLeft(LAMBDA sum, r : sum + netResultOf(r), 0, rows)

\* What closing did to the balance, and the part of the entry's price that falls on it.
BalanceMoved(p) ==
  LET closed == Volumes(Exits(p)) IN
  FoldLeft(LAMBDA sum, d : sum + d.profit - d.fee, 0, Exits(p)) - (EntryDeal(p).fee * closed) \div EntryDeal(p).volume

\* Once the entries before the window have come, every exit that was fetched of the window has one
\* row, and the rows of a position whose entry was found add up to what its exits did to the balance
\* with their part of the entry's cost, over partial closes, windows that move, walks that deals are
\* added to, and lists that were cut at the last page, of the window and of what lies before it;
\* unless a deal was fetched twice or reversed the position (net-result.ts:3).
RowsAreTheLedger ==
  Settled => \A p \in Positions :
    \/ FetchedTwice(p) \/ Reversed(p)
    \/ /\ [i \in DOMAIN RowsOf(p) |-> RowsOf(p)[i].exit] = [i \in DOMAIN Exits(p) |-> Exits(p)[i].id]
       /\ \A r \in ToSet(RowsOf(p)) : ~r.openedBeforeRange => NetOf(RowsOf(p)) = BalanceMoved(p)

\* The rows of a position that was opened and closed within the window add up to what it did to the
\* balance (net-result.ts:3).
NetIsTheBalance ==
  Settled => \A p \in Positions :
    LET all == DealsOf(p) IN
    all # <<>> /\ OpenVolume(p) = 0 /\ ToSet(all) \subseteq ToSet(window.deals)
      => NetOf(RowsOf(p)) = FoldLeft(LAMBDA sum, d : sum + d.profit - d.fee, 0, all)

=============================================================================
