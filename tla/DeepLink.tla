------------------------------- MODULE DeepLink -------------------------------
(***************************************************************************)
(* Symbol and tab of the web terminal: the link it is opened with, the     *)
(* remembered layout, the copy of it that comes from the server later, the *)
(* trader's choices, and the browser's history, on the desktop.            *)
(* (frontend/src/app/url-state.ts; workspace/layout/workspace-store.ts;    *)
(* features/chart/ChartWorkspace.tsx.)                                     *)
(*                                                                         *)
(* React runs the effect that writes the address after every change and    *)
(* before the next event: it is part of the action.  How the layout's copy *)
(* travels is in WorkspaceSync.                                            *)
(***************************************************************************)
EXTENDS Naturals, Sequences, SequencesExt

CONSTANTS
  Watched, TabNames, Unnamed,
  PaneCounts,    \* charts that an arrangement shows
  MaxEntries     \* bound: entries of the browser's history

VARIABLES
  layout,        \* [activeSymbol, tab, panes]
  urlSymbolIntent, urlTabIntent,
  visits,        \* the browser's history: [entries, at]; an entry is [symbol, tab]
  link,          \* the entry the terminal was opened with
  remembered,    \* the symbol of the layout it was opened on
  followed       \* nothing but the link has chosen the symbol since

linkVars == <<layout, urlSymbolIntent, urlTabIntent, visits, link, remembered, followed>>

Entries == [symbol : Watched \cup {Unnamed}, tab : TabNames \cup {Unnamed}]
Address(h) == h.entries[h.at]

----------------------------------------------------------------------------
\* The store.

\* The first chart follows the active symbol.
FirstPaneShows(panes, s) == [panes EXCEPT ![1] = s]

Activated(l, s) == [l EXCEPT !.activeSymbol = s, !.panes = FirstPaneShows(@, s)]

\* An intent lasts until something else is chosen.
KeptIntent(intent, chosen) == IF intent = chosen THEN intent ELSE Unnamed

setChartLayout(l, n) ==
  [l EXCEPT !.panes = IF n <= Len(@) THEN SubSeq(@, 1, n)
                      ELSE @ \o [i \in 1..(n - Len(@)) |-> l.activeSymbol]]

\* mutant: the copy that arrives is shown as it is
StoredAsItIs(stored) == stored

Intended(stored) ==
  LET l == IF urlSymbolIntent = Unnamed THEN stored ELSE Activated(stored, urlSymbolIntent) IN
  IF urlTabIntent = Unnamed THEN l ELSE [l EXCEPT !.tab = urlTabIntent]

----------------------------------------------------------------------------
\* The address.

ReplacedEntry(h, entry) == [h EXCEPT !.entries[h.at] = entry]
PushedEntry(h, entry) ==
  IF entry = Address(h) THEN h
  ELSE [entries |-> Append(SubSeq(h.entries, 1, h.at), entry), at |-> h.at + 1]

EntryOf(l) == [symbol |-> l.activeSymbol, tab |-> l.tab]

\* The effect runs when the symbol or the tab has changed.
Written(h, l) == IF EntryOf(l) = EntryOf(layout) THEN h ELSE PushedEntry(h, EntryOf(l))

Becomes(l) ==
  /\ layout' = l /\ visits' = Written(visits, l)
  /\ visits'.at <= MaxEntries

----------------------------------------------------------------------------

\* A mount: the effect that adopts the link runs first, the one that writes the address still
\* has the symbol and the tab of the layout, and runs again with the link's.
Mounted(entry, l) ==
  LET bySymbol == entry.symbol \notin {Unnamed, l.activeSymbol}
      adopted == IF bySymbol THEN Activated(l, entry.symbol) ELSE l
      start == [entries |-> <<entry>>, at |-> 1] IN
  /\ urlSymbolIntent = IF bySymbol THEN entry.symbol ELSE Unnamed
  /\ urlTabIntent = entry.tab
  /\ layout = IF entry.tab = Unnamed THEN adopted ELSE [adopted EXCEPT !.tab = entry.tab]
  /\ visits = IF entry = [symbol |-> Unnamed, tab |-> Unnamed] THEN ReplacedEntry(start, EntryOf(l))
              ELSE PushedEntry(PushedEntry(start, EntryOf(l)), EntryOf(layout))

SelectSymbol(s) ==
  /\ Becomes(Activated(layout, s))
  /\ urlSymbolIntent' = KeptIntent(urlSymbolIntent, s)
  /\ followed' = (followed /\ s = layout.activeSymbol)
  /\ UNCHANGED <<urlTabIntent, link, remembered>>

SelectTab(t) ==
  /\ Becomes([layout EXCEPT !.tab = t])
  /\ urlTabIntent' = KeptIntent(urlTabIntent, t)
  /\ UNCHANGED <<urlSymbolIntent, link, remembered, followed>>

\* A tab that is dropped shows, and the intent stays.
DropTab(t) ==
  /\ Becomes([layout EXCEPT !.tab = t])
  /\ UNCHANGED <<urlSymbolIntent, urlTabIntent, link, remembered, followed>>

SetChartLayout(n) ==
  /\ Becomes(setChartLayout(layout, n))
  /\ UNCHANGED <<urlSymbolIntent, urlTabIntent, link, remembered, followed>>

\* The server's copy of the layout has come.
Resync(stored) ==
  /\ Becomes(Intended(stored))
  /\ UNCHANGED <<urlSymbolIntent, urlTabIntent, link, remembered, followed>>

OpenSavedLayout(stored) ==
  /\ Becomes(stored)
  /\ followed' = FALSE
  /\ UNCHANGED <<urlSymbolIntent, urlTabIntent, link, remembered>>

\* popstate: what the entry names is chosen, and its tab is adopted like a link's.
Travel(to) ==
  LET entry == visits.entries[to]
      chosen == IF entry.symbol \in {Unnamed, layout.activeSymbol} THEN layout ELSE Activated(layout, entry.symbol) IN
  /\ to # visits.at /\ to \in DOMAIN visits.entries
  /\ layout' = IF entry.tab = Unnamed THEN chosen ELSE [chosen EXCEPT !.tab = entry.tab]
  /\ visits' = Written([visits EXCEPT !.at = to], layout')
  /\ visits'.at <= MaxEntries
  /\ urlSymbolIntent' = IF chosen = layout THEN urlSymbolIntent ELSE KeptIntent(urlSymbolIntent, entry.symbol)
  /\ urlTabIntent' = IF entry.tab = Unnamed THEN urlTabIntent ELSE entry.tab
  /\ followed' = (followed /\ layout'.activeSymbol = layout.activeSymbol)
  /\ UNCHANGED <<link, remembered>>

----------------------------------------------------------------------------

\* What a device of the trader saves.
SavedLayouts ==
  {[activeSymbol |-> panes[1], tab |-> t, panes |-> panes] :
     panes \in UNION {[1..n -> Watched] : n \in PaneCounts}, t \in TabNames}

LinkInit ==
  /\ link \in Entries /\ followed = TRUE
  /\ \E l \in SavedLayouts : remembered = l.activeSymbol /\ Mounted(link, l)

LinkNext ==
  \/ \E s \in Watched : SelectSymbol(s)
  \/ \E t \in TabNames : SelectTab(t) \/ DropTab(t)
  \/ \E n \in PaneCounts : SetChartLayout(n)
  \/ \E l \in SavedLayouts : Resync(l) \/ OpenSavedLayout(l)
  \/ \E to \in 1..MaxEntries : Travel(to)

LinkSpec == LinkInit /\ [][LinkNext]_linkVars

----------------------------------------------------------------------------
\* Properties.

\* The symbol of the link stays, whatever layouts come from the server, until the trader chooses
\* another, unless it is the one the layout had already (workspace-store.ts:223, url-state.ts:154).
LinkWins == followed /\ link.symbol \notin {Unnamed, remembered} => layout.activeSymbol = link.symbol

=============================================================================
