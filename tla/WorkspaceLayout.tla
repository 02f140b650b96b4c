--------------------------- MODULE WorkspaceLayout ---------------------------
(***************************************************************************)
(* The docks of the web terminal: regions of tab groups, the widgets in    *)
(* them, and every way to open, close, show and move one.                  *)
(* (frontend/src/workspace: layout/workspace-store.ts, Region.tsx,         *)
(* WidgetHost.tsx; app/CommandPalette.tsx, PanelsMenu.tsx.)                *)
(*                                                                         *)
(* Sizes are left out.  A group is its place in its region: its id is used *)
(* only to find it again within one change.                                *)
(***************************************************************************)
EXTENDS Lists, Sequences, SequencesExt

CONSTANTS
  Widgets, Regions,
  Allowed,        \* widget -> the regions it may be in
  DefaultRegion,  \* widget -> the region it opens in
  DefaultDocks    \* the layout that comes with the terminal

Tabs(g) == ToSet(g.widgets)
Group(w) == [widgets |-> <<w>>, active |-> w]

Layouts ==
  [Regions -> [groups : Seq([widgets : Seq(Widgets), active : Widgets]), collapsed : BOOLEAN]]

\* No group is empty, the tab a group shows is one of its tabs, a widget has one place,
\* and it is one it may be in.
Drawable(rs) ==
  \A r \in Regions : \A i \in DOMAIN rs[r].groups :
    LET g == rs[r].groups[i] IN
    /\ g.active \in Tabs(g)
    /\ IsInjective(g.widgets)
    /\ \A w \in Tabs(g) : r \in Allowed[w]
    /\ \A q \in Regions : \A j \in DOMAIN rs[q].groups :
         <<q, j>> # <<r, i>> => Tabs(rs[q].groups[j]) \cap Tabs(g) = {}

\* The registry refuses a widget that opens where it may not be (registry/types.ts:56).
ASSUME DocksAssumption ==
  /\ Allowed \in [Widgets -> SUBSET Regions]
  /\ \A w \in Widgets : DefaultRegion[w] \in Allowed[w]
  /\ DefaultDocks \in Layouts /\ Drawable(DefaultDocks)

VARIABLE docks    \* region -> [groups, collapsed]

Open(rs) == {w \in Widgets : \E r \in Regions : \E g \in ToSet(rs[r].groups) : w \in Tabs(g)}
Home(rs, w) == CHOOSE r \in Regions : \E g \in ToSet(rs[r].groups) : w \in Tabs(g)
Visible(w) == w \in Open(docks) /\ ~docks[Home(docks, w)].collapsed


----------------------------------------------------------------------------

activateWidgetIn(rs, w) ==
  IF w \notin Open(rs) THEN rs
  ELSE [rs EXCEPT ![Home(rs, w)] =
         [collapsed |-> FALSE,
          groups |-> [i \in DOMAIN @.groups |->
             IF w \in Tabs(@.groups[i]) THEN [@.groups[i] EXCEPT !.active = w] ELSE @.groups[i]]]]

Others(g, w) == Filtered(g.widgets, {i \in DOMAIN g.widgets : g.widgets[i] # w})

\* mutant: the tab that shows is not replaced when it goes
WithoutTab(g, w) == [g EXCEPT !.widgets = Others(g, w)]

\* Of a group with another tab.
Without(g, w) ==
  [widgets |-> Others(g, w), active |-> IF g.active = w THEN Head(Others(g, w)) ELSE g.active]

\* mutant: a group goes with the tab that it shows
Shows(g, w) == g.active # w

\* A group goes with its only tab.
Holds(g, w) == Tabs(g) # {w}
Remaining(gs, w) == {i \in DOMAIN gs : Holds(gs[i], w)}
removeWidgetFrom(rs, w) ==
  [r \in Regions |-> [collapsed |-> rs[r].collapsed,
     groups |-> LET kept == Filtered(rs[r].groups, Remaining(rs[r].groups, w))
                IN  [k \in DOMAIN kept |-> Without(kept[k], w)]]]

addWidget(rs, w) ==
  IF w \in Open(rs) THEN activateWidgetIn(rs, w)
  ELSE [rs EXCEPT ![DefaultRegion[w]] = [groups |-> Append(@.groups, Group(w)), collapsed |-> FALSE]]

\* A group that the widget was alone in has gone, and with it the place to put it.
movedIntoGroup(rs, w, r, i) ==
  LET removed == removeWidgetFrom(rs, w)
      target == rs[r].groups[i]
      at == Rank(Remaining(rs[r].groups, w), i)
      g == [widgets |-> Append(removed[r].groups[at].widgets, w), active |-> w] IN
  IF Holds(target, w)
  THEN [removed EXCEPT ![r] = [groups |-> [removed[r].groups EXCEPT ![at] = g], collapsed |-> FALSE]]
  ELSE [removed EXCEPT ![r].collapsed = FALSE]

movedToNewGroup(rs, w, r) ==
  [removeWidgetFrom(rs, w) EXCEPT ![r] = [groups |-> Append(@.groups, Group(w)), collapsed |-> FALSE]]

----------------------------------------------------------------------------

\* The Panels menu and the command palette.
OpenWidget(w) == docks' = activateWidgetIn(addWidget(docks, w), w)

\* A tab, an arrow key, an icon of a rail, or a widget that brings another to the front.
ActivateWidget(w) == w \in Open(docks) /\ docks' = activateWidgetIn(docks, w)

CloseTab(w) == Visible(w) /\ docks' = removeWidgetFrom(docks, w)

DropIntoGroup(w, r, i) ==
  /\ Visible(w) /\ ~docks[r].collapsed /\ i \in DOMAIN docks[r].groups
  /\ r \in Allowed[w]
  /\ docks' = movedIntoGroup(docks, w, r, i)

DropIntoEmptyRegion(w, r) ==
  /\ Visible(w) /\ ~docks[r].collapsed /\ docks[r].groups = <<>>
  /\ r \in Allowed[w]
  /\ docks' = movedToNewGroup(docks, w, r)

\* The palette offers the regions a widget may be in.
MoveToRegion(w, r) ==
  /\ r \in Allowed[w] /\ w \in Open(docks)
  /\ docks' = movedToNewGroup(docks, w, r)

ToggleRegion(r) == docks' = [docks EXCEPT ![r].collapsed = ~@]

ResetLayout == docks' = DefaultDocks

----------------------------------------------------------------------------

DocksInit == docks = DefaultDocks

DocksNext ==
  \/ ResetLayout
  \/ \E r \in Regions : ToggleRegion(r)
  \/ \E w \in Widgets : OpenWidget(w) \/ ActivateWidget(w) \/ CloseTab(w)
  \/ \E w \in Widgets, r \in Regions :
       DropIntoEmptyRegion(w, r) \/ MoveToRegion(w, r) \/ \E i \in 1..Cardinality(Widgets) : DropIntoGroup(w, r, i)

DocksSpec == DocksInit /\ [][DocksNext]_docks

----------------------------------------------------------------------------
\* Properties.

\* Whatever is opened, closed and dragged, the layout that is saved can be loaded and drawn: no
\* group is empty, the tab a group shows is one of its tabs, a widget has one place, and it is
\* one it may be in (schema.ts:22, Region.tsx:103).
LayoutCanBeDrawn == Drawable(docks)

=============================================================================
