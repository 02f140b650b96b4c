--------------------------- MODULE MCTerminalTools ---------------------------
(***************************************************************************)
(* Small instances of what a trader works with in the web terminal: the    *)
(* desk and its dialogs, the draft and the rules of the ticket, the        *)
(* history, the docks, the address, the trading hours, and the chart.      *)
(* They share no state here, so one of them moves in a behaviour, and the  *)
(* others stay in one of their initial states.                             *)
(***************************************************************************)
EXTENDS OrderDesk, OrderDraft, OrderRules, TradeHistory, WorkspaceLayout, DeepLink, MarketHours, ChartSeries

CONSTANTS eurusd, btcusd, orderTicket, positions, deals, left, right, bottom

VARIABLE moving

\* The components of the desk are used a few at a time.
SomeUses == {{"ticket"}, {"resize", "modify"}, {"close"}, {"stop-loss", "take-profit"}, {"bulk"}}

SomePrices == {Empty, -2, 0, 3, 4, 6, 8}
Bracket(u, v) == [unit |-> u, value |-> v]
SomeStops ==
  {NoStop} \cup {Bracket("price", v) : v \in {-2, 0, 3, 4, 8}} \cup {Bracket("pips", v) : v \in {0, 1, 4}}
           \cup {Bracket("percent", v) : v \in {40, 100}} \cup {Bracket("money", v) : v \in {1, 5}}
SomeTargets == {NoStop, Bracket("price", 8), Bracket("pips", 1), Bracket("money", 3)}

SomeLookbacks == <<1, 3>>

SomeAllowed == [w \in Widgets |-> CASE w = orderTicket -> {left, right} [] w = positions -> {bottom, right} [] OTHER -> {bottom}]
SomeDefaults == [w \in Widgets |-> IF w = orderTicket THEN right ELSE bottom]
SomeDocks ==
  [r \in Regions |-> [collapsed |-> FALSE,
     groups |-> CASE r = right -> <<Group(orderTicket)>>
                  [] r = bottom -> <<[widgets |-> <<positions, deals>>, active |-> positions]>>
                  [] OTHER -> <<>>]]

\* One series with a weekend, one without.
WeekendGap == [s \in Series |-> IF s = eurusd THEN {1, 2, 5, 6} ELSE 1..6]

MCInit ==
  /\ moving \in {"desk", "draft", "rules", "history", "docks", "address", "hours", "chart"}
  /\ Init
  /\ moving = "desk" \/ (using = {"ticket"} /\ login = CHOOSE l \in Logins : TRUE)
  /\ DraftInit /\ (moving = "draft" \/ instrument = eurusd)
  /\ RulesInit /\ (moving = "rules" \/ bid = 4)
  /\ HistoryInit /\ DocksInit
  /\ IF moving = "hours" THEN HoursInit ELSE session = Always /\ minuteOfWeek = 0
  /\ LinkInit
  /\ \/ moving = "address"
     \/ /\ layout = [activeSymbol |-> eurusd, tab |-> deals, panes |-> <<eurusd>>]
        /\ link = [symbol |-> Unnamed, tab |-> Unnamed]
  /\ ChartInit /\ (moving = "chart" \/ shown = eurusd)

order == <<draftVars, ruleVars, historyVars>>
watch == <<docks, linkVars, hourVars, chartVars>>

MCNext ==
  /\ UNCHANGED moving
  /\ \/ moving = "desk" /\ Next /\ UNCHANGED <<order, watch>>
     \/ moving = "draft" /\ DraftNext /\ UNCHANGED <<vars, ruleVars, historyVars, watch>>
     \/ moving = "rules" /\ RulesNext /\ UNCHANGED <<vars, draftVars, historyVars, watch>>
     \/ moving = "history" /\ HistoryNext /\ UNCHANGED <<vars, draftVars, ruleVars, watch>>
     \/ moving = "docks" /\ DocksNext /\ UNCHANGED <<vars, order, linkVars, hourVars, chartVars>>
     \/ moving = "address" /\ LinkNext /\ UNCHANGED <<vars, order, docks, hourVars, chartVars>>
     \/ moving = "hours" /\ HoursNext /\ UNCHANGED <<vars, order, docks, linkVars, chartVars>>
     \/ moving = "chart" /\ ChartNext /\ UNCHANGED <<vars, order, docks, linkVars, hourVars>>

MCSpec == MCInit /\ [][MCNext]_<<moving, vars, order, watch>>

\* The history alone, of an account whose positions may be reversed.
ReversalSpec == MCInit /\ moving = "history" /\ [][MCNext]_<<moving, vars, order, watch>>
=============================================================================
