----------------------------- MODULE OrderDraft -----------------------------
(***************************************************************************)
(* The draft of the order ticket: the numbers a trader types in the        *)
(* ticket, the ones the risk calculator and the ladder put there, and what *)
(* becomes of them when the instrument changes, the ticket is closed and   *)
(* opened, or the page reloads.                                            *)
(* (frontend/src/stores/order-draft-store.ts, OrderTicketWidget.tsx,       *)
(* RiskCalculatorWidget.tsx, MarketDepthWidget.tsx.)                       *)
(*                                                                         *)
(* A number is the instrument it was meant for and the panel it was typed  *)
(* or clicked in.  React runs the effects of a change before the next      *)
(* event, so they are part of the action that causes them.                 *)
(***************************************************************************)
EXTENDS Naturals

CONSTANTS
  Instruments, NoInstrument,
  LargeMinimum   \* the instruments whose smallest volume is above the default

ASSUME DraftAssumption == NoInstrument \notin Instruments

VARIABLES
  instrument,     \* the workspace's active symbol
  draft,          \* symbol, price, stop, volume, appliedFrom
  volumeBySymbol, \* instrument -> number; Unsized where there is none
  ticketOpen,     \* the ticket is mounted
  calculator      \* the calculator: the stop typed in it, or Closed

draftVars == <<instrument, draft, volumeBySymbol, ticketOpen, calculator>>

Number(i, panel) == [for |-> i, in |-> panel]
Blank == Number(NoInstrument, "nowhere")
InitialVolume == Number(NoInstrument, "default")
Unsized == Blank
Closed == Number(NoInstrument, "closed")

----------------------------------------------------------------------------
\* The store.

VolumeFor(volumes, i) == IF volumes[i] = Unsized THEN InitialVolume ELSE volumes[i]

Emptied(d, i, volume) ==
  [d EXCEPT !.symbol = i, !.volume = volume, !.price = Blank, !.stop = Blank, !.appliedFrom = "nothing"]

\* mutant: a mount takes the draft as it is
AdoptAsIs(d, i) == [d EXCEPT !.symbol = i]

\* A mount, not a move: the draft is kept when it belongs to the instrument.
adoptSymbol(d, i) ==
  CASE d.symbol = i -> d
    [] d.symbol = NoInstrument -> [d EXCEPT !.symbol = i]
    [] OTHER -> Emptied(d, i, VolumeFor(volumeBySymbol, i))

resetForSymbol(leaving, entering) ==
  LET remembered == [volumeBySymbol EXCEPT ![leaving] = draft.volume] IN
  /\ volumeBySymbol' = remembered
  /\ draft' = Emptied(draft, entering, VolumeFor(remembered, entering))

SeedMinimumVolume ==
  /\ ticketOpen /\ instrument \in LargeMinimum
  /\ draft.symbol = instrument /\ volumeBySymbol[instrument] = Unsized /\ draft.volume = InitialVolume
  /\ draft' = [draft EXCEPT !.volume = Number(instrument, "minimum")]
  /\ volumeBySymbol' = [volumeBySymbol EXCEPT ![instrument] = Number(instrument, "minimum")]
  /\ UNCHANGED <<instrument, ticketOpen, calculator>>

----------------------------------------------------------------------------
\* The panels.

SelectInstrument(i) ==
  /\ i # instrument /\ instrument' = i
  /\ IF ticketOpen THEN resetForSymbol(instrument, i) ELSE UNCHANGED <<draft, volumeBySymbol>>
  /\ UNCHANGED <<ticketOpen, calculator>>

TypeInTicket(field) ==
  /\ ticketOpen
  /\ draft' = [draft EXCEPT ![field] = Number(instrument, "ticket")]
  /\ UNCHANGED <<instrument, volumeBySymbol, ticketOpen, calculator>>

OpenTicket ==
  /\ ~ticketOpen /\ ticketOpen' = TRUE
  /\ draft' = adoptSymbol(draft, instrument)
  /\ UNCHANGED <<instrument, volumeBySymbol, calculator>>

\* Another tab of its group, a collapsed dock, another view of the mobile terminal.
CloseTicket ==
  /\ ticketOpen /\ ticketOpen' = FALSE
  /\ UNCHANGED <<instrument, draft, volumeBySymbol, calculator>>

Acknowledge ==
  /\ draft.appliedFrom # "nothing" /\ ticketOpen
  /\ draft' = [draft EXCEPT !.appliedFrom = "nothing"]
  /\ UNCHANGED <<instrument, volumeBySymbol, ticketOpen, calculator>>

\* The fields of the calculator live as long as the panel, whatever the instrument.
TypeInCalculator ==
  /\ calculator # Closed /\ calculator' = Number(instrument, "calculator")
  /\ UNCHANGED <<instrument, draft, volumeBySymbol, ticketOpen>>

OpenCalculator ==
  /\ calculator = Closed /\ calculator' = Blank
  /\ UNCHANGED <<instrument, draft, volumeBySymbol, ticketOpen>>

CloseCalculator ==
  /\ calculator # Closed /\ calculator' = Closed
  /\ UNCHANGED <<instrument, draft, volumeBySymbol, ticketOpen>>

\* The ticket is brought to the front, if the layout has one, over the calculator if they share
\* a group.
ApplyCalculator ==
  LET applied == [draft EXCEPT !.volume = Number(instrument, "calculator"), !.stop = calculator,
                               !.appliedFrom = "calculator"] IN
  /\ calculator \notin {Closed, Blank}
  /\ \/ ticketOpen /\ draft' = applied /\ UNCHANGED <<ticketOpen, calculator>>
     \/ ~ticketOpen /\ draft' = applied /\ UNCHANGED <<ticketOpen, calculator>>
     \/ /\ ~ticketOpen /\ ticketOpen' = TRUE
        /\ draft' = adoptSymbol(applied, instrument)
        /\ calculator' \in {calculator, Closed}
  /\ UNCHANGED <<instrument, volumeBySymbol>>

\* A click on a price of the ladder, or on its market buttons; the ticket stays where it is.
WorkLadder ==
  /\ \E price \in {Blank, Number(instrument, "ladder")} :
       draft' = [draft EXCEPT !.price = price, !.appliedFrom = "ladder"]
  /\ UNCHANGED <<instrument, volumeBySymbol, ticketOpen, calculator>>

\* The draft is kept in the tab's session storage, without what was applied; the layout or the
\* link may come back with another instrument.
ReloadPage ==
  LET persisted == [draft EXCEPT !.appliedFrom = "nothing"] IN
  /\ instrument' \in Instruments
  /\ ticketOpen' \in BOOLEAN
  /\ draft' = IF ticketOpen' THEN adoptSymbol(persisted, instrument') ELSE persisted
  /\ calculator' \in {Closed, Blank}
  /\ UNCHANGED volumeBySymbol

----------------------------------------------------------------------------

DraftInit ==
  /\ instrument \in Instruments
  /\ draft = [symbol |-> NoInstrument, price |-> Blank, stop |-> Blank, volume |-> InitialVolume, appliedFrom |-> "nothing"]
  /\ volumeBySymbol = [i \in Instruments |-> Unsized]
  /\ ticketOpen = FALSE /\ calculator = Closed

DraftNext ==
  \/ SeedMinimumVolume \/ OpenTicket \/ CloseTicket \/ Acknowledge \/ ReloadPage
  \/ TypeInCalculator \/ OpenCalculator \/ CloseCalculator \/ ApplyCalculator \/ WorkLadder
  \/ \E i \in Instruments : SelectInstrument(i)
  \/ \E field \in {"price", "stop", "volume"} : TypeInTicket(field)

DraftSpec == DraftInit /\ [][DraftNext]_draftVars

----------------------------------------------------------------------------
\* Properties.

Fields == {"price", "stop", "volume"}

\* What a trader typed in the ticket for one instrument, and a volume remembered or seeded for
\* it, is never shown for another, across remounts, reloads and moves
\* (order-draft-store.ts:160).
TypedNumbersStayWithTheirInstrument ==
  ticketOpen =>
    /\ draft.symbol = instrument
    /\ \A f \in Fields : draft[f].in \in {"ticket", "minimum"} => draft[f].for = instrument

=============================================================================
