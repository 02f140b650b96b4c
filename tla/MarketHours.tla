------------------------------ MODULE MarketHours ------------------------------
(***************************************************************************)
(* The trading hours of a symbol as the web terminal reads them: whether   *)
(* its market is open, and in how many minutes it opens.                   *)
(* (frontend/src/domain/market/session.ts, order-ticket/useMarketState.ts.) *)
(*                                                                         *)
(* A session is a set of segments: hours, and the days they are for.  The  *)
(* clock is the symbol's own.                                              *)
(***************************************************************************)
EXTENDS Integers, FiniteSets, FiniteSetsExt

CONSTANTS
  MinutesPerDay, Days,   \* a day has fewer minutes and a week fewer days than ours
  Unreadable, Always     \* a session that is missing or malformed, and 24x7

VARIABLES
  session,   \* a set of segments, or Unreadable, or Always
  minuteOfWeek   \* minutes since the week began

hourVars == <<session, minuteOfWeek>>

Unannounced == 0
Week == MinutesPerDay * Days

Today == minuteOfWeek \div MinutesPerDay
Minute == minuteOfWeek % MinutesPerDay

----------------------------------------------------------------------------

\* An end that is not after its start is on the next day.
Hours(start, end) ==
  [startMinute |-> start, endMinute |-> IF end > start THEN end ELSE end + MinutesPerDay]

Segments ==
  [range : {Hours(start, end) : start \in 0..(MinutesPerDay - 1), end \in 0..MinutesPerDay},
   days : SUBSET (0..(Days - 1)) \ {{}}]

\* The segments that name a day add up.
RangesOf(day) == {s.range : s \in {g \in session : day \in g.days}}

\* Also by what runs past midnight.
OpenNow ==
  \E day \in 0..(Days - 1) : \E r \in RangesOf(day) :
    \/ day = Today /\ Minute >= r.startMinute /\ Minute < r.endMinute
    \/ (day + 1) % Days = Today /\ Minute < r.endMinute - MinutesPerDay

marketState ==
  CASE session = Unreadable -> "unknown"
    [] session = Always -> "open"
    [] OpenNow -> "open"
    [] OTHER -> "closed"

\* mutant: the days before the same day of the next week
OpeningsWithinTheWeek ==
  UNION {{o * MinutesPerDay + r.startMinute - Minute : r \in RangesOf((Today + o) % Days)} : o \in 0..(Days - 1)}

\* Up to the same day of the next week.
Openings ==
  UNION {{o * MinutesPerDay + r.startMinute - Minute : r \in RangesOf((Today + o) % Days)} : o \in 0..Days}

minutesUntilOpen ==
  LET ahead == {d \in Openings : d > 0} IN
  IF marketState # "closed" \/ ahead = {} THEN Unannounced ELSE Min(ahead)

----------------------------------------------------------------------------

HoursInit ==
  /\ \/ session \in {Unreadable, Always}
     \/ \E first, second \in Segments : session = {first, second}   \* bound: two segments
  /\ minuteOfWeek = 0

MinutePasses == minuteOfWeek' = (minuteOfWeek + 1) % Week /\ UNCHANGED session

HoursNext == MinutePasses

----------------------------------------------------------------------------
\* Properties.

\* The wait that a closed market announces goes down by one with every minute, over midnight and
\* over the end of the week, and the market opens when it is over, not before (session.ts:210).
AnnouncedOpeningComes ==
  [][marketState = "closed" =>
       IF minutesUntilOpen = 1 THEN marketState' = "open"
       ELSE marketState' = "closed" /\ minutesUntilOpen' = minutesUntilOpen - 1]_hourVars

=============================================================================
