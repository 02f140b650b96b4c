----------------------------- MODULE ChartSeries -----------------------------
(***************************************************************************)
(* The candles of one chart pane of the web terminal: the first page of    *)
(* history, the pages before it, the bars and quotes that keep the last    *)
(* candle moving, and what React draws of them.                            *)
(* (frontend/src/features/chart: use-chart-series.ts, bars.ts, ChartPane.) *)
(*                                                                         *)
(* A series is a symbol of the account's group.  The interval stays: what  *)
(* a page of a shorter one does that comes late, README.md says.  A candle *)
(* is the series it was asked of and the bucket it opens; its prices are   *)
(* left out.                                                               *)
(***************************************************************************)
EXTENDS Lists, Sequences, SequencesExt

CONSTANTS
  Series,
  Trades,     \* series -> the buckets in which it trades
  Page,       \* buckets in a page of history
  Window,     \* buckets in a frame of the stream of bars
  MaxClock,   \* bound: buckets that open
  MaxShows    \* bound: changes of series and retries

\* A page has PAGE_BARS buckets (use-chart-series.ts:22), a frame of the stream those of the
\* last five minutes (backend/internal/domain/tick.go:104).
ASSUME ChartAssumption ==
  /\ Trades \in [Series -> SUBSET (Nat \ {0})]
  /\ Page \in Nat /\ Page >= 2 /\ Window \in Nat /\ Window <= Page
  /\ MaxClock \in Nat /\ MaxShows \in Nat

VARIABLES
  clock,      \* the bucket that is forming
  shown,      \* the series of the pane
  shows,      \* how often its effect has run
  asked,      \* first pages that are out: [of, run, to]
  status,
  bars, oldest, exhausted,   \* barsRef, oldestRef, exhaustedRef; no bar is Never
  earlier,    \* the earlier page that is out: [of, before], or NoPage
  live,       \* the streams are open
  stateBars, stateLast,      \* the state React draws next; no candle is NoCandle
  applied, appliedLast,      \* what its last effects have seen
  drawn       \* allBarsRef

chartVars == <<clock, shown, shows, asked, status, bars, oldest, exhausted, earlier, live,
               stateBars, stateLast, applied, appliedLast, drawn>>

Never == 0
NoCandle == [of |-> "nothing"]
NoPage == NoCandle
Candle(s, t) == [of |-> s, t |-> t]

\* The gateway answers a window of time; what does not trade in it is not there.
BarsAnswered(s, from, to) ==
  LET traded == {t \in Trades[s] : t <= clock /\ from <= t /\ t <= to}
  IN  [k \in 1..Cardinality(traded) |-> Candle(s, Nth(traded, k))]

\* bars.ts: a candle that is older than the last one is dropped.
Extends(series, c) == series = <<>> \/ c.t >= Last(series).t
publish(series, c) == IF series # <<>> /\ c.t = Last(series).t THEN Front(series) \o <<c>> ELSE Append(series, c)

\* mutant: a tick opens a candle whatever its time
ApplyTickAlways(series, c) == publish(series, c)
applyTick(series, c) == IF Extends(series, c) THEN publish(series, c) ELSE series
mergeStreamBar(series, c) == IF Extends(series, c) THEN publish(series, c) ELSE series
mergeStreamBars(series, frame) ==
  LET merged[n \in 0..Len(frame)] == IF n = 0 THEN series ELSE mergeStreamBar(merged[n - 1], frame[n])
  IN  merged[Len(frame)]

\* indicators.ts
withLiveBar(series, c) == IF Extends(series, c) THEN publish(series, c) ELSE series

----------------------------------------------------------------------------

\* The effect of a new symbol, interval or account group.  The page before the history that is
\* on its way keeps coming.
Begin(s) ==
  /\ shows < MaxShows
  /\ shows' = shows + 1 /\ shown' = s
  /\ asked' = asked \cup {[of |-> s, run |-> shows', to |-> clock]}
  /\ status' = "loading" /\ live' = FALSE
  /\ bars' = <<>> /\ oldest' = Never /\ exhausted' = FALSE
  /\ stateBars' = <<>> /\ stateLast' = NoCandle
  /\ UNCHANGED <<clock, earlier, applied, appliedLast, drawn>>

Show(s) == s # shown /\ Begin(s)
Retry == status = "error" /\ Begin(shown)

\* disposed
Stale(ask) == ask.run # shows

FirstPage(ask) ==
  LET page == BarsAnswered(ask.of, ask.to - Page + 1, ask.to) IN
  /\ ask \in asked /\ asked' = asked \ {ask}
  /\ IF Stale(ask) THEN UNCHANGED <<bars, oldest, status, live, stateBars, stateLast>>
     ELSE /\ bars' = page /\ stateBars' = page
          /\ oldest' = IF page = <<>> THEN Never ELSE Head(page).t
          /\ stateLast' = IF page = <<>> THEN NoCandle ELSE Last(page)
          /\ status' = IF page = <<>> THEN "empty" ELSE "ready"
          /\ live' = TRUE
  /\ UNCHANGED <<clock, shown, shows, exhausted, earlier, applied, appliedLast, drawn>>

FirstPageFails(ask) ==
  /\ ask \in asked /\ asked' = asked \ {ask}
  /\ status' = IF Stale(ask) THEN status ELSE "error"
  /\ UNCHANGED <<clock, shown, shows, bars, oldest, exhausted, earlier, live, stateBars, stateLast, applied, appliedLast, drawn>>

\* The trader has scrolled to the left edge.
LoadEarlier ==
  /\ earlier = NoPage /\ ~exhausted /\ oldest # Never
  /\ earlier' = [of |-> shown, before |-> oldest]
  /\ UNCHANGED <<clock, shown, shows, asked, status, bars, oldest, exhausted, live, stateBars, stateLast, applied, appliedLast, drawn>>

\* Whatever the pane shows by now.
EarlierPage ==
  LET page == BarsAnswered(earlier.of, earlier.before - Page, earlier.before - 1) IN
  /\ earlier # NoPage /\ earlier' = NoPage
  /\ IF page = <<>> THEN exhausted' = TRUE /\ UNCHANGED <<bars, oldest, stateBars>>
     ELSE /\ bars' = page \o bars /\ stateBars' = bars'
          /\ oldest' = Head(page).t
          /\ UNCHANGED exhausted
  /\ UNCHANGED <<clock, shown, shows, asked, status, live, stateLast, applied, appliedLast, drawn>>

EarlierFails ==
  /\ earlier # NoPage /\ earlier' = NoPage
  /\ exhausted' = TRUE
  /\ UNCHANGED <<clock, shown, shows, asked, status, bars, oldest, live, stateBars, stateLast, applied, appliedLast, drawn>>

Published(next) ==
  /\ bars' = next
  /\ stateLast' = IF next = bars THEN stateLast ELSE Last(next)
  /\ UNCHANGED <<clock, shown, shows, asked, status, oldest, exhausted, earlier, live, stateBars, applied, appliedLast, drawn>>

BarFrame == live /\ Published(mergeStreamBars(bars, BarsAnswered(shown, clock - Window + 1, clock)))

\* A quote carries the broker's time, which may lie in the bucket before.
QuoteFrame ==
  \E at \in {clock - 1, clock} \cap Trades[shown] : live /\ Published(applyTick(bars, Candle(shown, at)))

\* React runs the effect of the bars, then the effect of the last candle, once for all that
\* happened since the last time.
Render ==
  LET base == IF stateBars # applied THEN stateBars ELSE drawn IN
  /\ stateBars # applied \/ stateLast # appliedLast
  /\ drawn' = IF stateLast \notin {appliedLast, NoCandle} THEN withLiveBar(base, stateLast) ELSE base
  /\ applied' = stateBars /\ appliedLast' = stateLast
  /\ UNCHANGED <<clock, shown, shows, asked, status, bars, oldest, exhausted, earlier, live, stateBars, stateLast>>

BucketOpens ==
  /\ clock < MaxClock /\ clock' = clock + 1
  /\ UNCHANGED <<shown, shows, asked, status, bars, oldest, exhausted, earlier, live, stateBars, stateLast, applied, appliedLast, drawn>>

----------------------------------------------------------------------------

ChartInit ==
  /\ clock = Page + 1 /\ shown \in Series /\ shows = 1
  /\ asked = {[of |-> shown, run |-> 1, to |-> clock]}
  /\ status = "loading" /\ live = FALSE
  /\ bars = <<>> /\ oldest = Never /\ exhausted = FALSE /\ earlier = NoPage
  /\ stateBars = <<>> /\ stateLast = NoCandle /\ applied = <<>> /\ appliedLast = NoCandle /\ drawn = <<>>

ChartNext ==
  \/ \E s \in Series : Show(s)
  \/ \E ask \in asked : FirstPage(ask) \/ FirstPageFails(ask)
  \/ Retry \/ LoadEarlier \/ EarlierPage \/ EarlierFails
  \/ BarFrame \/ QuoteFrame \/ Render \/ BucketOpens

ChartSpec == ChartInit /\ [][ChartNext]_chartVars

----------------------------------------------------------------------------
\* Properties.

Ascends(series) == \A i \in 1..Len(series) - 1 : series[i].t < series[i + 1].t

\* Pages, bars and quotes come in any order and through two copies of the candles, and both
\* still ascend without a repetition, as does what React draws, even with a page in front of
\* a series of the same interval that was left (use-chart-series.ts:31); and the candle of the
\* legend is never one of a series that was left (:189).
CandlesInOrder ==
  /\ Ascends(bars) /\ Ascends(stateBars) /\ Ascends(drawn)
  /\ stateLast # NoCandle => stateLast.of = shown

=============================================================================
