--------------------------- MODULE AnalyticsReads ---------------------------
(***************************************************************************)
(* What GET /api/analytics/:slug answers about the clicks there are: the   *)
(* window and the table a query resolves to (packages/shared/src/          *)
(* analytics.ts), the counts that table gives (repositories/analytics-     *)
(* store.ts), and the series with its gaps filled (analytics/series.ts).   *)
(* One link, one zone; an instant is the clock the handler quantized. The  *)
(* tile, the chart and the panels come from three queries that run beside  *)
(* each other, while clicks older than the instant are still being         *)
(* inserted, and reach the raw table and its rollups one after another.    *)
(***************************************************************************)
EXTENDS TimeZones, FiniteSetsExt, Functions

CONSTANTS
  Clocks,                    \* zones: [before, after, change]
  Instants,                  \* now, quantized
  Presets,                   \* days of each preset; 1 is "24h"
  Custom,                    \* explicit windows [from, to], relative to now
  QuarterSpan, HourSpan,     \* granularityForSpan's thresholds
  RawSpan, RawRetention,     \* RAW_SOURCE_MAX_SPAN_MS, RAW_RETENTION_MS
  MaxSpan,                   \* MAX_ANALYTICS_SPAN_MS
  MaxBuckets,
  Kept,                      \* how long the raw table keeps a row: TTL ts + 90 DAY
  Lag,                       \* how long after now the queries may run
  Values,                    \* what clicks have in one dimension of the breakdown
  BreakdownLimit,            \* BREAKDOWN_LIMIT
  NotYet,
  Times, MaxClicks           \* bounds: when clicks are, relative to now; and how many

\* What the thresholds and the inputs are; a raw row outlives every window it is read for.
ASSUME ReadsConstants ==
  /\ \A z \in Clocks :
       /\ z \in [before : Int, after : Int, change : Int]
       /\ 2 * (z.after - z.before) < Day /\ 2 * (z.before - z.after) < Day
  /\ Instants \subseteq Int
  /\ Presets \subseteq 1..MaxBuckets
  /\ Custom \subseteq [from : Int, to : Int]
  /\ {QuarterSpan, HourSpan, RawSpan, RawRetention, MaxSpan, MaxBuckets, Kept, Lag,
      BreakdownLimit} \subseteq Nat
  /\ RawRetention + Lag <= Kept
  /\ Times \subseteq Int /\ MaxClicks \in [Clocks -> Nat]

VARIABLES
  zone, instant,
  rows,                        \* the clicks that are in each table
  asked,                       \* the window, and the days of a preset
  totals, series, breakdowns,  \* what the queries returned
  seen                         \* history: the clicks each query's table had

queries == <<totals, series, breakdowns, seen>>
readsVars == <<zone, instant, rows, asked, totals, series, breakdowns, seen>>

Rollups == {"clicks_hourly", "clicks_daily"}
Tables == {"clicks"} \cup Rollups

-----------------------------------------------------------------------------
(***************************************************************************)
(* The window.                                                             *)
(***************************************************************************)

\* Mutant: so many whole days, and the one in progress.
PresetOfWholeDays(days) ==
  [from |-> IF days = 1 THEN instant - Day ELSE addZonedDays(instant, -days, zone),
   to |-> instant]

presetBounds(days) == [from |-> presetFrom(days, instant, zone), to |-> instant]

\* What analyticsQuerySchema lets through.
Accepted(bounds) == bounds.from < bounds.to /\ bounds.to - bounds.from <= MaxSpan

\* Mutant: a window is served from raw rows whenever it is short.
SourceBySpan(bounds) == IF bounds.to - bounds.from <= RawSpan THEN "raw" ELSE "rollup"

sourceForSpan(bounds) ==
  IF bounds.to - bounds.from <= RawSpan /\ bounds.from >= instant - RawRetention
    THEN "raw" ELSE "rollup"

\* granularityForSpan and clampGranularity, as a bucket's width.
Granularity(bounds) ==
  LET span == bounds.to - bounds.from IN
  IF span <= QuarterSpan /\ sourceForSpan(bounds) = "raw" THEN 1
  ELSE IF span <= HourSpan THEN Hour
  ELSE Day

resolveAnalyticsWindow(bounds) ==
  [from |-> bounds.from, to |-> bounds.to,
   step |-> Granularity(bounds), source |-> sourceForSpan(bounds)]

-----------------------------------------------------------------------------
(***************************************************************************)
(* The store. A rollup's row has the instant its hour, or its day, begins. *)
(***************************************************************************)
In(t, lo, hi) == lo <= t /\ t < hi

\* Raw rows are deleted as soon as they may be.
Raw(S, w) == {c \in S : In(c.at, w.from, w.to) /\ c.at >= instant + Lag - Kept}

Hourly(S, w) == {c \in S : In(floorTo(c.at, Hour), floorTo(w.from, Hour), w.to)}

Daily(S, w) ==
  {c \in S : floorTo(w.from, Day) <= floorTo(c.at, Day)
                /\ floorTo(c.at, Day) <= floorTo(w.to, Day)}

\* Which table, and the rows of the window in it when it has the clicks S.
TimeTable(w) == IF w.source = "raw" THEN "clicks" ELSE "clicks_hourly"
BreakdownTable(w) == IF w.source = "raw" THEN "clicks" ELSE "clicks_daily"
Rows(S, w) == IF w.source = "raw" THEN Raw(S, w) ELSE Hourly(S, w)
BreakdownRows(S, w) == IF w.source = "raw" THEN Raw(S, w) ELSE Daily(S, w)
RowTime(c, w) == IF w.source = "raw" THEN c.at ELSE floorTo(c.at, Hour)

\* toStartOfInterval, toStartOfHour and toStartOfDay of a row's time.
StoreBucket(t, step) ==
  IF step = Day THEN Midnight(t, zone) ELSE zonedStartOfInterval(t, step, zone)

\* Clicks per bucket, of the buckets that have some.
Points(S, w) ==
  LET bucket(c) == StoreBucket(RowTime(c, w), w.step)
  IN [b \in {bucket(c) : c \in Rows(S, w)} |->
        Cardinality({c \in Rows(S, w) : bucket(c) = b})]

\* GROUP BY key, and of the keys those with the most clicks, if there are too many. Of
\* keys with as many clicks, the order of the keys decides; here, either may be listed.
ByValue(S, w) ==
  [v \in {c.value : c \in BreakdownRows(S, w)} |->
     Cardinality({c \in BreakdownRows(S, w) : c.value = v})]

Listed(counts) ==
  IF Cardinality(DOMAIN counts) <= BreakdownLimit THEN {DOMAIN counts}
  ELSE {K \in SUBSET DOMAIN counts :
          /\ Cardinality(K) = BreakdownLimit
          /\ \A k \in K, v \in DOMAIN counts \ K : counts[v] <= counts[k]}

-----------------------------------------------------------------------------
(***************************************************************************)
(* fillSeries                                                              *)
(***************************************************************************)
firstBucket(w) ==
  IF w.step = Day THEN zonedStartOfDay(w.from, zone)
  ELSE zonedStartOfInterval(w.from, w.step, zone)

nextBucket(cursor, w) ==
  IF w.step = Day THEN addZonedDays(cursor, 1, zone) ELSE cursor + w.step

\* The buckets the walk lands on.
Walked(w) ==
  LET cursor[i \in 0..MaxBuckets] ==
        IF i = 0 THEN firstBucket(w)
        ELSE LET c == cursor[i - 1] IN IF c < w.to THEN nextBucket(c, w) ELSE c
  IN {b \in {cursor[i] : i \in 0..MaxBuckets - 1} : b < w.to}

\* Mutant: a point the walk does not land on is dropped.
FillWalkedOnly(points, w) ==
  [b \in Walked(w) |-> IF b \in DOMAIN points THEN points[b] ELSE 0]

\* Zero where there is no point; points elsewhere are kept.
fillSeries(points, w) ==
  [b \in Walked(w) \cup DOMAIN points |-> IF b \in DOMAIN points THEN points[b] ELSE 0]

-----------------------------------------------------------------------------
ReadsInit ==
  /\ zone \in Clocks
  /\ instant \in Instants
  /\ rows = [table \in Tables |-> {}]
  /\ asked = NotYet
  /\ totals = NotYet /\ series = NotYet /\ breakdowns = NotYet
  /\ seen = [totals |-> {}, series |-> {}, breakdowns |-> {}]

Answered == totals # NotYet /\ series # NotYet /\ breakdowns # NotYet

\* The flusher inserts a row, of a click at t.
Insert(t, v) ==
  /\ Cardinality(rows["clicks"]) < MaxClicks[zone] /\ ~Answered
  /\ LET c == [id |-> Cardinality(rows["clicks"]), at |-> t, value |-> v] IN
     rows' = [rows EXCEPT !["clicks"] = @ \cup {c}]
  /\ UNCHANGED <<zone, instant, asked, queries>>

\* A rollup's materialized view has what is in the raw table.
Roll(table) ==
  /\ rows[table] # rows["clicks"] /\ ~Answered
  /\ rows' = [rows EXCEPT ![table] = rows["clicks"]]
  /\ UNCHANGED <<zone, instant, asked, queries>>

Ask(bounds, days) ==
  /\ asked = NotYet
  /\ asked' = [window |-> resolveAnalyticsWindow(bounds), days |-> days]
  /\ UNCHANGED <<zone, instant, rows, queries>>

AskPreset(days) == Ask(presetBounds(days), days)

AskCustom(bounds) ==
  /\ Accepted(bounds)
  /\ Ask([from |-> instant + bounds.from, to |-> instant + bounds.to], 0)

QueryTotals ==
  /\ asked # NotYet /\ totals = NotYet
  /\ LET w == asked.window
         S == rows[TimeTable(w)]
     IN totals' = Cardinality(Rows(S, w)) /\ seen' = [seen EXCEPT !.totals = S]
  /\ UNCHANGED <<zone, instant, rows, asked, series, breakdowns>>

\* Its gaps are filled when all three are there.
QuerySeries ==
  /\ asked # NotYet /\ series = NotYet
  /\ LET w == asked.window
         S == rows[TimeTable(w)]
     IN series' = fillSeries(Points(S, w), w) /\ seen' = [seen EXCEPT !.series = S]
  /\ UNCHANGED <<zone, instant, rows, asked, totals, breakdowns>>

\* One dimension of the five.
QueryBreakdowns ==
  /\ asked # NotYet /\ breakdowns = NotYet
  /\ LET w == asked.window
         S == rows[BreakdownTable(w)]
         counts == ByValue(S, w)
     IN /\ \E K \in Listed(counts) : breakdowns' = [v \in K |-> counts[v]]
        /\ seen' = [seen EXCEPT !.breakdowns = S]
  /\ UNCHANGED <<zone, instant, rows, asked, totals, series>>

ReadsNext ==
  \/ \E t \in Times, v \in Values : Insert(instant + t, v)
  \/ \E table \in Rollups : Roll(table)
  \/ \E days \in Presets : AskPreset(days)
  \/ \E bounds \in Custom : AskCustom(bounds)
  \/ QueryTotals \/ QuerySeries \/ QueryBreakdowns

ReadsSpec == ReadsInit /\ [][ReadsNext]_readsVars

-----------------------------------------------------------------------------
(***************************************************************************)
(* Properties.                                                             *)
(***************************************************************************)
\* The clicks of S from lo to before hi; and those one query's table had and another's not.
Clicks(S, lo, hi) == Cardinality({c \in S : In(c.at, lo, hi)})
Late(this, that) == Cardinality(seen[this] \ seen[that])

\* "The instant at which the calendar day containing instant begins", whether or not
\* there is a clock change that day, and one that makes it begin at 1:00.
StartsItsDay ==
  ChangesAcrossMidnight(zone) \/ zonedStartOfDay(instant, zone) = Midnight(instant, zone)

\* Stepping by days neither repeats a day nor skips one, in either direction,
\* whichever way the clocks moved.
StepsByDays ==
  \A days \in -3..3 :
    CivilDay(addZonedDays(instant, days, zone), zone) = CivilDay(instant, zone) + days

\* The chart shows the clicks the tile above it counts, no more and no fewer, but for
\* those inserted between their two queries: whichever table, zone or clock change.
SeriesAddsUp ==
  Answered => LET shown == FoldFunction(+, 0, series) IN
    /\ shown <= totals + Late("series", "totals")
    /\ totals <= shown + Late("totals", "series")

\* Every click of the window that had been inserted is counted, though raw rows are
\* deleted; what is counted beside them is from the hour in which the window begins. A
\* panel of the breakdown, from another table, holds no less than the tile, but for what
\* has not reached that table, unless it is cut at the ten most frequent values.
AccurateToAnHour ==
  Answered => LET w == asked.window IN
    /\ Clicks(seen.totals, w.from, w.to) <= totals
    /\ totals <= Clicks(seen.totals, floorTo(w.from, Hour), floorTo(w.to - 1, Hour) + Hour)
    /\ Cardinality(DOMAIN ByValue(seen.breakdowns, w)) <= BreakdownLimit
         => totals <= FoldFunction(+, 0, breakdowns) + Late("totals", "breakdowns")

\* "Six whole days plus the one in progress, which is what a viewer counts": a chart of
\* days has a bar for each, and no other; but at a local midnight, to which the clock is
\* floored in the first tick of every day, none for the day that has just begun.
BarPerDay ==
  (Answered /\ asked.days > 1 /\ asked.window.step = Day /\ ~ChangesAcrossMidnight(zone))
    => Cardinality(DOMAIN series) =
         IF instant = Midnight(instant, zone) THEN asked.days - 1 ELSE asked.days

\* So it is where the first of the days begins with a UTC hour.
BarPerDayInWholeHours == Answered /\ asked.window.from % Hour = 0 => BarPerDay
=============================================================================
