-------------------------------- MODULE Ranges --------------------------------
(***************************************************************************)
(* The range of a chart: how `last=7d` becomes two instants in the         *)
(* requested zone, and the range a dashboard falls back to when that one   *)
(* holds nothing.  The clock runs, logs of the present and of the past are *)
(* recorded, and both ranges are functions of the state.                   *)
(*                                                                         *)
(* Times are whole seconds of the epoch.  A wall time is a local date and  *)
(* time of the zone, as the seconds the same fields would have in UTC.     *)
(***************************************************************************)
EXTENDS Integers, FiniteSets, FiniteSetsExt

CONSTANTS
    Zones,         \* [from, at, to]: the offset until the instant at, and from it on
    Begin,         \* zone :> the instants the clock may start from
    Requests,      \* [bucket, amount, unit]: the charts asked for
    MaxBuckets,    \* VIZ_MAX_BUCKETS
    GuardBuckets,  \* VIZ_FALLBACK_GUARD_BUCKETS
    Ages,          \* request :> how long ago what is logged may have been, by its loggedAt
    Steps,         \* bound: how far the clock moves at once
    Limit,         \* bound: how far it runs
    NoLog

VARIABLES zone, request, begin, now, log

vars == <<zone, request, begin, now, log>>

HOUR == 3600
DAY == 24 * HOUR

-----------------------------------------------------------------------------
(* Date, in UTC and between 1970 and 2037: months count from 0, and a month *)
(* or a day past the end of its year or month runs on into the next.        *)

NewYear(y) == 365 * (y - 1970) + ((y - 1969) \div 4)
Year(w) == 1970 + ((4 * (w \div DAY) + 2) \div 1461)  \* the last y with NewYear(y) <= w \div DAY
DaysBefore == <<0, 31, 59, 90, 120, 151, 181, 212, 243, 273, 304, 334>>
FirstOf(y, m) == NewYear(y) + DaysBefore[m + 1] + (IF y % 4 = 0 /\ m > 1 THEN 1 ELSE 0)
Month(w) == LET y == Year(w) IN Cardinality({m \in 1..11 : FirstOf(y, m) * DAY <= w})
UTC(y, m, d) == (FirstOf(y + (m \div 12), m % 12) + d - 1) * DAY
DayOfMonth(w) == (w \div DAY) - FirstOf(Year(w), Month(w)) + 1
StartOfDay(w) == (w \div DAY) * DAY

-----------------------------------------------------------------------------
(* A time zone with one change of its offset.                              *)

OffsetAt(i) == IF i < zone.at THEN zone.from ELSE zone.to
WallTimeOf(i) == i + OffsetAt(i)

\* The first instant after `before` with the offset of `after`.
RECURSIVE Bisect(_, _, _)
Bisect(before, after, offset) ==
    IF after - before <= 1 THEN after
    ELSE LET middle == before + ((after - before) \div 2)
         IN  IF OffsetAt(middle) = offset THEN Bisect(before, middle, offset)
                                          ELSE Bisect(middle, after, offset)

Candidates(w) == {w - OffsetAt(w - DAY), w - OffsetAt(w + DAY)}

\* Mutant: a time that never happens is read with the offset before the change.
InstantOfWithoutGap(w) ==
    LET matches == {c \in Candidates(w) : WallTimeOf(c) = w}
    IN  IF matches # {} THEN Min(matches) ELSE Min(Candidates(w))

InstantOf(w) ==
    LET matches == {c \in Candidates(w) : WallTimeOf(c) = w}
        after == Max(Candidates(w))
    IN  IF matches # {} THEN Min(matches)
        ELSE Bisect(Min(Candidates(w)), after, OffsetAt(after))

-----------------------------------------------------------------------------
(* Relative ranges.                                                        *)

ApproxSeconds == [h |-> HOUR, d |-> DAY, w |-> 7 * DAY, m |-> 2629746, y |-> 31556952]
LastUnitSeconds == [h |-> HOUR, d |-> DAY, w |-> 7 * DAY, m |-> 30 * DAY, y |-> 365 * DAY]

\* Day 0 was a Thursday, the third day after a Monday.
StartOfNextBucketWall(w, bucket) ==
    CASE bucket = "h" -> (w \div HOUR) * HOUR + HOUR
      [] bucket = "d" -> StartOfDay(w) + DAY
      [] bucket = "w" -> StartOfDay(w) + (7 - (((w \div DAY) + 3) % 7)) * DAY
      [] bucket = "m" -> UTC(Year(w), Month(w) + 1, 1)
      [] bucket = "y" -> UTC(Year(w) + 1, 0, 1)

\* Mutant: a month back from the 31st is in the month after a shorter one.
SubtractMonthsWallUnclamped(w, months) ==
    UTC(Year(w), Month(w) - months, DayOfMonth(w)) + w - StartOfDay(w)

SubtractMonthsWall(w, months) ==
    LET first == UTC(Year(w), Month(w) - months, 1)
        daysInTarget == DayOfMonth(UTC(Year(first), Month(first) + 1, 0))
    IN  UTC(Year(first), Month(first), Min({DayOfMonth(w), daysInTarget}))
            + w - StartOfDay(w)

SubtractWindowWall(w, amount, unit) ==
    IF unit \in {"h", "d", "w"} THEN w - amount * LastUnitSeconds[unit]
    ELSE SubtractMonthsWall(w, IF unit = "y" THEN 12 * amount ELSE amount)

StartOfNextBucket(i, bucket) == InstantOf(StartOfNextBucketWall(WallTimeOf(i), bucket))

\* Windows longer than a Date reaches are not among the requests.
ResolveRelativeRange ==
    LET endWall == StartOfNextBucketWall(WallTimeOf(now), request.bucket)
    IN  [start |-> InstantOf(SubtractWindowWall(endWall, request.amount, request.unit)),
         end   |-> InstantOf(endWall)]

Estimate(seconds, bucket) == -((-seconds) \div ApproxSeconds[bucket]) + 2

\* validateRelativeWindow, with months of 30 days, and then assertBounds.
Accepted ==
    LET range == ResolveRelativeRange
    IN  /\ Estimate(request.amount * LastUnitSeconds[request.unit], request.bucket)
               <= MaxBuckets
        /\ range.start < range.end
        /\ Estimate(range.end - range.start, request.bucket) <= MaxBuckets

-----------------------------------------------------------------------------
(* The fallback, and the queries of both.                                  *)

DefaultHorizon == 180 * DAY

\* Mutant: it ends at the newest log, as before ADR-0062.
ComputeFallbackRangeToTheLog ==
    LET requested == ResolveRelativeRange
        approx == ApproxSeconds[request.bucket]
        span == Min({DefaultHorizon, GuardBuckets * approx,
                     Max({requested.end - requested.start, approx})})
    IN  [start |-> log - span, end |-> log]

ComputeFallbackRange ==
    LET requested == ResolveRelativeRange
        approx == ApproxSeconds[request.bucket]
        end == StartOfNextBucket(log, request.bucket)
        span == Min({DefaultHorizon, GuardBuckets * approx,
                     Max({requested.end - requested.start, approx})})
    IN  [start |-> end - span, end |-> end]

\* The number of a wall time's bucket, as date_trunc cuts them.
Number(w, bucket) ==
    CASE bucket = "h" -> w \div HOUR
      [] bucket = "d" -> w \div DAY
      [] bucket = "w" -> ((w \div DAY) + 3) \div 7
      [] bucket = "m" -> 12 * Year(w) + Month(w)
      [] bucket = "y" -> Year(w)

\* The buckets a query answers with: generate_series, to a second short of the end.
Series(range) ==
    Number(WallTimeOf(range.start), request.bucket)
        ..Number(WallTimeOf(range.end) - 1, request.bucket)

\* A query counts the logs of a half-open range, and joins them to its series.
Shows(range, i) ==
    /\ range.start <= i /\ i < range.end
    /\ Number(WallTimeOf(i), request.bucket) \in Series(range)

-----------------------------------------------------------------------------
Init ==
    /\ zone \in Zones /\ request \in Requests
    /\ begin \in Begin[zone] /\ now = begin
    /\ log = NoLog

Tick ==
    /\ \E s \in Steps : now' = now + s
    /\ now' <= begin + Limit
    /\ UNCHANGED <<zone, request, begin, log>>

\* loggedAt is the client's to say.
Record ==
    /\ \E age \in Ages[request] : log' = now - age
    /\ UNCHANGED <<zone, request, begin, now>>

Next == Tick \/ Record

Spec == Init /\ [][Next]_vars

-----------------------------------------------------------------------------
\* Reference definitions: the day so many months before one, or the last that month has,
\* and the number of the first bucket a window covers.
MonthsBefore(w, months) ==
    Max({d \in (w \div DAY) - 31 * months - 3..(w \div DAY) - 28 * months :
            /\ Number(d * DAY, "m") = Number(w, "m") - months
            /\ DayOfMonth(d * DAY) <= DayOfMonth(w)})

First ==
    LET today == WallTimeOf(now)
    IN  IF request.unit = request.bucket
          THEN Number(today, request.bucket) - request.amount + 1
          ELSE MonthsBefore(StartOfDay(today) + DAY,
                            IF request.unit = "y" THEN 12 * request.amount
                                                  ELSE request.amount)

\* A window of whole buckets shows exactly the logs of that many buckets of the zone's
\* own calendar, the current one included, and a window of months on days the days from
\* the same date, or the last of a shorter month, on: also on a day of 23 or 25 hours, on
\* one that has no midnight, and on one that never happens (resolveRelativeRange).
CoversItsBuckets ==
    log # NoLog =>
        (Shows(ResolveRelativeRange, log)
            <=> Number(WallTimeOf(log), request.bucket) >= First)

\* The dashboard of hours, days or weeks that has nothing to show falls back to a range
\* that shows the newest log, wherever in its bucket that is, where the clocks do not go
\* back. (With them a day has 25 hours and the range may have 24; a month of 31 days is
\* longer than the mean one, and a year than the horizon.)
FallbackShowsItsLog ==
    (/\ log # NoLog /\ Accepted /\ ~ Shows(ResolveRelativeRange, log)
     /\ request.bucket \in {"h", "d", "w"} /\ zone.from <= zone.to)
        => Shows(ComputeFallbackRange, log)
=============================================================================
