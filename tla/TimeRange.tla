------------------------------ MODULE TimeRange ------------------------------
(***************************************************************************)
(* How a flamegraph query cuts its time range into chunks, each read from  *)
(* the raw table or from the hour or day rollup (internal/db/timerange.go), *)
(* and which days it asks the names table for (queries.go).                *)
(*                                                                         *)
(* Time is counted in ticks from midnight UTC: NormalizeTimeRange makes    *)
(* every bound UTC, whole seconds, and the tables' columns are             *)
(* DateTime('UTC').  Hour and Day are their lengths in ticks.              *)
(***************************************************************************)
EXTENDS Naturals, Sequences

CONSTANTS Hour, Day
ASSUME HourAssumption == Hour \in Nat \ {0}
ASSUME DayAssumption == Day \in Nat \ {0} /\ Day % Hour = 0

Tables == {"raw", "1hour", "1day", "name"}
Resolutions == {"raw", "hour", "day", "multi"}

(* startOfHour, startOfDay and their successors. *)
StartOf(unit, t) == (t \div unit) * unit
NextOf(unit, t) == StartOf(unit, t) + unit
IsAligned(unit, t) == StartOf(unit, t) = t

Earlier(a, b) == IF a < b THEN a ELSE b
Later(a, b) == IF a > b THEN a ELSE b

Chunk(table, start, end) == [table |-> table, start |-> start, end |-> end]
Unless(empty, chunk) == IF empty THEN <<>> ELSE <<chunk>>

(* Faulty variant: the hours after the last whole day are left out. *)
SplitHoursNoTail(start, end) ==
    LET firstDay == IF IsAligned(Day, start) THEN start ELSE NextOf(Day, start)
        lastDay  == StartOf(Day, end)
    IN IF firstDay < lastDay
       THEN Unless(start = firstDay, Chunk("1hour", start, firstDay))
            \o <<Chunk("1day", firstDay, lastDay)>>
       ELSE <<Chunk("1hour", start, end)>>

(* splitMulti between two whole hours: days where there are whole ones. *)
SplitHours(start, end) ==
    LET firstDay == IF IsAligned(Day, start) THEN start ELSE NextOf(Day, start)
        lastDay  == StartOf(Day, end)
    IN IF firstDay < lastDay
       THEN Unless(start = firstDay, Chunk("1hour", start, firstDay))
            \o <<Chunk("1day", firstDay, lastDay)>>
            \o Unless(lastDay = end, Chunk("1hour", lastDay, end))
       ELSE <<Chunk("1hour", start, end)>>

(* splitMulti: raw rows up to the first whole hour and from the last one   *)
(* on, in the order the code appends them.                                 *)
SplitMulti(start, end) ==
    LET leftEnd == IF IsAligned(Hour, start) THEN start
                   ELSE Earlier(end, NextOf(Hour, start))
        rightStart == IF leftEnd = end \/ IsAligned(Hour, end) THEN end
                      ELSE Later(leftEnd, StartOf(Hour, end))
    IN Unless(leftEnd = start, Chunk("raw", start, leftEnd))
       \o Unless(rightStart = end, Chunk("raw", rightStart, end))
       \o (IF leftEnd < rightStart THEN SplitHours(leftEnd, rightStart) ELSE <<>>)

(* The timestamp under which a table holds a sample taken at t: the        *)
(* materialized views group by toStartOfHour and toStartOfDay; "name" is   *)
(* samples_name.                                                           *)
Rollup(table, t) ==
    IF table = "1hour" THEN StartOf(Hour, t)
    ELSE IF table \in {"1day", "name"} THEN StartOf(Day, t)
    ELSE t

(* queryFramePairs: Timestamp >= start AND Timestamp < end. *)
Reads(chunk, t) ==
    chunk.start <= Rollup(chunk.table, t) /\ Rollup(chunk.table, t) < chunk.end

(* Faulty variant: the range ends with the day its last moment lies in. *)
FrameNamesDaysShort(start, end) ==
    [start |-> StartOf(Day, start),
     end |-> IF StartOf(Day, start) < StartOf(Day, end)
             THEN StartOf(Day, end) ELSE StartOf(Day, start) + Day]

(* frameNamesTimeRange: whole days around the query. *)
FrameNamesDays(start, end) ==
    LET startDay == StartOf(Day, start)
        endDay   == IF IsAligned(Day, end) THEN end ELSE NextOf(Day, end)
    IN [start |-> startDay,
        end |-> IF startDay < endDay THEN endDay ELSE startDay + Day]
=============================================================================
