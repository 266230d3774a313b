----------------------------- MODULE SampleStore -----------------------------
(***************************************************************************)
(* The sample tables and the flamegraph query that reads them.  An insert  *)
(* into samples_in is spread by materialized views over the raw table, the *)
(* hour and day rollups fed from it and the table of names                 *)
(* (create_ch_schema.sql).  Every table drops a row 7 days after the row's *)
(* own timestamp.  GetTopFrames reads one chunk of its range from each     *)
(* table in goroutines of their own and then the names, with no snapshot   *)
(* over them, while the profile writer goes on inserting.                  *)
(*                                                                         *)
(* One call stack of one service stands for all: a table maps a timestamp  *)
(* to a sum.  "1hour" and "1day" stand for the per-host tables and for the *)
(* _all tables alike: getTableName picks one of them for a whole query.    *)
(***************************************************************************)
EXTENDS TimeRange, Sums, SequencesExt

CONSTANTS
    MaxTime,     \* bound: samples and queries lie in 0..MaxTime
    MaxInserts,  \* bound: inserts
    MaxHorizon,  \* bound: how far the retention horizon moves
    Asked        \* the resolutions queries ask for

ASSUME BoundsAssumption ==
    /\ MaxTime \in Nat /\ MaxInserts \in Nat /\ MaxHorizon \in Nat
    /\ Asked \subseteq Resolutions

Times == 0..MaxTime

VARIABLES
    tables,    \* per table, the sum stored under each timestamp
    horizon,   \* seven days ago: rows stamped at or before it may go
    insert,    \* the insert under way: its time and the tables it has to reach
    inserted,  \* history: complete inserts per time
    started,   \* history: inserts begun per time
    query,     \* the query: its parameters and stage
    unread,    \* chunks whose goroutine has not read yet
    total,     \* samples merged so far (mergeFramePairs)
    before     \* history: complete inserts when the query began

vars == <<tables, horizon, insert, inserted, started, query, unread, total, before>>
storeVars == <<tables, horizon, insert, inserted, started>>
queryVars == <<query, unread, total, before>>

None == [stage |-> "none", named |-> FALSE]
NoInsert == [at |-> 0, left |-> {}]
Zero == [t \in Times |-> 0]

-----------------------------------------------------------------------------
(* BuildChunks.                                                            *)

(* sort.Slice by start, then end.  No two chunks of a range begin at once, *)
(* so a chunk's place is told by the number of chunks before it.           *)
ChunkBefore(c, d) ==
    \/ c.start < d.start
    \/ c.start = d.start /\ c.end < d.end
Place(chunks, c) == Cardinality({d \in ToSet(chunks) : ChunkBefore(d, c)}) + 1
SortChunks(chunks) ==
    [i \in DOMAIN chunks |-> CHOOSE c \in ToSet(chunks) : Place(chunks, c) = i]

(* Faulty variant: chunks that touch are one, whatever their tables. *)
MergeStepAnyTable(merged, next) ==
    IF merged # <<>> /\ next.start <= Last(merged).end
    THEN [merged EXCEPT ![Len(merged)].end = Later(@, next.end)]
    ELSE Append(merged, next)

(* A chunk that begins within the last one, on the same table, extends it. *)
MergeStep(merged, next) ==
    IF merged # <<>> /\ next.table = Last(merged).table
                     /\ next.start <= Last(merged).end
    THEN [merged EXCEPT ![Len(merged)].end = Later(@, next.end)]
    ELSE Append(merged, next)

MergeChunks(chunks) == FoldLeft(MergeStep, <<>>, SortChunks(chunks))

BuildChunks(start, end, res) ==
    CASE res = "raw"   -> <<Chunk("raw", start, end)>>
      [] res = "hour"  -> <<Chunk("1hour", start, end)>>
      [] res = "day"   -> <<Chunk("1day", start, end)>>
      [] res = "multi" -> MergeChunks(SplitMulti(start, end))

-----------------------------------------------------------------------------
Init ==
    /\ tables = [table \in Tables |-> Zero]
    /\ horizon = 0
    /\ insert = NoInsert
    /\ inserted = Zero
    /\ started = Zero
    /\ query = None
    /\ unread = {}
    /\ total = 0
    /\ before = Zero

(* insertStacks sends an INSERT with a sample taken at t. *)
InsertBegins(t) ==
    /\ insert = NoInsert
    /\ SumOver(started, Times) < MaxInserts
    /\ insert' = [at |-> t, left |-> Tables]
    /\ started' = [started EXCEPT ![t] = @ + 1]
    /\ UNCHANGED <<tables, horizon, inserted, queryVars>>

(* Faulty variant: both the samples_in and the samples view feed a rollup. *)
InsertReachesTwice(table) ==
    /\ table \in insert.left
    /\ tables' = [tables EXCEPT ![table][Rollup(table, insert.at)] =
                      @ + IF table = "1hour" THEN 2 ELSE 1]
    /\ IF insert.left = {table}
       THEN /\ insert' = NoInsert
            /\ inserted' = [inserted EXCEPT ![insert.at] = @ + 1]
       ELSE /\ insert' = [insert EXCEPT !.left = @ \ {table}]
            /\ UNCHANGED inserted
    /\ UNCHANGED <<horizon, started, queryVars>>

(* One table receives it.  The rollups' views select from samples, so they *)
(* come after the raw table; the rest of the order is the database's.      *)
InsertReaches(table) ==
    /\ table \in insert.left
    /\ table \in {"1hour", "1day"} => "raw" \notin insert.left
    /\ tables' = [tables EXCEPT ![table][Rollup(table, insert.at)] = @ + 1]
    /\ IF insert.left = {table}
       THEN /\ insert' = NoInsert
            /\ inserted' = [inserted EXCEPT ![insert.at] = @ + 1]
       ELSE /\ insert' = [insert EXCEPT !.left = @ \ {table}]
            /\ UNCHANGED inserted
    /\ UNCHANGED <<horizon, started, queryVars>>

(* The INSERT fails; what it reached stays, the rows are not sent again. *)
InsertFails ==
    /\ insert # NoInsert
    /\ insert' = NoInsert
    /\ UNCHANGED <<tables, horizon, inserted, started, queryVars>>

Advance ==
    /\ horizon < MaxHorizon
    /\ horizon' = horizon + 1
    /\ UNCHANGED <<tables, insert, inserted, started, queryVars>>

(* TTL Timestamp + INTERVAL 7 DAY, applied when the database merges. *)
Expire(table, t) ==
    /\ t <= horizon
    /\ tables[table][t] > 0
    /\ tables' = [tables EXCEPT ![table][t] = 0]
    /\ UNCHANGED <<horizon, insert, inserted, started, queryVars>>

(* GetTopFrames with start < end; otherwise BuildChunks returns an error   *)
(* and nothing is read.                                                    *)
QueryBegins(start, end, res) ==
    /\ query.stage = "none"
    /\ start < end
    /\ query' = [stage |-> "reading", start |-> start, end |-> end, res |-> res,
                 named |-> FALSE]
    /\ unread' = ToSet(BuildChunks(start, end, res))
    /\ total' = 0
    /\ before' = inserted
    /\ UNCHANGED storeVars

(* A goroutine's query returns and is merged under the mutex. *)
ReadChunk(chunk) ==
    /\ query.stage = "reading"
    /\ chunk \in unread
    /\ total' = total + SumOver(tables[chunk.table],
                                {t \in Times : chunk.start <= t /\ t < chunk.end})
    /\ unread' = unread \ {chunk}
    /\ UNCHANGED <<storeVars, query, before>>

(* A read fails: the query returns its error and no frame. *)
ReadFails ==
    /\ query.stage = "reading"
    /\ query' = None
    /\ unread' = {}
    /\ total' = 0
    /\ before' = Zero
    /\ UNCHANGED storeVars

(* After eg.Wait: fetchFrameNames if there is a frame, and the answer. *)
ReadNames ==
    /\ query.stage = "reading"
    /\ unread = {}
    /\ LET days == FrameNamesDays(query.start, query.end)
       IN query' = [query EXCEPT
              !.stage = "done",
              !.named = total > 0 /\ \E t \in Times :
                            /\ days.start <= t /\ t < days.end
                            /\ tables["name"][t] > 0]
    /\ UNCHANGED <<storeVars, unread, total, before>>

(* The answer is sent and forgotten. *)
QueryEnds ==
    /\ query.stage = "done"
    /\ query' = None
    /\ total' = 0
    /\ before' = Zero
    /\ UNCHANGED <<storeVars, unread>>

Next ==
    \/ \E t \in Times : InsertBegins(t)
    \/ \E table \in Tables : InsertReaches(table)
    \/ InsertFails
    \/ Advance
    \/ \E table \in Tables, t \in Times : Expire(table, t)
    \/ \E start, end \in Times, res \in Asked : QueryBegins(start, end, res)
    \/ \E chunk \in unread : ReadChunk(chunk)
    \/ ReadFails
    \/ ReadNames
    \/ QueryEnds

Spec == Init /\ [][Next]_vars

-----------------------------------------------------------------------------
(* The samples a query is for: at the rollups' resolutions, those of the   *)
(* hours or days that begin in its range.                                  *)
Wanted(t) ==
    CASE query.res \in {"raw", "multi"} -> query.start <= t /\ t < query.end
      [] query.res = "hour" -> Reads(Chunk("1hour", query.start, query.end), t)
      [] query.res = "day"  -> Reads(Chunk("1day", query.start, query.end), t)

WantedTimes == {t \in Times : Wanted(t)}

(* State space: each variable stays within its declared domain. *)
TypeOK ==
    /\ tables \in [Tables -> [Times -> 0..MaxInserts]]
    /\ horizon \in 0..MaxHorizon
    /\ insert.at \in Times /\ insert.left \subseteq Tables
    /\ inserted \in [Times -> 0..MaxInserts]
    /\ started \in [Times -> 0..MaxInserts]
    /\ query.stage \in {"none", "reading", "done"} /\ query.named \in BOOLEAN
    /\ total \in Nat
    /\ before \in [Times -> 0..MaxInserts]

(* No query counts a sample twice: its total is at most what had been sent *)
(* for its range, whichever tables its chunks came from and whatever was   *)
(* inserted, half inserted or expired meanwhile (BuildChunks, GetTopFrames,*)
(* the materialized views).                                                *)
NoSampleTwice ==
    query.stage = "done" => total <= SumOver(started, WantedTimes)

(* A query that begins after the retention horizon misses no sample that   *)
(* was stored when it began, although a rollup's row is older than its     *)
(* samples and goes before them: no chunk begins within an hour or a day   *)
(* it reads from a rollup.                                                 *)
NoSampleMissed ==
    query.stage = "done" /\ horizon < query.start =>
        SumOver(before, WantedTimes) <= total

(* If the day on which the query begins is within the retention, a frame   *)
(* stored when it began comes with its name (fetchFrameNames asks for      *)
(* whole days, frameNamesTimeRange).                                       *)
FramesAreNamed ==
    /\ query.stage = "done"
    /\ horizon < StartOf(Day, query.start)
    /\ SumOver(before, WantedTimes) > 0
    => query.named

(* README.md: all profiling data has a TTL of 7 days.  So a query within   *)
(* them finds the name of a frame whose sample it finds.                   *)
DataLastsSevenDays ==
    /\ query.stage = "done"
    /\ horizon < query.start
    /\ SumOver(before, WantedTimes) > 0
    => query.named
=============================================================================
