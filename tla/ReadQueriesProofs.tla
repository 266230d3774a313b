--------------------------- MODULE ReadQueriesProofs ---------------------------
(***************************************************************************)
(* The parts of a page agree, for any rows, filters and ranges.  A page    *)
(* holds the answers to the parameters on display (PageAnswers, the whole  *)
(* invariant: the database stands still while a page is loaded), so what   *)
(* is left is what the queries compute.  A bound of a range and its minute *)
(* part the samples in the same way but for those of that minute           *)
(* (SameUnit); a histogram's steps divide the range (BucketsDivide), and   *)
(* resolveInterval chooses a step of which it holds few (HistogramAddsUp); *)
(* what is counted over rows is bounded by the rows (ImagesCount).         *)
(***************************************************************************)
EXTENDS ReadQueries, QueryTheorems

(* The parameters a handler may hand on. *)
Parameters ==
    [service : Services, start : Nat, end : Nat, filters : Conditions,
     interval : Intervals, res : Asked]

Failures == {{}} \cup {{q} : q \in {"frames", "samples", "metrics", "meta"}}

PageAnswers ==
    /\ stored \subseteq Rows /\ metrics \subseteq Readings
    /\ Shown =>
          /\ asked \in Parameters /\ asked.start <= asked.end
          /\ \E failing \in Failures : page = Answers(asked, failing)

-----------------------------------------------------------------------------
(* Normalised ranges are in order and within time. *)
LEMMA NormalizedInOrder ==
    ASSUME NEW s \in Instants \cup {Unset}, NEW e \in Instants \cup {Unset}
    PROVE  /\ Normalized(s, e).start \in Nat /\ Normalized(s, e).end \in Nat
           /\ Normalized(s, e).start <= Normalized(s, e).end
  <1> DEFINE until == IF e = Unset THEN Now - 2 * Minute ELSE e
             from  == IF s = Unset THEN until - Day ELSE s
  <1>1. until \in Nat /\ until >= Day
    BY ParametersAssumption
  <1>2. from \in Nat
    BY <1>1, ParametersAssumption, DayAssumption
  <1>3. Normalized(s, e) = [start |-> Earlier(from, until), end |-> Later(from, until)]
    BY DEF Normalized
  <1> HIDE DEF until, from
  <1> QED BY <1>1, <1>2, <1>3 DEF Earlier, Later

(* The answers are about the parameters and the database. *)
LEMMA SameDatabase ==
    ASSUME stored' = stored, metrics' = metrics, NEW a, NEW failing
    PROVE  Answers(a, failing)' = Answers(a, failing)
  <1>1. Selected(a)' = Selected(a) /\ FetchServices(a)' = FetchServices(a)
    BY DEF Selected, InRange, FetchServices
  <1>2. Flamegraph(a)' = Flamegraph(a)
    BY DEF Flamegraph
  <1>3. MetricsOf(a)' = MetricsOf(a)
    BY DEF MetricsOf
  <1>4. FetchMetricsGraph(a)' = FetchMetricsGraph(a)
    BY <1>3 DEF FetchMetricsGraph, Interval
  <1>5. FetchSummaryStats(a)' = FetchSummaryStats(a)
    BY <1>1, <1>3 DEF FetchSummaryStats
  <1>6. FetchSessionsCount(a)' = FetchSessionsCount(a)
    BY <1>1 DEF FetchSessionsCount, Sessions
  <1>7. FetchSampleCount(a)' = FetchSampleCount(a)
    BY <1>1 DEF FetchSampleCount, Interval
  <1>8. FetchInstanceTypeCount(a)' = FetchInstanceTypeCount(a)
    BY <1>1 DEF FetchInstanceTypeCount
  <1>9. \A f : FetchFieldValues(a, f)' = FetchFieldValues(a, f)
    BY <1>1 DEF FetchFieldValues
  <1> QED BY <1>1, <1>2, <1>4, <1>5, <1>6, <1>7, <1>8, <1>9 DEF Answers

LEMMA PagesAnswer == Spec => []PageAnswers
  <1>1. Init => PageAnswers
    BY DEF Init, PageAnswers, Shown
  <1>2. PageAnswers /\ [Next]_vars => PageAnswers'
    <2> SUFFICES ASSUME PageAnswers, [Next]_vars PROVE PageAnswers'
      OBVIOUS
    <2>1. CASE Load
      <3>1. stored' = stored /\ metrics' = metrics
        BY <2>1 DEF Load
      <3>2. PICK service \in Services, s \in Instants \cup {Unset},
                 e \in Instants \cup {Unset}, filters \in Conditions,
                 interval \in Intervals, res \in Asked :
               asked' = [service |-> service, start |-> Normalized(s, e).start,
                         end |-> Normalized(s, e).end, filters |-> filters,
                         interval |-> interval, res |-> res]
        BY <2>1 DEF Load
      <3>3. asked' \in Parameters /\ asked'.start <= asked'.end
        BY <3>2, NormalizedInOrder DEF Parameters
      <3>4. PICK failing \in Failures : page' = Answers(asked', failing)
        BY <2>1 DEF Load, Failures
      <3>5. Answers(asked', failing) = Answers(asked, failing)'
        BY <3>1, SameDatabase
      <3> QED BY <3>1, <3>3, <3>4, <3>5 DEF PageAnswers
    <2>2. CASE Leave
      BY <2>2 DEF Leave, PageAnswers, Shown
    <2>3. CASE UNCHANGED vars
      BY <2>3, SameDatabase DEF vars, PageAnswers, Shown
    <2> QED BY <2>1, <2>2, <2>3 DEF Next
  <1> QED BY <1>1, <1>2, PTL DEF Spec

-----------------------------------------------------------------------------
(* The flamegraph and the summary.                                         *)

(* Two timestamps of one sample, both in its unit, are on the same side of *)
(* a bound but for bounds in that unit.                                    *)
LEMMA SameSide ==
    ASSUME NEW u \in Nat \ {0}, NEW start \in Nat, NEW end \in Nat, NEW t \in Nat,
           NEW x \in Nat, StartOf(u, t) <= x, x <= t,
           NEW y \in Nat, StartOf(u, t) <= y, y <= t,
           ~((start <= x /\ x < end) <=> (start <= y /\ y <= end))
    PROVE  StartOf(u, t) \in {StartOf(u, start), StartOf(u, end)}
  <1>1. StartOf(u, t) \in Nat
    BY StartBounds
  <1>2. \/ StartOf(u, t) <= start /\ start <= t
        \/ StartOf(u, t) <= end /\ end <= t
    BY <1>1
  <1> QED BY <1>2, SameUnit

(* A coarser timestamp is not after a finer one. *)
LEMMA CoarserIsEarlier ==
    ASSUME NEW u \in Nat \ {0}, NEW v \in Nat \ {0}, v % u = 0, NEW t \in Nat
    PROVE  StartOf(v, t) <= StartOf(u, t)
  <1>1. StartOf(v, t) \in Nat /\ IsAligned(v, StartOf(v, t)) /\ StartOf(v, t) <= t
    BY StartAligned, StartBounds
  <1>2. IsAligned(u, StartOf(v, t))
    BY <1>1, CoarseAlignedIsFineAligned
  <1> QED BY <1>1, <1>2, AlignedBoundSeparates

LEMMA Units ==
    /\ Minute \in Nat \ {0} /\ Hour \in Nat \ {0} /\ Day \in Nat \ {0}
    /\ Hour % Minute = 0 /\ Day % Minute = 0
  <1>1. Minute \in Nat \ {0} /\ Hour \in Nat \ {0} /\ Day \in Nat \ {0}
    BY HourAssumption, DayAssumption DEF Minute
  <1>2. PICK n \in Nat : Hour = n * Minute
    <2>1. Hour \div Minute \in Nat /\ Hour = (Hour \div Minute) * Minute
      BY <1>1, MinuteAssumption DEF Minute
    <2> QED BY <2>1
  <1>3. PICK m \in Nat : Day = m * Hour
    <2>1. Day \div Hour \in Nat /\ Day = (Day \div Hour) * Hour
      BY <1>1, DayAssumption, SMTT(30)
    <2> QED BY <2>1
  <1>4. m * n \in Nat /\ Day = (m * n) * Minute
    BY <1>1, <1>2, <1>3, SMTT(30)
  <1>5. Day % Minute = 0
    <2> DEFINE k == m * n
    <2>1. k \in Nat /\ Day = k * 60
      BY <1>4 DEF Minute
    <2> HIDE DEF k
    <2> QED BY <2>1 DEF Minute
  <1> QED BY <1>1, <1>5, MinuteAssumption

ChunkSetOf(a) == {BuildChunks(a)[i] : i \in DOMAIN BuildChunks(a)}

(* The timestamp by which the tables of a resolution tell in from out. *)
ReadAt(a, t) ==
    IF a.res = "hour" THEN StartOf(Hour, t)
    ELSE IF a.res = "day" THEN StartOf(Day, t) ELSE t

LEMMA ChunksRead ==
    ASSUME NEW a \in Parameters, a.start < a.end, NEW t \in Nat
    PROVE  (\E c \in ChunkSetOf(a) : Reads(c, t)) <=>
               a.start <= ReadAt(a, t) /\ ReadAt(a, t) < a.end
  <1>1. a.start \in Nat /\ a.end \in Nat /\ a.res \in Resolutions
    BY ParametersAssumption DEF Parameters
  <1>2. CASE a.res = "multi"
    <2>1. BuildChunks(a) = SplitMulti(a.start, a.end)
      BY <1>2 DEF BuildChunks
    <2>2. Partition(SplitMulti(a.start, a.end), a.start, a.end)
      BY <1>1, MultiReadsEachSampleOnce
    <2> QED BY <1>2, <2>1, <2>2 DEF Partition, ReadOnce, NotRead, ChunkSetOf, ReadAt
  <1>3. ASSUME NEW table \in {"raw", "1hour", "1day"},
               BuildChunks(a) = <<Chunk(table, a.start, a.end)>>
        PROVE  (\E c \in ChunkSetOf(a) : Reads(c, t)) <=>
                   a.start <= Rollup(table, t) /\ Rollup(table, t) < a.end
    BY <1>3 DEF ChunkSetOf, Reads, Chunk
  <1>4. CASE a.res = "raw"
    <2>1. BuildChunks(a) = <<Chunk("raw", a.start, a.end)>>
      BY <1>4 DEF BuildChunks
    <2> QED BY <1>3, <1>4, <2>1 DEF Rollup, ReadAt
  <1>5. CASE a.res = "hour"
    <2>1. BuildChunks(a) = <<Chunk("1hour", a.start, a.end)>>
      BY <1>5 DEF BuildChunks
    <2> QED BY <1>3, <1>5, <2>1 DEF Rollup, ReadAt
  <1>6. CASE a.res = "day"
    <2>1. BuildChunks(a) = <<Chunk("1day", a.start, a.end)>>
      BY <1>6 DEF BuildChunks
    <2> QED BY <1>3, <1>6, <2>1 DEF Rollup, ReadAt
  <1> QED BY <1>1, <1>2, <1>4, <1>5, <1>6 DEF Resolutions

(* Whatever is filtered, the tables asked have the columns. *)
LEMMA FlamegraphAnswers ==
    ASSUME NEW a \in Parameters, a.start < a.end
    PROVE  Flamegraph(a) =
              Answer({r \in stored : /\ r.service = a.service /\ Matches(r, a.filters)
                                     /\ \E c \in ChunkSetOf(a) : Reads(c, r.at)})
  <1>1. ~(a.start >= a.end)
    BY DEF Parameters
  <1>2. DOMAIN a.filters # {} =>
           \A c : HasColumns(GetTableName(c.table, Prefix(a.filters)))
    BY DEF HasColumns, GetTableName, Prefix
  <1> QED BY <1>1, <1>2 DEF Flamegraph, ChunkSetOf

(* A flamegraph, of whatever resolution and filters, has an answer, over   *)
(* the samples of the summary but for those of the minutes (hours, days)   *)
(* in which the range begins and ends (GetTopFrames, BuildChunks,          *)
(* BuildConditionsSq, getTableName, FetchSummaryStats).                    *)
THEOREM FlamegraphsMatchSummaries == Spec => []FlamegraphMatchesSummary
  <1>1. PageAnswers => FlamegraphMatchesSummary
    <2> SUFFICES ASSUME PageAnswers, Shown, page.failing = {},
                        asked.start < asked.end
                 PROVE  FlamegraphMatchesSummary
      BY DEF FlamegraphMatchesSummary
    <2> DEFINE unit == CASE asked.res = "hour" -> Hour [] asked.res = "day" -> Day
                         [] OTHER -> Minute
               edges == {StartOf(unit, asked.start), StartOf(unit, asked.end)}
               read == {r \in stored :
                           /\ r.service = asked.service /\ Matches(r, asked.filters)
                           /\ \E c \in ChunkSetOf(asked) : Reads(c, r.at)}
    <2>1. asked \in Parameters /\ asked.start \in Nat /\ asked.end \in Nat
      BY DEF PageAnswers, Parameters
    <2>2. page.flamegraph = {read} /\ page.summary = {FetchSummaryStats(asked)}
      <3>1. page = Answers(asked, {})
        BY DEF PageAnswers, Answers
      <3>2. page.flamegraph = Flamegraph(asked) /\ page.summary = Answer(FetchSummaryStats(asked))
        BY <3>1 DEF Answers
      <3> QED BY <2>1, <3>2, FlamegraphAnswers DEF Answer
    <2>3. FetchSummaryStats(asked).samples = Selected(asked)
      BY DEF FetchSummaryStats
    <2>4. ASSUME NEW r \in (read \ Selected(asked)) \cup (Selected(asked) \ read)
          PROVE  StartOf(unit, r.at) \in edges
      <3>1. r \in stored /\ r.at \in Nat
        BY RowsAssumption DEF PageAnswers, Selected, InRange
      <3>2. ~((asked.start <= ReadAt(asked, r.at) /\ ReadAt(asked, r.at) < asked.end)
                <=> (asked.start <= Stamp(r) /\ Stamp(r) <= asked.end))
        BY <2>1, <3>1, ChunksRead DEF Selected, InRange
      <3>3. /\ unit \in Nat \ {0}
            /\ ReadAt(asked, r.at) \in Nat /\ Stamp(r) \in Nat
            /\ StartOf(unit, r.at) <= ReadAt(asked, r.at) /\ ReadAt(asked, r.at) <= r.at
            /\ StartOf(unit, r.at) <= Stamp(r) /\ Stamp(r) <= r.at
        <4>1. /\ StartOf(Minute, r.at) \in Nat /\ StartOf(Minute, r.at) <= r.at
              /\ StartOf(Hour, r.at) \in Nat /\ StartOf(Hour, r.at) <= StartOf(Minute, r.at)
              /\ StartOf(Day, r.at) \in Nat /\ StartOf(Day, r.at) <= StartOf(Minute, r.at)
          BY <3>1, Units, StartBounds, CoarserIsEarlier
        <4> QED BY <3>1, <4>1, Units DEF ReadAt, Stamp
      <3> HIDE DEF unit
      <3> QED BY <2>1, <3>1, <3>2, <3>3, SameSide
    <2> HIDE DEF read
    <2> QED BY <2>2, <2>3, <2>4 DEF FlamegraphMatchesSummary
  <1> QED BY <1>1, PagesAnswer, PTL

-----------------------------------------------------------------------------
(* The parts of a page.                                                    *)

(* There are no more values than what they are taken of. *)
LEMMA ImagesCount ==
    ASSUME NEW S, IsFiniteSet(S), NEW f, f = [x \in S |-> f[x]]
    PROVE  /\ IsFiniteSet({f[x] : x \in S})
           /\ Cardinality({f[x] : x \in S}) \in Nat
           /\ Cardinality({f[x] : x \in S}) <= Cardinality(S)
  <1> DEFINE T == {f[x] : x \in S}
  <1>1. f \in Surjection(S, T)
    <2>1. f \in [S -> T]
      OBVIOUS
    <2> QED BY <2>1 DEF Surjection
  <1> HIDE DEF T
  <1>2. IsFiniteSet(T) /\ Cardinality(T) <= Cardinality(S)
    BY <1>1, FS_Surjection
  <1>3. Cardinality(T) \in Nat
    BY <1>2, FS_CardinalityType
  <1> QED BY <1>2, <1>3 DEF T

StepOf(at, step, r) == at[r] \div step

(* The steps of a histogram: each row is in one of them, and the first and *)
(* the last hold one.                                                      *)
LEMMA BucketsDivide ==
    ASSUME NEW S, IsFiniteSet(S), NEW at \in [S -> Nat], NEW step \in Nat \ {0}
    PROVE  /\ DOMAIN Buckets(at, step) \subseteq Int
           /\ IsFiniteSet(DOMAIN Buckets(at, step))
           /\ \A b \in DOMAIN Buckets(at, step) :
                 Buckets(at, step)[b] = {r \in S : StepOf(at, step, r) = b}
           /\ \A r \in S : StepOf(at, step, r) \in DOMAIN Buckets(at, step)
           /\ \A b \in DOMAIN Buckets(at, step) : \E r \in S :
                 StepOf(at, step, r) <= b
           /\ DOMAIN Buckets(at, step) # {} => \E r, q \in S :
                 DOMAIN Buckets(at, step) = StepOf(at, step, r)..StepOf(at, step, q)
  <1> DEFINE used == {at[r] \div step : r \in S}
             B == Buckets(at, step)
  <1>1. IsFiniteSet(used)
    <2> DEFINE f == [r \in S |-> at[r] \div step]
    <2>1. used = {f[r] : r \in S}
      OBVIOUS
    <2>2. f = [r \in S |-> f[r]]
      OBVIOUS
    <2> HIDE DEF f, used
    <2>3. IsFiniteSet({f[r] : r \in S})
      BY <2>2, ImagesCount
    <2> QED BY <2>1, <2>3
  <1>2. \A r \in S : at[r] \div step \in Nat
    BY StartBounds
  <1>3. DOMAIN at = S
    OBVIOUS
  <1>4. CASE S = {}
    <2>1. used = {}
      BY <1>4
    <2>2. B = <<>>
      BY <1>3, <2>1 DEF Buckets
    <2>3. DOMAIN B = {}
      BY <2>2
    <2> QED BY <1>4, <2>3, FS_EmptySet
  <1>5. CASE S # {}
    <2>1. used # {} /\ used \subseteq Int
      BY <1>2, <1>5
    <2>2. B = [b \in Min(used)..Max(used) |-> {r \in S : at[r] \div step = b}]
      BY <1>3, <2>1 DEF Buckets
    <2>3. /\ Min(used) \in used /\ \A i \in used : Min(used) <= i
          /\ Max(used) \in used /\ \A i \in used : i <= Max(used)
      BY <1>1, <2>1, GreatestAndLeast
    <2>4. PICK r \in S, q \in S :
             Min(used) = StepOf(at, step, r) /\ Max(used) = StepOf(at, step, q)
      BY <2>3 DEF StepOf
    <2>5. DOMAIN B = Min(used)..Max(used)
      BY <2>2
    <2>6. Min(used) \in Int /\ Max(used) \in Int
      BY <2>1, <2>3
    <2>7. IsFiniteSet(DOMAIN B) /\ DOMAIN B \subseteq Int
      BY <2>5, <2>6, FS_Interval
    <2>8. \A x \in S : StepOf(at, step, x) \in DOMAIN B
      <3> SUFFICES ASSUME NEW x \in S PROVE StepOf(at, step, x) \in DOMAIN B
        OBVIOUS
      <3>1. at[x] \div step \in used
        OBVIOUS
      <3> HIDE DEF used
      <3> QED BY <1>2, <2>3, <2>5, <2>6, <3>1 DEF StepOf
    <2>9. \A b \in DOMAIN B : B[b] = {x \in S : StepOf(at, step, x) = b}
      BY <2>2 DEF StepOf
    <2>10. \A b \in DOMAIN B : StepOf(at, step, r) <= b
      <3> HIDE DEF used
      <3> QED BY <2>4, <2>5, <2>6
    <2>11. DOMAIN B = StepOf(at, step, r)..StepOf(at, step, q)
      BY <2>4, <2>5
    <2> HIDE DEF B, used
    <2> QED BY <2>7, <2>8, <2>9, <2>10, <2>11 DEF B
  <1> QED BY <1>4, <1>5

(* resolveInterval without a parameter: the chosen step is long enough for *)
(* MaxBuckets to cover the range.                                          *)
LEMMA StepsAreFinite ==
    /\ Steps \subseteq Nat \ {0} /\ IsFiniteSet(Steps)
    /\ Max(Steps) \in Steps /\ \A c \in Steps : c <= Max(Steps)
  <1> DEFINE longest == 604800
  <1>1. longest \in Nat /\ \A c \in Steps : c \in Nat \ {0} /\ c <= longest
    BY DEF Steps
  <1>2. 1 \in Steps
    BY DEF Steps
  <1> HIDE DEF longest
  <1>3. IsFiniteSet(1..longest)
    BY <1>1, FS_Interval
  <1>4. IsFiniteSet(Steps)
    <2>1. Steps \in SUBSET (1..longest)
      BY <1>1
    <2> QED BY <1>3, <2>1, FS_Subset
  <1>5. Steps # {} /\ Steps \subseteq Nat \ {0} /\ Steps \subseteq Int
    BY <1>1, <1>2
  <1>6. Max(Steps) \in Steps /\ \A c \in Steps : c <= Max(Steps)
    BY <1>4, <1>5, GreatestAndLeast
  <1> QED BY <1>4, <1>5, <1>6

LEMMA ResolvedInterval ==
    ASSUME NEW start \in Nat, NEW end \in Nat, start <= end,
           NEW interval \in (Nat \ {0}) \cup {Unset}
    PROVE  /\ ResolveInterval(start, end, interval) \in Nat \ {0}
           /\ interval = Unset /\ end - start <= MaxBuckets * Max(Steps) =>
                 MaxBuckets * ResolveInterval(start, end, interval) >= end - start
  <1> DEFINE fitting == {c \in Steps : MaxBuckets * c >= end - start}
             step == ResolveInterval(start, end, interval)
  <1>1. CASE interval # Unset
    BY <1>1 DEF ResolveInterval
  <1>2. CASE interval = Unset /\ end <= start
    <2>1. step = 60
      BY <1>2 DEF ResolveInterval, Minute
    <2> QED BY <1>2, <2>1 DEF MaxBuckets
  <1>3. CASE interval = Unset /\ start < end /\ fitting = {}
    <2>1. step = Max(Steps)
      BY <1>3 DEF ResolveInterval
    <2>2. Max(Steps) \in Steps /\ Max(Steps) \in Nat \ {0}
      BY StepsAreFinite
    <2> HIDE DEF step
    <2>3. ~(MaxBuckets * Max(Steps) >= end - start)
      BY <1>3, <2>2
    <2>4. MaxBuckets * Max(Steps) \in Nat
      BY <2>2 DEF MaxBuckets
    <2> QED BY <2>1, <2>2, <2>3, <2>4 DEF step
  <1>4. CASE interval = Unset /\ start < end /\ fitting # {}
    <2>1. step = Min(fitting)
      BY <1>4 DEF ResolveInterval
    <2>2. IsFiniteSet(fitting) /\ fitting \subseteq Int
      <3>1. fitting \subseteq Steps
        OBVIOUS
      <3> HIDE DEF fitting
      <3>2. Steps \subseteq Int /\ IsFiniteSet(Steps)
        BY StepsAreFinite
      <3>3. IsFiniteSet(fitting)
        BY <3>1, <3>2, FS_Subset
      <3> QED BY <3>1, <3>2, <3>3
    <2>3. Min(fitting) \in fitting
      BY <1>4, <2>2, GreatestAndLeast
    <2>4. step \in Steps /\ MaxBuckets * step >= end - start
      BY <2>1, <2>3
    <2> HIDE DEF step
    <2>5. step \in Nat \ {0}
      BY <2>4, StepsAreFinite
    <2> QED BY <2>4, <2>5 DEF step
  <1> QED BY <1>1, <1>2, <1>3, <1>4

(* Times at most MaxBuckets steps apart are in steps as close. *)
LEMMA StepsApart ==
    ASSUME NEW step \in Nat \ {0}, NEW x \in Nat, NEW y \in Nat,
           x <= y + MaxBuckets * step
    PROVE  x \div step <= y \div step + MaxBuckets
  <1> DEFINE p == x \div step
             q == y \div step
  <1>1. /\ p \in Nat /\ q \in Nat /\ p * step \in Nat
        /\ p * step <= x /\ y < q * step + step
    BY StartBounds DEF StartOf
  <1> HIDE DEF p, q
  <1> SUFFICES ASSUME p > q + MaxBuckets PROVE FALSE
    BY <1>1 DEF p, q, MaxBuckets
  <1>2. q + MaxBuckets \in Nat /\ q * step \in Nat
    BY <1>1, SMTT(30) DEF MaxBuckets
  <1>3. (q + MaxBuckets) * step + step <= p * step
    BY <1>1, <1>2, ProductsOrdered
  <1>4. (q + MaxBuckets) * step = q * step + MaxBuckets * step
    BY <1>1, SMTT(30) DEF MaxBuckets
  <1>5. MaxBuckets * step \in Nat
    BY DEF MaxBuckets
  <1> QED BY <1>1, <1>2, <1>3, <1>4, <1>5

Params(a) == a \in Parameters /\ a.start <= a.end

LEMMA IntervalIsPositive ==
    ASSUME NEW a, Params(a)
    PROVE  /\ Interval(a) \in Nat \ {0}
           /\ a.interval = Unset /\ a.end - a.start <= MaxBuckets * Max(Steps) =>
                 MaxBuckets * Interval(a) >= a.end - a.start
  <1>1. /\ a.start \in Nat /\ a.end \in Nat /\ a.start <= a.end
        /\ a.interval \in (Nat \ {0}) \cup {Unset}
    BY ParametersAssumption DEF Params, Parameters
  <1> QED BY <1>1, ResolvedInterval DEF Interval

LEMMA SelectedRows ==
    ASSUME PageAnswers, NEW a
    PROVE  /\ IsFiniteSet(Selected(a)) /\ Cardinality(Selected(a)) \in Nat
           /\ \A r \in Selected(a) : /\ r.at \in Nat /\ Stamp(r) \in Nat
                                     /\ a.start <= Stamp(r) /\ Stamp(r) <= a.end
           /\ IsFiniteSet(MetricsOf(a)) /\ \A m \in MetricsOf(a) : m.at \in Nat
  <1>1. Selected(a) \subseteq Rows /\ MetricsOf(a) \subseteq Readings
    BY DEF PageAnswers, Selected, InRange, MetricsOf
  <1>2. IsFiniteSet(Selected(a)) /\ IsFiniteSet(MetricsOf(a))
    BY <1>1, RowsAssumption, FS_Subset
  <1>3. \A r \in Selected(a) : r.at \in Nat /\ Stamp(r) \in Nat
    BY <1>1, RowsAssumption, Units, StartBounds DEF Stamp
  <1>4. \A r \in Selected(a) : a.start <= Stamp(r) /\ Stamp(r) <= a.end
    BY DEF Selected, InRange
  <1> QED BY <1>1, <1>2, <1>3, <1>4, RowsAssumption, FS_CardinalityType

(* FetchSampleCount: every selected row is in one step, and where the      *)
(* server chose the step there are few.                                    *)
LEMMA HistogramAddsUp ==
    ASSUME PageAnswers, NEW a, Params(a)
    PROVE  LET h == FetchSampleCount(a)
           IN /\ UNION {h[b] : b \in DOMAIN h} = Selected(a)
              /\ \A b, c \in DOMAIN h : b # c => h[b] \cap h[c] = {}
              /\ a.interval = Unset /\ a.end - a.start <= MaxBuckets * Max(Steps)
                 => Cardinality(DOMAIN h) <= MaxBuckets + 1
  <1> DEFINE S == Selected(a)
             at == [r \in S |-> Stamp(r)]
             step == Interval(a)
             h == FetchSampleCount(a)
  <1>1. /\ IsFiniteSet(S) /\ at \in [S -> Nat] /\ step \in Nat \ {0}
        /\ \A r \in S : a.start <= at[r] /\ at[r] <= a.end
    BY SelectedRows, IntervalIsPositive
  <1>2. h = Buckets(at, step)
    BY DEF FetchSampleCount
  <1>3. a.start \in Nat /\ a.end \in Nat
    BY DEF Params, Parameters
  <1>4. a.interval = Unset /\ a.end - a.start <= MaxBuckets * Max(Steps) =>
            MaxBuckets * step >= a.end - a.start
    BY IntervalIsPositive
  <1> HIDE DEF S, at, step, h
  <1>5. /\ \A b \in DOMAIN h : h[b] = {r \in S : StepOf(at, step, r) = b}
        /\ \A r \in S : StepOf(at, step, r) \in DOMAIN h
        /\ DOMAIN h # {} => \E r, q \in S :
              DOMAIN h = StepOf(at, step, r)..StepOf(at, step, q)
    BY <1>1, <1>2, BucketsDivide
  <1>6. UNION {h[b] : b \in DOMAIN h} = S
    BY <1>5
  <1>7. \A b, c \in DOMAIN h : b # c => h[b] \cap h[c] = {}
    BY <1>5
  <1>8. ASSUME MaxBuckets * step >= a.end - a.start
        PROVE  Cardinality(DOMAIN h) <= MaxBuckets + 1
    <2>1. CASE DOMAIN h = {}
      BY <2>1, FS_EmptySet DEF MaxBuckets
    <2>2. CASE DOMAIN h # {}
      <3>1. PICK r \in S, q \in S : DOMAIN h = StepOf(at, step, r)..StepOf(at, step, q)
        BY <1>5, <2>2
      <3>2. at[r] \in Nat /\ at[q] \in Nat /\ MaxBuckets * step \in Nat
        BY <1>1 DEF MaxBuckets
      <3>3. at[q] <= at[r] + MaxBuckets * step
        BY <1>1, <1>3, <1>8, <3>2
      <3>4. StepOf(at, step, q) <= StepOf(at, step, r) + MaxBuckets
        BY <1>1, <3>2, <3>3, StepsApart DEF StepOf
      <3>5. StepOf(at, step, q) \in Int /\ StepOf(at, step, r) \in Int
        <4>1. at[q] \div step \in Int /\ at[r] \div step \in Int
          BY <1>1, <3>2
        <4> QED BY <4>1 DEF StepOf
      <3> DEFINE l == StepOf(at, step, r)
                 u == StepOf(at, step, q)
      <3>6. Cardinality(DOMAIN h) = IF l > u THEN 0 ELSE u - l + 1
        BY <3>1, <3>5, FS_Interval
      <3>7. u <= l + MaxBuckets /\ u \in Int /\ l \in Int /\ MaxBuckets \in Nat
        BY <3>4, <3>5 DEF MaxBuckets
      <3> HIDE DEF l, u
      <3> QED BY <3>6, <3>7
    <2> QED BY <2>1, <2>2
  <1> QED BY <1>4, <1>6, <1>7, <1>8 DEF S, h, step

(* FetchMetricsGraph, where it answers: filled steps repeat readings of    *)
(* the range and hide none.                                                *)
LEMMA MetricsAddUp ==
    ASSUME PageAnswers, NEW a, Params(a), NEW m \in FetchMetricsGraph(a)
    PROVE  UNION {m[b] : b \in DOMAIN m} = MetricsOf(a)
  <1> DEFINE S == MetricsOf(a)
             at == [x \in S |-> x.at]
             step == Interval(a)
             steps == Buckets(at, step)
             upto(b) == {x \in DOMAIN steps : x <= b /\ steps[x] # {}}
  <1>1. IsFiniteSet(S) /\ at \in [S -> Nat] /\ step \in Nat \ {0}
    BY SelectedRows, IntervalIsPositive
  <1>2. m = [b \in DOMAIN steps |-> steps[Max(upto(b))]]
    BY DEF FetchMetricsGraph, Answer, Failed
  <1> HIDE DEF S, at, step
  <1>3. /\ DOMAIN steps \subseteq Int /\ IsFiniteSet(DOMAIN steps)
        /\ \A b \in DOMAIN steps : steps[b] = {r \in S : StepOf(at, step, r) = b}
        /\ \A r \in S : StepOf(at, step, r) \in DOMAIN steps
        /\ \A b \in DOMAIN steps : \E r \in S : StepOf(at, step, r) <= b
    BY <1>1, BucketsDivide
  <1> HIDE DEF steps
  <1>4. ASSUME NEW b \in DOMAIN steps
        PROVE  /\ Max(upto(b)) \in DOMAIN steps /\ Max(upto(b)) <= b
               /\ steps[b] # {} => Max(upto(b)) = b
    <2>1. PICK r \in S : StepOf(at, step, r) <= b
      BY <1>3
    <2>2. StepOf(at, step, r) \in upto(b)
      BY <1>3, <2>1
    <2>3. IsFiniteSet(upto(b)) /\ upto(b) \subseteq Int /\ upto(b) # {}
      BY <1>3, <2>2, FS_Subset
    <2>4. Max(upto(b)) \in upto(b) /\ \A i \in upto(b) : i <= Max(upto(b))
      BY <2>3, GreatestAndLeast
    <2>5. steps[b] # {} => b \in upto(b)
      BY <1>3
    <2>6. b \in Int /\ Max(upto(b)) \in Int
      BY <1>3, <2>3, <2>4
    <2>7. Max(upto(b)) \in DOMAIN steps /\ Max(upto(b)) <= b
      BY <2>4
    <2> HIDE DEF upto
    <2> QED BY <2>4, <2>5, <2>6, <2>7
  <1>5. DOMAIN m = DOMAIN steps /\ \A b \in DOMAIN steps : m[b] = steps[Max(upto(b))]
    BY <1>2
  <1> HIDE DEF upto
  <1>6. \A b \in DOMAIN m : m[b] \subseteq S
    BY <1>3, <1>4, <1>5
  <1>7. \A r \in S : \E b \in DOMAIN m : r \in m[b]
    <2> SUFFICES ASSUME NEW r \in S PROVE \E b \in DOMAIN m : r \in m[b]
      OBVIOUS
    <2>1. r \in steps[StepOf(at, step, r)]
      BY <1>3
    <2> QED BY <1>3, <1>4, <1>5, <2>1
  <1>8. UNION {m[b] : b \in DOMAIN m} = S
    BY <1>6, <1>7
  <1> QED BY <1>8 DEF S

(* A count of at least one is in the range up to its bound. *)
LEMMA UpTo == \A n, m \in Nat : n # 0 /\ n <= m => n \in 1..m
OBVIOUS

HostsOf(a) == {r.col["HostName"] : r \in Selected(a)}

(* Hosts, whole or by type, and sessions are counted over the same rows.   *)
LEMMA HostsCount ==
    ASSUME PageAnswers, NEW a
    PROVE  /\ IsFiniteSet(HostsOf(a)) /\ Cardinality(HostsOf(a)) \in Nat
           /\ Cardinality(HostsOf(a)) <= FetchSessionsCount(a)
           /\ FetchSessionsCount(a) <= Cardinality(Selected(a))
           /\ \A t \in DOMAIN FetchInstanceTypeCount(a) :
                 /\ t \in FetchFieldValues(a, "InstanceType")
                 /\ FetchInstanceTypeCount(a)[t] \in 1..Cardinality(HostsOf(a))
  <1> DEFINE S == Selected(a)
  <1>1. IsFiniteSet(S)
    BY SelectedRows
  <1>2. /\ IsFiniteSet(Sessions(a)) /\ Cardinality(Sessions(a)) \in Nat
        /\ Cardinality(Sessions(a)) <= Cardinality(S)
    <2> DEFINE f == [r \in S |-> <<r.col["HostName"], Stamp(r)>>]
    <2>1. Sessions(a) = {f[r] : r \in S} /\ f = [r \in S |-> f[r]]
      BY DEF Sessions
    <2> HIDE DEF f, S
    <2> QED BY <1>1, <2>1, ImagesCount
  <1>3. /\ IsFiniteSet(HostsOf(a)) /\ Cardinality(HostsOf(a)) \in Nat
        /\ Cardinality(HostsOf(a)) <= Cardinality(Sessions(a))
    <2> DEFINE f == [s \in Sessions(a) |-> s[1]]
    <2>1. HostsOf(a) = {f[s] : s \in Sessions(a)}
      <3>1. \A r \in S : <<r.col["HostName"], Stamp(r)>> \in Sessions(a)
        BY DEF Sessions
      <3>2. \A r \in S : f[<<r.col["HostName"], Stamp(r)>>] = r.col["HostName"]
        BY <3>1
      <3>3. \A s \in Sessions(a) : \E r \in S : f[s] = r.col["HostName"]
        BY DEF Sessions
      <3>4. HostsOf(a) = {r.col["HostName"] : r \in S}
        BY DEF HostsOf
      <3> HIDE DEF f, S
      <3>5. \A x : x \in HostsOf(a) => \E s \in Sessions(a) : x = f[s]
        BY <3>1, <3>2, <3>4
      <3>6. \A s \in Sessions(a) : f[s] \in HostsOf(a)
        BY <3>3, <3>4
      <3> QED BY <3>5, <3>6
    <2>2. f = [s \in Sessions(a) |-> f[s]]
      OBVIOUS
    <2> HIDE DEF f
    <2> QED BY <1>2, <2>1, <2>2, ImagesCount
  <1>4. ASSUME NEW t \in DOMAIN FetchInstanceTypeCount(a)
        PROVE  /\ t \in FetchFieldValues(a, "InstanceType")
               /\ FetchInstanceTypeCount(a)[t] \in 1..Cardinality(HostsOf(a))
    <2> DEFINE named == {r \in S : r.col["InstanceType"] # ""}
               hosts == {r.col["HostName"] : r \in {x \in named : x.col["InstanceType"] = t}}
    <2>1. /\ t \in {r.col["InstanceType"] : r \in named}
          /\ FetchInstanceTypeCount(a)[t] = Cardinality(hosts)
      BY DEF FetchInstanceTypeCount
    <2>2. PICK r \in named : t = r.col["InstanceType"]
      BY <2>1
    <2>3. r.col["HostName"] \in hosts /\ hosts \subseteq HostsOf(a)
      BY <2>2 DEF HostsOf
    <2>4. IsFiniteSet(hosts) /\ Cardinality(hosts) <= Cardinality(HostsOf(a))
      BY <1>3, <2>3, FS_Subset
    <2>5. Cardinality(hosts) \in Nat /\ Cardinality(hosts) # 0
      BY <2>3, <2>4, FS_CardinalityType, FS_EmptySet
    <2>6. t \in FetchFieldValues(a, "InstanceType")
      BY <2>2 DEF FetchFieldValues
    <2> HIDE DEF hosts
    <2>7. Cardinality(hosts) \in 1..Cardinality(HostsOf(a))
      BY <1>3, <2>4, <2>5, UpTo
    <2> QED BY <2>1, <2>6, <2>7
  <1> QED BY <1>2, <1>3, <1>4 DEF FetchSessionsCount

(* The parts of a page add up: the histogram has the samples of the        *)
(* summary, each in one step, and few steps where the server chooses them; *)
(* the metrics graph shows the readings of the summary; nodes, hosts by    *)
(* type and sessions agree (FetchSampleCount, resolveInterval,             *)
(* FetchMetricsGraph, FetchSummaryStats, FetchInstanceTypeCount,           *)
(* FetchSessionsCount, FetchFieldValues).                                  *)
THEOREM PagesAddUp == Spec => []PartsAddUp
  <1>1. PageAnswers => PartsAddUp
    <2> SUFFICES ASSUME PageAnswers, Shown, "meta" \notin page.failing,
                        NEW s \in page.summary
                 PROVE  LET h == page.histogram
                        IN /\ UNION {h[b] : b \in DOMAIN h} = s.samples
                           /\ \A b, c \in DOMAIN h : b # c => h[b] \cap h[c] = {}
                           /\ asked.interval = Unset
                              /\ asked.end - asked.start <= MaxBuckets * Max(Steps)
                              => Cardinality(DOMAIN h) <= MaxBuckets + 1
                           /\ \A m \in page.metrics :
                                 UNION {m[b] : b \in DOMAIN m} = s.metrics
                           /\ s.nodes = Cardinality(page.values["HostName"])
                           /\ \A t \in DOMAIN page.types :
                                 /\ t \in page.values["InstanceType"]
                                 /\ page.types[t] \in 1..s.nodes
                           /\ \A n \in page.sessions :
                                 s.nodes <= n /\ n <= Cardinality(s.samples)
      BY DEF PartsAddUp
    <2>1. Params(asked)
      BY DEF PageAnswers, Params
    <2>2. PICK failing \in Failures : page = Answers(asked, failing)
      BY DEF PageAnswers
    <2>3. "meta" \notin failing
      BY <2>2 DEF Answers
    <2>4. s = FetchSummaryStats(asked)
      BY <2>2 DEF Answers, Answer, Failed
    <2>5. /\ s.samples = Selected(asked) /\ s.metrics = MetricsOf(asked)
          /\ s.nodes = Cardinality(HostsOf(asked))
      BY <2>4 DEF FetchSummaryStats, HostsOf
    <2>6. /\ page.histogram = FetchSampleCount(asked)
          /\ page.types = FetchInstanceTypeCount(asked)
          /\ page.values["HostName"] = HostsOf(asked)
          /\ page.values["InstanceType"] = FetchFieldValues(asked, "InstanceType")
      BY <2>2, <2>3 DEF Answers, Fields, FetchFieldValues, HostsOf
    <2>7. \A m \in page.metrics : m \in FetchMetricsGraph(asked)
      BY <2>2 DEF Answers, Failed
    <2>8. \A n \in page.sessions : n = FetchSessionsCount(asked)
      BY <2>2 DEF Answers, Answer, Failed
    <2>9. \A m \in page.metrics : UNION {m[b] : b \in DOMAIN m} = s.metrics
      BY <2>1, <2>5, <2>7, MetricsAddUp
    <2>10. /\ \A t \in DOMAIN page.types :
                 /\ t \in page.values["InstanceType"]
                 /\ page.types[t] \in 1..s.nodes
           /\ \A n \in page.sessions :
                 s.nodes <= n /\ n <= Cardinality(s.samples)
      BY <2>5, <2>6, <2>8, HostsCount
    <2> QED BY <2>1, <2>5, <2>6, <2>9, <2>10, HistogramAddsUp
  <1> QED BY <1>1, PagesAnswer, PTL

(* A value the page offers for a field was seen in a row that meets the    *)
(* filters in force, so the row meets them with the value added or put in  *)
(* the place of the field's others (FetchFieldValues, BuildConditionsSq).  *)
THEOREM OffersMatch == Spec => []OfferedValuesMatch
  <1>1. PageAnswers => OfferedValuesMatch
    <2> SUFFICES ASSUME PageAnswers, Shown, NEW f \in Fields, NEW v \in page.values[f]
                 PROVE  Selected([asked EXCEPT !.filters =
                            [g \in DOMAIN @ \cup {f} |->
                                IF g = f THEN {v} ELSE @[g]]]) # {}
      BY DEF OfferedValuesMatch
    <2> DEFINE chosen == [asked EXCEPT !.filters =
                            [g \in DOMAIN @ \cup {f} |-> IF g = f THEN {v} ELSE @[g]]]
    <2>1. asked \in Parameters
      BY DEF PageAnswers
    <2>2. v \in FetchFieldValues(asked, f)
      <3>1. PICK failing \in Failures : page = Answers(asked, failing)
        BY DEF PageAnswers
      <3>2. page.values[f] \subseteq FetchFieldValues(asked, f)
        BY <3>1 DEF Answers
      <3> QED BY <3>2
    <2>3. PICK r \in Selected(asked) : v = r.col[f]
      BY <2>2 DEF FetchFieldValues
    <2>4. /\ chosen.service = asked.service /\ chosen.start = asked.start
          /\ chosen.end = asked.end
          /\ chosen.filters = [g \in DOMAIN asked.filters \cup {f} |->
                                  IF g = f THEN {v} ELSE asked.filters[g]]
      BY <2>1 DEF Parameters
    <2> HIDE DEF chosen
    <2>5. Matches(r, chosen.filters)
      BY <2>3, <2>4 DEF Matches, Selected
    <2>6. r \in Selected(chosen)
      BY <2>3, <2>4, <2>5 DEF Selected, InRange
    <2> QED BY <2>6 DEF chosen
  <1> QED BY <1>1, PagesAnswer, PTL

=============================================================================
