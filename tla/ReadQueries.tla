----------------------------- MODULE ReadQueries -----------------------------
(***************************************************************************)
(* What the read API answers for one set of parameters: the flamegraph     *)
(* from the tables its chunks and filters select, and counts, histogram,   *)
(* filter values, sessions, services and metrics from samples_1min and     *)
(* metrics (internal/db/queries.go, internal/server/handlers.go,           *)
(* internal/model/request/params.go).                                      *)
(*                                                                         *)
(* Times are seconds (Hour, Day as the configuration gives them).  A row   *)
(* stands for the samples of one stack; an aggregate is the set of rows it *)
(* is over.  samples_1min and the rollups hold a row under the start of    *)
(* its minute, hour or day; BETWEEN includes both ends, a chunk its first  *)
(* one.                                                                    *)
(***************************************************************************)
EXTENDS TimeRange, Integers, FiniteSets, FiniteSetsExt

CONSTANTS
    Rows,       \* rows that may be stored: [at, service, col]
    Readings,   \* host metrics that may be stored, of the same form
    Services,   \* services to ask for
    Instants,   \* start and end parameters
    Conditions, \* filters: fields to the values asked for
    Intervals,  \* interval parameters, seconds, or Unset
    Asked,      \* resolutions of the flamegraph
    Now         \* the time of the requests

VARIABLES
    stored,     \* rows in the database
    metrics,    \* readings in the database
    asked,      \* the parameters of the page on display
    page        \* the answers on display

vars == <<stored, metrics, asked, page>>

Unset == -1
Minute == 60
Fields == {"ContainerName", "HostName", "InstanceType", "ContainerEnvName"}

ASSUME RowsAssumption ==
    /\ IsFiniteSet(Rows) /\ \A r \in Rows : r.at \in Nat
    /\ IsFiniteSet(Readings) /\ \A m \in Readings : m.at \in Nat

ASSUME MinuteAssumption == Hour % Minute = 0

(* DateTime begins with 1970, and a range without a start begins a day     *)
(* before its end.                                                         *)
ASSUME ParametersAssumption ==
    /\ \A t \in Instants \cup {Now - 2 * Minute} : t \in Nat /\ t >= Day
    /\ Intervals \subseteq (Nat \ {0}) \cup {Unset}
    /\ Asked \subseteq Resolutions

(* An answer, or none: the request failed. *)
Failed == {}
Answer(a) == {a}

Blank == [blank |-> TRUE]

-----------------------------------------------------------------------------
(* Parameters.                                                             *)

(* NormalizeTimeRange: two minutes ago, a day before the end, and in order. *)
Normalized(start, end) ==
    LET e == IF end = Unset THEN Now - 2 * Minute ELSE end
        s == IF start = Unset THEN e - Day ELSE start
    IN [start |-> Earlier(s, e), end |-> Later(s, e)]

MaxBuckets == 180
Steps == {1, 2, 5, 10, 15, 30, 60, 120, 300, 600, 900, 1800, 3600, 7200, 10800,
          21600, 43200, 86400, 172800, 604800}

(* Faulty variant: the widest step that is not above the target. *)
ResolveIntervalBelow(start, end, interval) ==
    LET fitting == {c \in Steps : MaxBuckets * c <= end - start}
    IN IF interval # Unset THEN interval
       ELSE IF fitting = {} THEN Minute ELSE Max(fitting)

(* resolveInterval: the smallest step with at most MaxBuckets in the range, *)
(* the largest there is if none has.                                       *)
ResolveInterval(start, end, interval) ==
    LET fitting == {c \in Steps : MaxBuckets * c >= end - start}
    IN IF interval # Unset THEN interval
       ELSE IF end <= start THEN Minute
       ELSE IF fitting = {} THEN Max(Steps) ELSE Min(fitting)

(* Faulty variant: a single field leaves the table prefix as it was. *)
PrefixUnlessSeveral(filters) == IF Cardinality(DOMAIN filters) < 2 THEN "_all" ELSE ""

(* BuildConditionsSq: values of a field are alternatives, fields have to   *)
(* match together; the summed tables serve only a query without any.       *)
Prefix(filters) == IF DOMAIN filters = {} THEN "_all" ELSE ""
Matches(row, filters) == \A f \in DOMAIN filters : row.col[f] \in filters[f]

(* getTableName, and whether the table it names has the filtered columns. *)
GetTableName(table, prefix) == [of |-> table, prefix |-> IF table = "raw" THEN "" ELSE prefix]
HasColumns(name) == name.prefix # "_all"

-----------------------------------------------------------------------------
(* Queries.                                                                *)

(* GetTopFrames; mergeChunks joins what touches and reads no more for it. *)
BuildChunks(a) ==
    CASE a.res = "raw"   -> <<Chunk("raw", a.start, a.end)>>
      [] a.res = "hour"  -> <<Chunk("1hour", a.start, a.end)>>
      [] a.res = "day"   -> <<Chunk("1day", a.start, a.end)>>
      [] a.res = "multi" -> SplitMulti(a.start, a.end)

Flamegraph(a) ==
    LET chunks == {BuildChunks(a)[i] : i \in DOMAIN BuildChunks(a)}
        columns == \A c \in chunks : HasColumns(GetTableName(c.table, Prefix(a.filters)))
    IN IF a.start >= a.end \/ (DOMAIN a.filters # {} /\ ~columns) THEN Failed
       ELSE Answer({r \in stored : /\ r.service = a.service /\ Matches(r, a.filters)
                                   /\ \E c \in chunks : Reads(c, r.at)})

(* What samples_1min has for a range, and for a service and filters in it. *)
Stamp(r) == StartOf(Minute, r.at)
InRange(a) == {r \in stored : a.start <= Stamp(r) /\ Stamp(r) <= a.end}
Selected(a) == {r \in InRange(a) : r.service = a.service /\ Matches(r, a.filters)}

FetchServices(a) == {r.service : r \in InRange(a)}

(* Faulty variant: the filters are not applied to the values. *)
FetchFieldValuesUnfiltered(a, field) ==
    {r.col[field] : r \in {x \in InRange(a) : x.service = a.service}}

FetchFieldValues(a, field) == {r.col[field] : r \in Selected(a)}

(* Distinct hosts by instance type, the unnamed type left out. *)
FetchInstanceTypeCount(a) ==
    LET named == {r \in Selected(a) : r.col["InstanceType"] # ""}
        hosts(type) == {r.col["HostName"] : r \in {x \in named : x.col["InstanceType"] = type}}
    IN [type \in {r.col["InstanceType"] : r \in named} |-> Cardinality(hosts(type))]

Sessions(a) == {<<r.col["HostName"], Stamp(r)>> : r \in Selected(a)}
FetchSessionsCount(a) == Cardinality(Sessions(a))

(* What falls into each step, WITH FILL from the first to the last that    *)
(* has something; at gives the time of each row.                           *)
Buckets(at, step) ==
    LET used == {at[r] \div step : r \in DOMAIN at}
    IN IF used = {} THEN <<>>
       ELSE [b \in Min(used)..Max(used) |-> {r \in DOMAIN at : at[r] \div step = b}]

Interval(a) == ResolveInterval(a.start, a.end, a.interval)
FetchSampleCount(a) == Buckets([r \in Selected(a) |-> Stamp(r)], Interval(a))

(* Host metrics know host and instance type (buildMetricsConditions). *)
MetricsFilters(filters) ==
    [f \in DOMAIN filters \cap {"HostName", "InstanceType"} |-> filters[f]]
MetricsOf(a) ==
    {m \in metrics : /\ m.service = a.service /\ Matches(m, MetricsFilters(a.filters))
                     /\ a.start <= m.at /\ m.at <= a.end}

(* The outer query filters on columns the inner one does not select; a     *)
(* filled step repeats the one before it (INTERPOLATE).                    *)
FetchMetricsGraph(a) ==
    LET steps == Buckets([m \in MetricsOf(a) |-> m.at], Interval(a))
        last(b) == Max({x \in DOMAIN steps : x <= b /\ steps[x] # {}})
    IN IF DOMAIN MetricsFilters(a.filters) # {} THEN Failed
       ELSE Answer([b \in DOMAIN steps |-> steps[last(b)]])

FetchSummaryStats(a) ==
    [samples |-> Selected(a),
     nodes   |-> Cardinality({r.col["HostName"] : r \in Selected(a)}),
     metrics |-> MetricsOf(a)]

-----------------------------------------------------------------------------
Init ==
    /\ stored \in SUBSET Rows
    /\ metrics \in {{}, Readings}
    /\ asked = Blank
    /\ page = Blank

(* The handlers.  A query the database fails is a 500 or a 204; one of     *)
(* QueryMeta or QueryServices a 200 without a value.  Of the two queries   *)
(* of the summary either fails it.                                         *)
Answers(a, failing) ==
    [flamegraph |-> IF "frames" \in failing THEN Failed ELSE Flamegraph(a),
     summary    |-> IF failing \cap {"samples", "metrics"} # {} THEN Failed
                    ELSE Answer(FetchSummaryStats(a)),
     sessions   |-> IF "samples" \in failing THEN Failed ELSE Answer(FetchSessionsCount(a)),
     metrics    |-> IF "metrics" \in failing THEN Failed ELSE FetchMetricsGraph(a),
     histogram  |-> IF "meta" \in failing THEN <<>> ELSE FetchSampleCount(a),
     types      |-> IF "meta" \in failing THEN <<>> ELSE FetchInstanceTypeCount(a),
     values     |-> [f \in Fields |-> IF "meta" \in failing THEN {} ELSE FetchFieldValues(a, f)],
     services   |-> IF "meta" \in failing THEN {} ELSE FetchServices(a),
     failing    |-> failing]

(* A page is opened: every request carries the same parameters. *)
Load ==
    /\ page = Blank
    /\ \E service \in Services, start, end \in Instants \cup {Unset},
          filters \in Conditions, interval \in Intervals, res \in Asked :
          LET range == Normalized(start, end)
          IN asked' = [service |-> service, start |-> range.start, end |-> range.end,
                       filters |-> filters, interval |-> interval, res |-> res]
    /\ \E failing \in {{}} \cup {{q} : q \in {"frames", "samples", "metrics", "meta"}} :
          page' = Answers(asked', failing)
    /\ UNCHANGED <<stored, metrics>>

Leave ==
    /\ page # Blank
    /\ page' = Blank /\ asked' = Blank
    /\ UNCHANGED <<stored, metrics>>

Next == Load \/ Leave

Spec == Init /\ [][Next]_vars

-----------------------------------------------------------------------------
Shown == page # Blank

(* The flamegraph is about the samples the summary counts: whatever tables *)
(* its chunks and filters lead to, it has an answer, and the two differ    *)
(* only by samples of the minutes (or hours, or days, at these             *)
(* resolutions) in which the range begins and ends.                        *)
FlamegraphMatchesSummary ==
    Shown /\ page.failing = {} /\ asked.start < asked.end =>
        LET unit == CASE asked.res = "hour" -> Hour [] asked.res = "day" -> Day
                      [] OTHER -> Minute
            edges == {StartOf(unit, asked.start), StartOf(unit, asked.end)}
        IN \E read \in page.flamegraph, s \in page.summary :
              \A r \in (read \ s.samples) \cup (s.samples \ read) : StartOf(unit, r.at) \in edges

(* The parts of a page add up.  The histogram has the samples of the       *)
(* summary, each in one step, and with a step of the server's choice at    *)
(* most 181 of them; the metrics graph is over the readings of the         *)
(* summary; nodes, hosts by type and sessions count the hosts offered.     *)
PartsAddUp ==
    Shown /\ "meta" \notin page.failing => \A s \in page.summary :
        LET h == page.histogram
        IN /\ UNION {h[b] : b \in DOMAIN h} = s.samples
           /\ \A b, c \in DOMAIN h : b # c => h[b] \cap h[c] = {}
           /\ asked.interval = Unset /\ asked.end - asked.start <= MaxBuckets * Max(Steps)
              => Cardinality(DOMAIN h) <= MaxBuckets + 1
           /\ \A m \in page.metrics : UNION {m[b] : b \in DOMAIN m} = s.metrics
           /\ s.nodes = Cardinality(page.values["HostName"])
           /\ \A t \in DOMAIN page.types :
                 t \in page.values["InstanceType"] /\ page.types[t] \in 1..s.nodes
           /\ \A n \in page.sessions : s.nodes <= n /\ n <= Cardinality(s.samples)

(* Adding any value the page offers to its filters leaves something to     *)
(* see: no choice of the user leads to an empty page.                      *)
OfferedValuesMatch ==
    Shown => \A f \in Fields : \A v \in page.values[f] :
        Selected([asked EXCEPT !.filters =
            [g \in DOMAIN @ \cup {f} |-> IF g = f THEN {v} ELSE @[g]]]) # {}
=============================================================================
