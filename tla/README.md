# Vihren in TLA+

Vihren is a backend for the gProfiler agent: it takes profiles over HTTP,
spools them to disk, turns them into rows of an embedded ClickHouse (chdb) and
answers flamegraph queries from raw and rolled-up tables. This directory
specifies the parts of it in which concurrency, failure or arithmetic decide
whether a profile is counted once, twice or not at all. The modules are
translated from the code under `src/`, checked with TLC on small instances and,
where it matters most, proved with TLAPS for all instances.

`PROJECT.json` lists the components, the runs, the source lines each definition
stands for, the hazards and the properties that answer them, and the theorems.

## 1. The system

| Component | State | Operations | Hard behaviour |
|---|---|---|---|
| Payload queue, `internal/indexer/queue.go`, `worker.go` | a directory of payload files; a channel of `QueueDepth` tasks | `Publish`, `Consume`, `Close`, `NewQueue` | disk and channel are tied by no lock; timeout against a free slot; crash and restart |
| Profile writer, `internal/db/ch.go` | channel of blocks, two slices, a ticker | `RunProfileWriter`, `flush`, `insertStacks`, `insertMetrics` | size, tick, close and cancel all flush; two inserts that fail separately |
| Ingest path, `cmd/vihren/main.go`, `server/profiles.go`, `indexer/indexer.go`, `writer.go`, `sink.go` | the above, and the HTTP answer owed | `NewProfileV2`, `ProcessStackFrameFileCtx`, `WriteProfileBlock` | publishers wait for workers, workers for the writer, the writer for the database |
| Time ranges and tables, `db/timerange.go`, `sql/create_ch_schema.sql`, `db/queries.go` | `samples`, hour and day rollups, names, each with a TTL | `BuildChunks`, `GetTopFrames`, the materialized views | seams between resolutions; reads without a snapshot while inserts and expiry go on |
| Flamegraph selection and graph, `db/queries.go`, `flamegraph/graph.go` | aggregates, the frames of the graph | `topFrameHashes`, ancestor loop, `PrepareFrames`, `BuildFlameGraph`, `BuildCollapsedFile` | per-chunk limits cut rows unevenly; the loop gives up after 16 rounds |
| Parsing and aggregation, `indexer/parser.go`, `aggregator.go`, `frame_normalizer.go`, `common.go` | none that outlives a profile | `ParseReader`, `Aggregate`, `ContainerAndK8sName`, `ProcessStackFrameFileCtx` | headers in the middle of a file; skipped lines; frames shared by containers; names cut at what looks random |
| Streaming of collapsed stacks, `server/handlers.go`, `flamegraph/graph.go` | an unbuffered channel | `BuildCollapsedFile`, `GetFlamegraph`'s formats `collapsed_file` and `svg` | a goroutine that feeds a client who may leave |
| Read queries, `db/queries.go`, `query_helper.go` | none | one SELECT per kind of answer | table and conditions chosen apart; closed and half-open ranges; steps of a histogram |
| Read API, `server/handlers.go`, `utils.go`, `model/request` | none | one handler per query; `NormalizeTimeRange` | failures of a query that are answered 200, 204 or 500 |
| Dashboard, `frontend/app.tsx`, `components/topbar.tsx` | choices, filter panel, loaded data, loading flags | effects and asynchronous loaders | late answers overwrite newer ones; answers that change the filters start the effects again |
| Configuration, logging, packaging | none at run time | start-up | none |

How they interact: the server's handler calls `Queue.Publish`, which writes a
file and sends a `Task` on a channel. `Workers` goroutines run `Queue.Consume`,
whose handler parses and aggregates the file and sends a `ProfileBlock` on a
second channel (`Workers * 2` slots). One goroutine, `RunProfileWriter`, gathers
blocks and inserts them. Read handlers run concurrently with all of it against
the same database; the dashboard asks five or six of them at once whenever a
choice changes. Nothing in `main.go` closes a channel or cancels a context:
the process ends by being killed. `Close`, the cancelled contexts and the closed
input are handled by the code all the same, and are part of the models.

What makes each component correct, in one line: a file exists exactly as long as
somebody answers for it (queue); a row is inserted at most once and never
vanishes unseen (writer); the HTTP answer agrees with what became of the profile
(ingest); each sample in a range is counted once whatever mix of tables is read
(time ranges and tables); the graph never shows more than was sampled (graph); the
rows of a profile are its lines (parsing); the answers of one page are about the same
samples (queries); what is in force can be seen, and the page comes to rest
(dashboard); neither end of the channel is left behind (streaming).

## 2. Modules

### PayloadQueue

`disk` is the payload directory, a file being the request whose payload it holds
and whether it is complete; `ch` is the Go channel; `pub`, `wpc` and `wtask` are
the program counters of the `Publish` calls and the workers. A Publish call is
`OpenCreates`/`OpenFails` (lines 71-80), `WriteSucceeds`/`WriteFails` (89-103),
`Enqueue`/`SendTimesOut` (the select, 103-113) and `Undo` (the deferred removal,
82-87). A worker is `Receive`, `ReadSucceeds`/`ReadFails`, `HandlerReturns`,
`RemovePayload` (136-163) and `ConsumeReturns`. `Crash` loses memory and keeps
the directory; `Restart` is `NewQueue`, which wipes it. The steps are cut where
another goroutine or a crash can come in between, so a timed-out Publish removes
its file twice, as the code does. `FileOf` gives the file name each request drew:
`getProfileFileName` ends in eight random bytes, so names normally differ, but
`Publish` does not know that. Two uploads of the instance share a name;
`TaskHasItsPayload` is about a task whose name nobody else drew (`OwnName`).

`Close` may happen only when no Publish is in flight: Go panics on a send to a
closed channel, and nothing in the repository calls `Close`. That is the caller's
obligation, and part of the model's environment.

### ProfileWriter

One goroutine: `pc` is `select`, `returned`, or where a flush stands, and `after`
is what follows that flush. `OnDone`, `OnTick`, `OnClosed` and `OnBlock` are the
select's cases. Each of the two inserts of `flush` takes two steps: `ExecStacks` and
`ExecMetrics` are the call of `ExecContext`, which fails at once if the context is
done (database/sql refuses it), and `StacksReturn` and `MetricsReturn` are the
INSERT's return. In between the context may be cancelled, and the INSERT that is
already under way still stores its rows. One that returns an error may have stored
some of them: each block's rows or none, since a block's rows carry one timestamp and
fall into one partition. The writer counts them as failed and does not send them
again. `failedStacks` and `failedMetrics` are history variables. Rows are distinct
values, hence slices are sets and a table counts insertions.

### Ingest and ProfileDelivery

`Ingest` is `PayloadQueue` and `ProfileWriter` side by side, with the HTTP answer
in `reply`: a worker's handler returns either by dropping the profile (parse
error, or a block without stacks, `writer.go` 50-69) or in the same step in which
the writer's channel takes its block. A crash in the middle of an INSERT leaves what
an INSERT that fails just before it would. `Kind`, `NStacks` and `HasMetrics` describe
what each upload contains; every check in `NewProfileV2` that ends in 400 is the
kind `invalid`. File names are distinct here.

`ProfileDelivery` is the promise, with no queue in it: a profile has a stack part
and possibly a metric part; each is out, taken, stored or lost. It may be lost
once taken (nothing retries), but a refused profile stays out, a 200 is answered
only for a taken one, and a part is stored once and whole. `Ingest!Delivery` is
the refinement mapping: the fate of a part is read off the tables, the channels,
the workers and the slices. It has values (`twice`, `torn`) that the abstract
specification never takes.

### TimeRange and SampleStore

`TimeRange` holds the pure part: `SplitMulti` (`splitMulti`), `Rollup` (the
timestamp under which each table keeps a sample, from the materialized views) and
`FrameNamesDays` (`frameNamesTimeRange`). Time is in ticks from midnight UTC;
`Hour` and `Day` are lengths in ticks, and all that is assumed of them is that a
day is whole hours. `NormalizeTimeRange` makes every bound of a query UTC and
whole seconds, which is what justifies counting ticks.

`SampleStore` adds `MergeChunks` (sort and merge), the insert that reaches the
raw table, the rollups (after the raw table, since their views select from it)
and the names table one by one and may fail half way, the retention horizon and
the expiry of single rows, and the query of `GetTopFrames`: one read per chunk in
any order, with no snapshot, then the read of the names. One call stack of one
service stands for all; rows of different stacks do not influence each other
here. The per-host and the `_all` rollups are one table: a query uses one kind.
The one-minute table is not read by flamegraph queries and is left out.

### TopFrames

From rows to the graph. The stored frames are a forest, since a frame's hash is
taken of its parent's hash and its name (`hashFrame`); `stored` gives each chunk's
row per frame, computed from stacks as `addStack` does. `ReadChunk` takes the
heaviest `ChunkLimit` rows (ties are the database's choice), `Select` is
`topFrameHashes`, `ExpandAncestors` is a round of the ancestor loop,
`BuildFrames` what follows it, `Clamp` a step of the walk in `PrepareFrames`, and
`Lines`/`Total` are the sums that `BuildCollapsedFile` and `BuildFlameGraph`
print. Hash collisions, and with them several parents of one hash and cycles, are
excluded by the forest; the branch that stops when nothing was fetched cannot be
taken while the tables stand still. `PrepareFrames` with a limit is only called
by tests. The per-query limit is `3 * StacksNum` in the code and independent of
it in the model, which makes cuts reachable with few frames.

### ProfileBlock

One file through the parser, the aggregator and the names, which is what `Ingest`
takes for one step. `read` holds the lines read; `SkipLine`, `TakeHeader`,
`TakeSample` and `Refuse` are the ways `ParseReader` goes on with a line, `EndOfFile`
is what `ProcessStackFrameFileCtx` does with the result: `Aggregate`, a fold of
`AddFrame` over samples and frames, `BuildStackRecords`, and the test for an empty
block. A line is a record: its kind, and for a sample the fields between semicolons
and the count. The normaliser's expressions match anywhere in the whole call stack, so
a rule is a function from the call stacks it matches to what they become, be it with
other frames, fewer or more; the rules apply in their order, behind the one test for
any match. `NameOf` gives the parts of a container's string, since `StripPodName` and
`EcsNames` work on parts; `Flinks` and `Proxies` are the components that complete one
of the two known prefixes, which may end in the middle of one. A hash is the path it is computed from. `At` and `Put` are
what reading and assigning an entry of a map do. The specification is called
`BlockSpec`, so that `IngestProofs` can extend it beside `Ingest`.

The reference definitions say what a reader of the file expects: a line belongs to
the header above it, a frame weighs what the lines through it count
(`RowsAreTheLines`). Signed counts are accepted by the parser and part of the
instance; `FrameRowsNest` asks for positive ones. Sums of counts are taken to stay
within the 64 bits the code adds them up in.

### CollapsedStream

The goroutine of `BuildCollapsedFile` is a depth-first walk: `Finish` is the end of
a frame's iteration, which computes its weight from all its children and, if that is
positive, stands at the send until the handler takes the line; the order of siblings
is a map's. The handler is `CheckClient` (gin's `Stream` looks for the client before
each step), `TakeLine`, `SeeClosed` and, for an svg, `RunScript`. `ClientLeaves` may
happen at any moment. The graphs are those `PrepareFrames` can leave: a child has at
most its parent's samples, siblings together may have more, and a parent may be
missing (its children are roots).

### ReadQueries

What the handlers answer for one set of parameters, on a database that holds any of
a set of rows. An aggregate is represented by the rows it is over, so that two of
them can be compared: `Selected` for the queries on `samples_1min`, `Flamegraph` for
the chunks of `TimeRange` and the tables `Prefix` and `GetTableName` choose.
`Load` is a page being opened: parameters normalised, every query answered, at most
one kind of query failing; `Answers` has what each handler makes of a failure.
`FetchMetricsGraph` filters its outer query on columns the inner one does not
select, so with a host or type filter it fails, as it does in the code. Distinct values
are counted exactly here; ClickHouse's `uniq` approximates where there are very many.

### Dashboard

React state is `want` (service, filters, range, frame limit, view), `services`,
`offered`, `draft` (the filter panel), `loading` and, in place of the data, `shown`:
what the picture of a chart was asked with, the run of the last answer to arrive and
whether that had data, and the newest run answered. An answer without data empties the
series and the numbers (`AfterFailure`); the flamegraph keeps its picture, since the
effect that draws it returns without data before it clears anything (`app.tsx:697`).
`inflight` holds the requests, which are neither numbered nor cancelled by the code; a
request carries the values its closure was made with. React runs the effects of a change before the next
event, so each action contains `LoadingEffect` and, where filters change, `DraftEffect`.
`ChooseService` to `ApplyFilters` are the user, each with the condition under which
its control is enabled; typing into From or To (`EditTimes`) and applying the range in
force start the loaders as well, as both change what the loaders depend on.
`ServicesArrive`, `PlotArrives`, `OptionsArrive` and `OptionsFail` are the ends of the
loaders. An effect compares arrays by identity:
`renewed` says that a new array was made, whatever it holds. Of the filter targets any
may fail at the database and answer with no values, and one that does not answer at all
fails the loader. The loaders of samples, graph, summary and metrics are one definition, as they differ in what they write to.

### Proof modules and instances

Theorems and lemmas are in modules of their own: `PayloadQueueProofs`,
`ProfileWriterProofs`, `SampleStoreProofs`, `DashboardProofs` and `ReadQueriesProofs`,
each about the module in its name; `IngestProofs`, about the path of a profile
(`Ingest`) and what becomes of it on the way (`ProfileBlock`); `FlamegraphProofs`, about
`TopFrames` and `CollapsedStream` (whose specification is called `StreamSpec`, so that
one module can extend both); and `QueryTheorems`, the arithmetic that four of them
share: how `TimeRange` cuts a range, what the totals of `Sums` come to, and the least
and greatest of a finite set. `Sums` is the total of a function over a finite set, used
by `SampleStore`, `TopFrames`, `CollapsedStream` and `ProfileBlock`. The modules `MC...` give constants that a cfg cannot express.

Definitions marked "Faulty variant" are not part of any specification. Each is a
plausible mistake in the code, and the property listed with it in `PROJECT.json`
fails when it takes the place of the right definition: it documents what the
property is able to notice.

## 3. What is checked

| Run | Instance | Shows |
|---|---|---|
| `queue` | 3 uploads, two with one file name, 2 workers, 1 slot, 1 crash, cancel and close | types; a task whose name is its own finds its complete payload; no orphaned file; a refused profile is never handled, none twice; every Publish returns; every accepted task is handled, read in vain, or lost to a crash or a cancellation |
| `queue_undo` | same | *violation*: the second removal after a timeout takes another call's file (section 6) |
| `writer` | 3 blocks (one row and a metric, two rows, a metric only), batch 2, channel 2, a context cancelled at any moment | batch limit; at most one insertion; no row vanishes; close drains; a return leaves no row in a slice; what is sent is written, or left in the channel by a cancelled writer that returns |
| `ingest` | 3 uploads, 1 worker, all channels of size 1, 1 crash | the path implements `ProfileDelivery`; no hand-over drops a profile; the metric slice is bounded |
| `ingest_live` | 3 uploads, 2 workers, all channels of size 1 | nothing stays on the way for ever |
| `store` | three days of two hours of two ticks, every range, `multi` and `hour`, one insert, one step of the horizon | no sample counted twice, none missed, frames have names |
| `store_ttl` | a day and a half | *violation*: a sample within its seven days without its name (section 6) |
| `top_frames` | every forest of 4 frames, 2 chunks, limit 2, 3 frames asked for, 1 round | no overcount; child within parent; ancestors complete; exact if nothing was cut |
| `profile_block` | every file of up to 5 of 18 lines: three formats of header, blank and unreadable lines, pods, tasks, idle stacks, recursion, zero and negative counts; three rules, one on the result of another, one that makes two frames one | rows are the lines under the header above them; rows nest; pods of a replica set share a name |
| `dashboard` | 2 services, 2 ranges, 2 filters of two fields, 2 limits, 2 views; 2 choices or failures in any mix | filters in force are offered; a chart with all its answers shows the choice, but for a failure or an older answer that came last; answers only take filters away; the page comes to rest |
| `read_queries` | any of 5 rows over two days, 6 start and end parameters each, 6 filters, 2 resolutions, one failing query | flamegraph and summary are about the same samples; histogram, metrics, hosts, types and sessions add up; no offered value leads to an empty page |
| `collapsed_stream` | every graph over 4 frames with up to 3 samples each, both formats | lines add up to the graph; handler and goroutine end |

Why the bounds are enough to be interesting. One slot and three uploads make
publishers wait, time out and race for the slot while two workers hold tasks. One
crash reaches every program counter, and the requests that have not begun run
after the restart. A batch of two with blocks of 0, 1 and 2 rows meets the limit
exactly, goes over it and stays below it, two blocks in one INSERT let it fail with one
of them stored, and the channel is shorter than the number of blocks. Three days of four ticks contain every relation a range can have to
hours and days: both ends aligned or not, within one hour, within one day, a whole
day in the middle with hours on one side, both or none. One insert suffices for
counting: the query's total is a sum over rows, so a second insert adds its own
share. Four frames in two chunks with a limit of two and three frames asked for let a
chain lose two of its members, so that the ancestor loop both completes and gives
up; let a parent be cut where its child is not, so that the walk clamps; and leave
more frames than are asked for as well as answers that branch with nothing cut. Five
lines let a file hold two headers with samples under each and a line that refuses it.
Two choices are enough for an answer to be overtaken by one to a later question and
for the options to be pruned and asked for again; one loader of a chart stands for the
charts, which do not read each other's state (`Charts` is the graph alone). `MaxRuns`
bounds runs of the loading effect and never blocks one: two choices or failures lead
to six runs at the most, and a higher bound gives the same states. That the page comes
to rest is therefore not an effect of the bound. The instants of
`read_queries` lie on a day, on an hour, within a minute and two days apart, and the
rows on the same instants and the seconds beside them. Each of these cases was seen
to occur by checking that its negation fails.

`CHECK_DEADLOCK` is off in `profile_block` (a file ends), `collapsed_stream` (a
request ends) and `dashboard` (the user may stop and the bound on choices is met);
it is on everywhere else. `Finished` in `PayloadQueue`,
`ProfileWriter` and `TopFrames` is the stuttering of a system with nothing left to do, and
its guard says when that is.

## 4. Fairness

Assumed, and why the code justifies it:

* A `Publish` call that has begun proceeds (weak): file operations return, and
  its select has a timer (`withMinTimeout` gives it one whatever the caller's
  context is), so one case becomes ready.
* A worker proceeds (weak): its goroutine is scheduled, and reads return. In
  `PayloadQueue` the handler is assumed to return. `Ingest` drops this assumption:
  the handler returns when the writer's channel takes the block.
* The send of a block (strong): blocked senders of a Go channel are served first
  in, first out.
* The writer's select (strong, per case): Go draws uniformly among ready cases, so
  a case that is ready again and again is not passed over for ever. Inserts return
  (weak), the ticker ticks (weak).
* A request of the dashboard is answered or fails (weak, `Answer`): `fetch` settles,
  and the loaders have a `finally`. Which one is answered next is not fixed.
* The goroutine of a collapsed file and its handler proceed (weak, each): both are
  scheduled, and the script ends or is killed with the request's context.
* Not assumed: that the user does anything, that a client leaves or stays, that uploads arrive, that contexts are cancelled, that channels are
  closed, that the process crashes or comes back, that an INSERT succeeds.

The liveness properties are `PublishReturns`, `AcceptedIsSettled`, `SentIsWritten`,
`PartsSettle`, `StreamSettles` and `ComesToRest`.

## 5. What is proved

All theorems hold for every value of the constants that meets the named
assumptions of the modules: positive capacities, limits and batch sizes, functions of
the right type, a day of whole hours and an hour of whole minutes, finitely many rows
or frames where they are added up. Requests, workers, names, inserts, crashes and
choices of the user need not be finite. `ReadQueries` assumes besides that no query is
for a time before the second day of 1970, since a range without a start begins a day
before its end; `ProfileBlock`, that the fields of a line and what rules put in their
place are strings, that counts are whole numbers, and that a pod's name has a component
(splitting a string yields one at least). The invariants are conjunctions of named parts in the proof modules;
each was checked with TLC on the instance of the component's run before it was proved.

* **PayloadQueueProofs.** `TypeCorrect`, `NoFileIsOrphaned`,
  `RefusedIsNeverHandled`, `TaskIsHandledAtMostOnce`, from one inductive invariant.
  `NoOrphanFile` alone is not inductive: that removing a file strands no task
  needs to know that a task is in the channel or with one worker and not both,
  that only accepted requests are there, and that a dead process has nothing in
  flight. `IInv` says who answers for a request at each moment: its publisher, then
  the channel, then one worker, then nobody. `TaskFindsItsPayload` is about the requests
  whose name nobody else drew, whatever the others do, and strengthens the invariant
  by what the disk holds at each stage of their Publish.
* **ProfileWriterProofs.** `WriterTypeCorrect`, `BatchStaysBelowLimit`,
  `RowsAreInsertedAtMostOnce`, `NoReceivedRowVanishes`, `ReturnOnCloseDrains` and
  `ReturnLeavesNothingPending`. The invariant follows a row from
  its block in the channel (untouched) to the slice (pending, new) to the table or
  to a failed insert; between the two inserts of a flush the stack rows are tried
  and still in the slice, which is why at-most-once is not inductive by itself.
  Pending rows stay finite because each block has finitely many. `RowsInv` is the part
  that a crash of the process keeps; that every received row is accounted for
  (`ReceivedRowsAccounted`) is not in it, since a crash loses what is pending.
* **IngestProofs.** `PathDelivers`: the path implements the safety of
  `ProfileDelivery`. With it `PathIsTyped`, `NothingIsLostSilently` and
  `MetricsStayBelowLimit`. The theorems of the queue and the writer are taken over
  through `INSTANCE`: a step of the path is a step of each or leaves it alone, except
  the crash, under which `RowsInv` survives. What neither component knows is added:
  a block in the channel is one handler's work, sent once and only by it
  (`SentByHandlers`); the rows of a block are in the slices together until they are
  tried (`BlocksWhole`); no request has an answer before its Publish is through
  (`AnswersInOrder`). For the refinement each fate of a part is turned into a fact about
  tables and channels (`FatesAreFacts`), and each action is shown to leave the fates,
  to take a profile or to settle parts, never to change a settled one.
* **IngestProofs, ProfileBlock.** `BlockRowsAreTheLines`, `BlockRowsNest` and
  `BlockPodsShareName`, for files of any lines and any length, any rules and names. The
  properties speak of the block at the end, so the invariant (`BlockInv`) follows the
  file: the header in force is the last one above (`HeaderInForce`), and the samples
  kept come to the same keys and, key by key, to the same sum of counts as the lines
  read (`SamplesAreTheLines`); a line further down changes nothing about those above
  (`LinesAbove`), and adds to both sides its keys and its count, or nothing
  (`AsMuchMore`, `NothingMore`). What the two nested folds of the aggregator make of the
  samples is followed step by step: a stack puts its count on each of its prefixes
  once, recursion included (`AddStackAdds`), and a hash's node has the hash's front for
  its parent (`AggregateAdds`). Rows nest because a line through a child is a line
  through its parent and through no other child (`RowsNest`). What `StripPodName` leaves
  of a name of three components or more, the first of which is kept, is a function of
  the components in front of the last (`LastComponentGoes`).
* **QueryTheorems.** `MultiReadsEachSampleOnce`: for every length of hour and day
  and every range, the chunks of `splitMulti` read each sample of the range exactly
  once and no other. The lemmas bound `StartOf` by division, show that an aligned
  bound separates a rollup's rows exactly where it separates samples, and join the
  pieces. `NamesCoverRange`: the days asked of the names table contain the day of
  every sample.
* **SampleStoreProofs.** `StoreIsTyped`, `QueryCountsOnce`, `QueryMissesNothing` and
  `AnswerHasNames`, for any number of inserts between the reads. First, sorting and
  merging keep what the chunks read: joining two chunks of one table that touch changes
  which chunk reads a sample, never whether one does (`MergeKeepsReads`,
  `ChunksCover`). Then the invariant bounds each row of each table from both sides, by
  the samples sent (`NothingTwice`) and by those whose insert was complete
  (`NothingLost`, up to the row's own expiry), with the insert under way in between;
  and the total of a query so far by the histories of the times read so far
  (`QueryCounts`). The properties themselves speak of the finished query only and say
  nothing of a row a later read will meet, so none is inductive.
* **FlamegraphProofs, TopFrames.** `QueryIsTyped`, `AnswerNeverOvercounts`, `AnswerNests`,
  `AncestorsAreComplete` and `AnswerIsExact`, for every forest, any chunks and limits
  and any order of the walk. What was read of a frame is the sum over the chunks read
  (`ReadsAddUp`), and as a round fetches only frames not known before, none is added
  twice; a frame without its parent lies as high above a selected one as there were
  rounds (`OrphansLieHigh`); a child may exceed its parent only while the parent is
  above a frame still queued (`GraphHolds`). The lemmas on ways up a forest show that no
  frame is left behind a cycle, hence that the walk comes to all of them.
* **FlamegraphProofs, CollapsedStream.** `StreamedAnswerAddsUp`, for every forest of
  frames and a client that may leave at any moment. The invariant: for as long as the
  client stays, the lines the goroutine has produced are those taken and the one on the
  channel, the handler leaves its loop only when the channel is closed, and the status
  goes with what was taken. In a subtree every frame but its root is left out of one
  line and counted in another, so the weights add up to the root (`SubtreeAddsUp`); lines
  that are dropped because they would be negative can only make the sum larger.
* **DashboardProofs.** `FiltersStayOffered`, `ChartsRestOnTheChoice`,
  `NoSpinnerIsLeft` (a loader's flag has a request on its way that will clear it) and
  the action property `AnswersOnlyPruneChoices`. The invariant ties each request to the
  run of the effect that made it: those of the newest run ask for what is chosen now,
  and older ones have smaller numbers, whatever order the answers come in; and until a
  chart has had the newest run's answer, the request for it is in flight (`NewestRun`).
  `RestShowsTheChoice` speaks of charts without a request, which the first of those
  answers to arrive need not make them.
* **ReadQueriesProofs.** `FlamegraphsMatchSummaries`, `PagesAddUp` and `OffersMatch`,
  for any rows, filters and parameters. The invariant only says that the page holds the
  answers to its parameters; the work is in the operators: a bound and the start of its
  unit separate all samples but those of that unit, `WITH FILL` loses and repeats no
  row, and the step `resolveInterval` chooses covers a range of at most 180 weeks in
  180; a longer one has more, as there is no step above a week.

A fold over a set or a sequence takes its elements in an order nobody knows, and
induction over it is not available as a rule. Where the sums, the ways up a forest, the
merge of chunks and the aggregator's folds needed it, it is replaced by a least counterexample: the set of
naturals at which a statement fails would have a least member (`WFMin`).

Every invariant, action property and refinement of the passing runs is stated by one of
these theorems. Only model-checked is liveness (`PublishReturns`, `AcceptedIsSettled`,
`SentIsWritten`, `PartsSettle`, `StreamSettles`, `ComesToRest`), which needs fairness and
ENABLED and is out of TLAPS' reach.

## 6. Findings

1. `queue.go:111` removes the payload file at a timeout, and the deferred function
   at 82-87 ("let's delete our file") removes it again. In between the name is free,
   and `O_EXCL` lets another Publish take it: the second removal then deletes a file
   that is not the call's own. Eight random bytes in the name make this a matter of
   `Publish`'s contract rather than of practice (`queue_undo`).
2. README.md:87 promises all data for 7 days. A name row is stamped with the start of
   its day and expires 7 days after that, up to a day before samples it names. Frames
   seen only on the first, partial day of a 7-day query come back nameless
   (`store_ttl`). `FramesAreNamed` states the guarantee that does hold: from the
   first day that lies within the retention as a whole.

Observed and outside any property here: a done context makes the writer's last flush
fail, so a cancelled writer loses what is pending, though it reports it
(`ReturnLeavesNoRow` says no more than that an INSERT was tried; only one that was
under way already may still store its rows); a block whose stacks are empty is dropped with its metrics; the comment at
`graph.go:139` says "parent <= child" where the code enforces child <= parent; a
frame cut in one chunk only is underestimated, and where that makes its children
outweigh it, collapsed lines do not add up to the flamegraph's total (`ExactWhenUncut`
says when they do; `AnswerAddsUp` what holds besides).

In the read path: a host or type filter makes the metrics graph fail
(`queries.go:722`), which the page shows as no metrics. A query that fails behind
`QueryMeta` is answered 200 with null (`handlers.go:153`), so the dashboard clears the
filters of that field without a word. While filter requests go on failing outright,
`app.tsx:239` asks again each time, because an empty array is a new one:
`ComesToRest` needs the failures to end. An answer to an older question may replace a
newer graph and clears its loading flag (`app.tsx:400`), also without any haste of the
user: filters stored in the browser that the options take away start a second run while
the first is under way. A flamegraph request that fails leaves the picture of an older
choice (`app.tsx:697`). `RestShowsTheChoice` says what is certain besides. A panel that stays open may apply a value no longer offered, which
the next answer takes away. `BETWEEN` includes the minute that begins at the end of a
range, so counts may have up to a minute more than the flamegraph. A fragment made of
the parameter `filter` begins with AND and is placed after WHERE by a library outside
the repository; it is not modelled.

In the parser: counts may be negative; the random suffix of a pod stays where the
name begins with a number or hash (`common.go:106`: what was cut in front counts as
trimmed); an ECS name without a revision loses its first part.

## 7. Not modelled, and the plan

Not modelled: `FetchDBStatus`, which reads the database's own system tables; the RQL
expression of the parameter `filter` (see above); language detection, runtimes,
colours and drawing, search and exports of the dashboard, which work on the graph
shown; errors of `os.Remove`, which the queue ignores (a file that cannot be removed
stays until the next start wipes the directory); a panic in the handler of a collapsed
stream, which would skip the draining of the channel; configuration and logging, read once at start-up; charts and the Perl script.

The models were written in this order: `PayloadQueue`, `ProfileWriter`,
`ProfileDelivery` and `Ingest`, `TimeRange` and `SampleStore`, `TopFrames`, then
`ProfileBlock`, `Dashboard`, `CollapsedStream` and `ReadQueries`.

The proofs cover every safety property listed above. Left for them: that `ProfileBlock`
implements the step `Ingest` takes for it (whether a profile has stacks is a constant
there), and action properties that follow from the invariants proved.
