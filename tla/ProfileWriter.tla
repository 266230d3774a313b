---------------------------- MODULE ProfileWriter ----------------------------
(***************************************************************************)
(* RunProfileWriter of internal/db/ch.go: one goroutine that receives      *)
(* profile blocks from a bounded channel, gathers their stack rows and     *)
(* their metric row in two slices, and writes both slices to the database  *)
(* when the batch is full, on a tick, when the input closes and when its   *)
(* context is done.  An insert that fails is logged and its rows are       *)
(* given up: both slices are emptied whatever the inserts returned.        *)
(*                                                                         *)
(* A stack row is <<block, index>>; a block's one metric row is the block. *)
(* Rows are distinct values, so the slices are sets here; a table counts   *)
(* how often a row was inserted.                                           *)
(***************************************************************************)
EXTENDS Naturals, Sequences, FiniteSets

CONSTANTS
    Blocks,          \* the profile blocks the indexer emits
    NStacks,         \* how many stack records a block has
    HasMetrics,      \* whether a block carries a metric record
    InCap,           \* capacity of the channel: Workers * 2 in main.go
    WriteBatchSize,  \* DBConfig.WriteBatchSize
    Cancellable      \* whether the writer's context may be cancelled

ASSUME NStacksAssumption == NStacks \in [Blocks -> Nat]
ASSUME HasMetricsAssumption == HasMetrics \in [Blocks -> BOOLEAN]
ASSUME InCapAssumption == InCap \in Nat \ {0}
ASSUME WriteBatchSizeAssumption == WriteBatchSize \in Nat \ {0}
ASSUME CancellableAssumption == Cancellable \in BOOLEAN

StackRowsOf(b) == {b} \X (1..NStacks[b])
StackRows == UNION {StackRowsOf(b) : b \in Blocks}
MetricRowsOf(b) == IF HasMetrics[b] THEN {b} ELSE {}

VARIABLES
    sent,            \* history: blocks put into the channel
    in,              \* the channel
    inClosed,        \* the channel is closed
    ctxDone,         \* the writer's context is cancelled
    tick,            \* a tick waits in the ticker's channel
    pendingStacks,
    pendingMetrics,
    pc,              \* where the goroutine stands
    after,           \* what it does when the flush under way ends
    stacksTable,     \* how often each stack row was inserted
    metricsTable,    \* how often each metric row was inserted
    failedStacks,    \* history: stack rows whose INSERT returned an error
    failedMetrics    \* history: metric rows whose INSERT returned an error

tables == <<stacksTable, metricsTable, failedStacks, failedMetrics>>
env == <<sent, inClosed, ctxDone>>
vars == <<sent, in, inClosed, ctxDone, tick, pendingStacks, pendingMetrics,
          pc, after, stacksTable, metricsTable, failedStacks, failedMetrics>>

Waiting == {in[i] : i \in DOMAIN in}
Received == sent \ Waiting

-----------------------------------------------------------------------------
Init ==
    /\ sent = {}
    /\ in = <<>>
    /\ inClosed = FALSE
    /\ ctxDone = FALSE
    /\ tick = FALSE
    /\ pendingStacks = {}
    /\ pendingMetrics = {}
    /\ pc = "select"
    /\ after = "loop"
    /\ stacksTable = [row \in StackRows |-> 0]
    /\ metricsTable = [b \in Blocks |-> 0]
    /\ failedStacks = {}
    /\ failedMetrics = {}

-----------------------------------------------------------------------------
(* The writer's surroundings.                                              *)

(* Faulty variant: a channel one block longer than its capacity. *)
SendOneMore(b) ==
    /\ ~inClosed
    /\ Len(in) <= InCap
    /\ sent' = sent \cup {b}
    /\ in' = Append(in, b)
    /\ UNCHANGED <<inClosed, ctxDone, tick, pendingStacks, pendingMetrics,
                   pc, after, tables>>

(* A worker's send of its block; it waits while the channel is full. *)
Send(b) ==
    /\ ~inClosed
    /\ Len(in) < InCap
    /\ sent' = sent \cup {b}
    /\ in' = Append(in, b)
    /\ UNCHANGED <<inClosed, ctxDone, tick, pendingStacks, pendingMetrics,
                   pc, after, tables>>

(* Nothing closes the channel in main.go; the writer handles it. *)
CloseInput ==
    /\ ~inClosed
    /\ inClosed' = TRUE
    /\ UNCHANGED <<sent, in, ctxDone, tick, pendingStacks, pendingMetrics,
                   pc, after, tables>>

Cancel ==
    /\ Cancellable
    /\ ~ctxDone
    /\ ctxDone' = TRUE
    /\ UNCHANGED <<sent, in, inClosed, tick, pendingStacks, pendingMetrics,
                   pc, after, tables>>

(* time.Ticker holds one tick and drops the others. *)
Tick ==
    /\ ~tick
    /\ tick' = TRUE
    /\ UNCHANGED <<in, env, pendingStacks, pendingMetrics, pc, after, tables>>

-----------------------------------------------------------------------------
(* The select loop.                                                        *)

(* flush with these slices, then go on as "loop", "nil" or "ctx" says: it  *)
(* returns at once when both slices are empty.                             *)
Resume(how) == IF how = "loop" THEN "select" ELSE "returned"

Flush(stacks, metrics, how) ==
    /\ after' = how
    /\ pc' = IF stacks = {} /\ metrics = {} THEN Resume(how) ELSE "stacks"

(* Faulty variant: the writer returns on a done context without a flush. *)
OnDoneNoFlush ==
    /\ pc = "select"
    /\ ctxDone
    /\ pc' = "returned"
    /\ after' = "ctx"
    /\ UNCHANGED <<in, env, tick, pendingStacks, pendingMetrics, tables>>

OnDone ==
    /\ pc = "select"
    /\ ctxDone
    /\ Flush(pendingStacks, pendingMetrics, "ctx")
    /\ UNCHANGED <<in, env, tick, pendingStacks, pendingMetrics, tables>>

(* Faulty variant: a tick writes only a batch that is full. *)
OnTickNoFlush ==
    /\ pc = "select"
    /\ tick
    /\ tick' = FALSE
    /\ UNCHANGED <<in, env, pendingStacks, pendingMetrics, pc, after, tables>>

OnTick ==
    /\ pc = "select"
    /\ tick
    /\ tick' = FALSE
    /\ Flush(pendingStacks, pendingMetrics, "loop")
    /\ UNCHANGED <<in, env, pendingStacks, pendingMetrics, tables>>

(* Faulty variant: the writer returns on a closed input without a flush. *)
OnClosedNoFlush ==
    /\ pc = "select"
    /\ inClosed /\ in = <<>>
    /\ pc' = "returned"
    /\ after' = "nil"
    /\ UNCHANGED <<in, env, tick, pendingStacks, pendingMetrics, tables>>

(* A closed channel still gives out what it holds: ok is FALSE after that. *)
OnClosed ==
    /\ pc = "select"
    /\ inClosed /\ in = <<>>
    /\ Flush(pendingStacks, pendingMetrics, "nil")
    /\ UNCHANGED <<in, env, tick, pendingStacks, pendingMetrics, tables>>

(* Faulty variant: the batch is flushed once it exceeds the limit. *)
OnBlockLate ==
    /\ pc = "select"
    /\ in # <<>>
    /\ in' = Tail(in)
    /\ pendingStacks' = pendingStacks \cup StackRowsOf(Head(in))
    /\ pendingMetrics' = pendingMetrics \cup MetricRowsOf(Head(in))
    /\ IF Cardinality(pendingStacks') > WriteBatchSize
       THEN Flush(pendingStacks', pendingMetrics', "loop")
       ELSE UNCHANGED <<pc, after>>
    /\ UNCHANGED <<env, tick, tables>>

OnBlock ==
    /\ pc = "select"
    /\ in # <<>>
    /\ in' = Tail(in)
    /\ pendingStacks' = pendingStacks \cup StackRowsOf(Head(in))
    /\ pendingMetrics' = pendingMetrics \cup MetricRowsOf(Head(in))
    /\ IF Cardinality(pendingStacks') >= WriteBatchSize
       THEN Flush(pendingStacks', pendingMetrics', "loop")
       ELSE UNCHANGED <<pc, after>>
    /\ UNCHANGED <<env, tick, tables>>

(* One more row of the table for each row of the slice. *)
Inserted(table, rows) ==
    [row \in DOMAIN table |-> IF row \in rows THEN table[row] + 1
                                             ELSE table[row]]

(* ExecContext: database/sql looks at the context before it hands the      *)
(* statement to the driver.  A done context, or an empty slice, is the end *)
(* of the insert; the INSERT of an embedded database runs to its own end   *)
(* whatever becomes of the context then.                                   *)
ExecStacks ==
    /\ pc = "stacks"
    /\ IF ctxDone \/ pendingStacks = {}
       THEN /\ pc' = "metrics"
            /\ failedStacks' = failedStacks \cup pendingStacks
       ELSE /\ pc' = "storingStacks"
            /\ UNCHANGED failedStacks
    /\ UNCHANGED <<in, env, tick, pendingStacks, pendingMetrics, after,
                   stacksTable, metricsTable, failedMetrics>>

(* Faulty variants: a failed insert ends the flush, metrics and all; it is *)
(* tried once more.                                                        *)
StacksReturnGivesUp ==
    /\ pc = "storingStacks"
    /\ failedStacks' = failedStacks \cup pendingStacks
    /\ pendingStacks' = {}
    /\ pendingMetrics' = {}
    /\ pc' = Resume(after)
    /\ UNCHANGED <<in, env, tick, after, stacksTable, metricsTable,
                   failedMetrics>>

StacksReturnRetries ==
    /\ pc = "storingStacks"
    /\ \E stored \in SUBSET {row[1] : row \in pendingStacks} :
          stacksTable' = Inserted(stacksTable,
                                  {row \in pendingStacks : row[1] \in stored})
    /\ pc' \in {"stacks", "metrics"}
    /\ UNCHANGED <<in, env, tick, pendingStacks, pendingMetrics, after,
                   metricsTable, failedStacks, failedMetrics>>

(* The INSERT returns nil, or an error, and then what it stored until it   *)
(* failed stays: a table is partitioned by day and a block's rows have one *)
(* timestamp, so that is each block's rows or none of them.                *)
StacksReturn ==
    /\ pc = "storingStacks"
    /\ \/ /\ stacksTable' = Inserted(stacksTable, pendingStacks)
          /\ UNCHANGED failedStacks
       \/ /\ \E stored \in SUBSET {row[1] : row \in pendingStacks} :
                stacksTable' = Inserted(stacksTable,
                                        {row \in pendingStacks : row[1] \in stored})
          /\ failedStacks' = failedStacks \cup pendingStacks
    /\ pc' = "metrics"
    /\ UNCHANGED <<in, env, tick, pendingStacks, pendingMetrics, after,
                   metricsTable, failedMetrics>>

(* After insertMetrics, whatever became of it, both slices are cut to      *)
(* length zero, and the loop goes on or RunProfileWriter returns.          *)
FlushEnds ==
    /\ pendingStacks' = {}
    /\ pendingMetrics' = {}
    /\ pc' = Resume(after)

(* insertMetrics comes next, whatever became of the stacks. *)
ExecMetrics ==
    /\ pc = "metrics"
    /\ IF ctxDone \/ pendingMetrics = {}
       THEN /\ failedMetrics' = failedMetrics \cup pendingMetrics
            /\ FlushEnds
       ELSE /\ pc' = "storingMetrics"
            /\ UNCHANGED <<pendingStacks, pendingMetrics, failedMetrics>>
    /\ UNCHANGED <<in, env, tick, after, stacksTable, metricsTable, failedStacks>>

MetricsReturn ==
    /\ pc = "storingMetrics"
    /\ \/ /\ metricsTable' = Inserted(metricsTable, pendingMetrics)
          /\ UNCHANGED failedMetrics
       \/ /\ \E stored \in SUBSET pendingMetrics :
                metricsTable' = Inserted(metricsTable, stored)
          /\ failedMetrics' = failedMetrics \cup pendingMetrics
    /\ FlushEnds
    /\ UNCHANGED <<in, env, tick, after, stacksTable, failedStacks>>

Inserts == ExecStacks \/ StacksReturn \/ ExecMetrics \/ MetricsReturn

Writer == OnDone \/ OnTick \/ OnClosed \/ OnBlock \/ Inserts

(* RunProfileWriter has returned: nothing more is asked of it. *)
Finished ==
    /\ pc = "returned"
    /\ UNCHANGED vars

Next ==
    \/ \E b \in Blocks \ sent : Send(b)
    \/ CloseInput \/ Cancel \/ Tick
    \/ Writer
    \/ Finished

(***************************************************************************)
(* Fairness.  The ticker ticks and an INSERT returns.  A Go select draws   *)
(* uniformly among its ready cases, so none that is ready again and again  *)
(* is passed over for ever: strong fairness of each case.  That blocks     *)
(* arrive, the input closes or the context is cancelled is not assumed.    *)
(***************************************************************************)
Fairness ==
    /\ WF_vars(Tick)
    /\ WF_vars(Inserts)
    /\ SF_vars(OnTick) /\ SF_vars(OnBlock)
    /\ SF_vars(OnClosed) /\ SF_vars(OnDone)

Spec == Init /\ [][Next]_vars /\ Fairness

-----------------------------------------------------------------------------
TypeOK ==
    /\ sent \subseteq Blocks
    /\ in \in Seq(Blocks) /\ Len(in) <= InCap
    /\ inClosed \in BOOLEAN /\ ctxDone \in BOOLEAN /\ tick \in BOOLEAN
    /\ pendingStacks \subseteq StackRows
    /\ pendingMetrics \subseteq Blocks
    /\ pc \in {"select", "stacks", "storingStacks", "metrics", "storingMetrics",
               "returned"}
    /\ after \in {"loop", "nil", "ctx"}
    /\ stacksTable \in [StackRows -> Nat]
    /\ metricsTable \in [Blocks -> Nat]
    /\ failedStacks \subseteq StackRows
    /\ failedMetrics \subseteq Blocks

(* The batch never waits once it is full: whenever the writer is back at   *)
(* its select, fewer than WriteBatchSize stack rows are pending.           *)
BatchBelowLimit ==
    pc = "select" => Cardinality(pendingStacks) < WriteBatchSize

(* No row is written twice: not by a size flush followed by a tick, nor by *)
(* one insert of a flush failing when the other succeeds.  As an INSERT    *)
(* that fails may have stored rows, that takes never sending them again.   *)
InsertedAtMostOnce ==
    /\ \A row \in StackRows : stacksTable[row] <= 1
    /\ \A m \in Blocks : metricsTable[m] <= 1

(* What the writer has tried to insert, with one outcome or the other. *)
StackRowTried(row) == row \in failedStacks \/ stacksTable[row] = 1
MetricRowTried(m) == m \in failedMetrics \/ metricsTable[m] = 1
BlockTried(b) ==
    /\ \A row \in StackRowsOf(b) : StackRowTried(row)
    /\ \A m \in MetricRowsOf(b) : MetricRowTried(m)

(* No row vanishes: each row of a block the writer took from the channel   *)
(* is pending, is in its table, or was in an INSERT that failed.           *)
ReceivedRowsAccounted ==
    \A b \in Received :
        /\ \A row \in StackRowsOf(b) : row \in pendingStacks \/ StackRowTried(row)
        /\ \A m \in MetricRowsOf(b) : m \in pendingMetrics \/ MetricRowTried(m)

(* When RunProfileWriter returns because its input closed, it has emptied  *)
(* the channel and tried to insert every row ever sent to it.              *)
ClosedInputIsDrained ==
    pc = "returned" /\ after = "nil" => in = <<>> /\ \A b \in sent : BlockTried(b)

(* However RunProfileWriter returns, also when a cancelled context fails   *)
(* its last flush, no row it received is left in a slice that nothing will *)
(* flush: each was in an INSERT, and one not stored was reported failed.   *)
ReturnLeavesNoRow ==
    pc = "returned" => \A b \in Received : BlockTried(b)

(* Every block sent ends up inserted or in a failed INSERT, without the    *)
(* help of further blocks.  Only a cancelled context leaves one in the     *)
(* channel, and then the writer does return, though ticks and blocks       *)
(* compete for its select and though an INSERT may be under way.           *)
SentIsWritten ==
    \A b \in Blocks : (b \in sent) ~> (BlockTried(b) \/ (ctxDone /\ pc = "returned"))
=============================================================================
