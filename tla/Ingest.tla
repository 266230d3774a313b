------------------------------- MODULE Ingest -------------------------------
(***************************************************************************)
(* The ingest path as cmd/vihren/main.go puts it together: the HTTP        *)
(* handler NewProfileV2 publishes to the payload queue, the indexer's      *)
(* workers parse and aggregate each payload and send the block into a      *)
(* channel of Workers * 2 blocks, and the one profile writer batches the   *)
(* blocks into the database.  The parts meet in two places, and the step   *)
(* they share is one action here: a worker's handler returns only when the *)
(* block is in the writer's channel, so that a slow database holds the     *)
(* workers, then the channel of tasks, then the publishers, until these    *)
(* time out and answer 500.                                                *)
(*                                                                         *)
(* main.go gives both components context.Background() and closes neither   *)
(* channel, so ctxDone, closed and inClosed stay FALSE here.               *)
(***************************************************************************)
EXTENDS Naturals, Sequences, FiniteSets

CONSTANTS
    Requests, Workers, Depth, MaxRestarts, NoFile, NoTask,
    InCap, WriteBatchSize,
    Kind,        \* what an upload is worth: see below
    NStacks,     \* stack records its aggregation yields
    HasMetrics   \* whether it yields a metric record

(***************************************************************************)
(* "invalid": NewProfileV2 answers 400.  "malformed": ParseReader returns  *)
(* an error.  "empty": no stack record comes out of it, though a metric    *)
(* record may.  "good": the rest.                                          *)
(***************************************************************************)
Kinds == {"invalid", "malformed", "empty", "good"}
ASSUME KindAssumption ==
    /\ Kind \in [Requests -> Kinds]
    /\ NStacks \in [Requests -> Nat]
    /\ HasMetrics \in [Requests -> BOOLEAN]
    /\ \A r \in Requests : NStacks[r] > 0 <=> Kind[r] = "good"
ASSUME CapacityAssumption ==
    /\ Depth \in Nat \ {0} /\ InCap \in Nat \ {0}
    /\ WriteBatchSize \in Nat \ {0} /\ MaxRestarts \in Nat
ASSUME NothingAssumption ==
    /\ NoTask \notin Requests
    /\ NoFile \notin [by : Requests, whole : BOOLEAN]

VARIABLES
    disk, ch, pub, wpc, wtask, handled, up, restarts,   \* the payload queue
    sent, in, tick, pendingStacks, pendingMetrics, dbpc, after,
    stacksTable, metricsTable, failedStacks, failedMetrics,  \* the writer
    ctxDone, closed, inClosed,                          \* never set
    reply                                               \* HTTP answers

queueVars == <<disk, ch, pub, wpc, wtask, handled, closed, up, restarts>>
writerVars == <<sent, in, tick, pendingStacks, pendingMetrics, dbpc, after,
                inClosed, stacksTable, metricsTable, failedStacks, failedMetrics>>
vars == <<disk, ch, pub, wpc, wtask, handled, up, restarts,
          sent, in, tick, pendingStacks, pendingMetrics, dbpc, after,
          stacksTable, metricsTable, failedStacks, failedMetrics,
          ctxDone, closed, inClosed, reply>>

(* The random suffix keeps file names apart: a request's name is itself. *)
Q == INSTANCE PayloadQueue
        WITH Names <- Requests, FileOf <- [r \in Requests |-> r],
             Shutdown <- {}

W == INSTANCE ProfileWriter
        WITH Blocks <- Requests, Cancellable <- FALSE, pc <- dbpc

-----------------------------------------------------------------------------
Init ==
    /\ Q!Init
    /\ W!Init
    /\ reply = [r \in Requests |-> "none"]

-----------------------------------------------------------------------------
(* NewProfileV2.                                                           *)

(* A header, the body or the metadata is missing or broken: 400. *)
Reject(r) ==
    /\ up
    /\ Kind[r] = "invalid"
    /\ reply[r] = "none"
    /\ reply' = [reply EXCEPT ![r] = "400"]
    /\ UNCHANGED <<queueVars, writerVars, ctxDone>>

Publish(r) ==
    /\ Kind[r] # "invalid"
    /\ Q!Publish(r)
    /\ UNCHANGED <<writerVars, reply>>

(* Publish has returned nil: 200, or an error: 500. *)
Answer(r) ==
    /\ up
    /\ reply[r] = "none"
    /\ \/ pub[r] = "accepted" /\ reply' = [reply EXCEPT ![r] = "200"]
       \/ pub[r] = "refused" /\ reply' = [reply EXCEPT ![r] = "500"]
    /\ UNCHANGED <<queueVars, writerVars, ctxDone>>

-----------------------------------------------------------------------------
(* A worker: Consume, with ProcessStackFrameFileCtx as its handler.        *)

(* Everything but the handler's return. *)
Consume(w) ==
    /\ \/ Q!Receive(w)
       \/ Q!ReadSucceeds(w) \/ Q!ReadFails(w)
       \/ Q!RemovePayload(w)
    /\ UNCHANGED <<writerVars, reply>>

(* Faulty variant: a send that gives up when the channel is full. *)
HandlerDropsWhenFull(w) ==
    /\ Q!HandlerReturns(w)
    /\ NStacks[wtask[w]] = 0 \/ Len(in) = InCap
    /\ UNCHANGED <<writerVars, reply>>

(* The parse fails, or the block has no stacks and is not emitted: its     *)
(* metric record goes with it.                                             *)
HandlerDrops(w) ==
    /\ Q!HandlerReturns(w)
    /\ NStacks[wtask[w]] = 0
    /\ UNCHANGED <<writerVars, reply>>

(* Faulty variant: a block is emitted for its metric record alone. *)
HandlerEmitsAlways(w) ==
    /\ Q!HandlerReturns(w)
    /\ W!Send(wtask[w])
    /\ UNCHANGED reply

(* WriteProfileBlock: the handler returns when the channel took the block. *)
HandlerEmits(w) ==
    /\ Q!HandlerReturns(w)
    /\ NStacks[wtask[w]] > 0
    /\ W!Send(wtask[w])
    /\ UNCHANGED reply

-----------------------------------------------------------------------------
(* The writer, whose goroutine runs while the process does. *)
Write ==
    /\ up
    /\ W!Writer
    /\ UNCHANGED <<queueVars, reply>>

Tick ==
    /\ up
    /\ W!Tick
    /\ UNCHANGED <<queueVars, reply>>

-----------------------------------------------------------------------------
(* The process dies: slices and channels are lost, tables are not, and the *)
(* agents whose requests were open get no answer.  An INSERT cut short     *)
(* leaves what one would that returned an error just before.               *)
Crash ==
    /\ Q!Crash
    /\ reply' = [r \in Requests |->
          IF reply[r] = "none" /\ pub[r] # "new" THEN "dropped" ELSE reply[r]]
    /\ in' = <<>>
    /\ tick' = FALSE
    /\ pendingStacks' = {}
    /\ pendingMetrics' = {}
    /\ dbpc' = "select"
    /\ after' = "loop"
    /\ UNCHANGED <<sent, inClosed, stacksTable, metricsTable, failedStacks,
                   failedMetrics>>

Restart ==
    /\ Q!Restart
    /\ UNCHANGED <<writerVars, reply>>

Next ==
    \/ \E r \in Requests : Reject(r) \/ Publish(r) \/ Answer(r)
    \/ \E w \in Workers : Consume(w) \/ HandlerDrops(w) \/ HandlerEmits(w)
    \/ Write \/ Tick
    \/ Crash \/ Restart

(***************************************************************************)
(* Fairness.  As in the two components: calls that do not wait return,     *)
(* Publish's select has its timer, the ticker ticks, the writer's select   *)
(* passes over no case for ever.  HandlerEmits is strongly fair: a blocked *)
(* sender of a Go channel waits in a first-in first-out queue.             *)
(***************************************************************************)
Fairness ==
    /\ \A r \in Requests :
          /\ WF_vars(Q!PublishProceeds(r) /\ UNCHANGED <<writerVars, reply>>)
          /\ WF_vars(Answer(r))
    /\ \A w \in Workers :
          /\ WF_vars(Consume(w))
          /\ WF_vars(HandlerDrops(w))
          /\ SF_vars(HandlerEmits(w))
    /\ WF_vars(Tick)
    /\ WF_vars(Write)
    /\ SF_vars(Write /\ W!OnTick)
    /\ SF_vars(Write /\ W!OnBlock)

Spec == Init /\ [][Next]_vars /\ Fairness

-----------------------------------------------------------------------------
(***************************************************************************)
(* What has become of the parts of a profile.  A part is taken from the    *)
(* moment its task is in the channel until it is inserted, its INSERT      *)
(* fails, a worker drops it or the process dies.                           *)
(***************************************************************************)
RowsOf(r) == W!StackRowsOf(r)

InQueue(r) == r \in Q!Queued
AtWorker(r) == \E w \in Workers : wtask[w] = r /\ wpc[w] \in {"read", "handle"}
AtWriter(r, pending) == r \in W!Waiting \/ pending # {}

StacksFate(r) ==
    IF \E row \in RowsOf(r) : stacksTable[row] > 1 THEN "twice"
    ELSE IF RowsOf(r) # {} /\ \A row \in RowsOf(r) : stacksTable[row] = 1
         THEN "stored"
    ELSE IF \E row \in RowsOf(r) : stacksTable[row] = 1 THEN "torn"
    ELSE IF InQueue(r) \/ AtWorker(r)
            \/ AtWriter(r, (RowsOf(r) \cap pendingStacks) \ failedStacks)
         THEN "taken"
    ELSE IF pub[r] = "accepted" THEN "lost" ELSE "out"

MetricsFate(r) ==
    IF metricsTable[r] > 1 THEN "twice"
    ELSE IF metricsTable[r] = 1 THEN "stored"
    ELSE IF InQueue(r) \/ AtWorker(r) \/ AtWriter(r, {r} \cap pendingMetrics)
         THEN "taken"
    ELSE IF pub[r] = "accepted" THEN "lost" ELSE "out"

Delivery == INSTANCE ProfileDelivery
    WITH Profiles <- Requests,
         answer <- reply,
         fate <- [r \in Requests |->
                    IF HasMetrics[r]
                    THEN [part \in {"stacks", "metrics"} |->
                            IF part = "stacks" THEN StacksFate(r)
                                               ELSE MetricsFate(r)]
                    ELSE [part \in {"stacks"} |-> StacksFate(r)]]

-----------------------------------------------------------------------------
TypeOK ==
    /\ Q!TypeOK
    /\ W!TypeOK
    /\ reply \in [Requests -> Delivery!Answers]

(* The whole path does what ProfileDelivery promises: a 500 or a 400 means *)
(* nothing of the profile is ever stored, a 200 that it was taken; each    *)
(* part is stored at most once and whole.                                  *)
ImplementsDelivery == Delivery!Safety

(* No part is held for ever on the way, also when the database is slow and *)
(* every queue is full: the waits for one another end.                     *)
PartsSettle == Delivery!EveryPartSettles

(* What is lost has a reason: a profile that was accepted, read and has    *)
(* stacks, in a process that never died, is on its way or its rows were    *)
(* inserted or in an INSERT that failed.  No hand-over drops it.           *)
NoSilentLoss ==
    \A r \in Requests :
        restarts = 0 /\ handled[r] = 1 /\ NStacks[r] > 0 =>
            \/ AtWorker(r)
            \/ r \in W!Waiting
            \/ /\ \A row \in RowsOf(r) :
                    row \in pendingStacks \/ W!StackRowTried(row)
               /\ \A m \in W!MetricRowsOf(r) :
                    m \in pendingMetrics \/ W!MetricRowTried(m)

(* Nothing limits the slice of metric rows but the batch of stacks: it     *)
(* stays below WriteBatchSize only because workers emit no block without   *)
(* stacks.                                                                 *)
MetricsBelowLimit ==
    dbpc = "select" => Cardinality(pendingMetrics) < WriteBatchSize
=============================================================================
