---------------------------- MODULE IngestProofs ----------------------------
(***************************************************************************)
(* Proofs about Ingest, for any uploads, any number of workers, any        *)
(* capacities and any number of crashes.  What the queue and the writer    *)
(* keep is taken from their own proofs: every step of the whole is a step  *)
(* of each part or leaves it alone, except that a crash empties the        *)
(* writer.  What has to be added is what the two say about each other: a   *)
(* block in the channel is the work of one handler, and a handler the only *)
(* way into it.                                                            *)
(*                                                                         *)
(* The second half is about ProfileBlock, what the handler makes of one    *)
(* file, for any lines in any number: BlockInv follows the file line by    *)
(* line, AggregateWalk the folds of the aggregator step by step.           *)
(***************************************************************************)
EXTENDS Ingest, ProfileBlock, QueryTheorems, SequenceTheorems

QP == INSTANCE PayloadQueueProofs
        WITH Names <- Requests, FileOf <- [r \in Requests |-> r],
             Shutdown <- {}

WP == INSTANCE ProfileWriterProofs
        WITH Blocks <- Requests, Cancellable <- FALSE, pc <- dbpc

(* main.go cancels no context and closes no channel. *)
NeverStopped ==
    /\ ~ctxDone /\ ~closed /\ ~inClosed
    /\ after = "loop" /\ dbpc # "returned"

(* The channel only takes blocks of stacks, each from the one worker whose *)
(* handler has been called for it and has returned since.                  *)
SentByHandlers ==
    /\ \A w \in Workers : wpc[w] = "handle" => handled[wtask[w]] = 1
    /\ \A r \in sent : handled[r] = 1 /\ NStacks[r] > 0 /\ ~AtWorker(r)

(* In a process that never died no task with stacks was dropped between    *)
(* its handler's call and the channel, and no block after it.              *)
NothingDropped ==
    restarts = 0 =>
        /\ W!ReceivedRowsAccounted
        /\ \A r \in Requests :
              handled[r] = 1 /\ NStacks[r] > 0 => AtWorker(r) \/ r \in sent

(* Flushes and inserts work on whole slices: the rows of a block share     *)
(* their fate, and a metric row never waits without stack rows beside it.  *)
BlocksWhole ==
    /\ \A r \in Requests : \A row, other \in RowsOf(r) :
          /\ row \in pendingStacks => other \in pendingStacks
          /\ row \in failedStacks => other \in failedStacks
          /\ stacksTable[row] = stacksTable[other]
    /\ \A m \in pendingMetrics : NStacks[m] > 0 /\ RowsOf(m) \subseteq pendingStacks

(* A request gets its answer once Publish is through with it, or never. *)
AnswersInOrder ==
    /\ reply \in [Requests -> Delivery!Answers]
    /\ \A r \in Requests :
          /\ Kind[r] = "invalid" => pub[r] = "new"
          /\ pub[r] \in Q!InFlight => reply[r] = "none"
          /\ pub[r] = "new" /\ Kind[r] # "invalid" => reply[r] = "none"

IInv == QP!IInv /\ WP!RowsInv /\ NeverStopped /\ SentByHandlers
        /\ NothingDropped /\ BlocksWhole /\ AnswersInOrder

-----------------------------------------------------------------------------
(* An instance has its own copy of FiniteSets. *)
LEMMA CountsAgree ==
    \A S : /\ WP!IsFiniteSet(S) <=> IsFiniteSet(S)
           /\ WP!Cardinality(S) = Cardinality(S)
           /\ W!Cardinality(S) = Cardinality(S)
  <1> TAKE S
  <1>1. WP!IsFiniteSet(S) <=> IsFiniteSet(S)
    BY DEF WP!IsFiniteSet, IsFiniteSet
  <1>2. WP!Cardinality(S) = Cardinality(S)
    BY Zenon DEF WP!Cardinality, Cardinality
  <1>3. W!Cardinality(S) = Cardinality(S)
    BY Zenon DEF W!Cardinality, Cardinality
  <1> QED BY <1>1, <1>2, <1>3

(* What the two parts' invariants say, in this module's words. *)
LEMMA QueueFacts ==
    ASSUME QP!IInv
    PROVE  /\ Q!TypeOK
           /\ \A r \in Q!Queued : r \in Requests /\ pub[r] = "accepted" /\ handled[r] = 0
           /\ \A w \in Workers : Q!Busy(w) =>
                 /\ wtask[w] \in Requests /\ pub[wtask[w]] = "accepted"
                 /\ wtask[w] \notin Q!Queued
                 /\ wpc[w] = "read" => handled[wtask[w]] = 0
                 /\ \A v \in Workers : v # w => wtask[v] # wtask[w]
           /\ \A r \in Requests :
                 handled[r] \in {0, 1} /\ (pub[r] # "accepted" => handled[r] = 0)
  <1>1. /\ QP!TypeOK /\ QP!WaitingTasks /\ QP!WorkersTasks /\ QP!HandledTasks
    BY DEF QP!IInv
  <1>2. Q!TypeOK
    BY <1>1 DEF Q!TypeOK, QP!TypeOK, Q!File, QP!File, Q!PubStates, QP!PubStates,
                Q!InFlight, QP!InFlight, Q!WorkerStates, QP!WorkerStates,
                Q!Busy, QP!Busy
  <1>3. ASSUME NEW r \in Q!Queued
        PROVE  r \in Requests /\ pub[r] = "accepted" /\ handled[r] = 0
    BY <1>1, <1>2 DEF QP!WaitingTasks, QP!Queued, Q!Queued, Q!TypeOK
  <1>4. ASSUME NEW w \in Workers, Q!Busy(w)
        PROVE  /\ wtask[w] \in Requests /\ pub[wtask[w]] = "accepted"
               /\ wtask[w] \notin Q!Queued
               /\ wpc[w] = "read" => handled[wtask[w]] = 0
               /\ \A v \in Workers : v # w => wtask[v] # wtask[w]
    <2>1. QP!Busy(w) /\ wtask[w] \in QP!Held
      BY <1>4 DEF Q!Busy, QP!Busy, QP!Held
    <2>2. wtask[w] \notin Q!Queued
      BY <1>1, <2>1 DEF QP!WaitingTasks, QP!Queued, Q!Queued
    <2> QED BY <1>1, <1>2, <1>4, <2>1, <2>2 DEF QP!WorkersTasks, Q!TypeOK
  <1>5. ASSUME NEW r \in Requests
        PROVE  handled[r] \in {0, 1} /\ (pub[r] # "accepted" => handled[r] = 0)
    BY <1>1, <1>2 DEF QP!HandledTasks, Q!TypeOK
  <1> QED BY <1>2, <1>3, <1>4, <1>5

LEMMA WriterFacts ==
    ASSUME WP!RowsInv
    PROVE  /\ W!TypeOK
           /\ \A r \in Requests : r \notin W!Received =>
                 /\ \A row \in RowsOf(r) :
                       /\ row \notin pendingStacks \cup failedStacks
                       /\ stacksTable[row] = 0
                 /\ r \notin pendingMetrics \cup failedMetrics
                 /\ metricsTable[r] = 0
           /\ W!Waiting \subseteq sent
           /\ IsFiniteSet(pendingStacks)
           /\ \A row \in pendingStacks :
                 IF dbpc \in {"metrics", "storingMetrics"} THEN W!StackRowTried(row)
                 ELSE row \notin failedStacks /\ stacksTable[row] = 0
           /\ \A m \in pendingMetrics : metricsTable[m] = 0
           /\ W!BatchBelowLimit /\ W!InsertedAtMostOnce
  <1>1. /\ WP!TypeOK /\ WP!BlocksInOrder /\ WP!PendingRows
        /\ WP!BatchBelowLimit /\ WP!InsertedAtMostOnce
    BY DEF WP!RowsInv
  <1>2. W!TypeOK
    BY <1>1 DEF WP!TypeOK, W!TypeOK, W!StackRows, WP!StackRows, W!StackRowsOf,
                WP!StackRowsOf
  <1>3. /\ W!BatchBelowLimit /\ W!InsertedAtMostOnce
    BY <1>1, CountsAgree DEF W!BatchBelowLimit, WP!BatchBelowLimit, W!InsertedAtMostOnce,
                WP!InsertedAtMostOnce, W!StackRows, WP!StackRows,
                W!StackRowsOf, WP!StackRowsOf
  <1>4. W!Waiting \subseteq sent /\ W!Received = WP!Received
    BY <1>1 DEF WP!BlocksInOrder, WP!Waiting, W!Waiting, W!Received, WP!Received
  <1>5. ASSUME NEW r \in Requests, r \notin W!Received
        PROVE  /\ \A row \in RowsOf(r) :
                     /\ row \notin pendingStacks \cup failedStacks
                     /\ stacksTable[row] = 0
               /\ r \notin pendingMetrics \cup failedMetrics
               /\ metricsTable[r] = 0
    BY <1>1, <1>4, <1>5 DEF WP!BlocksInOrder, WP!Untouched, RowsOf,
                            W!StackRowsOf, WP!StackRowsOf
  <1>6. /\ IsFiniteSet(pendingStacks)
        /\ \A row \in pendingStacks :
              IF dbpc \in {"metrics", "storingMetrics"} THEN W!StackRowTried(row)
              ELSE row \notin failedStacks /\ stacksTable[row] = 0
        /\ \A m \in pendingMetrics : metricsTable[m] = 0
    BY <1>1, CountsAgree DEF WP!PendingRows, WP!StackRowTried, W!StackRowTried
  <1> QED BY <1>2, <1>3, <1>4, <1>5, <1>6

(* A stack row belongs to one block. *)
LEMMA RowsApart ==
    \A r, q \in Requests : \A row \in RowsOf(r) :
        row \in W!StackRows /\ (row \in RowsOf(q) => r = q)
  BY DEF RowsOf, W!StackRowsOf, W!StackRows

-----------------------------------------------------------------------------
(* The queue's own proof, instantiated. *)
LEMMA QueueKept ==
    /\ QP!Init => QP!IInv
    /\ QP!IInv /\ [QP!Next]_QP!vars => QP!IInv'
  <1>1. /\ Depth \in Nat \ {0}
        /\ [r \in Requests |-> r] \in [Requests -> Requests]
        /\ MaxRestarts \in Nat /\ {} \subseteq {"cancel", "close"}
        /\ NoTask \notin Requests /\ NoFile \notin QP!File
    BY CapacityAssumption, NothingAssumption DEF QP!File
  <1> QED BY <1>1, QP!InitIInv, QP!NextIInv

LEMMA WriterKept ==
    /\ WP!Init => WP!IInv
    /\ WP!RowsInv /\ [WP!Next]_WP!vars =>
          WP!RowsInv' /\ (WP!ReceivedRowsAccounted => WP!ReceivedRowsAccounted')
  <1>1. /\ NStacks \in [Requests -> Nat]
        /\ HasMetrics \in [Requests -> BOOLEAN]
        /\ InCap \in Nat \ {0} /\ WriteBatchSize \in Nat \ {0}
        /\ FALSE \in BOOLEAN
    BY KindAssumption, CapacityAssumption
  <1> QED BY <1>1, WP!InitIInv, WP!NextKeeps

(* Each step of the whole is a step of the queue or leaves it alone. *)
LEMMA QueueSteps ==
    ASSUME [Next]_vars
    PROVE  [QP!Next]_QP!vars
  <1>1. ASSUME NEW r \in Requests, Q!Publish(r)
        PROVE  QP!Publish(r)
    <2>1. CASE Q!OpenCreates(r) \/ Q!OpenFails(r)
      BY <2>1 DEF Q!OpenCreates, Q!OpenFails, QP!Publish, QP!OpenCreates,
                  QP!OpenFails, Q!workVars, QP!workVars, Q!procVars, QP!procVars,
                  Q!Empty, QP!Empty
    <2>2. CASE Q!WriteSucceeds(r) \/ Q!WriteFails(r)
      BY <2>2 DEF Q!WriteSucceeds, Q!WriteFails, QP!Publish, QP!WriteSucceeds,
                  QP!WriteFails, Q!workVars, QP!workVars, Q!procVars, QP!procVars,
                  Q!Empty, QP!Empty, Q!Whole, QP!Whole
    <2>3. CASE Q!Enqueue(r) \/ Q!SendTimesOut(r) \/ Q!Undo(r)
      BY <2>3 DEF Q!Enqueue, Q!SendTimesOut, Q!Undo, QP!Publish, QP!Enqueue,
                  QP!SendTimesOut, QP!Undo, Q!workVars, QP!workVars, Q!procVars,
                  QP!procVars, Q!Removed, QP!Removed
    <2> QED BY <1>1, <2>1, <2>2, <2>3 DEF Q!Publish
  <1>2. ASSUME NEW w \in Workers,
               \/ Q!Receive(w) \/ Q!ReadSucceeds(w) \/ Q!ReadFails(w)
               \/ Q!HandlerReturns(w) \/ Q!RemovePayload(w)
        PROVE  QP!Consume(w)
    BY <1>2 DEF Q!Receive, Q!ReadSucceeds, Q!ReadFails, Q!HandlerReturns,
                Q!RemovePayload, QP!Consume, QP!Receive, QP!ReadSucceeds,
                QP!ReadFails, QP!HandlerReturns, QP!RemovePayload, Q!procVars,
                QP!procVars, Q!Removed, QP!Removed
  <1>3. Q!Crash => QP!Crash
    BY DEF Q!Crash, QP!Crash, Q!InFlight, QP!InFlight
  <1>4. Q!Restart => QP!Restart
    BY DEF Q!Restart, QP!Restart, Q!workVars, QP!workVars
  <1>5. CASE \/ \E r \in Requests : Reject(r) \/ Answer(r)
             \/ Write \/ Tick \/ UNCHANGED vars
    BY <1>5 DEF Reject, Answer, Write, Tick, vars, queueVars, QP!vars, W!Writer,
                W!OnDone, W!OnTick, W!OnClosed, W!OnBlock, W!Inserts,
                W!ExecStacks, W!StacksReturn, W!ExecMetrics, W!MetricsReturn,
                W!Tick, W!env
  <1>6. CASE \E r \in Requests : Publish(r)
    BY <1>1, <1>6 DEF Publish, QP!Next
  <1>7. CASE \E w \in Workers : Consume(w) \/ HandlerDrops(w) \/ HandlerEmits(w)
    BY <1>2, <1>7 DEF Consume, HandlerDrops, HandlerEmits, QP!Next
  <1>8. CASE Crash \/ Restart
    BY <1>3, <1>4, <1>8 DEF Crash, Restart, QP!Next
  <1> QED BY <1>5, <1>6, <1>7, <1>8 DEF Next

(* So it is with the writer, but for a crash: the block a worker sends was *)
(* never sent before, as its handler has only now returned.                *)
LEMMA WriterSteps ==
    ASSUME IInv, [Next]_vars, ~Crash
    PROVE  [WP!Next]_WP!vars
  <1>1. ~ctxDone /\ ~inClosed /\ SentByHandlers /\ QP!IInv
    BY DEF IInv, NeverStopped
  <1>2. ASSUME NEW r \in Requests, Reject(r) \/ Publish(r) \/ Answer(r)
        PROVE  UNCHANGED WP!vars
    BY <1>2 DEF Reject, Publish, Answer, writerVars, WP!vars, Q!Publish,
                Q!OpenCreates, Q!OpenFails, Q!WriteSucceeds, Q!WriteFails,
                Q!Enqueue, Q!SendTimesOut, Q!Undo, Q!procVars
  <1>3. ASSUME NEW w \in Workers, Consume(w) \/ HandlerDrops(w)
        PROVE  UNCHANGED WP!vars
    BY <1>3 DEF Consume, HandlerDrops, writerVars, WP!vars, Q!Receive,
                Q!ReadSucceeds, Q!ReadFails, Q!HandlerReturns, Q!RemovePayload,
                Q!procVars
  <1>4. ASSUME NEW w \in Workers, HandlerEmits(w)
        PROVE  \E b \in Requests \ sent : WP!Send(b)
    <2>1. wpc[w] = "handle" /\ W!Send(wtask[w])
      BY <1>4 DEF HandlerEmits, Q!HandlerReturns
    <2>2. wtask[w] \in Requests /\ AtWorker(wtask[w])
      BY <1>1, <2>1, QueueFacts DEF Q!Busy, AtWorker
    <2>3. wtask[w] \notin sent
      BY <1>1, <2>2 DEF SentByHandlers
    <2>4. WP!Send(wtask[w])
      BY <2>1 DEF W!Send, WP!Send, W!tables, WP!tables
    <2> QED BY <2>2, <2>3, <2>4
  <1>5. Write => WP!Writer
    <2> SUFFICES ASSUME W!Writer PROVE WP!Writer
      BY DEF Write
    <2>1. CASE W!OnDone \/ W!OnTick \/ W!OnClosed
      BY <2>1 DEF W!OnDone, W!OnTick, W!OnClosed, WP!Writer, WP!OnDone, WP!OnTick,
                  WP!OnClosed, W!env, WP!env, W!tables, WP!tables, W!Flush,
                  WP!Flush, W!Resume, WP!Resume
    <2>2. CASE W!OnBlock
      <3>1. W!Cardinality(pendingStacks') = WP!Cardinality(pendingStacks')
        BY CountsAgree
      <3> QED BY <2>2, <3>1 DEF W!OnBlock, WP!Writer, WP!OnBlock, W!env, WP!env,
                  W!tables, WP!tables, W!Flush, WP!Flush, W!Resume, WP!Resume,
                  W!StackRowsOf, WP!StackRowsOf, W!MetricRowsOf, WP!MetricRowsOf
    <2>3. CASE W!Inserts
      BY <2>3 DEF W!Inserts, W!ExecStacks, W!StacksReturn, W!ExecMetrics,
                  W!MetricsReturn, WP!Writer, WP!Inserts, WP!ExecStacks,
                  WP!StacksReturn, WP!ExecMetrics, WP!MetricsReturn, W!env,
                  WP!env, W!Inserted, WP!Inserted, W!FlushEnds, WP!FlushEnds,
                  W!Resume, WP!Resume
    <2> QED BY <2>1, <2>2, <2>3 DEF W!Writer
  <1>6. Tick => WP!Tick
    BY DEF Tick, W!Tick, WP!Tick, W!env, WP!env, W!tables, WP!tables
  <1>7. Restart => UNCHANGED WP!vars
    BY <1>1 DEF Restart, Q!Restart, writerVars, WP!vars, IInv, QP!IInv, QP!TypeOK
  <1>8. UNCHANGED vars => UNCHANGED WP!vars
    BY DEF vars, WP!vars
  <1> QED BY <1>2, <1>3, <1>4, <1>5, <1>6, <1>7, <1>8 DEF Next, WP!Next

(* A crash empties the writer and leaves the tables: what had been sent is *)
(* as good as received.                                                    *)
LEMMA CrashKeepsRows ==
    ASSUME IInv, Crash
    PROVE  WP!RowsInv'
  <1>1. /\ WP!TypeOK /\ WP!BlocksInOrder /\ WP!InsertedAtMostOnce
        /\ NeverStopped
    BY DEF IInv, WP!RowsInv
  <1>2. /\ in' = <<>> /\ tick' = FALSE /\ pendingStacks' = {}
        /\ pendingMetrics' = {} /\ dbpc' = "select" /\ after' = "loop"
        /\ UNCHANGED <<sent, inClosed, ctxDone, stacksTable, metricsTable,
                       failedStacks, failedMetrics>>
    BY DEF Crash, Q!Crash
  <1>3. WP!TypeOK'
    <2>1. in' \in Seq(Requests) /\ Len(in') <= InCap
      BY <1>2, CapacityAssumption
    <2> QED BY <1>1, <1>2, <2>1 DEF WP!TypeOK, WP!StackRows, WP!StackRowsOf
  <1>4. WP!Waiting' = {} /\ WP!Received' = sent
    BY <1>2 DEF WP!Waiting, WP!Received
  <1>5. WP!BlocksInOrder'
    <2>1. ASSUME NEW r \in Requests, r \notin sent
          PROVE  WP!Untouched(r)'
      <3>1. WP!Untouched(r)
        BY <1>1, <2>1 DEF WP!BlocksInOrder, WP!Received
      <3> QED BY <1>2, <3>1 DEF WP!Untouched, WP!StackRowsOf
    <2> QED BY <1>2, <1>4, <2>1 DEF WP!BlocksInOrder
  <1>6. WP!PendingRows' /\ WP!LastFlush' /\ WP!BatchBelowLimit'
    <2>1. WP!IsFiniteSet({}) /\ WP!Cardinality({}) = 0
      BY CountsAgree, FS_EmptySet
    <2> QED BY <1>2, <2>1, CapacityAssumption
            DEF WP!PendingRows, WP!LastFlush, WP!BatchBelowLimit
  <1>7. WP!InsertedAtMostOnce'
    BY <1>1, <1>2 DEF WP!InsertedAtMostOnce, WP!StackRows, WP!StackRowsOf
  <1> QED BY <1>3, <1>5, <1>6, <1>7 DEF WP!RowsInv

-----------------------------------------------------------------------------
(* What a worker's step does to the tasks that are at a worker. *)
LEMMA TasksMove ==
    ASSUME IInv, NEW w \in Workers
    PROVE  /\ Q!Receive(w) =>
                 /\ Head(ch) \in Q!Queued
                 /\ \A r : AtWorker(r)' <=> (AtWorker(r) \/ r = Head(ch))
           /\ Q!ReadSucceeds(w) => \A r : AtWorker(r)' <=> AtWorker(r)
           /\ Q!ReadFails(w) \/ Q!HandlerReturns(w) =>
                 /\ AtWorker(wtask[w])
                 /\ \A r : AtWorker(r)' <=> (AtWorker(r) /\ r # wtask[w])
           /\ Q!RemovePayload(w) => \A r : AtWorker(r)' <=> AtWorker(r)
  <1> USE DEF AtWorker
  <1>1. Q!TypeOK
    BY QueueFacts DEF IInv
  <1>2. wpc \in [Workers -> Q!WorkerStates] /\ DOMAIN wtask = Workers
    BY <1>1 DEF Q!TypeOK
  <1>3. ASSUME Q!Receive(w)
        PROVE  /\ Head(ch) \in Q!Queued
               /\ \A r : AtWorker(r)' <=> (AtWorker(r) \/ r = Head(ch))
    <2>1. /\ ch # <<>> /\ wpc[w] = "select"
          /\ wtask' = [wtask EXCEPT ![w] = Head(ch)]
          /\ wpc' = [wpc EXCEPT ![w] = "read"]
      BY <1>3 DEF Q!Receive
    <2>2. ch \in Seq(Requests)
      BY <1>1 DEF Q!TypeOK
    <2>3. 1 \in DOMAIN ch /\ Head(ch) = ch[1]
      BY <2>1, <2>2
    <2> QED BY <1>2, <2>1, <2>3 DEF Q!Queued
  <1>4. ASSUME Q!ReadSucceeds(w)
        PROVE  \A r : AtWorker(r)' <=> AtWorker(r)
    BY <1>2, <1>4 DEF Q!ReadSucceeds
  <1>5. ASSUME Q!ReadFails(w) \/ Q!HandlerReturns(w)
        PROVE  /\ AtWorker(wtask[w])
               /\ \A r : AtWorker(r)' <=> (AtWorker(r) /\ r # wtask[w])
    <2>1. /\ wpc[w] \in {"read", "handle"} /\ UNCHANGED wtask
          /\ wpc' = [wpc EXCEPT ![w] = "remove"]
      BY <1>5 DEF Q!ReadFails, Q!HandlerReturns
    <2>2. Q!Busy(w)
      BY <2>1 DEF Q!Busy
    <2>3. \A v \in Workers : v # w => wtask[v] # wtask[w]
      BY <2>2, QueueFacts DEF IInv
    <2> QED BY <1>2, <2>1, <2>3
  <1>6. ASSUME Q!RemovePayload(w)
        PROVE  \A r : AtWorker(r)' <=> AtWorker(r)
    BY <1>2, <1>6 DEF Q!RemovePayload
  <1> QED BY <1>3, <1>4, <1>5, <1>6

(* Everything but the workers and crashes leaves the tasks where they are. *)
LEMMA TasksStay ==
    ASSUME \/ \E r \in Requests : Reject(r) \/ Publish(r) \/ Answer(r)
           \/ Write \/ Tick \/ Restart \/ UNCHANGED vars
    PROVE  UNCHANGED <<wpc, wtask, handled, sent, restarts>>
  BY DEF Reject, Publish, Answer, Write, Tick, Restart, vars, queueVars,
         writerVars, Q!Publish, Q!OpenCreates, Q!OpenFails, Q!WriteSucceeds,
         Q!WriteFails, Q!Enqueue, Q!SendTimesOut, Q!Undo, Q!Restart, Q!workVars,
         Q!procVars, W!Writer, W!OnDone, W!OnTick, W!OnClosed, W!OnBlock,
         W!Inserts, W!ExecStacks, W!StacksReturn, W!ExecMetrics, W!MetricsReturn,
         W!Tick, W!env

-----------------------------------------------------------------------------
LEMMA KeepsNeverStopped ==
    ASSUME IInv, [Next]_vars
    PROVE  NeverStopped'
  <1>1. NeverStopped
    BY DEF IInv
  <1>2. ASSUME NEW r \in Requests, Reject(r) \/ Publish(r) \/ Answer(r)
        PROVE  NeverStopped'
    BY <1>1, <1>2 DEF NeverStopped, Reject, Publish, Answer, queueVars, writerVars,
                Q!Publish, Q!OpenCreates, Q!OpenFails, Q!WriteSucceeds,
                Q!WriteFails, Q!Enqueue, Q!SendTimesOut, Q!Undo, Q!procVars
  <1>3. ASSUME NEW w \in Workers, Consume(w) \/ HandlerDrops(w) \/ HandlerEmits(w)
        PROVE  NeverStopped'
    BY <1>1, <1>3 DEF NeverStopped, Consume, HandlerDrops, HandlerEmits,
                writerVars, Q!Receive, Q!ReadSucceeds, Q!ReadFails,
                Q!HandlerReturns, Q!RemovePayload, Q!procVars, W!Send
  <1>4. CASE Write
    BY <1>1, <1>4 DEF NeverStopped, Write, queueVars, W!Writer, W!OnDone, W!OnTick,
                W!OnClosed, W!OnBlock, W!Inserts, W!ExecStacks, W!StacksReturn,
                W!ExecMetrics, W!MetricsReturn, W!FlushEnds, W!env, W!Flush,
                W!Resume
  <1>5. CASE Tick \/ Crash \/ Restart \/ UNCHANGED vars
    BY <1>1, <1>5 DEF NeverStopped, Tick, Crash, Restart, vars, queueVars,
                writerVars, W!Tick, W!env, Q!Crash, Q!Restart
  <1> QED BY <1>2, <1>3, <1>4, <1>5 DEF Next

LEMMA KeepsSentByHandlers ==
    ASSUME IInv, [Next]_vars
    PROVE  SentByHandlers'
  <1>1. Q!TypeOK /\ SentByHandlers /\ QP!IInv
    BY QueueFacts DEF IInv
  <1>2. CASE \/ \E r \in Requests : Reject(r) \/ Publish(r) \/ Answer(r)
             \/ Write \/ Tick \/ Restart \/ UNCHANGED vars
    BY <1>1, <1>2, TasksStay DEF SentByHandlers, AtWorker
  <1>3. ASSUME NEW w \in Workers, Consume(w)
        PROVE  SentByHandlers'
    <2>1. sent' = sent /\ sent \subseteq Requests
      BY <1>3, WriterFacts DEF Consume, writerVars, IInv, W!TypeOK
    <2>2. CASE Q!Receive(w)
      <3>1. /\ wpc' = [wpc EXCEPT ![w] = "read"]
            /\ wtask' = [wtask EXCEPT ![w] = Head(ch)]
            /\ handled' = handled
        BY <2>2 DEF Q!Receive
      <3>2. handled[Head(ch)] = 0 /\ \A r : AtWorker(r)' <=> (AtWorker(r) \/ r = Head(ch))
        BY <1>1, <2>2, TasksMove, QueueFacts
      <3> QED BY <1>1, <2>1, <3>1, <3>2 DEF SentByHandlers, Q!TypeOK
    <2>3. CASE Q!ReadSucceeds(w)
      <3>1. /\ wpc[w] = "read" /\ wpc' = [wpc EXCEPT ![w] = "handle"]
            /\ handled' = [handled EXCEPT ![wtask[w]] = @ + 1]
            /\ wtask' = wtask
        BY <2>3 DEF Q!ReadSucceeds
      <3>2. /\ handled[wtask[w]] = 0 /\ wtask[w] \in Requests
            /\ \A v \in Workers : v # w => wtask[v] # wtask[w]
        BY <1>1, <3>1, QueueFacts DEF Q!Busy
      <3>3. \A r : AtWorker(r)' <=> AtWorker(r)
        BY <2>3, TasksMove
      <3>4. \A v \in Workers : wpc'[v] = "handle" => handled'[wtask'[v]] = 1
        <4> SUFFICES ASSUME NEW v \in Workers, wpc'[v] = "handle"
                     PROVE  handled'[wtask[v]] = 1
          BY <3>1
        <4>1. CASE v = w
          BY <1>1, <3>1, <3>2, <4>1 DEF Q!TypeOK
        <4>2. CASE v # w
          BY <1>1, <3>1, <3>2, <4>2 DEF Q!TypeOK, SentByHandlers
        <4> QED BY <4>1, <4>2
      <3>5. \A r \in sent : handled'[r] = 1
        BY <1>1, <2>1, <3>1, <3>2 DEF Q!TypeOK, SentByHandlers
      <3> QED BY <1>1, <2>1, <3>3, <3>4, <3>5 DEF SentByHandlers
    <2>4. CASE Q!ReadFails(w) \/ Q!RemovePayload(w)
      <3>1. /\ \E s \in {"remove", "select"} : wpc' = [wpc EXCEPT ![w] = s]
            /\ \A v \in Workers : v # w => wtask'[v] = wtask[v]
            /\ handled' = handled
        BY <1>1, <2>4 DEF Q!ReadFails, Q!RemovePayload, Q!TypeOK
      <3>2. \A r : AtWorker(r)' => AtWorker(r)
        BY <2>4, TasksMove
      <3> QED BY <1>1, <2>1, <3>1, <3>2 DEF SentByHandlers, Q!TypeOK
    <2> QED BY <1>3, <2>2, <2>3, <2>4 DEF Consume
  <1>4. ASSUME NEW w \in Workers, HandlerDrops(w) \/ HandlerEmits(w)
        PROVE  SentByHandlers'
    <2>1. /\ Q!HandlerReturns(w) /\ wpc[w] = "handle"
          /\ wpc' = [wpc EXCEPT ![w] = "remove"]
          /\ UNCHANGED <<wtask, handled>>
          /\ \/ sent' = sent
             \/ sent' = sent \cup {wtask[w]} /\ NStacks[wtask[w]] > 0
      BY <1>4 DEF HandlerDrops, HandlerEmits, writerVars, W!Send, Q!HandlerReturns
    <2>2. \A r : AtWorker(r)' <=> (AtWorker(r) /\ r # wtask[w])
      BY <2>1, TasksMove
    <2> QED BY <1>1, <2>1, <2>2 DEF SentByHandlers, Q!TypeOK
  <1>5. CASE Crash
    BY <1>1, <1>5 DEF Crash, Q!Crash, SentByHandlers, AtWorker
  <1> QED BY <1>2, <1>3, <1>4, <1>5 DEF Next

LEMMA KeepsNothingDropped ==
    ASSUME IInv, [Next]_vars
    PROVE  NothingDropped'
  <1>1. Q!TypeOK /\ NothingDropped /\ QP!IInv
    BY QueueFacts DEF IInv
  <1>2. CASE Crash
    BY <1>1, <1>2 DEF Crash, Q!Crash, NothingDropped, Q!TypeOK
  <1>3. CASE ~Crash
    <2> SUFFICES ASSUME restarts' = 0
                 PROVE  /\ W!ReceivedRowsAccounted'
                        /\ \A r \in Requests :
                              handled'[r] = 1 /\ NStacks[r] > 0 =>
                                  AtWorker(r)' \/ r \in sent'
      BY DEF NothingDropped
    <2>1. restarts = 0
      BY <1>3 DEF Next, Reject, Publish, Answer, Consume, HandlerDrops,
                  HandlerEmits, Write, Tick, Restart, vars, queueVars,
                  Q!Publish, Q!OpenCreates, Q!OpenFails, Q!WriteSucceeds,
                  Q!WriteFails, Q!Enqueue, Q!SendTimesOut, Q!Undo, Q!Receive,
                  Q!ReadSucceeds, Q!ReadFails, Q!HandlerReturns,
                  Q!RemovePayload, Q!Restart, Q!procVars
    <2>2. W!ReceivedRowsAccounted'
      <3>1. W!ReceivedRowsAccounted <=> WP!ReceivedRowsAccounted
        BY DEF W!ReceivedRowsAccounted, WP!ReceivedRowsAccounted, W!Received,
               WP!Received, W!Waiting, WP!Waiting, W!StackRowsOf, WP!StackRowsOf,
               W!MetricRowsOf, WP!MetricRowsOf, W!StackRowTried,
               WP!StackRowTried, W!MetricRowTried, WP!MetricRowTried
      <3>2. W!ReceivedRowsAccounted' <=> WP!ReceivedRowsAccounted'
        BY DEF W!ReceivedRowsAccounted, WP!ReceivedRowsAccounted, W!Received,
               WP!Received, W!Waiting, WP!Waiting, W!StackRowsOf, WP!StackRowsOf,
               W!MetricRowsOf, WP!MetricRowsOf, W!StackRowTried,
               WP!StackRowTried, W!MetricRowTried, WP!MetricRowTried
      <3> QED BY <1>1, <1>3, <2>1, <3>1, <3>2, WriterSteps, WriterKept
              DEF NothingDropped, IInv
    <2> SUFFICES ASSUME NEW r \in Requests, handled'[r] = 1, NStacks[r] > 0
                 PROVE  AtWorker(r)' \/ r \in sent'
      BY <2>2
    <2>3. handled[r] = 1 => AtWorker(r) \/ r \in sent
      BY <1>1, <2>1 DEF NothingDropped
    <2>4. CASE \/ \E q \in Requests : Reject(q) \/ Publish(q) \/ Answer(q)
               \/ Write \/ Tick \/ Restart \/ UNCHANGED vars
      BY <2>3, <2>4, TasksStay DEF AtWorker
    <2>5. ASSUME NEW w \in Workers, Consume(w)
          PROVE  AtWorker(r)' \/ r \in sent'
      <3>1. sent' = sent
        BY <2>5 DEF Consume, writerVars
      <3>2. CASE Q!Receive(w) \/ Q!RemovePayload(w)
        BY <2>3, <3>1, <3>2, TasksMove DEF Q!Receive, Q!RemovePayload
      <3>3. CASE Q!ReadSucceeds(w)
        <4>1. r = wtask[w] => AtWorker(r)
          BY <3>3 DEF Q!ReadSucceeds, AtWorker
        <4>2. r # wtask[w] => handled'[r] = handled[r]
          BY <1>1, <3>3 DEF Q!ReadSucceeds, Q!TypeOK
        <4> QED BY <2>3, <3>1, <3>3, <4>1, <4>2, TasksMove
      <3>4. CASE Q!ReadFails(w)
        <4>1. wpc[w] = "read" /\ handled' = handled
          BY <3>4 DEF Q!ReadFails
        <4>2. handled[wtask[w]] = 0
          BY <1>1, <4>1, QueueFacts DEF Q!Busy
        <4> QED BY <2>3, <3>1, <3>4, <4>1, <4>2, TasksMove
      <3> QED BY <2>5, <3>2, <3>3, <3>4 DEF Consume
    <2>6. ASSUME NEW w \in Workers, HandlerDrops(w) \/ HandlerEmits(w)
          PROVE  AtWorker(r)' \/ r \in sent'
      <3>1. /\ Q!HandlerReturns(w) /\ handled' = handled
            /\ \/ NStacks[wtask[w]] = 0 /\ sent' = sent
               \/ sent' = sent \cup {wtask[w]}
        BY <2>6 DEF HandlerDrops, HandlerEmits, writerVars, W!Send,
                    Q!HandlerReturns
      <3>2. AtWorker(r)' <=> (AtWorker(r) /\ r # wtask[w])
        BY <3>1, TasksMove
      <3> QED BY <2>3, <3>1, <3>2
    <2> QED BY <1>3, <2>4, <2>5, <2>6 DEF Next
  <1> QED BY <1>2, <1>3

LEMMA KeepsBlocksWhole ==
    ASSUME IInv, [Next]_vars
    PROVE  BlocksWhole'
  <1>1. W!TypeOK /\ BlocksWhole /\ SentByHandlers /\ WP!RowsInv
    BY WriterFacts DEF IInv
  <1>2. CASE UNCHANGED <<pendingStacks, pendingMetrics, stacksTable, failedStacks>>
    BY <1>1, <1>2 DEF BlocksWhole, RowsOf, W!StackRowsOf
  <1>3. CASE Crash
    BY <1>1, <1>3 DEF Crash, BlocksWhole, RowsOf, W!StackRowsOf
  <1>4. CASE W!OnBlock
    <2> DEFINE b == Head(in)
    <2>1. /\ in # <<>>
          /\ pendingStacks' = pendingStacks \cup RowsOf(b)
          /\ pendingMetrics' \subseteq pendingMetrics \cup {b}
          /\ UNCHANGED <<stacksTable, failedStacks>>
      BY <1>4 DEF W!OnBlock, RowsOf, W!MetricRowsOf, W!tables
    <2>2. b \in Requests /\ NStacks[b] > 0
      <3>1. b = in[1] /\ 1 \in DOMAIN in
        BY <1>1, <2>1 DEF W!TypeOK
      <3>2. b \in sent
        BY <1>1, <3>1, WriterFacts DEF W!Waiting
      <3> QED BY <1>1, <3>2 DEF SentByHandlers, W!TypeOK
    <2>3. \A r \in Requests : \A row, other \in RowsOf(r) :
             row \in RowsOf(b) => other \in RowsOf(b)
      BY <2>2, RowsApart
    <2>4. \A r \in Requests : \A row, other \in RowsOf(r) :
             /\ row \in pendingStacks' => other \in pendingStacks'
             /\ row \in failedStacks' => other \in failedStacks'
             /\ stacksTable'[row] = stacksTable'[other]
      BY <1>1, <2>1, <2>3 DEF BlocksWhole
    <2>5. \A m \in pendingMetrics' :
             NStacks[m] > 0 /\ RowsOf(m) \subseteq pendingStacks'
      BY <1>1, <2>1, <2>2 DEF BlocksWhole
    <2> QED BY <2>4, <2>5 DEF BlocksWhole, RowsOf, W!StackRowsOf
  <1>5. CASE W!ExecStacks
    <2>1. /\ UNCHANGED <<pendingStacks, pendingMetrics, stacksTable>>
          /\ \/ failedStacks' = failedStacks
             \/ failedStacks' = failedStacks \cup pendingStacks
      BY <1>5 DEF W!ExecStacks
    <2>2. \A r \in Requests : \A row, other \in RowsOf(r) :
             /\ row \in failedStacks' => other \in failedStacks'
             /\ stacksTable'[row] = stacksTable'[other]
      BY <1>1, <2>1 DEF BlocksWhole
    <2> QED BY <1>1, <2>1, <2>2 DEF BlocksWhole, RowsOf, W!StackRowsOf
  <1>6. CASE W!StacksReturn
    <2>1. /\ UNCHANGED <<pendingStacks, pendingMetrics>>
          /\ \/ failedStacks' = failedStacks
             \/ failedStacks' = failedStacks \cup pendingStacks
      BY <1>6 DEF W!StacksReturn
    <2>2. PICK stored :
             stacksTable' = W!Inserted(stacksTable,
                                 {row \in pendingStacks : row[1] \in stored})
      <3>1. CASE stacksTable' = W!Inserted(stacksTable, pendingStacks)
        <4>1. pendingStacks =
                {row \in pendingStacks : row[1] \in {q[1] : q \in pendingStacks}}
          OBVIOUS
        <4> QED BY <3>1, <4>1
      <3> QED BY <1>6, <3>1 DEF W!StacksReturn
    <2>3. \A r \in Requests : \A row \in RowsOf(r) :
             row \in DOMAIN stacksTable /\ row[1] = r
      BY <1>1, RowsApart DEF W!TypeOK, RowsOf, W!StackRowsOf
    <2>4. \A r \in Requests : \A row, other \in RowsOf(r) :
             /\ row \in failedStacks' => other \in failedStacks'
             /\ stacksTable'[row] = stacksTable'[other]
      <3> SUFFICES ASSUME NEW r \in Requests, NEW row \in RowsOf(r),
                          NEW other \in RowsOf(r)
                   PROVE  /\ row \in failedStacks' => other \in failedStacks'
                          /\ stacksTable'[row] = stacksTable'[other]
        OBVIOUS
      <3>1. /\ row \in pendingStacks <=> other \in pendingStacks
            /\ row \in failedStacks => other \in failedStacks
            /\ stacksTable[row] = stacksTable[other]
        BY <1>1 DEF BlocksWhole
      <3>2. row[1] = other[1] /\ row \in DOMAIN stacksTable
            /\ other \in DOMAIN stacksTable
        BY <2>3
      <3> QED BY <2>1, <2>2, <3>1, <3>2 DEF W!Inserted
    <2> QED BY <1>1, <2>1, <2>4 DEF BlocksWhole, RowsOf, W!StackRowsOf
  <1>7. CASE W!ExecMetrics \/ W!MetricsReturn
    BY <1>1, <1>7 DEF W!ExecMetrics, W!MetricsReturn, W!FlushEnds, BlocksWhole,
                      RowsOf, W!StackRowsOf
  <1>8. \/ UNCHANGED <<pendingStacks, pendingMetrics, stacksTable, failedStacks>>
        \/ Crash \/ W!OnBlock \/ W!ExecStacks \/ W!StacksReturn
        \/ W!ExecMetrics \/ W!MetricsReturn
    BY DEF Next, Reject, Publish, Answer, Consume, HandlerDrops, HandlerEmits,
           W!Send, Write, W!Writer, W!OnDone, W!OnTick, W!OnClosed, W!Inserts,
           W!tables, Tick, W!Tick, Restart, writerVars, vars
  <1> QED BY <1>2, <1>3, <1>4, <1>5, <1>6, <1>7, <1>8

LEMMA KeepsAnswersInOrder ==
    ASSUME IInv, [Next]_vars
    PROVE  AnswersInOrder'
  <1> USE DEF Delivery!Answers
  <1>1. Q!TypeOK /\ AnswersInOrder
    BY QueueFacts DEF IInv
  <1>2. CASE UNCHANGED <<pub, reply>>
    BY <1>1, <1>2 DEF AnswersInOrder, Q!InFlight
  <1>3. ASSUME NEW r \in Requests, Reject(r) \/ Answer(r)
        PROVE  AnswersInOrder'
    <2>1. /\ pub' = pub /\ pub[r] \notin Q!InFlight
          /\ \E code \in {"200", "400", "500"} : reply' = [reply EXCEPT ![r] = code]
          /\ pub[r] = "new" => Kind[r] = "invalid"
      BY <1>1, <1>3 DEF Reject, Answer, AnswersInOrder, queueVars, Q!InFlight
    <2> QED BY <1>1, <2>1 DEF AnswersInOrder, Q!InFlight
  <1>4. ASSUME NEW r \in Requests, Publish(r)
        PROVE  AnswersInOrder'
    <2>1. /\ reply' = reply /\ Kind[r] # "invalid"
          /\ pub[r] \in {"new"} \cup Q!InFlight
          /\ \E p \in Q!PubStates \ {"new"} : pub' = [pub EXCEPT ![r] = p]
      BY <1>4 DEF Publish, Q!Publish, Q!OpenCreates, Q!OpenFails,
                  Q!WriteSucceeds, Q!WriteFails, Q!Enqueue, Q!SendTimesOut,
                  Q!Undo, Q!PubStates, Q!InFlight
    <2> QED BY <1>1, <2>1 DEF AnswersInOrder, Q!TypeOK, Q!PubStates, Q!InFlight
  <1>5. CASE Crash
    <2>1. /\ pub' = [r \in Requests |-> IF pub[r] \in Q!InFlight THEN "gone"
                                                                ELSE pub[r]]
          /\ reply' = [r \in Requests |->
                IF reply[r] = "none" /\ pub[r] # "new" THEN "dropped" ELSE reply[r]]
      BY <1>5 DEF Crash, Q!Crash
    <2> QED BY <1>1, <2>1 DEF AnswersInOrder, Q!InFlight
  <1>6. \/ UNCHANGED <<pub, reply>> \/ Crash
        \/ \E r \in Requests : Reject(r) \/ Answer(r) \/ Publish(r)
    BY DEF Next, Consume, Q!Receive, Q!ReadSucceeds, Q!ReadFails,
           Q!HandlerReturns, Q!RemovePayload, HandlerDrops, HandlerEmits, Write,
           Tick, Restart, Q!Restart, queueVars, vars
  <1> QED BY <1>2, <1>3, <1>4, <1>5, <1>6

-----------------------------------------------------------------------------
LEMMA InitIInv == Init => IInv
  <1> SUFFICES ASSUME Init PROVE IInv
    OBVIOUS
  <1>1. QP!IInv
    <2>1. QP!Init
      BY DEF Init, Q!Init, QP!Init
    <2> QED BY <2>1, QueueKept
  <1>2. WP!RowsInv /\ W!ReceivedRowsAccounted
    <2>1. WP!Init
      BY DEF Init, W!Init, WP!Init, W!StackRows, WP!StackRows, W!StackRowsOf,
             WP!StackRowsOf
    <2>2. W!Received = {}
      BY DEF Init, W!Init, W!Received
    <2> QED BY <2>1, <2>2, WriterKept DEF WP!IInv, W!ReceivedRowsAccounted
  <1>3. NeverStopped /\ SentByHandlers /\ NothingDropped
    BY <1>2 DEF Init, Q!Init, W!Init, NeverStopped, SentByHandlers, NothingDropped
  <1>4. BlocksWhole
    BY RowsApart DEF Init, W!Init, BlocksWhole
  <1>5. AnswersInOrder
    BY DEF Init, Q!Init, AnswersInOrder, Q!InFlight, Delivery!Answers
  <1> QED BY <1>1, <1>2, <1>3, <1>4, <1>5 DEF IInv

LEMMA NextIInv == IInv /\ [Next]_vars => IInv'
  <1> SUFFICES ASSUME IInv, [Next]_vars PROVE IInv'
    OBVIOUS
  <1>1. QP!IInv'
    BY QueueSteps, QueueKept DEF IInv
  <1>2. WP!RowsInv'
    BY WriterSteps, WriterKept, CrashKeepsRows DEF IInv
  <1> QED BY <1>1, <1>2, KeepsNeverStopped, KeepsSentByHandlers,
             KeepsNothingDropped, KeepsBlocksWhole, KeepsAnswersInOrder
          DEF IInv

LEMMA SpecIInv == Spec => []IInv
  <1>1. Init => IInv
    BY InitIInv
  <1>2. IInv /\ [Next]_vars => IInv'
    BY NextIInv
  <1> QED BY <1>1, <1>2, PTL DEF Spec

-----------------------------------------------------------------------------
(* Types of the whole path; each channel keeps to its capacity although a  *)
(* worker's step now moves two of them.                                    *)
THEOREM PathIsTyped == Spec => []TypeOK
  <1>1. IInv => TypeOK
    BY QueueFacts, WriterFacts DEF IInv, TypeOK, AnswersInOrder
  <1> QED BY <1>1, SpecIInv, PTL

(* Consume, ProcessStackFrameFileCtx, WriteProfileBlock and                *)
(* RunProfileWriter hand a profile on without dropping it: in a process    *)
(* that never died, whatever was handled and has stacks is with a worker,  *)
(* in the channel, in the slices, or was in an INSERT.                     *)
THEOREM NothingIsLostSilently == Spec => []NoSilentLoss
  <1>1. IInv => NoSilentLoss
    <2> SUFFICES ASSUME IInv, NEW r \in Requests, restarts = 0, handled[r] = 1,
                        NStacks[r] > 0
                 PROVE  \/ AtWorker(r)
                        \/ r \in W!Waiting
                        \/ /\ \A row \in RowsOf(r) :
                                 row \in pendingStacks \/ W!StackRowTried(row)
                           /\ \A m \in W!MetricRowsOf(r) :
                                 m \in pendingMetrics \/ W!MetricRowTried(m)
      BY DEF NoSilentLoss
    <2>1. AtWorker(r) \/ r \in W!Waiting \/ r \in W!Received
      BY DEF IInv, NothingDropped, W!Received
    <2> QED BY <2>1 DEF IInv, NothingDropped, W!ReceivedRowsAccounted, RowsOf
  <1> QED BY <1>1, SpecIInv, PTL

(* The slice of metric rows, which nothing limits (ch.go), stays below     *)
(* WriteBatchSize: each of its rows has a stack row of its block beside it.*)
THEOREM MetricsStayBelowLimit == Spec => []MetricsBelowLimit
  <1>1. IInv => MetricsBelowLimit
    <2> SUFFICES ASSUME IInv, dbpc = "select"
                 PROVE  Cardinality(pendingMetrics) < WriteBatchSize
      BY DEF MetricsBelowLimit
    <2> DEFINE first == [m \in pendingMetrics |-> <<m, 1>>]
    <2>1. \A m \in pendingMetrics : m \in Requests /\ <<m, 1>> \in pendingStacks
      <3> SUFFICES ASSUME NEW m \in pendingMetrics
                   PROVE  m \in Requests /\ <<m, 1>> \in pendingStacks
        OBVIOUS
      <3>1. m \in Requests /\ NStacks[m] \in Nat /\ NStacks[m] > 0
        BY WriterFacts, KindAssumption DEF IInv, BlocksWhole, W!TypeOK
      <3>2. <<m, 1>> \in RowsOf(m)
        BY <3>1 DEF RowsOf, W!StackRowsOf
      <3> QED BY <3>1, <3>2 DEF IInv, BlocksWhole
    <2>2. first \in Injection(pendingMetrics, pendingStacks)
      BY <2>1 DEF Injection, IsInjective
    <2>3. IsFiniteSet(pendingStacks) /\ Cardinality(pendingStacks) < WriteBatchSize
      BY WriterFacts, CountsAgree DEF IInv, W!BatchBelowLimit
    <2>4. /\ IsFiniteSet(pendingMetrics)
          /\ Cardinality(pendingMetrics) <= Cardinality(pendingStacks)
      BY <2>2, <2>3, FS_Injection
    <2> QED BY <2>3, <2>4, FS_CardinalityType, CapacityAssumption
  <1> QED BY <1>1, SpecIInv, PTL

-----------------------------------------------------------------------------
(***************************************************************************)
(* The refinement.  The fate of a part is a matter of two facts: whether   *)
(* its rows are stored, and whether it is on its way; what is neither is   *)
(* lost if it was accepted.                                                *)
(***************************************************************************)
StacksStored(r) == RowsOf(r) # {} /\ \A row \in RowsOf(r) : stacksTable[row] = 1
StacksOnWay(r) ==
    \/ InQueue(r) \/ AtWorker(r) \/ r \in W!Waiting
    \/ \E row \in RowsOf(r) : row \in pendingStacks /\ row \notin failedStacks
MetricsStored(r) == metricsTable[r] = 1
MetricsOnWay(r) ==
    InQueue(r) \/ AtWorker(r) \/ r \in W!Waiting \/ r \in pendingMetrics

FateOf(stored, onWay, accepted) ==
    IF stored THEN "stored" ELSE IF onWay THEN "taken"
    ELSE IF accepted THEN "lost" ELSE "out"

FatesAsFacts ==
    \A r \in Requests :
        /\ StacksFate(r) =
              FateOf(StacksStored(r), StacksOnWay(r), pub[r] = "accepted")
        /\ MetricsFate(r) =
              FateOf(MetricsStored(r), MetricsOnWay(r), pub[r] = "accepted")

(* Only what was accepted is ever on the way or stored. *)
OnlyAccepted ==
    \A r \in Requests : pub[r] # "accepted" =>
        /\ ~StacksStored(r) /\ ~StacksOnWay(r)
        /\ ~MetricsStored(r) /\ ~MetricsOnWay(r)

LEMMA SentWereAccepted ==
    ASSUME IInv, NEW r \in Requests, pub[r] # "accepted"
    PROVE  /\ ~InQueue(r) /\ ~AtWorker(r) /\ r \notin W!Waiting
           /\ \A row \in RowsOf(r) : row \notin pendingStacks /\ stacksTable[row] = 0
           /\ r \notin pendingMetrics /\ metricsTable[r] = 0
  <1>1. QP!IInv /\ WP!RowsInv /\ SentByHandlers
    BY DEF IInv
  <1>2. ~InQueue(r) /\ handled[r] = 0
    BY <1>1, QueueFacts DEF InQueue
  <1>3. ~AtWorker(r)
    BY <1>1, QueueFacts DEF AtWorker, Q!Busy
  <1>4. r \notin sent
    BY <1>1, <1>2 DEF SentByHandlers
  <1>5. r \notin W!Waiting /\ r \notin W!Received
    BY <1>1, <1>4, WriterFacts DEF W!Received
  <1> QED BY <1>1, <1>2, <1>3, <1>5, WriterFacts

LEMMA FatesAreFacts == IInv => FatesAsFacts /\ OnlyAccepted
  <1> SUFFICES ASSUME IInv PROVE FatesAsFacts /\ OnlyAccepted
    OBVIOUS
  <1>1. W!TypeOK /\ W!InsertedAtMostOnce /\ BlocksWhole
    BY WriterFacts DEF IInv
  <1>2. ASSUME NEW r \in Requests
        PROVE  /\ \A row \in RowsOf(r) : stacksTable[row] \in {0, 1}
               /\ metricsTable[r] \in {0, 1}
    <2>1. \A row \in RowsOf(r) :
             stacksTable[row] \in Nat /\ stacksTable[row] <= 1
      BY <1>1, RowsApart DEF W!TypeOK, W!InsertedAtMostOnce
    <2>2. metricsTable[r] \in Nat /\ metricsTable[r] <= 1
      BY <1>1 DEF W!TypeOK, W!InsertedAtMostOnce
    <2> QED BY <2>1, <2>2
  <1>3. ASSUME NEW r \in Requests
        PROVE  StacksFate(r) =
                 FateOf(StacksStored(r), StacksOnWay(r), pub[r] = "accepted")
    <2>1. ~ \E row \in RowsOf(r) : stacksTable[row] > 1
      BY <1>2
    <2>2. (\E row \in RowsOf(r) : stacksTable[row] = 1) => StacksStored(r)
      BY <1>1, <1>2 DEF BlocksWhole, StacksStored
    <2>3. StacksStored(r) => \E row \in RowsOf(r) : stacksTable[row] = 1
      BY DEF StacksStored
    <2>4. StacksOnWay(r) <=>
             \/ InQueue(r) \/ AtWorker(r)
             \/ AtWriter(r, (RowsOf(r) \cap pendingStacks) \ failedStacks)
      BY DEF StacksOnWay, AtWriter
    <2> QED BY <2>1, <2>2, <2>3, <2>4 DEF StacksFate, FateOf, StacksStored
  <1>4. ASSUME NEW r \in Requests
        PROVE  MetricsFate(r) =
                 FateOf(MetricsStored(r), MetricsOnWay(r), pub[r] = "accepted")
    <2>1. ~(metricsTable[r] > 1)
      BY <1>2
    <2>2. MetricsOnWay(r) <=>
             \/ InQueue(r) \/ AtWorker(r)
             \/ AtWriter(r, {r} \cap pendingMetrics)
      BY DEF MetricsOnWay, AtWriter
    <2> QED BY <2>1, <2>2 DEF MetricsFate, FateOf, MetricsStored
  <1>5. OnlyAccepted
    <2> SUFFICES ASSUME NEW r \in Requests, pub[r] # "accepted"
                 PROVE  /\ ~StacksStored(r) /\ ~StacksOnWay(r)
                        /\ ~MetricsStored(r) /\ ~MetricsOnWay(r)
      BY DEF OnlyAccepted
    <2> QED BY SentWereAccepted
            DEF StacksStored, StacksOnWay, MetricsStored, MetricsOnWay
  <1> QED BY <1>3, <1>4, <1>5 DEF FatesAsFacts

(* The fates as ProfileDelivery sees them. *)
Fate == [r \in Requests |->
           IF HasMetrics[r]
           THEN [part \in {"stacks", "metrics"} |->
                   IF part = "stacks" THEN StacksFate(r) ELSE MetricsFate(r)]
           ELSE [part \in {"stacks"} |-> StacksFate(r)]]

-----------------------------------------------------------------------------
(* Between the channel of tasks and the slices. *)
OnTheRoad(r) == InQueue(r) \/ AtWorker(r) \/ r \in W!Waiting

(* Only Enqueue puts a task on the road. *)
LEMMA RoadsEnd ==
    ASSUME IInv, [Next]_vars, ~Crash, \A q \in Requests : ~Q!Enqueue(q), NEW r
    PROVE  OnTheRoad(r)' => OnTheRoad(r)
  <1>1. Q!TypeOK /\ W!TypeOK
    BY QueueFacts, WriterFacts DEF IInv
  <1>2. CASE UNCHANGED <<ch, wpc, wtask, in>>
    BY <1>2 DEF OnTheRoad, InQueue, Q!Queued, AtWorker, W!Waiting
  <1>3. ASSUME NEW w \in Workers, Consume(w) \/ HandlerDrops(w)
        PROVE  OnTheRoad(r)' => OnTheRoad(r)
    <2>1. W!Waiting' = W!Waiting
      BY <1>3 DEF Consume, HandlerDrops, writerVars, W!Waiting
    <2>2. CASE Q!Receive(w)
      <3>1. ch \in Seq(Requests) /\ ch # <<>> /\ ch' = Tail(ch)
        BY <1>1, <2>2 DEF Q!Receive, Q!TypeOK
      <3>2. \A i \in DOMAIN ch' : i + 1 \in DOMAIN ch /\ ch'[i] = ch[i + 1]
        BY <3>1
      <3>3. Q!Queued' \subseteq Q!Queued
        BY <3>2 DEF Q!Queued
      <3> QED BY <2>1, <2>2, <3>3, TasksMove DEF OnTheRoad, InQueue
    <2>3. CASE \/ Q!ReadSucceeds(w) \/ Q!ReadFails(w) \/ Q!RemovePayload(w)
               \/ Q!HandlerReturns(w)
      <3>1. Q!Queued' = Q!Queued
        BY <2>3 DEF Q!ReadSucceeds, Q!ReadFails, Q!RemovePayload,
                    Q!HandlerReturns, Q!Queued
      <3> QED BY <2>1, <2>3, <3>1, TasksMove DEF OnTheRoad, InQueue
    <2> QED BY <1>3, <2>2, <2>3 DEF Consume, HandlerDrops
  <1>4. ASSUME NEW w \in Workers, HandlerEmits(w)
        PROVE  OnTheRoad(r)' => OnTheRoad(r)
    <2>1. Q!HandlerReturns(w) /\ in' = Append(in, wtask[w]) /\ ch' = ch
      BY <1>4 DEF HandlerEmits, Q!HandlerReturns, W!Send
    <2>2. AtWorker(wtask[w]) /\ (AtWorker(r)' => AtWorker(r))
      BY <2>1, TasksMove
    <2>3. wtask[w] \in Requests
      BY <1>1, <2>1 DEF Q!HandlerReturns, Q!TypeOK, Q!Busy
    <2>4. \A i \in DOMAIN in' :
             \/ i \in DOMAIN in /\ in'[i] = in[i]
             \/ in'[i] = wtask[w]
      BY <1>1, <2>1, <2>3 DEF W!TypeOK
    <2>5. \A x \in W!Waiting' : x \in W!Waiting \/ x = wtask[w]
      BY <2>4 DEF W!Waiting
    <2> QED BY <2>1, <2>2, <2>5 DEF OnTheRoad, InQueue, Q!Queued
  <1>5. CASE Write
    <2>1. UNCHANGED <<ch, wpc, wtask>>
      BY <1>5 DEF Write, queueVars
    <2>2. in' = in \/ (in # <<>> /\ in' = Tail(in))
      BY <1>5 DEF Write, W!Writer, W!OnDone, W!OnTick, W!OnClosed, W!OnBlock,
                  W!Inserts, W!ExecStacks, W!StacksReturn, W!ExecMetrics,
                  W!MetricsReturn
    <2>3. W!Waiting' \subseteq W!Waiting
      <3>1. CASE in' = in
        BY <3>1 DEF W!Waiting
      <3>2. CASE in # <<>> /\ in' = Tail(in)
        <4>1. \A i \in DOMAIN in' : i + 1 \in DOMAIN in /\ in'[i] = in[i + 1]
          BY <1>1, <3>2 DEF W!TypeOK
        <4> QED BY <4>1 DEF W!Waiting
      <3> QED BY <2>2, <3>1, <3>2
    <2> QED BY <2>1, <2>3 DEF OnTheRoad, InQueue, Q!Queued, AtWorker
  <1>6. \/ UNCHANGED <<ch, wpc, wtask, in>>
        \/ \E w \in Workers : Consume(w) \/ HandlerDrops(w) \/ HandlerEmits(w)
        \/ Write
    BY DEF Next, Reject, Publish, Answer, Tick, Restart, vars, queueVars,
           writerVars, Q!Publish, Q!OpenCreates, Q!OpenFails, Q!WriteSucceeds,
           Q!WriteFails, Q!SendTimesOut, Q!Undo, Q!Restart, Q!workVars, W!Tick
  <1> QED BY <1>2, <1>3, <1>4, <1>5, <1>6

(* What only the writer changes. *)
LEMMA RowsStay ==
    ASSUME [Next]_vars, ~Crash, ~W!OnBlock, ~W!Inserts
    PROVE  UNCHANGED <<pendingStacks, pendingMetrics, stacksTable, metricsTable,
                       failedStacks, failedMetrics>>
  BY DEF Next, Reject, Publish, Answer, Consume, HandlerDrops, HandlerEmits,
         W!Send, Write, W!Writer, W!OnDone, W!OnTick, W!OnClosed, W!tables, Tick,
         W!Tick, Restart, writerVars, vars

(* A part is stored for good, and only from its way; it never gets back on *)
(* its way.                                                                *)
LEMMA PartsMove ==
    ASSUME IInv, [Next]_vars, ~Crash, \A q \in Requests : ~Q!Enqueue(q),
           NEW r \in Requests
    PROVE  /\ StacksStored(r) => StacksStored(r)'
           /\ StacksStored(r)' => StacksStored(r) \/ StacksOnWay(r)
           /\ StacksOnWay(r)' => StacksOnWay(r)
           /\ MetricsStored(r) => MetricsStored(r)'
           /\ MetricsStored(r)' => MetricsStored(r) \/ MetricsOnWay(r)
           /\ MetricsOnWay(r)' => MetricsOnWay(r)
  <1>1. W!TypeOK /\ WP!RowsInv
    BY WriterFacts DEF IInv
  <1>2. OnTheRoad(r)' => OnTheRoad(r)
    BY RoadsEnd
  <1>3. RowsOf(r)' = RowsOf(r)
    BY DEF RowsOf, W!StackRowsOf
  <1> USE <1>2, <1>3 DEF StacksStored, StacksOnWay, MetricsStored, MetricsOnWay,
                         OnTheRoad
  <1>4. CASE ~W!OnBlock /\ ~W!Inserts
    BY <1>4, RowsStay
  <1>5. CASE W!OnBlock
    <2> DEFINE b == Head(in)
    <2>1. /\ in # <<>>
          /\ pendingStacks' = pendingStacks \cup RowsOf(b)
          /\ pendingMetrics' \subseteq pendingMetrics \cup {b}
          /\ UNCHANGED <<stacksTable, failedStacks, metricsTable>>
      BY <1>5 DEF W!OnBlock, RowsOf, W!MetricRowsOf, W!tables
    <2>2. b \in Requests /\ b \in W!Waiting
      <3>1. b = in[1] /\ 1 \in DOMAIN in
        BY <1>1, <2>1 DEF W!TypeOK
      <3> QED BY <1>1, <3>1 DEF W!Waiting, W!TypeOK
    <2>3. \A row \in RowsOf(r) : row \in RowsOf(b) => r \in W!Waiting
      BY <2>2, RowsApart
    <2> QED BY <2>1, <2>2, <2>3
  <1>6. CASE W!ExecStacks
    BY <1>6 DEF W!ExecStacks
  <1>7. CASE W!StacksReturn
    <2>1. /\ UNCHANGED <<pendingStacks, pendingMetrics, metricsTable>>
          /\ failedStacks \subseteq failedStacks'
          /\ dbpc = "storingStacks"
      BY <1>7 DEF W!StacksReturn
    <2>2. PICK rows \in SUBSET pendingStacks :
                 stacksTable' = W!Inserted(stacksTable, rows)
      <3>1. \A stored : {row \in pendingStacks : row[1] \in stored}
                           \in SUBSET pendingStacks
        OBVIOUS
      <3> QED BY <1>7, <3>1 DEF W!StacksReturn
    <2>3. \A row \in RowsOf(r) : row \in DOMAIN stacksTable
      BY <1>1, RowsApart DEF W!TypeOK
    <2>4. \A row \in pendingStacks : row \notin failedStacks /\ stacksTable[row] = 0
      BY <1>1, <2>1, WriterFacts
    <2>5. \A row \in RowsOf(r) :
             \/ stacksTable'[row] = stacksTable[row]
             \/ row \in pendingStacks
      BY <2>2, <2>3 DEF W!Inserted
    <2>6. StacksStored(r) => StacksStored(r)'
      BY <2>4, <2>5
    <2> QED BY <2>1, <2>4, <2>5, <2>6
  <1>8. CASE W!ExecMetrics
    <2>1. /\ pendingStacks' \subseteq pendingStacks
          /\ pendingMetrics' \subseteq pendingMetrics
          /\ UNCHANGED <<stacksTable, failedStacks, metricsTable>>
      BY <1>8 DEF W!ExecMetrics, W!FlushEnds
    <2> QED BY <2>1
  <1>9. CASE W!MetricsReturn
    <2>1. /\ pendingStacks' = {} /\ pendingMetrics' = {}
          /\ UNCHANGED <<stacksTable, failedStacks>>
      BY <1>9 DEF W!MetricsReturn, W!FlushEnds
    <2>2. PICK rows \in SUBSET pendingMetrics :
                 metricsTable' = W!Inserted(metricsTable, rows)
      BY <1>9 DEF W!MetricsReturn
    <2>3. \A m \in pendingMetrics : metricsTable[m] = 0
      BY <1>1, WriterFacts
    <2>4. metricsTable'[r] = metricsTable[r] \/ r \in pendingMetrics
      BY <1>1, <2>2 DEF W!Inserted, W!TypeOK
    <2> QED BY <2>1, <2>3, <2>4
  <1> QED BY <1>4, <1>5, <1>6, <1>7, <1>8, <1>9 DEF W!Inserts

-----------------------------------------------------------------------------
(* A step of a part: it stays where it is or comes to its end. *)
Settles(old, new) == new = old \/ (old = "taken" /\ new \in {"stored", "lost"})

LEMMA FatesSettle ==
    ASSUME IInv, IInv', [Next]_vars, ~Crash,
           \A q \in Requests : ~Q!Enqueue(q), NEW r \in Requests
    PROVE  /\ Settles(StacksFate(r), StacksFate(r)')
           /\ Settles(MetricsFate(r), MetricsFate(r)')
  <1> USE DEF FateOf, Settles
  <1>1. FatesAsFacts /\ OnlyAccepted
    BY FatesAreFacts
  <1>2. FatesAsFacts'
    BY FatesAreFacts, PTL
  <1>3. pub'[r] = "accepted" <=> pub[r] = "accepted"
    <2>1. CASE pub' = pub
      BY <2>1
    <2>2. ASSUME NEW q \in Requests, Publish(q)
          PROVE  pub'[r] = "accepted" <=> pub[r] = "accepted"
      <3>1. Q!TypeOK
        BY QueueFacts DEF IInv
      <3> QED BY <2>2, <3>1 DEF Publish, Q!Publish, Q!OpenCreates, Q!OpenFails,
                  Q!WriteSucceeds, Q!WriteFails, Q!SendTimesOut, Q!Undo, Q!TypeOK
    <2>3. pub' = pub \/ \E q \in Requests : Publish(q)
      BY DEF Next, Reject, Answer, Consume, Q!Receive, Q!ReadSucceeds,
             Q!ReadFails, Q!RemovePayload, HandlerDrops, HandlerEmits,
             Q!HandlerReturns, Write, Tick, Restart, Q!Restart, queueVars, vars
    <2> QED BY <2>1, <2>2, <2>3
  <1>4. /\ StacksStored(r) => StacksStored(r)'
        /\ StacksStored(r)' => StacksStored(r) \/ StacksOnWay(r)
        /\ StacksOnWay(r)' => StacksOnWay(r)
        /\ MetricsStored(r) => MetricsStored(r)'
        /\ MetricsStored(r)' => MetricsStored(r) \/ MetricsOnWay(r)
        /\ MetricsOnWay(r)' => MetricsOnWay(r)
    BY PartsMove
  <1>5. /\ StacksFate(r)' =
              FateOf(StacksStored(r)', StacksOnWay(r)', pub[r] = "accepted")
        /\ MetricsFate(r)' =
              FateOf(MetricsStored(r)', MetricsOnWay(r)', pub[r] = "accepted")
    BY <1>2, <1>3 DEF FatesAsFacts
  <1>6. /\ StacksFate(r) =
              FateOf(StacksStored(r), StacksOnWay(r), pub[r] = "accepted")
        /\ MetricsFate(r) =
              FateOf(MetricsStored(r), MetricsOnWay(r), pub[r] = "accepted")
        /\ StacksStored(r) \/ StacksOnWay(r) => pub[r] = "accepted"
        /\ MetricsStored(r) \/ MetricsOnWay(r) => pub[r] = "accepted"
    BY <1>1 DEF FatesAsFacts, OnlyAccepted
  <1>7. Settles(StacksFate(r), StacksFate(r)')
    BY <1>4, <1>5, <1>6
  <1>8. Settles(MetricsFate(r), MetricsFate(r)')
    BY <1>4, <1>5, <1>6
  <1> QED BY <1>7, <1>8

(* Where every part stays or settles and no answer is given, the path      *)
(* settles or stutters in ProfileDelivery.                                 *)
LEMMA SettleStep ==
    ASSUME reply' = reply,
           \A r \in Requests : /\ Settles(StacksFate(r), StacksFate(r)')
                               /\ Settles(MetricsFate(r), MetricsFate(r)')
    PROVE  [Delivery!Next]_(Delivery!vars)
  <1> DEFINE Part(r, part) == IF part = "stacks" THEN StacksFate(r) ELSE MetricsFate(r)
  <1>1. /\ Fate = [r \in Requests |-> [part \in Delivery!Parts(r) |-> Part(r, part)]]
        /\ Fate' = [r \in Requests |-> [part \in Delivery!Parts(r) |-> Part(r, part)']]
    BY DEF Fate, Delivery!Parts
  <1>2. \A r \in Requests : \A part : Settles(Part(r, part), Part(r, part)')
    OBVIOUS
  <1>3. CASE Fate' = Fate
    BY <1>3 DEF Delivery!vars, Fate
  <1>4. CASE Fate' # Fate
    <2>1. /\ DOMAIN Fate' = Requests
          /\ \A r \in Requests :
                /\ DOMAIN Fate'[r] = Delivery!Parts(r)
                /\ \A part \in Delivery!Parts(r) :
                      \/ Fate'[r][part] = Fate[r][part]
                      \/ /\ Fate[r][part] = "taken"
                         /\ Fate'[r][part] \in {"stored", "lost"}
      BY <1>1, <1>2 DEF Settles
    <2>2. Delivery!Settle
      BY <1>4, <2>1 DEF Delivery!Settle, Fate
    <2> QED BY <2>2 DEF Delivery!Next
  <1> QED BY <1>3, <1>4

(* What is not accepted is out, and what is accepted is not. *)
LEMMA OutUnlessAccepted ==
    ASSUME IInv, NEW r \in Requests
    PROVE  /\ pub[r] # "accepted" => StacksFate(r) = "out" /\ MetricsFate(r) = "out"
           /\ pub[r] = "accepted" => StacksFate(r) # "out"
  BY FatesAreFacts DEF FatesAsFacts, OnlyAccepted, FateOf

(* Enqueue is the moment the server takes a profile. *)
LEMMA EnqueueTakes ==
    ASSUME IInv, IInv', NEW q \in Requests, Publish(q), Q!Enqueue(q)
    PROVE  Delivery!Take(q)
  <1>1. Q!TypeOK /\ AnswersInOrder
    BY QueueFacts DEF IInv
  <1>2. /\ pub[q] = "send" /\ pub' = [pub EXCEPT ![q] = "accepted"]
        /\ ch' = Append(ch, q)
        /\ UNCHANGED <<wpc, wtask, in, pendingStacks, pendingMetrics, stacksTable,
                       metricsTable, failedStacks, failedMetrics, reply>>
    BY DEF Publish, Q!Enqueue, writerVars, Q!workVars
  <1>3. reply[q] = "none" /\ StacksFate(q) = "out" /\ MetricsFate(q) = "out"
    BY <1>1, <1>2, OutUnlessAccepted DEF AnswersInOrder, Q!InFlight
  <1>4. /\ InQueue(q)' /\ \A r \in Requests \ {q} : InQueue(r)' <=> InQueue(r)
    <2>1. /\ DOMAIN ch' = DOMAIN ch \cup {Len(ch) + 1} /\ ch'[Len(ch) + 1] = q
          /\ \A i \in DOMAIN ch : ch'[i] = ch[i]
      BY <1>1, <1>2 DEF Q!TypeOK
    <2> QED BY <2>1 DEF InQueue, Q!Queued
  <1>5. \A r \in Requests :
           /\ AtWorker(r)' <=> AtWorker(r)
           /\ r \in W!Waiting' <=> r \in W!Waiting
           /\ RowsOf(r)' = RowsOf(r)
    BY <1>2 DEF AtWorker, W!Waiting, RowsOf, W!StackRowsOf
  <1>6. FatesAsFacts /\ OnlyAccepted
    BY FatesAreFacts
  <1>7. FatesAsFacts'
    BY FatesAreFacts, PTL
  <1>8. StacksFate(q)' = "taken" /\ MetricsFate(q)' = "taken"
    <2>1. ~StacksStored(q)' /\ ~MetricsStored(q)'
      BY <1>2, <1>5, <1>6 DEF OnlyAccepted, StacksStored, MetricsStored
    <2>2. StacksOnWay(q)' /\ MetricsOnWay(q)'
      BY <1>4 DEF StacksOnWay, MetricsOnWay
    <2> QED BY <1>7, <2>1, <2>2 DEF FatesAsFacts, FateOf
  <1>9. ASSUME NEW r \in Requests \ {q}
        PROVE  StacksFate(r)' = StacksFate(r) /\ MetricsFate(r)' = MetricsFate(r)
    <2>1. /\ StacksStored(r)' <=> StacksStored(r)
          /\ StacksOnWay(r)' <=> StacksOnWay(r)
          /\ MetricsStored(r)' <=> MetricsStored(r)
          /\ MetricsOnWay(r)' <=> MetricsOnWay(r)
      BY <1>2, <1>4, <1>5 DEF StacksStored, StacksOnWay, MetricsStored, MetricsOnWay
    <2>2. pub'[r] = pub[r]
      BY <1>1, <1>2 DEF Q!TypeOK
    <2> QED BY <1>6, <1>7, <2>1, <2>2 DEF FatesAsFacts, FateOf
  <1>10. \A part \in Delivery!Parts(q) : Fate[q][part] = "out"
    BY <1>3 DEF Fate, Delivery!Parts
  <1>11. Fate' = [Fate EXCEPT ![q] = [part \in Delivery!Parts(q) |-> "taken"]]
    <2>1. Fate'[q] = [part \in Delivery!Parts(q) |-> "taken"]
      BY <1>8 DEF Fate, Delivery!Parts
    <2>2. \A r \in Requests \ {q} : Fate'[r] = Fate[r]
      BY <1>9 DEF Fate
    <2>3. /\ Fate = [r \in Requests |-> Fate[r]]
          /\ Fate' = [r \in Requests |-> Fate'[r]]
      BY DEF Fate
    <2> QED BY <2>1, <2>2, <2>3
  <1> QED BY <1>2, <1>3, <1>10, <1>11 DEF Delivery!Take, Delivery!IsOut, Fate

(* Reject and Answer answer as ProfileDelivery allows. *)
LEMMA AnswersAgree ==
    ASSUME IInv, NEW r \in Requests, Reject(r) \/ Answer(r)
    PROVE  Delivery!Next
  <1>1. /\ reply[r] = "none"
        /\ UNCHANGED <<ch, pub, wpc, wtask, in, pendingStacks, pendingMetrics,
                       stacksTable, metricsTable, failedStacks, failedMetrics>>
    BY DEF Reject, Answer, queueVars, writerVars
  <1>2. PICK code \in {"200", "400", "500"} :
           /\ reply' = [reply EXCEPT ![r] = code]
           /\ (pub[r] = "accepted") <=> (code = "200")
    BY DEF Reject, Answer, IInv, AnswersInOrder
  <1>3. Fate' = Fate
    BY <1>1 DEF Fate, StacksFate, MetricsFate, RowsOf, W!StackRowsOf, InQueue,
                Q!Queued, AtWorker, AtWriter, W!Waiting
  <1>4. code = "200" => Fate[r]["stacks"] # "out"
    BY <1>2, OutUnlessAccepted DEF Fate
  <1>5. code # "200" => \A part \in Delivery!Parts(r) : Fate[r][part] = "out"
    BY <1>2, OutUnlessAccepted DEF Fate, Delivery!Parts
  <1>6. "stacks" \in Delivery!Parts(r)
    BY DEF Delivery!Parts
  <1>7. Delivery!Answer(r, code)
    BY <1>1, <1>2, <1>3, <1>4, <1>5, <1>6
       DEF Delivery!Answer, Delivery!IsOut, Fate
  <1> QED BY <1>2, <1>7 DEF Delivery!Next

(* A crash is the death ProfileDelivery allows: what was on its way is     *)
(* lost, what is stored stays.                                             *)
LEMMA CrashIsDeath ==
    ASSUME IInv, IInv', Crash
    PROVE  Delivery!Die
  <1>1. /\ pub' = [r \in Requests |-> IF pub[r] \in Q!InFlight THEN "gone"
                                                              ELSE pub[r]]
        /\ reply' = [r \in Requests |->
              IF reply[r] = "none" /\ pub[r] # "new" THEN "dropped" ELSE reply[r]]
        /\ ch' = <<>> /\ wpc' = [w \in Workers |-> "select"] /\ in' = <<>>
        /\ pendingStacks' = {} /\ pendingMetrics' = {}
        /\ UNCHANGED <<stacksTable, metricsTable>>
    BY DEF Crash, Q!Crash
  <1>2. FatesAsFacts /\ OnlyAccepted
    BY FatesAreFacts
  <1>3. FatesAsFacts'
    BY FatesAreFacts, PTL
  <1>4. ASSUME NEW r \in Requests
        PROVE  /\ StacksFate(r)' = (IF StacksFate(r) = "taken" THEN "lost"
                                                              ELSE StacksFate(r))
               /\ MetricsFate(r)' = (IF MetricsFate(r) = "taken" THEN "lost"
                                                                ELSE MetricsFate(r))
    <2>1. ~StacksOnWay(r)' /\ ~MetricsOnWay(r)'
      BY <1>1 DEF StacksOnWay, MetricsOnWay, InQueue, Q!Queued, AtWorker, W!Waiting
    <2>2. /\ StacksStored(r)' <=> StacksStored(r)
          /\ MetricsStored(r)' <=> MetricsStored(r)
      BY <1>1 DEF StacksStored, MetricsStored, RowsOf, W!StackRowsOf
    <2>3. pub'[r] = "accepted" <=> pub[r] = "accepted"
      BY <1>1 DEF Q!InFlight
    <2>4. pub[r] = "accepted" \/ (~StacksOnWay(r) /\ ~MetricsOnWay(r))
      BY <1>2 DEF OnlyAccepted
    <2> QED BY <1>2, <1>3, <2>1, <2>2, <2>3, <2>4 DEF FatesAsFacts, FateOf
  <1>5. Fate' = [r \in Requests |-> [part \in Delivery!Parts(r) |->
                    IF Fate[r][part] = "taken" THEN "lost" ELSE Fate[r][part]]]
    BY <1>4 DEF Fate, Delivery!Parts
  <1>6. \E owed \in SUBSET {r \in Requests : reply[r] = "none"} :
           reply' = [r \in Requests |-> IF r \in owed THEN "dropped" ELSE reply[r]]
    <2> DEFINE owed == {r \in Requests : reply[r] = "none" /\ pub[r] # "new"}
    <2>1. reply' = [r \in Requests |-> IF r \in owed THEN "dropped" ELSE reply[r]]
      BY <1>1
    <2>2. owed \in SUBSET {r \in Requests : reply[r] = "none"}
      OBVIOUS
    <2> HIDE DEF owed
    <2> QED BY <2>1, <2>2
  <1> QED BY <1>5, <1>6 DEF Delivery!Die, Fate

LEMMA DeliveryInit == Init => Delivery!Init
  <1> SUFFICES ASSUME Init PROVE Delivery!Init
    OBVIOUS
  <1>1. IInv
    BY InitIInv
  <1>2. reply = [r \in Requests |-> "none"] /\ \A r \in Requests : pub[r] = "new"
    BY DEF Init, Q!Init
  <1>3. Fate = [r \in Requests |-> [part \in Delivery!Parts(r) |-> "out"]]
    BY <1>1, <1>2, OutUnlessAccepted DEF Fate, Delivery!Parts
  <1> QED BY <1>2, <1>3 DEF Delivery!Init, Fate

(* A task only enters the channel through the handler that publishes it. *)
LEMMA OnlyPublishEnqueues ==
    ASSUME IInv, [Next]_vars, NEW q \in Requests, Q!Enqueue(q)
    PROVE  Publish(q)
  <1>1. Q!TypeOK
    BY QueueFacts DEF IInv
  <1>2. /\ pub[q] = "send" /\ pub'[q] = "accepted"
        /\ ch' = Append(ch, q) /\ up' = up
    BY <1>1 DEF Q!Enqueue, Q!TypeOK, Q!procVars
  <1>3. ch' # ch /\ pub' # pub
    <2>1. ch \in Seq(Requests) /\ Len(ch') = Len(ch) + 1
      BY <1>1, <1>2 DEF Q!TypeOK
    <2> QED BY <1>2, <2>1
  <1>4. PICK r \in Requests : Publish(r)
    BY <1>2, <1>3
       DEF Next, Reject, Answer, Consume, Q!Receive, Q!ReadSucceeds, Q!ReadFails,
           Q!RemovePayload, HandlerDrops, HandlerEmits, Q!HandlerReturns, Write,
           Tick, Crash, Q!Crash, Restart, Q!Restart, queueVars, vars
  <1>5. Q!Enqueue(r)
    BY <1>3, <1>4 DEF Publish, Q!Publish, Q!OpenCreates, Q!OpenFails,
                      Q!WriteSucceeds, Q!WriteFails, Q!SendTimesOut, Q!Undo
  <1>6. r = q
    BY <1>1, <1>2, <1>5 DEF Q!Enqueue, Q!TypeOK
  <1> QED BY <1>4, <1>6

LEMMA DeliveryNext ==
    ASSUME IInv, IInv', [Next]_vars
    PROVE  [Delivery!Next]_(Delivery!vars)
  <1>1. CASE Crash
    BY <1>1, CrashIsDeath DEF Delivery!Next
  <1>2. ASSUME NEW r \in Requests, Reject(r) \/ Answer(r)
        PROVE  [Delivery!Next]_(Delivery!vars)
    BY <1>2, AnswersAgree
  <1>3. ASSUME NEW r \in Requests, Publish(r), Q!Enqueue(r)
        PROVE  [Delivery!Next]_(Delivery!vars)
    BY <1>3, EnqueueTakes DEF Delivery!Next
  <1>4. CASE /\ ~Crash /\ reply' = reply
             /\ \A r \in Requests : ~Q!Enqueue(r)
    BY <1>4, FatesSettle, SettleStep
  <1>5. CASE \E r \in Requests : Q!Enqueue(r)
    BY <1>3, <1>5, OnlyPublishEnqueues
  <1>6. \/ Crash \/ \E r \in Requests : Reject(r) \/ Answer(r)
        \/ reply' = reply
    BY DEF Next, Publish, Consume, HandlerDrops, HandlerEmits, Write, Tick,
           Restart, vars
  <1> QED BY <1>1, <1>2, <1>3, <1>4, <1>5, <1>6

(* The whole path implements ProfileDelivery: whatever fails, times out,   *)
(* waits or crashes, and however many workers there are, a profile is      *)
(* taken once and answered for accordingly, each part is stored at most    *)
(* once and whole, and a refused profile never (NewProfileV2, Publish,     *)
(* Consume, ProcessStackFrameFileCtx, RunProfileWriter).                   *)
THEOREM PathDelivers == Spec => ImplementsDelivery
  <1>1. Init => Delivery!Init
    BY DeliveryInit
  <1>2. IInv /\ IInv' /\ [Next]_vars => [Delivery!Next]_(Delivery!vars)
    BY DeliveryNext
  <1> QED BY <1>1, <1>2, SpecIInv, PTL
          DEF Spec, ImplementsDelivery, Delivery!Safety

-----------------------------------------------------------------------------
(* FoldLeft's way through a sequence, from the last element to the first.  *)
Steps(g, step, base, D) ==
    g = [s \in D |-> IF s = {} THEN base ELSE step[Max(s)][g[s \ {Max(s)}]]]

LEMMA LastOfInterval ==
    ASSUME NEW n \in Nat, NEW k \in 1..n
    PROVE  /\ 1..k \in SUBSET (1..n) /\ 1..k # {} /\ Max(1..k) = k
           /\ (1..k) \ {k} = 1..(k - 1) /\ 1..(k - 1) \in SUBSET (1..n)
<1>1. 1..k \in SUBSET (1..n) /\ k \in 1..k /\ \A i \in 1..k : k >= i
  OBVIOUS
<1>2. Max(1..k) = k
  <2>1. Max(1..k) \in 1..k /\ \A i \in 1..k : Max(1..k) >= i
    BY <1>1 DEF Max
  <2> QED BY <1>1, <2>1
<1> QED BY <1>1, <1>2

LEMMA LastOfSubset ==
    ASSUME NEW n \in Nat, NEW s \in SUBSET (1..n), s # {}
    PROVE  Max(s) \in s /\ Max(s) \in 1..n /\ s \ {Max(s)} \in SUBSET (1..n)
<1>1. IsFiniteSet(1..n) /\ s \subseteq Int
  BY FS_Interval
<1>3. IsFiniteSet(s)
  BY <1>1, FS_Subset
<1>2. Max(s) \in s
  BY <1>1, <1>3, GreatestAndLeast
<1> QED BY <1>2

(* The recursive function behind FoldLeft exists for steps of any kind,    *)
(* and keeps to a set that the steps keep to.                              *)
LEMMA StepsExist ==
    ASSUME NEW n \in Nat, NEW X, NEW base \in X, NEW step \in [1..n -> [X -> X]]
    PROVE  \E g \in [SUBSET (1..n) -> X] : Steps(g, step, base, SUBSET (1..n))
<1> DEFINE Upto(m) == {s \in SUBSET (1..n) : Cardinality(s) <= m}
<1> DEFINE P == {m \in Nat : \E g \in [Upto(m) -> X] : Steps(g, step, base, Upto(m))}
<1>1. \A s \in SUBSET (1..n) : /\ IsFiniteSet(s) /\ Cardinality(s) \in Nat
                               /\ Cardinality(s) <= Cardinality(1..n)
  <2>1. IsFiniteSet(1..n)
    BY FS_Interval
  <2> QED BY <2>1, FS_Subset, FS_CardinalityType
<1>2. \A s \in SUBSET (1..n) : s # {} =>
         /\ Max(s) \in 1..n
         /\ s \ {Max(s)} \in SUBSET (1..n)
         /\ Cardinality(s \ {Max(s)}) = Cardinality(s) - 1
  BY <1>1, LastOfSubset, FS_RemoveElement
<1>3. 0 \in P
  <2> DEFINE g == [s \in Upto(0) |-> base]
  <2>1. \A s \in Upto(0) : s = {}
    BY <1>1, FS_EmptySet
  <2>2. g = [s \in Upto(0) |-> IF s = {} THEN base ELSE step[Max(s)][g[s \ {Max(s)}]]]
    BY <2>1
  <2>3. Steps(g, step, base, Upto(0))
    BY <2>2 DEF Steps
  <2>4. g \in [Upto(0) -> X]
    OBVIOUS
  <2> QED BY <2>3, <2>4
<1>4. ASSUME NEW m \in Nat, m \in P
      PROVE  m + 1 \in P
  <2>1. PICK g \in [Upto(m) -> X] : Steps(g, step, base, Upto(m))
    BY <1>4
  <2> DEFINE h == [s \in Upto(m + 1) |->
                      IF s = {} THEN base ELSE step[Max(s)][g[s \ {Max(s)}]]]
  <2>2. \A s \in Upto(m) : s \in Upto(m + 1) /\ h[s] = g[s]
    <3> SUFFICES ASSUME NEW s \in Upto(m)
                 PROVE  s \in Upto(m + 1) /\ h[s] = g[s]
      OBVIOUS
    <3>1. s \in Upto(m + 1)
      BY <1>1
    <3>2. g[s] = IF s = {} THEN base ELSE step[Max(s)][g[s \ {Max(s)}]]
      BY <2>1 DEF Steps
    <3> QED BY <3>1, <3>2
  <2>3. \A s \in Upto(m + 1) : s # {} => Max(s) \in 1..n /\ s \ {Max(s)} \in Upto(m)
    <3> SUFFICES ASSUME NEW s \in Upto(m + 1), s # {}
                 PROVE  Max(s) \in 1..n /\ s \ {Max(s)} \in Upto(m)
      OBVIOUS
    <3> DEFINE t == s \ {Max(s)}
    <3>1. /\ s \in SUBSET (1..n) /\ Cardinality(s) \in Nat /\ Cardinality(s) <= m + 1
          /\ Max(s) \in 1..n /\ t \in SUBSET (1..n) /\ Cardinality(t) = Cardinality(s) - 1
      BY <1>1, <1>2
    <3> HIDE DEF t
    <3>2. t \in Upto(m)
      BY <3>1
    <3> QED BY <3>1, <3>2 DEF t
  <2>4. \A s \in Upto(m + 1) :
           h[s] = IF s = {} THEN base ELSE step[Max(s)][h[s \ {Max(s)}]]
    BY <2>2, <2>3
  <2>5. Steps(h, step, base, Upto(m + 1))
    BY <2>4 DEF Steps
  <2>6. h \in [Upto(m + 1) -> X]
    BY <2>3
  <2>7. \E w \in [Upto(m + 1) -> X] : Steps(w, step, base, Upto(m + 1))
    <3> HIDE DEF h, Upto
    <3> QED BY <2>5, <2>6
  <2>8. m + 1 \in Nat
    OBVIOUS
  <2> HIDE DEF h, Upto
  <2> QED BY <2>7, <2>8, Zenon
<1> HIDE DEF P
<1>5. Cardinality(1..n) \in P
  BY <1>1, <1>3, <1>4, SetOfNaturals
<1>6. Upto(Cardinality(1..n)) = SUBSET (1..n)
  BY <1>1
<1> QED BY <1>5, <1>6 DEF P

(* What holds before the first step and from step to step holds after all. *)
LEMMA UpToInduction ==
    ASSUME NEW n \in Nat, NEW P, 0 \in P, \A k \in 1..n : k - 1 \in P => k \in P
    PROVE  0..n \subseteq P
<1> DEFINE R == {k \in Nat : k <= n => k \in P}
<1>1. 0 \in R
  OBVIOUS
<1>2. \A k \in Nat : k \in R => k + 1 \in R
  <2> SUFFICES ASSUME NEW k \in Nat, k \in R, k + 1 <= n PROVE k + 1 \in P
    OBVIOUS
  <2>1. k + 1 \in 1..n /\ (k + 1) - 1 = k /\ k \in P
    OBVIOUS
  <2> QED BY <2>1
<1> HIDE DEF R
<1>3. Nat \subseteq R
  BY <1>1, <1>2, SetOfNaturals
<1> QED BY <1>3 DEF R

-----------------------------------------------------------------------------
(* Parser: what a call stack becomes is a sequence of frames again.        *)
LEMMA RewriteTyped ==
    ASSUME NEW stack \in Seq(STRING), NEW i \in DOMAIN Rules
    PROVE  Rewrite(stack, Rules[i]) \in Seq(STRING)
BY RulesAssumption DEF Rewrite

LEMMA NormalizeTyped ==
    ASSUME NEW stack \in Seq(STRING)
    PROVE  Normalize(stack) \in Seq(STRING)
<1> DEFINE n == Len(Rules)
           X == Seq(STRING)
           step == [k \in 1..n |-> [x \in X |-> Rewrite(x, Rules[k])]]
           IsWalk(g) == g = [s \in SUBSET (1..n) |->
                               IF s = {} THEN stack ELSE Rewrite(g[s \ {Max(s)}], Rules[Max(s)])]
           it == CHOOSE g : IsWalk(g)
<1>1. n \in Nat /\ DOMAIN Rules = 1..n
  BY RulesAssumption
<1>2. \A k \in 1..n : \A x \in X : Rewrite(x, Rules[k]) \in X
  BY <1>1, RewriteTyped
<1>3. step \in [1..n -> [X -> X]]
  BY <1>2
<1>4. PICK g \in [SUBSET (1..n) -> X] : Steps(g, step, stack, SUBSET (1..n))
  <2> HIDE DEF step, X, n
  <2> QED BY <1>1, <1>3, StepsExist DEF X
<1>5. IsWalk(g)
  <2>1. \A s \in SUBSET (1..n) : s # {} =>
           step[Max(s)][g[s \ {Max(s)}]] = Rewrite(g[s \ {Max(s)}], Rules[Max(s)])
    <3> SUFFICES ASSUME NEW s \in SUBSET (1..n), s # {}
                 PROVE  step[Max(s)][g[s \ {Max(s)}]] = Rewrite(g[s \ {Max(s)}], Rules[Max(s)])
      OBVIOUS
    <3>1. Max(s) \in 1..n /\ g[s \ {Max(s)}] \in X
      BY <1>1, LastOfSubset
    <3> QED BY <3>1
  <2> HIDE DEF step, X, n
  <2>2. g = [s \in SUBSET (1..n) |-> IF s = {} THEN stack ELSE step[Max(s)][g[s \ {Max(s)}]]]
    BY <1>4 DEF Steps
  <2> QED BY <2>1, <2>2
<1>6. IsWalk(it)
  <2> HIDE DEF IsWalk
  <2> QED BY <1>5, Zenon
<1>7. FoldLeft(Rewrite, stack, Rules) = it[1..n]
  BY <1>1, Zenon DEF FoldLeft, MapThenFoldSet
<1>8. 0..n \subseteq {k \in 0..n : it[1..k] \in X}
  <2> DEFINE P == {k \in 0..n : it[1..k] \in X}
  <2>1. 0 \in P
    <3>1. 1..0 = {} /\ {} \in SUBSET (1..n)
      OBVIOUS
    <3>2. it[{}] = stack
      BY <1>6, <3>1
    <3> QED BY <1>1, <3>1, <3>2
  <2>2. ASSUME NEW k \in 1..n, k - 1 \in P PROVE k \in P
    <3>1. it[1..k] = Rewrite(it[1..(k - 1)], Rules[k])
      <4> DEFINE s == 1..k
      <4>1. s \in SUBSET (1..n) /\ s # {} /\ Max(s) = k /\ s \ {k} = 1..(k - 1)
        BY <1>1, LastOfInterval
      <4> HIDE DEF s, it
      <4>2. it[s] = Rewrite(it[s \ {Max(s)}], Rules[Max(s)])
        BY <1>6, <4>1
      <4> QED BY <4>1, <4>2 DEF s
    <3> QED BY <1>2, <2>2, <3>1
  <2> HIDE DEF P
  <2>3. 0..n \subseteq P
    BY <1>1, <2>1, <2>2, UpToInduction
  <2> QED BY <2>3 DEF P
<1>9. FoldLeft(Rewrite, stack, Rules) \in Seq(STRING)
  <2>1. n \in 0..n
    BY <1>1
  <2> HIDE DEF it, n
  <2> QED BY <1>7, <1>8, <2>1
<1> QED BY <1>9 DEF Normalize

LEMMA KeepFrameTyped ==
    ASSUME NEW kept \in Seq(STRING), NEW frame \in STRING
    PROVE  KeepFrame(kept, frame) \in Seq(STRING)
BY AppendProperties DEF KeepFrame

LEMMA StackTyped ==
    ASSUME NEW fields \in Seq(STRING), NEW skipped \in Nat
    PROVE  StackOf(fields, skipped) \in Seq(STRING)
<1> DEFINE frames == Normalize(SubSeq(fields, skipped + 1, Len(fields)))
           n == Len(frames)
           X == Seq(STRING)
           step == [k \in 1..n |-> [x \in X |-> KeepFrame(x, frames[k])]]
           IsWalk(g) == g = [s \in SUBSET (1..n) |->
                               IF s = {} THEN <<>> ELSE KeepFrame(g[s \ {Max(s)}], frames[Max(s)])]
           it == CHOOSE g : IsWalk(g)
<1>1. n \in Nat /\ DOMAIN frames = 1..n /\ \A k \in 1..n : frames[k] \in STRING
  <2>1. SubSeq(fields, skipped + 1, Len(fields)) \in Seq(STRING)
    OBVIOUS
  <2>2. frames \in Seq(STRING)
    BY <2>1, NormalizeTyped
  <2> HIDE DEF frames
  <2> QED BY <2>2
<1> HIDE DEF frames
<1>2. \A k \in 1..n : \A x \in X : KeepFrame(x, frames[k]) \in X
  BY <1>1, KeepFrameTyped
<1>3. step \in [1..n -> [X -> X]]
  BY <1>2
<1>4. PICK g \in [SUBSET (1..n) -> X] : Steps(g, step, <<>>, SUBSET (1..n))
  <2>1. <<>> \in X
    OBVIOUS
  <2> HIDE DEF step, X, n
  <2> QED BY <1>1, <1>3, <2>1, StepsExist
<1>5. IsWalk(g)
  <2>1. \A s \in SUBSET (1..n) : s # {} =>
           step[Max(s)][g[s \ {Max(s)}]] = KeepFrame(g[s \ {Max(s)}], frames[Max(s)])
    <3> SUFFICES ASSUME NEW s \in SUBSET (1..n), s # {}
                 PROVE  step[Max(s)][g[s \ {Max(s)}]] = KeepFrame(g[s \ {Max(s)}], frames[Max(s)])
      OBVIOUS
    <3>1. Max(s) \in 1..n /\ g[s \ {Max(s)}] \in X
      BY <1>1, LastOfSubset
    <3> QED BY <3>1
  <2> HIDE DEF step, X, n
  <2>2. g = [s \in SUBSET (1..n) |-> IF s = {} THEN <<>> ELSE step[Max(s)][g[s \ {Max(s)}]]]
    BY <1>4 DEF Steps
  <2> QED BY <2>1, <2>2
<1>6. IsWalk(it)
  <2> HIDE DEF IsWalk
  <2> QED BY <1>5, Zenon
<1>7. StackOf(fields, skipped) = it[1..n]
  BY <1>1, Zenon DEF StackOf, FoldLeft, MapThenFoldSet, frames
<1>8. 0..n \subseteq {k \in 0..n : it[1..k] \in X}
  <2> DEFINE P == {k \in 0..n : it[1..k] \in X}
  <2>1. 0 \in P
    <3>1. 1..0 = {} /\ {} \in SUBSET (1..n)
      OBVIOUS
    <3>2. it[{}] = <<>>
      BY <1>6, <3>1
    <3>3. 0 \in 0..n
      BY <1>1
    <3>4. <<>> \in Seq(STRING)
      OBVIOUS
    <3> HIDE DEF it, n
    <3> QED BY <3>1, <3>2, <3>3, <3>4
  <2>2. ASSUME NEW k \in 1..n, k - 1 \in P PROVE k \in P
    <3>1. it[1..k] = KeepFrame(it[1..(k - 1)], frames[k])
      <4> DEFINE s == 1..k
      <4>1. s \in SUBSET (1..n) /\ s # {} /\ Max(s) = k /\ s \ {k} = 1..(k - 1)
        BY <1>1, LastOfInterval
      <4> HIDE DEF s, it
      <4>2. it[s] = KeepFrame(it[s \ {Max(s)}], frames[Max(s)])
        BY <1>6, <4>1
      <4> QED BY <4>1, <4>2 DEF s
    <3> QED BY <1>2, <2>2, <3>1
  <2> HIDE DEF P
  <2>3. 0..n \subseteq P
    BY <1>1, <2>1, <2>2, UpToInduction
  <2> QED BY <2>3 DEF P
<1>9. n \in 0..n
  BY <1>1
<1> HIDE DEF it, n
<1> QED BY <1>7, <1>8, <1>9

-----------------------------------------------------------------------------
(* Aggregator: a stack adds its count once to each of its prefixes.        *)
(* The empty string, the container of a file without containers, is one of *)
(* the strings, but no prover knows.                                       *)
Containers == STRING \cup {""}
Keys == Containers \X Seq(STRING)
Maps(K, V) == UNION {[D -> V] : D \in SUBSET K}
Node == [parent : Seq(STRING), name : STRING]
Accs == [weights : Maps(Keys, Int), nodes : Maps(Seq(STRING), Node), parentHash : Seq(STRING)]
SampleType == [raw : Containers, stack : Seq(STRING) \ {<<>>}, n : Int]

Path(frames, k) == SubSeq(frames, 1, k)
Paths(frames, k) == {Path(frames, j) : j \in 1..k}
PathKeys(container, frames, k) == {<<container, path>> : path \in Paths(frames, k)}

(* A node's hash is the way to it. *)
NodesAreParents(nodes) == \A hash \in DOMAIN nodes : nodes[hash].parent = Front(hash)

LEMMA MapsTyped ==
    ASSUME NEW K, NEW V, NEW map \in Maps(K, V)
    PROVE  /\ DOMAIN map \subseteq K
           /\ \A k \in DOMAIN map : map[k] \in V
           /\ map = [k \in DOMAIN map |-> map[k]]
BY DEF Maps

LEMMA PutTyped ==
    ASSUME NEW A, NEW B, NEW m \in Maps(A, B), NEW x \in A, NEW y \in B
    PROVE  Put(m, x, y) \in Maps(A, B)
<1> DEFINE D == DOMAIN m \cup {x}
           put == [k \in D |-> IF k = x THEN y ELSE m[k]]
<1>1. Put(m, x, y) = put
  BY DEF Put
<1>2. D \in SUBSET A /\ put \in [D -> B]
  BY MapsTyped
<1>3. put \in Maps(A, B)
  <2> HIDE DEF D, put
  <2> QED BY <1>2 DEF Maps
<1> QED BY <1>1, <1>3

LEMMA PathFacts ==
    ASSUME NEW frames \in Seq(STRING), NEW k \in 1..Len(frames)
    PROVE  /\ Path(frames, k) \in Seq(STRING) /\ Len(Path(frames, k)) = k
           /\ Path(frames, k) = Append(Path(frames, k - 1), frames[k])
           /\ Path(frames, k - 1) \in Seq(STRING) /\ Len(Path(frames, k - 1)) = k - 1
           /\ Front(Path(frames, k)) = Path(frames, k - 1)
           /\ frames[k] \in STRING
<1>1. /\ Path(frames, k) \in Seq(STRING) /\ Len(Path(frames, k)) = k
      /\ Path(frames, k - 1) \in Seq(STRING) /\ Len(Path(frames, k - 1)) = k - 1
      /\ \A i \in 1..k : Path(frames, k)[i] = frames[i]
      /\ \A i \in 1..(k - 1) : Path(frames, k - 1)[i] = frames[i]
      /\ frames[k] \in STRING
  BY DEF Path
<1>2. Path(frames, k) = Append(Path(frames, k - 1), frames[k])
  <2> DEFINE a == Path(frames, k)
             b == Append(Path(frames, k - 1), frames[k])
  <2>1. /\ b \in Seq(STRING) /\ Len(b) = k /\ b[k] = frames[k]
        /\ \A i \in 1..(k - 1) : b[i] = frames[i]
    BY <1>1, AppendProperties
  <2>2. \A i \in 1..k : a[i] = b[i]
    BY <1>1, <2>1
  <2> HIDE DEF a, b
  <2> QED BY <1>1, <2>1, <2>2, SeqEqual DEF a
<1>3. Front(Path(frames, k)) = Path(frames, k - 1)
  <2> DEFINE a == Path(frames, k)
             c == SubSeq(a, 1, k - 1)
  <2>1. a \in Seq(STRING) /\ Len(a) = k
    BY <1>1
  <2>2. /\ c \in Seq(STRING) /\ Len(c) = k - 1 /\ \A i \in 1..(k - 1) : c[i] = a[i]
    <3> HIDE DEF a
    <3> QED BY <2>1
  <2>3. \A i \in 1..(k - 1) : c[i] = Path(frames, k - 1)[i]
    BY <1>1, <2>2
  <2>4. Front(a) = c
    BY <2>1 DEF Front
  <2> HIDE DEF a, c
  <2> QED BY <1>1, <2>2, <2>3, <2>4, SeqEqual DEF a
<1> QED BY <1>1, <1>2, <1>3

(* The keys of a stack are its prefixes, one for each frame. *)
LEMMA KeysArePaths ==
    ASSUME NEW container \in Containers, NEW frames \in Seq(STRING)
    PROVE  /\ KeysOf(container, frames) = PathKeys(container, frames, Len(frames))
           /\ KeysOf(container, frames) \subseteq Keys
<1> DEFINE n == Len(frames)
<1>1. Path(frames, 0) = <<>> /\ n \in Nat
  BY DEF Path
<1>2. \A k \in 1..n : Path(frames, k) # <<>> /\ Path(frames, k) \in Seq(STRING)
  BY PathFacts
<1>3. Prefixes(frames) = {Path(frames, l) : l \in 0..n}
  BY DEF Prefixes, Path
<1>4. Prefixes(frames) \ {<<>>} = Paths(frames, n)
  <2>1. 0..n = {0} \cup 1..n /\ 0 \notin 1..n
    BY <1>1
  <2>2. Prefixes(frames) = {<<>>} \cup Paths(frames, n)
    <3> HIDE DEF n
    <3> QED BY <1>1, <1>3, <2>1 DEF Paths
  <2>3. <<>> \notin Paths(frames, n)
    BY <1>2 DEF Paths
  <2> QED BY <2>2, <2>3
<1>5. Paths(frames, n) \subseteq Seq(STRING)
  BY <1>2 DEF Paths
<1>6. KeysOf(container, frames) = PathKeys(container, frames, n)
  BY <1>4 DEF KeysOf, PathKeys
<1>7. PathKeys(container, frames, n) \subseteq Keys
  <2>1. \A path \in Seq(STRING) : <<container, path>> \in Keys
    BY DEF Keys
  <2> HIDE DEF n
  <2> QED BY <1>5, <2>1 DEF PathKeys
<1> QED BY <1>6, <1>7

LEMMA AddFrameTyped ==
    ASSUME NEW acc \in Accs, NEW sample \in SampleType, NEW frameName \in STRING
    PROVE  LET hash == Append(acc.parentHash, frameName)
               key == <<sample.raw, hash>>
               next == AddFrame(acc, sample, frameName)
           IN /\ next \in Accs
              /\ next.parentHash = hash
              /\ next.weights = Put(acc.weights, key, At(acc.weights, key) + sample.n)
              /\ key \in Keys /\ At(acc.weights, key) + sample.n \in Int
              /\ DOMAIN next.nodes = DOMAIN acc.nodes \cup {hash}
              /\ NodesAreParents(acc.nodes) => NodesAreParents(next.nodes)
<1> DEFINE hash == Append(acc.parentHash, frameName)
           key == <<sample.raw, hash>>
           next == AddFrame(acc, sample, frameName)
           node == [parent |-> acc.parentHash, name |-> frameName]
           nodes == IF hash \in DOMAIN acc.nodes THEN acc.nodes ELSE Put(acc.nodes, hash, node)
           total == At(acc.weights, key) + sample.n
<1>1. /\ acc.weights \in Maps(Keys, Int) /\ acc.nodes \in Maps(Seq(STRING), Node)
      /\ acc.parentHash \in Seq(STRING) /\ sample.raw \in Containers /\ sample.n \in Int
  BY DEF Accs, SampleType
<1>2. hash \in Seq(STRING) /\ Front(hash) = acc.parentHash
  <2>1. /\ hash \in Seq(STRING) /\ Len(hash) = Len(acc.parentHash) + 1
        /\ \A i \in 1..Len(acc.parentHash) : hash[i] = acc.parentHash[i]
    BY <1>1, AppendProperties
  <2> DEFINE f == SubSeq(hash, 1, Len(hash) - 1)
  <2>2. f \in Seq(STRING) /\ Len(f) = Len(hash) - 1 /\ \A i \in 1..Len(f) : f[i] = hash[i]
    <3> HIDE DEF hash
    <3> QED BY <1>1, <2>1
  <2>3. Len(f) = Len(acc.parentHash) /\ \A i \in 1..Len(f) : f[i] = acc.parentHash[i]
    <3> HIDE DEF f, hash
    <3>1. Len(acc.parentHash) \in Nat
      BY <1>1
    <3>2. Len(f) = Len(acc.parentHash)
      BY <2>1, <2>2, <3>1
    <3> QED BY <2>1, <2>2, <3>2
  <2>4. f = acc.parentHash
    <3> HIDE DEF f
    <3> QED BY <1>1, <2>2, <2>3, SeqEqual
  <2> QED BY <2>1, <2>4 DEF Front
<1>3. key \in Keys /\ total \in Int
  <2>1. key \in Keys
    BY <1>1, <1>2 DEF Keys
  <2>2. At(acc.weights, key) \in Int
    BY <1>1, MapsTyped DEF At
  <2> QED BY <1>1, <2>1, <2>2
<1>4. node \in Node
  BY <1>1 DEF Node
<1>5. /\ nodes \in Maps(Seq(STRING), Node)
      /\ DOMAIN nodes = DOMAIN acc.nodes \cup {hash}
      /\ NodesAreParents(acc.nodes) => NodesAreParents(nodes)
  <2>1. CASE hash \in DOMAIN acc.nodes
    BY <1>1, <2>1
  <2>2. CASE hash \notin DOMAIN acc.nodes
    <3> DEFINE put == Put(acc.nodes, hash, node)
    <3>1. /\ put \in Maps(Seq(STRING), Node) /\ DOMAIN put = DOMAIN acc.nodes \cup {hash}
          /\ put[hash] = node /\ \A k \in DOMAIN acc.nodes : k # hash => put[k] = acc.nodes[k]
      <4>1. acc.nodes \in Maps(Seq(STRING), Node) /\ hash \in Seq(STRING) /\ node \in Node
        BY <1>1, <1>2, <1>4
      <4> HIDE DEF hash, node
      <4>2. put \in Maps(Seq(STRING), Node)
        BY <4>1, PutTyped
      <4>3. /\ DOMAIN put = DOMAIN acc.nodes \cup {hash} /\ put[hash] = node
            /\ \A k \in DOMAIN acc.nodes : k # hash => put[k] = acc.nodes[k]
        BY DEF Put
      <4> QED BY <4>2, <4>3
    <3>2. node.parent = Front(hash)
      BY <1>2
    <3> HIDE DEF put, node, hash
    <3>3. NodesAreParents(acc.nodes) => NodesAreParents(put)
      BY <3>1, <3>2, <2>2 DEF NodesAreParents
    <3> QED BY <2>2, <3>1, <3>3 DEF put
  <2> QED BY <2>1, <2>2
<1>6. Put(acc.weights, key, total) \in Maps(Keys, Int)
  BY <1>1, <1>3, PutTyped
<1>7. next = [weights |-> Put(acc.weights, key, total), nodes |-> nodes, parentHash |-> hash]
  BY DEF AddFrame, FrameHash
<1>8. next \in Accs
  <2> HIDE DEF total, nodes, key, hash, next
  <2> QED BY <1>2, <1>5, <1>6, <1>7 DEF Accs
<1> QED BY <1>3, <1>5, <1>7, <1>8


(* addStack walks the frames from the root; the accumulator before it and  *)
(* after each of its frames.                                               *)
LEMMA AddStackWalk ==
    ASSUME NEW acc \in Accs, NEW sample \in SampleType
    PROVE  \E w \in [0..Len(sample.stack) -> Accs] :
              /\ w[0] = [acc EXCEPT !.parentHash = <<>>]
              /\ \A k \in 1..Len(sample.stack) : w[k] = AddFrame(w[k - 1], sample, sample.stack[k])
              /\ AddStack(acc, sample) = w[Len(sample.stack)]
<1> DEFINE frames == sample.stack
           n == Len(frames)
           base == [acc EXCEPT !.parentHash = <<>>]
           step == [k \in 1..n |-> [x \in Accs |-> AddFrame(x, sample, frames[k])]]
           IsWalk(g) == g = [s \in SUBSET (1..n) |->
                               IF s = {} THEN base
                               ELSE AddFrame(g[s \ {Max(s)}], sample, frames[Max(s)])]
           it == CHOOSE g : IsWalk(g)
<1>1. n \in Nat /\ DOMAIN frames = 1..n /\ \A k \in 1..n : frames[k] \in STRING
  BY DEF SampleType
<1>0. base \in Accs
  <2>1. <<>> \in Seq(STRING)
    OBVIOUS
  <2> QED BY <2>1 DEF Accs
<1>2. \A k \in 1..n : \A x \in Accs : AddFrame(x, sample, frames[k]) \in Accs
  BY <1>1, AddFrameTyped
<1> HIDE DEF frames, base
<1>3. step \in [1..n -> [Accs -> Accs]]
  BY <1>2
<1>4. PICK g \in [SUBSET (1..n) -> Accs] : Steps(g, step, base, SUBSET (1..n))
  <2> HIDE DEF step, n
  <2> QED BY <1>0, <1>1, <1>3, StepsExist
<1>5. IsWalk(g)
  <2>1. \A s \in SUBSET (1..n) : s # {} =>
           step[Max(s)][g[s \ {Max(s)}]] = AddFrame(g[s \ {Max(s)}], sample, frames[Max(s)])
    <3> SUFFICES ASSUME NEW s \in SUBSET (1..n), s # {}
                 PROVE  step[Max(s)][g[s \ {Max(s)}]]
                           = AddFrame(g[s \ {Max(s)}], sample, frames[Max(s)])
      OBVIOUS
    <3>1. Max(s) \in 1..n /\ g[s \ {Max(s)}] \in Accs
      BY <1>1, LastOfSubset
    <3> QED BY <3>1
  <2> HIDE DEF step, n
  <2>2. g = [s \in SUBSET (1..n) |-> IF s = {} THEN base ELSE step[Max(s)][g[s \ {Max(s)}]]]
    BY <1>4 DEF Steps
  <2> QED BY <2>1, <2>2
<1>6. IsWalk(it)
  <2> HIDE DEF IsWalk
  <2> QED BY <1>5, Zenon
<1>7. AddStack(acc, sample) = it[1..n]
  BY <1>1, Zenon DEF AddStack, FoldLeft, MapThenFoldSet, frames, base
<1> DEFINE w == [k \in 0..n |-> it[1..k]]
<1>8. w[0] = base
  <2>1. 1..0 = {} /\ {} \in SUBSET (1..n) /\ 0 \in 0..n
    BY <1>1
  <2>2. it[{}] = base
    BY <1>6, <2>1
  <2> HIDE DEF it, n
  <2> QED BY <2>1, <2>2
<1>9. ASSUME NEW k \in 1..n PROVE w[k] = AddFrame(w[k - 1], sample, frames[k])
  <2> DEFINE s == 1..k
  <2>1. s \in SUBSET (1..n) /\ s # {} /\ Max(s) = k /\ s \ {k} = 1..(k - 1)
    BY <1>1, LastOfInterval
  <2> HIDE DEF s, it
  <2>2. it[s] = AddFrame(it[s \ {Max(s)}], sample, frames[Max(s)])
    BY <1>6, <2>1
  <2>3. k \in 0..n /\ k - 1 \in 0..n
    BY <1>1
  <2> HIDE DEF n
  <2> QED BY <2>1, <2>2, <2>3 DEF s
<1>10. w \in [0..n -> Accs]
  <2> DEFINE P == {k \in 0..n : w[k] \in Accs}
  <2> HIDE DEF w
  <2>1. 0 \in P
    BY <1>0, <1>1, <1>8
  <2>2. ASSUME NEW k \in 1..n, k - 1 \in P PROVE k \in P
    BY <1>1, <1>2, <1>9, <2>2
  <2> HIDE DEF P
  <2>3. 0..n \subseteq P
    BY <1>1, <2>1, <2>2, UpToInduction
  <2>4. \A k \in 0..n : w[k] \in Accs
    BY <2>3 DEF P
  <2> HIDE DEF it, n
  <2> QED BY <2>4 DEF w
<1>11. AddStack(acc, sample) = w[n]
  <2>1. n \in 0..n
    BY <1>1
  <2> HIDE DEF it, n
  <2> QED BY <1>7, <2>1
<1> HIDE DEF w, it, IsWalk, step
<1> QED BY <1>8, <1>9, <1>10, <1>11 DEF frames, base


(* A frame further is one path and one key more, none of them new twice. *)
LEMMA PathsGrow ==
    ASSUME NEW container \in Containers, NEW frames \in Seq(STRING), NEW k \in 1..Len(frames)
    PROVE  /\ Paths(frames, k) = Paths(frames, k - 1) \cup {Path(frames, k)}
           /\ PathKeys(container, frames, k)
                = PathKeys(container, frames, k - 1) \cup {<<container, Path(frames, k)>>}
           /\ <<container, Path(frames, k)>> \notin PathKeys(container, frames, k - 1)
<1>1. 1..k = 1..(k - 1) \cup {k}
  OBVIOUS
<1>2. Paths(frames, k) = Paths(frames, k - 1) \cup {Path(frames, k)}
  BY <1>1 DEF Paths
<1>3. Path(frames, k) \notin Paths(frames, k - 1)
  <2> SUFFICES ASSUME NEW j \in 1..(k - 1), Path(frames, k) = Path(frames, j) PROVE FALSE
    BY DEF Paths
  <2>1. j \in 1..Len(frames) /\ j # k
    OBVIOUS
  <2>2. Len(Path(frames, k)) = k /\ Len(Path(frames, j)) = j
    BY <2>1, PathFacts
  <2> QED BY <2>1, <2>2
<1> QED BY <1>2, <1>3 DEF PathKeys

LEMMA AddStackAdds ==
    ASSUME NEW acc \in Accs, NEW sample \in SampleType, NodesAreParents(acc.nodes)
    PROVE  LET next == AddStack(acc, sample)
               keys == KeysOf(sample.raw, sample.stack)
           IN /\ next \in Accs
              /\ DOMAIN next.weights = DOMAIN acc.weights \cup keys
              /\ \A key \in Keys : At(next.weights, key)
                    = At(acc.weights, key) + (IF key \in keys THEN sample.n ELSE 0)
              /\ NodesAreParents(next.nodes)
              /\ DOMAIN next.nodes
                    = DOMAIN acc.nodes \cup Paths(sample.stack, Len(sample.stack))
<1> DEFINE frames == sample.stack
           raw == sample.raw
           n == Len(frames)
<1>1. /\ frames \in Seq(STRING) /\ n \in Nat /\ raw \in Containers /\ sample.n \in Int
      /\ \A key \in Keys : At(acc.weights, key) \in Int
  <2>1. acc.weights \in Maps(Keys, Int)
    BY DEF Accs
  <2>2. \A key \in Keys : At(acc.weights, key) \in Int
    BY <2>1, MapsTyped DEF At
  <2> QED BY <2>2 DEF SampleType
<1>2. PICK w \in [0..n -> Accs] :
         /\ w[0] = [acc EXCEPT !.parentHash = <<>>]
         /\ \A k \in 1..n : w[k] = AddFrame(w[k - 1], sample, frames[k])
         /\ AddStack(acc, sample) = w[n]
  BY AddStackWalk
<1> HIDE DEF n, frames, raw
<1> DEFINE Done(k) ==
             /\ w[k].parentHash = Path(frames, k)
             /\ DOMAIN w[k].weights = DOMAIN acc.weights \cup PathKeys(raw, frames, k)
             /\ \A key \in Keys : At(w[k].weights, key)
                   = At(acc.weights, key) + (IF key \in PathKeys(raw, frames, k) THEN sample.n ELSE 0)
             /\ NodesAreParents(w[k].nodes)
             /\ DOMAIN w[k].nodes = DOMAIN acc.nodes \cup Paths(frames, k)
           P == {k \in 0..n : Done(k)}
<1>3. 0 \in P
  <2>1. Path(frames, 0) = <<>> /\ Paths(frames, 0) = {} /\ PathKeys(raw, frames, 0) = {}
    <3>1. 1..0 = {}
      OBVIOUS
    <3>2. Paths(frames, 0) = {}
      BY <3>1 DEF Paths
    <3> QED BY <1>1, <3>2 DEF Path, PathKeys
  <2>2. /\ w[0].parentHash = <<>> /\ w[0].weights = acc.weights /\ w[0].nodes = acc.nodes
    BY <1>2 DEF Accs
  <2>3. 0 \in 0..n
    BY <1>1
  <2>4. \A key \in Keys : At(acc.weights, key) = At(acc.weights, key) + 0
    BY <1>1
  <2>5. Done(0)
    BY <2>1, <2>2, <2>4
  <2> QED BY <2>3, <2>5
<1>4. ASSUME NEW k \in 1..n, k - 1 \in P PROVE k \in P
  <2> DEFINE last == w[k - 1]
             next == w[k]
             key0 == <<raw, Path(frames, k)>>
  <2>1. k - 1 \in 0..n /\ k \in 0..n /\ last \in Accs /\ next = AddFrame(last, sample, frames[k])
    BY <1>1, <1>2
  <2>2. Done(k - 1)
    BY <1>4
  <2>3. /\ frames[k] \in STRING /\ Append(last.parentHash, frames[k]) = Path(frames, k)
    BY <1>1, <2>2, PathFacts DEF n
  <2>4. /\ next.parentHash = Path(frames, k)
        /\ next.weights = Put(last.weights, key0, At(last.weights, key0) + sample.n)
        /\ key0 \in Keys
        /\ DOMAIN next.nodes = DOMAIN last.nodes \cup {Path(frames, k)}
        /\ NodesAreParents(last.nodes) => NodesAreParents(next.nodes)
    <3> DEFINE frame == frames[k]
               hash == Append(last.parentHash, frame)
               key == <<sample.raw, hash>>
               step == AddFrame(last, sample, frame)
    <3>1. last \in Accs /\ frame \in STRING /\ hash = Path(frames, k) /\ next = step
      BY <2>1, <2>3
    <3> HIDE DEF last, next, frame
    <3>2. /\ step.parentHash = hash
          /\ step.weights = Put(last.weights, key, At(last.weights, key) + sample.n)
          /\ key \in Keys
          /\ DOMAIN step.nodes = DOMAIN last.nodes \cup {hash}
          /\ NodesAreParents(last.nodes) => NodesAreParents(step.nodes)
      BY <3>1, AddFrameTyped
    <3>3. key = key0
      BY <3>1 DEF raw
    <3> HIDE DEF key, key0, step, hash
    <3> QED BY <3>1, <3>2, <3>3
  <2>5. /\ Paths(frames, k) = Paths(frames, k - 1) \cup {Path(frames, k)}
        /\ PathKeys(raw, frames, k) = PathKeys(raw, frames, k - 1) \cup {key0}
        /\ key0 \notin PathKeys(raw, frames, k - 1)
    BY <1>1, PathsGrow DEF n
  <2>9. /\ DOMAIN next.weights = DOMAIN last.weights \cup {key0}
        /\ \A key : At(next.weights, key) = IF key = key0 THEN At(last.weights, key0) + sample.n
                                             ELSE At(last.weights, key)
    <3> DEFINE total == At(last.weights, key0) + sample.n
               old == last.weights
    <3>1. next.weights = Put(old, key0, total)
      BY <2>4
    <3> HIDE DEF total, key0, old, last, next
    <3>2. /\ DOMAIN Put(old, key0, total) = DOMAIN old \cup {key0}
          /\ \A z : At(Put(old, key0, total), z) = IF z = key0 THEN total ELSE At(old, z)
      BY DEF Put, At
    <3> QED BY <3>1, <3>2 DEF total, old
  <2>6. DOMAIN next.weights = DOMAIN acc.weights \cup PathKeys(raw, frames, k)
    BY <2>2, <2>5, <2>9
  <2>7. ASSUME NEW key \in Keys
        PROVE  At(next.weights, key)
                 = At(acc.weights, key) + (IF key \in PathKeys(raw, frames, k) THEN sample.n ELSE 0)
    <3>1. At(next.weights, key) = IF key = key0 THEN At(last.weights, key0) + sample.n
                                   ELSE At(last.weights, key)
      BY <2>9
    <3>2. At(last.weights, key) = At(acc.weights, key)
             + (IF key \in PathKeys(raw, frames, k - 1) THEN sample.n ELSE 0)
      BY <2>2
    <3>3. CASE key = key0
      <4>1. key \notin PathKeys(raw, frames, k - 1) /\ key \in PathKeys(raw, frames, k)
        BY <2>5, <3>3
      <4>2. At(next.weights, key) = At(last.weights, key) + sample.n
        BY <3>1, <3>3
      <4> HIDE DEF last, next, key0, P
      <4> QED BY <1>1, <3>2, <4>1, <4>2
    <3>4. CASE key # key0
      <4>1. key \in PathKeys(raw, frames, k) <=> key \in PathKeys(raw, frames, k - 1)
        BY <2>5, <3>4
      <4> HIDE DEF last, next, key0, P
      <4> QED BY <3>1, <3>2, <3>4, <4>1
    <3> QED BY <3>3, <3>4
  <2>8. Done(k)
    <3> HIDE DEF key0
    <3> QED BY <2>2, <2>4, <2>5, <2>6, <2>7
  <2> QED BY <2>1, <2>8
<1> HIDE DEF Done
<1>5. 0..n \subseteq P
  <2> HIDE DEF P
  <2> QED BY <1>1, <1>3, <1>4, UpToInduction
<1>6. Done(n) /\ w[n] \in Accs
  BY <1>1, <1>2, <1>5
<1>7. KeysOf(raw, frames) = PathKeys(raw, frames, n)
  BY <1>1, KeysArePaths DEF n
<1> QED BY <1>2, <1>6, <1>7 DEF Done, n, frames, raw


(* Idle stacks add nothing. *)
SampleKeys(sample) ==
    IF IsKernelSwapper(sample.stack) THEN {} ELSE KeysOf(sample.raw, sample.stack)

NodesKnown(acc) ==
    /\ NodesAreParents(acc.nodes)
    /\ \A key \in DOMAIN acc.weights : key[2] \in DOMAIN acc.nodes

LEMMA AddSampleAdds ==
    ASSUME NEW acc \in Accs, NEW sample \in SampleType, NodesKnown(acc)
    PROVE  LET next == AddSample(acc, sample)
           IN /\ next \in Accs
              /\ DOMAIN next.weights = DOMAIN acc.weights \cup SampleKeys(sample)
              /\ \A key \in Keys : At(next.weights, key)
                    = At(acc.weights, key) + (IF key \in SampleKeys(sample) THEN sample.n ELSE 0)
              /\ NodesKnown(next)
<1> DEFINE next == AddSample(acc, sample)
           keys == KeysOf(sample.raw, sample.stack)
<1>1. \A key \in Keys : At(acc.weights, key) \in Int
  <2>1. acc.weights \in Maps(Keys, Int)
    BY DEF Accs
  <2> QED BY <2>1, MapsTyped DEF At
<1>2. CASE IsKernelSwapper(sample.stack)
  <2>1. next = acc /\ SampleKeys(sample) = {}
    BY <1>2 DEF AddSample, SampleKeys
  <2> HIDE DEF next
  <2>2. \A key \in Keys : At(acc.weights, key) = At(acc.weights, key) + 0
    BY <1>1
  <2> QED BY <2>1, <2>2 DEF next
<1>3. CASE ~IsKernelSwapper(sample.stack)
  <2>1. next = AddStack(acc, sample) /\ SampleKeys(sample) = keys
    BY <1>3 DEF AddSample, SampleKeys
  <2>2. /\ next \in Accs
        /\ DOMAIN next.weights = DOMAIN acc.weights \cup keys
        /\ \A key \in Keys : At(next.weights, key)
              = At(acc.weights, key) + (IF key \in keys THEN sample.n ELSE 0)
        /\ NodesAreParents(next.nodes)
        /\ DOMAIN next.nodes = DOMAIN acc.nodes \cup Paths(sample.stack, Len(sample.stack))
    BY <2>1, AddStackAdds DEF NodesKnown
  <2>3. \A key \in keys : key[2] \in Paths(sample.stack, Len(sample.stack))
    <3>1. keys = PathKeys(sample.raw, sample.stack, Len(sample.stack))
      BY KeysArePaths DEF SampleType
    <3> QED BY <3>1 DEF PathKeys
  <2> HIDE DEF keys, next
  <2>4. NodesKnown(next)
    BY <2>2, <2>3 DEF NodesKnown
  <2> QED BY <2>1, <2>2, <2>4 DEF next
<1> QED BY <1>2, <1>3

LEMMA AggregateWalk ==
    ASSUME samples \in Seq(SampleType)
    PROVE  \E w \in [0..Len(samples) -> Accs] :
              /\ w[0] = [weights |-> <<>>, nodes |-> <<>>, parentHash |-> <<>>]
              /\ \A k \in 1..Len(samples) : w[k] = AddSample(w[k - 1], samples[k])
              /\ \A k \in 0..Len(samples) : NodesKnown(w[k])
              /\ Aggregate = w[Len(samples)]
<1> DEFINE n == Len(samples)
           X == {acc \in Accs : NodesKnown(acc)}
           base == [weights |-> <<>>, nodes |-> <<>>, parentHash |-> <<>>]
           step == [k \in 1..n |-> [x \in X |-> AddSample(x, samples[k])]]
           IsWalk(g) == g = [s \in SUBSET (1..n) |->
                               IF s = {} THEN base
                               ELSE AddSample(g[s \ {Max(s)}], samples[Max(s)])]
           it == CHOOSE g : IsWalk(g)
<1>1. n \in Nat /\ DOMAIN samples = 1..n /\ \A k \in 1..n : samples[k] \in SampleType
  OBVIOUS
<1>0. base \in X
  <2>1. <<>> \in [{} -> Int] /\ <<>> \in [{} -> Node] /\ <<>> \in Seq(STRING) /\ DOMAIN <<>> = {}
    OBVIOUS
  <2>2. <<>> \in Maps(Keys, Int) /\ <<>> \in Maps(Seq(STRING), Node)
    BY <2>1 DEF Maps
  <2>3. base \in Accs
    BY <2>1, <2>2 DEF Accs
  <2> QED BY <2>1, <2>3 DEF NodesKnown, NodesAreParents
<1>2. \A k \in 1..n : \A x \in X : AddSample(x, samples[k]) \in X
  BY <1>1, AddSampleAdds
<1> HIDE DEF base, X
<1>3. step \in [1..n -> [X -> X]]
  BY <1>2
<1>4. PICK g \in [SUBSET (1..n) -> X] : Steps(g, step, base, SUBSET (1..n))
  <2> HIDE DEF step, n
  <2> QED BY <1>0, <1>1, <1>3, StepsExist
<1>5. IsWalk(g)
  <2>1. \A s \in SUBSET (1..n) : s # {} =>
           step[Max(s)][g[s \ {Max(s)}]] = AddSample(g[s \ {Max(s)}], samples[Max(s)])
    <3> SUFFICES ASSUME NEW s \in SUBSET (1..n), s # {}
                 PROVE  step[Max(s)][g[s \ {Max(s)}]]
                           = AddSample(g[s \ {Max(s)}], samples[Max(s)])
      OBVIOUS
    <3>1. Max(s) \in 1..n /\ g[s \ {Max(s)}] \in X
      BY <1>1, LastOfSubset
    <3> QED BY <3>1
  <2> HIDE DEF step, n
  <2>2. g = [s \in SUBSET (1..n) |-> IF s = {} THEN base ELSE step[Max(s)][g[s \ {Max(s)}]]]
    BY <1>4 DEF Steps
  <2> QED BY <2>1, <2>2
<1>6. IsWalk(it)
  <2> HIDE DEF IsWalk
  <2> QED BY <1>5, Zenon
<1>7. Aggregate = it[1..n]
  BY <1>1, Zenon DEF Aggregate, FoldLeft, MapThenFoldSet, base
<1> DEFINE w == [k \in 0..n |-> it[1..k]]
<1>8. w[0] = base
  <2>1. 1..0 = {} /\ {} \in SUBSET (1..n) /\ 0 \in 0..n
    BY <1>1
  <2>2. it[{}] = base
    BY <1>6, <2>1
  <2> HIDE DEF it, n
  <2> QED BY <2>1, <2>2
<1>9. ASSUME NEW k \in 1..n PROVE w[k] = AddSample(w[k - 1], samples[k])
  <2> DEFINE s == 1..k
  <2>1. s \in SUBSET (1..n) /\ s # {} /\ Max(s) = k /\ s \ {k} = 1..(k - 1)
    BY <1>1, LastOfInterval
  <2> HIDE DEF s, it
  <2>2. it[s] = AddSample(it[s \ {Max(s)}], samples[Max(s)])
    BY <1>6, <2>1
  <2>3. k \in 0..n /\ k - 1 \in 0..n
    BY <1>1
  <2> HIDE DEF n
  <2> QED BY <2>1, <2>2, <2>3 DEF s
<1>10. w \in [0..n -> X]
  <2> DEFINE P == {k \in 0..n : w[k] \in X}
  <2> HIDE DEF w
  <2>1. 0 \in P
    BY <1>0, <1>1, <1>8
  <2>2. ASSUME NEW k \in 1..n, k - 1 \in P PROVE k \in P
    BY <1>1, <1>2, <1>9, <2>2
  <2> HIDE DEF P
  <2>3. 0..n \subseteq P
    BY <1>1, <2>1, <2>2, UpToInduction
  <2>4. \A k \in 0..n : w[k] \in X
    BY <2>3 DEF P
  <2> HIDE DEF it, n
  <2> QED BY <2>4 DEF w
<1>11. Aggregate = w[n]
  <2>1. n \in 0..n
    BY <1>1
  <2> HIDE DEF it, n
  <2> QED BY <1>7, <2>1
<1> HIDE DEF w, it, IsWalk, step
<1>12. w \in [0..n -> Accs] /\ \A k \in 0..n : NodesKnown(w[k])
  BY <1>10 DEF X
<1> QED BY <1>8, <1>9, <1>11, <1>12 DEF base


(* What the samples say of a row: its key, and what they count together.   *)
SampleRowKeys(k) == UNION {SampleKeys(samples[j]) : j \in 1..k}
Through(key, k) == {j \in 1..k : key \in SampleKeys(samples[j])}
SampleCounts == [j \in DOMAIN samples |-> samples[j].n]

LEMMA SampleKeysTyped ==
    ASSUME NEW sample \in SampleType
    PROVE  SampleKeys(sample) \subseteq Keys
<1>1. KeysOf(sample.raw, sample.stack) \subseteq Keys
  BY KeysArePaths DEF SampleType
<1> QED BY <1>1 DEF SampleKeys

LEMMA ThroughGrows ==
    ASSUME samples \in Seq(SampleType), NEW k \in 1..Len(samples), NEW key
    PROVE  /\ SumOver(SampleCounts, Through(key, k - 1)) \in Int
           /\ SumOver(SampleCounts, Through(key, k))
                = SumOver(SampleCounts, Through(key, k - 1))
                    + (IF key \in SampleKeys(samples[k]) THEN samples[k].n ELSE 0)
<1> DEFINE S == Through(key, k - 1)
           T == Through(key, k)
<1>1. \A j \in 1..Len(samples) : SampleCounts[j] = samples[j].n /\ samples[j].n \in Int
  <2>1. \A j \in 1..Len(samples) : samples[j] \in SampleType /\ j \in DOMAIN samples
    OBVIOUS
  <2>2. \A s \in SampleType : s.n \in Int
    BY DEF SampleType
  <2> QED BY <2>1, <2>2 DEF SampleCounts
<1>2. IsFiniteSet(S) /\ S \subseteq 1..(k - 1)
  <2>1. IsFiniteSet(1..(k - 1)) /\ S \in SUBSET (1..(k - 1))
    BY FS_Interval DEF Through
  <2> QED BY <2>1, FS_Subset
<1>3. \A x \in S : SampleCounts[x] \in Int
  BY <1>1, <1>2
<1>4. SumOver(SampleCounts, S) \in Int
  BY <1>2, <1>3, SumInt
<1>5. CASE key \in SampleKeys(samples[k])
  <2>1. T = S \cup {k} /\ k \notin S
    BY <1>2, <1>5 DEF Through
  <2>2. \A x \in S \cup {k} : SampleCounts[x] \in Int
    BY <1>1, <1>3
  <2> HIDE DEF S, T
  <2>3. SumOver(SampleCounts, S \cup {k}) = SampleCounts[k] + SumOver(SampleCounts, S)
    BY <1>2, <2>1, <2>2, SumAdd
  <2>4. SampleCounts[k] = samples[k].n /\ samples[k].n \in Int
    BY <1>1
  <2>5. SumOver(SampleCounts, T) = SumOver(SampleCounts, S) + samples[k].n
    BY <1>4, <2>1, <2>3, <2>4
  <2> QED BY <1>4, <1>5, <2>5 DEF S, T
<1>6. CASE key \notin SampleKeys(samples[k])
  <2>1. T = S
    BY <1>6 DEF Through
  <2>2. SumOver(SampleCounts, T) = SumOver(SampleCounts, S) + 0
    <3> HIDE DEF S, T
    <3> QED BY <1>4, <2>1
  <2> QED BY <1>4, <1>6, <2>2
<1> QED BY <1>5, <1>6

LEMMA AggregateAdds ==
    ASSUME samples \in Seq(SampleType)
    PROVE  /\ DOMAIN Aggregate.weights = SampleRowKeys(Len(samples))
           /\ \A key \in DOMAIN Aggregate.weights :
                 /\ key \in Keys
                 /\ Aggregate.weights[key] = SumOver(SampleCounts, Through(key, Len(samples)))
                 /\ Aggregate.nodes[key[2]].parent = Front(key[2])
<1> DEFINE n == Len(samples)
<1>1. PICK w \in [0..n -> Accs] :
         /\ w[0] = [weights |-> <<>>, nodes |-> <<>>, parentHash |-> <<>>]
         /\ \A k \in 1..n : w[k] = AddSample(w[k - 1], samples[k])
         /\ \A k \in 0..n : NodesKnown(w[k])
         /\ Aggregate = w[n]
  BY AggregateWalk
<1>2. n \in Nat /\ \A k \in 1..n : samples[k] \in SampleType
  OBVIOUS
<1> HIDE DEF n
<1> DEFINE Done(k) ==
             /\ DOMAIN w[k].weights = SampleRowKeys(k)
             /\ \A key \in Keys : At(w[k].weights, key) = SumOver(SampleCounts, Through(key, k))
           P == {k \in 0..n : Done(k)}
<1>3. 0 \in P
  <2>1. 1..0 = {} /\ 0 \in 0..n
    BY <1>2
  <2>2. SampleRowKeys(0) = {}
    BY <2>1 DEF SampleRowKeys
  <2>3. \A key : Through(key, 0) = {}
    BY <2>1 DEF Through
  <2>4. DOMAIN w[0].weights = {}
    BY <1>1
  <2>5. \A key \in Keys : At(w[0].weights, key) = 0
    <3> HIDE DEF P, Done
    <3> QED BY <2>4 DEF At
  <2>6. SumOver(SampleCounts, {}) = 0
    BY SumEmpty
  <2>7. Done(0)
    BY <2>2, <2>3, <2>4, <2>5, <2>6
  <2> QED BY <2>1, <2>7
<1>4. ASSUME NEW k \in 1..n, k - 1 \in P PROVE k \in P
  <2> DEFINE last == w[k - 1]
             next == w[k]
             sample == samples[k]
  <2>1. /\ k - 1 \in 0..n /\ k \in 0..n /\ last \in Accs /\ sample \in SampleType
        /\ NodesKnown(last) /\ next = AddSample(last, sample)
    BY <1>1, <1>2
  <2>2. Done(k - 1)
    BY <1>4
  <2>3. /\ DOMAIN next.weights = DOMAIN last.weights \cup SampleKeys(sample)
        /\ \A key \in Keys : At(next.weights, key)
              = At(last.weights, key) + (IF key \in SampleKeys(sample) THEN sample.n ELSE 0)
    <3> HIDE DEF last, next, sample
    <3> QED BY <2>1, AddSampleAdds
  <2>4. SampleRowKeys(k) = SampleRowKeys(k - 1) \cup SampleKeys(sample)
    <3>1. 1..k = 1..(k - 1) \cup {k}
      BY <1>2
    <3> QED BY <3>1 DEF SampleRowKeys
  <2>5. DOMAIN w[k].weights = SampleRowKeys(k)
    BY <2>2, <2>3, <2>4
  <2>6. \A key \in Keys : At(w[k].weights, key) = SumOver(SampleCounts, Through(key, k))
    <3> SUFFICES ASSUME NEW key \in Keys
                 PROVE  At(next.weights, key) = SumOver(SampleCounts, Through(key, k))
      OBVIOUS
    <3>1. SumOver(SampleCounts, Through(key, k))
            = SumOver(SampleCounts, Through(key, k - 1))
                + (IF key \in SampleKeys(sample) THEN sample.n ELSE 0)
      BY ThroughGrows DEF n
    <3>2. At(last.weights, key) = SumOver(SampleCounts, Through(key, k - 1))
      BY <2>2
    <3>3. At(next.weights, key)
            = At(last.weights, key) + (IF key \in SampleKeys(sample) THEN sample.n ELSE 0)
      BY <2>3
    <3> HIDE DEF last, next, sample, P
    <3> QED BY <3>1, <3>2, <3>3
  <2> QED BY <2>1, <2>5, <2>6
<1>5. 0..n \subseteq P
  <2> HIDE DEF P
  <2> QED BY <1>2, <1>3, <1>4, UpToInduction
<1>6. Done(n) /\ Aggregate \in Accs /\ NodesKnown(Aggregate)
  <2>1. n \in 0..n
    BY <1>2
  <2> QED BY <1>1, <1>5, <2>1
<1>7. DOMAIN Aggregate.weights \subseteq Keys
  <2>1. Aggregate.weights \in Maps(Keys, Int)
    BY <1>6 DEF Accs
  <2> QED BY <2>1, MapsTyped
<1>8. ASSUME NEW key \in DOMAIN Aggregate.weights
      PROVE  Aggregate.weights[key] = SumOver(SampleCounts, Through(key, n))
  <2>1. At(Aggregate.weights, key) = Aggregate.weights[key]
    BY DEF At
  <2> QED BY <1>1, <1>6, <1>7, <2>1
<1>9. \A key \in DOMAIN Aggregate.weights : Aggregate.nodes[key[2]].parent = Front(key[2])
  BY <1>6 DEF NodesKnown, NodesAreParents
<1> QED BY <1>1, <1>6, <1>7, <1>8, <1>9 DEF n


-----------------------------------------------------------------------------
(* The file: what the parser keeps of it is what a reader expects.         *)
HeadersTo(i) == {j \in 1..i : read[j].kind = "header"}
LinesThrough(key) == {i \in Profiled : key \in LineKeys(i)}

(* The header in force is the last one above. *)
HeaderInForce ==
    header = IF HeadersTo(Len(read)) = {} THEN NoHeader
             ELSE ParseHeaderLine(HeaderAbove(Len(read)))

(* Samples and lines come to the same keys and the same counts. *)
SamplesAreTheLines ==
    stage # "refused" =>
        /\ \A i \in Counted : HeadersTo(i) # {} /\ Len(read[i].fields) > Skipped(i)
        /\ SampleRowKeys(Len(samples)) = RowKeys
        /\ \A key \in Keys : SumOver(SampleCounts, Through(key, Len(samples)))
                                = SumOver(LineCounts, LinesThrough(key))

RowsAreTheSamples ==
    IF stage \in {"emitted", "empty"}
    THEN /\ DOMAIN block.rows = SampleRowKeys(Len(samples))
         /\ \A key \in DOMAIN block.rows :
               /\ key \in Keys
               /\ block.rows[key].n = SumOver(SampleCounts, Through(key, Len(samples)))
               /\ block.rows[key].node.parent = Front(key[2])
               /\ block.rows[key].names = ContainerAndK8sName(key[1])
    ELSE block = NoBlock

BlockInv ==
    /\ stage \in {"parse", "refused", "emitted", "empty"}
    /\ read \in Seq(Lines)
    /\ samples \in Seq(SampleType)
    /\ HeaderInForce
    /\ SamplesAreTheLines
    /\ RowsAreTheSamples

(* A line further down changes nothing about the lines above it. *)
LEMMA LinesAbove ==
    ASSUME read \in Seq(Lines), NEW line \in Lines, read' = Append(read, line),
           NEW i \in 1..Len(read)
    PROVE  /\ read'[i] = read[i] /\ HeadersTo(i)' = HeadersTo(i)
           /\ i \in Counted' <=> i \in Counted
           /\ HeadersTo(i) # {} =>
                 /\ HeaderAbove(i)' = HeaderAbove(i)
                 /\ Skipped(i)' = Skipped(i) /\ LineKeys(i)' = LineKeys(i)
                 /\ i \in Profiled' <=> i \in Profiled
<1>1. /\ \A j \in 1..Len(read) : read'[j] = read[j]
      /\ Len(read') = Len(read) + 1 /\ Len(read) \in Nat
      /\ DOMAIN read = 1..Len(read) /\ DOMAIN read' = 1..Len(read')
  BY AppendProperties
<1>2. HeadersTo(i)' = HeadersTo(i)
  BY <1>1 DEF HeadersTo
<1>3. i \in Counted' <=> i \in Counted
  BY <1>1 DEF Counted, Counts, IsSample
<1>4. ASSUME HeadersTo(i) # {} PROVE HeaderAbove(i)' = HeaderAbove(i)
  <2> DEFINE m == Max(HeadersTo(i))
  <2>1. HeaderAbove(i)' = read'[m] /\ HeaderAbove(i) = read[m]
    BY <1>2 DEF HeaderAbove, HeadersTo
  <2>2. m \in 1..Len(read)
    <3>1. HeadersTo(i) \in SUBSET (1..Len(read))
      BY <1>1 DEF HeadersTo
    <3> QED BY <1>1, <1>4, <3>1, LastOfSubset
  <2> QED BY <1>1, <2>1, <2>2
<1>5. ASSUME HeadersTo(i) # {}
      PROVE  /\ Skipped(i)' = Skipped(i) /\ LineKeys(i)' = LineKeys(i)
             /\ i \in Profiled' <=> i \in Profiled
  <2>1. HeaderAbove(i)' = HeaderAbove(i) /\ read'[i] = read[i]
    BY <1>1, <1>4, <1>5
  <2>2. Skipped(i)' = Skipped(i)
    BY <2>1 DEF Skipped
  <2>3. Frames(i)' = Frames(i) /\ RawContainer(i)' = RawContainer(i)
    BY <2>1, <2>2 DEF Frames, RawContainer
  <2>4. LineKeys(i)' = LineKeys(i)
    BY <2>3 DEF LineKeys
  <2>5. i \in Profiled' <=> i \in Profiled
    BY <1>3, <2>3 DEF Profiled
  <2> QED BY <2>2, <2>4, <2>5
<1> QED BY <1>1, <1>2, <1>3, <1>4, <1>5

LEMMA NextLine ==
    ASSUME read \in Seq(Lines), NEW line \in Lines, read' = Append(read, line),
           NEW n, n = Len(read)
    PROVE  /\ n \in Nat /\ Len(read') = n + 1 /\ read'[n + 1] = line
           /\ read' \in Seq(Lines)
           /\ DOMAIN read = 1..n /\ DOMAIN read' = 1..n \cup {n + 1}
           /\ line.kind = "header" =>
                 HeadersTo(n + 1)' # {} /\ HeaderAbove(n + 1)' = line
           /\ line.kind # "header" =>
                 /\ HeadersTo(n + 1)' = HeadersTo(n)
                 /\ HeadersTo(n) # {} => HeaderAbove(n + 1)' = HeaderAbove(n)
<1>1. /\ \A j \in 1..n : read'[j] = read[j]
      /\ n \in Nat /\ Len(read') = n + 1 /\ read'[n + 1] = line /\ read' \in Seq(Lines)
      /\ DOMAIN read = 1..n /\ DOMAIN read' = 1..(n + 1)
  BY AppendProperties
<1>2. 1..(n + 1) = 1..n \cup {n + 1} /\ n + 1 \notin 1..n
  BY <1>1
<1>4. HeadersTo(n + 1)' = {j \in 1..(n + 1) : read'[j].kind = "header"}
  BY DEF HeadersTo
<1>5. ASSUME line.kind = "header"
      PROVE  HeadersTo(n + 1)' # {} /\ HeaderAbove(n + 1)' = line
  <2> DEFINE H == HeadersTo(n + 1)'
             m == Max(H)
  <2>1. n + 1 \in H /\ H \in SUBSET (1..(n + 1))
    BY <1>1, <1>2, <1>4, <1>5
  <2>2. HeaderAbove(n + 1)' = read'[m]
    BY <1>4 DEF HeaderAbove
  <2> HIDE DEF H
  <2>3. IsFiniteSet(H) /\ H \subseteq Int /\ H # {}
    <3>1. IsFiniteSet(1..(n + 1)) /\ n + 1 \in Int /\ 1..(n + 1) \subseteq Int
      BY <1>1, FS_Interval
    <3> QED BY <2>1, <3>1, FS_Subset
  <2>4. m \in H /\ \A i \in H : i <= m
    BY <2>3, GreatestAndLeast
  <2> HIDE DEF m
  <2>5. m = n + 1
    BY <1>1, <2>1, <2>4
  <2> QED BY <1>1, <2>1, <2>2, <2>5 DEF H
<1>6. ASSUME line.kind # "header"
      PROVE  /\ HeadersTo(n + 1)' = HeadersTo(n)
             /\ HeadersTo(n) # {} => HeaderAbove(n + 1)' = HeaderAbove(n)
  <2>1. HeadersTo(n + 1)' = HeadersTo(n)
    BY <1>1, <1>2, <1>4, <1>6 DEF HeadersTo
  <2> DEFINE m == Max(HeadersTo(n))
  <2>2. HeaderAbove(n + 1)' = read'[m] /\ HeaderAbove(n) = read[m]
    BY <2>1 DEF HeaderAbove, HeadersTo
  <2>3. HeadersTo(n) # {} => m \in 1..n
    <3>1. HeadersTo(n) \in SUBSET (1..n)
      BY DEF HeadersTo
    <3> QED BY <1>1, <3>1, LastOfSubset
  <2> HIDE DEF m
  <2> QED BY <1>1, <2>1, <2>2, <2>3
<1> QED BY <1>1, <1>2, <1>5, <1>6

LEMMA HeaderKept ==
    ASSUME read \in Seq(Lines), HeaderInForce,
           NEW line \in Lines, read' = Append(read, line),
           header' = IF line.kind = "header" THEN ParseHeaderLine(line) ELSE header
    PROVE  HeaderInForce'
<1>0. PICK n : n = Len(read)
  OBVIOUS
<1>1. /\ Len(read') = n + 1
      /\ line.kind = "header" => HeadersTo(n + 1)' # {} /\ HeaderAbove(n + 1)' = line
      /\ line.kind # "header" =>
            /\ HeadersTo(n + 1)' = HeadersTo(n)
            /\ HeadersTo(n) # {} => HeaderAbove(n + 1)' = HeaderAbove(n)
  BY <1>0, NextLine
<1>2. HeaderInForce' <=>
         header' = IF HeadersTo(n + 1)' = {} THEN NoHeader ELSE ParseHeaderLine(HeaderAbove(n + 1)')
  BY <1>1 DEF HeaderInForce, ParseHeaderLine, NoHeader, HeadersTo, HeaderAbove
<1>3. CASE line.kind = "header"
  BY <1>1, <1>2, <1>3
<1>4. CASE line.kind # "header"
  BY <1>0, <1>1, <1>2, <1>4 DEF HeaderInForce
<1> QED BY <1>3, <1>4

(* A call stack is taken apart under the header in force as under the one  *)
(* above its line.                                                         *)
LEMMA SplitIsReading ==
    ASSUME read \in Seq(Lines), HeaderInForce, header.seen,
           NEW line \in Lines, IsSample(line), read' = Append(read, line),
           NEW n, n = Len(read), NEW i, i = n + 1
    PROVE  LET s == SplitCallstack(line.fields, header)
           IN /\ HeadersTo(i)' # {} /\ line.fields \in Seq(STRING) /\ line.count \in Int
              /\ s.ok <=> Len(line.fields) > Skipped(i)'
              /\ s.stack = Frames(i)' /\ s.stack \in Seq(STRING)
              /\ s.ok => s.raw = RawContainer(i)' /\ s.raw \in Containers
<1> DEFINE H == HeaderAbove(n)
           s == SplitCallstack(line.fields, header)
           skipped == IF H.version = "v1" THEN 0 ELSE IF H.appMeta THEN 2 ELSE 1
<1>1. line.kind = "sample" /\ line.kind # "header" /\ line.fields \in Seq(STRING) /\ line.count \in Int
  BY LinesAssumption DEF IsSample
<1>2. HeadersTo(n) # {} /\ header = ParseHeaderLine(H)
  BY DEF HeaderInForce, NoHeader
<1>3. read'[i] = line /\ HeadersTo(i)' # {} /\ HeaderAbove(i)' = H
  BY <1>1, <1>2, NextLine
<1>4. Skipped(i)' = skipped
  BY <1>3 DEF Skipped
<1>5. (IF ~header.withContainer THEN 0 ELSE IF header.withAppMeta THEN 2 ELSE 1) = skipped
  BY <1>2 DEF ParseHeaderLine
<1>6. skipped \in Nat /\ (skipped = 0 \/ skipped >= 1)
  OBVIOUS
<1>7. s = [ok |-> Len(line.fields) > skipped,
           raw |-> IF skipped \in DOMAIN line.fields THEN line.fields[skipped] ELSE "",
           stack |-> StackOf(line.fields, skipped)]
  BY <1>5 DEF SplitCallstack
<1> HIDE DEF skipped, s, H
<1>8. s.stack = Frames(i)' /\ s.stack \in Seq(STRING)
  BY <1>1, <1>3, <1>4, <1>6, <1>7, StackTyped DEF Frames
<1>9. s.ok <=> Len(line.fields) > Skipped(i)'
  BY <1>4, <1>7
<1>10. ASSUME s.ok PROVE s.raw = RawContainer(i)' /\ s.raw \in Containers
  <2>1. Len(line.fields) > skipped /\ DOMAIN line.fields = 1..Len(line.fields) /\ Len(line.fields) \in Nat
    BY <1>1, <1>4, <1>9, <1>10
  <2>5. s.raw = IF skipped \in DOMAIN line.fields THEN line.fields[skipped] ELSE ""
    BY <1>7
  <2>2. RawContainer(i)' = IF skipped = 0 THEN "" ELSE line.fields[skipped]
    BY <1>3, <1>4 DEF RawContainer
  <2>3. CASE skipped = 0
    <3>1. 0 \notin DOMAIN line.fields
      BY <2>1
    <3>2. s.raw = "" /\ RawContainer(i)' = ""
      BY <2>2, <2>3, <2>5, <3>1
    <3> QED BY <3>2 DEF Containers
  <2>4. CASE skipped >= 1
    <3>1. skipped \in 1..Len(line.fields) /\ skipped # 0
      BY <1>6, <2>1, <2>4
    <3>2. line.fields[skipped] \in STRING
      BY <1>1, <3>1
    <3> QED BY <2>1, <2>2, <2>5, <3>1, <3>2 DEF Containers
  <2> QED BY <1>6, <2>3, <2>4
<1> QED BY <1>1, <1>3, <1>8, <1>9, <1>10 DEF s

LEMMA OldLines ==
    ASSUME read \in Seq(Lines), NEW line \in Lines, read' = Append(read, line),
           NEW n, n = Len(read), \A i \in Counted : HeadersTo(i) # {}
    PROVE  /\ Counted \subseteq 1..n /\ n \in Nat /\ n + 1 \notin 1..n
           /\ Counted' = Counted \cup (IF Counts(line) THEN {n + 1} ELSE {})
           /\ Profiled' \ {n + 1} = Profiled
           /\ Profiled \subseteq Counted /\ Profiled' \subseteq Counted'
           /\ \A i \in Profiled : LineKeys(i)' = LineKeys(i)
           /\ \A i \in Counted : /\ read'[i] = read[i] /\ Skipped(i)' = Skipped(i)
                                 /\ HeadersTo(i)' = HeadersTo(i)
<1>1. /\ n \in Nat /\ n + 1 \notin 1..n /\ read'[n + 1] = line
      /\ DOMAIN read = 1..n /\ DOMAIN read' = 1..n \cup {n + 1}
  <2>1. n \in Nat
    OBVIOUS
  <2> QED BY <2>1, NextLine
<1>2. \A i \in 1..n : /\ read'[i] = read[i] /\ HeadersTo(i)' = HeadersTo(i)
                      /\ i \in Counted' <=> i \in Counted
  BY LinesAbove
<1>3. Counted \subseteq 1..n /\ Counted' \subseteq 1..n \cup {n + 1}
  BY <1>1 DEF Counted
<1>4. n + 1 \in Counted' <=> Counts(line)
  BY <1>1 DEF Counted, Counts, IsSample
<1>5. Counted' = Counted \cup (IF Counts(line) THEN {n + 1} ELSE {})
  BY <1>1, <1>2, <1>3, <1>4
<1>6. Profiled \subseteq Counted /\ Profiled' \subseteq Counted'
  BY DEF Profiled
<1>7. \A i \in Counted : /\ Skipped(i)' = Skipped(i) /\ LineKeys(i)' = LineKeys(i)
                         /\ i \in Profiled' <=> i \in Profiled
  BY <1>3, LinesAbove
<1>8. Profiled' \ {n + 1} = Profiled
  BY <1>1, <1>2, <1>3, <1>6, <1>7
<1> QED BY <1>1, <1>2, <1>3, <1>5, <1>6, <1>7, <1>8

LEMMA LinesCounted ==
    ASSUME read \in Seq(Lines)
    PROVE  /\ \A i \in Counted : LineCounts[i] = read[i].count /\ read[i].count \in Int
           /\ \A S \in SUBSET Counted : IsFiniteSet(S)
<1>1. DOMAIN read = 1..Len(read) /\ Len(read) \in Nat /\ \A i \in DOMAIN read : read[i] \in Lines
  OBVIOUS
<1>2. \A i \in Counted : i \in DOMAIN read /\ read[i].kind = "sample"
  BY DEF Counted, Counts, IsSample
<1>3. \A i \in Counted : LineCounts[i] = read[i].count
  BY DEF LineCounts
<1>4. \A i \in Counted : read[i].count \in Int
  BY <1>1, <1>2, LinesAssumption
<1>5. IsFiniteSet(DOMAIN read)
  BY <1>1, FS_Interval
<1>6. \A S \in SUBSET Counted : S \subseteq DOMAIN read
  BY <1>2
<1>7. \A S \in SUBSET Counted : IsFiniteSet(S)
  BY <1>5, <1>6, FS_Subset
<1> QED BY <1>3, <1>4, <1>7

(* A line adds its keys and its count, or nothing if it is not profiled. *)
LEMMA LineAdds ==
    ASSUME read \in Seq(Lines), NEW line \in Lines, read' = Append(read, line),
           NEW n, n = Len(read), \A i \in Counted : HeadersTo(i) # {}
    PROVE  LET keys == IF n + 1 \in Profiled' THEN LineKeys(n + 1)' ELSE {}
           IN /\ RowKeys' = RowKeys \cup keys
              /\ \A key : /\ SumOver(LineCounts, LinesThrough(key)) \in Int
                          /\ SumOver(LineCounts', LinesThrough(key)')
                               = SumOver(LineCounts, LinesThrough(key))
                                   + (IF key \in keys THEN line.count ELSE 0)
<1> DEFINE keys == IF n + 1 \in Profiled' THEN LineKeys(n + 1)' ELSE {}
<1>1. /\ Counted \subseteq 1..n /\ n + 1 \notin 1..n
      /\ Counted' = Counted \cup (IF Counts(line) THEN {n + 1} ELSE {})
      /\ Profiled' \ {n + 1} = Profiled
      /\ Profiled \subseteq Counted /\ Profiled' \subseteq Counted'
      /\ \A i \in Profiled : LineKeys(i)' = LineKeys(i)
      /\ \A i \in Counted : read'[i] = read[i]
  BY OldLines
<1>2. RowKeys' = UNION {LineKeys(i)' : i \in Profiled'}
  BY DEF RowKeys
<1>3. RowKeys' = RowKeys \cup keys
  BY <1>1, <1>2 DEF RowKeys
<1>4. ASSUME NEW key
      PROVE  /\ SumOver(LineCounts, LinesThrough(key)) \in Int
             /\ SumOver(LineCounts', LinesThrough(key)')
                  = SumOver(LineCounts, LinesThrough(key))
                      + (IF key \in keys THEN line.count ELSE 0)
  <2> DEFINE S == LinesThrough(key)
             T == LinesThrough(key)'
             f == LineCounts
             g == LineCounts'
  <2>1. S \in SUBSET Counted /\ n + 1 \notin S
    BY <1>1 DEF LinesThrough
  <2>2. T = {i \in Profiled' : key \in LineKeys(i)'}
    BY DEF LinesThrough
  <2>3. S = {i \in Profiled : key \in LineKeys(i)}
    BY DEF LinesThrough
  <2>4. T = S \cup (IF key \in keys THEN {n + 1} ELSE {})
    BY <1>1, <2>2, <2>3
  <2>5. IsFiniteSet(S) /\ \A i \in S : f[i] = read[i].count /\ f[i] \in Int
    BY <2>1, LinesCounted
  <2>6. \A i \in Counted' : g[i] = read'[i].count
    BY DEF LineCounts
  <2>7. \A i \in S : g[i] = f[i] /\ g[i] \in Int
    BY <1>1, <2>1, <2>5, <2>6
  <2> HIDE DEF S, T, f, g
  <2>8. SumOver(f, S) \in Int /\ SumOver(g, S) = SumOver(f, S)
    <3>1. SumOver(f, S) \in Int
      BY <2>5, SumInt
    <3>2. SumOver(g, S) = SumOver(f, S)
      BY <2>5, <2>7, SumEqual
    <3> QED BY <3>1, <3>2
  <2>9. CASE key \in keys
    <3>1. n + 1 \in Counted' /\ Counts(line)
      BY <1>1, <2>9
    <3>2. g[n + 1] = line.count /\ line.count \in Int
      <4>1. read'[n + 1] = line
        BY NextLine
      <4>2. line.count \in Int
        BY <3>1, LinesAssumption DEF Counts, IsSample
      <4> QED BY <2>6, <3>1, <4>1, <4>2
    <3>3. T = S \cup {n + 1}
      BY <2>4, <2>9
    <3>4. \A x \in S \cup {n + 1} : g[x] \in Int
      BY <2>7, <3>2
    <3> HIDE DEF keys
    <3>5. SumOver(g, S \cup {n + 1}) = g[n + 1] + SumOver(g, S)
      BY <2>1, <2>5, <3>4, SumAdd DEF S
    <3> QED BY <2>8, <2>9, <3>2, <3>3, <3>5 DEF S, T, f, g
  <2>10. CASE key \notin keys
    <3>1. T = S
      BY <2>4, <2>10
    <3> HIDE DEF keys
    <3>2. SumOver(g, T) = SumOver(f, S) + 0
      BY <2>8, <3>1
    <3> QED BY <2>8, <2>10, <3>2 DEF S, T, f, g
  <2> QED BY <2>9, <2>10
<1> QED BY <1>3, <1>4

(* A sample more adds its keys and its count to those before it. *)
LEMMA SampleAdds ==
    ASSUME samples \in Seq(SampleType), NEW s \in SampleType, samples' = Append(samples, s),
           NEW m, m = Len(samples)
    PROVE  /\ samples' \in Seq(SampleType) /\ Len(samples') = m + 1
           /\ SampleRowKeys(m + 1)' = SampleRowKeys(m) \cup SampleKeys(s)
           /\ \A key : /\ SumOver(SampleCounts, Through(key, m)) \in Int
                       /\ SumOver(SampleCounts', Through(key, m + 1)')
                            = SumOver(SampleCounts, Through(key, m))
                                + (IF key \in SampleKeys(s) THEN s.n ELSE 0)
<1>1. /\ m \in Nat /\ samples' \in Seq(SampleType) /\ Len(samples') = m + 1
      /\ samples'[m + 1] = s /\ \A j \in 1..m : samples'[j] = samples[j]
      /\ DOMAIN samples = 1..m /\ DOMAIN samples' = 1..(m + 1)
      /\ \A j \in 1..m : samples[j] \in SampleType
  BY AppendProperties
<1>2. 1..(m + 1) = 1..m \cup {m + 1} /\ m + 1 \notin 1..m
  BY <1>1
<1>6. IsFiniteSet(1..m)
  BY <1>1, FS_Interval
<1>3. SampleRowKeys(m + 1)' = UNION {SampleKeys(samples'[j]) : j \in 1..(m + 1)}
  BY DEF SampleRowKeys, SampleKeys
<1>4. SampleRowKeys(m + 1)' = SampleRowKeys(m) \cup SampleKeys(s)
  BY <1>1, <1>2, <1>3 DEF SampleRowKeys
<1>5. ASSUME NEW key
      PROVE  /\ SumOver(SampleCounts, Through(key, m)) \in Int
             /\ SumOver(SampleCounts', Through(key, m + 1)')
                  = SumOver(SampleCounts, Through(key, m))
                      + (IF key \in SampleKeys(s) THEN s.n ELSE 0)
  <2> DEFINE S == Through(key, m)
             T == Through(key, m + 1)'
             f == SampleCounts
             g == SampleCounts'
  <2>1. T = {j \in 1..(m + 1) : key \in SampleKeys(samples'[j])}
    BY DEF Through, SampleKeys
  <2>2. S = {j \in 1..m : key \in SampleKeys(samples[j])}
    BY DEF Through
  <2>3. T = S \cup (IF key \in SampleKeys(s) THEN {m + 1} ELSE {}) /\ m + 1 \notin S
    BY <1>1, <1>2, <2>1, <2>2
  <2>4. IsFiniteSet(S)
    BY <1>6, <2>2, FS_Subset
  <2>5. \A t \in SampleType : t.n \in Int
    BY DEF SampleType
  <2>6. \A j \in S : f[j] = samples[j].n /\ f[j] \in Int
    BY <1>1, <2>2, <2>5 DEF SampleCounts
  <2>7. \A j \in 1..(m + 1) : g[j] = samples'[j].n
    BY <1>1 DEF SampleCounts
  <2>8. /\ \A j \in S : g[j] = f[j] /\ g[j] \in Int
        /\ g[m + 1] = s.n /\ g[m + 1] \in Int
    BY <1>1, <1>2, <2>2, <2>5, <2>6, <2>7
  <2> HIDE DEF S, T, f, g
  <2>9. SumOver(f, S) \in Int
    BY <2>4, <2>6, SumInt
  <2>10. SumOver(g, S) = SumOver(f, S)
    BY <2>4, <2>6, <2>8, SumEqual
  <2>11. CASE key \in SampleKeys(s)
    <3>1. T = S \cup {m + 1} /\ \A x \in S \cup {m + 1} : g[x] \in Int
      BY <2>3, <2>8, <2>11
    <3>2. SumOver(g, T) = g[m + 1] + SumOver(g, S)
      BY <2>3, <2>4, <3>1, SumAdd
    <3>3. SumOver(g, T) = SumOver(f, S) + s.n
      BY <2>8, <2>9, <2>10, <3>2
    <3> QED BY <2>9, <2>11, <3>3 DEF S, T, f, g
  <2>12. CASE key \notin SampleKeys(s)
    <3>1. T = S
      BY <2>3, <2>12
    <3>2. SumOver(g, T) = SumOver(f, S) + 0
      BY <2>9, <2>10, <3>1
    <3> QED BY <2>9, <2>12, <3>2 DEF S, T, f, g
  <2> QED BY <2>11, <2>12
<1> QED BY <1>1, <1>4, <1>5

(* The lines stay what the samples are if the next line brings as much to  *)
(* the one as to the other: nothing, or its keys and its count.            *)
LEMMA NothingMore ==
    ASSUME read \in Seq(Lines), stage = "parse", SamplesAreTheLines,
           NEW line \in Lines, read' = Append(read, line), samples' = samples,
           NEW n, n = Len(read), n + 1 \notin Profiled',
           Counts(line) => HeadersTo(n + 1)' # {} /\ Len(line.fields) > Skipped(n + 1)'
    PROVE  SamplesAreTheLines'
<1>1. /\ \A i \in Counted : HeadersTo(i) # {} /\ Len(read[i].fields) > Skipped(i)
      /\ SampleRowKeys(Len(samples)) = RowKeys
      /\ \A key \in Keys : SumOver(SampleCounts, Through(key, Len(samples)))
                              = SumOver(LineCounts, LinesThrough(key))
  BY DEF SamplesAreTheLines
<1>2. /\ Counted' = Counted \cup (IF Counts(line) THEN {n + 1} ELSE {})
      /\ \A i \in Counted : /\ read'[i] = read[i] /\ Skipped(i)' = Skipped(i)
                            /\ HeadersTo(i)' = HeadersTo(i)
  BY <1>1, OldLines
<1>3. read'[n + 1] = line
  BY NextLine
<1>4. \A i \in Counted' : HeadersTo(i)' # {} /\ Len(read'[i].fields) > Skipped(i)'
  BY <1>1, <1>2, <1>3
<1>5. /\ RowKeys' = RowKeys
      /\ \A key : /\ SumOver(LineCounts, LinesThrough(key)) \in Int
                  /\ SumOver(LineCounts', LinesThrough(key)')
                       = SumOver(LineCounts, LinesThrough(key)) + 0
  <2> DEFINE keys == IF n + 1 \in Profiled' THEN LineKeys(n + 1)' ELSE {}
  <2>1. /\ RowKeys' = RowKeys \cup keys
        /\ \A key : /\ SumOver(LineCounts, LinesThrough(key)) \in Int
                    /\ SumOver(LineCounts', LinesThrough(key)')
                         = SumOver(LineCounts, LinesThrough(key))
                             + (IF key \in keys THEN line.count ELSE 0)
    BY <1>1, LineAdds
  <2>2. keys = {}
    OBVIOUS
  <2> HIDE DEF keys
  <2> QED BY <2>1, <2>2
<1>6. SampleRowKeys(Len(samples))' = SampleRowKeys(Len(samples))
  BY DEF SampleRowKeys, SampleKeys
<1>7. \A key : Through(key, Len(samples))' = Through(key, Len(samples))
  BY DEF Through, SampleKeys
<1>8. SampleCounts' = SampleCounts
  BY DEF SampleCounts
<1>9. ASSUME NEW key \in Keys
      PROVE  SumOver(SampleCounts', Through(key, Len(samples))')
                = SumOver(LineCounts', LinesThrough(key)')
  <2>1. SumOver(SampleCounts', Through(key, Len(samples))')
           = SumOver(SampleCounts, Through(key, Len(samples)))
    BY <1>7, <1>8
  <2>2. SumOver(SampleCounts, Through(key, Len(samples))) = SumOver(LineCounts, LinesThrough(key))
    BY <1>1
  <2>3. SumOver(LineCounts', LinesThrough(key)') = SumOver(LineCounts, LinesThrough(key))
    BY <1>5
  <2> QED BY <2>1, <2>2, <2>3
<1>10. SamplesAreTheLines' <=>
         (stage' # "refused" =>
            /\ \A i \in Counted' : HeadersTo(i)' # {} /\ Len(read'[i].fields) > Skipped(i)'
            /\ SampleRowKeys(Len(samples))' = RowKeys'
            /\ \A key \in Keys : SumOver(SampleCounts', Through(key, Len(samples))')
                                    = SumOver(LineCounts', LinesThrough(key)'))
  BY DEF SamplesAreTheLines
<1> QED BY <1>1, <1>4, <1>5, <1>6, <1>9, <1>10

LEMMA AsMuchMore ==
    ASSUME read \in Seq(Lines), stage = "parse", SamplesAreTheLines,
           samples \in Seq(SampleType),
           NEW line \in Lines, read' = Append(read, line),
           NEW s \in SampleType, samples' = Append(samples, s),
           NEW n, n = Len(read),
           SampleKeys(s) = (IF n + 1 \in Profiled' THEN LineKeys(n + 1)' ELSE {}),
           s.n = line.count,
           HeadersTo(n + 1)' # {}, Len(line.fields) > Skipped(n + 1)'
    PROVE  SamplesAreTheLines'
<1>0. PICK m : m = Len(samples)
  OBVIOUS
<1>1. /\ \A i \in Counted : HeadersTo(i) # {} /\ Len(read[i].fields) > Skipped(i)
      /\ SampleRowKeys(m) = RowKeys
      /\ \A key \in Keys : SumOver(SampleCounts, Through(key, m))
                              = SumOver(LineCounts, LinesThrough(key))
  BY <1>0 DEF SamplesAreTheLines
<1>2. /\ Counted' = Counted \cup (IF Counts(line) THEN {n + 1} ELSE {})
      /\ \A i \in Counted : /\ read'[i] = read[i] /\ Skipped(i)' = Skipped(i)
                            /\ HeadersTo(i)' = HeadersTo(i)
  BY <1>1, OldLines
<1>3. read'[n + 1] = line
  BY NextLine
<1>4. \A i \in Counted' : HeadersTo(i)' # {} /\ Len(read'[i].fields) > Skipped(i)'
  BY <1>1, <1>2, <1>3
<1>5. /\ RowKeys' = RowKeys \cup SampleKeys(s)
      /\ \A key : /\ SumOver(LineCounts, LinesThrough(key)) \in Int
                  /\ SumOver(LineCounts', LinesThrough(key)')
                       = SumOver(LineCounts, LinesThrough(key))
                           + (IF key \in SampleKeys(s) THEN s.n ELSE 0)
  BY <1>1, LineAdds
<1>6. /\ Len(samples') = m + 1
      /\ SampleRowKeys(m + 1)' = SampleRowKeys(m) \cup SampleKeys(s)
      /\ \A key : SumOver(SampleCounts', Through(key, m + 1)')
                    = SumOver(SampleCounts, Through(key, m))
                        + (IF key \in SampleKeys(s) THEN s.n ELSE 0)
  BY <1>0, SampleAdds
<1>7. SampleRowKeys(m + 1)' = RowKeys'
  BY <1>1, <1>5, <1>6
<1>8. \A key \in Keys : SumOver(SampleCounts', Through(key, m + 1)')
                           = SumOver(LineCounts', LinesThrough(key)')
  BY <1>1, <1>5, <1>6
<1>9. SampleRowKeys(Len(samples))' = SampleRowKeys(m + 1)'
  BY <1>6 DEF SampleRowKeys
<1>10. \A key : Through(key, Len(samples))' = Through(key, m + 1)'
  BY <1>6 DEF Through
<1>11. SamplesAreTheLines' <=>
         (stage' # "refused" =>
            /\ \A i \in Counted' : HeadersTo(i)' # {} /\ Len(read'[i].fields) > Skipped(i)'
            /\ SampleRowKeys(Len(samples))' = RowKeys'
            /\ \A key \in Keys : SumOver(SampleCounts', Through(key, Len(samples))')
                                    = SumOver(LineCounts', LinesThrough(key)'))
  BY DEF SamplesAreTheLines
<1> QED BY <1>4, <1>7, <1>8, <1>9, <1>10, <1>11

-----------------------------------------------------------------------------
(* Each action keeps the invariant. *)
LEMMA SkipLineKeeps == ASSUME BlockInv, SkipLine PROVE BlockInv'
<1>1. PICK line \in Lines :
         /\ Scan(line)
         /\ \/ line.kind = "blank"
            \/ IsSample(line) /\ header.seen /\ line.count = 0
            \/ /\ Counts(line) /\ header.seen
               /\ LET s == SplitCallstack(line.fields, header) IN s.ok /\ s.stack = <<>>
         /\ UNCHANGED <<stage, header, samples, block>>
  BY Zenon DEF SkipLine
<1>2. PICK n : n = Len(read)
  OBVIOUS
<1>3. /\ stage = "parse" /\ read' = Append(read, line) /\ stage' = stage /\ header' = header
      /\ samples' = samples /\ block' = block
      /\ read \in Seq(Lines) /\ samples \in Seq(SampleType) /\ HeaderInForce
      /\ SamplesAreTheLines /\ RowsAreTheSamples
  BY <1>1 DEF Scan, BlockInv
<1>4. read'[n + 1] = line /\ read' \in Seq(Lines) /\ n \in Nat
  BY <1>2, <1>3, NextLine
<1>5. line.kind # "header"
  BY <1>1 DEF IsSample, Counts
<1>6. HeaderInForce'
  BY <1>3, <1>5, HeaderKept
<1>7. Counts(line) =>
         /\ HeadersTo(n + 1)' # {} /\ Len(line.fields) > Skipped(n + 1)'
         /\ Frames(n + 1)' = <<>>
  <2> SUFFICES ASSUME Counts(line)
               PROVE  /\ HeadersTo(n + 1)' # {} /\ Len(line.fields) > Skipped(n + 1)'
                      /\ Frames(n + 1)' = <<>>
    OBVIOUS
  <2> DEFINE s == SplitCallstack(line.fields, header)
  <2>1. IsSample(line) /\ line.kind # "blank" /\ line.count # 0
    BY DEF IsSample, Counts
  <2>2. header.seen /\ s.ok /\ s.stack = <<>>
    BY <1>1, <2>1
  <2>3. PICK i : i = n + 1
    OBVIOUS
  <2>4. /\ HeadersTo(i)' # {}
        /\ s.ok <=> Len(line.fields) > Skipped(i)'
        /\ s.stack = Frames(i)'
    BY <1>2, <1>3, <2>1, <2>2, <2>3, SplitIsReading
  <2> HIDE DEF s
  <2> QED BY <2>2, <2>3, <2>4
<1>8. n + 1 \notin Profiled'
  <2>1. n + 1 \in Profiled' => Counts(line) /\ Frames(n + 1)' # <<>>
    BY <1>4 DEF Profiled, Counted, Counts, IsSample
  <2> QED BY <1>7, <2>1
<1>9. SamplesAreTheLines'
  BY <1>2, <1>3, <1>7, <1>8, NothingMore
<1>10. RowsAreTheSamples'
  BY <1>3 DEF RowsAreTheSamples
<1> QED BY <1>3, <1>4, <1>6, <1>9, <1>10 DEF BlockInv

LEMMA TakeHeaderKeeps == ASSUME BlockInv, TakeHeader PROVE BlockInv'
<1>1. PICK line \in Lines :
         /\ Scan(line)
         /\ line.kind = "header"
         /\ header' = ParseHeaderLine(line)
         /\ UNCHANGED <<stage, samples, block>>
  BY Zenon DEF TakeHeader
<1>2. PICK n : n = Len(read)
  OBVIOUS
<1>3. /\ stage = "parse" /\ read' = Append(read, line) /\ stage' = stage
      /\ samples' = samples /\ block' = block
      /\ read \in Seq(Lines) /\ samples \in Seq(SampleType) /\ HeaderInForce
      /\ SamplesAreTheLines /\ RowsAreTheSamples
  BY <1>1 DEF Scan, BlockInv
<1>4. read'[n + 1] = line /\ read' \in Seq(Lines)
  BY <1>2, <1>3, NextLine
<1>5. HeaderInForce'
  BY <1>1, <1>3, HeaderKept
<1>6. ~Counts(line)
  BY <1>1 DEF IsSample, Counts
<1>7. n + 1 \notin Profiled'
  BY <1>4, <1>6 DEF Profiled, Counted, Counts, IsSample
<1>8. SamplesAreTheLines'
  BY <1>2, <1>3, <1>6, <1>7, NothingMore
<1>9. RowsAreTheSamples'
  BY <1>3 DEF RowsAreTheSamples
<1> QED BY <1>3, <1>4, <1>5, <1>8, <1>9 DEF BlockInv

LEMMA TakeSampleKeeps == ASSUME BlockInv, TakeSample PROVE BlockInv'
<1>1. PICK line \in Lines :
         /\ Scan(line)
         /\ Counts(line) /\ header.seen
         /\ LET s == SplitCallstack(line.fields, header)
            IN /\ s.ok /\ s.stack # <<>>
               /\ samples' = Append(samples, [raw |-> s.raw, stack |-> s.stack, n |-> line.count])
         /\ UNCHANGED <<stage, header, block>>
  BY Zenon DEF TakeSample
<1> DEFINE s == SplitCallstack(line.fields, header)
           sample == [raw |-> s.raw, stack |-> s.stack, n |-> line.count]
<1>2. PICK n : n = Len(read)
  OBVIOUS
<1>3. /\ stage = "parse" /\ read' = Append(read, line) /\ stage' = stage /\ header' = header
      /\ block' = block
      /\ read \in Seq(Lines) /\ samples \in Seq(SampleType) /\ HeaderInForce
      /\ SamplesAreTheLines /\ RowsAreTheSamples
  BY <1>1 DEF Scan, BlockInv
<1>4. read'[n + 1] = line /\ read' \in Seq(Lines) /\ DOMAIN read' = 1..n \cup {n + 1}
  BY <1>2, <1>3, NextLine
<1>5. IsSample(line) /\ line.kind # "header" /\ header.seen /\ Counts(line)
  BY <1>1 DEF IsSample, Counts
<1>6. HeaderInForce'
  BY <1>3, <1>5, HeaderKept
<1>7. s.ok /\ s.stack # <<>> /\ samples' = Append(samples, sample)
  BY <1>1
<1>8. PICK i : i = n + 1
  OBVIOUS
<1>9. /\ HeadersTo(i)' # {} /\ line.count \in Int
      /\ s.ok <=> Len(line.fields) > Skipped(i)'
      /\ s.stack = Frames(i)' /\ s.stack \in Seq(STRING)
      /\ s.ok => s.raw = RawContainer(i)' /\ s.raw \in Containers
  BY <1>2, <1>3, <1>5, <1>8, SplitIsReading
<1> HIDE DEF s
<1>10. sample \in SampleType
  BY <1>7, <1>9 DEF SampleType
<1>11. SampleKeys(sample) = IF i \in Profiled' THEN LineKeys(i)' ELSE {}
  <2>1. i \in Counted'
    BY <1>4, <1>5, <1>8 DEF Counted, Counts, IsSample
  <2>2. i \in Profiled' <=> Frames(i)'[1] \notin Swappers
    BY <1>7, <1>9, <2>1 DEF Profiled
  <2>3. LineKeys(i)' = KeysOf(RawContainer(i)', Frames(i)')
    BY DEF LineKeys
  <2>4. SampleKeys(sample) = IF s.stack[1] \in Swappers THEN {} ELSE KeysOf(s.raw, s.stack)
    BY DEF SampleKeys, IsKernelSwapper
  <2>5. s.raw = RawContainer(i)' /\ s.stack = Frames(i)'
    BY <1>7, <1>9
  <2> QED BY <2>2, <2>3, <2>4, <2>5
<1>12. sample.n = line.count
  OBVIOUS
<1> HIDE DEF sample
<1>13. SamplesAreTheLines'
  BY <1>2, <1>3, <1>7, <1>8, <1>9, <1>10, <1>11, <1>12, AsMuchMore
<1>14. RowsAreTheSamples'
  BY <1>3 DEF RowsAreTheSamples
<1>15. samples' \in Seq(SampleType)
  BY <1>3, <1>7, <1>10, AppendProperties
<1> QED BY <1>3, <1>4, <1>6, <1>13, <1>14, <1>15 DEF BlockInv

LEMMA RefuseKeeps == ASSUME BlockInv, Refuse PROVE BlockInv'
<1>1. PICK line \in Lines :
         /\ Scan(line)
         /\ \/ line.kind = "garbled"
            \/ IsSample(line) /\ ~header.seen
            \/ Counts(line) /\ header.seen /\ ~SplitCallstack(line.fields, header).ok
         /\ stage' = "refused"
         /\ UNCHANGED <<header, samples, block>>
  BY Zenon DEF Refuse
<1>2. PICK n : n = Len(read)
  OBVIOUS
<1>3. /\ stage = "parse" /\ read' = Append(read, line) /\ stage' = "refused"
      /\ header' = header /\ samples' = samples /\ block' = block
      /\ read \in Seq(Lines) /\ samples \in Seq(SampleType) /\ HeaderInForce
      /\ SamplesAreTheLines /\ RowsAreTheSamples
  BY <1>1 DEF Scan, BlockInv
<1>4. read' \in Seq(Lines)
  BY <1>2, <1>3, NextLine
<1>5. line.kind # "header"
  BY <1>1 DEF IsSample, Counts
<1>6. HeaderInForce'
  BY <1>3, <1>5, HeaderKept
<1>7. SamplesAreTheLines'
  BY <1>3 DEF SamplesAreTheLines
<1>8. RowsAreTheSamples'
  BY <1>3 DEF RowsAreTheSamples
<1> QED BY <1>3, <1>4, <1>6, <1>7, <1>8 DEF BlockInv

LEMMA EndOfFileKeeps == ASSUME BlockInv, EndOfFile PROVE BlockInv'
<1> DEFINE rows == BuildStackRecords(Aggregate)
           m == Len(samples)
<1>1. /\ stage = "parse"
      /\ IF DOMAIN rows = {}
         THEN stage' = "empty" /\ block' = block
         ELSE /\ stage' = "emitted"
              /\ block' = [rows |-> rows, metric |-> header.metric]
      /\ read' = read /\ header' = header /\ samples' = samples
  BY Zenon DEF EndOfFile
<1>2. /\ read \in Seq(Lines) /\ samples \in Seq(SampleType) /\ HeaderInForce
      /\ SamplesAreTheLines /\ block = NoBlock
  BY <1>1 DEF BlockInv, RowsAreTheSamples
<1>3. HeaderInForce'
  BY <1>1, <1>2 DEF HeaderInForce, HeadersTo, HeaderAbove, ParseHeaderLine, NoHeader
<1>4. SamplesAreTheLines'
  <2>1. /\ \A i \in Counted : HeadersTo(i) # {} /\ Len(read[i].fields) > Skipped(i)
        /\ SampleRowKeys(m) = RowKeys
        /\ \A key \in Keys : SumOver(SampleCounts, Through(key, m))
                                = SumOver(LineCounts, LinesThrough(key))
    BY <1>1, <1>2 DEF SamplesAreTheLines
  <2>2. Counted' = Counted /\ \A i : HeadersTo(i)' = HeadersTo(i) /\ Skipped(i)' = Skipped(i)
    BY <1>1 DEF Counted, HeadersTo, Skipped, HeaderAbove
  <2>3. m' = m /\ SampleRowKeys(m)' = SampleRowKeys(m) /\ RowKeys' = RowKeys
    BY <1>1 DEF SampleRowKeys, SampleKeys, RowKeys, Profiled, Frames, LineKeys, RawContainer,
       Counted, Skipped, HeaderAbove
  <2>4. \A key : /\ SumOver(SampleCounts, Through(key, m))' = SumOver(SampleCounts, Through(key, m))
                 /\ SumOver(LineCounts, LinesThrough(key))' = SumOver(LineCounts, LinesThrough(key))
    BY <1>1 DEF SampleCounts, Through, SampleKeys, LineCounts, LinesThrough, Profiled, Frames,
       LineKeys, RawContainer, Counted, Skipped, HeaderAbove
  <2>5. SamplesAreTheLines' <=>
         (stage' # "refused" =>
            /\ \A i \in Counted' : HeadersTo(i)' # {} /\ Len(read'[i].fields) > Skipped(i)'
            /\ SampleRowKeys(m)' = RowKeys'
            /\ \A key \in Keys : SumOver(SampleCounts, Through(key, m))'
                                    = SumOver(LineCounts, LinesThrough(key))')
    BY DEF SamplesAreTheLines
  <2> HIDE DEF m
  <2> QED BY <1>1, <2>1, <2>2, <2>3, <2>4, <2>5
<1>5. /\ DOMAIN Aggregate.weights = SampleRowKeys(m)
      /\ \A key \in DOMAIN Aggregate.weights :
            /\ key \in Keys
            /\ Aggregate.weights[key] = SumOver(SampleCounts, Through(key, m))
            /\ Aggregate.nodes[key[2]].parent = Front(key[2])
  BY <1>2, AggregateAdds
<1>6. /\ DOMAIN rows = SampleRowKeys(m)
      /\ \A key \in DOMAIN rows :
            /\ key \in Keys
            /\ rows[key].n = SumOver(SampleCounts, Through(key, m))
            /\ rows[key].node.parent = Front(key[2])
            /\ rows[key].names = ContainerAndK8sName(key[1])
  <2>1. rows = [key \in SampleRowKeys(m) |->
                  [names |-> ContainerAndK8sName(key[1]), hash |-> key[2],
                   node |-> Aggregate.nodes[key[2]], n |-> Aggregate.weights[key]]]
    BY <1>5 DEF BuildStackRecords
  <2>2. \A key \in SampleRowKeys(m) :
           /\ rows[key].n = Aggregate.weights[key]
           /\ rows[key].node = Aggregate.nodes[key[2]]
           /\ rows[key].names = ContainerAndK8sName(key[1])
    <3> HIDE DEF rows
    <3> QED BY <2>1
  <2> HIDE DEF rows, m
  <2>3. DOMAIN rows = SampleRowKeys(m)
    BY <2>1
  <2> QED BY <1>5, <2>2, <2>3
<1> HIDE DEF rows
<1>7. block'.rows = rows
  <2>1. CASE DOMAIN rows = {}
    <3>1. rows = <<>>
      <4>1. rows = [key \in {} |-> rows[key]]
        <5>1. rows = [key \in DOMAIN rows |-> rows[key]]
          BY DEF rows, BuildStackRecords
        <5> QED BY <2>1, <5>1
      <4> QED BY <4>1
    <3> QED BY <1>1, <1>2, <2>1, <3>1 DEF NoBlock
  <2>2. CASE DOMAIN rows # {}
    BY <1>1, <2>2
  <2> QED BY <2>1, <2>2
<1>8. stage' \in {"emitted", "empty"}
  BY <1>1
<1>9. /\ SampleRowKeys(m)' = SampleRowKeys(m) /\ m' = m
      /\ \A key : SumOver(SampleCounts, Through(key, m))' = SumOver(SampleCounts, Through(key, m))
  BY <1>1 DEF SampleRowKeys, SampleKeys, SampleCounts, Through
<1>10. RowsAreTheSamples'
  <2>1. RowsAreTheSamples' <=>
          IF stage' \in {"emitted", "empty"}
          THEN /\ DOMAIN block'.rows = SampleRowKeys(m)'
               /\ \A key \in DOMAIN block'.rows :
                     /\ key \in Keys
                     /\ block'.rows[key].n = SumOver(SampleCounts, Through(key, m))'
                     /\ block'.rows[key].node.parent = Front(key[2])
                     /\ block'.rows[key].names = ContainerAndK8sName(key[1])
          ELSE block' = NoBlock
    BY DEF RowsAreTheSamples
  <2> HIDE DEF m
  <2> QED BY <1>6, <1>7, <1>8, <1>9, <2>1
<1> QED BY <1>1, <1>2, <1>3, <1>4, <1>8, <1>10 DEF BlockInv

LEMMA BlockInvHolds == BlockSpec => []BlockInv
<1>1. BlockInit => BlockInv
  <2> SUFFICES ASSUME BlockInit PROVE BlockInv
    OBVIOUS
  <2>1. /\ stage = "parse" /\ read = <<>> /\ header = NoHeader /\ samples = <<>>
        /\ block = NoBlock
    BY DEF BlockInit
  <2>2. /\ read \in Seq(Lines) /\ samples \in Seq(SampleType) /\ Len(read) = 0
        /\ Len(samples) = 0 /\ DOMAIN read = {}
    BY <2>1
  <2>3. Counted = {} /\ Profiled = {} /\ 1..0 = {}
    BY <2>2 DEF Counted, Profiled
  <2>4. HeadersTo(0) = {}
    BY <2>3 DEF HeadersTo
  <2>5. HeaderInForce
    BY <2>1, <2>2, <2>4 DEF HeaderInForce
  <2>6. RowKeys = {} /\ SampleRowKeys(0) = {}
    BY <2>3 DEF RowKeys, SampleRowKeys
  <2>7. \A key : LinesThrough(key) = {} /\ Through(key, 0) = {}
    BY <2>3 DEF LinesThrough, Through
  <2>8. \A f : SumOver(f, {}) = 0
    BY SumEmpty
  <2>9. SamplesAreTheLines
    BY <2>2, <2>3, <2>6, <2>7, <2>8 DEF SamplesAreTheLines
  <2>10. RowsAreTheSamples
    BY <2>1 DEF RowsAreTheSamples
  <2> QED BY <2>1, <2>2, <2>5, <2>9, <2>10 DEF BlockInv
<1>2. BlockInv /\ [BlockNext]_blockVars => BlockInv'
  <2> SUFFICES ASSUME BlockInv, [BlockNext]_blockVars PROVE BlockInv'
    OBVIOUS
  <2>1. CASE UNCHANGED blockVars
    <3>1. /\ stage' = stage /\ read' = read /\ header' = header /\ samples' = samples
          /\ block' = block
      BY <2>1 DEF blockVars
    <3>2. HeaderInForce' <=> HeaderInForce
      BY <3>1 DEF HeaderInForce, HeadersTo, HeaderAbove, ParseHeaderLine, NoHeader
    <3>3. SamplesAreTheLines' <=> SamplesAreTheLines
      BY <3>1 DEF SamplesAreTheLines, HeadersTo, Counted, Skipped, HeaderAbove,
         SampleRowKeys, SampleKeys, RowKeys, Profiled, Frames, LineKeys, RawContainer,
         Through, SampleCounts, LineCounts, LinesThrough
    <3>4. RowsAreTheSamples' <=> RowsAreTheSamples
      BY <3>1 DEF RowsAreTheSamples, SampleRowKeys, SampleKeys, SampleCounts, Through
    <3> QED BY <3>1, <3>2, <3>3, <3>4 DEF BlockInv
  <2> QED BY <2>1, SkipLineKeeps, TakeHeaderKeeps, TakeSampleKeeps, RefuseKeeps,
          EndOfFileKeeps DEF BlockNext
<1> QED BY <1>1, <1>2, PTL DEF BlockSpec

(* In a line a row's parent is a row of the same container, and two rows   *)
(* of one parent are the same.                                             *)
LEMMA PrefixesNest ==
    ASSUME NEW container \in Containers, NEW frames \in Seq(STRING)
    PROVE  \A t \in KeysOf(container, frames) :
              /\ Front(t[2]) # <<>> => <<t[1], Front(t[2])>> \in KeysOf(container, frames)
              /\ \A u \in KeysOf(container, frames) : Front(t[2]) = Front(u[2]) => t = u
<1> DEFINE n == Len(frames)
<1>1. KeysOf(container, frames) = {<<container, Path(frames, k)>> : k \in 1..n}
  BY KeysArePaths DEF PathKeys, Paths
<1>2. \A k \in 1..n : Front(Path(frames, k)) = Path(frames, k - 1) /\ Len(Path(frames, k - 1)) = k - 1
  BY PathFacts
<1>3. n \in Nat /\ Path(frames, 0) = <<>>
  BY DEF Path
<1> SUFFICES ASSUME NEW k \in 1..n, NEW t, t = <<container, Path(frames, k)>>
             PROVE  /\ Front(t[2]) # <<>> => <<t[1], Front(t[2])>> \in KeysOf(container, frames)
                    /\ \A l \in 1..n : Front(t[2]) = Front(Path(frames, l)) => l = k
  BY <1>1
<1>4. t[1] = container /\ t[2] = Path(frames, k)
  OBVIOUS
<1>5. Front(t[2]) = Path(frames, k - 1) /\ Len(Path(frames, k - 1)) = k - 1
  BY <1>2, <1>4
<1>6. ASSUME Front(t[2]) # <<>>
      PROVE  <<t[1], Front(t[2])>> \in KeysOf(container, frames)
  <2>1. k - 1 \in 1..n
    BY <1>3, <1>5, <1>6
  <2> HIDE DEF n
  <2> QED BY <1>1, <1>4, <1>5, <2>1
<1>7. ASSUME NEW l \in 1..n, Front(t[2]) = Front(Path(frames, l))
      PROVE  l = k
  <2>1. Path(frames, l - 1) = Path(frames, k - 1) /\ Len(Path(frames, l - 1)) = l - 1
    BY <1>2, <1>5, <1>7
  <2> QED BY <1>3, <1>5, <2>1
<1> QED BY <1>6, <1>7

LEMMA LinesNest ==
    ASSUME read \in Seq(Lines), SamplesAreTheLines, stage # "refused", NEW i \in Profiled
    PROVE  \A t \in LineKeys(i) :
              /\ Front(t[2]) # <<>> => <<t[1], Front(t[2])>> \in LineKeys(i)
              /\ \A u \in LineKeys(i) : Front(t[2]) = Front(u[2]) => t = u
<1>1. i \in Counted /\ i \in DOMAIN read /\ read[i].kind = "sample"
  BY DEF Profiled, Counted, Counts, IsSample
<1>2. Len(read[i].fields) > Skipped(i)
  BY <1>1 DEF SamplesAreTheLines
<1>3. read[i].fields \in Seq(STRING)
  BY <1>1, LinesAssumption
<1>4. Skipped(i) \in Nat
  BY DEF Skipped
<1>5. Frames(i) \in Seq(STRING)
  BY <1>3, <1>4, StackTyped DEF Frames
<1>6. RawContainer(i) \in Containers
  <2>1. CASE Skipped(i) = 0
    BY <2>1 DEF RawContainer, Containers
  <2>2. CASE Skipped(i) # 0
    <3>1. Skipped(i) \in 1..Len(read[i].fields)
      BY <1>2, <1>3, <1>4, <2>2
    <3>2. read[i].fields[Skipped(i)] \in STRING
      BY <1>3, <3>1
    <3> QED BY <2>2, <3>2 DEF RawContainer, Containers
  <2> QED BY <2>1, <2>2
<1> QED BY <1>5, <1>6, PrefixesNest DEF LineKeys

-----------------------------------------------------------------------------
(* The rows of a block are the lines of the file, each read under the      *)
(* header above it (RowsAreTheLines).                                      *)
LEMMA RowsFromLines == BlockInv => RowsAreTheLines
<1> SUFFICES ASSUME BlockInv, stage \in {"emitted", "empty"}
             PROVE  /\ DOMAIN block.rows = RowKeys
                    /\ \A key \in RowKeys :
                          block.rows[key].n = SumOver(LineCounts, LinesThrough(key))
  BY DEF RowsAreTheLines, LinesThrough
<1>1. /\ SampleRowKeys(Len(samples)) = RowKeys
      /\ \A key \in Keys : SumOver(SampleCounts, Through(key, Len(samples)))
                              = SumOver(LineCounts, LinesThrough(key))
  BY DEF BlockInv, SamplesAreTheLines
<1>2. /\ DOMAIN block.rows = SampleRowKeys(Len(samples))
      /\ \A key \in DOMAIN block.rows :
            /\ key \in Keys
            /\ block.rows[key].n = SumOver(SampleCounts, Through(key, Len(samples)))
  BY DEF BlockInv, RowsAreTheSamples
<1> QED BY <1>1, <1>2

(* Whatever headers, blank lines and idle stacks a file has, in whatever   *)
(* order: what ParseReader and Aggregate make of it are its lines' rows,   *)
(* no other, and each weighs what its lines count.                         *)
THEOREM BlockRowsAreTheLines == BlockSpec => []RowsAreTheLines
BY BlockInvHolds, RowsFromLines, PTL

(* No row without a row for its parent, and none lighter than its children *)
(* together if no line counts less than nothing (FrameRowsNest): each line *)
(* through a child is a line through the parent, and through one child.    *)
LEMMA RowsNest == BlockInv => FrameRowsNest
<1> SUFFICES ASSUME BlockInv, \A i \in Counted : read[i].count > 0,
                    NEW key \in DOMAIN block.rows, block.rows[key].node.parent # <<>>
             PROVE  LET parent == <<key[1], block.rows[key].node.parent>>
                    IN /\ parent \in DOMAIN block.rows
                       /\ block.rows[parent].n >=
                             SumOver([k \in DOMAIN block.rows |-> block.rows[k].n],
                                     ChildRows(parent))
  BY DEF FrameRowsNest
<1> DEFINE parent == <<key[1], block.rows[key].node.parent>>
           C == ChildRows(parent)
           U == {i \in Profiled : \E t \in C : t \in LineKeys(i)}
           h == [k \in DOMAIN block.rows |-> block.rows[k].n]
           group == [t \in C |-> LinesThrough(t)]
<1>1. stage \in {"emitted", "empty"}
  <2>1. ASSUME stage \notin {"emitted", "empty"} PROVE FALSE
    <3>1. block.rows = <<>>
      BY <2>1 DEF BlockInv, RowsAreTheSamples, NoBlock
    <3> QED BY <3>1
  <2> QED BY <2>1
<1>2. /\ DOMAIN block.rows = RowKeys
      /\ \A k \in RowKeys : block.rows[k].n = SumOver(LineCounts, LinesThrough(k))
  BY <1>1, RowsFromLines DEF RowsAreTheLines, LinesThrough
<1>3. \A k \in RowKeys : k \in Keys /\ block.rows[k].node.parent = Front(k[2])
  BY <1>1, <1>2 DEF BlockInv, RowsAreTheSamples
<1>4. ASSUME NEW i \in Profiled
      PROVE  /\ \A t \in LineKeys(i) : /\ Front(t[2]) # <<>> => <<t[1], Front(t[2])>> \in LineKeys(i)
                                       /\ \A u \in LineKeys(i) : Front(t[2]) = Front(u[2]) => t = u
             /\ LineKeys(i) \subseteq RowKeys
  <2>1. read \in Seq(Lines) /\ SamplesAreTheLines /\ stage # "refused"
    BY <1>1 DEF BlockInv
  <2> QED BY <2>1, LinesNest DEF RowKeys
<1>5. \A t \in RowKeys : \E i \in Profiled : t \in LineKeys(i)
  BY DEF RowKeys
<1>6. parent[1] = key[1] /\ parent[2] = Front(key[2]) /\ parent[2] # <<>>
      /\ parent = <<key[1], Front(key[2])>>
  BY <1>2, <1>3
<1>7. parent \in RowKeys
  <2>1. PICK i \in Profiled : key \in LineKeys(i)
    BY <1>2, <1>5
  <2> HIDE DEF parent
  <2> QED BY <1>4, <1>6, <2>1
<1> HIDE DEF parent
<1>8. \A t \in C : t \in RowKeys /\ t[1] = parent[1] /\ Front(t[2]) = parent[2]
  <2>1. \A t \in C : t \in DOMAIN block.rows /\ t[1] = parent[1]
                     /\ block.rows[t].node.parent = parent[2]
    BY DEF ChildRows
  <2> QED BY <1>2, <1>3, <2>1
<1>9. parent = <<parent[1], parent[2]>>
  BY <1>6
<1> HIDE DEF C
<1>10. \A t \in C, i \in Profiled : t \in LineKeys(i) => parent \in LineKeys(i)
  BY <1>4, <1>6, <1>8, <1>9
<1>11. \A t, u \in C, i \in Profiled : t \in LineKeys(i) /\ u \in LineKeys(i) => t = u
  BY <1>4, <1>8
<1>12. U \in SUBSET LinesThrough(parent)
  BY <1>10 DEF LinesThrough
<1>13. \A S \in SUBSET LinesThrough(parent) :
          IsFiniteSet(S) /\ \A i \in S : LineCounts[i] \in Nat
  <2>1. LinesThrough(parent) \subseteq Counted
    BY DEF LinesThrough, Profiled
  <2>2. /\ \A i \in Counted : LineCounts[i] = read[i].count /\ read[i].count \in Int
        /\ \A S \in SUBSET Counted : IsFiniteSet(S)
    BY LinesCounted DEF BlockInv
  <2> QED BY <2>1, <2>2
<1>14. SumOver(LineCounts, U) <= SumOver(LineCounts, LinesThrough(parent))
  <2> HIDE DEF U
  <2> QED BY <1>12, <1>13, SumSubset
<1>15. IsFiniteSet(C)
  <2> DEFINE f == [i \in U |-> CHOOSE t \in C : t \in LineKeys(i)]
  <2>1. \A i \in U : f[i] \in C /\ f[i] \in LineKeys(i)
    OBVIOUS
  <2>2. \A t \in C : \E i \in U : f[i] = t
    <3> SUFFICES ASSUME NEW t \in C PROVE \E i \in U : f[i] = t
      OBVIOUS
    <3>1. PICK i \in Profiled : t \in LineKeys(i)
      BY <1>5, <1>8
    <3>2. i \in U
      BY <3>1
    <3>3. f[i] = t
      BY <1>11, <2>1, <3>1, <3>2
    <3> QED BY <3>2, <3>3
  <2>3. f \in Surjection(U, C)
    <3>1. f \in [U -> C]
      BY <2>1
    <3> HIDE DEF f, U
    <3> QED BY <2>2, <3>1 DEF Surjection
  <2> HIDE DEF f, U
  <2>4. IsFiniteSet(U)
    BY <1>12, <1>13
  <2> QED BY <2>3, <2>4, FS_Surjection
<1>16. SumOver(h, C) = SumOver(LineCounts, U)
  <2>1. \A t \in C : group[t] = LinesThrough(t)
    OBVIOUS
  <2>2. \A t \in C : \A i : i \in group[t] <=> i \in Profiled /\ t \in LineKeys(i)
    BY <2>1 DEF LinesThrough
  <2>3. \A t \in C : h[t] = SumOver(LineCounts, group[t])
    BY <1>2, <1>8, <2>1
  <2> HIDE DEF group, h
  <2>4. \A t \in C : group[t] \subseteq U
    BY <2>2
  <2>5. \A i \in U : \E t \in C : i \in group[t]
    BY <2>2
  <2>6. \A t, u \in C : t # u => group[t] \cap group[u] = {}
    BY <1>11, <2>2
  <2> HIDE DEF U
  <2>7. IsFiniteSet(U) /\ \A i \in U : LineCounts[i] \in Int
    <3>1. IsFiniteSet(U) /\ \A i \in U : LineCounts[i] \in Nat
      BY <1>12, <1>13
    <3>2. \A i \in U : LineCounts[i] \in Int
      BY <3>1
    <3> QED BY <3>1, <3>2
  <2> QED BY <1>15, <2>3, <2>4, <2>5, <2>6, <2>7, SumGroups
<1>17. SumOver(LineCounts, U) \in Int /\ SumOver(LineCounts, LinesThrough(parent)) \in Int
  <2> HIDE DEF U
  <2>1. \A S \in SUBSET LinesThrough(parent) : SumOver(LineCounts, S) \in Int
    <3> SUFFICES ASSUME NEW S \in SUBSET LinesThrough(parent)
                 PROVE  SumOver(LineCounts, S) \in Int
      OBVIOUS
    <3>1. IsFiniteSet(S) /\ \A i \in S : LineCounts[i] \in Nat
      BY <1>13
    <3>2. SumOver(LineCounts, S) \in Nat
      BY <3>1, SumNat
    <3> QED BY <3>2
  <2> QED BY <1>12, <2>1
<1>18. block.rows[parent].n = SumOver(LineCounts, LinesThrough(parent))
  BY <1>2, <1>7
<1>19. SumOver(h, C) <= block.rows[parent].n
  <2> HIDE DEF h, U
  <2> QED BY <1>14, <1>16, <1>17, <1>18
<1>20. SumOver(h, C) \in Int /\ block.rows[parent].n \in Int
  <2> HIDE DEF h, U
  <2> QED BY <1>16, <1>17, <1>18
<1>21. block.rows[parent].n >= SumOver(h, C)
  <2> HIDE DEF h
  <2> QED BY <1>19, <1>20
<1> QED BY <1>2, <1>7, <1>21 DEF parent, C

(* AddStack's rows are such that a frame weighs at least what its children *)
(* do, which the flamegraph takes for granted.                             *)
THEOREM BlockRowsNest == BlockSpec => []FrameRowsNest
BY BlockInvHolds, RowsNest, PTL

-----------------------------------------------------------------------------
(* What StripPodName leaves of a name whose first component is kept does   *)
(* not depend on the last one: it is made of the components before it.     *)
StrippedOf(front) ==
    LET markers == {i \in 2..Len(front) : ShouldStrip(front[i])}
    IN IF front[1] \in Flinks THEN <<"flink">>
       ELSE IF IsKubeProxy(front) THEN <<"kube", "proxy">>
       ELSE IF markers = {} THEN front
       ELSE SubSeq(front, 1, Min(markers) - 1)

LEMMA LastComponentGoes ==
    ASSUME NEW name \in Seq(STRING), Len(name) > 2, ~ShouldStrip(name[1]),
           NEW n, n = Len(name)
    PROVE  StripPodName(name) = StrippedOf(Front(name))
<1> DEFINE front == Front(name)
           kept == {i \in DOMAIN name : ~ShouldStrip(name[i])}
           first == Min(kept)
           ends == {i \in DOMAIN name : i > first /\ i \notin kept} \cup {n + 1}
           stop == Min(ends)
           markers == {i \in 2..Len(front) : ShouldStrip(front[i])}
           p == <<"kube", "proxy">>
<1>1. n \in Nat /\ n > 2 /\ DOMAIN name = 1..n /\ 1 \in 1..n
  OBVIOUS
<1>2. /\ front = SubSeq(name, 1, n - 1) /\ front \in Seq(STRING)
      /\ Len(front) = n - 1 /\ \A i \in 1..(n - 1) : front[i] = name[i]
  BY <1>1 DEF Front
<1>3. front[1] = name[1]
  BY <1>1, <1>2
<1>4. IsKubeProxy(name) <=> IsKubeProxy(front)
  <2>1. front[2] = name[2] /\ Len(name) > 1 /\ Len(front) > 1
    BY <1>1, <1>2
  <2> HIDE DEF front
  <2> QED BY <1>3, <2>1 DEF IsKubeProxy
<1>5. kept # {} /\ 1 \in kept /\ \A i \in kept : 1 <= i
  BY <1>1
<1>6. first = 1
  <2>1. first \in kept /\ \A i \in kept : first <= i
    BY <1>5 DEF Min
  <2> HIDE DEF first
  <2> QED BY <1>1, <1>5, <2>1
<1>7. ends = {i \in 2..n : ShouldStrip(name[i])} \cup {n + 1}
  <2>1. \A i \in 1..n : i > first /\ i \notin kept <=> i \in 2..n /\ ShouldStrip(name[i])
    <3> HIDE DEF first
    <3> QED BY <1>1, <1>6
  <2>2. \A i \in 2..n : i \in 1..n
    BY <1>1
  <2>3. {i \in DOMAIN name : i > first /\ i \notin kept} = {i \in 2..n : ShouldStrip(name[i])}
    <3> HIDE DEF first, kept
    <3> QED BY <1>1, <2>1, <2>2
  <2> HIDE DEF first, kept
  <2> QED BY <2>3
<1> HIDE DEF first, ends
<1>8. stop \in ends /\ \A i \in ends : stop <= i
  <2>3. IsFiniteSet(1..(n + 1))
    BY <1>1, FS_Interval
  <2>4. ends \in SUBSET (1..(n + 1))
    BY <1>1, <1>7
  <2>1. IsFiniteSet(1..(n + 1)) /\ ends \in SUBSET (1..(n + 1))
    BY <2>3, <2>4
  <2>2. IsFiniteSet(ends) /\ ends \subseteq Int /\ ends # {}
    BY <1>7, <2>1, FS_Subset
  <2> QED BY <2>2, GreatestAndLeast
<1>9. StripPodName(name) = IF name[1] \in Flinks THEN <<"flink">>
                           ELSE IF IsKubeProxy(name) THEN p
                           ELSE IF stop = n + 1 THEN front
                           ELSE SubSeq(name, 1, stop - 1)
  BY <1>1, <1>5, <1>6 DEF StripPodName, first, ends
<1>10. StrippedOf(front) = IF front[1] \in Flinks THEN <<"flink">>
                           ELSE IF IsKubeProxy(front) THEN p
                           ELSE IF markers = {} THEN front
                           ELSE SubSeq(front, 1, Min(markers) - 1)
  BY DEF StrippedOf
<1>11. markers = {i \in 2..(n - 1) : ShouldStrip(name[i])}
  BY <1>1, <1>2
<1> HIDE DEF markers, stop, front, p
<1>12. ASSUME markers = {} PROVE StripPodName(name) = StrippedOf(front)
  <2>1. stop \in {n, n + 1}
    BY <1>1, <1>7, <1>8, <1>11, <1>12
  <2>2. stop = n => SubSeq(name, 1, stop - 1) = front
    BY <1>2
  <2>3. n # n + 1
    BY <1>1
  <2>4. (IF stop = n + 1 THEN front ELSE SubSeq(name, 1, stop - 1)) = front
    BY <2>1, <2>2
  <2>5. StripPodName(name) = IF name[1] \in Flinks THEN <<"flink">>
                             ELSE IF IsKubeProxy(name) THEN p ELSE front
    BY <1>9, <2>4, Zenon
  <2>6. StrippedOf(front) = IF front[1] \in Flinks THEN <<"flink">>
                            ELSE IF IsKubeProxy(front) THEN p ELSE front
    BY <1>10, <1>12, Zenon
  <2>7. CASE name[1] \in Flinks
    BY <1>3, <2>5, <2>6, <2>7
  <2>8. CASE name[1] \notin Flinks /\ IsKubeProxy(name)
    BY <1>3, <1>4, <2>5, <2>6, <2>8
  <2>9. CASE name[1] \notin Flinks /\ ~IsKubeProxy(name)
    BY <1>3, <1>4, <2>5, <2>6, <2>9
  <2> QED BY <2>7, <2>8, <2>9
<1>13. ASSUME markers # {} PROVE StripPodName(name) = StrippedOf(front)
  <2> DEFINE l == Min(markers)
  <2>1. l \in markers /\ \A i \in markers : l <= i
    <3>1. IsFiniteSet(1..n)
      BY <1>1, FS_Interval
    <3>3. markers \in SUBSET (1..n)
      BY <1>1, <1>11
    <3>4. IsFiniteSet(markers)
      BY <3>1, <3>3, FS_Subset
    <3>2. IsFiniteSet(markers) /\ markers \subseteq Int
      BY <3>3, <3>4
    <3> QED BY <1>13, <3>2, GreatestAndLeast
  <2> HIDE DEF l
  <2>2. l \in 2..(n - 1) /\ l \in ends
    BY <1>1, <1>7, <1>11, <2>1
  <2>3. stop <= l /\ stop \in markers
    BY <1>1, <1>7, <1>8, <1>11, <2>2
  <2>4. stop = l
    BY <1>1, <1>11, <2>1, <2>2, <2>3
  <2>5. SubSeq(name, 1, l - 1) = SubSeq(front, 1, l - 1)
    <3>1. /\ SubSeq(name, 1, l - 1) = [i \in 1..(l - 1) |-> name[i]]
          /\ SubSeq(front, 1, l - 1) = [i \in 1..(l - 1) |-> front[i]]
      BY <1>1, <1>2, <2>2
    <3>2. \A i \in 1..(l - 1) : name[i] = front[i]
      BY <1>1, <1>2, <2>2
    <3> QED BY <3>1, <3>2
  <2>6. stop # n + 1
    BY <1>1, <2>2, <2>4
  <2>7. StripPodName(name) = IF name[1] \in Flinks THEN <<"flink">>
                             ELSE IF IsKubeProxy(name) THEN p ELSE SubSeq(front, 1, l - 1)
    BY <1>9, <2>4, <2>5, <2>6, Zenon
  <2>8. StrippedOf(front) = IF front[1] \in Flinks THEN <<"flink">>
                            ELSE IF IsKubeProxy(front) THEN p ELSE SubSeq(front, 1, l - 1)
    BY <1>10, <1>13, Zenon DEF l
  <2>9. CASE name[1] \in Flinks
    BY <1>3, <2>7, <2>8, <2>9
  <2>10. CASE name[1] \notin Flinks /\ IsKubeProxy(name)
    BY <1>3, <1>4, <2>7, <2>8, <2>10
  <2>11. CASE name[1] \notin Flinks /\ ~IsKubeProxy(name)
    BY <1>3, <1>4, <2>7, <2>8, <2>11
  <2> QED BY <2>9, <2>10, <2>11
<1> QED BY <1>12, <1>13 DEF front

(* Pods that differ in their last component only share container and       *)
(* workload (PodsShareName).                                               *)
LEMMA SiblingsShareNames ==
    ASSUME NEW raw1, NEW raw2, SiblingPods(raw1, raw2)
    PROVE  ContainerAndK8sName(raw1) = ContainerAndK8sName(raw2)
<1> DEFINE a == NameOf[raw1].parts
           b == NameOf[raw2].parts
           x == a[2]
           y == b[2]
<1>1. /\ raw1 \in K8sContainers /\ raw2 \in K8sContainers
      /\ a[1] = b[1] /\ a[3] = b[3]
      /\ Len(x) > 2 /\ Front(x) = Front(y) /\ ~ShouldStrip(x[1])
  BY DEF SiblingPods
<1>2. x \in Seq(STRING) \ {<<>>} /\ y \in Seq(STRING) \ {<<>>}
  BY <1>1, NamesAssumption
<1>3. ContainerAndK8sName(raw1) = K8sNames(a) /\ ContainerAndK8sName(raw2) = K8sNames(b)
  BY <1>1 DEF ContainerAndK8sName, K8sContainers
<1> HIDE DEF x, y
<1>4. \A z \in Seq(STRING) \ {<<>>} : Len(Front(z)) = Len(z) - 1 /\ Len(z) \in Nat
                                     /\ (Len(z) > 1 => Front(z)[1] = z[1])
  <2> SUFFICES ASSUME NEW z \in Seq(STRING) \ {<<>>}
               PROVE  Len(Front(z)) = Len(z) - 1 /\ Len(z) \in Nat
                      /\ (Len(z) > 1 => Front(z)[1] = z[1])
    OBVIOUS
  <2>1. Len(z) \in Nat /\ Len(z) >= 1
    OBVIOUS
  <2>2. Front(z) = SubSeq(z, 1, Len(z) - 1)
    BY DEF Front
  <2>5. PICK l : l = Len(z) - 1
    OBVIOUS
  <2>6. l \in Nat /\ l < Len(z)
    BY <2>1, <2>5
  <2>3. Len(SubSeq(z, 1, l)) = l
    BY <2>6
  <2>4. Len(z) > 1 => SubSeq(z, 1, l)[1] = z[1]
    BY <2>5, <2>6
  <2> QED BY <2>1, <2>2, <2>3, <2>4, <2>5
<1>5. Len(y) = Len(x) /\ y[1] = x[1]
  BY <1>1, <1>2, <1>4
<1>6. StripPodName(x) = StripPodName(y)
  BY <1>1, <1>2, <1>5, LastComponentGoes
<1> QED BY <1>1, <1>3, <1>6 DEF K8sNames, x, y

LEMMA NamesShared == BlockInv => PodsShareName
<1> SUFFICES ASSUME BlockInv, NEW k1 \in DOMAIN block.rows, NEW k2 \in DOMAIN block.rows,
                    SiblingPods(k1[1], k2[1])
             PROVE  block.rows[k1].names = block.rows[k2].names
  BY DEF PodsShareName
<1>1. stage \in {"emitted", "empty"}
  <2>1. ASSUME stage \notin {"emitted", "empty"} PROVE FALSE
    <3>1. block.rows = <<>>
      BY <2>1 DEF BlockInv, RowsAreTheSamples, NoBlock
    <3> QED BY <3>1
  <2> QED BY <2>1
<1>2. \A k \in DOMAIN block.rows : block.rows[k].names = ContainerAndK8sName(k[1])
  BY <1>1 DEF BlockInv, RowsAreTheSamples
<1> QED BY <1>2, SiblingsShareNames

(* ContainerAndK8sName gives the pods of one workload one name, whatever   *)
(* their random suffix looks like.                                         *)
THEOREM BlockPodsShareName == BlockSpec => []PodsShareName
BY BlockInvHolds, NamesShared, PTL
=============================================================================
