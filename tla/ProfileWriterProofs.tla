------------------------- MODULE ProfileWriterProofs -------------------------
(***************************************************************************)
(* Proofs about ProfileWriter, for any blocks, any batch size and any      *)
(* capacity of the channel.  The inductive invariant follows a row from    *)
(* the block that waits in the channel to the slice and from there to the  *)
(* table or to a failed INSERT, and says where the two slices stand        *)
(* between the two inserts of a flush.                                     *)
(***************************************************************************)
EXTENDS ProfileWriter, FiniteSetTheorems, TLAPS

(* No row of the block has been touched. *)
Untouched(b) ==
    /\ \A row \in StackRowsOf(b) :
          /\ row \notin pendingStacks \cup failedStacks
          /\ stacksTable[row] = 0
    /\ b \notin pendingMetrics \cup failedMetrics
    /\ metricsTable[b] = 0

(* A block is sent once, and untouched until the writer receives it. *)
BlocksInOrder ==
    /\ \A i, j \in DOMAIN in : in[i] = in[j] => i = j
    /\ Waiting \subseteq sent
    /\ \A b \in Blocks : b \notin Received => Untouched(b)

(* Pending rows are new, except for the stack rows once their insert ended. *)
PendingRows ==
    /\ IsFiniteSet(pendingStacks)
    /\ \A row \in pendingStacks :
          IF pc \in {"metrics", "storingMetrics"} THEN StackRowTried(row)
          ELSE row \notin failedStacks /\ stacksTable[row] = 0
    /\ \A m \in pendingMetrics : m \notin failedMetrics /\ metricsTable[m] = 0
    /\ pc = "returned" => pendingStacks = {} /\ pendingMetrics = {}

(* The writer only goes for its last flush on an input that is drained. *)
LastFlush == after = "nil" => inClosed /\ in = <<>>

RowsInv == TypeOK /\ BlocksInOrder /\ PendingRows /\ LastFlush
           /\ BatchBelowLimit /\ InsertedAtMostOnce

(* RowsInv holds whatever was received and lost before, as in a crash of   *)
(* the process; with it, in a writer that has lived on, nothing is lost.   *)
IInv == RowsInv /\ ReceivedRowsAccounted

-----------------------------------------------------------------------------
(* A stack row belongs to one block, and a block has finitely many. *)
LEMMA RowsOfBlocks ==
    /\ \A b, c \in Blocks : \A row \in StackRowsOf(b) :
          row \in StackRows /\ (row \in StackRowsOf(c) => b = c)
    /\ \A b \in Blocks : IsFiniteSet(StackRowsOf(b))
  <1>1. ASSUME NEW b \in Blocks, NEW c \in Blocks, NEW row \in StackRowsOf(b)
        PROVE  row \in StackRows /\ (row \in StackRowsOf(c) => b = c)
    BY DEF StackRows, StackRowsOf
  <1>2. ASSUME NEW b \in Blocks
        PROVE  IsFiniteSet(StackRowsOf(b))
    <2>1. NStacks[b] \in Nat
      BY NStacksAssumption
    <2>2. IsFiniteSet({b}) /\ IsFiniteSet(1..NStacks[b])
      <3>1. IsFiniteSet({b})
        BY FS_Singleton
      <3>2. IsFiniteSet(1..NStacks[b])
        BY <2>1, FS_Interval
      <3> QED BY <3>1, <3>2
    <2> QED BY <2>2, FS_Product DEF StackRowsOf
  <1> QED BY <1>1, <1>2

LEMMA InitIInv == Init => IInv
  <1> SUFFICES ASSUME Init PROVE IInv
    OBVIOUS
  <1>1. TypeOK
    <2>1. in \in Seq(Blocks) /\ Len(in) <= InCap
      BY InCapAssumption DEF Init
    <2> QED BY <2>1 DEF Init, TypeOK
  <1>2. PendingRows /\ LastFlush /\ BatchBelowLimit /\ InsertedAtMostOnce
    BY FS_EmptySet, WriteBatchSizeAssumption
       DEF Init, PendingRows, LastFlush, BatchBelowLimit, InsertedAtMostOnce
  <1>3. BlocksInOrder /\ ReceivedRowsAccounted
    BY RowsOfBlocks
       DEF Init, BlocksInOrder, ReceivedRowsAccounted, Untouched, Waiting, Received
  <1> QED BY <1>1, <1>2, <1>3 DEF IInv, RowsInv

-----------------------------------------------------------------------------
(* What the surroundings do leaves the rows alone. *)
LEMMA EnvironmentKeeps ==
    ASSUME RowsInv,
           \/ \E b \in Blocks \ sent : Send(b)
           \/ CloseInput \/ Cancel \/ Tick \/ UNCHANGED vars
    PROVE  RowsInv' /\ (ReceivedRowsAccounted => ReceivedRowsAccounted')
  <1>1. TypeOK /\ BlocksInOrder /\ PendingRows /\ LastFlush /\ BatchBelowLimit
        /\ InsertedAtMostOnce
    BY DEF RowsInv
  <1>2. UNCHANGED <<pendingStacks, pendingMetrics, pc, after, stacksTable,
                    metricsTable, failedStacks, failedMetrics>>
    BY DEF Send, CloseInput, Cancel, Tick, vars, tables
  <1>3. ASSUME NEW b \in Blocks \ sent, Send(b)
        PROVE  RowsInv' /\ (ReceivedRowsAccounted => ReceivedRowsAccounted')
    <2>1. /\ b \notin sent /\ ~inClosed /\ Len(in) < InCap
          /\ sent' = sent \cup {b} /\ in' = Append(in, b)
          /\ UNCHANGED <<inClosed, ctxDone, tick>>
      BY <1>3 DEF Send
    <2>2. /\ in \in Seq(Blocks) /\ Len(in) \in Nat
          /\ in' \in Seq(Blocks) /\ Len(in') = Len(in) + 1
          /\ \A i \in DOMAIN in : in'[i] = in[i]
          /\ in'[Len(in) + 1] = b
          /\ DOMAIN in' = DOMAIN in \cup {Len(in) + 1}
      BY <1>1, <2>1 DEF TypeOK
    <2>3. Waiting' = Waiting \cup {b} /\ b \notin Waiting
      BY <1>1, <2>1, <2>2 DEF Waiting, BlocksInOrder
    <2>4. Received' = Received
      BY <1>1, <2>1, <2>3 DEF Received, BlocksInOrder
    <2>5. TypeOK'
      BY <1>1, <1>2, <2>1, <2>2, InCapAssumption DEF TypeOK
    <2>6. BlocksInOrder'
      <3>1. \A i, j \in DOMAIN in' : in'[i] = in'[j] => i = j
        BY <1>1, <2>2, <2>3 DEF BlocksInOrder, Waiting
      <3> QED BY <1>1, <1>2, <2>1, <2>3, <2>4, <3>1 DEF BlocksInOrder, Untouched
    <2>7. LastFlush'
      BY <1>1, <1>2, <2>1 DEF LastFlush
    <2> QED BY <1>1, <1>2, <2>4, <2>5, <2>6, <2>7
            DEF RowsInv, PendingRows, StackRowTried, BatchBelowLimit,
                InsertedAtMostOnce, ReceivedRowsAccounted, MetricRowTried
  <1>4. CASE CloseInput \/ Cancel \/ Tick \/ UNCHANGED vars
    <2>1. /\ UNCHANGED <<sent, in>> /\ inClosed' \in BOOLEAN
          /\ ctxDone' \in BOOLEAN /\ tick' \in BOOLEAN
          /\ inClosed => inClosed'
      BY <1>1, <1>4 DEF CloseInput, Cancel, Tick, vars, env, TypeOK
    <2> QED BY <1>1, <1>2, <2>1
            DEF RowsInv, TypeOK, BlocksInOrder, Untouched, Waiting, Received,
                LastFlush, PendingRows, StackRowTried, BatchBelowLimit,
                InsertedAtMostOnce, ReceivedRowsAccounted, MetricRowTried
  <1> QED BY <1>3, <1>4

-----------------------------------------------------------------------------
(* The cases of the select that start a flush. *)
LEMMA StartFlushKeeps ==
    ASSUME RowsInv, OnDone \/ OnTick \/ OnClosed
    PROVE  RowsInv' /\ (ReceivedRowsAccounted => ReceivedRowsAccounted')
  <1>1. TypeOK /\ BlocksInOrder /\ PendingRows /\ LastFlush /\ BatchBelowLimit
        /\ InsertedAtMostOnce
    BY DEF RowsInv
  <1>2. /\ UNCHANGED <<sent, in, inClosed, ctxDone, pendingStacks, pendingMetrics,
                       stacksTable, metricsTable, failedStacks, failedMetrics>>
        /\ tick' \in BOOLEAN /\ pc = "select"
        /\ after' \in {"loop", "nil", "ctx"}
        /\ after' = "nil" => inClosed /\ in = <<>>
        /\ Flush(pendingStacks, pendingMetrics, after')
    BY <1>1 DEF OnDone, OnTick, OnClosed, Flush, env, tables, TypeOK
  <1>3. /\ pc' \in {"select", "stacks", "returned"}
        /\ pc' = "returned" => pendingStacks = {} /\ pendingMetrics = {}
    BY <1>2 DEF Flush, Resume
  <1> QED BY <1>1, <1>2, <1>3
          DEF RowsInv, TypeOK, BlocksInOrder, Untouched, Waiting, Received,
              LastFlush, PendingRows, StackRowTried, BatchBelowLimit,
              InsertedAtMostOnce, ReceivedRowsAccounted, MetricRowTried

(* A block is received: its rows leave the channel for the slices. *)
LEMMA OnBlockKeeps ==
    ASSUME RowsInv, OnBlock
    PROVE  RowsInv' /\ (ReceivedRowsAccounted => ReceivedRowsAccounted')
  <1> DEFINE b == Head(in)
  <1>1. TypeOK /\ BlocksInOrder /\ PendingRows /\ LastFlush /\ BatchBelowLimit
        /\ InsertedAtMostOnce
    BY DEF RowsInv
  <1>2. /\ pc = "select" /\ in # <<>> /\ in' = Tail(in)
        /\ pendingStacks' = pendingStacks \cup StackRowsOf(b)
        /\ pendingMetrics' = pendingMetrics \cup MetricRowsOf(b)
        /\ UNCHANGED <<sent, inClosed, ctxDone, tick, stacksTable, metricsTable,
                       failedStacks, failedMetrics>>
    BY DEF OnBlock, env, tables
  <1>3. /\ in \in Seq(Blocks) /\ Len(in) \in Nat \ {0} /\ DOMAIN in = 1..Len(in)
        /\ in' \in Seq(Blocks) /\ Len(in') = Len(in) - 1
        /\ DOMAIN in' = 1..(Len(in) - 1)
        /\ \A i \in DOMAIN in' : in'[i] = in[i + 1]
        /\ b = in[1] /\ b \in Blocks
    BY <1>1, <1>2 DEF TypeOK
  <1>4. \A i, j \in DOMAIN in' : in'[i] = in'[j] => i = j
    <2> SUFFICES ASSUME NEW i \in DOMAIN in', NEW j \in DOMAIN in',
                        in'[i] = in'[j]
                 PROVE  i = j
      OBVIOUS
    <2>1. i + 1 \in DOMAIN in /\ j + 1 \in DOMAIN in /\ in[i + 1] = in[j + 1]
      BY <1>3
    <2> QED BY <1>1, <1>3, <2>1 DEF BlocksInOrder
  <1>5. b \in Waiting /\ Waiting' = Waiting \ {b}
    <2>1. b \in Waiting
      BY <1>3 DEF Waiting
    <2>2. ASSUME NEW x \in Waiting'
          PROVE  x \in Waiting /\ x # b
      <3>1. PICK i \in DOMAIN in' : x = in'[i]
        BY DEF Waiting
      <3>2. /\ i + 1 \in DOMAIN in /\ x = in[i + 1]
            /\ i + 1 # 1 /\ 1 \in DOMAIN in
        BY <1>3, <3>1
      <3> QED BY <1>1, <1>3, <3>2 DEF Waiting, BlocksInOrder
    <2>3. ASSUME NEW x \in Waiting, x # b
          PROVE  x \in Waiting'
      <3>1. PICK i \in DOMAIN in : x = in[i]
        BY DEF Waiting
      <3>2. i # 1
        BY <1>3, <2>3, <3>1
      <3>3. i - 1 \in DOMAIN in' /\ in'[i - 1] = x
        BY <1>3, <3>1, <3>2
      <3> QED BY <3>3 DEF Waiting
    <2> QED BY <2>1, <2>2, <2>3
  <1>6. b \notin Received /\ Received' = Received \cup {b}
    BY <1>1, <1>2, <1>5 DEF Received, BlocksInOrder
  <1>7. Untouched(b)
    BY <1>1, <1>3, <1>6 DEF BlocksInOrder
  <1>8. IsFiniteSet(pendingStacks') /\ Cardinality(pendingStacks') \in Nat
    <2>1. IsFiniteSet(pendingStacks) /\ IsFiniteSet(StackRowsOf(b))
      BY <1>1, <1>3, RowsOfBlocks DEF PendingRows
    <2>2. IsFiniteSet(pendingStacks')
      BY <1>2, <2>1, FS_Union
    <2> QED BY <2>2, FS_CardinalityType
  <1>9. /\ \/ /\ pc' = "select" /\ after' = after
              /\ Cardinality(pendingStacks') < WriteBatchSize
           \/ pc' = "stacks" /\ after' = "loop"
    <2>1. Cardinality(pendingStacks') >= WriteBatchSize => pendingStacks' # {}
      BY FS_EmptySet, WriteBatchSizeAssumption
    <2> QED BY <1>2, <1>8, <2>1, WriteBatchSizeAssumption DEF OnBlock, Flush
  <1>10. TypeOK'
    <2>1. StackRowsOf(b) \subseteq StackRows /\ MetricRowsOf(b) \subseteq Blocks
      BY <1>3, RowsOfBlocks DEF MetricRowsOf
    <2>2. Len(in') <= InCap
      BY <1>1, <1>3, InCapAssumption DEF TypeOK
    <2> QED BY <1>1, <1>2, <1>3, <1>9, <2>1, <2>2 DEF TypeOK
  <1>11. BlocksInOrder'
    <2>1. ASSUME NEW c \in Blocks, c \notin Received'
          PROVE  Untouched(c)'
      <3>1. Untouched(c) /\ c # b
        BY <1>1, <1>6, <2>1 DEF BlocksInOrder
      <3>2. \A row \in StackRowsOf(c) : row \notin StackRowsOf(b)
        BY <1>3, <3>1, RowsOfBlocks
      <3>3. c \notin MetricRowsOf(b)
        BY <3>1 DEF MetricRowsOf
      <3> QED BY <1>2, <3>1, <3>2, <3>3 DEF Untouched
    <2> QED BY <1>1, <1>2, <1>4, <1>5, <2>1 DEF BlocksInOrder
  <1>12. PendingRows'
    BY <1>1, <1>2, <1>7, <1>8, <1>9
       DEF PendingRows, Untouched, MetricRowsOf
  <1>13. LastFlush' /\ BatchBelowLimit' /\ InsertedAtMostOnce'
    BY <1>1, <1>2, <1>9 DEF LastFlush, BatchBelowLimit, InsertedAtMostOnce
  <1>14. ReceivedRowsAccounted => ReceivedRowsAccounted'
    BY <1>1, <1>2, <1>6
       DEF ReceivedRowsAccounted, StackRowTried, MetricRowTried
  <1> QED BY <1>10, <1>11, <1>12, <1>13, <1>14 DEF RowsInv

-----------------------------------------------------------------------------
(* The stack rows pending when their insert ends without an INSERT are     *)
(* reported failed; one begun leaves every row where it was.               *)
LEMMA ExecStacksKeeps ==
    ASSUME RowsInv, ExecStacks
    PROVE  RowsInv' /\ (ReceivedRowsAccounted => ReceivedRowsAccounted')
  <1>1. TypeOK /\ BlocksInOrder /\ PendingRows /\ LastFlush /\ BatchBelowLimit
        /\ InsertedAtMostOnce
    BY DEF RowsInv
  <1>2. /\ pc = "stacks" /\ pc' \in {"metrics", "storingStacks"}
        /\ UNCHANGED <<sent, in, inClosed, ctxDone, tick, pendingStacks,
                       pendingMetrics, after, stacksTable, metricsTable,
                       failedMetrics>>
        /\ \/ pc' = "metrics" /\ failedStacks' = failedStacks \cup pendingStacks
           \/ pc' = "storingStacks" /\ failedStacks' = failedStacks
    BY DEF ExecStacks, env
  <1>3. TypeOK' /\ LastFlush' /\ BatchBelowLimit' /\ InsertedAtMostOnce'
    BY <1>1, <1>2 DEF TypeOK, LastFlush, BatchBelowLimit, InsertedAtMostOnce
  <1>4. Received' = Received /\ Waiting' = Waiting
    BY <1>2 DEF Received, Waiting
  <1>5. BlocksInOrder'
    <2>1. ASSUME NEW b \in Blocks, b \notin Received
          PROVE  Untouched(b)'
      BY <1>1, <1>2, <2>1 DEF BlocksInOrder, Untouched
    <2> QED BY <1>1, <1>2, <1>4, <2>1 DEF BlocksInOrder
  <1>6. PendingRows'
    BY <1>1, <1>2 DEF PendingRows, StackRowTried
  <1>7. ReceivedRowsAccounted => ReceivedRowsAccounted'
    BY <1>1, <1>2, <1>4
       DEF ReceivedRowsAccounted, StackRowTried, MetricRowTried
  <1> QED BY <1>3, <1>5, <1>6, <1>7 DEF RowsInv

(* Of the pending stack rows, new until now, each is stored once or is     *)
(* reported failed, or both; no other row is concerned.                    *)
LEMMA StacksReturnKeeps ==
    ASSUME RowsInv, StacksReturn
    PROVE  RowsInv' /\ (ReceivedRowsAccounted => ReceivedRowsAccounted')
  <1>1. TypeOK /\ BlocksInOrder /\ PendingRows /\ LastFlush /\ BatchBelowLimit
        /\ InsertedAtMostOnce
    BY DEF RowsInv
  <1>2. /\ pc = "storingStacks" /\ pc' = "metrics"
        /\ UNCHANGED <<sent, in, inClosed, ctxDone, tick, pendingStacks,
                       pendingMetrics, after, metricsTable, failedMetrics>>
    BY DEF StacksReturn, env
  <1>3. /\ stacksTable' \in [StackRows -> Nat] /\ failedStacks' \subseteq StackRows
        /\ \A row \in StackRows :
              row \notin pendingStacks =>
                 /\ stacksTable'[row] = stacksTable[row]
                 /\ row \in failedStacks' <=> row \in failedStacks
        /\ \A row \in pendingStacks :
              /\ stacksTable'[row] \in {0, 1}
              /\ stacksTable'[row] = 1 \/ row \in failedStacks'
    <2>1. CASE /\ stacksTable' = Inserted(stacksTable, pendingStacks)
               /\ UNCHANGED failedStacks
      BY <1>1, <1>2, <2>1 DEF Inserted, TypeOK, PendingRows
    <2>2. CASE /\ \E stored \in SUBSET {row[1] : row \in pendingStacks} :
                    stacksTable' = Inserted(stacksTable,
                                    {row \in pendingStacks : row[1] \in stored})
               /\ failedStacks' = failedStacks \cup pendingStacks
      <3>1. PICK stored : stacksTable' = Inserted(stacksTable,
                                    {row \in pendingStacks : row[1] \in stored})
        BY <2>2
      <3> QED BY <1>1, <1>2, <2>2, <3>1 DEF Inserted, TypeOK, PendingRows
    <2> QED BY <2>1, <2>2 DEF StacksReturn
  <1>4. TypeOK' /\ LastFlush' /\ BatchBelowLimit'
    BY <1>1, <1>2, <1>3 DEF TypeOK, LastFlush, BatchBelowLimit
  <1>5. Received' = Received /\ Waiting' = Waiting
    BY <1>2 DEF Received, Waiting
  <1>6. BlocksInOrder'
    <2>1. ASSUME NEW b \in Blocks, b \notin Received
          PROVE  Untouched(b)'
      <3>1. Untouched(b)
        BY <1>1, <2>1 DEF BlocksInOrder
      <3> QED BY <1>2, <1>3, <3>1, RowsOfBlocks DEF Untouched
    <2> QED BY <1>1, <1>2, <1>5, <2>1 DEF BlocksInOrder
  <1>7. PendingRows'
    BY <1>1, <1>2, <1>3 DEF PendingRows, StackRowTried
  <1>8. InsertedAtMostOnce'
    BY <1>1, <1>2, <1>3 DEF InsertedAtMostOnce
  <1>9. ReceivedRowsAccounted => ReceivedRowsAccounted'
    <2>1. \A b \in Received : b \in Blocks
      BY <1>1 DEF TypeOK, Received
    <2> QED BY <1>1, <1>2, <1>3, <1>5, <2>1, RowsOfBlocks
            DEF ReceivedRowsAccounted, StackRowTried, MetricRowTried
  <1> QED BY <1>4, <1>6, <1>7, <1>8, <1>9 DEF RowsInv

(* When the flush ends both slices are emptied: the stack rows were tried  *)
(* before, and each metric row is stored once or reported failed, or both. *)
LEMMA FlushEndsKeeps ==
    ASSUME RowsInv, FlushEnds, pc \in {"metrics", "storingMetrics"},
           UNCHANGED <<sent, in, inClosed, ctxDone, tick, after, stacksTable,
                       failedStacks>>,
           metricsTable' \in [Blocks -> Nat], failedMetrics' \subseteq Blocks,
           \A m \in Blocks :
              m \notin pendingMetrics =>
                 /\ metricsTable'[m] = metricsTable[m]
                 /\ m \in failedMetrics' <=> m \in failedMetrics,
           \A m \in pendingMetrics :
              /\ metricsTable'[m] \in {0, 1}
              /\ metricsTable'[m] = 1 \/ m \in failedMetrics'
    PROVE  RowsInv' /\ (ReceivedRowsAccounted => ReceivedRowsAccounted')
  <1>1. TypeOK /\ BlocksInOrder /\ PendingRows /\ LastFlush /\ BatchBelowLimit
        /\ InsertedAtMostOnce
    BY DEF RowsInv
  <1>2. /\ pc' \in {"select", "returned"}
        /\ pendingStacks' = {} /\ pendingMetrics' = {}
    BY DEF FlushEnds, Resume
  <1>3. TypeOK' /\ LastFlush'
    BY <1>1, <1>2 DEF TypeOK, LastFlush
  <1>4. BatchBelowLimit' /\ PendingRows'
    BY <1>2, FS_EmptySet, WriteBatchSizeAssumption
       DEF BatchBelowLimit, PendingRows
  <1>5. Received' = Received /\ Waiting' = Waiting
    BY DEF Received, Waiting
  <1>6. BlocksInOrder'
    <2>1. ASSUME NEW b \in Blocks, b \notin Received
          PROVE  Untouched(b)'
      BY <1>1, <1>2, <2>1 DEF BlocksInOrder, Untouched
    <2> QED BY <1>1, <1>5, <2>1 DEF BlocksInOrder
  <1>7. InsertedAtMostOnce'
    BY <1>1 DEF InsertedAtMostOnce
  <1>8. ReceivedRowsAccounted => ReceivedRowsAccounted'
    <2>1. \A b \in Received : b \in Blocks
      BY <1>1 DEF TypeOK, Received
    <2>2. \A row \in pendingStacks : StackRowTried(row)
      BY <1>1 DEF PendingRows
    <2> QED BY <1>1, <1>2, <1>5, <2>1, <2>2
            DEF ReceivedRowsAccounted, StackRowTried, MetricRowTried,
                MetricRowsOf
  <1> QED BY <1>3, <1>4, <1>6, <1>7, <1>8 DEF RowsInv

LEMMA ExecMetricsKeeps ==
    ASSUME RowsInv, ExecMetrics
    PROVE  RowsInv' /\ (ReceivedRowsAccounted => ReceivedRowsAccounted')
  <1>1. TypeOK /\ BlocksInOrder /\ PendingRows /\ LastFlush /\ BatchBelowLimit
        /\ InsertedAtMostOnce
    BY DEF RowsInv
  <1>2. /\ pc = "metrics"
        /\ UNCHANGED <<sent, in, inClosed, ctxDone, tick, after, stacksTable,
                       metricsTable, failedStacks>>
    BY DEF ExecMetrics, env
  <1>3. CASE FlushEnds /\ failedMetrics' = failedMetrics \cup pendingMetrics
    <2>1. metricsTable' \in [Blocks -> Nat] /\ failedMetrics' \subseteq Blocks
      BY <1>1, <1>2, <1>3 DEF TypeOK
    <2>2. \A m \in pendingMetrics :
             metricsTable'[m] \in {0, 1} /\ m \in failedMetrics'
      BY <1>1, <1>2, <1>3 DEF PendingRows
    <2> QED BY <1>2, <1>3, <2>1, <2>2, FlushEndsKeeps
  <1>4. CASE /\ pc' = "storingMetrics"
             /\ UNCHANGED <<pendingStacks, pendingMetrics, failedMetrics>>
    <2>1. TypeOK' /\ LastFlush' /\ BatchBelowLimit' /\ InsertedAtMostOnce'
      BY <1>1, <1>2, <1>4 DEF TypeOK, LastFlush, BatchBelowLimit, InsertedAtMostOnce
    <2>2. Received' = Received /\ Waiting' = Waiting
      BY <1>2 DEF Received, Waiting
    <2>3. BlocksInOrder'
      BY <1>1, <1>2, <1>4, <2>2 DEF BlocksInOrder, Untouched
    <2>4. PendingRows'
      BY <1>1, <1>2, <1>4 DEF PendingRows, StackRowTried
    <2>5. ReceivedRowsAccounted => ReceivedRowsAccounted'
      BY <1>1, <1>2, <1>4, <2>2
         DEF ReceivedRowsAccounted, StackRowTried, MetricRowTried
    <2> QED BY <2>1, <2>3, <2>4, <2>5 DEF RowsInv
  <1> QED BY <1>3, <1>4 DEF ExecMetrics

LEMMA MetricsReturnKeeps ==
    ASSUME RowsInv, MetricsReturn
    PROVE  RowsInv' /\ (ReceivedRowsAccounted => ReceivedRowsAccounted')
  <1>1. TypeOK /\ PendingRows
    BY DEF RowsInv
  <1>2. /\ pc = "storingMetrics" /\ FlushEnds
        /\ UNCHANGED <<sent, in, inClosed, ctxDone, tick, after, stacksTable,
                       failedStacks>>
    BY DEF MetricsReturn, env
  <1>3. /\ metricsTable' \in [Blocks -> Nat] /\ failedMetrics' \subseteq Blocks
        /\ \A m \in Blocks :
              m \notin pendingMetrics =>
                 /\ metricsTable'[m] = metricsTable[m]
                 /\ m \in failedMetrics' <=> m \in failedMetrics
        /\ \A m \in pendingMetrics :
              /\ metricsTable'[m] \in {0, 1}
              /\ metricsTable'[m] = 1 \/ m \in failedMetrics'
    <2>1. CASE /\ metricsTable' = Inserted(metricsTable, pendingMetrics)
               /\ UNCHANGED failedMetrics
      BY <1>1, <2>1 DEF Inserted, TypeOK, PendingRows
    <2>2. CASE /\ \E stored \in SUBSET pendingMetrics :
                    metricsTable' = Inserted(metricsTable, stored)
               /\ failedMetrics' = failedMetrics \cup pendingMetrics
      <3>1. PICK stored \in SUBSET pendingMetrics :
                 metricsTable' = Inserted(metricsTable, stored)
        BY <2>2
      <3> QED BY <1>1, <2>2, <3>1 DEF Inserted, TypeOK, PendingRows
    <2> QED BY <2>1, <2>2 DEF MetricsReturn
  <1> QED BY <1>2, <1>3, FlushEndsKeeps

(* No step disturbs RowsInv; none loses a row that is accounted for. *)
LEMMA NextKeeps ==
    RowsInv /\ [Next]_vars =>
        RowsInv' /\ (ReceivedRowsAccounted => ReceivedRowsAccounted')
  BY EnvironmentKeeps, StartFlushKeeps, OnBlockKeeps, ExecStacksKeeps,
     StacksReturnKeeps, ExecMetricsKeeps, MetricsReturnKeeps
     DEF Next, Writer, Inserts, Finished

LEMMA SpecIInv == Spec => []IInv
  <1>1. Init => IInv
    BY InitIInv
  <1>2. IInv /\ [Next]_vars => IInv'
    BY NextKeeps DEF IInv
  <1> QED BY <1>1, <1>2, PTL DEF Spec

-----------------------------------------------------------------------------
(* RunProfileWriter's variables keep to their types. *)
THEOREM WriterTypeCorrect == Spec => []TypeOK
  <1>1. IInv => TypeOK
    BY DEF IInv, RowsInv
  <1> QED BY <1>1, SpecIInv, PTL

(* The batch is below WriteBatchSize whenever the writer waits. *)
THEOREM BatchStaysBelowLimit == Spec => []BatchBelowLimit
  <1>1. IInv => BatchBelowLimit
    BY DEF IInv, RowsInv
  <1> QED BY <1>1, SpecIInv, PTL

(* Neither table ever holds a row twice, whichever inserts fail, and with  *)
(* whatever part of their rows stored.                                     *)
THEOREM RowsAreInsertedAtMostOnce == Spec => []InsertedAtMostOnce
  <1>1. IInv => InsertedAtMostOnce
    BY DEF IInv, RowsInv
  <1> QED BY <1>1, SpecIInv, PTL

(* A row the writer received is pending, stored or in a failed INSERT. *)
THEOREM NoReceivedRowVanishes == Spec => []ReceivedRowsAccounted
  <1>1. IInv => ReceivedRowsAccounted
    BY DEF IInv, RowsInv
  <1> QED BY <1>1, SpecIInv, PTL

(* A writer that returned on a closed input left no row untried. *)
THEOREM ReturnOnCloseDrains == Spec => []ClosedInputIsDrained
  <1>1. IInv => ClosedInputIsDrained
    <2> SUFFICES ASSUME IInv, pc = "returned", after = "nil"
                 PROVE  in = <<>> /\ \A b \in sent : BlockTried(b)
      BY DEF ClosedInputIsDrained
    <2>1. in = <<>> /\ pendingStacks = {} /\ pendingMetrics = {}
      BY DEF IInv, RowsInv, LastFlush, PendingRows
    <2>2. Received = sent
      BY <2>1 DEF Received, Waiting
    <2> QED BY <2>1, <2>2 DEF IInv, RowsInv, ReceivedRowsAccounted, BlockTried
  <1> QED BY <1>1, SpecIInv, PTL

(* However the writer returned, no row it received is left pending: the    *)
(* flush before the return ends with empty slices, its inserts failed or   *)
(* not.                                                                    *)
THEOREM ReturnLeavesNothingPending == Spec => []ReturnLeavesNoRow
  <1>1. IInv => ReturnLeavesNoRow
    <2> SUFFICES ASSUME IInv, pc = "returned"
                 PROVE  \A b \in Received : BlockTried(b)
      BY DEF ReturnLeavesNoRow
    <2>1. pendingStacks = {} /\ pendingMetrics = {}
      BY DEF IInv, RowsInv, PendingRows
    <2> QED BY <2>1 DEF IInv, RowsInv, ReceivedRowsAccounted, BlockTried
  <1> QED BY <1>1, SpecIInv, PTL
=============================================================================
