------------------------- MODULE PayloadQueueProofs -------------------------
(***************************************************************************)
(* Proofs about PayloadQueue, for every set of requests, every number of   *)
(* workers, every QueueDepth, every assignment of names and any number of  *)
(* restarts.  The inductive invariant says which goroutine answers for a   *)
(* request at each moment: the publisher until it returns, then the        *)
(* channel, then one worker, and nobody afterwards.                        *)
(***************************************************************************)
EXTENDS PayloadQueue, TLAPS

(* Nobody else has a task that waits, and no handler has seen it. *)
WaitingTasks ==
    /\ \A i, j \in DOMAIN ch : ch[i] = ch[j] => i = j
    /\ \A r \in Queued : pub[r] = "accepted" /\ handled[r] = 0 /\ r \notin Held

(* A worker has a task of its own exactly while it is busy. *)
WorkersTasks ==
    /\ \A w \in Workers : ~Busy(w) => wtask[w] = NoTask
    /\ \A w \in Workers : Busy(w) => pub[wtask[w]] = "accepted"
    /\ \A w \in Workers : wpc[w] = "read" => handled[wtask[w]] = 0
    /\ \A v, w \in Workers : v # w /\ Busy(v) => wtask[v] # wtask[w]

(* Only what was accepted is handled, once. *)
HandledTasks ==
    \A r \in Requests :
        handled[r] <= 1 /\ (pub[r] # "accepted" => handled[r] = 0)

(* A dead process has no goroutine and no channel. *)
DeadProcess ==
    ~up => /\ ch = <<>>
           /\ \A w \in Workers : ~Busy(w)
           /\ \A r \in Requests : pub[r] \notin InFlight

IInv == TypeOK /\ WaitingTasks /\ WorkersTasks /\ HandledTasks /\ DeadProcess
        /\ NoOrphanFile

-----------------------------------------------------------------------------
(* What a sequence holds after an Append and, when it holds nothing twice, *)
(* after a Tail.                                                           *)
LEMMA AppendElements ==
    ASSUME NEW S, NEW s \in Seq(S), NEW x \in S
    PROVE  LET t == Append(s, x)
           IN /\ t \in Seq(S) /\ Len(t) = Len(s) + 1
              /\ {t[i] : i \in DOMAIN t} = {s[i] : i \in DOMAIN s} \cup {x}
              /\ \A i \in DOMAIN s : t[i] = s[i]
              /\ t[Len(s) + 1] = x
              /\ DOMAIN t = DOMAIN s \cup {Len(s) + 1}
  <1> DEFINE t == Append(s, x)
  <1>1. /\ t \in Seq(S) /\ Len(t) = Len(s) + 1
        /\ \A i \in DOMAIN s : t[i] = s[i]
        /\ t[Len(s) + 1] = x
        /\ DOMAIN t = DOMAIN s \cup {Len(s) + 1}
    OBVIOUS
  <1>2. {t[i] : i \in DOMAIN t} = {s[i] : i \in DOMAIN s} \cup {x}
    BY <1>1
  <1> QED BY <1>1, <1>2

LEMMA TailElements ==
    ASSUME NEW S, NEW s \in Seq(S), s # <<>>,
           \A i, j \in DOMAIN s : s[i] = s[j] => i = j
    PROVE  LET t == Tail(s)
           IN /\ t \in Seq(S) /\ Len(t) = Len(s) - 1
              /\ Head(s) \in {s[i] : i \in DOMAIN s}
              /\ {t[i] : i \in DOMAIN t} = {s[i] : i \in DOMAIN s} \ {Head(s)}
              /\ \A i, j \in DOMAIN t : t[i] = t[j] => i = j
  <1> DEFINE t == Tail(s)
  <1>1. /\ t \in Seq(S) /\ Len(t) = Len(s) - 1
        /\ Len(s) \in Nat \ {0} /\ DOMAIN s = 1..Len(s) /\ DOMAIN t = 1..(Len(s) - 1)
        /\ \A i \in DOMAIN t : t[i] = s[i + 1]
        /\ Head(s) = s[1]
    OBVIOUS
  <1>2. \A i, j \in DOMAIN t : t[i] = t[j] => i = j
    <2> SUFFICES ASSUME NEW i \in DOMAIN t, NEW j \in DOMAIN t, t[i] = t[j]
                 PROVE  i = j
      OBVIOUS
    <2>1. i + 1 \in DOMAIN s /\ j + 1 \in DOMAIN s /\ s[i + 1] = s[j + 1]
      BY <1>1
    <2> QED BY <1>1, <2>1
  <1>3. Head(s) \in {s[i] : i \in DOMAIN s}
    BY <1>1
  <1>4. ASSUME NEW x \in {t[i] : i \in DOMAIN t}
        PROVE  x \in {s[i] : i \in DOMAIN s} /\ x # Head(s)
    <2>1. PICK i \in DOMAIN t : x = t[i]
      OBVIOUS
    <2>2. i + 1 \in DOMAIN s /\ x = s[i + 1] /\ i + 1 # 1 /\ 1 \in DOMAIN s
      BY <1>1, <2>1
    <2> QED BY <1>1, <2>2
  <1>5. ASSUME NEW x \in {s[i] : i \in DOMAIN s}, x # Head(s)
        PROVE  x \in {t[i] : i \in DOMAIN t}
    <2>1. PICK i \in DOMAIN s : x = s[i]
      OBVIOUS
    <2>2. i # 1
      BY <1>1, <1>5, <2>1
    <2>3. i - 1 \in DOMAIN t /\ t[i - 1] = x
      BY <1>1, <2>1, <2>2
    <2> QED BY <2>3
  <1> QED BY <1>1, <1>2, <1>3, <1>4, <1>5

-----------------------------------------------------------------------------
(* A file is never confused with the absence of one, and names its writer. *)
LEMMA FileFacts ==
    /\ \A q \in Requests : /\ Empty(q) \in File /\ Empty(q).by = q
                           /\ Whole(q) \in File /\ Whole(q).by = q
    /\ \A f \in File : f.by \in Requests /\ f # NoFile
  BY NoFileAssumption DEF Empty, Whole, File

-----------------------------------------------------------------------------
(* NewQueue establishes the invariant: it removes what a previous process  *)
(* may have left in the directory.                                         *)
LEMMA InitIInv == Init => IInv
  <1> SUFFICES ASSUME Init PROVE IInv
    OBVIOUS
  <1>1. ch \in Seq(Requests) /\ Len(ch) <= Depth
    BY DepthAssumption DEF Init
  <1>2. restarts \in 0..MaxRestarts
    BY MaxRestartsAssumption DEF Init
  <1>3. TypeOK
    BY <1>1, <1>2 DEF Init, TypeOK, Busy, PubStates, WorkerStates
  <1>4. WaitingTasks /\ WorkersTasks /\ HandledTasks /\ DeadProcess /\ NoOrphanFile
    BY DEF Init, WaitingTasks, WorkersTasks, HandledTasks, DeadProcess,
           NoOrphanFile, Busy, Queued, Held
  <1> QED BY <1>3, <1>4 DEF IInv

-----------------------------------------------------------------------------
(* A step of one Publish call preserves the invariant. *)
LEMMA PublishIInv ==
    ASSUME IInv, NEW r \in Requests, Publish(r)
    PROVE  IInv'
  <1> USE FileOfAssumption, NoFileAssumption, NoTaskAssumption
  <1>1. TypeOK /\ WaitingTasks /\ WorkersTasks /\ HandledTasks /\ DeadProcess
        /\ NoOrphanFile /\ up
    BY DEF IInv, Publish, OpenCreates, OpenFails, WriteSucceeds, WriteFails,
           Enqueue, SendTimesOut, Undo
  <1>2. UNCHANGED <<wpc, wtask, handled, ctxDone, closed, up, restarts>>
    BY DEF Publish, OpenCreates, OpenFails, WriteSucceeds, WriteFails,
           Enqueue, SendTimesOut, Undo, workVars, procVars
  <1>3. Held' = Held /\ \A w \in Workers : Busy(w)' <=> Busy(w)
    BY <1>2 DEF Held, Busy
  <1>4. CASE UNCHANGED ch
    <2>1. Queued' = Queued
      BY <1>4 DEF Queued
    <2>2. /\ pub[r] # "accepted" /\ pub[r] \in PubStates
          /\ \E p \in PubStates \ {"accepted"} : pub' = [pub EXCEPT ![r] = p]
      BY <1>1, <1>4
         DEF Publish, OpenCreates, OpenFails, WriteSucceeds, WriteFails,
             Enqueue, SendTimesOut, Undo, PubStates, InFlight, TypeOK
    <2>3. \E f \in File \cup {NoFile} :
             /\ disk' = [disk EXCEPT ![FileOf[r]] = f] \/ disk' = disk
             /\ f # NoFile => f.by = r /\ pub'[r] \in InFlight
             /\ pub'[r] \notin InFlight =>
                   disk'[FileOf[r]] = NoFile \/ pub[r] = "new"
      <3>1. CASE OpenCreates(r)
        <4>1. /\ disk' = [disk EXCEPT ![FileOf[r]] = Empty(r)]
              /\ pub'[r] \in InFlight
          BY <1>1, <3>1 DEF OpenCreates, TypeOK, InFlight
        <4> QED BY <4>1, FileFacts
      <3>2. CASE WriteSucceeds(r)
        BY <1>1, <3>2, FileFacts DEF WriteSucceeds, TypeOK, InFlight
      <3>3. CASE OpenFails(r) \/ WriteFails(r)
        BY <1>1, <3>3 DEF OpenFails, WriteFails, TypeOK, InFlight
      <3>4. CASE SendTimesOut(r) \/ Undo(r)
        BY <1>1, <3>4 DEF SendTimesOut, Undo, TypeOK, InFlight, Removed
      <3> QED BY <1>1, <1>4, <3>1, <3>2, <3>3, <3>4 DEF Publish, Enqueue, TypeOK
    <2>4. TypeOK'
      <3>1. disk' \in [Names -> File \cup {NoFile}]
        BY <1>1, <2>3 DEF TypeOK
      <3>2. pub' \in [Requests -> PubStates]
        BY <1>1, <2>2 DEF TypeOK
      <3> QED BY <1>1, <1>2, <1>3, <1>4, <3>1, <3>2 DEF TypeOK, Busy
    <2>5. r \notin Queued /\ \A w \in Workers : Busy(w) => wtask[w] # r
      BY <1>1, <2>2 DEF WaitingTasks, WorkersTasks
    <2>6. WaitingTasks' /\ WorkersTasks' /\ HandledTasks' /\ DeadProcess'
      BY <1>1, <1>2, <1>3, <1>4, <2>1, <2>2, <2>5
         DEF WaitingTasks, WorkersTasks, HandledTasks, DeadProcess, TypeOK,
             Queued
    <2>7. NoOrphanFile'
      <3> SUFFICES ASSUME NEW n \in Names, disk'[n] # NoFile
                   PROVE  /\ FileOf[disk'[n].by] = n
                          /\ \/ pub'[disk'[n].by] \in InFlight
                             \/ disk'[n].by \in Queued \cup Held
        BY <1>3, <2>1 DEF NoOrphanFile
      <3>1. PICK f \in File \cup {NoFile} :
               /\ disk' = [disk EXCEPT ![FileOf[r]] = f] \/ disk' = disk
               /\ f # NoFile => f.by = r /\ pub'[r] \in InFlight
               /\ pub'[r] \notin InFlight =>
                     disk'[FileOf[r]] = NoFile \/ pub[r] = "new"
        BY <2>3
      <3>2. CASE n = FileOf[r] /\ disk' # disk
        BY <1>1, <3>1, <3>2 DEF TypeOK
      <3>3. CASE disk'[n] = disk[n]
        <4>1. /\ disk[n] \in File /\ disk[n].by \in Requests
              /\ FileOf[disk[n].by] = n
              /\ pub[disk[n].by] \in InFlight \/ disk[n].by \in Queued \cup Held
          BY <1>1, <3>3, FileFacts DEF TypeOK, NoOrphanFile
        <4>2. CASE disk[n].by = r
          BY <1>1, <2>5, <3>1, <3>3, <4>1, <4>2 DEF Held, InFlight
        <4>3. CASE disk[n].by # r
          BY <1>1, <2>2, <3>3, <4>1, <4>3 DEF TypeOK
        <4> QED BY <4>2, <4>3
      <3> QED BY <1>1, <3>1, <3>2, <3>3 DEF TypeOK
    <2> QED BY <2>4, <2>6, <2>7 DEF IInv
  <1>5. CASE Enqueue(r)
    <2>1. /\ ch' \in Seq(Requests) /\ Len(ch') = Len(ch) + 1
          /\ Queued' = Queued \cup {r}
          /\ \A i \in DOMAIN ch : ch'[i] = ch[i]
          /\ ch'[Len(ch) + 1] = r
          /\ DOMAIN ch' = DOMAIN ch \cup {Len(ch) + 1}
      BY <1>1, <1>5, AppendElements DEF Enqueue, TypeOK, Queued
    <2>2. pub[r] = "send" /\ pub' = [pub EXCEPT ![r] = "accepted"]
          /\ Len(ch) < Depth /\ UNCHANGED disk
      BY <1>5 DEF Enqueue
    <2>3. TypeOK'
      BY <1>1, <1>2, <1>3, <2>1, <2>2, DepthAssumption DEF TypeOK, PubStates
    <2>4. r \notin Queued /\ handled[r] = 0
          /\ \A w \in Workers : Busy(w) => wtask[w] # r
      BY <1>1, <2>2 DEF WaitingTasks, WorkersTasks, HandledTasks
    <2>5. WaitingTasks'
      <3>1. \A i, j \in DOMAIN ch' : ch'[i] = ch'[j] => i = j
        BY <1>1, <2>1, <2>4 DEF WaitingTasks, Queued
      <3>2. r \notin Held
        BY <2>4 DEF Held
      <3> QED BY <1>1, <1>2, <1>3, <2>1, <2>2, <2>4, <3>1, <3>2
              DEF WaitingTasks, TypeOK
    <2>6. WorkersTasks' /\ HandledTasks' /\ DeadProcess'
      BY <1>1, <1>2, <1>3, <2>2, <2>4
         DEF WorkersTasks, HandledTasks, DeadProcess, TypeOK
    <2>7. NoOrphanFile'
      BY <1>1, <1>2, <1>3, <2>1, <2>2 DEF NoOrphanFile, TypeOK, InFlight, File
    <2> QED BY <2>3, <2>5, <2>6, <2>7 DEF IInv
  <1> QED BY <1>4, <1>5
          DEF Publish, OpenCreates, OpenFails, WriteSucceeds, WriteFails,
              SendTimesOut, Undo

-----------------------------------------------------------------------------
(* A step of one worker preserves the invariant. *)
LEMMA ConsumeIInv ==
    ASSUME IInv, NEW w \in Workers, Consume(w)
    PROVE  IInv'
  <1> USE FileOfAssumption, NoTaskAssumption
  <1>1. TypeOK /\ WaitingTasks /\ WorkersTasks /\ HandledTasks /\ DeadProcess
        /\ NoOrphanFile /\ up /\ up'
    BY DEF IInv, Consume, Receive, ReadSucceeds, ReadFails, HandlerReturns,
           RemovePayload, ConsumeReturns, procVars
  <1>2. CASE Receive(w)
    <2>1. /\ ch # <<>> /\ ch' = Tail(ch) /\ wpc[w] = "select"
          /\ wtask' = [wtask EXCEPT ![w] = Head(ch)]
          /\ wpc' = [wpc EXCEPT ![w] = "read"]
          /\ UNCHANGED <<disk, pub, handled, ctxDone, closed, up, restarts>>
      BY <1>2 DEF Receive, procVars
    <2>2. /\ ch' \in Seq(Requests) /\ Len(ch') = Len(ch) - 1
          /\ Head(ch) \in Queued
          /\ Queued' = Queued \ {Head(ch)}
          /\ \A i, j \in DOMAIN ch' : ch'[i] = ch'[j] => i = j
      <3>1. \A i, j \in DOMAIN ch : ch[i] = ch[j] => i = j
        BY <1>1 DEF WaitingTasks
      <3>2. ch \in Seq(Requests)
        BY <1>1 DEF TypeOK
      <3>3. LET t == Tail(ch)
            IN /\ t \in Seq(Requests) /\ Len(t) = Len(ch) - 1
               /\ Head(ch) \in {ch[i] : i \in DOMAIN ch}
               /\ {t[i] : i \in DOMAIN t} = {ch[i] : i \in DOMAIN ch} \ {Head(ch)}
               /\ \A i, j \in DOMAIN t : t[i] = t[j] => i = j
        BY <2>1, <3>1, <3>2, TailElements
      <3> QED BY <2>1, <3>3 DEF Queued
    <2>3. /\ Head(ch) \in Requests /\ pub[Head(ch)] = "accepted"
          /\ handled[Head(ch)] = 0 /\ Head(ch) \notin Held
      BY <1>1, <2>2 DEF WaitingTasks, TypeOK, Queued
    <2>4. /\ \A v \in Workers : Busy(v)' <=> (Busy(v) \/ v = w)
          /\ ~Busy(w)
          /\ Held' = Held \cup {Head(ch)}
      BY <1>1, <2>1 DEF TypeOK, Busy, Held
    <2>5. TypeOK'
      BY <1>1, <2>1, <2>2, <2>3, <2>4, DepthAssumption
         DEF TypeOK, WorkerStates
    <2>6. WaitingTasks'
      BY <1>1, <2>1, <2>2, <2>4 DEF WaitingTasks
    <2>7. WorkersTasks'
      <3>1. \A v \in Workers : wtask[v] # Head(ch)
        BY <1>1, <2>3 DEF WorkersTasks, Held
      <3> QED BY <1>1, <2>1, <2>3, <2>4, <3>1 DEF WorkersTasks, TypeOK, Busy
    <2>8. HandledTasks' /\ DeadProcess'
      BY <1>1, <2>1 DEF HandledTasks, DeadProcess
    <2>9. NoOrphanFile'
      BY <1>1, <2>1, <2>2, <2>4 DEF NoOrphanFile
    <2> QED BY <2>5, <2>6, <2>7, <2>8, <2>9 DEF IInv
  <1>3. CASE ReadSucceeds(w) \/ ReadFails(w) \/ HandlerReturns(w)
    <2>1. /\ UNCHANGED <<disk, ch, pub, wtask, ctxDone, closed, up, restarts>>
          /\ Busy(w) /\ wtask[w] \in Requests /\ pub[wtask[w]] = "accepted"
          /\ \E s \in {"handle", "remove"} : wpc' = [wpc EXCEPT ![w] = s]
      BY <1>1, <1>3
         DEF ReadSucceeds, ReadFails, HandlerReturns, procVars, Busy, TypeOK,
             WorkersTasks
    <2>2. /\ \A v \in Workers : Busy(v)' <=> Busy(v)
          /\ Held' = Held /\ Queued' = Queued
          /\ wtask[w] \in Held
      BY <1>1, <2>1 DEF Busy, Held, Queued, TypeOK
    <2>3. \/ handled' = handled
          \/ /\ handled' = [handled EXCEPT ![wtask[w]] = @ + 1]
             /\ handled[wtask[w]] = 0
      BY <1>1, <1>3
         DEF ReadSucceeds, ReadFails, HandlerReturns, WorkersTasks
    <2>4. TypeOK'
      <3>1. handled' \in [Requests -> Nat]
        BY <1>1, <2>1, <2>3 DEF TypeOK
      <3>2. wpc' \in [Workers -> WorkerStates]
        BY <1>1, <2>1 DEF TypeOK, WorkerStates
      <3> QED BY <1>1, <2>1, <2>2, <3>1, <3>2 DEF TypeOK
    <2>5. WaitingTasks' /\ HandledTasks' /\ DeadProcess'
      BY <1>1, <2>1, <2>2, <2>3
         DEF WaitingTasks, HandledTasks, DeadProcess, TypeOK, Queued
    <2>6. WorkersTasks'
      BY <1>1, <2>1, <2>2, <2>3 DEF WorkersTasks, TypeOK, Busy
    <2>7. NoOrphanFile'
      BY <1>1, <2>1, <2>2 DEF NoOrphanFile
    <2> QED BY <2>4, <2>5, <2>6, <2>7 DEF IInv
  <1>4. CASE RemovePayload(w)
    <2>1. /\ UNCHANGED <<ch, pub, handled, ctxDone, closed, up, restarts>>
          /\ disk' = [disk EXCEPT ![FileOf[wtask[w]]] = NoFile]
          /\ wtask' = [wtask EXCEPT ![w] = NoTask]
          /\ wpc' = [wpc EXCEPT ![w] = "select"]
          /\ Busy(w) /\ wtask[w] \in Requests
      BY <1>1, <1>4 DEF RemovePayload, procVars, Busy, TypeOK, Removed
    <2>2. \A v \in Workers : Busy(v)' <=> (Busy(v) /\ v # w)
      BY <1>1, <2>1 DEF Busy, TypeOK
    <2>3. Held' = Held \ {wtask[w]} /\ Queued' = Queued /\ wtask[w] \in Held
      BY <1>1, <2>1, <2>2 DEF Held, Queued, TypeOK, WorkersTasks
    <2>4. TypeOK'
      BY <1>1, <2>1, <2>2 DEF TypeOK, WorkerStates
    <2>5. WaitingTasks' /\ HandledTasks' /\ DeadProcess'
      BY <1>1, <2>1, <2>2, <2>3 DEF WaitingTasks, HandledTasks, DeadProcess
    <2>6. WorkersTasks'
      BY <1>1, <2>1, <2>2 DEF WorkersTasks, TypeOK, Busy
    <2>7. NoOrphanFile'
      <3> SUFFICES ASSUME NEW n \in Names, disk'[n] # NoFile
                   PROVE  /\ FileOf[disk'[n].by] = n
                          /\ \/ pub[disk'[n].by] \in InFlight
                             \/ disk'[n].by \in Queued \cup Held'
        BY <2>1, <2>3 DEF NoOrphanFile
      <3>1. n # FileOf[wtask[w]] /\ disk'[n] = disk[n]
        BY <1>1, <2>1 DEF TypeOK
      <3> QED BY <1>1, <2>3, <3>1 DEF NoOrphanFile
    <2> QED BY <2>4, <2>5, <2>6, <2>7 DEF IInv
  <1>5. CASE ConsumeReturns(w)
    <2>1. /\ UNCHANGED <<disk, ch, pub, wtask, handled, ctxDone, closed, up, restarts>>
          /\ wpc' = [wpc EXCEPT ![w] = "stopped"] /\ ~Busy(w)
      BY <1>5 DEF ConsumeReturns, procVars, Busy
    <2>2. /\ \A v \in Workers : Busy(v)' <=> Busy(v)
          /\ Held' = Held /\ Queued' = Queued
      BY <1>1, <2>1 DEF Busy, Held, Queued, TypeOK
    <2>3. TypeOK'
      BY <1>1, <2>1, <2>2 DEF TypeOK, WorkerStates
    <2>4. WaitingTasks' /\ HandledTasks' /\ DeadProcess' /\ NoOrphanFile'
      BY <1>1, <2>1, <2>2
         DEF WaitingTasks, HandledTasks, DeadProcess, NoOrphanFile
    <2>5. WorkersTasks'
      BY <1>1, <2>1, <2>2 DEF WorkersTasks, TypeOK, Busy
    <2> QED BY <2>3, <2>4, <2>5 DEF IInv
  <1> QED BY <1>2, <1>3, <1>4, <1>5 DEF Consume

-----------------------------------------------------------------------------
(* The process dies, comes back or is told to stop. *)
LEMMA ProcessIInv ==
    ASSUME IInv, Cancel \/ Close \/ Crash \/ Restart \/ UNCHANGED vars
    PROVE  IInv'
  <1>1. TypeOK /\ WaitingTasks /\ WorkersTasks /\ HandledTasks /\ DeadProcess
        /\ NoOrphanFile
    BY DEF IInv
  <1>2. CASE Cancel \/ Close \/ UNCHANGED vars
    <2>1. UNCHANGED <<disk, ch, pub, wpc, wtask, handled, up, restarts>>
          /\ ctxDone' \in BOOLEAN /\ closed' \in BOOLEAN
      BY <1>1, <1>2 DEF Cancel, Close, vars, workVars, TypeOK
    <2>2. /\ \A v \in Workers : Busy(v)' <=> Busy(v)
          /\ Held' = Held /\ Queued' = Queued
      BY <2>1 DEF Busy, Held, Queued
    <2> QED BY <1>1, <2>1, <2>2
            DEF IInv, TypeOK, WaitingTasks, WorkersTasks, HandledTasks,
                DeadProcess, NoOrphanFile
  <1>3. CASE Crash
    <2>1. /\ UNCHANGED <<disk, handled, ctxDone, closed>>
          /\ ch' = <<>> /\ up' = FALSE /\ restarts' \in 0..MaxRestarts
          /\ pub' \in [Requests -> PubStates]
          /\ wpc' = [v \in Workers |-> "select"]
          /\ wtask' = [v \in Workers |-> NoTask]
      BY <1>1, <1>3, MaxRestartsAssumption
         DEF Crash, TypeOK, PubStates, InFlight
    <2>2. \A q \in Requests : /\ pub'[q] \notin InFlight
                              /\ pub'[q] = "accepted" <=> pub[q] = "accepted"
      BY <1>1, <1>3 DEF Crash, TypeOK, InFlight
    <2>3. (\A v \in Workers : ~Busy(v)') /\ Held' = {} /\ Queued' = {}
      BY <2>1 DEF Busy, Held, Queued
    <2>4. TypeOK'
      <3>1. ch' \in Seq(Requests) /\ Len(ch') <= Depth
        BY <2>1, DepthAssumption
      <3> QED BY <1>1, <2>1, <2>3, <3>1 DEF TypeOK, WorkerStates
    <2>5. WaitingTasks' /\ HandledTasks' /\ DeadProcess' /\ NoOrphanFile'
      BY <1>1, <2>1, <2>2, <2>3
         DEF WaitingTasks, HandledTasks, DeadProcess, NoOrphanFile
    <2>6. WorkersTasks'
      BY <2>1, <2>3 DEF WorkersTasks
    <2> QED BY <2>4, <2>5, <2>6 DEF IInv
  <1>4. CASE Restart
    <2>1. /\ UNCHANGED <<ch, pub, wpc, wtask, handled, restarts>>
          /\ up' = TRUE /\ disk' = [n \in Names |-> NoFile]
          /\ ctxDone' = FALSE /\ closed' = FALSE
      BY <1>4 DEF Restart, workVars
    <2>2. /\ \A v \in Workers : Busy(v)' <=> Busy(v)
          /\ Held' = Held /\ Queued' = Queued
      BY <2>1 DEF Busy, Held, Queued
    <2> QED BY <1>1, <2>1, <2>2
            DEF IInv, TypeOK, WaitingTasks, WorkersTasks, HandledTasks,
                DeadProcess, NoOrphanFile
  <1> QED BY <1>2, <1>3, <1>4

LEMMA NextIInv == IInv /\ [Next]_vars => IInv'
  BY PublishIInv, ConsumeIInv, ProcessIInv DEF Next, Finished

LEMMA SpecIInv == Spec => []IInv
  <1>1. Init => IInv
    BY InitIInv
  <1>2. IInv /\ [Next]_vars => IInv'
    BY NextIInv
  <1> QED BY <1>1, <1>2, PTL DEF Spec

-----------------------------------------------------------------------------
(* The variables of queue.go's model keep to their types, and the channel  *)
(* to QueueDepth tasks.                                                    *)
THEOREM TypeCorrect == Spec => []TypeOK
  <1>1. IInv => TypeOK
    BY DEF IInv
  <1> QED BY <1>1, SpecIInv, PTL

(* No file of the payload directory is orphaned while the process runs,    *)
(* whatever fails or times out, and even when names collide.               *)
THEOREM NoFileIsOrphaned == Spec => []NoOrphanFile
  <1>1. IInv => NoOrphanFile
    BY DEF IInv
  <1> QED BY <1>1, SpecIInv, PTL

(* What Publish refused (server/profiles.go answers 500) is never handled. *)
THEOREM RefusedIsNeverHandled == Spec => []RefusedNeverHandled
  <1>1. IInv => RefusedNeverHandled
    BY DEF IInv, RefusedNeverHandled, HandledTasks, WaitingTasks,
           WorkersTasks, Held
  <1> QED BY <1>1, SpecIInv, PTL

(* Consume's workers hand each task to the handler at most once. *)
THEOREM TaskIsHandledAtMostOnce == Spec => []HandledAtMostOnce
  <1>1. IInv => HandledAtMostOnce
    <2> SUFFICES ASSUME IInv PROVE HandledAtMostOnce
      OBVIOUS
    <2>1. \A q \in Queued : q \in Requests
      BY DEF IInv, TypeOK, Queued
    <2> QED BY <2>1
            DEF IInv, HandledAtMostOnce, HandledTasks, WaitingTasks,
                WorkersTasks
  <1> QED BY <1>1, SpecIInv, PTL

-----------------------------------------------------------------------------
(* The file of a request with a name of its own is what its progress says. *)
PayloadInPlace ==
    \A r \in Requests : OwnName(r) =>
        /\ pub[r] = "write" => disk[FileOf[r]] = Empty(r)
        /\ pub[r] = "send" \/ r \in Queued \cup Held =>
              disk[FileOf[r]] = Whole(r)

LEMMA NextPayloadInPlace ==
    ASSUME IInv, PayloadInPlace, [Next]_vars
    PROVE  PayloadInPlace'
  <1> USE FileOfAssumption
  <1>1. TypeOK /\ WaitingTasks /\ WorkersTasks /\ DeadProcess
    BY DEF IInv
  <1> SUFFICES ASSUME NEW q \in Requests, OwnName(q)
               PROVE  /\ pub'[q] = "write" => disk'[FileOf[q]] = Empty(q)
                      /\ pub'[q] = "send" \/ q \in Queued' \cup Held' =>
                            disk'[FileOf[q]] = Whole(q)
    BY DEF PayloadInPlace
  <1>2. ASSUME NEW r \in Requests, Publish(r)
        PROVE  /\ pub'[q] = "write" => disk'[FileOf[q]] = Empty(q)
               /\ pub'[q] = "send" \/ q \in Queued' \cup Held' =>
                     disk'[FileOf[q]] = Whole(q)
    <2>1. Held' = Held
      BY <1>2 DEF Publish, OpenCreates, OpenFails, WriteSucceeds, WriteFails,
                  Enqueue, SendTimesOut, Undo, workVars, Held, Busy
    <2>2. Queued' = Queued \/ (pub[r] = "send" /\ Queued' = Queued \cup {r})
      <3>1. CASE UNCHANGED ch
        BY <3>1 DEF Queued
      <3>2. CASE Enqueue(r)
        BY <1>1, <3>2, AppendElements DEF Enqueue, TypeOK, Queued
      <3> QED BY <1>2, <3>1, <3>2
              DEF Publish, OpenCreates, OpenFails, WriteSucceeds, WriteFails,
                  SendTimesOut, Undo
    <2>3. CASE q = r
      <3>1. pub[r] # "accepted" /\ r \notin Queued \cup Held
        BY <1>1, <1>2
           DEF Publish, OpenCreates, OpenFails, WriteSucceeds, WriteFails,
               Enqueue, SendTimesOut, Undo, WaitingTasks, WorkersTasks, Held
      <3>2. CASE OpenCreates(r) \/ WriteSucceeds(r)
        BY <1>1, <2>1, <2>2, <2>3, <3>1, <3>2
           DEF OpenCreates, WriteSucceeds, TypeOK, PayloadInPlace, Queued
      <3>3. CASE Enqueue(r)
        BY <1>1, <2>1, <2>3, <3>1, <3>3
           DEF Enqueue, TypeOK, PayloadInPlace
      <3>4. CASE OpenFails(r) \/ WriteFails(r) \/ SendTimesOut(r) \/ Undo(r)
        BY <1>1, <2>1, <2>2, <2>3, <3>1, <3>4
           DEF OpenFails, WriteFails, SendTimesOut, Undo, TypeOK, Queued
      <3> QED BY <1>2, <3>2, <3>3, <3>4 DEF Publish
    <2>4. CASE q # r
      <3>1. FileOf[q] # FileOf[r]
        BY <1>2, <2>4 DEF OwnName
      <3>2. pub'[q] = pub[q] /\ disk'[FileOf[q]] = disk[FileOf[q]]
        BY <1>1, <1>2, <2>4, <3>1
           DEF Publish, OpenCreates, OpenFails, WriteSucceeds, WriteFails,
               Enqueue, SendTimesOut, Undo, TypeOK, Removed
      <3> QED BY <2>1, <2>2, <2>4, <3>2 DEF PayloadInPlace
    <2> QED BY <2>3, <2>4
  <1>3. ASSUME NEW w \in Workers, Consume(w)
        PROVE  /\ pub'[q] = "write" => disk'[FileOf[q]] = Empty(q)
               /\ pub'[q] = "send" \/ q \in Queued' \cup Held' =>
                     disk'[FileOf[q]] = Whole(q)
    <2>1. pub' = pub
      BY <1>3 DEF Consume, Receive, ReadSucceeds, ReadFails, HandlerReturns,
                  RemovePayload, ConsumeReturns
    <2>2. CASE Receive(w)
      <3>1. disk' = disk
        BY <2>2 DEF Receive
      <3>2. Queued' \cup Held' \subseteq Queued \cup Held
        BY <1>1, <2>2, TailElements
           DEF Receive, TypeOK, WaitingTasks, Queued, Held, Busy
      <3> QED BY <2>1, <3>1, <3>2 DEF PayloadInPlace
    <2>3. CASE RemovePayload(w)
      <3>1. /\ Queued' = Queued
            /\ Held' \subseteq Held \ {wtask[w]}
            /\ wtask[w] \in Held /\ wtask[w] \in Requests
        BY <1>1, <2>3 DEF RemovePayload, TypeOK, Queued, Held, Busy, WorkersTasks
      <3>2. pub[wtask[w]] = "accepted" /\ wtask[w] \notin Queued
        BY <1>1, <2>3, <3>1 DEF RemovePayload, WorkersTasks, WaitingTasks, Busy
      <3>3. q # wtask[w] => disk'[FileOf[q]] = disk[FileOf[q]]
        BY <1>1, <2>3, <3>1 DEF RemovePayload, TypeOK, Removed, OwnName
      <3> QED BY <2>1, <3>1, <3>2, <3>3 DEF PayloadInPlace
    <2>4. CASE ReadSucceeds(w) \/ ReadFails(w) \/ HandlerReturns(w)
               \/ ConsumeReturns(w)
      <3>1. disk' = disk /\ Queued' = Queued /\ Held' = Held
        BY <1>1, <2>4
           DEF ReadSucceeds, ReadFails, HandlerReturns, ConsumeReturns, TypeOK,
               Queued, Held, Busy
      <3> QED BY <2>1, <3>1 DEF PayloadInPlace
    <2> QED BY <1>3, <2>2, <2>3, <2>4 DEF Consume
  <1>4. CASE Cancel \/ Close \/ Finished \/ UNCHANGED vars
    BY <1>4 DEF Cancel, Close, Finished, vars, workVars, PayloadInPlace,
                Queued, Held, Busy
  <1>5. CASE Crash \/ Restart
    <2>1. pub'[q] \notin InFlight
      BY <1>1, <1>5 DEF Crash, Restart, TypeOK, InFlight, DeadProcess
    <2>2. Queued' = {} /\ Held' = {}
      BY <1>1, <1>5 DEF Crash, Restart, workVars, DeadProcess, Queued, Held, Busy
    <2> QED BY <2>1, <2>2 DEF InFlight
  <1> QED BY <1>2, <1>3, <1>4, <1>5 DEF Next

(* Every task in the channel or at a worker whose name nobody else drew    *)
(* (getProfileFileName) finds its own payload, whole, on disk.             *)
THEOREM TaskFindsItsPayload == Spec => []TaskHasItsPayload
  <1>1. Init => PayloadInPlace
    BY DEF Init, PayloadInPlace, Queued, Held, Busy
  <1>2. IInv /\ PayloadInPlace /\ [Next]_vars => PayloadInPlace'
    BY NextPayloadInPlace
  <1>3. IInv /\ PayloadInPlace => TaskHasItsPayload
    <2> SUFFICES ASSUME IInv, PayloadInPlace PROVE TaskHasItsPayload
      OBVIOUS
    <2>1. Queued \cup Held \subseteq Requests
      BY DEF IInv, TypeOK, Queued, Held
    <2> QED BY <2>1 DEF PayloadInPlace, TaskHasItsPayload
  <1> QED BY <1>1, <1>2, <1>3, SpecIInv, PTL DEF Spec
=============================================================================
