---------------------------- MODULE PayloadQueue ----------------------------
(***************************************************************************)
(* The payload queue of internal/indexer/queue.go.  Publish spools a       *)
(* profile into a file of the payload directory and then offers a Task     *)
(* naming that file to a channel of QueueDepth slots; the indexer's        *)
(* workers (worker.go, indexer.go) receive tasks, read the file, call the  *)
(* handler and remove the file.  The disk and the channel are two pieces   *)
(* of state that no lock ties together: what the properties below say is   *)
(* how they stay in step while publishers time out, workers fail and the   *)
(* process dies and comes back.                                            *)
(*                                                                         *)
(* A request is one call of Publish.  Its payload is identified with the   *)
(* request, a file holds the payload of one request, whole or not yet.     *)
(***************************************************************************)
EXTENDS Naturals, Sequences, FiniteSets

CONSTANTS
    Requests,     \* calls of Publish, one per accepted HTTP upload
    Workers,      \* the indexer's consumer goroutines
    Names,        \* file names in the payload directory
    FileOf,       \* the name the server drew for a request
    Depth,        \* QueueConfig.QueueDepth
    MaxRestarts,  \* bound: crashes of the process that TLC explores
    Shutdown,     \* which of "cancel" (ctx) and "close" (Close) may happen
    NoFile,       \* the value of a name that no file has
    NoTask        \* the task of a worker that holds none

ASSUME DepthAssumption == Depth \in Nat \ {0}
ASSUME FileOfAssumption == FileOf \in [Requests -> Names]
ASSUME MaxRestartsAssumption == MaxRestarts \in Nat
ASSUME ShutdownAssumption == Shutdown \subseteq {"cancel", "close"}
ASSUME NoTaskAssumption == NoTask \notin Requests

File == [by : Requests, whole : BOOLEAN]
ASSUME NoFileAssumption == NoFile \notin File

VARIABLES
    disk,      \* the payload directory
    ch,        \* the buffered channel of tasks
    pub,       \* where each Publish call stands
    wpc,       \* where each worker stands in Consume
    wtask,     \* the task a worker has received
    handled,   \* history: handler calls per task
    ctxDone,   \* the context given to Consume is cancelled
    closed,    \* Queue.Close was called
    up,        \* the process runs
    restarts   \* crashes so far

pubVars == <<pub>>
workVars == <<wpc, wtask>>
procVars == <<ctxDone, closed, up, restarts>>
vars == <<disk, ch, pub, wpc, wtask, handled, ctxDone, closed, up, restarts>>

(***************************************************************************)
(* A Publish call has not begun ("new"); has created its file and writes   *)
(* it ("write"); stands in the select ("send"); is about to run its        *)
(* deferred removal ("undo"); has returned nil ("accepted") or an error    *)
(* ("refused"); or died with the process ("gone").                         *)
(***************************************************************************)
InFlight == {"write", "send", "undo"}
PubStates == {"new", "accepted", "refused", "gone"} \cup InFlight
WorkerStates == {"select", "read", "handle", "remove", "stopped"}

Busy(w) == wpc[w] \in {"read", "handle", "remove"}
Queued == {ch[i] : i \in DOMAIN ch}
Held == {wtask[w] : w \in {v \in Workers : Busy(v)}}

Whole(r) == [by |-> r, whole |-> TRUE]
Empty(r) == [by |-> r, whole |-> FALSE]
Removed(n) == [disk EXCEPT ![n] = NoFile]

-----------------------------------------------------------------------------
(* NewQueue: an empty directory and an empty channel. *)
Init ==
    /\ disk = [n \in Names |-> NoFile]
    /\ ch = <<>>
    /\ pub = [r \in Requests |-> "new"]
    /\ wpc = [w \in Workers |-> "select"]
    /\ wtask = [w \in Workers |-> NoTask]
    /\ handled = [r \in Requests |-> 0]
    /\ ctxDone = FALSE
    /\ closed = FALSE
    /\ up = TRUE
    /\ restarts = 0

-----------------------------------------------------------------------------
(* Publish, one action per step that another goroutine can see.            *)

(* O_CREATE|O_EXCL succeeds only on a name that has no file. *)
OpenCreates(r) ==
    /\ up /\ ~closed
    /\ pub[r] = "new"
    /\ disk[FileOf[r]] = NoFile
    /\ disk' = [disk EXCEPT ![FileOf[r]] = Empty(r)]
    /\ pub' = [pub EXCEPT ![r] = "write"]
    /\ UNCHANGED <<ch, workVars, handled, procVars>>

(* The name is taken or the file system refuses: Publish returns before it *)
(* has installed the deferred removal.                                     *)
OpenFails(r) ==
    /\ up /\ ~closed
    /\ pub[r] = "new"
    /\ pub' = [pub EXCEPT ![r] = "refused"]
    /\ UNCHANGED <<disk, ch, workVars, handled, procVars>>

(* Write and Close both succeed.  The bytes go to the inode the call       *)
(* created: they show under the name only if the file is still linked.     *)
WriteSucceeds(r) ==
    /\ up
    /\ pub[r] = "write"
    /\ disk' = IF disk[FileOf[r]] = Empty(r)
               THEN [disk EXCEPT ![FileOf[r]] = Whole(r)]
               ELSE disk
    /\ pub' = [pub EXCEPT ![r] = "send"]
    /\ UNCHANGED <<ch, workVars, handled, procVars>>

(* Faulty variant: the error of Write is overwritten by that of Close. *)
WriteFailsUnnoticed(r) ==
    /\ up
    /\ pub[r] = "write"
    /\ pub' = [pub EXCEPT ![r] = "send"]
    /\ UNCHANGED <<disk, ch, workVars, handled, procVars>>

WriteFails(r) ==
    /\ up
    /\ pub[r] = "write"
    /\ pub' = [pub EXCEPT ![r] = "undo"]
    /\ UNCHANGED <<disk, ch, workVars, handled, procVars>>

(* Faulty variants: a channel one slot longer than QueueDepth; a deadline  *)
(* looked at again after the send.                                         *)
EnqueueOneMore(r) ==
    /\ up
    /\ pub[r] = "send"
    /\ Len(ch) <= Depth
    /\ ch' = Append(ch, r)
    /\ pub' = [pub EXCEPT ![r] = "accepted"]
    /\ UNCHANGED <<disk, workVars, handled, procVars>>

EnqueueThenCheck(r) ==
    /\ up
    /\ pub[r] = "send"
    /\ Len(ch) < Depth
    /\ ch' = Append(ch, r)
    /\ \E outcome \in {"accepted", "undo"} : pub' = [pub EXCEPT ![r] = outcome]
    /\ UNCHANGED <<disk, workVars, handled, procVars>>

(* The select's send case: there is room, the call returns nil. *)
Enqueue(r) ==
    /\ up
    /\ pub[r] = "send"
    /\ Len(ch) < Depth
    /\ ch' = Append(ch, r)
    /\ pub' = [pub EXCEPT ![r] = "accepted"]
    /\ UNCHANGED <<disk, workVars, handled, procVars>>

(* Faulty variant: a plain send, with no timer beside it. *)
SendNeverTimesOut(r) == FALSE /\ UNCHANGED vars

(* The select's Done case, its own removal of the file first.  The timer   *)
(* or the caller's context may be ready at any moment, and select draws    *)
(* between two ready cases, so room in the channel does not exclude it.    *)
SendTimesOut(r) ==
    /\ up
    /\ pub[r] = "send"
    /\ disk' = Removed(FileOf[r])
    /\ pub' = [pub EXCEPT ![r] = "undo"]
    /\ UNCHANGED <<ch, workVars, handled, procVars>>

(* The deferred removal on an error, then the return. *)
Undo(r) ==
    /\ up
    /\ pub[r] = "undo"
    /\ disk' = Removed(FileOf[r])
    /\ pub' = [pub EXCEPT ![r] = "refused"]
    /\ UNCHANGED <<ch, workVars, handled, procVars>>

Publish(r) ==
    \/ OpenCreates(r) \/ OpenFails(r)
    \/ WriteSucceeds(r) \/ WriteFails(r)
    \/ Enqueue(r) \/ SendTimesOut(r)
    \/ Undo(r)

-----------------------------------------------------------------------------
(* Consume, as run by each worker.                                         *)

Receive(w) ==
    /\ up
    /\ wpc[w] = "select"
    /\ ch # <<>>
    /\ ch' = Tail(ch)
    /\ wtask' = [wtask EXCEPT ![w] = Head(ch)]
    /\ wpc' = [wpc EXCEPT ![w] = "read"]
    /\ UNCHANGED <<disk, pub, handled, procVars>>

(* readPayload succeeds and the handler is called. *)
ReadSucceeds(w) ==
    /\ up
    /\ wpc[w] = "read"
    /\ disk[FileOf[wtask[w]]] # NoFile
    /\ handled' = [handled EXCEPT ![wtask[w]] = @ + 1]
    /\ wpc' = [wpc EXCEPT ![w] = "handle"]
    /\ UNCHANGED <<disk, ch, pub, wtask, procVars>>

(* Faulty variant: the removal is deferred only once the read succeeded. *)
ReadFailsKeepsFile(w) ==
    /\ up
    /\ wpc[w] = "read"
    /\ wpc' = [wpc EXCEPT ![w] = "select"]
    /\ wtask' = [wtask EXCEPT ![w] = NoTask]
    /\ UNCHANGED <<disk, ch, pub, handled, procVars>>

(* The file is missing or unreadable: the handler is not called. *)
ReadFails(w) ==
    /\ up
    /\ wpc[w] = "read"
    /\ wpc' = [wpc EXCEPT ![w] = "remove"]
    /\ UNCHANGED <<disk, ch, pub, wtask, handled, procVars>>

(* Faulty variant: a task whose handler failed goes back to the channel. *)
HandlerRequeues(w) ==
    /\ up
    /\ wpc[w] = "handle"
    /\ \/ ch' = ch
       \/ Len(ch) < Depth /\ ch' = Append(ch, wtask[w])
    /\ wpc' = [wpc EXCEPT ![w] = "remove"]
    /\ UNCHANGED <<disk, pub, wtask, handled, procVars>>

(* The handler returns, nil or an error: the error is only logged. *)
HandlerReturns(w) ==
    /\ up
    /\ wpc[w] = "handle"
    /\ wpc' = [wpc EXCEPT ![w] = "remove"]
    /\ UNCHANGED <<disk, ch, pub, wtask, handled, procVars>>

(* The deferred removal of the task's file, on every path. *)
RemovePayload(w) ==
    /\ up
    /\ wpc[w] = "remove"
    /\ disk' = Removed(FileOf[wtask[w]])
    /\ wtask' = [wtask EXCEPT ![w] = NoTask]
    /\ wpc' = [wpc EXCEPT ![w] = "select"]
    /\ UNCHANGED <<ch, pub, handled, procVars>>

(* Faulty variant: Close stops the workers although tasks wait. *)
ConsumeReturnsEarly(w) ==
    /\ up
    /\ wpc[w] = "select"
    /\ ctxDone \/ closed
    /\ wpc' = [wpc EXCEPT ![w] = "stopped"]
    /\ UNCHANGED <<disk, ch, pub, wtask, handled, procVars>>

(* ctx.Done, which select may draw although tasks wait, or a channel that  *)
(* is closed and drained: Consume returns.                                 *)
ConsumeReturns(w) ==
    /\ up
    /\ wpc[w] = "select"
    /\ ctxDone \/ (closed /\ ch = <<>>)
    /\ wpc' = [wpc EXCEPT ![w] = "stopped"]
    /\ UNCHANGED <<disk, ch, pub, wtask, handled, procVars>>

Consume(w) ==
    \/ Receive(w)
    \/ ReadSucceeds(w) \/ ReadFails(w)
    \/ HandlerReturns(w)
    \/ RemovePayload(w)
    \/ ConsumeReturns(w)

-----------------------------------------------------------------------------
(* The process around them.                                                *)

Cancel ==
    /\ up
    /\ "cancel" \in Shutdown
    /\ ~ctxDone
    /\ ctxDone' = TRUE
    /\ UNCHANGED <<disk, ch, pub, workVars, handled, closed, up, restarts>>

(* Close has no caller in the repository.  A send on a closed channel      *)
(* panics, so whoever calls it has to have stopped publishing first.       *)
Close ==
    /\ up
    /\ "close" \in Shutdown
    /\ ~closed
    /\ \A r \in Requests : pub[r] \notin InFlight
    /\ closed' = TRUE
    /\ UNCHANGED <<disk, ch, pub, workVars, handled, ctxDone, up, restarts>>

(* The process dies: memory is lost, the directory is not. *)
Crash ==
    /\ up
    /\ restarts < MaxRestarts
    /\ up' = FALSE
    /\ restarts' = restarts + 1
    /\ ch' = <<>>
    /\ pub' = [r \in Requests |-> IF pub[r] \in InFlight THEN "gone"
                                                         ELSE pub[r]]
    /\ wpc' = [w \in Workers |-> "select"]
    /\ wtask' = [w \in Workers |-> NoTask]
    /\ UNCHANGED <<disk, handled, ctxDone, closed>>

(* NewQueue again: RemoveAll and MkdirAll, before workers start. *)
Restart ==
    /\ ~up
    /\ up' = TRUE
    /\ disk' = [n \in Names |-> NoFile]
    /\ ctxDone' = FALSE
    /\ closed' = FALSE
    /\ UNCHANGED <<ch, pub, workVars, handled, restarts>>

(* Nothing is left to do: TLC is not to take this for a deadlock. *)
Finished ==
    /\ up
    /\ \A r \in Requests : pub[r] \notin InFlight \cup {"new"} \/ closed
    /\ \A w \in Workers : ~Busy(w)
    /\ ch = <<>> \/ \A w \in Workers : wpc[w] = "stopped"
    /\ UNCHANGED vars

Next ==
    \/ \E r \in Requests : Publish(r)
    \/ \E w \in Workers : Consume(w)
    \/ Cancel \/ Close
    \/ Crash \/ Restart
    \/ Finished

(***************************************************************************)
(* Fairness.  File operations return, a select with a ready case takes     *)
(* one, and the timer of Publish fires: none of the steps of a call that   *)
(* is running waits for ever.  A worker's step is fair as its goroutine    *)
(* is; HandlerReturns is fair here because the handler is a parameter of   *)
(* Consume, and Ingest replaces the assumption by the sink's own progress. *)
(* Requests arrive, contexts are cancelled and processes die or come back  *)
(* at the environment's will.                                              *)
(***************************************************************************)
PublishProceeds(r) == WriteSucceeds(r) \/ WriteFails(r) \/ Enqueue(r)
                      \/ SendTimesOut(r) \/ Undo(r)

Fairness ==
    /\ \A r \in Requests : WF_vars(PublishProceeds(r))
    /\ \A w \in Workers : WF_vars(Consume(w))

Spec == Init /\ [][Next]_vars /\ Fairness

-----------------------------------------------------------------------------
(* Every variable keeps to its type; the channel to its QueueDepth slots.  *)
TypeOK ==
    /\ disk \in [Names -> File \cup {NoFile}]
    /\ ch \in Seq(Requests) /\ Len(ch) <= Depth
    /\ pub \in [Requests -> PubStates]
    /\ wpc \in [Workers -> WorkerStates]
    /\ wtask \in [Workers -> Requests \cup {NoTask}]
    /\ \A w \in Workers : Busy(w) => wtask[w] \in Requests
    /\ handled \in [Requests -> Nat]
    /\ ctxDone \in BOOLEAN /\ closed \in BOOLEAN /\ up \in BOOLEAN
    /\ restarts \in 0..MaxRestarts

(* No file outlives its reason: while the process runs, each file of the   *)
(* payload directory belongs to a Publish that has not returned, to a task *)
(* in the channel or to a task a worker holds.  Publish's two removals,    *)
(* Consume's deferred one and NewQueue's RemoveAll have to cover between   *)
(* them every way a profile can end.                                       *)
NoOrphanFile ==
    up => \A n \in Names : disk[n] # NoFile =>
            /\ FileOf[disk[n].by] = n
            /\ \/ pub[disk[n].by] \in InFlight
               \/ disk[n].by \in Queued \cup Held

(* A Publish that returned an error has left no task behind: its profile   *)
(* is in no channel and at no worker, and no handler ever saw it, so a     *)
(* client that retries after a 500 does not get it counted twice.          *)
RefusedNeverHandled ==
    \A r \in Requests : pub[r] # "accepted" =>
        r \notin Queued \cup Held /\ handled[r] = 0

(* Each accepted task reaches the handler at most once: it is never both   *)
(* waiting and handled, nor with two workers, across restarts included.    *)
HandledAtMostOnce ==
    /\ \A r \in Requests : handled[r] <= 1
    /\ \A r \in Queued : handled[r] = 0 /\ r \notin Held
    /\ \A v, w \in Workers : v # w /\ Busy(v) => wtask[v] # wtask[w]
    /\ \A i, j \in DOMAIN ch : ch[i] = ch[j] => i = j

OwnName(r) == \A s \in Requests \ {r} : FileOf[s] # FileOf[r]

(* A task is only ever seen with its own payload, completely written, on   *)
(* disk: while it waits in the channel and until its worker removes it.    *)
(* Only a task whose name another request has drawn too may lose it.       *)
TaskHasItsPayload ==
    \A r \in Queued \cup Held : OwnName(r) => disk[FileOf[r]] = Whole(r)

(* Publish removes "our file" (queue.go:82): a step of a failing Publish   *)
(* never takes away the file of another request.                           *)
UndoRemovesOwnFile ==
    [][\A r \in Requests :
          Undo(r) /\ disk[FileOf[r]] # NoFile => disk[FileOf[r]].by = r]_vars

(* Every Publish returns: no publisher is held for ever by a full channel. *)
PublishReturns ==
    \A r \in Requests :
        (pub[r] \in InFlight) ~> (pub[r] \notin InFlight)

(* Every task Publish accepted is taken up and its file removed, unless    *)
(* the process dies or the workers are told to stop: when Close ends the   *)
(* queue while tasks wait, they are drained first.                         *)
AcceptedIsSettled ==
    \A r \in Requests :
        (r \in Queued) ~> (disk[FileOf[r]] # Whole(r) \/ ~up \/ ctxDone)
=============================================================================
