--------------------------- MODULE CollapsedStream ---------------------------
(***************************************************************************)
(* The collapsed file of a flamegraph (GetFlamegraph's formats             *)
(* "collapsed_file" and "svg" in internal/server/handlers.go).  A goroutine *)
(* walks the graph (BuildCollapsedFile in internal/flamegraph/graph.go) and *)
(* sends a line per frame on an unbuffered channel; the handler passes the *)
(* lines to a client that may leave at any moment, or collects them for    *)
(* flamegraph.pl.  A line is the frame it is about.                        *)
(***************************************************************************)
EXTENDS Sums, FiniteSets

CONSTANTS
    Frames,      \* the frames a graph may hold
    Parent,      \* the parent each has in the tables, NoFrame at the top
    NoFrame,
    MaxSamples   \* bound: samples of a frame

ASSUME FramesAssumption ==
    /\ IsFiniteSet(Frames) /\ NoFrame \notin Frames
    /\ Parent \in [Frames -> Frames \cup {NoFrame}]
ASSUME MaxSamplesAssumption == MaxSamples \in Nat

(* A hash is taken of the parent's hash, so no way up leads back: every    *)
(* set of frames has one whose parent is outside.                          *)
ASSUME ForestAssumption == \A S \in SUBSET Frames : S # {} => \E f \in S : Parent[f] \notin S

VARIABLES
    samples,  \* the prepared graph: samples per frame it holds
    format,   \* what the client asked for
    visited,  \* frames whose subtree the goroutine has finished
    sending,  \* the frame whose line it is sending, or NoFrame
    closed,   \* out is closed, the goroutine has ended
    pc,       \* where the handler is
    taken,    \* lines the handler took and did not throw away
    status,   \* the status it answered
    written,  \* lines that reached the client
    left      \* the client has gone

streamVars == <<samples, format, visited, sending, closed, pc, taken, status, written, left>>
givenVars == <<samples, format>>
walkVars == <<visited, sending, closed>>
handlerVars == <<pc, taken, status, written>>

Graph == DOMAIN samples
Callees(f) == {x \in Graph : Parent[x] = f}
(* f and the frames under it: those with a path up to f. *)
Subtree(f) ==
    {x \in Graph : \E path \in SUBSET Graph :
        {f, x} \subseteq path /\ \A y \in path \ {f} : Parent[y] \in path}

(* GetTopFrames has answered; no frame has more samples than its parent    *)
(* (PrepareFrames), but its children together may: a chunk's limit can     *)
(* have cut rows of the parent.                                            *)
StreamInit ==
    /\ samples \in UNION {[graph -> 1..MaxSamples] : graph \in SUBSET Frames}
    /\ \A f \in Graph : \A x \in Callees(f) : samples[x] <= samples[f]
    /\ format \in {"collapsed_file", "svg"}
    /\ visited = {} /\ sending = NoFrame /\ closed = FALSE
    /\ pc = IF format = "svg" THEN "collect" ELSE "check"
    /\ taken = {} /\ status = 200 /\ written = {}
    /\ left = FALSE

-----------------------------------------------------------------------------
(* The goroutine.                                                          *)

(* Faulty variant: a frame's line has all its samples. *)
WeightOfAll(f) == samples[f]

(* What a frame's line says: its samples less its children's. *)
Weight(f) == samples[f] - SumOver(samples, Callees(f))

(* The walk finishes a frame after all under it, and a subtree it has      *)
(* begun before it turns to another; the order of siblings is a map's.     *)
Finish(f) ==
    /\ sending = NoFrame
    /\ f \notin visited
    /\ Subtree(f) \ {f} \subseteq visited
    /\ \A g \in Graph \ visited : Subtree(g) \cap visited # {} => f \in Subtree(g)
    /\ visited' = visited \cup {f}
    /\ sending' = IF Weight(f) > 0 THEN f ELSE NoFrame
    /\ UNCHANGED <<givenVars, closed, handlerVars, left>>

(* The deferred close(out). *)
CloseOut ==
    /\ visited = Graph /\ sending = NoFrame
    /\ ~closed
    /\ closed' = TRUE
    /\ UNCHANGED <<givenVars, visited, sending, handlerVars, left>>

Goroutine == CloseOut \/ \E f \in Graph : Finish(f)

-----------------------------------------------------------------------------
(* The handler.                                                            *)

(* Faulty variant: the handler returns as soon as the client has gone. *)
CheckClientNoDrain ==
    /\ pc = "check"
    /\ pc' = IF left THEN "done" ELSE "read"
    /\ UNCHANGED <<givenVars, walkVars, taken, status, written, left>>

(* gin's Stream looks for the client before each line; when it has gone    *)
(* the handler turns to draining the channel.                              *)
CheckClient ==
    /\ pc = "check"
    /\ pc' = IF left THEN "drain" ELSE "read"
    /\ UNCHANGED <<givenVars, walkVars, taken, status, written, left>>

(* Both sides of the unbuffered channel meet: the handler writes the line, *)
(* collects it for the script, or throws it away.                          *)
TakeLine ==
    /\ pc \in {"read", "collect", "drain"}
    /\ sending # NoFrame
    /\ sending' = NoFrame
    /\ taken' = IF pc = "drain" THEN taken ELSE taken \cup {sending}
    /\ written' = IF pc = "read" /\ ~left THEN written \cup {sending} ELSE written
    /\ pc' = IF pc = "read" THEN "check" ELSE pc
    /\ UNCHANGED <<givenVars, visited, closed, status, left>>

(* The channel is closed: 204 if there was no line, and after a collection *)
(* the script's turn.                                                      *)
SeeClosed ==
    /\ pc \in {"read", "collect", "drain"}
    /\ closed
    /\ status' = IF pc # "drain" /\ taken = {} THEN 204 ELSE status
    /\ pc' = IF pc = "read" THEN "drain"
             ELSE IF pc = "collect" /\ taken # {} THEN "script" ELSE "done"
    /\ UNCHANGED <<givenVars, walkVars, taken, written, left>>

(* flamegraph.pl draws what was collected, or fails, or is missing, or is  *)
(* killed with the request's context.                                      *)
RunScript ==
    /\ pc = "script"
    /\ pc' = "done"
    /\ \/ status' = status /\ written' = IF left THEN {} ELSE taken
       \/ status' = 500 /\ UNCHANGED written
    /\ UNCHANGED <<givenVars, walkVars, taken, left>>

Handler == CheckClient \/ TakeLine \/ SeeClosed \/ RunScript

ClientLeaves ==
    /\ ~left
    /\ left' = TRUE
    /\ UNCHANGED <<givenVars, walkVars, handlerVars>>

StreamNext == Goroutine \/ Handler \/ ClientLeaves

(* Goroutines run; a script ends or is killed.  Clients need not leave. *)
StreamSpec ==
    /\ StreamInit /\ [][StreamNext]_streamVars
    /\ WF_streamVars(Goroutine) /\ WF_streamVars(Handler)

-----------------------------------------------------------------------------
(* A client that stayed and got an answer has the samples of the whole     *)
(* graph in it: the lines of a frame's subtree add up to no less than the  *)
(* frame, and to exactly as much where no frame is narrower than its       *)
(* children.  It is told there is nothing only if the graph is empty.      *)
AnswerAddsUp ==
    pc = "done" /\ ~left =>
        /\ status = 200 => \A f \in Graph :
              LET lines == SumOver([g \in Graph |-> Weight(g)], written \cap Subtree(f))
              IN /\ samples[f] <= lines
                 /\ (\A g \in Subtree(f) : SumOver(samples, Callees(g)) <= samples[g]) =>
                       lines = samples[f]
        /\ status = 204 <=> Graph = {}

(* Whatever the client does, the handler returns and the goroutine ends:   *)
(* neither is left waiting on the channel for the other.                   *)
StreamSettles == <>(pc = "done" /\ closed)
=============================================================================
