------------------------------ MODULE TopFrames ------------------------------
(***************************************************************************)
(* From rows to a flamegraph: GetTopFrames (internal/db/queries.go) reads  *)
(* the heaviest frames of each chunk, keeps the StacksNum heaviest of      *)
(* their sum, looks up the ancestors these need and that no chunk          *)
(* returned, and hands the frames to the graph (internal/flamegraph/       *)
(* graph.go), which links them, clamps each child to its parent and prints *)
(* the collapsed stacks.                                                   *)
(*                                                                         *)
(* Frames are named by their hashes, which are numbers: the code breaks    *)
(* ties by them.  A hash is taken of the parent's hash and the name        *)
(* (hashFrame), so a frame has one parent, 0 for a root, and the frames    *)
(* form a forest; a row's weight is what addStack gives it, the samples of *)
(* every stack that runs through the frame.  The tables stay as they are   *)
(* during a query here; SampleStore is about their changes.                *)
(***************************************************************************)
EXTENDS Sums, SequencesExt

CONSTANTS
    Hashes,      \* frame hashes, never 0
    Chunks,      \* the chunks of the query's range
    MaxSelf,     \* bound: samples of a stack in a chunk
    ChunkLimit,  \* frames read per chunk: calcFrameChunkLimit
    StacksNum,   \* frames asked for: effectiveStacksNum
    MaxIters     \* maxAncestorExpansionIters

ASSUME HashesAssumption == Hashes \subseteq Nat \ {0} /\ IsFiniteSet(Hashes)
ASSUME ChunksAssumption == IsFiniteSet(Chunks)
ASSUME LimitsAssumption ==
    MaxSelf \in Nat /\ {ChunkLimit, StacksNum, MaxIters} \subseteq Nat \ {0}

VARIABLES
    parent,    \* the parent of each frame
    stored,    \* per chunk, the samples of the row of each frame, 0 for no row
    stage,     \* where GetTopFrames stands
    unread,    \* chunks not read yet
    agg,       \* aggregates: samples of the frames read so far
    selected,  \* the frames of the answer
    iter,      \* rounds of the ancestor loop
    frames,    \* graph.Frames: samples of each
    queue,     \* PrepareFrames' queue
    roots      \* graph.rootFrames

data == <<parent, stored>>
graphVars == <<frames, queue, roots>>
vars == <<parent, stored, stage, unread, agg, selected, iter, frames, queue, roots>>

-----------------------------------------------------------------------------
(* The stored forest.                                                      *)

(* The frame n levels above h, 0 beyond its root. *)
Climb(up, h, n) ==
    LET at[i \in 0..n] == IF i = 0 THEN h
                          ELSE IF at[i - 1] = 0 THEN 0 ELSE up[at[i - 1]]
    IN at[n]

Levels == 0..Cardinality(Hashes)
Forests == {up \in [Hashes -> Hashes \cup {0}] :
               \A h \in Hashes : Climb(up, h, Cardinality(Hashes)) = 0}

Below(h) == {x \in Hashes : \E n \in Levels : Climb(parent, x, n) = h}

(* addStack: a stack's samples count for every frame on it.  self gives the *)
(* samples of the stack that ends in a frame.                              *)
Rows(self) == [h \in Hashes |-> SumOver(self, Below(h))]
RowsIn(c) == {h \in Hashes : stored[c][h] > 0}
Truth(h) == SumOver([c \in Chunks |-> stored[c][h]], Chunks)

Init ==
    /\ parent \in Forests
    /\ \E self \in [Chunks -> [Hashes -> 0..MaxSelf]] :
           stored = [c \in Chunks |-> Rows(self[c])]
    /\ stage = "read"
    /\ unread = Chunks
    /\ agg = [h \in {} |-> 0]
    /\ selected = {}
    /\ iter = 0
    /\ frames = [h \in {} |-> 0]
    /\ queue = <<>>
    /\ roots = {}

-----------------------------------------------------------------------------
(* GetTopFrames.                                                           *)

(* ORDER BY samples DESC LIMIT: among equal rows the database chooses. *)
Heaviest(c) ==
    LET size == IF Cardinality(RowsIn(c)) < ChunkLimit THEN Cardinality(RowsIn(c))
                                                       ELSE ChunkLimit
    IN {top \in kSubset(size, RowsIn(c)) :
           \A h \in top, g \in RowsIn(c) \ top : stored[c][g] <= stored[c][h]}

(* Faulty variant: a later chunk replaces what an earlier one had. *)
MergeOverwrites(old, new) ==
    [h \in DOMAIN old \cup DOMAIN new |->
        IF h \in DOMAIN new THEN new[h] ELSE old[h]]

(* mergeFramePairs, mergeFrameAggregates. *)
Merge(old, new) ==
    [h \in DOMAIN old \cup DOMAIN new |->
        (IF h \in DOMAIN old THEN old[h] ELSE 0)
        + (IF h \in DOMAIN new THEN new[h] ELSE 0)]

ReadChunk(c) ==
    /\ stage = "read"
    /\ c \in unread
    /\ \E top \in Heaviest(c) : agg' = Merge(agg, [h \in top |-> stored[c][h]])
    /\ unread' = unread \ {c}
    /\ UNCHANGED <<data, stage, selected, iter, graphVars>>

(* A read fails, in the chunks or in the ancestor loop: an error and no    *)
(* graph.                                                                  *)
Fail ==
    /\ stage \in {"read", "ancestors"}
    /\ stage' = "failed"
    /\ UNCHANGED <<data, unread, agg, selected, iter, graphVars>>

(* topFrameHashes: by samples, then by hash. *)
Before(g, h) == agg[g] > agg[h] \/ (agg[g] = agg[h] /\ g < h)
TopFrameHashes ==
    {h \in DOMAIN agg : Cardinality({g \in DOMAIN agg : Before(g, h)}) < StacksNum}

Select ==
    /\ stage = "read"
    /\ unread = {}
    /\ selected' = TopFrameHashes
    /\ stage' = "ancestors"
    /\ UNCHANGED <<data, unread, agg, iter, graphVars>>

(* expandKnownAncestors: up from the selected frames as long as the parent *)
(* is known.                                                               *)
Expanded ==
    selected \cup
    {g \in DOMAIN agg :
        \E h \in selected : \E n \in Levels :
            /\ Climb(parent, h, n) = g
            /\ \A k \in 1..n : Climb(parent, h, k) \in DOMAIN agg}

(* Faulty variant: known ancestors are fetched again. *)
MissingAncestorsAndKnown ==
    {parent[h] : h \in Expanded} \ {0}

MissingAncestors ==
    {parent[h] : h \in Expanded} \ ({0} \cup Expanded \cup DOMAIN agg)

(* fetchFramePairsByHashes reads the missing frames in every chunk, without *)
(* a limit.                                                                *)
Fetched == [h \in MissingAncestors |-> Truth(h)]

(* Faulty variant: the loop runs as long as something is missing. *)
ExpandAncestorsForEver ==
    /\ stage = "ancestors"
    /\ MissingAncestors # {} \/ Expanded # selected
    /\ selected' = Expanded
    /\ agg' = Merge(agg, Fetched)
    /\ iter' = iter + 1
    /\ UNCHANGED <<data, stage, unread, graphVars>>

(* One round of the loop: up among the known frames, then a read of the    *)
(* missing ones, if there are any.                                         *)
ExpandAncestors ==
    /\ stage = "ancestors"
    /\ iter < MaxIters
    /\ MissingAncestors # {} \/ Expanded # selected
    /\ selected' = Expanded
    /\ agg' = Merge(agg, Fetched)
    /\ iter' = iter + 1
    /\ UNCHANGED <<data, stage, unread, graphVars>>

(* Faulty variant: what the last round fetched is not selected. *)
BuildFramesAtOnce ==
    /\ stage = "ancestors"
    /\ iter = MaxIters \/ (MissingAncestors = {} /\ Expanded = selected)
    /\ frames' = [h \in selected |-> agg[h]]
    /\ roots' = {h \in selected : parent[h] \notin selected}
    /\ queue' = SetToSeq(roots')
    /\ stage' = "clamp"
    /\ UNCHANGED <<data, unread, agg, selected, iter>>

(* The loop ends: buildFramesFromAggregates, then PrepareFrames links the  *)
(* frames; one whose parent is not among them is a root.                   *)
BuildFrames ==
    /\ stage = "ancestors"
    /\ iter = MaxIters \/ (MissingAncestors = {} /\ Expanded = selected)
    /\ selected' = Expanded
    /\ frames' = [h \in Expanded |-> agg[h]]
    /\ roots' = {h \in Expanded : parent[h] \notin Expanded}
    /\ queue' = SetToSeq(roots')
    /\ stage' = "clamp"
    /\ UNCHANGED <<data, unread, agg, iter>>

Children(h) == {x \in DOMAIN frames : parent[x] = h}

(* Faulty variant: a child is held against what was read of its parent.    *)
ClampToRead ==
    /\ stage = "clamp"
    /\ queue # <<>>
    /\ LET h == Head(queue)
       IN /\ frames' = [x \in DOMAIN frames |->
                           IF x \in Children(h) /\ frames[x] > agg[h]
                           THEN agg[h] ELSE frames[x]]
          /\ \E order \in SetToSeqs(Children(h)) : queue' = Tail(queue) \o order
    /\ UNCHANGED <<data, stage, unread, agg, selected, iter, roots>>

(* The walk from the roots: the children of the next frame have at most    *)
(* its samples.  They are queued in the order of a map.                    *)
Clamp ==
    /\ stage = "clamp"
    /\ queue # <<>>
    /\ LET h == Head(queue)
       IN /\ frames' = [x \in DOMAIN frames |->
                           IF x \in Children(h) /\ frames[x] > frames[h]
                           THEN frames[h] ELSE frames[x]]
          /\ \E order \in SetToSeqs(Children(h)) : queue' = Tail(queue) \o order
    /\ UNCHANGED <<data, stage, unread, agg, selected, iter, roots>>

Answer ==
    /\ stage = "clamp"
    /\ queue = <<>>
    /\ stage' = "done"
    /\ UNCHANGED <<data, unread, agg, selected, iter, graphVars>>

Finished == stage \in {"done", "failed"} /\ UNCHANGED vars

Next ==
    \/ \E c \in Chunks : ReadChunk(c)
    \/ Fail
    \/ Select
    \/ ExpandAncestors
    \/ BuildFrames
    \/ Clamp
    \/ Answer
    \/ Finished

Spec == Init /\ [][Next]_vars

-----------------------------------------------------------------------------
(* BuildFlameGraph's total, and the lines of BuildCollapsedFile: a frame's *)
(* samples less its children's, left out unless positive.                  *)
Total == SumOver(frames, roots)
ChildSum(h) == SumOver(frames, Children(h))
Lines == {h \in DOMAIN frames : frames[h] > ChildSum(h)}
LineTotal == SumOver([h \in Lines |-> frames[h] - ChildSum(h)], Lines)

TypeOK ==
    /\ stage \in {"read", "ancestors", "clamp", "done", "failed"}
    /\ unread \subseteq Chunks
    /\ DOMAIN agg \subseteq Hashes /\ selected \subseteq DOMAIN agg
    /\ iter \in 0..MaxIters
    /\ DOMAIN frames \subseteq Hashes /\ roots \subseteq DOMAIN frames
    /\ ToSet(queue) \subseteq DOMAIN frames

(* No frame of the answer has more samples than were taken of it: what the *)
(* chunks returned and what the ancestor loop fetched are never added for  *)
(* the same rows.                                                          *)
NeverOvercounts ==
    stage = "done" => \A h \in DOMAIN frames : 0 < frames[h] /\ frames[h] <= Truth(h)

(* No frame of the answer is wider than its parent, although a chunk's     *)
(* limit may have cut the parent's rows and not its own.                   *)
ChildWithinParent ==
    stage = "done" => \A h \in DOMAIN frames :
        parent[h] \in DOMAIN frames => frames[h] <= frames[parent[h]]

(* A frame is shown without its parent only if the ancestor loop gave up:  *)
(* some frame of the answer lies at least MaxIters levels below it.        *)
AncestorsComplete ==
    stage = "done" => \A h \in DOMAIN frames :
        parent[h] \in DOMAIN frames \cup {0}
        \/ \E x \in DOMAIN frames, n \in Levels : n >= MaxIters /\ Climb(parent, x, n) = h

(* If no chunk's limit cut anything, the answer is exact: each frame has   *)
(* its true samples, and the collapsed lines add up to the total of the    *)
(* flamegraph.                                                             *)
ExactWhenUncut ==
    stage = "done" /\ (\A c \in Chunks : Cardinality(RowsIn(c)) <= ChunkLimit) =>
        /\ \A h \in DOMAIN frames : frames[h] = Truth(h)
        /\ LineTotal = Total
=============================================================================
