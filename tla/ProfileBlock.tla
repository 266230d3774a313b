----------------------------- MODULE ProfileBlock -----------------------------
(***************************************************************************)
(* What becomes of one uploaded profile: Parser.ParseReader reads it line  *)
(* by line (internal/indexer/parser.go), Aggregator.Aggregate turns the    *)
(* samples into weighted frames (aggregator.go), ContainerAndK8sName names *)
(* the containers (common.go), and ProcessStackFrameFileCtx (writer.go)    *)
(* emits the block if any frame is left.  Ingest knows this step only as   *)
(* HandlerDrops or HandlerEmits; TopFrames starts from the rows.           *)
(*                                                                         *)
(* A field between two semicolons is a string that is compared, never      *)
(* taken apart; NameOf tells what a container's string is made of.  A hash *)
(* of parent and name is taken to have no collisions: it is the path.      *)
(***************************************************************************)
EXTENDS Sums, SequencesExt

CONSTANTS
    Lines,     \* the lines a file may hold
    MaxLines,  \* bound: lines of a file
    Swappers,  \* frame names that begin with "swapper"
    Rules,     \* the normaliser's rules: below
    NameOf,    \* the parts of a container's string: [kind, parts]
    Flinks,    \* name components that begin with "flink"
    Proxies,   \* name components that begin with "proxy"
    Decimals,  \* name components isDecimal takes for numbers
    LongHex    \* components of six or more hexadecimal digits

(* A sample line splits at its semicolons into fields and ends in a whole  *)
(* number; JSON gives the header a Boolean.  A rule maps each call stack   *)
(* its expression matches, anywhere and across frames, to the one with all *)
(* matches replaced: what becomes of the frames is the rule's affair.      *)
ASSUME LinesAssumption ==
    \A line \in Lines :
        /\ line.kind = "sample" => line.fields \in Seq(STRING) /\ line.count \in Int
        /\ line.kind = "header" => line.appMeta \in BOOLEAN /\ line.metric \in BOOLEAN
ASSUME RulesAssumption ==
    /\ MaxLines \in Nat
    /\ Len(Rules) \in Nat /\ DOMAIN Rules = 1..Len(Rules)
    /\ \A i \in DOMAIN Rules : \A stack \in DOMAIN Rules[i] : Rules[i][stack] \in Seq(STRING)

(* The containers of pods; a pod's name has a component at least. *)
K8sContainers ==
    {raw \in DOMAIN NameOf : NameOf[raw].kind = "k8s" /\ Len(NameOf[raw].parts) >= 5}
ASSUME NamesAssumption ==
    \A raw \in K8sContainers : NameOf[raw].parts[2] \in Seq(STRING) \ {<<>>}

VARIABLES
    stage,    \* "parse", or how ProcessStackFrameFileCtx ended
    read,     \* the lines read so far
    header,   \* the header in force: withContainer, withAppMeta and info
    samples,  \* the samples parsed so far
    block     \* the rows and the metric of the block that was emitted

blockVars == <<stage, read, header, samples, block>>

NoHeader == [seen |-> FALSE]
NoBlock == [rows |-> <<>>, metric |-> FALSE]

-----------------------------------------------------------------------------
(* The names of containers.                                                *)

Base16RealWords == {"accede", "bacaba", "baccae", "beaded", "bedded", "bedead",
                    "bedeaf", "decade", "deedeed", "deface", "efface",
                    "fabaceae", "facade"}
ShouldStrip(component) == component \in Decimals \cup (LongHex \ Base16RealWords)

(* Faulty variant: what is left is taken for the name, garbage included. *)
StripPodNameAsIs(name) ==
    LET kept == SelectSeq(name, LAMBDA c : ~ShouldStrip(c))
    IN IF kept = <<>> THEN name ELSE kept

(* The name begins with "kube-proxy", wherever that ends. *)
IsKubeProxy(name) == Len(name) > 1 /\ name[1] = "kube" /\ name[2] \in Proxies

(* A name with a known prefix is that prefix.  Else it is the              *)
(* components up to a uniqueness marker, those in front skipped; if        *)
(* nothing was trimmed the last one goes, and an empty result is undone.   *)
StripPodName(name) ==
    LET kept == {i \in DOMAIN name : ~ShouldStrip(name[i])}
        first == Min(kept)
        stop == Min({i \in DOMAIN name : i > first /\ i \notin kept} \cup {Len(name) + 1})
    IN IF name[1] \in Flinks THEN <<"flink">>
       ELSE IF IsKubeProxy(name) THEN <<"kube", "proxy">>
       ELSE IF Len(name) < 2 \/ kept = {} THEN name
       ELSE IF first = 1 /\ stop = Len(name) + 1 THEN Front(name)
       ELSE SubSeq(name, first, stop - 1)

(* "k8s_<container>_<pod>_<namespace>_...": container and workload. *)
K8sNames(parts) ==
    LET pod == StripPodName(parts[2])
        stripped == IF IsStrictPrefix(<<"kube", "proxy">>, pod)
                    THEN <<"kube", "proxy">> ELSE pod
    IN [container |-> <<parts[1], stripped, parts[3]>>,
        workload |-> <<stripped, parts[3]>>]

(* "ecs-<family>-<revision>-<name>-<hash>", split at the first number. *)
EcsNames(parts) ==
    LET body == Front(parts)
        numbers == {i \in DOMAIN body : body[i] \in Decimals}
        at == IF numbers = {} THEN 1 ELSE Min(numbers)
        family == SubSeq(body, 1, at - 1)
    IN [container |-> <<SubSeq(body, at + 1, Len(body)), family>>, workload |-> family]

ContainerAndK8sName(raw) ==
    LET name == NameOf[raw]
    IN CASE raw \in K8sContainers -> K8sNames(name.parts)
         [] name.kind = "ecs" /\ Len(name.parts) > 1 -> EcsNames(name.parts)
         [] name.kind = "ecs" /\ Len(name.parts) = 1 ->
                [container |-> <<raw>>, workload |-> name.parts]
         [] OTHER -> [container |-> <<raw>>, workload |-> <<>>]

-----------------------------------------------------------------------------
(* Parser.                                                                 *)

(* Every rule in its order on the whole call stack, if any matches it at   *)
(* all; an empty one is skipped before it comes to that.                   *)
ShouldNormalize(stack) == stack # <<"">> /\ \E i \in DOMAIN Rules : stack \in DOMAIN Rules[i]
Rewrite(stack, rule) == IF stack \in DOMAIN rule THEN rule[stack] ELSE stack
Normalize(stack) == IF ShouldNormalize(stack) THEN FoldLeft(Rewrite, stack, Rules) ELSE stack

(* The frames of a call stack, the blank ones left out. *)
KeepFrame(kept, frame) == IF frame = "" THEN kept ELSE Append(kept, frame)
StackOf(fields, skipped) ==
    FoldLeft(KeepFrame, <<>>, Normalize(SubSeq(fields, skipped + 1, Len(fields))))

(* The container and the frames of a line; an error if the header promises *)
(* more fields than there are.                                             *)
SplitCallstack(fields, h) ==
    LET skipped == IF ~h.withContainer THEN 0 ELSE IF h.withAppMeta THEN 2 ELSE 1
    IN [ok |-> Len(fields) > skipped,
        raw |-> IF skipped \in DOMAIN fields THEN fields[skipped] ELSE "",
        stack |-> StackOf(fields, skipped)]

(* Faulty variant: a file's later headers do not switch back its format. *)
ParseHeaderLineSticky(line) ==
    [seen |-> TRUE, metric |-> line.metric,
     withContainer |-> line.version # "v1" \/ (header.seen /\ header.withContainer),
     withAppMeta |-> line.appMeta \/ (header.seen /\ header.withAppMeta)]

ParseHeaderLine(line) ==
    [seen |-> TRUE, metric |-> line.metric,
     withContainer |-> line.version # "v1", withAppMeta |-> line.appMeta]

IsSample(line) == line.kind = "sample"
Counts(line) == IsSample(line) /\ line.count # 0

BlockInit ==
    /\ stage = "parse"
    /\ read = <<>>
    /\ header = NoHeader
    /\ samples = <<>>
    /\ block = NoBlock

Scan(line) ==
    /\ stage = "parse"
    /\ Len(read) < MaxLines
    /\ read' = Append(read, line)

(* A blank line; a sample counted zero times, whatever its call stack; a   *)
(* call stack without a frame.                                             *)
SkipLine ==
    \E line \in Lines :
        /\ Scan(line)
        /\ \/ line.kind = "blank"
           \/ IsSample(line) /\ header.seen /\ line.count = 0
           \/ /\ Counts(line) /\ header.seen
              /\ LET s == SplitCallstack(line.fields, header) IN s.ok /\ s.stack = <<>>
        /\ UNCHANGED <<stage, header, samples, block>>

TakeHeader ==
    \E line \in Lines :
        /\ Scan(line)
        /\ line.kind = "header"
        /\ header' = ParseHeaderLine(line)
        /\ UNCHANGED <<stage, samples, block>>

TakeSample ==
    \E line \in Lines :
        /\ Scan(line)
        /\ Counts(line) /\ header.seen
        /\ LET s == SplitCallstack(line.fields, header)
           IN /\ s.ok /\ s.stack # <<>>
              /\ samples' = Append(samples, [raw |-> s.raw, stack |-> s.stack, n |-> line.count])
        /\ UNCHANGED <<stage, header, block>>

(* A line that cannot be read or parsed, or a sample with no header before *)
(* it: the error ends the file, and what was parsed of it is dropped.      *)
Refuse ==
    \E line \in Lines :
        /\ Scan(line)
        /\ \/ line.kind = "garbled"
           \/ IsSample(line) /\ ~header.seen
           \/ Counts(line) /\ header.seen /\ ~SplitCallstack(line.fields, header).ok
        /\ stage' = "refused"
        /\ UNCHANGED <<header, samples, block>>

-----------------------------------------------------------------------------
(* Aggregator.                                                             *)

(* Faulty variant: frames told apart by their names alone. *)
FrameHashByName(parentHash, frameName) == <<frameName>>

FrameHash(parentHash, frameName) == Append(parentHash, frameName)

(* The number kept for a key, none being 0, and a map with one key more or *)
(* changed: what reading and assigning a map's entry does.                 *)
At(weights, key) == IF key \in DOMAIN weights THEN weights[key] ELSE 0
Put(map, key, value) ==
    [k \in DOMAIN map \cup {key} |-> IF k = key THEN value ELSE map[k]]

(* One step of addStack: acc is [weights, nodes, parentHash], the weights  *)
(* kept per container and hash.                                            *)
AddFrame(acc, sample, frameName) ==
    LET hash == FrameHash(acc.parentHash, frameName)
        key == <<sample.raw, hash>>
    IN [weights |-> Put(acc.weights, key, At(acc.weights, key) + sample.n),
        nodes |-> IF hash \in DOMAIN acc.nodes THEN acc.nodes
                  ELSE Put(acc.nodes, hash, [parent |-> acc.parentHash, name |-> frameName]),
        parentHash |-> hash]

IsKernelSwapper(stack) == stack[1] \in Swappers

AddStack(acc, sample) ==
    FoldLeft(LAMBDA a, frameName : AddFrame(a, sample, frameName),
             [acc EXCEPT !.parentHash = <<>>], sample.stack)

AddSample(acc, sample) ==
    IF IsKernelSwapper(sample.stack) THEN acc ELSE AddStack(acc, sample)

Aggregate ==
    FoldLeft(AddSample, [weights |-> <<>>, nodes |-> <<>>, parentHash |-> <<>>], samples)

(* buildStackRecords: one record per container and frame. *)
BuildStackRecords(acc) ==
    [key \in DOMAIN acc.weights |->
        [names |-> ContainerAndK8sName(key[1]), hash |-> key[2],
         node |-> acc.nodes[key[2]], n |-> acc.weights[key]]]

(* The end of the file: the block is emitted if it holds a stack, and the  *)
(* metric, which needs a load other than zero, goes with it or not at all. *)
EndOfFile ==
    /\ stage = "parse"
    /\ LET rows == BuildStackRecords(Aggregate)
       IN IF DOMAIN rows = {}
          THEN stage' = "empty" /\ block' = block
          ELSE /\ stage' = "emitted"
               /\ block' = [rows |-> rows, metric |-> header.metric]
    /\ UNCHANGED <<read, header, samples>>

BlockNext == SkipLine \/ TakeHeader \/ TakeSample \/ Refuse \/ EndOfFile

BlockSpec == BlockInit /\ [][BlockNext]_blockVars

-----------------------------------------------------------------------------
(* What a reader of the file expects of a line, its header being the last  *)
(* one above it.                                                           *)
Counted == {i \in DOMAIN read : Counts(read[i])}
HeaderAbove(i) == read[Max({j \in 1..i : read[j].kind = "header"})]
Skipped(i) ==
    IF HeaderAbove(i).version = "v1" THEN 0 ELSE IF HeaderAbove(i).appMeta THEN 2 ELSE 1
RawContainer(i) == IF Skipped(i) = 0 THEN "" ELSE read[i].fields[Skipped(i)]
Frames(i) == StackOf(read[i].fields, Skipped(i))
Profiled == {i \in Counted : Frames(i) # <<>> /\ Frames(i)[1] \notin Swappers}
KeysOf(container, frames) == {<<container, path>> : path \in Prefixes(frames) \ {<<>>}}
LineKeys(i) == KeysOf(RawContainer(i), Frames(i))
RowKeys == UNION {LineKeys(i) : i \in Profiled}
LineCounts == [i \in Counted |-> read[i].count]

(* The rows of a block are the lines of the file, each read under the      *)
(* header above it: a frame of a container weighs what the lines of that   *)
(* container through that frame count, whatever headers, blank lines and   *)
(* idle stacks stand between them, and there is no row besides.            *)
RowsAreTheLines ==
    stage \in {"emitted", "empty"} =>
        /\ DOMAIN block.rows = RowKeys
        /\ \A key \in RowKeys :
              block.rows[key].n =
                  SumOver(LineCounts, {i \in Profiled : key \in LineKeys(i)})

(* Within a container a frame's parent has a row too, and it weighs at     *)
(* least what its children weigh together, recursion and frames shared     *)
(* between containers included.  It is what the flamegraph takes for       *)
(* granted (see TopFrames), as long as no line counts less than nothing.   *)
ChildRows(key) ==
    {k \in DOMAIN block.rows : k[1] = key[1] /\ block.rows[k].node.parent = key[2]}
FrameRowsNest ==
    (\A i \in Counted : read[i].count > 0) =>
        \A key \in DOMAIN block.rows :
            LET parent == <<key[1], block.rows[key].node.parent>>
            IN parent[2] # <<>> =>
                  /\ parent \in DOMAIN block.rows
                  /\ block.rows[parent].n >=
                        SumOver([k \in DOMAIN block.rows |-> block.rows[k].n],
                                ChildRows(parent))

(* Pods that differ in their random suffix only, as the pods of a replica  *)
(* set do, are stored under one container name and one workload, if that   *)
(* is the third component at least (common.go:81-111: the second of two    *)
(* may be the end of a known prefix or all that is left), and unless the   *)
(* name begins with what looks like a uniqueness marker (what is cut off   *)
(* in front keeps the suffix from being cut off: common.go:106).           *)
SiblingPods(raw1, raw2) ==
    LET a == NameOf[raw1] b == NameOf[raw2]
    IN /\ {raw1, raw2} \subseteq K8sContainers
       /\ a.parts[1] = b.parts[1] /\ a.parts[3] = b.parts[3]
       /\ Len(a.parts[2]) > 2 /\ Front(a.parts[2]) = Front(b.parts[2])
       /\ ~ShouldStrip(a.parts[2][1])
PodsShareName ==
    \A k1, k2 \in DOMAIN block.rows :
        SiblingPods(k1[1], k2[1]) => block.rows[k1].names = block.rows[k2].names
=============================================================================
