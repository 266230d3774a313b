--------------------------- MODULE FlamegraphProofs ---------------------------
(***************************************************************************)
(* Both halves of a flamegraph: TopFrames, which finds its frames, and     *)
(* CollapsedStream, which prints them.                                     *)
(*                                                                         *)
(* TopFrames for every forest of frames, every set of chunks and every     *)
(* limit.  The invariant IInv says in three parts what the runs show only  *)
(* at the end: what was read of a frame is the sum over the chunks read so *)
(* far and never more than the tables hold (ReadsAddUp); a frame whose     *)
(* parent is still unknown lies as many levels above a selected one as the *)
(* ancestor loop has made rounds (OrphansLieHigh); and a child may be      *)
(* wider than its parent only while the walk has yet to come to the parent *)
(* (GraphHolds).  The facts about the ways up a forest, about queues and   *)
(* about the rows that addStack writes come first.                         *)
(*                                                                         *)
(* CollapsedStream for every forest and any client: what the goroutine has *)
(* produced is on the channel or taken for as long as the client stays     *)
(* (StreamInv), and the lines of a subtree add up to its root.             *)
(*                                                                         *)
(* Of QueryTheorems only the sums are used; Hour and Day play no part.     *)
(***************************************************************************)
EXTENDS TopFrames, CollapsedStream, QueryTheorems, TLAPS

(* The way up from a frame, as a function of the number of levels. *)
Path(f, up, h, n) ==
    f = [i \in 0..n |-> IF i = 0 THEN h
                        ELSE IF f[i - 1] = 0 THEN 0 ELSE up[f[i - 1]]]

LEMMA PathExists ==
    ASSUME NEW up, NEW h, NEW n \in Nat
    PROVE  \E f : Path(f, up, h, n)
  <1> DEFINE P == {m \in Nat : \E f : Path(f, up, h, m)}
  <1>1. 0 \in P
    <2> DEFINE f == [i \in 0..0 |-> h]
    <2>1. Path(f, up, h, 0)
      BY DEF Path
    <2> HIDE DEF f
    <2> QED BY <2>1
  <1>2. ASSUME NEW m \in Nat, m \in P
        PROVE  m + 1 \in P
    <2>1. PICK f : Path(f, up, h, m)
      BY <1>2
    <2> DEFINE g == [i \in 0..m + 1 |->
                        IF i \in 0..m THEN f[i]
                        ELSE IF f[m] = 0 THEN 0 ELSE up[f[m]]]
    <2>2. \A i \in 0..m : f[i] = IF i = 0 THEN h
                                 ELSE IF f[i - 1] = 0 THEN 0 ELSE up[f[i - 1]]
      BY <2>1 DEF Path
    <2>3. \A i \in 0..m + 1 : g[i] = IF i = 0 THEN h
                                     ELSE IF g[i - 1] = 0 THEN 0 ELSE up[g[i - 1]]
      <3> SUFFICES ASSUME NEW i \in 0..m + 1
                   PROVE  g[i] = IF i = 0 THEN h
                                 ELSE IF g[i - 1] = 0 THEN 0 ELSE up[g[i - 1]]
        OBVIOUS
      <3>1. CASE i \in 0..m
        <4>1. i = 0 \/ (i - 1 \in 0..m /\ i - 1 \in 0..m + 1)
          BY <3>1
        <4> QED BY <2>2, <3>1, <4>1
      <3>2. CASE i \notin 0..m
        <4>1. i = m + 1 /\ i - 1 = m /\ i # 0 /\ m \in 0..m /\ m \in 0..m + 1
          BY <3>2
        <4> QED BY <3>2, <4>1
      <3> QED BY <3>1, <3>2
    <2>4. g = [i \in 0..m + 1 |-> g[i]]
      OBVIOUS
    <2>5. Path(g, up, h, m + 1)
      <3> HIDE DEF g
      <3> QED BY <2>3, <2>4 DEF Path
    <2> HIDE DEF g
    <2> QED BY <2>5
  <1> HIDE DEF P
  <1>3. n \in P
    BY <1>1, <1>2, SetOfNaturals
  <1> QED BY <1>3 DEF P

LEMMA PathsAgree ==
    ASSUME NEW up, NEW h, NEW m \in Nat, NEW n \in Nat, m <= n,
           NEW f, NEW g, Path(f, up, h, m), Path(g, up, h, n)
    PROVE  \A i \in 0..m : f[i] = g[i]
  <1> DEFINE P == {i \in Nat : i <= m => f[i] = g[i]}
  <1>1. \A i \in 0..m :
           /\ f[i] = IF i = 0 THEN h ELSE IF f[i - 1] = 0 THEN 0 ELSE up[f[i - 1]]
           /\ g[i] = IF i = 0 THEN h ELSE IF g[i - 1] = 0 THEN 0 ELSE up[g[i - 1]]
    BY DEF Path
  <1>2. 0 \in P
    BY <1>1
  <1>3. ASSUME NEW i \in Nat, i \in P
        PROVE  i + 1 \in P
    <2> SUFFICES ASSUME i + 1 <= m PROVE f[i + 1] = g[i + 1]
      OBVIOUS
    <2>1. i + 1 \in 0..m /\ i + 1 # 0 /\ (i + 1) - 1 = i
      OBVIOUS
    <2>2. f[i] = g[i]
      BY <1>3
    <2> QED BY <1>1, <2>1, <2>2
  <1> HIDE DEF P
  <1>4. Nat \subseteq P
    BY <1>2, <1>3, SetOfNaturals
  <1> QED BY <1>4 DEF P

LEMMA ClimbIsPath ==
    ASSUME NEW up, NEW h, NEW n \in Nat
    PROVE  \E f : Path(f, up, h, n) /\ Climb(up, h, n) = f[n]
  <1> DEFINE at == CHOOSE f : Path(f, up, h, n)
  <1>1. Path(at, up, h, n)
    BY PathExists, Zenon
  <1>2. Climb(up, h, n) = at[n]
    BY Zenon DEF Climb, Path
  <1> HIDE DEF at
  <1> QED BY <1>1, <1>2

LEMMA ClimbZero == ASSUME NEW up, NEW h PROVE Climb(up, h, 0) = h
  <1>1. PICK f : Path(f, up, h, 0) /\ Climb(up, h, 0) = f[0]
    BY ClimbIsPath
  <1> QED BY <1>1 DEF Path

(* One more level at the top, *)
LEMMA ClimbNext ==
    ASSUME NEW up, NEW h, NEW n \in Nat
    PROVE  Climb(up, h, n + 1) = IF Climb(up, h, n) = 0 THEN 0 ELSE up[Climb(up, h, n)]
  <1>1. PICK f : Path(f, up, h, n + 1) /\ Climb(up, h, n + 1) = f[n + 1]
    BY ClimbIsPath
  <1>2. PICK g : Path(g, up, h, n) /\ Climb(up, h, n) = g[n]
    BY ClimbIsPath
  <1>3. f[n] = g[n]
    BY <1>1, <1>2, PathsAgree
  <1>4. f[n + 1] = IF f[n] = 0 THEN 0 ELSE up[f[n]]
    <2>1. n + 1 \in 0..n + 1 /\ n + 1 # 0 /\ (n + 1) - 1 = n
      OBVIOUS
    <2> QED BY <1>1, <2>1 DEF Path
  <1> QED BY <1>1, <1>2, <1>3, <1>4

(* or at the bottom. *)
LEMMA ClimbFirst ==
    ASSUME NEW up, NEW h, h # 0, NEW n \in Nat
    PROVE  Climb(up, h, n + 1) = Climb(up, up[h], n)
  <1> DEFINE P == {i \in Nat : Climb(up, h, i + 1) = Climb(up, up[h], i)}
  <1>1. 0 \in P
    <2>1. Climb(up, h, 0 + 1) = up[h]
      BY ClimbZero, ClimbNext
    <2> QED BY <2>1, ClimbZero
  <1>2. ASSUME NEW i \in Nat, i \in P
        PROVE  i + 1 \in P
    <2>1. Climb(up, h, (i + 1) + 1) =
             IF Climb(up, h, i + 1) = 0 THEN 0 ELSE up[Climb(up, h, i + 1)]
      BY ClimbNext
    <2>2. Climb(up, up[h], i + 1) =
             IF Climb(up, up[h], i) = 0 THEN 0 ELSE up[Climb(up, up[h], i)]
      BY ClimbNext
    <2> QED BY <1>2, <2>1, <2>2
  <1> HIDE DEF P
  <1>3. n \in P
    BY <1>1, <1>2, SetOfNaturals
  <1> QED BY <1>3 DEF P

LEMMA ClimbPlus ==
    ASSUME NEW up, NEW h, NEW m \in Nat, NEW n \in Nat
    PROVE  Climb(up, h, m + n) = Climb(up, Climb(up, h, m), n)
  <1> DEFINE P == {i \in Nat : Climb(up, h, m + i) = Climb(up, Climb(up, h, m), i)}
  <1>1. 0 \in P
    BY ClimbZero
  <1>2. ASSUME NEW i \in Nat, i \in P
        PROVE  i + 1 \in P
    <2>1. Climb(up, h, (m + i) + 1) =
             IF Climb(up, h, m + i) = 0 THEN 0 ELSE up[Climb(up, h, m + i)]
      BY ClimbNext
    <2>2. Climb(up, Climb(up, h, m), i + 1) =
             IF Climb(up, Climb(up, h, m), i) = 0
             THEN 0 ELSE up[Climb(up, Climb(up, h, m), i)]
      BY ClimbNext
    <2>3. m + (i + 1) = (m + i) + 1
      OBVIOUS
    <2> QED BY <1>2, <2>1, <2>2, <2>3
  <1> HIDE DEF P
  <1>3. n \in P
    BY <1>1, <1>2, SetOfNaturals
  <1> QED BY <1>3 DEF P

(* Beyond the root there is nothing more. *)
LEMMA ClimbStaysOut ==
    ASSUME NEW up, NEW h, NEW m \in Nat, NEW n \in Nat, m <= n, Climb(up, h, m) = 0
    PROVE  Climb(up, h, n) = 0
  <1> DEFINE P == {i \in Nat : Climb(up, h, m + i) = 0}
  <1>1. 0 \in P
    OBVIOUS
  <1>2. ASSUME NEW i \in Nat, i \in P
        PROVE  i + 1 \in P
    <2>1. Climb(up, h, (m + i) + 1) =
             IF Climb(up, h, m + i) = 0 THEN 0 ELSE up[Climb(up, h, m + i)]
      BY ClimbNext
    <2>2. m + (i + 1) = (m + i) + 1
      OBVIOUS
    <2> QED BY <1>2, <2>1, <2>2
  <1> HIDE DEF P
  <1>3. n - m \in Nat /\ m + (n - m) = n
    OBVIOUS
  <1>4. n - m \in P
    BY <1>1, <1>2, <1>3, SetOfNaturals
  <1> QED BY <1>3, <1>4 DEF P
-----------------------------------------------------------------------------
(* Sequences that hold each element of a set once. *)
LEMMA SeqOfSet ==
    ASSUME NEW S, IsFiniteSet(S), NEW f \in [1..Cardinality(S) -> S],
           \A a, b \in 1..Cardinality(S) : f[a] = f[b] => a = b
    PROVE  f \in Seq(S) /\ ToSet(f) = S
  <1>1. Cardinality(S) \in Nat
    BY FS_CardinalityType
  <1>2. f \in Injection(1..Cardinality(S), S)
    BY DEF Injection, IsInjective
  <1>3. Cardinality(1..Cardinality(S)) = Cardinality(S)
    BY <1>1, FS_Interval
  <1>4. f \in Surjection(1..Cardinality(S), S)
    BY <1>2, <1>3, FS_Injection
  <1>5. \A y \in S : \E i \in 1..Cardinality(S) : f[i] = y
    BY <1>4 DEF Surjection
  <1>6. f \in Seq(S)
    BY <1>1
  <1>7. DOMAIN f = 1..Cardinality(S)
    OBVIOUS
  <1> QED BY <1>5, <1>6, <1>7 DEF ToSet

LEMMA SetToSeqsHoldAll ==
    ASSUME NEW S, IsFiniteSet(S), NEW order \in SetToSeqs(S)
    PROVE  order \in Seq(S) /\ ToSet(order) = S
  <1>1. /\ order \in [1..Cardinality(S) -> S]
        /\ \A a, b \in 1..Cardinality(S) : a # b => order[a] # order[b]
    BY DEF SetToSeqs
  <1> QED BY <1>1, SeqOfSet

LEMMA SetToSeqHoldsAll ==
    ASSUME NEW S, IsFiniteSet(S)
    PROVE  SetToSeq(S) \in Seq(S) /\ ToSet(SetToSeq(S)) = S
  <1>1. \E f \in [1..Cardinality(S) -> S] : IsInjective(f)
    <2>1. PICK f : f \in Bijection(1..Cardinality(S), S)
      BY FS_CardinalityType DEF ExistsBijection
    <2> QED BY <2>1 DEF Bijection, Injection, IsInjective
  <1>2. /\ SetToSeq(S) \in [1..Cardinality(S) -> S]
        /\ IsInjective(SetToSeq(S))
    BY <1>1, Zenon DEF SetToSeq
  <1> QED BY <1>2, SeqOfSet DEF IsInjective

(* Taking the head off a queue and putting a sequence behind the rest. *)
LEMMA QueueStep ==
    ASSUME NEW S, NEW q \in Seq(S), q # <<>>, NEW T, NEW s \in Seq(T)
    PROVE  /\ Head(q) \in S /\ Head(q) \in ToSet(q)
           /\ Tail(q) \o s \in Seq(S \cup T)
           /\ ToSet(q) \subseteq {Head(q)} \cup ToSet(Tail(q) \o s)
           /\ ToSet(s) \subseteq ToSet(Tail(q) \o s)
           /\ ToSet(Tail(q) \o s) \subseteq ToSet(q) \cup ToSet(s)
  <1>1. q = <<Head(q)>> \o Tail(q) /\ Tail(q) \in Seq(S) /\ Len(q) \in Nat \ {0}
    OBVIOUS
  <1>2. Head(q) = q[1] /\ 1 \in 1..Len(q)
    BY <1>1
  <1>3. Head(q) \in S /\ Head(q) \in ToSet(q)
    BY <1>2 DEF ToSet
  <1>4. \A i \in 1..Len(q) - 1 : Tail(q)[i] = q[i + 1]
    OBVIOUS
  <1>5. /\ Len(Tail(q)) = Len(q) - 1
        /\ Len(Tail(q) \o s) = (Len(q) - 1) + Len(s)
    OBVIOUS
  <1>6. /\ \A i \in 1..Len(q) - 1 : (Tail(q) \o s)[i] = q[i + 1]
        /\ \A i \in 1..Len(s) : (Tail(q) \o s)[(Len(q) - 1) + i] = s[i]
    BY <1>1, <1>4, <1>5
  <1>7. DOMAIN q = 1..Len(q) /\ DOMAIN s = 1..Len(s)
        /\ DOMAIN (Tail(q) \o s) = 1..(Len(q) - 1) + Len(s)
    BY <1>1, <1>5
  <1>8. Len(s) \in Nat
    OBVIOUS
  <1> DEFINE r == Tail(q) \o s
  <1>9. ToSet(q) \subseteq {Head(q)} \cup ToSet(r)
    <2> SUFFICES ASSUME NEW i \in 1..Len(q)
                 PROVE  q[i] = Head(q) \/ \E j \in DOMAIN r : r[j] = q[i]
      BY <1>7 DEF ToSet
    <2>1. CASE i = 1
      BY <1>2, <2>1
    <2>2. CASE i # 1
      <3>1. i - 1 \in 1..Len(q) - 1 /\ i - 1 \in DOMAIN r /\ (i - 1) + 1 = i
        BY <1>1, <1>7, <1>8, <2>2
      <3>2. r[i - 1] = q[i]
        BY <1>6, <3>1
      <3> QED BY <3>1, <3>2
    <2> QED BY <2>1, <2>2
  <1>10. ToSet(s) \subseteq ToSet(r)
    <2> SUFFICES ASSUME NEW i \in 1..Len(s)
                 PROVE  \E j \in DOMAIN r : r[j] = s[i]
      BY <1>7 DEF ToSet
    <2>1. (Len(q) - 1) + i \in DOMAIN r
      BY <1>1, <1>7, <1>8
    <2> QED BY <1>6, <2>1
  <1>11. ToSet(r) \subseteq ToSet(q) \cup ToSet(s)
    <2> SUFFICES ASSUME NEW i \in DOMAIN r
                 PROVE  (\E j \in DOMAIN q : r[i] = q[j]) \/ (\E j \in DOMAIN s : r[i] = s[j])
      BY DEF ToSet
    <2>1. CASE i \in 1..Len(q) - 1
      <3>1. i + 1 \in DOMAIN q /\ r[i] = q[i + 1]
        BY <1>1, <1>6, <1>7, <2>1
      <3> QED BY <3>1
    <2>2. CASE i \notin 1..Len(q) - 1
      <3>1. /\ i - (Len(q) - 1) \in 1..Len(s)
            /\ (Len(q) - 1) + (i - (Len(q) - 1)) = i
        BY <1>1, <1>7, <1>8, <2>2
      <3>2. r[(Len(q) - 1) + (i - (Len(q) - 1))] = s[i - (Len(q) - 1)]
        BY <1>6, <3>1
      <3> QED BY <1>7, <3>1, <3>2
    <2> QED BY <2>1, <2>2
  <1>12. Tail(q) \o s \in Seq(S \cup T)
    <2>1. Tail(q) \in Seq(S \cup T) /\ s \in Seq(S \cup T)
      BY <1>1
    <2> QED BY <2>1
  <1> QED BY <1>3, <1>9, <1>10, <1>11, <1>12
-----------------------------------------------------------------------------
(* The inductive invariant. *)

(* A frame the walk will still come to: it, or a shown frame above it, is  *)
(* queued.                                                                 *)
Waits(up, h, shown, queued) ==
    \E n \in Levels : /\ Climb(up, h, n) \in queued
                      /\ \A k \in 0..n : Climb(up, h, k) \in shown

(* A frame at least n levels above one of low. *)
Above(up, h, n, low) ==
    \E x \in low, m \in Levels : m >= n /\ Climb(up, x, m) = h

Kids(h) == {x \in Hashes : parent[x] = h}
Uncut == \A c \in Chunks : Cardinality(RowsIn(c)) <= ChunkLimit
ReadSoFar(h) == SumOver([c \in Chunks |-> stored[c][h]], Chunks \ unread)
Got(h) == IF h \in DOMAIN agg THEN agg[h] ELSE 0

(* The rows nest: the children of a frame do not have more samples than    *)
(* it, in any chunk.                                                       *)
RowsNest ==
    /\ parent \in Forests
    /\ stored \in [Chunks -> [Hashes -> Nat]]
    /\ \A c \in Chunks, h \in Hashes : SumOver(stored[c], Kids(h)) <= stored[c][h]

(* What was read of a frame is what the chunks read so far returned. *)
ReadsAddUp ==
    /\ agg \in [DOMAIN agg -> Nat \ {0}]
    /\ stage = "read" =>
           /\ selected = {} /\ iter = 0
           /\ \A h \in Hashes :
                 Got(h) <= ReadSoFar(h) /\ (Uncut => Got(h) = ReadSoFar(h))
    /\ stage \in {"ancestors", "clamp", "done"} =>
           \A h \in DOMAIN agg : agg[h] <= Truth(h) /\ (Uncut => agg[h] = Truth(h))

(* A frame whose parent was not read lies as many levels above a selected  *)
(* one as the ancestor loop has made rounds.                               *)
OrphansLieHigh ==
    stage = "ancestors" =>
        \A h \in Expanded :
            parent[h] \in DOMAIN agg \cup {0} \/ Above(parent, h, iter, selected)

GraphHolds ==
    IF stage \in {"clamp", "done"}
    THEN /\ frames \in [selected -> Nat \ {0}]
         /\ roots = {h \in selected : parent[h] \notin selected}
         /\ queue \in Seq(selected)
         /\ \A h \in selected : frames[h] <= Truth(h) /\ (Uncut => frames[h] = Truth(h))
         /\ \A h \in selected :
               parent[h] \in selected \cup {0} \/ Above(parent, h, MaxIters, selected)
         /\ \A h \in selected :
               parent[h] \in selected /\ frames[h] > frames[parent[h]] =>
                   Waits(parent, parent[h], selected, ToSet(queue))
         /\ stage = "done" => queue = <<>>
    ELSE DOMAIN frames = {} /\ roots = {} /\ queue = <<>>

IInv == TypeOK /\ RowsNest /\ ReadsAddUp /\ OrphansLieHigh /\ GraphHolds
-----------------------------------------------------------------------------
(* Forests. *)
LEMMA HashesAreFinite ==
    /\ Hashes \subseteq Nat /\ 0 \notin Hashes /\ IsFiniteSet(Hashes)
    /\ Cardinality(Hashes) \in Nat
    /\ \A S \in SUBSET Hashes : IsFiniteSet(S)
  BY HashesAssumption, FS_CardinalityType, FS_Subset

LEMMA ForestClimb ==
    ASSUME NEW up \in Forests, NEW h \in Hashes
    PROVE  /\ up \in [Hashes -> Hashes \cup {0}]
           /\ \A n \in Nat : Climb(up, h, n) \in Hashes \cup {0}
           /\ Climb(up, h, Cardinality(Hashes)) = 0
  <1>1. /\ up \in [Hashes -> Hashes \cup {0}]
        /\ Climb(up, h, Cardinality(Hashes)) = 0
    BY DEF Forests
  <1> DEFINE P == {n \in Nat : Climb(up, h, n) \in Hashes \cup {0}}
  <1>2. 0 \in P
    BY ClimbZero
  <1>3. ASSUME NEW n \in Nat, n \in P
        PROVE  n + 1 \in P
    BY <1>1, <1>3, ClimbNext
  <1> HIDE DEF P
  <1>4. Nat \subseteq P
    BY <1>2, <1>3, SetOfNaturals
  <1> QED BY <1>1, <1>4 DEF P

(* A frame above another is among the levels, and so is the level above. *)
LEMMA ClimbIsShort ==
    ASSUME NEW up \in Forests, NEW h \in Hashes, NEW n \in Nat, Climb(up, h, n) # 0
    PROVE  n \in Levels /\ n + 1 \in Levels
  <1>1. ~(Cardinality(Hashes) <= n)
    BY ForestClimb, HashesAreFinite, ClimbStaysOut
  <1> QED BY <1>1, HashesAreFinite DEF Levels

(* The way up from a member of a set of frames leaves the set at the top. *)
LEMMA TopOfWay ==
    ASSUME NEW up \in Forests, NEW S \in SUBSET Hashes, NEW h \in S
    PROVE  \E n \in Levels : /\ \A k \in 0..n : Climb(up, h, k) \in S
                             /\ up[Climb(up, h, n)] \notin S
                             /\ n + 1 \in Levels
                             /\ Climb(up, h, n + 1) \notin S
  <1> DEFINE P == {n \in Nat : \A k \in 0..n : Climb(up, h, k) \in S}
  <1>1. 0 \in P
    BY ClimbZero
  <1>2. Cardinality(Hashes) \notin P
    BY ForestClimb, HashesAreFinite
  <1>3. PICK n \in P : n + 1 \notin P
    <2> HIDE DEF P
    <2> SUFFICES ASSUME \A n \in P : n + 1 \in P
                 PROVE  FALSE
      OBVIOUS
    <2>1. Nat \subseteq P
      BY <1>1, SetOfNaturals
    <2> QED BY <1>2, <2>1, HashesAreFinite
  <1>4. n \in Nat /\ \A k \in 0..n : Climb(up, h, k) \in S
    BY <1>3
  <1>5. Climb(up, h, n + 1) \notin S
    BY <1>3, <1>4
  <1>6. Climb(up, h, n) \in S /\ Climb(up, h, n) # 0
    BY <1>4, HashesAreFinite
  <1>7. Climb(up, h, n + 1) = up[Climb(up, h, n)]
    BY <1>4, <1>6, ClimbNext
  <1>8. n \in Levels /\ n + 1 \in Levels
    BY <1>4, <1>6, ClimbIsShort
  <1> HIDE DEF P
  <1> QED BY <1>4, <1>5, <1>7, <1>8

LEMMA NoCycle ==
    ASSUME NEW up \in Forests, NEW h \in Hashes, NEW k \in Nat \ {0}
    PROVE  Climb(up, h, k) # h
  <1> SUFFICES ASSUME Climb(up, h, k) = h PROVE FALSE
    OBVIOUS
  <1>1. PICK n \in Levels : /\ \A i \in 0..n : Climb(up, h, i) \in Hashes
                            /\ Climb(up, h, n + 1) \notin Hashes
    BY TopOfWay
  <1>2. n \in Nat /\ n + 1 \in Nat /\ k + n \in Nat /\ n + 1 <= k + n
    BY HashesAreFinite DEF Levels
  <1>3. Climb(up, h, n + 1) = 0
    BY <1>1, <1>2, ForestClimb
  <1>4. Climb(up, h, k + n) = 0
    BY <1>2, <1>3, ClimbStaysOut
  <1>5. Climb(up, h, k + n) = Climb(up, h, n)
    BY <1>2, ClimbPlus
  <1>6. Climb(up, h, n) \in Hashes
    BY <1>1, <1>2
  <1> QED BY <1>4, <1>5, <1>6, HashesAreFinite

-----------------------------------------------------------------------------
(* What addStack stores nests. *)
LEMMA BelowNests ==
    ASSUME parent \in Forests, NEW h \in Hashes
    PROVE  /\ \A x \in Kids(h) : Below(x) \subseteq Below(h)
           /\ \A x, y \in Kids(h) : x # y => Below(x) \cap Below(y) = {}
  <1>0. Levels \subseteq Nat
    BY HashesAreFinite DEF Levels
  <1>1. \A x \in Kids(h), z \in Hashes, n \in Levels :
           Climb(parent, z, n) = x => n + 1 \in Levels /\ Climb(parent, z, n + 1) = h
    <2> SUFFICES ASSUME NEW x \in Kids(h), NEW z \in Hashes, NEW n \in Levels,
                        Climb(parent, z, n) = x
                 PROVE  n + 1 \in Levels /\ Climb(parent, z, n + 1) = h
      OBVIOUS
    <2>1. x \in Hashes /\ x # 0 /\ parent[x] = h
      BY HashesAreFinite DEF Kids
    <2> QED BY <1>0, <2>1, ClimbIsShort, ClimbNext
  <1>2. ASSUME NEW x \in Kids(h)
        PROVE  Below(x) \subseteq Below(h)
    BY <1>1 DEF Below
  <1>3. ASSUME NEW x \in Kids(h), NEW y \in Kids(h), NEW z \in Hashes,
               NEW m \in Levels, NEW n \in Levels, m < n,
               Climb(parent, z, m) = x, Climb(parent, z, n) = y
        PROVE  FALSE
    <2>1. Climb(parent, z, m + 1) = h /\ Climb(parent, z, n + 1) = h
      BY <1>1, <1>3
    <2>2. /\ m + 1 \in Nat /\ n - m \in Nat \ {0} /\ n - m \in Nat
          /\ (m + 1) + (n - m) = n + 1
      BY <1>0, <1>3
    <2>3. Climb(parent, z, (m + 1) + (n - m)) = Climb(parent, Climb(parent, z, m + 1), n - m)
      BY <2>2, ClimbPlus
    <2>4. Climb(parent, h, n - m) = h
      BY <2>1, <2>2, <2>3
    <2> QED BY <2>2, <2>4, NoCycle
  <1>4. ASSUME NEW x \in Kids(h), NEW y \in Kids(h), x # y
        PROVE  Below(x) \cap Below(y) = {}
    <2> SUFFICES ASSUME NEW z \in Below(x), z \in Below(y)
                 PROVE  FALSE
      OBVIOUS
    <2>1. PICK m \in Levels : Climb(parent, z, m) = x
      BY DEF Below
    <2>2. PICK n \in Levels : Climb(parent, z, n) = y
      BY DEF Below
    <2>3. z \in Hashes
      BY DEF Below
    <2>4. m \in Nat /\ n \in Nat /\ m # n
      BY <1>0, <1>4, <2>1, <2>2
    <2>5. m < n \/ n < m
      BY <2>4
    <2> QED BY <1>3, <2>1, <2>2, <2>3, <2>5
  <1> QED BY <1>2, <1>4

LEMMA StacksNest ==
    ASSUME parent \in Forests, NEW self \in [Hashes -> Nat]
    PROVE  /\ Rows(self) \in [Hashes -> Nat]
           /\ \A h \in Hashes : SumOver(Rows(self), Kids(h)) <= Rows(self)[h]
  <1>1. \A h : Below(h) \in SUBSET Hashes /\ IsFiniteSet(Below(h))
    BY HashesAreFinite DEF Below
  <1>2. \A h \in Hashes : Rows(self)[h] = SumOver(self, Below(h))
    BY DEF Rows
  <1>3. Rows(self) \in [Hashes -> Nat]
    <2>1. ASSUME NEW h \in Hashes PROVE SumOver(self, Below(h)) \in Nat
      <3>1. \A x \in Below(h) : self[x] \in Nat
        BY <1>1
      <3> QED BY <1>1, <3>1, SumNat
    <2> QED BY <2>1 DEF Rows
  <1>4. ASSUME NEW h \in Hashes
        PROVE  SumOver(Rows(self), Kids(h)) <= Rows(self)[h]
    <2> DEFINE S == UNION {Below(x) : x \in Kids(h)}
    <2> DEFINE group == [x \in Kids(h) |-> Below(x)]
    <2>1. Kids(h) \in SUBSET Hashes /\ IsFiniteSet(Kids(h))
      BY HashesAreFinite DEF Kids
    <2>2. S \in SUBSET Below(h) /\ IsFiniteSet(S)
      <3>1. S \in SUBSET Below(h)
        BY BelowNests
      <3> QED BY <1>1, <3>1, FS_Subset
    <2>3. /\ \A x \in Kids(h) : group[x] \subseteq S
          /\ \A z \in S : \E x \in Kids(h) : z \in group[x]
          /\ \A x, y \in Kids(h) : x # y => group[x] \cap group[y] = {}
      BY BelowNests
    <2>4. \A x \in Kids(h) : Rows(self)[x] = SumOver(self, group[x])
      BY <1>2, <2>1
    <2> HIDE DEF group, S
    <2>5. \A z \in S : self[z] \in Int
      BY <1>1, <2>2
    <2>7. SumOver(Rows(self), Kids(h)) = SumOver(self, S)
      BY <2>1, <2>2, <2>3, <2>4, <2>5, SumGroups
    <2>8. SumOver(self, S) <= SumOver(self, Below(h))
      <3>1. \A z \in Below(h) : self[z] \in Nat
        BY <1>1
      <3> QED BY <1>1, <2>2, <3>1, SumSubset
    <2> QED BY <1>2, <2>7, <2>8
  <1> QED BY <1>3, <1>4
-----------------------------------------------------------------------------
(* The samples of a frame over all chunks nest as well. *)
TruthOf == [h \in Hashes |-> Truth(h)]

LEMMA TruthIsCount ==
    ASSUME RowsNest, NEW h \in Hashes
    PROVE  Truth(h) \in Nat /\ TruthOf[h] = Truth(h)
  <1> DEFINE row == [c \in Chunks |-> stored[c][h]]
  <1>1. \A c \in Chunks : row[c] \in Nat
    BY DEF RowsNest
  <1>2. Truth(h) = SumOver(row, Chunks)
    BY DEF Truth
  <1> HIDE DEF row
  <1>3. Truth(h) \in Nat
    BY <1>1, <1>2, SumNat, ChunksAssumption
  <1> QED BY <1>3 DEF TruthOf

LEMMA TruthNests ==
    ASSUME RowsNest, NEW h \in Hashes, NEW S \in SUBSET Kids(h)
    PROVE  SumOver(TruthOf, S) <= Truth(h)
  <1> DEFINE m == [x \in S |-> [c \in Chunks |-> stored[c][x]]]
  <1> DEFINE column == [c \in Chunks |-> [x \in S |-> stored[c][x]]]
  <1> DEFINE g == [c \in Chunks |-> SumOver(column[c], S)]
  <1> DEFINE row == [c \in Chunks |-> stored[c][h]]
  <1>1. /\ S \subseteq Hashes /\ IsFiniteSet(S) /\ IsFiniteSet(Chunks)
        /\ Kids(h) \in SUBSET Hashes /\ IsFiniteSet(Kids(h))
    BY HashesAreFinite, ChunksAssumption DEF Kids
  <1>2. \A x \in S : \A c \in Chunks : m[x][c] = stored[c][x] /\ m[x][c] \in Int
    BY <1>1 DEF RowsNest
  <1>3. \A x \in S : TruthOf[x] = SumOver(m[x], Chunks)
    BY <1>1 DEF TruthOf, Truth
  <1>4. \A c \in Chunks : /\ g[c] = SumOver(column[c], S)
                          /\ \A x \in S : column[c][x] = m[x][c]
    BY <1>2
  <1>5. ASSUME NEW c \in Chunks
        PROVE  g[c] \in Int /\ g[c] <= row[c]
    <2> DEFINE col == column[c]
    <2>1. \A x \in S : col[x] = stored[c][x] /\ col[x] \in Int
      BY <1>2
    <2>2. g[c] = SumOver(col, S)
      OBVIOUS
    <2> HIDE DEF col, g, m
    <2>3. SumOver(col, S) = SumOver(stored[c], S) /\ SumOver(col, S) \in Int
      BY <1>1, <2>1, SumEqual, SumInt
    <2>4. SumOver(stored[c], S) <= SumOver(stored[c], Kids(h))
      <3>1. \A x \in Kids(h) : stored[c][x] \in Nat
        BY <1>1 DEF RowsNest
      <3> QED BY <1>1, <3>1, SumSubset
    <2>5. SumOver(stored[c], Kids(h)) <= stored[c][h] /\ stored[c][h] \in Nat
      BY DEF RowsNest
    <2>6. SumOver(stored[c], Kids(h)) \in Int
      <3>1. \A x \in Kids(h) : stored[c][x] \in Int
        BY <1>1 DEF RowsNest
      <3> QED BY <1>1, <3>1, SumInt
    <2>7. g[c] \in Int /\ g[c] <= stored[c][h]
      BY <2>2, <2>3, <2>4, <2>5, <2>6
    <2> QED BY <2>7
  <1>6. \A c \in Chunks : row[c] \in Int
    BY DEF RowsNest
  <1>7. Truth(h) = SumOver(row, Chunks)
    BY DEF Truth
  <1> HIDE DEF m, row, column
  <1>8. SumOver(TruthOf, S) = SumOver(g, Chunks)
    <2> HIDE DEF g
    <2>1. \A x \in S : \A c \in Chunks : m[x][c] \in Int
      BY <1>2
    <2>2. \A c \in Chunks : \A x \in S : column[c][x] = m[x][c]
      BY <1>4
    <2>3. \A c \in Chunks : g[c] = SumOver(column[c], S)
      BY <1>4
    <2> DEFINE truth == TruthOf
    <2>4. \A x \in S : truth[x] = SumOver(m[x], Chunks)
      BY <1>3
    <2>5. IsFiniteSet(S) /\ IsFiniteSet(Chunks)
      BY <1>1
    <2> HIDE DEF truth
    <2>6. SumOver(truth, S) = SumOver(g, Chunks)
      BY <2>1, <2>2, <2>3, <2>4, <2>5, SumSwap
    <2> QED BY <2>6 DEF truth
  <1> HIDE DEF g
  <1>9. SumOver(g, Chunks) <= SumOver(row, Chunks)
    BY <1>1, <1>5, <1>6, SumCompare
  <1> QED BY <1>7, <1>8, <1>9

LEMMA ParentHasMore ==
    ASSUME RowsNest, NEW h \in Hashes, parent[h] # 0
    PROVE  parent[h] \in Hashes /\ Truth(h) <= Truth(parent[h])
  <1>1. parent[h] \in Hashes
    BY ForestClimb DEF RowsNest
  <1>2. {h} \in SUBSET Kids(parent[h])
    BY DEF Kids
  <1>3. SumOver(TruthOf, {h}) <= Truth(parent[h])
    BY <1>1, <1>2, TruthNests
  <1>4. SumOver(TruthOf, {h}) = Truth(h)
    <2>1. TruthOf[h] = Truth(h) /\ Truth(h) \in Int
      BY TruthIsCount
    <2>2. SumOver(TruthOf, {} \cup {h}) = TruthOf[h] + SumOver(TruthOf, {})
      BY <2>1, SumAdd, FS_EmptySet
    <2>3. SumOver(TruthOf, {}) = 0 /\ {} \cup {h} = {h}
      BY SumEmpty
    <2> QED BY <2>1, <2>2, <2>3
  <1> QED BY <1>1, <1>3, <1>4

-----------------------------------------------------------------------------
(* The ancestor loop: what one round reaches. *)
Reach(up, low, known) ==
    low \cup {g \in known :
                 \E h \in low : \E n \in Levels :
                     /\ Climb(up, h, n) = g
                     /\ \A k \in 1..n : Climb(up, h, k) \in known}

LEMMA ReachIsAbove ==
    ASSUME NEW up \in Forests, NEW known \in SUBSET Hashes, NEW low \in SUBSET known
    PROVE  /\ low \subseteq Reach(up, low, known)
           /\ Reach(up, low, known) \subseteq known
           /\ \A g \in Reach(up, low, known) :
                 \E h \in low, n \in Levels :
                     /\ Climb(up, h, n) = g
                     /\ \A k \in 1..n : Climb(up, h, k) \in known
  <1>1. 0 \in Levels /\ 1..0 = {}
    BY HashesAreFinite DEF Levels
  <1>2. \A h \in low : Climb(up, h, 0) = h
    BY ClimbZero
  <1> QED BY <1>1, <1>2 DEF Reach

LEMMA ReachIsClosed ==
    ASSUME NEW up \in Forests, NEW known \in SUBSET Hashes, NEW low \in SUBSET known,
           NEW g \in Reach(up, low, known), up[g] \in known
    PROVE  up[g] \in Reach(up, low, known)
  <1>1. PICK h \in low, n \in Levels : /\ Climb(up, h, n) = g
                                       /\ \A k \in 1..n : Climb(up, h, k) \in known
    BY ReachIsAbove
  <1>2. h \in Hashes /\ n \in Nat /\ g \in known /\ g # 0
    BY ReachIsAbove, HashesAreFinite DEF Levels
  <1>3. n + 1 \in Levels
    BY <1>1, <1>2, ClimbIsShort
  <1>4. Climb(up, h, n + 1) = up[g]
    BY <1>1, <1>2, ClimbNext
  <1>5. \A k \in 1..n + 1 : k \in 1..n \/ k = n + 1
    BY <1>2
  <1>6. \A k \in 1..n + 1 : Climb(up, h, k) \in known
    BY <1>1, <1>4, <1>5
  <1> QED BY <1>3, <1>4, <1>6 DEF Reach

(* A round fetches the parents that are missing.  A frame that then still  *)
(* lacks its parent was reached through one of them, so it lies a level    *)
(* higher above the selected frames than that one's child did.             *)
LEMMA RoundGoesUp ==
    ASSUME NEW up \in Forests, NEW known \in SUBSET Hashes, NEW low \in SUBSET known,
           NEW i \in Nat, NEW more \in SUBSET Hashes,
           more = {up[h] : h \in Reach(up, low, known)}
                      \ ({0} \cup Reach(up, low, known) \cup known),
           \A h \in Reach(up, low, known) :
               up[h] \in known \cup {0} \/ Above(up, h, i, low)
    PROVE  \A h \in Reach(up, Reach(up, low, known), known \cup more) :
               \/ up[h] \in known \cup more \cup {0}
               \/ Above(up, h, i + 1, Reach(up, low, known))
  <1> DEFINE R == Reach(up, low, known)
  <1> DEFINE all == known \cup more
  <1> SUFFICES ASSUME NEW h \in Reach(up, R, all), up[h] \notin all \cup {0}
               PROVE  Above(up, h, i + 1, R)
    OBVIOUS
  <1>1. R \in SUBSET known /\ low \subseteq R
    BY ReachIsAbove
  <1>2. R \in SUBSET all /\ all \in SUBSET Hashes
    BY <1>1
  <1>3. h \notin R
    BY <1>1
  <1>4. PICK g \in R, n \in Levels : /\ Climb(up, g, n) = h
                                     /\ \A k \in 1..n : Climb(up, g, k) \in all
    <2> HIDE DEF R, all
    <2> QED BY <1>2, ReachIsAbove
  <1>5. R \in SUBSET Hashes /\ h \in Hashes /\ Levels \subseteq Nat
    <2>1. h \in all
      <3> HIDE DEF R, all
      <3> QED BY <1>2, ReachIsAbove
    <2> QED BY <1>2, <2>1, HashesAreFinite DEF Levels
  <1>6. PICK m \in Levels : /\ \A k \in 0..m : Climb(up, g, k) \in R
                            /\ up[Climb(up, g, m)] \notin R
                            /\ Climb(up, g, m + 1) \notin R
    <2> HIDE DEF R
    <2> QED BY <1>5, TopOfWay
  <1>7. m \in Nat /\ n \in Nat /\ m < n
    <2>1. m \in Nat /\ n \in Nat
      BY <1>5
    <2>2. ~(n <= m)
      <3> HIDE DEF R
      <3> QED BY <1>3, <1>4, <1>6, <2>1
    <2> QED BY <2>1, <2>2
  <1> DEFINE q == Climb(up, g, m)
  <1>8. q \in R /\ q \in Hashes /\ q # 0
    BY <1>5, <1>6, <1>7, HashesAreFinite
  <1>9. up[q] \in all /\ up[q] \notin R
    <2>1. m + 1 \in 1..n /\ Climb(up, g, m + 1) = up[q]
      BY <1>7, <1>8, ClimbNext
    <2> HIDE DEF R, all
    <2> QED BY <1>4, <1>6, <2>1
  <1>10. up[q] \notin known \cup {0}
    <2>1. up[q] \notin known
      <3> HIDE DEF q
      <3> QED BY <1>8, <1>9, ReachIsClosed
    <2>2. up[q] # 0
      BY <1>2, <1>9, HashesAreFinite
    <2> QED BY <2>1, <2>2
  <1>11. PICK x \in low, l \in Levels : l >= i /\ Climb(up, x, l) = q
    <2>1. Above(up, q, i, low)
      <3> HIDE DEF q
      <3> QED BY <1>8, <1>10
    <2> QED BY <2>1 DEF Above
  <1>12. /\ l \in Nat /\ n - m \in Nat /\ l + (n - m) \in Nat
         /\ l + (n - m) >= i + 1 /\ m + (n - m) = n
    BY <1>5, <1>7, <1>11
  <1>13. Climb(up, x, l + (n - m)) = h
    <2>1. Climb(up, x, l + (n - m)) = Climb(up, Climb(up, x, l), n - m)
      BY <1>12, ClimbPlus
    <2>2. Climb(up, g, m + (n - m)) = Climb(up, Climb(up, g, m), n - m)
      BY <1>7, <1>12, ClimbPlus
    <2> QED BY <1>4, <1>11, <1>12, <2>1, <2>2
  <1>14. x \in Hashes /\ x \in R /\ h # 0
    BY <1>1, <1>5, HashesAreFinite
  <1>15. l + (n - m) \in Levels
    BY <1>12, <1>13, <1>14, ClimbIsShort
  <1> HIDE DEF R
  <1> QED BY <1>12, <1>13, <1>14, <1>15 DEF Above

-----------------------------------------------------------------------------
(* The walk from the roots. *)
LEMMA AllWaitForRoots ==
    ASSUME NEW up \in Forests, NEW shown \in SUBSET Hashes, NEW p \in shown
    PROVE  Waits(up, p, shown, {h \in shown : up[h] \notin shown})
  <1>1. PICK n \in Levels : /\ \A k \in 0..n : Climb(up, p, k) \in shown
                            /\ up[Climb(up, p, n)] \notin shown
    BY TopOfWay
  <1>2. n \in 0..n
    BY HashesAreFinite DEF Levels
  <1> QED BY <1>1, <1>2 DEF Waits

LEMMA WalkKeepsWaiting ==
    ASSUME NEW up \in Forests, NEW shown \in SUBSET Hashes, NEW h, NEW p \in shown, p # h,
           NEW queued, NEW queued2, queued \subseteq {h} \cup queued2,
           {x \in shown : up[x] = h} \subseteq queued2,
           Waits(up, p, shown, queued)
    PROVE  Waits(up, p, shown, queued2)
  <1>1. PICK n \in Levels : /\ Climb(up, p, n) \in queued
                            /\ \A k \in 0..n : Climb(up, p, k) \in shown
    BY DEF Waits
  <1>2. n \in Nat
    BY HashesAreFinite DEF Levels
  <1>3. CASE Climb(up, p, n) # h
    BY <1>1, <1>3 DEF Waits
  <1>4. CASE Climb(up, p, n) = h
    <2>1. n # 0
      BY <1>4, ClimbZero
    <2>2. n - 1 \in Nat /\ n - 1 \in Levels /\ (n - 1) + 1 = n
          /\ n - 1 \in 0..n /\ 0..n - 1 \subseteq 0..n
      BY <1>2, <2>1, HashesAreFinite DEF Levels
    <2>3. Climb(up, p, n - 1) \in shown /\ Climb(up, p, n - 1) # 0
      BY <1>1, <2>2, HashesAreFinite
    <2>4. up[Climb(up, p, n - 1)] = h
      BY <1>4, <2>2, <2>3, ClimbNext
    <2>5. Climb(up, p, n - 1) \in queued2
      BY <2>3, <2>4
    <2> QED BY <1>1, <2>2, <2>5 DEF Waits
  <1> QED BY <1>3, <1>4
-----------------------------------------------------------------------------
(* The initial states. *)
LEMMA InitIInv == Init => IInv
  <1> SUFFICES ASSUME Init PROVE IInv
    OBVIOUS
  <1>1. MaxIters \in Nat /\ MaxSelf \in Nat
    BY LimitsAssumption
  <1>2. TypeOK
    BY <1>1 DEF Init, TypeOK, ToSet
  <1>3. RowsNest
    <2>1. PICK self \in [Chunks -> [Hashes -> 0..MaxSelf]] :
             stored = [c \in Chunks |-> Rows(self[c])]
      BY DEF Init
    <2>2. parent \in Forests
      BY DEF Init
    <2>3. ASSUME NEW c \in Chunks
          PROVE  /\ stored[c] \in [Hashes -> Nat]
                 /\ \A h \in Hashes : SumOver(stored[c], Kids(h)) <= stored[c][h]
      <3>1. self[c] \in [Hashes -> Nat] /\ stored[c] = Rows(self[c])
        BY <1>1, <2>1
      <3> QED BY <2>2, <3>1, StacksNest
    <2>4. stored \in [Chunks -> [Hashes -> Nat]]
      BY <2>1, <2>3
    <2> QED BY <2>2, <2>3, <2>4 DEF RowsNest
  <1>4. ReadsAddUp
    <2>1. \A h : Got(h) = 0
      BY DEF Init, Got
    <2>2. Chunks \ unread = {}
      BY DEF Init
    <2>3. \A h : ReadSoFar(h) = 0
      BY <2>2, SumEmpty DEF ReadSoFar
    <2>4. stage = "read" /\ selected = {} /\ iter = 0
          /\ agg \in [DOMAIN agg -> Nat \ {0}]
      BY DEF Init
    <2> QED BY <2>1, <2>3, <2>4 DEF ReadsAddUp
  <1>5. OrphansLieHigh /\ GraphHolds
    BY DEF Init, OrphansLieHigh, GraphHolds
  <1> QED BY <1>2, <1>3, <1>4, <1>5 DEF IInv

-----------------------------------------------------------------------------
(* Reading a chunk. *)
LEMMA HeaviestAreRows ==
    ASSUME NEW c \in Chunks, NEW top \in Heaviest(c)
    PROVE  /\ top \subseteq RowsIn(c)
           /\ Uncut => top = RowsIn(c)
  <1>1. RowsIn(c) \in SUBSET Hashes /\ IsFiniteSet(RowsIn(c))
    BY HashesAreFinite DEF RowsIn
  <1>2. top \in SUBSET RowsIn(c)
    BY DEF Heaviest, kSubset
  <1>3. ASSUME Uncut
        PROVE  top = RowsIn(c)
    <2>1. Cardinality(RowsIn(c)) <= ChunkLimit
          /\ Cardinality(RowsIn(c)) \in Nat /\ ChunkLimit \in Nat
      BY <1>1, <1>3, FS_CardinalityType, LimitsAssumption DEF Uncut
    <2>2. Cardinality(top) = Cardinality(RowsIn(c))
      BY <2>1 DEF Heaviest, kSubset
    <2> QED BY <1>1, <1>2, <2>2, FS_Subset
  <1> QED BY <1>2, <1>3

LEMMA ReadChunkStep ==
    ASSUME IInv, NEW c \in Chunks, ReadChunk(c)
    PROVE  IInv'
  <1> USE DEF IInv
  <1>1. PICK top \in Heaviest(c) : agg' = Merge(agg, [h \in top |-> stored[c][h]])
    BY DEF ReadChunk
  <1> DEFINE new == [h \in top |-> stored[c][h]]
  <1> DEFINE gain(h) == IF h \in top THEN stored[c][h] ELSE 0
  <1>2. /\ stage = "read" /\ c \in unread /\ unread' = unread \ {c}
        /\ UNCHANGED <<parent, stored, stage, selected, iter, frames, queue, roots>>
    BY DEF ReadChunk, data, graphVars
  <1>3. top \subseteq Hashes /\ \A h \in top : stored[c][h] \in Nat \ {0}
    <2>1. top \subseteq RowsIn(c)
      BY HeaviestAreRows
    <2>2. \A h \in RowsIn(c) : h \in Hashes /\ stored[c][h] > 0
      BY DEF RowsIn
    <2> QED BY <2>1, <2>2 DEF RowsNest
  <1>4. DOMAIN agg' = DOMAIN agg \cup top
    BY <1>1 DEF Merge
  <1>5. \A h : Got(h)' = Got(h) + gain(h)
    <2>1. \A h \in DOMAIN agg : agg[h] \in Nat
      BY DEF ReadsAddUp
    <2>2. \A h \in DOMAIN agg \cup top :
             agg'[h] = (IF h \in DOMAIN agg THEN agg[h] ELSE 0)
                       + (IF h \in top THEN stored[c][h] ELSE 0)
      BY <1>1 DEF Merge
    <2> QED BY <1>4, <2>2 DEF Got
  <1>6. agg' \in [DOMAIN agg' -> Nat \ {0}]
    <2>1. agg' = [h \in DOMAIN agg' |-> agg'[h]]
      BY <1>1 DEF Merge
    <2>2. \A h \in DOMAIN agg' : agg'[h] = Got(h) + gain(h)
      BY <1>5 DEF Got
    <2>3. \A h \in DOMAIN agg : agg[h] \in Nat \ {0}
      BY DEF ReadsAddUp
    <2>4. \A h \in DOMAIN agg' : Got(h) + gain(h) \in Nat \ {0}
      BY <1>3, <1>4, <2>3 DEF Got
    <2> HIDE DEF gain
    <2> QED BY <2>1, <2>2, <2>4
  <1>7. Uncut' = Uncut
    BY <1>2 DEF Uncut, RowsIn
  <1>8. ASSUME NEW h \in Hashes
        PROVE  ReadSoFar(h)' = ReadSoFar(h) + stored[c][h]
    <2> DEFINE row == [d \in Chunks |-> stored[d][h]]
    <2>1. \A d \in Chunks : row[d] = stored[d][h] /\ row[d] \in Int
      BY DEF RowsNest
    <2>2. ReadSoFar(h) = SumOver(row, Chunks \ unread)
      BY DEF ReadSoFar
    <2>3. ReadSoFar(h)' = SumOver(row, Chunks \ unread')
      BY <1>2 DEF ReadSoFar
    <2>4. Chunks \ unread' = (Chunks \ unread) \cup {c}
      BY <1>2
    <2>5. c \notin Chunks \ unread /\ IsFiniteSet(Chunks \ unread)
      BY <1>2, ChunksAssumption, FS_Subset
    <2> HIDE DEF row
    <2>6. SumOver(row, (Chunks \ unread) \cup {c}) = row[c] + SumOver(row, Chunks \ unread)
      BY <2>1, <2>5, SumAdd
    <2>7. SumOver(row, Chunks \ unread) \in Int
      BY <2>1, <2>5, SumInt
    <2>8. ReadSoFar(h)' = SumOver(row, (Chunks \ unread) \cup {c})
      BY <2>3, <2>4
    <2> QED BY <2>1, <2>2, <2>6, <2>7, <2>8
  <1>9. \A h \in Hashes : ReadSoFar(h) \in Int
    <2> SUFFICES ASSUME NEW h \in Hashes PROVE ReadSoFar(h) \in Int
      OBVIOUS
    <2> DEFINE row == [d \in Chunks |-> stored[d][h]]
    <2>1. \A d \in Chunks : row[d] \in Int
      BY DEF RowsNest
    <2>2. IsFiniteSet(Chunks \ unread)
      BY ChunksAssumption, FS_Subset
    <2>3. SumOver(row, Chunks \ unread) \in Int
      <3> HIDE DEF row
      <3> QED BY <2>1, <2>2, SumInt
    <2> QED BY <2>3 DEF ReadSoFar
  <1>10. ASSUME NEW h \in Hashes
         PROVE  Got(h)' <= ReadSoFar(h)' /\ (Uncut' => Got(h)' = ReadSoFar(h)')
    <2>1. Got(h) <= ReadSoFar(h) /\ (Uncut => Got(h) = ReadSoFar(h))
      BY <1>2 DEF ReadsAddUp
    <2>2. Got(h) \in Int /\ ReadSoFar(h) \in Int /\ stored[c][h] \in Nat
      <3>1. Got(h) \in Int
        BY DEF Got, ReadsAddUp
      <3> QED BY <1>9, <3>1 DEF RowsNest
    <2>3. gain(h) \in Int /\ gain(h) <= stored[c][h]
      BY <2>2
    <2>4. Uncut => gain(h) = stored[c][h]
      <3>1. Uncut => top = RowsIn(c)
        BY HeaviestAreRows
      <3>2. h \notin RowsIn(c) => stored[c][h] = 0
        BY <2>2 DEF RowsIn
      <3> QED BY <3>1, <3>2
    <2>5. Got(h)' = Got(h) + gain(h)
      BY <1>5
    <2>6. ReadSoFar(h)' = ReadSoFar(h) + stored[c][h]
      BY <1>8
    <2> HIDE DEF gain
    <2>7. Got(h) + gain(h) <= ReadSoFar(h) + stored[c][h]
      BY <2>1, <2>2, <2>3
    <2> QED BY <1>7, <2>1, <2>4, <2>5, <2>6, <2>7
  <1>11. TypeOK'
    <2>1. (DOMAIN agg)' \subseteq Hashes /\ selected' \subseteq (DOMAIN agg)'
      BY <1>2, <1>3, <1>4 DEF TypeOK
    <2> QED BY <1>2, <2>1 DEF TypeOK, ToSet
  <1>12. RowsNest'
    BY <1>2 DEF RowsNest, Kids
  <1>13. ReadsAddUp'
    <2>1. selected' = {} /\ iter' = 0 /\ stage' = "read"
      BY <1>2 DEF ReadsAddUp
    <2> QED BY <1>6, <1>10, <2>1 DEF ReadsAddUp
  <1>14. OrphansLieHigh' /\ GraphHolds'
    BY <1>2 DEF OrphansLieHigh, GraphHolds
  <1> QED BY <1>11, <1>12, <1>13, <1>14
-----------------------------------------------------------------------------
(* Choosing the frames. *)
LEMMA ExpandedIsReach ==
    /\ Expanded = Reach(parent, selected, DOMAIN agg)
    /\ Expanded' = Reach(parent', selected', (DOMAIN agg)')
  BY DEF Expanded, Reach

LEMMA FailStep ==
    ASSUME IInv, Fail
    PROVE  IInv'
  <1>1. /\ stage \in {"read", "ancestors"} /\ stage' = "failed"
        /\ UNCHANGED <<parent, stored, unread, agg, selected, iter, frames, queue, roots>>
    BY DEF Fail, data, graphVars
  <1>2. TypeOK'
    BY <1>1 DEF IInv, TypeOK, ToSet
  <1>3. RowsNest'
    BY <1>1 DEF IInv, RowsNest, Kids
  <1>4. ReadsAddUp' /\ OrphansLieHigh' /\ GraphHolds'
    BY <1>1 DEF IInv, ReadsAddUp, OrphansLieHigh, GraphHolds
  <1> QED BY <1>2, <1>3, <1>4 DEF IInv

LEMMA SelectStep ==
    ASSUME IInv, Select
    PROVE  IInv'
  <1> USE DEF IInv
  <1>1. /\ stage = "read" /\ unread = {} /\ stage' = "ancestors"
        /\ selected' = TopFrameHashes
        /\ UNCHANGED <<parent, stored, unread, agg, iter, frames, queue, roots>>
    BY DEF Select, data, graphVars
  <1>2. selected' \subseteq DOMAIN agg /\ iter' = 0
    BY <1>1 DEF TopFrameHashes, ReadsAddUp
  <1>3. TypeOK'
    BY <1>1, <1>2 DEF TypeOK, ToSet
  <1>4. RowsNest' /\ Uncut' = Uncut
    BY <1>1 DEF RowsNest, Kids, Uncut, RowsIn
  <1>5. ReadsAddUp'
    <2>1. \A h \in Hashes : ReadSoFar(h) = Truth(h) /\ Truth(h)' = Truth(h)
      <3>1. Chunks \ unread = Chunks
        BY <1>1
      <3> QED BY <1>1, <3>1 DEF ReadSoFar, Truth
    <2>2. \A h \in DOMAIN agg : agg[h] <= Truth(h) /\ (Uncut => agg[h] = Truth(h))
      BY <1>1, <2>1 DEF ReadsAddUp, Got, TypeOK
    <2> QED BY <1>1, <1>4, <2>1, <2>2 DEF ReadsAddUp, TypeOK
  <1>6. OrphansLieHigh'
    <2>1. \A h \in Expanded' : Above(parent, h, 0, selected')
      <3>1. /\ parent \in Forests /\ DOMAIN agg \in SUBSET Hashes
            /\ selected' \in SUBSET (DOMAIN agg)
        BY <1>2 DEF RowsNest, TypeOK
      <3>2. Expanded' = Reach(parent, selected', DOMAIN agg)
        BY <1>1, ExpandedIsReach
      <3>3. \A h \in Expanded' : \E x \in selected', n \in Levels : Climb(parent, x, n) = h
        BY <3>1, <3>2, ReachIsAbove
      <3>4. \A n \in Levels : n >= 0
        BY HashesAreFinite DEF Levels
      <3> QED BY <3>3, <3>4 DEF Above
    <2>2. \A h \in Expanded' : Above(parent', h, iter', selected')
      BY <1>1, <1>2, <2>1
    <2> QED BY <2>2 DEF OrphansLieHigh
  <1>7. GraphHolds'
    BY <1>1 DEF GraphHolds
  <1> QED BY <1>3, <1>4, <1>5, <1>6, <1>7

LEMMA ExpandAncestorsStep ==
    ASSUME IInv, ExpandAncestors
    PROVE  IInv'
  <1> USE DEF IInv
  <1>1. /\ stage = "ancestors" /\ iter < MaxIters
        /\ selected' = Expanded /\ agg' = Merge(agg, Fetched) /\ iter' = iter + 1
        /\ UNCHANGED <<parent, stored, stage, unread, frames, queue, roots>>
    BY DEF ExpandAncestors, data, graphVars
  <1> DEFINE known == DOMAIN agg
  <1> DEFINE more == MissingAncestors
  <1>2. /\ parent \in Forests /\ parent \in [Hashes -> Hashes \cup {0}]
        /\ known \in SUBSET Hashes /\ selected \in SUBSET known
        /\ iter \in Nat
    BY LimitsAssumption DEF RowsNest, TypeOK, Forests
  <1>3. Expanded = Reach(parent, selected, known) /\ Expanded \subseteq known
    BY <1>2, ExpandedIsReach, ReachIsAbove
  <1>4. /\ more = {parent[h] : h \in Expanded} \ ({0} \cup Expanded \cup known)
        /\ more \in SUBSET Hashes /\ more \cap known = {}
    BY <1>2, <1>3 DEF MissingAncestors
  <1>5. (DOMAIN agg)' = known \cup more
    BY <1>1 DEF Merge, Fetched
  <1>6. \A h \in DOMAIN agg : agg[h] \in Nat \ {0} /\ agg[h] <= Truth(h)
                              /\ (Uncut => agg[h] = Truth(h))
    BY <1>1 DEF ReadsAddUp
  <1>7. \A h \in more : Truth(h) \in Nat \ {0}
    <2> SUFFICES ASSUME NEW h \in more PROVE Truth(h) \in Nat \ {0}
      OBVIOUS
    <2>1. PICK x \in Expanded : h = parent[x]
      BY <1>4
    <2>2. x \in Hashes /\ x \in DOMAIN agg /\ h \in Hashes /\ h # 0
      BY <1>2, <1>3, <1>4, HashesAreFinite
    <2>3. Truth(x) <= Truth(h) /\ Truth(x) \in Nat /\ Truth(h) \in Nat
      BY <2>1, <2>2, ParentHasMore, TruthIsCount
    <2>4. agg[x] \in Nat \ {0} /\ agg[x] <= Truth(x)
      BY <1>6, <2>2
    <2> HIDE DEF more
    <2> QED BY <2>3, <2>4
  <1>8. /\ \A h \in known : agg'[h] = agg[h]
        /\ \A h \in more : agg'[h] = Truth(h)
        /\ agg' = [h \in known \cup more |-> agg'[h]]
    <2>1. DOMAIN Fetched = more /\ \A h \in more : Fetched[h] = Truth(h)
      BY DEF Fetched
    <2>2. agg' = [h \in known \cup more |-> (IF h \in known THEN agg[h] ELSE 0)
                                            + (IF h \in more THEN Fetched[h] ELSE 0)]
      BY <1>1, <2>1 DEF Merge
    <2>3. \A h \in known : h \notin more /\ agg[h] \in Nat
      BY <1>4, <1>6
    <2>4. \A h \in more : h \notin known /\ Truth(h) \in Nat
      BY <1>4, <1>7
    <2> HIDE DEF known, more
    <2> QED BY <2>1, <2>2, <2>3, <2>4
  <1>9. \A h : Truth(h)' = Truth(h)
    BY <1>1 DEF Truth
  <1>10. Uncut' = Uncut
    BY <1>1 DEF Uncut, RowsIn
  <1>11. TypeOK'
    <2>1. iter' \in 0..MaxIters
      BY <1>1, <1>2, LimitsAssumption
    <2>2. (DOMAIN agg)' \subseteq Hashes /\ selected' \subseteq (DOMAIN agg)'
      BY <1>1, <1>2, <1>3, <1>4, <1>5
    <2> QED BY <1>1, <2>1, <2>2 DEF TypeOK, ToSet
  <1>12. RowsNest'
    BY <1>1 DEF RowsNest, Kids
  <1>13. ReadsAddUp'
    <2>1. \A h \in known \cup more : /\ agg'[h] \in Nat \ {0} /\ agg'[h] <= Truth(h)
                                     /\ Uncut => agg'[h] = Truth(h)
      <3> HIDE DEF more
      <3> QED BY <1>6, <1>7, <1>8
    <2>2. agg' \in [(DOMAIN agg)' -> Nat \ {0}]
      <3> HIDE DEF known, more
      <3> QED BY <1>5, <1>8, <2>1
    <2>3. \A h \in (DOMAIN agg)' : /\ agg'[h] <= Truth(h)'
                                   /\ Uncut' => agg'[h] = Truth(h)'
      BY <1>5, <1>9, <1>10, <2>1
    <2>4. stage' = "ancestors"
      BY <1>1
    <2> QED BY <2>2, <2>3, <2>4 DEF ReadsAddUp
  <1>14. OrphansLieHigh'
    <2>1. \A h \in Expanded : parent[h] \in known \cup {0} \/ Above(parent, h, iter, selected)
      BY <1>1 DEF OrphansLieHigh
    <2>2. \A h \in Reach(parent, Expanded, known \cup more) :
             \/ parent[h] \in known \cup more \cup {0}
             \/ Above(parent, h, iter + 1, Expanded)
      <3> HIDE DEF known, more
      <3> QED BY <1>2, <1>3, <1>4, <2>1, RoundGoesUp
    <2>3. Expanded' = Reach(parent, Expanded, known \cup more)
      BY <1>1, <1>5, ExpandedIsReach
    <2>4. \A h \in Expanded' : \/ parent'[h] \in (DOMAIN agg)' \cup {0}
                               \/ Above(parent', h, iter', selected')
      <3> HIDE DEF known, more
      <3> QED BY <1>1, <1>5, <2>2, <2>3
    <2> QED BY <2>4 DEF OrphansLieHigh
  <1>15. GraphHolds'
    BY <1>1 DEF GraphHolds
  <1> QED BY <1>11, <1>12, <1>13, <1>14, <1>15
LEMMA BuildFramesStep ==
    ASSUME IInv, BuildFrames
    PROVE  IInv'
  <1> USE DEF IInv
  <1>1. /\ stage = "ancestors" /\ stage' = "clamp"
        /\ iter = MaxIters \/ (MissingAncestors = {} /\ Expanded = selected)
        /\ selected' = Expanded
        /\ frames' = [h \in Expanded |-> agg[h]]
        /\ roots' = {h \in Expanded : parent[h] \notin Expanded}
        /\ queue' = SetToSeq(roots')
        /\ UNCHANGED <<parent, stored, unread, agg, iter>>
    BY DEF BuildFrames, data
  <1>2. /\ parent \in Forests
        /\ DOMAIN agg \in SUBSET Hashes /\ selected \in SUBSET (DOMAIN agg)
    BY DEF RowsNest, TypeOK
  <1>3. /\ Expanded = Reach(parent, selected, DOMAIN agg)
        /\ Expanded \subseteq DOMAIN agg /\ selected \subseteq Expanded
    BY <1>2, ExpandedIsReach, ReachIsAbove
  <1>4. \A h \in DOMAIN agg : agg[h] \in Nat \ {0} /\ agg[h] <= Truth(h)
                              /\ (Uncut => agg[h] = Truth(h))
    BY <1>1 DEF ReadsAddUp
  <1>5. /\ roots' \in SUBSET Expanded
        /\ queue' \in Seq(roots') /\ ToSet(queue') = roots'
    <2>1. roots' \in SUBSET Expanded /\ roots' \in SUBSET Hashes
      BY <1>1, <1>2, <1>3
    <2>2. IsFiniteSet(roots')
      BY <2>1, HashesAreFinite
    <2> QED BY <1>1, <2>1, <2>2, SetToSeqHoldsAll
  <1>6. queue' \in Seq(Expanded)
    BY <1>5
  <1>7. \A h \in Expanded : parent[h] \in DOMAIN agg => parent[h] \in Expanded
    BY <1>2, <1>3, ReachIsClosed
  <1>8. \A h \in Expanded :
           parent[h] \in Expanded \cup {0} \/ Above(parent, h, MaxIters, Expanded)
    <2>1. CASE iter = MaxIters
      <3>1. \A h \in Expanded :
               parent[h] \in DOMAIN agg \cup {0} \/ Above(parent, h, MaxIters, selected)
        BY <1>1, <2>1 DEF OrphansLieHigh
      <3> QED BY <1>3, <1>7, <3>1 DEF Above
    <2>2. CASE MissingAncestors = {} /\ Expanded = selected
      <3>1. {parent[h] : h \in Expanded} \subseteq {0} \cup Expanded \cup DOMAIN agg
        BY <2>2 DEF MissingAncestors
      <3> QED BY <1>7, <3>1
    <2> QED BY <1>1, <2>1, <2>2
  <1>9. \A h \in Expanded : Waits(parent, h, Expanded, roots')
    <2>1. Expanded \in SUBSET Hashes
      BY <1>2, <1>3
    <2> QED BY <1>1, <1>2, <2>1, AllWaitForRoots
  <1>10. \A h : Truth(h)' = Truth(h)
    BY <1>1 DEF Truth
  <1>11. Uncut' = Uncut
    BY <1>1 DEF Uncut, RowsIn
  <1>12. TypeOK'
    BY <1>1, <1>2, <1>3, <1>5 DEF TypeOK
  <1>13. RowsNest'
    BY <1>1 DEF RowsNest, Kids
  <1>14. ReadsAddUp'
    BY <1>1, <1>10, <1>11 DEF ReadsAddUp
  <1>15. OrphansLieHigh'
    BY <1>1 DEF OrphansLieHigh
  <1>16. GraphHolds'
    <2>1. frames' \in [selected' -> Nat \ {0}]
      BY <1>1, <1>3, <1>4
    <2>2. \A h \in selected' : frames'[h] <= Truth(h)' /\ (Uncut' => frames'[h] = Truth(h)')
      BY <1>1, <1>3, <1>4, <1>10, <1>11
    <2>3. \A h \in selected' : \/ parent'[h] \in selected' \cup {0}
                               \/ Above(parent', h, MaxIters, selected')
      BY <1>1, <1>8
    <2>4. \A h \in selected' : parent'[h] \in selected' =>
             Waits(parent', parent'[h], selected', ToSet(queue'))
      BY <1>1, <1>5, <1>9
    <2>5. queue' \in Seq(selected')
          /\ roots' = {h \in selected' : parent'[h] \notin selected'}
      BY <1>1, <1>6
    <2>6. stage' = "clamp"
      BY <1>1
    <2> QED BY <2>1, <2>2, <2>3, <2>4, <2>5, <2>6 DEF GraphHolds, ToSet
  <1> QED BY <1>12, <1>13, <1>14, <1>15, <1>16

(* A step of the walk. *)
LEMMA ClampStep ==
    ASSUME IInv, Clamp
    PROVE  IInv'
  <1> USE DEF IInv
  <1> DEFINE h == Head(queue)
  <1> DEFINE kids == Children(h)
  <1>1. /\ stage = "clamp" /\ queue # <<>>
        /\ frames' = [x \in DOMAIN frames |->
                         IF x \in kids /\ frames[x] > frames[h] THEN frames[h] ELSE frames[x]]
        /\ UNCHANGED <<parent, stored, stage, unread, agg, selected, iter, roots>>
    BY DEF Clamp, data
  <1>2. PICK order \in SetToSeqs(kids) : queue' = Tail(queue) \o order
    BY DEF Clamp
  <1>3. /\ parent \in Forests /\ selected \in SUBSET Hashes
        /\ frames \in [selected -> Nat \ {0}] /\ DOMAIN frames = selected
        /\ queue \in Seq(selected)
    BY <1>1 DEF RowsNest, TypeOK, GraphHolds
  <1>4. kids = {x \in selected : parent[x] = h}
    BY <1>3 DEF Children
  <1>5. order \in Seq(kids) /\ ToSet(order) = kids
    <2>1. kids \in SUBSET Hashes
      BY <1>3, <1>4
    <2>2. IsFiniteSet(kids)
      BY <2>1, HashesAreFinite
    <2> HIDE DEF kids
    <2> QED BY <2>2, SetToSeqsHoldAll
  <1>6. /\ h \in selected
        /\ queue' \in Seq(selected \cup kids)
        /\ ToSet(queue) \subseteq {h} \cup ToSet(queue')
        /\ kids \subseteq ToSet(queue')
    <2> HIDE DEF kids
    <2> QED BY <1>1, <1>2, <1>3, <1>5, QueueStep
  <1> HIDE DEF h, kids
  <1>7. queue' \in Seq(selected)
    <2>1. selected \cup kids = selected
      BY <1>4
    <2> QED BY <1>6, <2>1
  <1>8. h \in Hashes /\ parent[h] # h
    <2>1. h \in Hashes /\ h # 0
      BY <1>3, <1>6, HashesAreFinite
    <2>2. Climb(parent, h, 0 + 1) = parent[h]
      BY <2>1, ClimbZero, ClimbNext
    <2> QED BY <1>3, <2>1, <2>2, NoCycle
  <1>9. /\ \A x \in selected : frames'[x] =
              IF x \in kids /\ frames[x] > frames[h] THEN frames[h] ELSE frames[x]
        /\ \A x \in selected : /\ frames[x] \in Nat \ {0}
                               /\ frames'[x] \in Nat \ {0}
                               /\ frames'[x] <= frames[x]
        /\ frames'[h] = frames[h]
        /\ \A x \in kids : frames'[x] <= frames[h]
    <2>1. \A x \in selected : frames'[x] =
             IF x \in kids /\ frames[x] > frames[h] THEN frames[h] ELSE frames[x]
      BY <1>1, <1>3
    <2>2. \A x \in selected : frames[x] \in Nat \ {0}
      BY <1>3
    <2>3. frames[h] \in Nat \ {0} /\ h \notin kids /\ kids \subseteq selected
      BY <1>3, <1>4, <1>6, <1>8
    <2> QED BY <1>6, <2>1, <2>2, <2>3
  <1>10. frames' \in [selected -> Nat \ {0}]
    <2>1. frames' = [x \in selected |-> frames'[x]]
      BY <1>1, <1>3
    <2> QED BY <1>9, <2>1
  <1>11. \A x : Truth(x)' = Truth(x)
    BY <1>1 DEF Truth
  <1>12. Uncut' = Uncut
    BY <1>1 DEF Uncut, RowsIn
  <1>13. \A x \in selected : frames[x] <= Truth(x) /\ (Uncut => frames[x] = Truth(x))
                             /\ Truth(x) \in Nat
    BY <1>1, <1>3, TruthIsCount DEF GraphHolds
  <1>14. ASSUME NEW x \in selected
         PROVE  frames'[x] <= Truth(x) /\ (Uncut => frames'[x] = Truth(x))
    <2>1. frames'[x] <= Truth(x)
      BY <1>9, <1>13
    <2>2. ASSUME Uncut PROVE frames'[x] = Truth(x)
      <3>1. CASE x \in kids
        <4>1. parent[x] = h /\ x \in Hashes /\ h # 0
          BY <1>3, <1>4, <1>8, <3>1, HashesAreFinite
        <4>2. Truth(x) <= Truth(h)
          BY <4>1, ParentHasMore
        <4>3. frames[x] = Truth(x) /\ frames[h] = Truth(h)
          BY <1>6, <1>13, <2>2
        <4> QED BY <1>6, <1>9, <1>13, <4>2, <4>3
      <3>2. CASE x \notin kids
        BY <1>9, <1>13, <2>2, <3>2
      <3> QED BY <3>1, <3>2
    <2> QED BY <2>1, <2>2
  <1>15. ASSUME NEW x \in selected, parent[x] \in selected, frames'[x] > frames'[parent[x]]
         PROVE  Waits(parent, parent[x], selected, ToSet(queue'))
    <2> DEFINE p == parent[x]
    <2>1. p # h
      <3>1. p = h => x \in kids
        BY <1>4
      <3> QED BY <1>6, <1>9, <1>15, <3>1
    <2>2. x \notin kids
      BY <1>4, <2>1
    <2>3. CASE frames[x] > frames[p]
      <3>1. Waits(parent, p, selected, ToSet(queue))
        BY <1>1, <1>15, <2>3 DEF GraphHolds
      <3>2. {y \in selected : parent[y] = h} \subseteq ToSet(queue')
        BY <1>4, <1>6
      <3> HIDE DEF p
      <3>3. p \in selected
        BY <1>15 DEF p
      <3>4. Waits(parent, p, selected, ToSet(queue'))
        BY <1>3, <1>6, <2>1, <3>1, <3>2, <3>3, WalkKeepsWaiting
      <3> QED BY <3>4 DEF p
    <2>4. CASE ~(frames[x] > frames[p])
      <3>1. p \in kids
        BY <1>9, <1>15, <2>2, <2>4
      <3>2. p \in ToSet(queue') /\ 0 \in Levels /\ Climb(parent, p, 0) = p
        BY <1>6, <3>1, ClimbZero, HashesAreFinite DEF Levels
      <3>3. \A k \in 0..0 : Climb(parent, p, k) \in selected
        BY <1>15, <3>2
      <3> QED BY <3>2, <3>3 DEF Waits
    <2> QED BY <2>3, <2>4
  <1>16. TypeOK'
    <2>1. ToSet(queue') \subseteq selected
      BY <1>7 DEF ToSet
    <2>2. (DOMAIN frames)' = selected
      BY <1>10
    <2> QED BY <1>1, <1>3, <2>1, <2>2 DEF TypeOK
  <1>17. RowsNest'
    BY <1>1 DEF RowsNest, Kids
  <1>18. ReadsAddUp' /\ OrphansLieHigh'
    BY <1>1, <1>11, <1>12 DEF ReadsAddUp, OrphansLieHigh
  <1>19. GraphHolds'
    <2>1. /\ \A x \in selected' : frames'[x] <= Truth(x)' /\ (Uncut' => frames'[x] = Truth(x)')
          /\ \A x \in selected' : parent'[x] \in selected' /\ frames'[x] > frames'[parent'[x]] =>
                Waits(parent', parent'[x], selected', ToSet(queue'))
      BY <1>1, <1>11, <1>12, <1>14, <1>15
    <2>2. /\ roots' = {x \in selected' : parent'[x] \notin selected'}
          /\ \A x \in selected' : \/ parent'[x] \in selected' \cup {0}
                                  \/ Above(parent', x, MaxIters, selected')
      BY <1>1 DEF GraphHolds
    <2>3. frames' \in [selected' -> Nat \ {0}] /\ queue' \in Seq(selected')
          /\ stage' = "clamp"
      BY <1>1, <1>7, <1>10
    <2> QED BY <2>1, <2>2, <2>3 DEF GraphHolds, ToSet
  <1> QED BY <1>16, <1>17, <1>18, <1>19

LEMMA AnswerStep ==
    ASSUME IInv, Answer
    PROVE  IInv'
  <1>1. /\ stage = "clamp" /\ queue = <<>> /\ stage' = "done"
        /\ UNCHANGED <<parent, stored, unread, agg, selected, iter, frames, queue, roots>>
    BY DEF Answer, data, graphVars
  <1>2. TypeOK' /\ RowsNest'
    BY <1>1 DEF IInv, TypeOK, ToSet, RowsNest, Kids
  <1>3. (\A h : Truth(h)' = Truth(h)) /\ Uncut' = Uncut
    BY <1>1 DEF Truth, Uncut, RowsIn
  <1>4. ReadsAddUp' /\ OrphansLieHigh'
    BY <1>1, <1>3 DEF IInv, ReadsAddUp, OrphansLieHigh
  <1>5. ToSet(queue)' = ToSet(queue)
    BY <1>1
  <1>6. GraphHolds'
    BY <1>1, <1>3, <1>5 DEF IInv, GraphHolds
  <1> QED BY <1>2, <1>4, <1>6 DEF IInv

LEMMA StutterStep ==
    ASSUME IInv, UNCHANGED vars
    PROVE  IInv'
  <1>1. UNCHANGED <<parent, stored, stage, unread, agg, selected, iter, frames, queue, roots>>
    BY DEF vars
  <1>2. TypeOK' /\ RowsNest'
    BY <1>1 DEF IInv, TypeOK, ToSet, RowsNest, Kids
  <1>3. /\ (\A h : Truth(h)' = Truth(h) /\ ReadSoFar(h)' = ReadSoFar(h) /\ Got(h)' = Got(h))
        /\ Uncut' = Uncut /\ Expanded' = Expanded
    BY <1>1 DEF Truth, ReadSoFar, Got, Uncut, RowsIn, Expanded
  <1>4. ReadsAddUp' /\ OrphansLieHigh'
    BY <1>1, <1>3 DEF IInv, ReadsAddUp, OrphansLieHigh
  <1>5. ToSet(queue)' = ToSet(queue)
    BY <1>1
  <1>6. GraphHolds'
    BY <1>1, <1>3, <1>5 DEF IInv, GraphHolds
  <1> QED BY <1>2, <1>4, <1>6 DEF IInv

LEMMA NextIInv == IInv /\ [Next]_vars => IInv'
  <1> SUFFICES ASSUME IInv, [Next]_vars PROVE IInv'
    OBVIOUS
  <1>1. CASE \E c \in Chunks : ReadChunk(c)
    BY <1>1, ReadChunkStep
  <1>2. CASE Fail
    BY <1>2, FailStep
  <1>3. CASE Select
    BY <1>3, SelectStep
  <1>4. CASE ExpandAncestors
    BY <1>4, ExpandAncestorsStep
  <1>5. CASE BuildFrames
    BY <1>5, BuildFramesStep
  <1>6. CASE Clamp
    BY <1>6, ClampStep
  <1>7. CASE Answer
    BY <1>7, AnswerStep
  <1>8. CASE Finished
    BY <1>8, StutterStep DEF Finished
  <1>9. CASE UNCHANGED vars
    BY <1>9, StutterStep
  <1> QED BY <1>1, <1>2, <1>3, <1>4, <1>5, <1>6, <1>7, <1>8, <1>9 DEF Next
-----------------------------------------------------------------------------
(* The collapsed lines: taking its children's samples from each frame and  *)
(* adding up what is left gives the samples of the roots, as long as no    *)
(* difference is negative.                                                 *)
LEMMA LinesAddUp ==
    ASSUME RowsNest, DOMAIN frames \subseteq Hashes,
           roots = {h \in DOMAIN frames : parent[h] \notin DOMAIN frames},
           \A h \in DOMAIN frames : frames[h] = Truth(h)
    PROVE  LineTotal = Total
  <1> DEFINE D == DOMAIN frames
  <1> DEFINE child == [h \in D |-> ChildSum(h)]
  <1> DEFINE own == [h \in D |-> frames[h] - ChildSum(h)]
  <1>1. /\ IsFiniteSet(D) /\ D \in SUBSET Hashes
        /\ \A h \in D : frames[h] \in Nat /\ frames[h] = TruthOf[h]
    <2>1. IsFiniteSet(D) /\ D \in SUBSET Hashes
      BY HashesAreFinite
    <2>2. ASSUME NEW h \in D PROVE frames[h] \in Nat /\ frames[h] = TruthOf[h]
      BY <2>1, TruthIsCount
    <2> QED BY <2>1, <2>2
  <1>2. ASSUME NEW h \in D
        PROVE  /\ Children(h) \in SUBSET D
               /\ ChildSum(h) \in Int /\ ChildSum(h) <= frames[h]
    <2>1. /\ Children(h) \in SUBSET D /\ Children(h) \in SUBSET Kids(h)
          /\ h \in Hashes
      BY <1>1 DEF Children, Kids
    <2>2. IsFiniteSet(Children(h))
      BY <1>1, <2>1, FS_Subset
    <2>3. \A x \in Children(h) : frames[x] \in Int /\ frames[x] = TruthOf[x]
      BY <1>1, <2>1
    <2> DEFINE truth == TruthOf
    <2>4. \A x \in Children(h) : frames[x] \in Int /\ frames[x] = truth[x]
      BY <2>3
    <2> HIDE DEF truth
    <2>5. /\ SumOver(frames, Children(h)) = SumOver(truth, Children(h))
          /\ SumOver(frames, Children(h)) \in Int
      BY <2>2, <2>4, SumEqual, SumInt
    <2>6. SumOver(TruthOf, Children(h)) <= Truth(h)
      BY <2>1, TruthNests
    <2> QED BY <2>1, <2>5, <2>6 DEF ChildSum, truth
  <1>3. \A h \in D : /\ child[h] = ChildSum(h) /\ child[h] \in Int
                     /\ own[h] = frames[h] - ChildSum(h) /\ own[h] \in Int
                     /\ own[h] >= 0 /\ frames[h] = own[h] + child[h]
    <2> SUFFICES ASSUME NEW h \in D
                 PROVE  /\ child[h] = ChildSum(h) /\ child[h] \in Int
                        /\ own[h] = frames[h] - ChildSum(h) /\ own[h] \in Int
                        /\ own[h] >= 0 /\ frames[h] = own[h] + child[h]
      OBVIOUS
    <2>1. frames[h] \in Int /\ ChildSum(h) \in Int /\ ChildSum(h) <= frames[h]
      BY <1>1, <1>2
    <2> QED BY <2>1
  <1>4. /\ Lines \in SUBSET D /\ IsFiniteSet(Lines)
        /\ \A h \in D \ Lines : own[h] = 0
    <2>1. Lines = {h \in D : frames[h] > ChildSum(h)}
      BY DEF Lines
    <2>2. Lines \in SUBSET D /\ IsFiniteSet(Lines)
      BY <1>1, <2>1, FS_Subset
    <2>3. ASSUME NEW h \in D \ Lines PROVE own[h] = 0
      <3>1. ~(frames[h] > ChildSum(h)) /\ frames[h] \in Int /\ ChildSum(h) \in Int
        BY <1>1, <1>2, <2>1
      <3> HIDE DEF own
      <3> QED BY <1>3, <3>1
    <2> QED BY <2>2, <2>3
  <1>5. LineTotal = SumOver(own, Lines)
    <2> DEFINE line == [h \in Lines |-> frames[h] - ChildSum(h)]
    <2>1. \A h \in Lines : line[h] \in Int /\ line[h] = own[h]
      BY <1>3, <1>4
    <2>2. LineTotal = SumOver(line, Lines)
      BY DEF LineTotal
    <2> HIDE DEF line, own
    <2> QED BY <1>4, <2>1, <2>2, SumEqual
  <1> HIDE DEF own, child
  <1>6. SumOver(own, D) = SumOver(own, Lines)
    <2>1. \A h \in D : own[h] \in Int
      BY <1>3
    <2> QED BY <1>1, <1>4, <2>1, SumSupport
  <1>7. SumOver(frames, D) = SumOver(own, D) + SumOver(child, D)
    BY <1>1, <1>3, SumPlus
  <1>8. SumOver(child, D) = SumOver(frames, D \ roots)
    <2> DEFINE group == [h \in D |-> Children(h)]
    <2> DEFINE S == D \ roots
    <2>1. \A h \in D : group[h] = Children(h)
      OBVIOUS
    <2>2. \A x \in S : x \in D /\ parent[x] \in D
      OBVIOUS
    <2>3. \A h \in D : Children(h) = {x \in D : parent[x] = h}
      BY DEF Children
    <2>4. \A h \in D : group[h] \subseteq S
      BY <2>1, <2>3
    <2>5. \A x \in S : \E h \in D : x \in group[h]
      BY <2>1, <2>2, <2>3
    <2>6. \A h, k \in D : h # k => group[h] \cap group[k] = {}
      BY <2>1, <2>3
    <2>7. \A h \in D : child[h] = SumOver(frames, group[h])
      BY <1>3, <2>1 DEF ChildSum
    <2>8. IsFiniteSet(S) /\ \A x \in S : frames[x] \in Int
      BY <1>1, FS_Subset
    <2> HIDE DEF group, S
    <2>9. SumOver(child, D) = SumOver(frames, S)
      BY <1>1, <2>4, <2>5, <2>6, <2>7, <2>8, SumGroups
    <2> QED BY <2>9 DEF S
  <1>9. SumOver(frames, D) = SumOver(frames, roots) + SumOver(frames, D \ roots)
    <2>1. /\ roots \cup (D \ roots) = D /\ roots \cap (D \ roots) = {}
          /\ IsFiniteSet(roots) /\ IsFiniteSet(D \ roots)
      BY <1>1, FS_Subset
    <2>2. \A x \in roots \cup (D \ roots) : frames[x] \in Int
      BY <1>1, <2>1
    <2>3. SumOver(frames, roots \cup (D \ roots))
             = SumOver(frames, roots) + SumOver(frames, D \ roots)
      BY <2>1, <2>2, SumUnion
    <2> QED BY <2>1, <2>3
  <1>10. /\ SumOver(own, D) \in Int /\ SumOver(frames, D \ roots) \in Int
         /\ SumOver(frames, roots) \in Int
    <2>1. /\ IsFiniteSet(roots) /\ IsFiniteSet(D \ roots)
          /\ roots \subseteq D
      BY <1>1, FS_Subset
    <2>2. /\ \A x \in roots : frames[x] \in Int
          /\ \A x \in D \ roots : frames[x] \in Int
          /\ \A x \in D : own[x] \in Int
      BY <1>1, <1>3, <2>1
    <2> QED BY <1>1, <2>1, <2>2, SumInt
  <1>11. SumOver(own, D) = SumOver(frames, roots)
    <2> HIDE DEF D
    <2> QED BY <1>7, <1>8, <1>9, <1>10
  <1> QED BY <1>5, <1>6, <1>11 DEF Total

LEMMA InvariantHolds == Spec => []IInv
  <1>1. Init => IInv
    BY InitIInv
  <1>2. IInv /\ [Next]_vars => IInv'
    BY NextIInv
  <1> QED BY <1>1, <1>2, PTL DEF Spec

-----------------------------------------------------------------------------
(* The walk and the ancestor loop stay within the frames that were read.   *)
THEOREM QueryIsTyped == Spec => []TypeOK
  <1>1. IInv => TypeOK
    BY DEF IInv
  <1> QED BY <1>1, InvariantHolds, PTL

(* No frame of the answer has more samples than the tables hold of it,     *)
(* whatever the chunks' limits cut and whatever the ancestor loop fetched: *)
(* mergeFramePairs and fetchFramePairsByHashes never count a row twice.    *)
THEOREM AnswerNeverOvercounts == Spec => []NeverOvercounts
  <1>1. IInv => NeverOvercounts
    <2> SUFFICES ASSUME IInv, stage = "done", NEW h \in DOMAIN frames
                 PROVE  0 < frames[h] /\ frames[h] <= Truth(h)
      BY DEF NeverOvercounts
    <2> QED BY DEF IInv, GraphHolds
  <1> QED BY <1>1, InvariantHolds, PTL

(* PrepareFrames leaves no child wider than its parent, in whichever order *)
(* the map gives it the children.                                          *)
THEOREM AnswerNests == Spec => []ChildWithinParent
  <1>1. IInv => ChildWithinParent
    <2> SUFFICES ASSUME IInv, stage = "done", NEW h \in DOMAIN frames,
                        parent[h] \in DOMAIN frames
                 PROVE  frames[h] <= frames[parent[h]]
      BY DEF ChildWithinParent
    <2>1. /\ frames \in [selected -> Nat \ {0}] /\ ToSet(queue) = {}
          /\ frames[h] > frames[parent[h]] =>
                Waits(parent, parent[h], selected, ToSet(queue))
      BY DEF IInv, GraphHolds, ToSet
    <2>2. ~Waits(parent, parent[h], selected, {})
      BY DEF Waits
    <2>3. frames[h] \in Nat /\ frames[parent[h]] \in Nat
      BY <2>1
    <2> QED BY <2>1, <2>2, <2>3
  <1> QED BY <1>1, InvariantHolds, PTL

(* A frame comes without its parent only if all maxAncestorExpansionIters  *)
(* rounds were needed below it.                                            *)
THEOREM AncestorsAreComplete == Spec => []AncestorsComplete
  <1>1. IInv => AncestorsComplete
    <2> SUFFICES ASSUME IInv, stage = "done", NEW h \in DOMAIN frames
                 PROVE  \/ parent[h] \in DOMAIN frames \cup {0}
                        \/ \E x \in DOMAIN frames, n \in Levels :
                              n >= MaxIters /\ Climb(parent, x, n) = h
      BY DEF AncestorsComplete
    <2> QED BY DEF IInv, GraphHolds, Above
  <1> QED BY <1>1, InvariantHolds, PTL

(* If no limit cut a chunk's rows, the flamegraph is exact, and its        *)
(* collapsed lines add up to its total.                                    *)
THEOREM AnswerIsExact == Spec => []ExactWhenUncut
  <1>1. IInv => ExactWhenUncut
    <2> SUFFICES ASSUME IInv, stage = "done", Uncut
                 PROVE  /\ \A h \in DOMAIN frames : frames[h] = Truth(h)
                        /\ LineTotal = Total
      BY DEF ExactWhenUncut, Uncut
    <2>1. /\ DOMAIN frames = selected /\ DOMAIN frames \subseteq Hashes
          /\ \A h \in selected : frames[h] = Truth(h)
          /\ roots = {h \in selected : parent[h] \notin selected}
      BY DEF IInv, TypeOK, GraphHolds
    <2>2. RowsNest
      BY DEF IInv
    <2> QED BY <2>1, <2>2, LinesAddUp
  <1> QED BY <1>1, InvariantHolds, PTL

-----------------------------------------------------------------------------
(* CollapsedStream: a subtree's weights add up to its root, since what one *)
(* line leaves out its callees' lines have.                                *)
StreamTyped ==
    /\ Graph \subseteq Frames /\ samples \in [Graph -> Nat \ {0}]
    /\ visited \subseteq Graph

LinesOf(S) == {f \in S : Weight(f) > 0}

LEMMA SubtreeShape ==
    ASSUME StreamTyped, NEW f \in Graph
    PROVE  /\ f \in Subtree(f) /\ Subtree(f) \in SUBSET Graph
           /\ IsFiniteSet(Graph) /\ IsFiniteSet(Subtree(f))
           /\ \A g \in Subtree(f) : Callees(g) \subseteq Subtree(f) \ {f}
           /\ \A x \in Subtree(f) \ {f} : Parent[x] \in Subtree(f)
  <1>1. Subtree(f) \in SUBSET Graph
    BY DEF Subtree
  <1>2. IsFiniteSet(Graph)
    BY FramesAssumption, FS_Subset DEF StreamTyped
  <1>3. f \in Subtree(f)
    <2>1. {f} \in SUBSET Graph /\ {f, f} \subseteq {f}
      OBVIOUS
    <2> QED BY <2>1 DEF Subtree
  <1>4. ASSUME NEW g \in Subtree(f), NEW x \in Callees(g)
        PROVE  x \in Subtree(f) /\ x # f
    <2>1. PICK path \in SUBSET Graph :
             {f, g} \subseteq path /\ \A y \in path \ {f} : Parent[y] \in path
      BY DEF Subtree
    <2>2. x \in Graph /\ Parent[x] = g
      BY DEF Callees
    <2>3. x \in Subtree(f)
      <3> DEFINE longer == path \cup {x}
      <3>1. longer \in SUBSET Graph /\ {f, x} \subseteq longer
        BY <2>1, <2>2
      <3>2. \A y \in longer \ {f} : Parent[y] \in longer
        BY <2>1, <2>2
      <3> QED BY <2>2, <3>1, <3>2 DEF Subtree
    <2>4. x # f
      <3>1. PICK y \in path : Parent[y] \notin path
        BY <2>1, ForestAssumption DEF StreamTyped
      <3> QED BY <2>1, <2>2, <3>1
    <2> QED BY <2>3, <2>4
  <1>5. ASSUME NEW x \in Subtree(f) \ {f} PROVE Parent[x] \in Subtree(f)
    <2>1. PICK path \in SUBSET Graph :
             {f, x} \subseteq path /\ \A y \in path \ {f} : Parent[y] \in path
      BY DEF Subtree
    <2>2. Parent[x] \in path
      BY <2>1
    <2> QED BY <2>1, <2>2 DEF Subtree
  <1>6. IsFiniteSet(Subtree(f))
    BY <1>1, <1>2, FS_Subset
  <1> QED BY <1>1, <1>2, <1>3, <1>4, <1>5, <1>6

LEMMA SubtreeAddsUp ==
    ASSUME StreamTyped, NEW f \in Graph
    PROVE  /\ \A g \in Graph : Weight(g) \in Int
           /\ SumOver([g \in Graph |-> Weight(g)], Subtree(f)) = samples[f]
  <1> DEFINE D == Subtree(f)
             weight == [g \in Graph |-> Weight(g)]
             called == [g \in Graph |-> SumOver(samples, Callees(g))]
  <1>1. /\ f \in D /\ D \in SUBSET Graph /\ IsFiniteSet(Graph) /\ IsFiniteSet(D)
        /\ \A g \in D : Callees(g) \subseteq D \ {f}
        /\ \A x \in D \ {f} : Parent[x] \in D
    BY SubtreeShape
  <1>2. \A g \in Graph : samples[g] \in Int
    BY DEF StreamTyped
  <1>3. ASSUME NEW g \in Graph
        PROVE  /\ called[g] = SumOver(samples, Callees(g)) /\ called[g] \in Int
               /\ weight[g] = Weight(g) /\ weight[g] \in Int
               /\ samples[g] = weight[g] + called[g]
    <2>1. Callees(g) \in SUBSET Graph
      BY DEF Callees
    <2>2. IsFiniteSet(Callees(g)) /\ \A x \in Callees(g) : samples[x] \in Int
      BY <1>1, <1>2, <2>1, FS_Subset
    <2>3. SumOver(samples, Callees(g)) \in Int
      BY <2>2, SumInt
    <2> QED BY <1>2, <2>3 DEF Weight
  <1> HIDE DEF D, weight, called
  <1>4. SumOver(samples, D) = SumOver(weight, D) + SumOver(called, D)
    BY <1>1, <1>3, SumPlus
  <1>5. SumOver(called, D) = SumOver(samples, D \ {f})
    <2> DEFINE group == [g \in D |-> Callees(g)]
    <2>1. \A g \in D : /\ group[g] = {x \in Graph : Parent[x] = g}
                       /\ called[g] = SumOver(samples, group[g])
      BY <1>1, <1>3 DEF Callees
    <2>2. \A g \in D : group[g] \subseteq D \ {f}
      BY <1>1
    <2> HIDE DEF group
    <2>3. \A x \in D \ {f} : \E g \in D : x \in group[g]
      BY <1>1, <2>1
    <2>4. \A g, h \in D : g # h => group[g] \cap group[h] = {}
      BY <2>1
    <2>5. IsFiniteSet(D \ {f}) /\ \A x \in D \ {f} : samples[x] \in Int
      BY <1>1, <1>2, FS_Subset
    <2> QED BY <1>1, <2>1, <2>2, <2>3, <2>4, <2>5, SumGroups
  <1>6. SumOver(samples, D) = samples[f] + SumOver(samples, D \ {f})
    <2>1. IsFiniteSet(D \ {f}) /\ f \notin D \ {f} /\ (D \ {f}) \cup {f} = D
      BY <1>1, FS_Subset
    <2>2. \A x \in (D \ {f}) \cup {f} : samples[x] \in Int
      BY <1>1, <1>2
    <2>3. SumOver(samples, (D \ {f}) \cup {f}) = samples[f] + SumOver(samples, D \ {f})
      BY <2>1, <2>2, SumAdd
    <2> QED BY <2>1, <2>3
  <1>7. /\ SumOver(weight, D) \in Int /\ SumOver(samples, D \ {f}) \in Int
        /\ samples[f] \in Int
    <2>1. \A g \in D : weight[g] \in Int
      BY <1>1, <1>3
    <2>2. IsFiniteSet(D \ {f}) /\ \A x \in D \ {f} : samples[x] \in Int
      BY <1>1, <1>2, FS_Subset
    <2> QED BY <1>1, <1>2, <2>1, <2>2, SumInt
  <1>8. SumOver(weight, D) = samples[f]
    <2> DEFINE rest == SumOver(samples, D \ {f})
               all == SumOver(weight, D)
               top == samples[f]
    <2>1. all + rest = top + rest
      BY <1>4, <1>5, <1>6
    <2>2. all \in Int /\ rest \in Int /\ top \in Int
      BY <1>7
    <2> HIDE DEF rest, all, top
    <2>3. all = top
      BY <2>1, <2>2
    <2> QED BY <2>3 DEF all, top
  <1>9. \A g \in Graph : Weight(g) \in Int
    BY <1>3
  <1> QED BY <1>8, <1>9 DEF D, weight

(* What is left when the lines that would not be positive are dropped.     *)
LEMMA LinesCover ==
    ASSUME StreamTyped, NEW f \in Graph
    PROVE  LET lines == SumOver([g \in Graph |-> Weight(g)], LinesOf(Graph) \cap Subtree(f))
           IN /\ samples[f] <= lines
              /\ (\A g \in Subtree(f) : SumOver(samples, Callees(g)) <= samples[g]) =>
                    lines = samples[f]
              /\ LinesOf(Graph) \cap Subtree(f) # {}
  <1> DEFINE D == Subtree(f)
             weight == [g \in Graph |-> Weight(g)]
             L == LinesOf(Graph) \cap D
             kept == [g \in Graph |-> IF Weight(g) > 0 THEN Weight(g) ELSE 0]
  <1>1. D \in SUBSET Graph /\ IsFiniteSet(D)
    BY SubtreeShape
  <1>2. SumOver(weight, D) = samples[f] /\ \A g \in Graph : Weight(g) \in Int
    BY SubtreeAddsUp
  <1>3. L \in SUBSET D /\ IsFiniteSet(L)
    BY <1>1, FS_Subset
  <1>4. \A g \in D : /\ weight[g] \in Int /\ kept[g] \in Int /\ weight[g] <= kept[g]
                     /\ weight[g] = Weight(g)
                     /\ g \in L => kept[g] = weight[g]
                     /\ g \notin L => kept[g] = 0 /\ ~(Weight(g) > 0)
    BY <1>1, <1>2 DEF LinesOf
  <1>5. samples[f] \in Nat /\ samples[f] # 0
    BY DEF StreamTyped
  <1> HIDE DEF D, weight, L, kept
  <1>6. SumOver(weight, D) <= SumOver(kept, D)
    BY <1>1, <1>4, SumCompare
  <1>7. SumOver(kept, D) = SumOver(kept, L)
    BY <1>1, <1>3, <1>4, SumSupport
  <1>8. SumOver(kept, L) = SumOver(weight, L)
    BY <1>3, <1>4, SumEqual
  <1>9. samples[f] <= SumOver(weight, L)
    BY <1>2, <1>6, <1>7, <1>8
  <1>10. ASSUME \A g \in D : SumOver(samples, Callees(g)) <= samples[g]
         PROVE  SumOver(weight, L) = samples[f]
    <2>1. \A g \in D \ L : weight[g] = 0
      <3> SUFFICES ASSUME NEW g \in D \ L PROVE weight[g] = 0
        OBVIOUS
      <3>1. SumOver(samples, Callees(g)) <= samples[g] /\ samples[g] \in Int
        BY <1>1, <1>10 DEF StreamTyped
      <3>2. SumOver(samples, Callees(g)) \in Int
        <4>1. Callees(g) \in SUBSET Graph /\ IsFiniteSet(Graph)
          BY SubtreeShape DEF Callees
        <4>2. IsFiniteSet(Callees(g)) /\ \A x \in Callees(g) : samples[x] \in Int
          BY <4>1, FS_Subset DEF StreamTyped
        <4> QED BY <4>2, SumInt
      <3>3. Weight(g) >= 0
        BY <3>1, <3>2 DEF Weight
      <3> QED BY <1>4, <3>3
    <2> QED BY <1>1, <1>2, <1>3, <1>4, <2>1, SumSupport
  <1>11. L # {}
    <2>1. ~(samples[f] <= 0)
      BY <1>5
    <2> QED BY <1>9, <2>1, SumEmpty
  <1> QED BY <1>9, <1>10, <1>11 DEF D, weight, L

(* Where handler and goroutine stand to each other: while the client stays *)
(* every line produced is on the channel or taken, the handler leaves its  *)
(* loop when the channel is closed only, and the status goes with what was *)
(* taken.                                                                  *)
LinesInHand ==
    ~left =>
        /\ taken = LinesOf(visited) \ {sending}
        /\ pc \in {"drain", "script", "done"} => closed
        /\ pc \in {"check", "read", "drain"} => written = taken
        /\ pc \in {"check", "read", "collect", "script"} => status = 200
        /\ pc = "script" => taken # {}
        /\ pc \in {"drain", "done"} => (status = 204 <=> taken = {})
        /\ pc = "done" /\ status = 200 => written = taken

StreamInv ==
    /\ StreamTyped
    /\ sending \in {NoFrame} \cup LinesOf(visited)
    /\ closed => visited = Graph /\ sending = NoFrame
    /\ pc \in {"check", "read", "collect", "drain", "script", "done"}
    /\ LinesInHand

LEMMA StreamInvInit == StreamInit => StreamInv
  <1> SUFFICES ASSUME StreamInit PROVE StreamInv
    OBVIOUS
  <1>1. StreamTyped
    <2>1. PICK graph \in SUBSET Frames : samples \in [graph -> 1..MaxSamples]
      BY DEF StreamInit
    <2>2. 1..MaxSamples \subseteq Nat \ {0}
      BY MaxSamplesAssumption
    <2>3. DOMAIN samples = graph /\ samples \in [graph -> Nat \ {0}]
      BY <2>1, <2>2
    <2> QED BY <2>3 DEF StreamTyped, StreamInit, Graph
  <1>2. LinesOf(visited) = {}
    BY DEF StreamInit, LinesOf
  <1> QED BY <1>1, <1>2 DEF StreamInit, StreamInv, LinesInHand

LEMMA WalkKept == ASSUME StreamInv, Goroutine PROVE StreamInv'
  <1>1. CASE CloseOut
    <2>1. UNCHANGED <<samples, visited, sending, pc, taken, status, written, left>> /\ closed'
          /\ visited = Graph /\ sending = NoFrame
      BY <1>1 DEF CloseOut, givenVars, handlerVars
    <2>2. StreamTyped' /\ LinesOf(visited)' = LinesOf(visited) /\ Graph' = Graph
      BY <2>1 DEF StreamInv, StreamTyped, Graph, LinesOf, Weight, Callees
    <2> QED BY <2>1, <2>2 DEF StreamInv, LinesInHand
  <1>2. ASSUME NEW f \in Graph, Finish(f) PROVE StreamInv'
    <2>1. /\ UNCHANGED <<samples, closed, pc, taken, status, written, left>>
          /\ sending = NoFrame /\ f \notin visited /\ visited' = visited \cup {f}
          /\ sending' = IF Weight(f) > 0 THEN f ELSE NoFrame
      BY <1>2 DEF Finish, givenVars, handlerVars
    <2>2. Graph' = Graph /\ \A g : Weight(g)' = Weight(g)
      BY <2>1 DEF Graph, Weight, Callees
    <2>3. LinesOf(visited)' = LinesOf(visited) \cup (IF Weight(f) > 0 THEN {f} ELSE {})
      BY <2>1, <2>2 DEF LinesOf
    <2>4. StreamTyped'
      BY <2>1, <2>2 DEF StreamInv, StreamTyped
    <2>5. NoFrame \notin Graph /\ NoFrame \notin LinesOf(visited)
      BY FramesAssumption DEF StreamInv, StreamTyped, LinesOf
    <2>6. ~closed /\ f \notin LinesOf(visited)
      BY <2>1 DEF StreamInv, LinesOf
    <2>7. LinesOf(visited)' \ {sending'} = LinesOf(visited) \ {sending}
      BY <2>1, <2>3, <2>5, <2>6
    <2>8. sending' \in {NoFrame} \cup LinesOf(visited)'
      BY <2>1, <2>3
    <2>9. LinesInHand'
      BY <2>1, <2>7 DEF StreamInv, LinesInHand
    <2> QED BY <2>1, <2>4, <2>6, <2>8, <2>9 DEF StreamInv
  <1> QED BY <1>1, <1>2 DEF Goroutine

LEMMA HandlerKept == ASSUME StreamInv, Handler PROVE StreamInv'
  <1>1. UNCHANGED <<samples, visited, closed, left>> /\ Graph' = Graph
    BY DEF Handler, CheckClient, TakeLine, SeeClosed, RunScript, givenVars, walkVars, Graph
  <1>2. LinesOf(visited)' = LinesOf(visited) /\ StreamTyped'
    BY <1>1 DEF StreamInv, StreamTyped, LinesOf, Weight, Callees, Graph
  <1>3. CASE CheckClient
    BY <1>1, <1>2, <1>3 DEF StreamInv, LinesInHand, CheckClient, walkVars
  <1>4. CASE TakeLine
    <2>1. /\ pc \in {"read", "collect", "drain"} /\ sending # NoFrame /\ sending' = NoFrame
          /\ taken' = IF pc = "drain" THEN taken ELSE taken \cup {sending}
          /\ written' = IF pc = "read" /\ ~left THEN written \cup {sending} ELSE written
          /\ pc' = IF pc = "read" THEN "check" ELSE pc
          /\ status' = status
      BY <1>4 DEF TakeLine
    <2>2. sending \in LinesOf(visited) /\ ~closed /\ NoFrame \notin LinesOf(visited)
      BY <2>1, FramesAssumption DEF StreamInv, StreamTyped, LinesOf
    <2>3. LinesInHand'
      <3> SUFFICES ASSUME ~left PROVE LinesInHand'
        BY <1>1 DEF LinesInHand
      <3>1. /\ pc \in {"read", "collect"} /\ status = 200
            /\ taken = LinesOf(visited) \ {sending}
            /\ pc = "read" => written = taken
        BY <2>1, <2>2 DEF StreamInv, LinesInHand
      <3>2. written' = IF pc = "read" THEN written \cup {sending} ELSE written
        BY <2>1
      <3>3. taken' = taken \cup {sending}
        BY <2>1, <3>1
      <3>4. taken' = LinesOf(visited)' \ {sending'}
        BY <1>2, <2>1, <2>2, <3>1, <3>3
      <3>5. pc' \in {"check", "collect"}
        BY <2>1, <3>1
      <3>6. pc' = "check" => written' = taken'
        BY <2>1, <3>1, <3>2, <3>3
      <3>7. status' = 200
        BY <2>1, <3>1
      <3> QED BY <3>4, <3>5, <3>6, <3>7 DEF LinesInHand
    <2> QED BY <1>1, <1>2, <2>1, <2>2, <2>3 DEF StreamInv
  <1>5. CASE SeeClosed
    <2>1. /\ pc \in {"read", "collect", "drain"} /\ closed
          /\ status' = IF pc # "drain" /\ taken = {} THEN 204 ELSE status
          /\ pc' = IF pc = "read" THEN "drain"
                   ELSE IF pc = "collect" /\ taken # {} THEN "script" ELSE "done"
          /\ UNCHANGED <<sending, taken, written>>
      BY <1>5 DEF SeeClosed, walkVars
    <2>2. LinesInHand'
      BY <1>1, <1>2, <2>1 DEF StreamInv, LinesInHand
    <2>3. pc' \in {"drain", "script", "done"}
      BY <2>1
    <2> QED BY <1>1, <1>2, <2>1, <2>2, <2>3 DEF StreamInv
  <1>6. CASE RunScript
    <2>1. /\ pc = "script" /\ pc' = "done" /\ UNCHANGED <<sending, taken>>
          /\ \/ status' = status /\ written' = IF left THEN {} ELSE taken
             \/ status' = 500 /\ written' = written
      BY <1>6 DEF RunScript, walkVars
    <2>2. LinesInHand'
      BY <1>1, <1>2, <2>1 DEF StreamInv, LinesInHand
    <2> QED BY <1>1, <1>2, <2>1, <2>2 DEF StreamInv
  <1> QED BY <1>3, <1>4, <1>5, <1>6 DEF Handler

LEMMA ClientMoveKept ==
    ASSUME StreamInv, ClientLeaves \/ UNCHANGED streamVars
    PROVE  StreamInv'
  <1>1. /\ UNCHANGED <<samples, visited, sending, closed, pc, taken, status, written>>
        /\ left' \/ left' = left
    BY DEF ClientLeaves, streamVars, givenVars, walkVars, handlerVars
  <1>2. Graph' = Graph /\ LinesOf(visited)' = LinesOf(visited) /\ StreamTyped'
    BY <1>1 DEF StreamInv, StreamTyped, LinesOf, Weight, Callees, Graph
  <1> QED BY <1>1, <1>2 DEF StreamInv, LinesInHand

(* A client that stayed has the samples of the whole graph in its answer,  *)
(* frame by frame, wherever no frame is narrower than its children, and    *)
(* never fewer; it gets a 204 for an empty graph only (BuildCollapsedFile, *)
(* GetFlamegraph).                                                         *)
THEOREM StreamedAnswerAddsUp == StreamSpec => []AnswerAddsUp
  <1>1. StreamInv /\ [StreamNext]_streamVars => StreamInv'
    BY WalkKept, HandlerKept, ClientMoveKept DEF StreamNext
  <1>2. StreamInv => AnswerAddsUp
    <2> SUFFICES ASSUME StreamInv, pc = "done", ~left PROVE AnswerAddsUp
      BY DEF AnswerAddsUp
    <2>1. StreamTyped /\ taken = LinesOf(Graph)
      <3>1. NoFrame \notin LinesOf(visited)
        BY FramesAssumption DEF StreamInv, StreamTyped, LinesOf
      <3> QED BY <3>1 DEF StreamInv, LinesInHand
    <2>2. (status = 204 <=> taken = {}) /\ (status = 200 => written = taken)
      BY DEF StreamInv, LinesInHand
    <2>3. taken = {} <=> Graph = {}
      BY <2>1, LinesCover DEF LinesOf
    <2> QED BY <2>1, <2>2, <2>3, LinesCover DEF AnswerAddsUp
  <1> QED BY <1>1, <1>2, StreamInvInit, PTL DEF StreamSpec
=============================================================================
