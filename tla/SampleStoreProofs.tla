--------------------------- MODULE SampleStoreProofs ---------------------------
(***************************************************************************)
(* For every length of the hour and the day, every range, any number of    *)
(* inserts and whatever expires: a flamegraph query counts no sample twice *)
(* and, within the retention, misses none and finds its name.              *)
(*                                                                         *)
(* Two arguments meet.  BuildChunks: sorting keeps the chunks, joining two *)
(* of one table that touch changes which chunk reads a sample and never    *)
(* whether one does (JoinedReads), so what splitMulti cuts is still read   *)
(* once after mergeChunks (ChunksCover).  The tables: a row holds at most  *)
(* the samples sent for the times it stands for, less the one still on its *)
(* way (NothingTwice), and at least the completely inserted ones, until    *)
(* the horizon passes the row's own time (NothingLost).  Adding a chunk's  *)
(* rows adds the samples of the times it reads (StampsCount), and these    *)
(* are disjoint from what the other chunks read.                           *)
(***************************************************************************)
EXTENDS SampleStore, QueryTheorems, SequenceTheorems

-----------------------------------------------------------------------------
(* The chunks of a query: mergeChunks.                                     *)

(* FoldLeft's way through a sequence: its domain, the last place first. *)
Walks(it, seq, D) ==
    it = [s \in D |-> IF s = {} THEN <<>> ELSE MergeStep(it[s \ {Max(s)}], seq[Max(s)])]

LEMMA LatestPlace ==
    ASSUME NEW S, IsFiniteSet(S), S \subseteq Nat, S # {}
    PROVE  Max(S) \in S /\ \A i \in S : i <= Max(S)
  <1>1. S \subseteq Int
    OBVIOUS
  <1> QED BY <1>1, GreatestAndLeast

LEMMA WalkExists ==
    ASSUME NEW S, IsFiniteSet(S), S \subseteq Nat, NEW seq
    PROVE  \E it : Walks(it, seq, SUBSET S)
  <1> DEFINE U(k) == {s \in SUBSET S : Cardinality(s) <= k}
  <1> DEFINE P == {k \in Nat : \E it : Walks(it, seq, U(k))}
  <1>1. /\ Cardinality(S) \in Nat
        /\ \A s \in SUBSET S : /\ IsFiniteSet(s) /\ Cardinality(s) \in Nat
                               /\ Cardinality(s) <= Cardinality(S)
    BY FS_Subset, FS_CardinalityType
  <1>2. \A s \in SUBSET S : s # {} =>
           /\ s \ {Max(s)} \in SUBSET S
           /\ Cardinality(s \ {Max(s)}) = Cardinality(s) - 1
    BY <1>1, LatestPlace, FS_RemoveElement
  <1>3. 0 \in P
    <2> DEFINE g == [s \in U(0) |-> <<>>]
    <2>1. \A s \in U(0) : s = {}
      BY <1>1, FS_EmptySet
    <2>2. g = [s \in U(0) |-> IF s = {} THEN <<>> ELSE MergeStep(g[s \ {Max(s)}], seq[Max(s)])]
      BY <2>1
    <2>3. Walks(g, seq, U(0))
      BY <2>2 DEF Walks
    <2> QED BY <2>3
  <1>4. ASSUME NEW k \in Nat, k \in P
        PROVE  k + 1 \in P
    <2>1. PICK g : Walks(g, seq, U(k))
      BY <1>4
    <2> DEFINE h == [s \in U(k + 1) |->
                        IF s = {} THEN <<>> ELSE MergeStep(g[s \ {Max(s)}], seq[Max(s)])]
    <2>2. \A s \in U(k) : s \in U(k + 1) /\ h[s] = g[s]
      <3> SUFFICES ASSUME NEW s \in U(k)
                   PROVE  s \in U(k + 1) /\ h[s] = g[s]
        OBVIOUS
      <3>1. s \in U(k + 1)
        BY <1>1
      <3>2. g[s] = IF s = {} THEN <<>> ELSE MergeStep(g[s \ {Max(s)}], seq[Max(s)])
        BY <2>1 DEF Walks
      <3> QED BY <3>1, <3>2
    <2>3. \A s \in U(k + 1) : s # {} => s \ {Max(s)} \in U(k)
      BY <1>1, <1>2
    <2>4. \A s \in U(k + 1) :
             h[s] = IF s = {} THEN <<>> ELSE MergeStep(h[s \ {Max(s)}], seq[Max(s)])
      BY <2>2, <2>3
    <2>5. Walks(h, seq, U(k + 1))
      BY <2>4 DEF Walks
    <2>6. \E w : Walks(w, seq, U(k + 1))
      <3> HIDE DEF h, U
      <3> QED BY <2>5
    <2>7. k + 1 \in Nat
      OBVIOUS
    <2> HIDE DEF h, U
    <2> QED BY <2>6, <2>7, Zenon
  <1> HIDE DEF P
  <1>5. Cardinality(S) \in P
    BY <1>1, <1>3, <1>4, SetOfNaturals
  <1>6. U(Cardinality(S)) = SUBSET S
    BY <1>1
  <1> QED BY <1>5, <1>6 DEF P

(* FoldLeft merges the chunks one after another: a property of what has    *)
(* been merged up to each place, kept by every step, holds of the result.  *)
LEMMA MergeWalk ==
    ASSUME NEW n \in Nat, NEW seq, DOMAIN seq = 1..n,
           NEW Good,
           <<0, <<>>>> \in Good,
           \A k \in 0..n - 1 : \A m : <<k, m>> \in Good => <<k + 1, MergeStep(m, seq[k + 1])>> \in Good
    PROVE  <<n, FoldLeft(MergeStep, <<>>, seq)>> \in Good
  <1> DEFINE it == CHOOSE w : Walks(w, seq, SUBSET DOMAIN seq)
  <1>1. FoldLeft(MergeStep, <<>>, seq) = it[DOMAIN seq]
    BY Zenon DEF FoldLeft, MapThenFoldSet, Walks
  <1>0. IsFiniteSet(1..n) /\ 1..n \subseteq Nat
    BY FS_Interval
  <1>2. Walks(it, seq, SUBSET (1..n))
    BY <1>0, WalkExists
  <1> HIDE DEF it
  <1>3. \A s \in SUBSET (1..n) :
           it[s] = IF s = {} THEN <<>> ELSE MergeStep(it[s \ {Max(s)}], seq[Max(s)])
    BY <1>2 DEF Walks
  <1> DEFINE P == {k \in Nat : k <= n => <<k, it[1..k]>> \in Good}
  <1>4. 0 \in P
    <2>1. it[{}] = <<>>
      BY <1>3
    <2>2. 1..0 = {}
      OBVIOUS
    <2> QED BY <2>1, <2>2
  <1>5. ASSUME NEW k \in Nat, k \in P
        PROVE  k + 1 \in P
    <2> SUFFICES ASSUME k + 1 <= n
                 PROVE  <<k + 1, it[1..(k + 1)]>> \in Good
      OBVIOUS
    <2>1. /\ 1..(k + 1) \in SUBSET (1..n) /\ 1..(k + 1) # {}
          /\ 1..(k + 1) \subseteq Nat /\ IsFiniteSet(1..(k + 1))
      <3>1. IsFiniteSet(1..(k + 1))
        BY FS_Interval
      <3>2. \A i \in 1..(k + 1) : i \in 1..n /\ i \in Nat
        OBVIOUS
      <3>3. k + 1 \in 1..(k + 1)
        OBVIOUS
      <3> QED BY <3>1, <3>2, <3>3
    <2>2. Max(1..(k + 1)) = k + 1
      <3>1. /\ Max(1..(k + 1)) \in 1..(k + 1)
            /\ \A i \in 1..(k + 1) : i <= Max(1..(k + 1))
        BY <2>1, LatestPlace
      <3>2. k + 1 \in 1..(k + 1)
        OBVIOUS
      <3>3. k + 1 <= Max(1..(k + 1))
        BY <3>1, <3>2
      <3> QED BY <3>1, <3>3
    <2>3. (1..(k + 1)) \ {k + 1} = 1..k
      OBVIOUS
    <2>4. it[1..(k + 1)] = MergeStep(it[1..k], seq[k + 1])
      <3> DEFINE s == 1..(k + 1)
      <3>1. s \in SUBSET (1..n) /\ s # {} /\ Max(s) = k + 1 /\ s \ {k + 1} = 1..k
        BY <2>1, <2>2, <2>3
      <3> HIDE DEF s
      <3>2. it[s] = MergeStep(it[s \ {Max(s)}], seq[Max(s)])
        BY <1>3, <3>1
      <3>3. it[s] = MergeStep(it[1..k], seq[k + 1])
        BY <3>1, <3>2
      <3> QED BY <3>3 DEF s
    <2>5. k \in 0..n - 1 /\ <<k, it[1..k]>> \in Good
      BY <1>5
    <2> HIDE DEF P
    <2> QED BY <2>4, <2>5
  <1>6. Nat \subseteq P
    <2> HIDE DEF P
    <2> QED BY <1>4, <1>5, SetOfNaturals
  <1>7. <<n, it[1..n]>> \in Good
    BY <1>6
  <1> QED BY <1>1, <1>7

StoredChunks == [table : {"raw", "1hour", "1day"}, start : Nat, end : Nat]

(* The chunks U read every sample of start..end-1, each from one chunk, *)
(* and no other. *)
ReadsRange(U, start, end) ==
    /\ U \subseteq StoredChunks /\ IsFiniteSet(U)
    /\ \A c \in U : start <= c.start
    /\ \A t \in Nat : /\ (\E c \in U : Reads(c, t)) <=> (start <= t /\ t < end)
                      /\ \A c, d \in U : Reads(c, t) /\ Reads(d, t) => c = d

(* A chunk as splitMulti cuts it: it reads a sample taken as it begins. *)
WellCut(c) ==
    /\ c \in StoredChunks
    /\ c.start < c.end
    /\ Rollup(c.table, c.start) = c.start

(* sort.Slice arranges them: all of them, none before its predecessor. *)
LEMMA SortedChunks ==
    ASSUME NEW n \in Nat, NEW cs, DOMAIN cs = 1..n,
           \A i, j \in 1..n : cs[i].start = cs[j].start => i = j,
           \A i \in 1..n : cs[i] \in StoredChunks
    PROVE  /\ DOMAIN SortChunks(cs) = 1..n
           /\ ToSet(SortChunks(cs)) = ToSet(cs)
           /\ \A i, j \in 1..n : i < j =>
                 SortChunks(cs)[i].start < SortChunks(cs)[j].start
  <1> DEFINE S == ToSet(cs)
             s == SortChunks(cs)
             below(c) == {d \in S : ChunkBefore(d, c)}
             byIndex == [i \in 1..n |-> cs[i]]
             place == [c \in S |-> Place(cs, c)]
  <1>1. IsFiniteSet(1..n) /\ Cardinality(1..n) = n
    BY FS_Interval
  <1>2. S = {cs[i] : i \in 1..n}
    BY DEF ToSet
  <1>3. IsFiniteSet(S) /\ Cardinality(S) = n
    <2>1. byIndex \in Surjection(1..n, S)
      BY <1>2 DEF Surjection
    <2>2. byIndex \in Injection(1..n, S)
      BY <1>2 DEF Injection, IsInjective
    <2> HIDE DEF byIndex, S
    <2> QED BY <1>1, <2>1, <2>2, FS_Surjection
  <1>4. /\ \A c \in S : c.start \in Nat /\ c.end \in Nat
        /\ \A c, d \in S : c.start = d.start => c = d
    BY <1>2 DEF StoredChunks
  <1>5. \A c, d \in S : ChunkBefore(d, c) <=> d.start < c.start
    BY <1>4 DEF ChunkBefore
  <1>6. \A c \in S : /\ IsFiniteSet(below(c)) /\ Cardinality(below(c)) \in Nat
                     /\ Cardinality(below(c)) < n
    <2> SUFFICES ASSUME NEW c \in S
                 PROVE  /\ IsFiniteSet(below(c)) /\ Cardinality(below(c)) \in Nat
                        /\ Cardinality(below(c)) < n
      OBVIOUS
    <2>1. below(c) \in SUBSET S /\ c \notin below(c)
      BY <1>4, <1>5
    <2> HIDE DEF below, S
    <2>2. below(c) # S
      BY <2>1
    <2>3. /\ IsFiniteSet(below(c)) /\ Cardinality(below(c)) <= Cardinality(S)
          /\ Cardinality(below(c)) # Cardinality(S)
      BY <1>3, <2>1, <2>2, FS_Subset
    <2>4. Cardinality(below(c)) \in Nat
      BY <2>3, FS_CardinalityType
    <2> QED BY <1>3, <2>3, <2>4
  <1>7. \A c, d \in S : c.start < d.start => Cardinality(below(c)) < Cardinality(below(d))
    <2> SUFFICES ASSUME NEW c \in S, NEW d \in S, c.start < d.start
                 PROVE  Cardinality(below(c)) < Cardinality(below(d))
      OBVIOUS
    <2>1. below(c) \in SUBSET below(d) /\ c \in below(d) /\ c \notin below(c)
      BY <1>4, <1>5
    <2>2. /\ IsFiniteSet(below(d)) /\ Cardinality(below(d)) \in Nat
          /\ Cardinality(below(c)) \in Nat
      BY <1>6
    <2> HIDE DEF below, S
    <2>3. below(c) # below(d)
      BY <2>1
    <2> QED BY <2>1, <2>2, <2>3, FS_Subset
  <1>8. \A c \in S : place[c] = Cardinality(below(c)) + 1 /\ place[c] \in 1..n
    <2>1. \A c \in S : place[c] = Cardinality(below(c)) + 1
      BY DEF Place
    <2> HIDE DEF place, below, S
    <2> QED BY <1>6, <2>1
  <1>9. \A c, d \in S : c.start < d.start => place[c] < place[d]
    <2> HIDE DEF place, below, S
    <2> QED BY <1>6, <1>7, <1>8
  <1>10. \A c, d \in S : place[c] = place[d] => c = d
    <2> HIDE DEF place, below, S
    <2> QED BY <1>4, <1>8, <1>9
  <1>11. place \in Surjection(S, 1..n)
    <2>1. place \in [S -> 1..n]
      BY <1>8
    <2>2. place \in Injection(S, 1..n)
      BY <1>10, <2>1 DEF Injection, IsInjective
    <2> HIDE DEF place, below, S
    <2> QED BY <1>1, <1>3, <2>2, FS_Injection
  <1>12. \A i \in 1..n : s[i] \in S /\ place[s[i]] = i
    <2> SUFFICES ASSUME NEW i \in 1..n
                 PROVE  s[i] \in S /\ place[s[i]] = i
      OBVIOUS
    <2>1. s[i] = CHOOSE c \in S : Place(cs, c) = i
      BY DEF SortChunks
    <2>2. \E c \in S : place[c] = i
      BY <1>11 DEF Surjection
    <2>3. \E c \in S : Place(cs, c) = i
      BY <2>2
    <2> HIDE DEF s, S, place
    <2>4. s[i] \in S /\ Place(cs, s[i]) = i
      BY <2>1, <2>3
    <2> QED BY <2>4 DEF place
  <1>13. DOMAIN s = 1..n
    BY DEF SortChunks
  <1>14. \A c \in S : place[c] \in 1..n /\ s[place[c]] = c
    <2> HIDE DEF place, below, S, s
    <2> QED BY <1>8, <1>10, <1>12
  <1>15. ToSet(s) = S
    <2>1. ToSet(s) = {s[i] : i \in 1..n}
      BY <1>13 DEF ToSet
    <2> HIDE DEF place, below, S, s
    <2> QED BY <1>12, <1>14, <2>1
  <1>16. \A i, j \in 1..n : i < j => s[i].start < s[j].start
    <2> HIDE DEF place, below, S, s
    <2> SUFFICES ASSUME NEW i \in 1..n, NEW j \in 1..n, i < j
                 PROVE  s[i].start < s[j].start
      OBVIOUS
    <2>1. /\ s[i] \in S /\ s[j] \in S /\ place[s[i]] = i /\ place[s[j]] = j
          /\ s[i].start \in Nat /\ s[j].start \in Nat
      BY <1>4, <1>12
    <2>2. s[j].start < s[i].start => j < i
      BY <1>9, <2>1
    <2>3. s[i].start = s[j].start => i = j
      BY <1>4, <2>1
    <2> QED BY <2>1, <2>2, <2>3
  <1> QED BY <1>13, <1>15, <1>16

(* Two chunks of one table that touch read what the one over both reads. *)
LEMMA JoinedReads ==
    ASSUME NEW c \in StoredChunks, NEW d \in StoredChunks, NEW t \in Nat,
           c.table = d.table, c.start <= d.start, d.start <= c.end
    PROVE  /\ [c EXCEPT !.end = Later(@, d.end)] \in StoredChunks
           /\ Reads([c EXCEPT !.end = Later(@, d.end)], t) <=> Reads(c, t) \/ Reads(d, t)
  <1> DEFINE j == [c EXCEPT !.end = Later(@, d.end)]
             r == Rollup(c.table, t)
  <1>1. /\ j.table = c.table /\ j.start = c.start /\ j.end = Later(c.end, d.end)
        /\ c.start \in Nat /\ c.end \in Nat /\ d.start \in Nat /\ d.end \in Nat
    BY DEF StoredChunks
  <1>2. j \in StoredChunks
    BY DEF StoredChunks, Later
  <1>3. r \in Nat
    BY HourAssumption, DayAssumption, StartBounds DEF Rollup
  <1>4. /\ Reads(j, t) <=> c.start <= r /\ r < Later(c.end, d.end)
        /\ Reads(c, t) <=> c.start <= r /\ r < c.end
        /\ Reads(d, t) <=> d.start <= r /\ r < d.end
    BY <1>1 DEF Reads
  <1> HIDE DEF j, r
  <1>5. Reads(j, t) <=> Reads(c, t) \/ Reads(d, t)
    BY <1>1, <1>3, <1>4 DEF Later
  <1> QED BY <1>2, <1>5 DEF j

(* What mergeChunks has made of the first k chunks of s. *)
Merged(s, k, m, start) ==
    /\ m \in Seq(StoredChunks)
    /\ IF k = 0 THEN m = <<>> ELSE m # <<>> /\ Last(m).start <= s[k].start
    /\ \A j \in DOMAIN m : start <= m[j].start
    /\ \A t \in Nat :
          /\ (\E i \in 1..k : Reads(s[i], t)) <=> (\E j \in DOMAIN m : Reads(m[j], t))
          /\ \A i, j \in DOMAIN m : Reads(m[i], t) /\ Reads(m[j], t) => i = j

LEMMA MergeStepKeeps ==
    ASSUME NEW n \in Nat, NEW k \in 0..n - 1, NEW start \in Nat,
           NEW s, NEW m, Merged(s, k, m, start),
           \A i \in 1..n : s[i] \in StoredChunks /\ start <= s[i].start,
           \A i, j \in 1..n : i < j => s[i].start < s[j].start,
           \A t \in Nat : \A i, j \in 1..n : Reads(s[i], t) /\ Reads(s[j], t) => i = j
    PROVE  Merged(s, k + 1, MergeStep(m, s[k + 1]), start)
  <1> DEFINE next == s[k + 1]
             l == Len(m)
             merged == MergeStep(m, next)
             joined == [m[l] EXCEPT !.end = Later(@, next.end)]
  <1>1. /\ k \in Nat /\ k + 1 \in 1..n /\ \A i \in 1..k : i \in 1..n
        /\ \A i \in 1..k + 1 : i \in 1..k \/ i = k + 1
        /\ \A i \in 1..k : i \in 1..k + 1
        /\ k + 1 \in 1..k + 1 /\ k + 1 > 0 /\ (k > 0 => k \in 1..n /\ k < k + 1)
        /\ \A i \in 1..k : i # k + 1
    OBVIOUS
  <1>2. m \in Seq(StoredChunks) /\ DOMAIN m = 1..l /\ l \in Nat
    BY DEF Merged
  <1>3. next \in StoredChunks /\ start <= next.start /\ next.start \in Nat
    BY <1>1 DEF StoredChunks
  <1>4. \A t \in Nat : Reads(next, t) => \A j \in 1..l : ~Reads(m[j], t)
    <2> SUFFICES ASSUME NEW t \in Nat, Reads(next, t), NEW j \in 1..l, Reads(m[j], t)
                 PROVE  FALSE
      OBVIOUS
    <2>1. \E i \in 1..k : Reads(s[i], t)
      BY <1>2 DEF Merged
    <2> QED BY <1>1, <2>1
  <1>5. \A t \in Nat : (\E i \in 1..k + 1 : Reads(s[i], t))
                          <=> Reads(next, t) \/ \E j \in 1..l : Reads(m[j], t)
    <2> SUFFICES ASSUME NEW t \in Nat
                 PROVE  (\E i \in 1..k + 1 : Reads(s[i], t))
                          <=> Reads(next, t) \/ \E j \in 1..l : Reads(m[j], t)
      OBVIOUS
    <2>1. (\E i \in 1..k : Reads(s[i], t)) <=> (\E j \in 1..l : Reads(m[j], t))
      BY <1>2 DEF Merged
    <2>2. (\E i \in 1..k + 1 : Reads(s[i], t)) <=> Reads(next, t) \/ \E i \in 1..k : Reads(s[i], t)
      BY <1>1
    <2> QED BY <2>1, <2>2
  <1>6. /\ \A j \in 1..l : m[j] \in StoredChunks /\ start <= m[j].start
        /\ \A t \in Nat : \A i, j \in 1..l : Reads(m[i], t) /\ Reads(m[j], t) => i = j
    <2>1. \A j \in 1..l : m[j] \in StoredChunks
      BY <1>2
    <2>2. \A j \in 1..l : start <= m[j].start
      BY <1>2 DEF Merged
    <2>3. \A t \in Nat : \A i, j \in 1..l : Reads(m[i], t) /\ Reads(m[j], t) => i = j
      BY <1>2 DEF Merged
    <2> QED BY <2>1, <2>2, <2>3
  <1>7. CASE m # <<>> /\ next.table = Last(m).table /\ next.start <= Last(m).end
    <2>1. l > 0 /\ l \in 1..l /\ m[l] \in StoredChunks /\ Last(m) = m[l] /\ start <= m[l].start
      BY <1>2, <1>6, <1>7 DEF Last
    <2>2. k > 0 /\ m[l].start <= s[k].start
      BY <1>1, <1>7, <2>1 DEF Merged
    <2>3. m[l].start <= next.start
      <3>1. s[k].start < next.start
        BY <1>1, <2>2
      <3>2. m[l].start \in Nat /\ s[k].start \in Nat
        BY <1>1, <2>1, <2>2 DEF StoredChunks
      <3> QED BY <1>3, <2>2, <3>1, <3>2
    <2>4. merged = [m EXCEPT ![l] = joined]
      BY <1>7 DEF MergeStep
    <2>5. /\ joined \in StoredChunks
          /\ \A t \in Nat : Reads(joined, t) <=> Reads(m[l], t) \/ Reads(next, t)
      BY <1>3, <1>7, <2>1, <2>3, JoinedReads
    <2>6. joined.start = m[l].start
      BY <2>1 DEF StoredChunks
    <2> HIDE DEF joined, next, merged
    <2>7. /\ merged \in Seq(StoredChunks) /\ DOMAIN merged = 1..l /\ Len(merged) = l
          /\ merged[l] = joined /\ \A j \in 1..l : j # l => merged[j] = m[j]
      <3>1. merged \in Seq(StoredChunks) /\ Len(merged) = l
        BY <1>2, <2>1, <2>4, <2>5, ExceptSeq
      <3>2. merged[l] = joined /\ \A j \in 1..l : j # l => merged[j] = m[j]
        BY <1>2, <2>1, <2>4
      <3> QED BY <3>1, <3>2
    <2>8. merged # <<>> /\ Last(merged).start <= next.start
      <3>1. merged # <<>>
        <4>1. merged = <<>> => Len(merged) = 0
          OBVIOUS
        <4>2. Len(merged) = l /\ l > 0
          BY <2>1, <2>7
        <4> HIDE DEF l
        <4> QED BY <1>2, <4>1, <4>2
      <3>2. Last(merged) = joined
        BY <2>7 DEF Last
      <3> QED BY <2>3, <2>6, <3>1, <3>2
    <2>9. \A j \in DOMAIN merged : start <= merged[j].start
      BY <1>6, <2>1, <2>6, <2>7
    <2>10. \A t \in Nat : \A j \in 1..l : Reads(merged[j], t) <=>
              Reads(m[j], t) \/ (j = l /\ Reads(next, t))
      BY <2>5, <2>7
    <2>11. \A t \in Nat : (\E j \in 1..l : Reads(merged[j], t)) <=>
              Reads(next, t) \/ \E j \in 1..l : Reads(m[j], t)
      BY <2>1, <2>10
    <2>12. \A t \in Nat : \A i, j \in 1..l :
              Reads(merged[i], t) /\ Reads(merged[j], t) => i = j
      BY <1>4, <1>6, <2>10
    <2>13. k + 1 # 0
      BY <1>1
    <2> QED BY <1>5, <2>7, <2>8, <2>9, <2>11, <2>12, <2>13 DEF Merged, next, merged
  <1>8. CASE ~(m # <<>> /\ next.table = Last(m).table /\ next.start <= Last(m).end)
    <2>1. merged = Append(m, next)
      BY <1>8 DEF MergeStep
    <2> HIDE DEF joined, next, merged
    <2>2. /\ merged \in Seq(StoredChunks) /\ DOMAIN merged = 1..l + 1 /\ Len(merged) = l + 1
          /\ merged[l + 1] = next /\ \A j \in 1..l : merged[j] = m[j]
          /\ l + 1 \in 1..l + 1 /\ \A j \in 1..l : j \in 1..l + 1
          /\ \A j \in 1..l + 1 : j \in 1..l \/ j = l + 1
      BY <1>2, <1>3, <2>1
    <2>3. merged # <<>> /\ Last(merged).start <= next.start
      BY <1>3, <2>2 DEF Last
    <2>4. \A j \in DOMAIN merged : start <= merged[j].start
      BY <1>3, <1>6, <2>2
    <2>5. \A t \in Nat : (\E j \in 1..l + 1 : Reads(merged[j], t)) <=>
              Reads(next, t) \/ \E j \in 1..l : Reads(m[j], t)
      BY <2>2
    <2>6. \A t \in Nat : \A i, j \in 1..l + 1 :
              Reads(merged[i], t) /\ Reads(merged[j], t) => i = j
      BY <1>4, <1>6, <2>2
    <2>7. k + 1 # 0
      BY <1>1
    <2> QED BY <1>5, <2>2, <2>3, <2>4, <2>5, <2>6, <2>7 DEF Merged, next, merged
  <1> QED BY <1>7, <1>8

LEMMA SeqHasFinitelyMany ==
    ASSUME NEW S, NEW s \in Seq(S)
    PROVE  IsFiniteSet(ToSet(s))
  <1>1. /\ IsFiniteSet(1..Len(s)) /\ Len(s) \in Nat
        /\ s \in [1..Len(s) -> S] /\ DOMAIN s = 1..Len(s)
    BY LenProperties, FS_Interval
  <1>2. s \in Surjection(1..Len(s), ToSet(s))
    BY <1>1 DEF Surjection, ToSet
  <1> QED BY <1>1, <1>2, FS_Surjection

(* mergeChunks changes which chunk reads a sample, never whether one does. *)
LEMMA MergeKeepsReads ==
    ASSUME NEW n \in Nat, NEW cs, DOMAIN cs = 1..n, NEW start \in Nat, NEW end \in Nat,
           \A i \in 1..n : WellCut(cs[i]) /\ start <= cs[i].start,
           Partition(cs, start, end)
    PROVE  ReadsRange(ToSet(MergeChunks(cs)), start, end)
  <1> DEFINE s == SortChunks(cs)
             m == FoldLeft(MergeStep, <<>>, s)
  <1>1. \A t \in Nat : \A i, j \in 1..n : Reads(cs[i], t) /\ Reads(cs[j], t) => i = j
    BY DEF Partition, NotRead, ReadOnce
  <1>2. \A t \in Nat : (\E i \in 1..n : Reads(cs[i], t)) <=> start <= t /\ t < end
    BY DEF Partition, NotRead, ReadOnce
  <1>3. \A i \in 1..n : /\ cs[i] \in StoredChunks /\ cs[i].start \in Nat
                        /\ Reads(cs[i], cs[i].start)
    BY DEF WellCut, Reads, StoredChunks
  <1>4. \A i, j \in 1..n : cs[i].start = cs[j].start => i = j
    BY <1>1, <1>3
  <1>5. /\ DOMAIN s = 1..n /\ ToSet(s) = ToSet(cs)
        /\ \A i, j \in 1..n : i < j => s[i].start < s[j].start
    BY <1>3, <1>4, SortedChunks
  <1> HIDE DEF s
  <1>6. ToSet(cs) = {cs[i] : i \in 1..n} /\ ToSet(s) = {s[i] : i \in 1..n}
    BY <1>5 DEF ToSet
  <1>7. /\ \A i \in 1..n : \E j \in 1..n : s[i] = cs[j]
        /\ \A i \in 1..n : \E j \in 1..n : cs[i] = s[j]
    BY <1>5, <1>6
  <1>8. \A i \in 1..n : s[i] \in StoredChunks /\ start <= s[i].start /\ s[i].start \in Nat
    BY <1>3, <1>7
  <1>9. \A i, j \in 1..n : s[i] = s[j] => i = j
    BY <1>5, <1>8
  <1>10. \A t \in Nat : \A i, j \in 1..n : Reads(s[i], t) /\ Reads(s[j], t) => i = j
    <2>1. \A t \in Nat : \A c, d \in ToSet(cs) : Reads(c, t) /\ Reads(d, t) => c = d
      BY <1>1, <1>6
    <2>2. \A i \in 1..n : s[i] \in ToSet(cs)
      BY <1>5, <1>6
    <2> QED BY <1>9, <2>1, <2>2
  <1>11. \A t \in Nat : (\E i \in 1..n : Reads(s[i], t)) <=> start <= t /\ t < end
    BY <1>2, <1>7
  <1> DEFINE Good == {p \in (0..n) \X Seq(StoredChunks) : Merged(s, p[1], p[2], start)}
  <1>12. <<0, <<>>>> \in Good
    <2>1. Merged(s, 0, <<>>, start)
      BY DEF Merged
    <2>2. 0 \in 0..n /\ <<>> \in Seq(StoredChunks)
      OBVIOUS
    <2> QED BY <2>1, <2>2
  <1>13. \A k \in 0..n - 1 : \A w : <<k, w>> \in Good => <<k + 1, MergeStep(w, s[k + 1])>> \in Good
    <2> SUFFICES ASSUME NEW k \in 0..n - 1, NEW w, Merged(s, k, w, start)
                 PROVE  <<k + 1, MergeStep(w, s[k + 1])>> \in Good
      OBVIOUS
    <2>1. Merged(s, k + 1, MergeStep(w, s[k + 1]), start)
      BY <1>5, <1>8, <1>10, MergeStepKeeps
    <2>2. k + 1 \in 0..n
      OBVIOUS
    <2>3. MergeStep(w, s[k + 1]) \in Seq(StoredChunks)
      BY <2>1 DEF Merged
    <2> QED BY <2>1, <2>2, <2>3
  <1>14. <<n, m>> \in Good
    <2> HIDE DEF Good, m
    <2> QED BY <1>5, <1>12, <1>13, MergeWalk DEF m
  <1>15. Merged(s, n, m, start)
    BY <1>14
  <1> HIDE DEF m, Good
  <1>16. ToSet(m) = {m[j] : j \in DOMAIN m}
    BY DEF ToSet
  <1>17. /\ ToSet(m) \subseteq StoredChunks /\ IsFiniteSet(ToSet(m))
         /\ \A c \in ToSet(m) : start <= c.start
    <2>1. m \in Seq(StoredChunks) /\ DOMAIN m = 1..Len(m)
      BY <1>15 DEF Merged
    <2>2. \A j \in DOMAIN m : m[j] \in StoredChunks
      BY <2>1, ElementOfSeq
    <2>3. \A j \in DOMAIN m : start <= m[j].start
      BY <1>15 DEF Merged
    <2> QED BY <1>16, <2>1, <2>2, <2>3, SeqHasFinitelyMany
  <1>18. \A t \in Nat : /\ (\E c \in ToSet(m) : Reads(c, t)) <=> (start <= t /\ t < end)
                        /\ \A c, d \in ToSet(m) : Reads(c, t) /\ Reads(d, t) => c = d
    <2> SUFFICES ASSUME NEW t \in Nat
                 PROVE  /\ (\E c \in ToSet(m) : Reads(c, t)) <=> (start <= t /\ t < end)
                        /\ \A c, d \in ToSet(m) : Reads(c, t) /\ Reads(d, t) => c = d
      OBVIOUS
    <2>1. /\ (\E i \in 1..n : Reads(s[i], t)) <=> (\E j \in DOMAIN m : Reads(m[j], t))
          /\ \A i, j \in DOMAIN m : Reads(m[i], t) /\ Reads(m[j], t) => i = j
      BY <1>15 DEF Merged
    <2>2. (\E c \in ToSet(m) : Reads(c, t)) <=> (\E j \in DOMAIN m : Reads(m[j], t))
      BY <1>16
    <2>3. \A c, d \in ToSet(m) : Reads(c, t) /\ Reads(d, t) => c = d
      BY <1>16, <2>1
    <2> QED BY <1>11, <2>1, <2>2, <2>3
  <1>19. MergeChunks(cs) = m
    BY DEF MergeChunks, m, s
  <1> QED BY <1>17, <1>18, <1>19 DEF ReadsRange

(* Sequences of chunks that read a sample as they begin, from start on. *)
CutFrom(cs, start) ==
    /\ cs \in Seq(StoredChunks)
    /\ \A i \in 1..Len(cs) : WellCut(cs[i]) /\ start <= cs[i].start

LEMMA CutConcat ==
    ASSUME NEW start \in Nat, NEW cs, NEW ds, CutFrom(cs, start), CutFrom(ds, start)
    PROVE  CutFrom(cs \o ds, start)
  <1>1. cs \in Seq(StoredChunks) /\ ds \in Seq(StoredChunks)
    BY DEF CutFrom
  <1>2. /\ cs \o ds \in Seq(StoredChunks) /\ Len(cs \o ds) = Len(cs) + Len(ds)
        /\ \A i \in 1..Len(cs) + Len(ds) :
              (cs \o ds)[i] = IF i <= Len(cs) THEN cs[i] ELSE ds[i - Len(cs)]
        /\ Len(cs) \in Nat /\ Len(ds) \in Nat
    BY <1>1, ConcatProperties, LenProperties
  <1>3. ASSUME NEW i \in 1..Len(cs) + Len(ds)
        PROVE  WellCut((cs \o ds)[i]) /\ start <= (cs \o ds)[i].start
    <2>1. CASE i <= Len(cs)
      <3>1. i \in 1..Len(cs) /\ (cs \o ds)[i] = cs[i]
        BY <1>2, <2>1
      <3> QED BY <3>1 DEF CutFrom
    <2>2. CASE ~(i <= Len(cs))
      <3>1. i - Len(cs) \in 1..Len(ds) /\ (cs \o ds)[i] = ds[i - Len(cs)]
        BY <1>2, <2>2
      <3> QED BY <3>1 DEF CutFrom
    <2> QED BY <2>1, <2>2
  <1> QED BY <1>2, <1>3 DEF CutFrom

LEMMA CutLater ==
    ASSUME NEW a \in Nat, NEW b \in Nat, a <= b, NEW cs, CutFrom(cs, b)
    PROVE  CutFrom(cs, a)
  <1> SUFFICES ASSUME NEW i \in 1..Len(cs)
               PROVE  a <= cs[i].start
    BY DEF CutFrom
  <1>1. WellCut(cs[i]) /\ b <= cs[i].start
    BY DEF CutFrom
  <1>2. cs[i].start \in Nat
    BY <1>1 DEF WellCut, StoredChunks
  <1> QED BY <1>1, <1>2

LEMMA CutChunk ==
    ASSUME NEW table \in {"raw", "1hour", "1day"}, NEW start \in Nat, NEW end \in Nat,
           start <= end,
           table = "1hour" => IsAligned(Hour, start),
           table = "1day" => IsAligned(Day, start)
    PROVE  /\ CutFrom(Unless(start = end, Chunk(table, start, end)), start)
           /\ CutFrom(Unless(end = start, Chunk(table, start, end)), start)
           /\ start < end => CutFrom(<<Chunk(table, start, end)>>, start)
  <1> DEFINE c == Chunk(table, start, end)
  <1>1. c \in StoredChunks /\ c.start = start /\ c.end = end /\ c.table = table
    BY DEF Chunk, StoredChunks
  <1>2. Rollup(table, start) = start
    BY DEF Rollup, IsAligned
  <1> HIDE DEF c
  <1>3. start < end => CutFrom(<<c>>, start)
    <2> SUFFICES ASSUME start < end
                 PROVE  CutFrom(<<c>>, start)
      OBVIOUS
    <2>1. WellCut(c)
      BY <1>1, <1>2 DEF WellCut
    <2>2. <<c>> \in Seq(StoredChunks) /\ Len(<<c>>) = 1 /\ <<c>>[1] = c
      BY <1>1
    <2> QED BY <1>1, <2>1, <2>2 DEF CutFrom
  <1>4. CutFrom(<<>>, start)
    BY DEF CutFrom
  <1>5. /\ Unless(start = end, c) = IF start = end THEN <<>> ELSE <<c>>
        /\ Unless(end = start, c) = IF start = end THEN <<>> ELSE <<c>>
    BY DEF Unless
  <1>6. start # end => start < end
    OBVIOUS
  <1>7. CutFrom(Unless(start = end, c), start) /\ CutFrom(Unless(end = start, c), start)
    BY <1>3, <1>4, <1>5, <1>6
  <1> QED BY <1>3, <1>7 DEF c

LEMMA HoursCut ==
    ASSUME NEW start \in Nat, NEW end \in Nat, start < end,
           IsAligned(Hour, start), IsAligned(Hour, end)
    PROVE  CutFrom(SplitHours(start, end), start)
  <1> DEFINE first == IF IsAligned(Day, start) THEN start ELSE NextOf(Day, start)
             last  == StartOf(Day, end)
             head  == Unless(start = first, Chunk("1hour", start, first))
             days  == <<Chunk("1day", first, last)>>
             tail  == Unless(last = end, Chunk("1hour", last, end))
             whole == <<Chunk("1hour", start, end)>>
  <1>1. /\ first \in Nat /\ start <= first /\ IsAligned(Day, first)
        /\ last \in Nat /\ last <= end /\ IsAligned(Hour, last)
    <2>1. /\ NextOf(Day, start) \in Nat /\ start < NextOf(Day, start)
          /\ IsAligned(Day, NextOf(Day, start))
          /\ StartOf(Day, end) \in Nat /\ IsAligned(Day, StartOf(Day, end))
      BY DayAssumption, StartAligned
    <2>2. StartOf(Day, end) <= end
      BY DayAssumption, StartBounds
    <2> QED BY <2>1, <2>2, DayAlignedIsHourAligned
  <1>2. SplitHours(start, end) = IF first < last THEN head \o days \o tail ELSE whole
    BY DEF SplitHours
  <1>3. CutFrom(whole, start)
    BY CutChunk
  <1>4. CASE first < last
    <2>1. CutFrom(head, start)
      BY <1>1, CutChunk
    <2>2. CutFrom(days, first)
      BY <1>1, <1>4, CutChunk
    <2>3. CutFrom(tail, last)
      BY <1>1, CutChunk
    <2> HIDE DEF first, last, head, days, tail, whole
    <2>4. CutFrom(days, start) /\ CutFrom(tail, start)
      <3>1. start <= last
        BY <1>1, <1>4
      <3> QED BY <1>1, <2>2, <2>3, <3>1, CutLater
    <2>5. CutFrom((head \o days) \o tail, start)
      BY <2>1, <2>4, CutConcat
    <2> QED BY <1>2, <1>4, <2>5
  <1> HIDE DEF first, last, head, days, tail, whole
  <1> QED BY <1>2, <1>3, <1>4

LEMMA MultiCut ==
    ASSUME NEW start \in Nat, NEW end \in Nat, start < end
    PROVE  CutFrom(SplitMulti(start, end), start)
  <1> DEFINE leftEnd == IF IsAligned(Hour, start) THEN start
                        ELSE Earlier(end, NextOf(Hour, start))
             rightStart == IF leftEnd = end \/ IsAligned(Hour, end) THEN end
                           ELSE Later(leftEnd, StartOf(Hour, end))
             left == Unless(leftEnd = start, Chunk("raw", start, leftEnd))
             right == Unless(rightStart = end, Chunk("raw", rightStart, end))
             hours == IF leftEnd < rightStart THEN SplitHours(leftEnd, rightStart) ELSE <<>>
  <1>1. SplitMulti(start, end) = left \o right \o hours
    BY DEF SplitMulti
  <1>2. /\ NextOf(Hour, start) \in Nat /\ IsAligned(Hour, NextOf(Hour, start))
        /\ start < NextOf(Hour, start)
        /\ StartOf(Hour, end) \in Nat /\ IsAligned(Hour, StartOf(Hour, end))
        /\ StartOf(Hour, end) <= end
    BY HourAssumption, StartAligned, StartBounds
  <1>3. /\ leftEnd \in Nat /\ start <= leftEnd /\ leftEnd <= end
        /\ leftEnd = end \/ IsAligned(Hour, leftEnd)
    BY <1>2 DEF Earlier
  <1>4. /\ rightStart \in Nat /\ leftEnd <= rightStart /\ rightStart <= end
        /\ leftEnd < rightStart => IsAligned(Hour, leftEnd) /\ IsAligned(Hour, rightStart)
    BY <1>2, <1>3 DEF Later
  <1>5. CutFrom(left, start)
    <2> HIDE DEF leftEnd
    <2> QED BY <1>3, CutChunk
  <1>6. CutFrom(right, rightStart)
    <2> HIDE DEF leftEnd, rightStart
    <2> QED BY <1>4, CutChunk
  <1>7. CutFrom(hours, leftEnd)
    <2>1. CASE leftEnd < rightStart
      BY <1>3, <1>4, <2>1, HoursCut
    <2>2. CASE ~(leftEnd < rightStart)
      <3>1. hours = <<>>
        BY <2>2
      <3> HIDE DEF hours
      <3> QED BY <3>1 DEF CutFrom
    <2> QED BY <2>1, <2>2
  <1> HIDE DEF leftEnd, rightStart, left, right, hours
  <1>8. CutFrom(right, start) /\ CutFrom(hours, start)
    <2>1. start <= rightStart
      BY <1>3, <1>4
    <2> QED BY <1>3, <1>4, <1>6, <1>7, <2>1, CutLater
  <1>9. CutFrom((left \o right) \o hours, start)
    BY <1>5, <1>8, CutConcat
  <1> QED BY <1>1, <1>9

(* What BuildChunks promises at a resolution: which samples are read. *)
Covered(start, end, res, t) ==
    CASE res \in {"raw", "multi"} -> start <= t /\ t < end
      [] res = "hour" -> Reads(Chunk("1hour", start, end), t)
      [] res = "day"  -> Reads(Chunk("1day", start, end), t)

(* ... each of them from one chunk. *)
LEMMA ChunksCover ==
    ASSUME NEW start \in Nat, NEW end \in Nat, start < end, NEW res \in Resolutions
    PROVE  LET U == ToSet(BuildChunks(start, end, res))
           IN  /\ U \subseteq StoredChunks
               /\ IsFiniteSet(U)
               /\ \A c \in U : start <= c.start
               /\ \A t \in Nat : (\E c \in U : Reads(c, t)) <=> Covered(start, end, res, t)
               /\ \A t \in Nat : \A c, d \in U : Reads(c, t) /\ Reads(d, t) => c = d
  <1> DEFINE U == ToSet(BuildChunks(start, end, res))
             Once(c) == /\ U = {c} /\ c \in StoredChunks /\ c.start = start
                        /\ \A t \in Nat : Reads(c, t) <=> Covered(start, end, res, t)
  <1>1. ASSUME NEW c, Once(c)
        PROVE  /\ U \subseteq StoredChunks /\ IsFiniteSet(U)
               /\ \A d \in U : start <= d.start
               /\ \A t \in Nat : (\E d \in U : Reads(d, t)) <=> Covered(start, end, res, t)
               /\ \A t \in Nat : \A d, e \in U : Reads(d, t) /\ Reads(e, t) => d = e
    <2>1. /\ U = {c} /\ c \in StoredChunks /\ c.start = start
          /\ \A t \in Nat : Reads(c, t) <=> Covered(start, end, res, t)
      BY <1>1
    <2> HIDE DEF U, Once
    <2>2. U \subseteq StoredChunks /\ \A d \in U : start <= d.start
      BY <2>1
    <2>3. IsFiniteSet(U)
      BY <2>1, FS_Singleton
    <2>4. \A t \in Nat : (\E d \in U : Reads(d, t)) <=> Reads(c, t)
      BY <2>1
    <2>5. \A t \in Nat : \A d, e \in U : Reads(d, t) /\ Reads(e, t) => d = e
      BY <2>1
    <2> QED BY <2>1, <2>2, <2>3, <2>4, <2>5
  <1>2. ASSUME NEW c
        PROVE  ToSet(<<c>>) = {c}
    BY DEF ToSet
  <1>3. \A table \in {"raw", "1hour", "1day"} :
           /\ Chunk(table, start, end) \in StoredChunks
           /\ Chunk(table, start, end).start = start
    BY DEF Chunk, StoredChunks
  <1>4. CASE res = "raw"
    <2>1. U = {Chunk("raw", start, end)}
      BY <1>2, <1>4 DEF BuildChunks
    <2>2. \A t \in Nat : Reads(Chunk("raw", start, end), t) <=> Covered(start, end, res, t)
      BY <1>4 DEF Covered, Reads, Rollup, Chunk
    <2> QED BY <1>1, <1>3, <2>1, <2>2
  <1>5. CASE res = "hour"
    <2>1. U = {Chunk("1hour", start, end)}
      BY <1>2, <1>5 DEF BuildChunks
    <2>2. \A t \in Nat : Reads(Chunk("1hour", start, end), t) <=> Covered(start, end, res, t)
      BY <1>5 DEF Covered
    <2> QED BY <1>1, <1>3, <2>1, <2>2
  <1>6. CASE res = "day"
    <2>1. U = {Chunk("1day", start, end)}
      BY <1>2, <1>6 DEF BuildChunks
    <2>2. \A t \in Nat : Reads(Chunk("1day", start, end), t) <=> Covered(start, end, res, t)
      BY <1>6 DEF Covered
    <2> QED BY <1>1, <1>3, <2>1, <2>2
  <1>7. CASE res = "multi"
    <2> DEFINE cs == SplitMulti(start, end)
    <2>1. CutFrom(cs, start) /\ Partition(cs, start, end)
      BY MultiCut, MultiReadsEachSampleOnce
    <2> HIDE DEF cs
    <2>2. DOMAIN cs = 1..Len(cs) /\ Len(cs) \in Nat
      BY <2>1, LenProperties DEF CutFrom
    <2>3. \A i \in 1..Len(cs) : WellCut(cs[i]) /\ start <= cs[i].start
      BY <2>1 DEF CutFrom
    <2>4. ReadsRange(ToSet(MergeChunks(cs)), start, end)
      <3> DEFINE n == Len(cs)
      <3>1. n \in Nat /\ DOMAIN cs = 1..n /\ \A i \in 1..n : WellCut(cs[i]) /\ start <= cs[i].start
        BY <2>2, <2>3
      <3> HIDE DEF n
      <3> QED BY <2>1, <3>1, MergeKeepsReads
    <2>5. U = ToSet(MergeChunks(cs))
      BY <1>7 DEF BuildChunks, cs
    <2> HIDE DEF U
    <2>6. ReadsRange(U, start, end)
      BY <2>4, <2>5
    <2>7. \A t \in Nat : Covered(start, end, res, t) <=> start <= t /\ t < end
      BY <1>7 DEF Covered
    <2>8. ReadsRange(U, start, end) =>
             /\ U \subseteq StoredChunks /\ IsFiniteSet(U)
             /\ \A d \in U : start <= d.start
             /\ \A t \in Nat : (\E d \in U : Reads(d, t)) <=> (start <= t /\ t < end)
             /\ \A t \in Nat : \A d, e \in U : Reads(d, t) /\ Reads(e, t) => d = e
      BY DEF ReadsRange
    <2> QED BY <2>6, <2>7, <2>8 DEF U
  <1> QED BY <1>4, <1>5, <1>6, <1>7 DEF Resolutions

-----------------------------------------------------------------------------
(* The tables.  The times whose samples a table keeps under one stamp, and *)
(* the part of an insert under way that a stamp has still to receive, has  *)
(* received, or that no table counts as complete.                          *)
StampedBy(table, s) == {t \in Times : Rollup(table, t) = s}
Coming(table, s) == IF table \in insert.left /\ Rollup(table, insert.at) = s THEN 1 ELSE 0
Landed(table, s) ==
    IF insert.left # {} /\ table \notin insert.left /\ Rollup(table, insert.at) = s THEN 1 ELSE 0
UnderWay(t) == IF insert.left # {} /\ insert.at = t THEN 1 ELSE 0

Counts == [Times -> Nat]
Queries == [stage : {"reading", "done"}, start : Times, end : Times, res : Asked, named : BOOLEAN]

Typed ==
    /\ tables \in [Tables -> Counts]
    /\ horizon \in 0..MaxHorizon
    /\ insert \in [at : Times, left : SUBSET Tables]
    /\ insert.left = {} => insert = NoInsert
    /\ inserted \in Counts /\ started \in Counts /\ before \in Counts
    /\ query = None \/ query \in Queries
    /\ total \in Nat
    /\ unread \subseteq StoredChunks

(* No more inserts complete than begin. *)
InsertsCount ==
    /\ SumOver(started, Times) <= MaxInserts
    /\ \A t \in Times : inserted[t] + UnderWay(t) <= started[t]

(* A row holds at most what was sent for its times. *)
NothingTwice == \A table \in Tables, s \in Times :
    tables[table][s] + Coming(table, s) <= SumOver(started, StampedBy(table, s))

(* ... and at least what was completely inserted, until it may expire. *)
NothingLost == \A table \in Tables, s \in Times : horizon < s =>
    SumOver(inserted, StampedBy(table, s)) + Landed(table, s) <= tables[table][s]

(* The chunks of the query, and the times of the samples read so far. *)
Cut == ToSet(BuildChunks(query.start, query.end, query.res))
ReadTimes == {t \in Times : \E c \in Cut \ unread : Reads(c, t)}

(* A query under way has counted what was stored when it began, once. *)
QueryCounts ==
    /\ \A t \in Times : before[t] <= inserted[t]
    /\ query = None => unread = {} /\ total = 0
    /\ query # None =>
         /\ query.start < query.end
         /\ unread \subseteq Cut
         /\ query.stage = "done" => unread = {}
         /\ total <= SumOver(started, ReadTimes)
         /\ horizon < query.start => SumOver(before, ReadTimes) <= total

IInv == Typed /\ InsertsCount /\ NothingTwice /\ NothingLost /\ QueryCounts /\ FramesAreNamed

-----------------------------------------------------------------------------
LEMMA TimesAreFinite ==
    /\ IsFiniteSet(Times) /\ Times \subseteq Nat /\ 0 \in Times
    /\ \A a \in Times : \A b \in Nat : b <= a => b \in Times
    /\ \A S \in SUBSET Times : IsFiniteSet(S)
  <1>1. MaxTime \in Nat
    BY BoundsAssumption
  <1>2. IsFiniteSet(Times)
    BY <1>1, FS_Interval DEF Times
  <1>3. \A S \in SUBSET Times : IsFiniteSet(S)
    BY <1>2, FS_Subset
  <1>4. /\ Times \subseteq Nat /\ 0 \in Times
        /\ \A a \in Times : \A b \in Nat : b <= a => b \in Times
    BY <1>1 DEF Times
  <1> QED BY <1>2, <1>3, <1>4

LEMMA RollupIsEarlier ==
    ASSUME NEW table \in Tables, NEW t \in Times
    PROVE  Rollup(table, t) \in Times /\ Rollup(table, t) <= t
  <1>1. t \in Nat
    BY TimesAreFinite
  <1>2. /\ StartOf(Hour, t) \in Nat /\ StartOf(Hour, t) <= t
        /\ StartOf(Day, t) \in Nat /\ StartOf(Day, t) <= t
    BY <1>1, HourAssumption, DayAssumption, StartBounds
  <1>3. Rollup(table, t) \in Nat /\ Rollup(table, t) <= t
    BY <1>1, <1>2 DEF Rollup
  <1> QED BY <1>3, TimesAreFinite

LEMMA StampedTimes ==
    ASSUME NEW table, NEW s
    PROVE  /\ StampedBy(table, s) \subseteq Times /\ IsFiniteSet(StampedBy(table, s))
           /\ \A t \in Times : t \in StampedBy(table, s) <=> Rollup(table, t) = s
  BY TimesAreFinite DEF StampedBy

(* A count of samples over some times. *)
LEMMA CountOver ==
    ASSUME NEW f \in Counts, NEW S \in SUBSET Times
    PROVE  /\ SumOver(f, S) \in Nat
           /\ \A t \in S : f[t] <= SumOver(f, S)
           /\ SumOver(f, S) <= SumOver(f, Times)
  <1>1. IsFiniteSet(S) /\ IsFiniteSet(Times) /\ \A t \in Times : f[t] \in Nat
    BY TimesAreFinite DEF Counts
  <1> QED BY <1>1, SumNat, SumMember, SumSubset

LEMMA CountsGrow ==
    ASSUME NEW f \in Counts, NEW g \in Counts, NEW S \in SUBSET Times,
           \A t \in S : f[t] <= g[t]
    PROVE  SumOver(f, S) <= SumOver(g, S)
  <1>1. IsFiniteSet(S) /\ \A t \in S : f[t] \in Int /\ g[t] \in Int
    BY TimesAreFinite DEF Counts
  <1> QED BY <1>1, SumCompare

LEMMA Incremented ==
    ASSUME NEW f \in Counts, NEW x \in Times
    PROVE  LET g == [f EXCEPT ![x] = @ + 1]
           IN  /\ g \in Counts /\ g[x] = f[x] + 1
               /\ \A t \in Times : t # x => g[t] = f[t]
               /\ \A t \in Times : f[t] <= g[t]
  BY DEF Counts

LEMMA OneMore ==
    ASSUME NEW f \in Counts, NEW g \in Counts, NEW S \in SUBSET Times, NEW x \in Times,
           g[x] = f[x] + 1, \A t \in Times : t # x => g[t] = f[t]
    PROVE  SumOver(g, S) = SumOver(f, S) + IF x \in S THEN 1 ELSE 0
  <1>1. f[x] \in Nat /\ \A t \in Times : f[t] \in Int /\ g[t] \in Int
    BY DEF Counts
  <1>2. IsFiniteSet(S) /\ IsFiniteSet(S \ {x}) /\ SumOver(f, S) \in Int
    BY TimesAreFinite, FS_RemoveElement, CountOver
  <1>3. CASE x \notin S
    <2>0. \A t \in S : f[t] \in Int /\ f[t] = g[t]
      BY <1>1, <1>3
    <2>1. SumOver(f, S) = SumOver(g, S)
      BY <1>2, <2>0, SumEqual
    <2> QED BY <1>1, <1>2, <1>3, <2>1
  <1>4. CASE x \in S
    <2>0. /\ \A t \in S \ {x} : f[t] \in Int /\ f[t] = g[t]
          /\ \A t \in S : f[t] \in Int
          /\ \A t \in S : g[t] \in Int
      BY <1>1
    <2>1. SumOver(f, S \ {x}) = SumOver(g, S \ {x})
      BY <1>2, <2>0, SumEqual
    <2>2. SumOver(f, S) = f[x] + SumOver(f, S \ {x})
      BY <1>2, <1>4, <2>0, SumRemove
    <2>3. SumOver(g, S) = g[x] + SumOver(g, S \ {x})
      BY <1>2, <1>4, <2>0, SumRemove
    <2>4. SumOver(f, S \ {x}) \in Int
      BY <1>2, <2>0, SumInt
    <2> QED BY <1>1, <1>2, <1>4, <2>1, <2>2, <2>3, <2>4
  <1> QED BY <1>3, <1>4

(* What a table holds for the stamps a chunk reads, next to the samples    *)
(* those stamps are for.                                                   *)
LEMMA StampsCount ==
    ASSUME NEW chunk \in StoredChunks, NEW f \in Counts, NEW g \in Counts,
           NEW stamps, stamps = {t \in Times : chunk.start <= t /\ t < chunk.end},
           NEW read, read = {t \in Times : Reads(chunk, t)}
    PROVE  /\ (\A s \in stamps : g[s] <= SumOver(f, StampedBy(chunk.table, s)))
                 => SumOver(g, stamps) <= SumOver(f, read)
           /\ (\A s \in stamps : SumOver(f, StampedBy(chunk.table, s)) <= g[s])
                 => SumOver(f, read) <= SumOver(g, stamps)
  <1> DEFINE group == [s \in stamps |-> StampedBy(chunk.table, s)]
             h == [s \in stamps |-> SumOver(f, group[s])]
  <1>1. chunk.table \in Tables
    BY DEF StoredChunks, Tables
  <1>2. /\ IsFiniteSet(stamps) /\ IsFiniteSet(read)
        /\ stamps \subseteq Times /\ read \subseteq Times
    BY TimesAreFinite
  <1>3. \A t \in Times : t \in read <=> Rollup(chunk.table, t) \in stamps
    BY <1>1, RollupIsEarlier DEF Reads
  <1>4. \A s \in stamps : /\ group[s] = StampedBy(chunk.table, s)
                          /\ h[s] = SumOver(f, group[s])
    OBVIOUS
  <1> HIDE DEF group, h
  <1>5. \A s \in stamps : \A t \in Times : t \in group[s] <=> Rollup(chunk.table, t) = s
    BY <1>4, StampedTimes
  <1>6. \A s \in stamps : group[s] \subseteq Times
    BY <1>4, StampedTimes
  <1>7. \A s \in stamps : group[s] \subseteq read
    BY <1>3, <1>5, <1>6
  <1>8. \A t \in read : \E s \in stamps : t \in group[s]
    BY <1>2, <1>3, <1>5
  <1>9. \A s, u \in stamps : s # u => group[s] \cap group[u] = {}
    BY <1>5, <1>6
  <1>10. \A t \in read : f[t] \in Int
    BY <1>2 DEF Counts
  <1>11. SumOver(h, stamps) = SumOver(f, read)
    BY <1>2, <1>4, <1>7, <1>8, <1>9, <1>10, SumGroups
  <1>12. \A s \in stamps : h[s] \in Int /\ g[s] \in Int
    <2>1. \A s \in stamps : h[s] \in Nat
      BY <1>4, <1>6, CountOver
    <2> QED BY <1>2, <2>1 DEF Counts
  <1>13. ASSUME \A s \in stamps : g[s] <= SumOver(f, StampedBy(chunk.table, s))
         PROVE  SumOver(g, stamps) <= SumOver(f, read)
    <2>1. \A s \in stamps : g[s] \in Int /\ h[s] \in Int /\ g[s] <= h[s]
      BY <1>4, <1>12, <1>13
    <2> QED BY <1>2, <1>11, <2>1, SumCompare
  <1>14. ASSUME \A s \in stamps : SumOver(f, StampedBy(chunk.table, s)) <= g[s]
         PROVE  SumOver(f, read) <= SumOver(g, stamps)
    <2>1. \A s \in stamps : h[s] \in Int /\ g[s] \in Int /\ h[s] <= g[s]
      BY <1>4, <1>12, <1>14
    <2> QED BY <1>2, <1>11, <2>1, SumCompare
  <1> QED BY <1>13, <1>14

-----------------------------------------------------------------------------
(* The steps. *)
LEMMA TypedInit == ASSUME Init PROVE Typed
  <1>1. Zero \in Counts /\ 0 \in Times /\ 0 \in 0..MaxHorizon
    BY TimesAreFinite, BoundsAssumption DEF Counts, Zero
  <1> QED BY <1>1 DEF Init, Typed, NoInsert

LEMMA TypedKept == ASSUME Typed, [Next]_vars PROVE Typed'
  <1> USE DEF Typed
  <1>1. ASSUME NEW t \in Times, InsertBegins(t)
        PROVE  Typed'
    <2>1. started' \in Counts
      BY <1>1, Incremented DEF InsertBegins
    <2>2. insert' \in [at : Times, left : SUBSET Tables] /\ insert'.left # {}
      BY <1>1 DEF InsertBegins, Tables
    <2> QED BY <1>1, <2>1, <2>2 DEF InsertBegins, queryVars
  <1>2. ASSUME NEW table \in Tables, InsertReaches(table)
        PROVE  Typed'
    <2>1. tables' \in [Tables -> Counts]
      <3>1. tables[table] \in Counts /\ insert.at \in Times
        OBVIOUS
      <3>2. Rollup(table, insert.at) \in Times
        BY <3>1, RollupIsEarlier
      <3> DEFINE row == [tables[table] EXCEPT ![Rollup(table, insert.at)] = @ + 1]
      <3>3. row \in Counts
        BY <3>1, <3>2, Incremented
      <3>4. tables' = [tables EXCEPT ![table] = row]
        BY <1>2 DEF InsertReaches
      <3> HIDE DEF row
      <3> QED BY <3>3, <3>4
    <2>2. inserted' \in Counts
      <3>1. inserted' = inserted \/ inserted' = [inserted EXCEPT ![insert.at] = @ + 1]
        BY <1>2 DEF InsertReaches
      <3>2. insert.at \in Times
        OBVIOUS
      <3>3. [inserted EXCEPT ![insert.at] = @ + 1] \in Counts
        BY <3>2, Incremented
      <3> QED BY <3>1, <3>3
    <2>3. /\ insert' \in [at : Times, left : SUBSET Tables]
          /\ insert'.left = {} => insert' = NoInsert
      <3>1. CASE insert.left = {table}
        BY <1>2, <3>1, TimesAreFinite DEF InsertReaches, NoInsert
      <3>2. CASE insert.left # {table}
        <4>1. insert' = [insert EXCEPT !.left = @ \ {table}] /\ table \in insert.left
          BY <1>2, <3>2 DEF InsertReaches
        <4>2. insert.left \ {table} # {}
          BY <3>2, <4>1
        <4> QED BY <4>1, <4>2
      <3> QED BY <3>1, <3>2
    <2> QED BY <1>2, <2>1, <2>2, <2>3 DEF InsertReaches, queryVars
  <1>3. CASE InsertFails
    BY <1>3, TimesAreFinite DEF InsertFails, NoInsert, queryVars
  <1>4. CASE Advance
    <2>1. horizon' \in 0..MaxHorizon
      BY <1>4, BoundsAssumption DEF Advance
    <2> QED BY <1>4, <2>1 DEF Advance, queryVars
  <1>5. ASSUME NEW table \in Tables, NEW t \in Times, Expire(table, t)
        PROVE  Typed'
    <2>1. tables' \in [Tables -> Counts]
      BY <1>5 DEF Expire, Counts
    <2> QED BY <1>5, <2>1 DEF Expire, queryVars
  <1>6. ASSUME NEW start \in Times, NEW end \in Times, NEW res \in Asked,
               QueryBegins(start, end, res)
        PROVE  Typed'
    <2>1. query' \in Queries
      BY <1>6 DEF QueryBegins, Queries
    <2>2. unread' \subseteq StoredChunks
      <3>1. start \in Nat /\ end \in Nat /\ start < end /\ res \in Resolutions
        BY <1>6, TimesAreFinite, BoundsAssumption DEF QueryBegins
      <3>2. unread' = ToSet(BuildChunks(start, end, res))
        BY <1>6 DEF QueryBegins
      <3> QED BY <3>1, <3>2, ChunksCover
    <2> QED BY <1>6, <2>1, <2>2 DEF QueryBegins, storeVars
  <1>7. ASSUME NEW chunk \in unread, ReadChunk(chunk)
        PROVE  Typed'
    <2>1. total' \in Nat
      <3> DEFINE stamps == {t \in Times : chunk.start <= t /\ t < chunk.end}
      <3>1. total' = total + SumOver(tables[chunk.table], stamps)
        BY <1>7 DEF ReadChunk
      <3>2. tables[chunk.table] \in Counts /\ stamps \in SUBSET Times
        BY <1>7 DEF StoredChunks, Tables
      <3>3. SumOver(tables[chunk.table], stamps) \in Nat
        BY <3>2, CountOver
      <3> QED BY <3>1, <3>3
    <2> QED BY <1>7, <2>1 DEF ReadChunk, storeVars
  <1>8. Zero \in Counts
    BY DEF Zero, Counts
  <1>9. CASE ReadFails
    BY <1>8, <1>9 DEF ReadFails, storeVars
  <1>10. CASE ReadNames
    <2>1. query \in Queries
      BY <1>10 DEF ReadNames, None
    <2>2. query' \in Queries
      BY <1>10, <2>1 DEF ReadNames, Queries
    <2> QED BY <1>10, <2>2 DEF ReadNames, storeVars
  <1>11. CASE QueryEnds
    BY <1>8, <1>11 DEF QueryEnds, storeVars
  <1>12. CASE UNCHANGED vars
    BY <1>12 DEF vars
  <1> QED BY <1>1, <1>2, <1>3, <1>4, <1>5, <1>6, <1>7, <1>9, <1>10, <1>11, <1>12 DEF Next

(* One table receives the sample, and with the last one the insert is over. *)
LEMMA Reached ==
    ASSUME Typed, NEW table \in Tables, InsertReaches(table)
    PROVE  LET s == Rollup(table, insert.at)
           IN  /\ s \in Times /\ insert.at \in Times /\ table \in insert.left
               /\ tables'[table][s] = tables[table][s] + 1
               /\ \A u \in Tables, r \in Times : u # table \/ r # s =>
                     tables'[u][r] = tables[u][r]
               /\ UNCHANGED <<horizon, started, queryVars>>
               /\ insert.left = {table} =>
                     /\ insert'.left = {}
                     /\ inserted'[insert.at] = inserted[insert.at] + 1
                     /\ \A t \in Times : t # insert.at => inserted'[t] = inserted[t]
               /\ insert.left # {table} =>
                     /\ insert'.at = insert.at /\ insert'.left = insert.left \ {table}
                     /\ insert'.left # {} /\ inserted' = inserted
  <1> DEFINE s == Rollup(table, insert.at)
             row == [tables[table] EXCEPT ![s] = @ + 1]
  <1>1. insert.at \in Times /\ table \in insert.left /\ s \in Times
    BY RollupIsEarlier DEF Typed, InsertReaches
  <1>2. tables' = [tables EXCEPT ![table] = row]
    BY DEF InsertReaches
  <1>3. tables[table] \in Counts /\ tables \in [Tables -> Counts] /\ inserted \in Counts
    BY DEF Typed
  <1>4. row[s] = tables[table][s] + 1 /\ \A r \in Times : r # s => row[r] = tables[table][r]
    BY <1>1, <1>3, Incremented
  <1>5. /\ tables'[table][s] = tables[table][s] + 1
        /\ \A u \in Tables, r \in Times : u # table \/ r # s => tables'[u][r] = tables[u][r]
    <2> HIDE DEF row, s
    <2> QED BY <1>1, <1>2, <1>3, <1>4
  <1>6. UNCHANGED <<horizon, started, queryVars>>
    BY DEF InsertReaches
  <1>7. CASE insert.left = {table}
    <2>1. insert' = NoInsert /\ inserted' = [inserted EXCEPT ![insert.at] = @ + 1]
      BY <1>7 DEF InsertReaches
    <2>2. /\ inserted'[insert.at] = inserted[insert.at] + 1
          /\ \A t \in Times : t # insert.at => inserted'[t] = inserted[t]
      BY <1>1, <1>3, <2>1, Incremented
    <2> QED BY <1>1, <1>5, <1>6, <1>7, <2>1, <2>2 DEF NoInsert
  <1>8. CASE insert.left # {table}
    <2>1. insert' = [insert EXCEPT !.left = @ \ {table}] /\ inserted' = inserted
      BY <1>8 DEF InsertReaches
    <2>2. insert'.at = insert.at /\ insert'.left = insert.left \ {table}
      BY <2>1 DEF Typed
    <2>3. insert.left \ {table} # {}
      BY <1>1, <1>8
    <2> QED BY <1>1, <1>5, <1>6, <1>8, <2>1, <2>2, <2>3
  <1> QED BY <1>7, <1>8

(* What a table holds or is to receive at a stamp, as numbers. *)
LEMMA StampTypes ==
    ASSUME Typed, NEW table \in Tables, NEW s \in Times
    PROVE  /\ tables[table][s] \in Nat
           /\ Coming(table, s) \in {0, 1} /\ Landed(table, s) \in {0, 1}
           /\ SumOver(started, StampedBy(table, s)) \in Nat
           /\ SumOver(inserted, StampedBy(table, s)) \in Nat
  <1>1. tables[table][s] \in Nat
    BY DEF Typed, Counts
  <1>2. StampedBy(table, s) \in SUBSET Times
    BY StampedTimes
  <1>3. started \in Counts /\ inserted \in Counts
    BY DEF Typed
  <1> QED BY <1>1, <1>2, <1>3, CountOver DEF Coming, Landed

LEMMA InsertsCountKept == ASSUME Typed, Typed', InsertsCount, [Next]_vars PROVE InsertsCount'
  <1>1. \A t \in Times : started[t] \in Nat /\ inserted[t] \in Nat /\ UnderWay(t) \in {0, 1}
    BY DEF Typed, Counts, UnderWay
  <1>2. ASSUME NEW t \in Times, InsertBegins(t)
        PROVE  InsertsCount'
    <2>1. /\ insert.left = {} /\ insert' = [at |-> t, left |-> Tables] /\ inserted' = inserted
          /\ started' = [started EXCEPT ![t] = @ + 1] /\ SumOver(started, Times) < MaxInserts
      BY <1>2 DEF InsertBegins, NoInsert
    <2>2. started \in Counts /\ started' \in Counts
      BY DEF Typed
    <2>3. started'[t] = started[t] + 1 /\ \A u \in Times : u # t => started'[u] = started[u]
      BY <2>1, <2>2, Incremented
    <2>4. SumOver(started', Times) = SumOver(started, Times) + 1
      <3>1. SumOver(started', Times) = SumOver(started, Times) + IF t \in Times THEN 1 ELSE 0
        <4> DEFINE T == Times
        <4>1. T \in SUBSET Times
          OBVIOUS
        <4> HIDE DEF T
        <4>2. SumOver(started', T) = SumOver(started, T) + IF t \in T THEN 1 ELSE 0
          BY <2>2, <2>3, <4>1, OneMore
        <4> QED BY <4>2 DEF T
      <3> QED BY <3>1
    <2>5. SumOver(started', Times) <= MaxInserts
      <3>1. SumOver(started, Times) \in Nat
        BY <2>2, CountOver
      <3> QED BY <2>1, <2>4, <3>1, BoundsAssumption
    <2>6. \A u \in Times : UnderWay(u) = 0 /\ UnderWay(u)' = IF u = t THEN 1 ELSE 0
      BY <2>1 DEF UnderWay, Tables
    <2>7. \A u \in Times : inserted'[u] + UnderWay(u)' <= started'[u]
      BY <1>1, <2>1, <2>3, <2>6 DEF InsertsCount
    <2> QED BY <2>5, <2>7 DEF InsertsCount
  <1>3. ASSUME NEW table \in Tables, InsertReaches(table)
        PROVE  InsertsCount'
    <2>1. /\ insert.at \in Times /\ table \in insert.left /\ started' = started
          /\ insert.left = {table} =>
                /\ insert'.left = {}
                /\ inserted'[insert.at] = inserted[insert.at] + 1
                /\ \A t \in Times : t # insert.at => inserted'[t] = inserted[t]
          /\ insert.left # {table} =>
                /\ insert'.at = insert.at /\ insert'.left # {} /\ inserted' = inserted
      BY <1>3, Reached
    <2>2. \A u \in Times : UnderWay(u) = IF insert.at = u THEN 1 ELSE 0
      BY <2>1 DEF UnderWay
    <2>3. CASE insert.left = {table}
      <3>1. \A u \in Times : UnderWay(u)' = 0
        BY <2>1, <2>3 DEF UnderWay
      <3>2. \A u \in Times : inserted'[u] + UnderWay(u)' <= started'[u]
        BY <1>1, <2>1, <2>2, <2>3, <3>1 DEF InsertsCount
      <3> QED BY <2>1, <3>2 DEF InsertsCount
    <2>4. CASE insert.left # {table}
      <3>1. \A u \in Times : UnderWay(u)' = UnderWay(u)
        BY <2>1, <2>4 DEF UnderWay
      <3> QED BY <2>1, <2>4, <3>1 DEF InsertsCount
    <2> QED BY <2>3, <2>4
  <1>4. CASE InsertFails
    <2>1. started' = started /\ inserted' = inserted /\ \A u \in Times : UnderWay(u)' = 0
      BY <1>4 DEF InsertFails, UnderWay, NoInsert
    <2>2. \A u \in Times : inserted[u] + 0 <= started[u]
      BY <1>1 DEF InsertsCount
    <2> QED BY <2>1, <2>2 DEF InsertsCount
  <1>5. ASSUME UNCHANGED <<insert, inserted, started>>
        PROVE  InsertsCount'
    BY <1>5 DEF InsertsCount, UnderWay
  <1> QED BY <1>2, <1>3, <1>4, <1>5 DEF Next, Advance, Expire, QueryBegins, ReadChunk,
             ReadFails, ReadNames, QueryEnds, storeVars, vars

LEMMA NothingTwiceKept == ASSUME Typed, Typed', NothingTwice, [Next]_vars PROVE NothingTwice'
  <1> SUFFICES ASSUME NEW u \in Tables, NEW s \in Times
               PROVE  tables'[u][s] + Coming(u, s)' <= SumOver(started', StampedBy(u, s))
    BY DEF NothingTwice, StampedBy
  <1>1. /\ tables[u][s] \in Nat /\ Coming(u, s) \in {0, 1} /\ tables'[u][s] \in Nat
        /\ SumOver(started, StampedBy(u, s)) \in Nat
        /\ tables[u][s] + Coming(u, s) <= SumOver(started, StampedBy(u, s))
    <2>1. tables'[u][s] \in Nat
      BY DEF Typed, Counts
    <2> QED BY <2>1, StampTypes DEF NothingTwice
  <1>2. ASSUME NEW t \in Times, InsertBegins(t)
        PROVE  tables'[u][s] + Coming(u, s)' <= SumOver(started', StampedBy(u, s))
    <2>1. /\ insert.left = {} /\ insert' = [at |-> t, left |-> Tables] /\ tables' = tables
          /\ started' = [started EXCEPT ![t] = @ + 1]
      BY <1>2 DEF InsertBegins, NoInsert
    <2>2. started \in Counts /\ started' \in Counts
      BY DEF Typed
    <2>3. started'[t] = started[t] + 1 /\ \A v \in Times : v # t => started'[v] = started[v]
      BY <2>1, <2>2, Incremented
    <2> DEFINE S == StampedBy(u, s)
    <2>4. S \in SUBSET Times /\ (t \in S <=> Rollup(u, t) = s)
      BY StampedTimes
    <2> HIDE DEF S
    <2>5. SumOver(started', S) = SumOver(started, S) + IF t \in S THEN 1 ELSE 0
      BY <2>2, <2>3, <2>4, OneMore
    <2>6. Coming(u, s) = 0 /\ Coming(u, s)' = IF t \in S THEN 1 ELSE 0
      BY <2>1, <2>4 DEF Coming
    <2> QED BY <1>1, <2>1, <2>5, <2>6 DEF S
  <1>3. ASSUME NEW table \in Tables, InsertReaches(table)
        PROVE  tables'[u][s] + Coming(u, s)' <= SumOver(started', StampedBy(u, s))
    <2> DEFINE r == Rollup(table, insert.at)
    <2>1. /\ table \in insert.left /\ started' = started
          /\ tables'[table][r] = tables[table][r] + 1
          /\ u # table \/ s # r => tables'[u][s] = tables[u][s]
          /\ insert.left = {table} => insert'.left = {}
          /\ insert.left # {table} =>
                insert'.at = insert.at /\ insert'.left = insert.left \ {table}
      BY <1>3, Reached
    <2>2. CASE u = table /\ s = r
      <3>1. Coming(u, s) = 1 /\ Coming(u, s)' = 0
        BY <2>1, <2>2 DEF Coming
      <3> QED BY <1>1, <2>1, <2>2, <3>1
    <2>3. CASE u # table \/ s # r
      <3>1. Coming(u, s)' <= Coming(u, s) /\ Coming(u, s)' \in {0, 1}
        <4>1. u \in insert'.left => u \in insert.left /\ insert'.at = insert.at
          BY <2>1
        <4>2. Coming(u, s)' = 0 \/ Coming(u, s)' = Coming(u, s)
          BY <4>1 DEF Coming
        <4> QED BY <1>1, <4>2
      <3>2. tables'[u][s] = tables[u][s]
        BY <2>1, <2>3
      <3> QED BY <1>1, <2>1, <3>1, <3>2
    <2> QED BY <2>2, <2>3
  <1>4. CASE InsertFails
    <2>1. started' = started /\ tables' = tables /\ Coming(u, s)' = 0
      BY <1>4 DEF InsertFails, Coming, NoInsert
    <2> QED BY <1>1, <2>1
  <1>5. ASSUME NEW table \in Tables, NEW t \in Times, Expire(table, t)
        PROVE  tables'[u][s] + Coming(u, s)' <= SumOver(started', StampedBy(u, s))
    <2>1. started' = started /\ insert' = insert /\ tables' = [tables EXCEPT ![table][t] = 0]
      BY <1>5 DEF Expire
    <2>2. tables'[u][s] = tables[u][s] \/ tables'[u][s] = 0
      BY <2>1 DEF Typed, Counts
    <2>3. Coming(u, s)' = Coming(u, s)
      BY <2>1 DEF Coming
    <2> QED BY <1>1, <2>1, <2>2, <2>3
  <1>6. ASSUME UNCHANGED <<insert, tables, started>>
        PROVE  tables'[u][s] + Coming(u, s)' <= SumOver(started', StampedBy(u, s))
    <2>1. Coming(u, s)' = Coming(u, s)
      BY <1>6 DEF Coming
    <2> QED BY <1>1, <1>6, <2>1
  <1> QED BY <1>2, <1>3, <1>4, <1>5, <1>6 DEF Next, Advance, QueryBegins, ReadChunk,
             ReadFails, ReadNames, QueryEnds, storeVars, vars

LEMMA NothingLostKept == ASSUME Typed, Typed', NothingLost, [Next]_vars PROVE NothingLost'
  <1> SUFFICES ASSUME NEW u \in Tables, NEW s \in Times, horizon' < s
               PROVE  SumOver(inserted', StampedBy(u, s)) + Landed(u, s)' <= tables'[u][s]
    BY DEF NothingLost, StampedBy
  <1> DEFINE S == StampedBy(u, s)
  <1>0. horizon <= horizon' /\ horizon \in Nat /\ horizon' \in Nat /\ s \in Nat
    <2>1. horizon \in Nat /\ horizon' \in Nat /\ s \in Nat
      BY TimesAreFinite, BoundsAssumption DEF Typed
    <2>2. horizon' = horizon \/ horizon' = horizon + 1
      BY DEF Next, InsertBegins, InsertReaches, InsertFails, Advance, Expire, QueryBegins,
             ReadChunk, ReadFails, ReadNames, QueryEnds, storeVars, vars
    <2> QED BY <2>1, <2>2
  <1>1. /\ tables[u][s] \in Nat /\ Landed(u, s) \in {0, 1} /\ tables'[u][s] \in Nat
        /\ SumOver(inserted, S) \in Nat
        /\ SumOver(inserted, S) + Landed(u, s) <= tables[u][s]
    <2>1. tables'[u][s] \in Nat
      BY DEF Typed, Counts
    <2>2. horizon < s
      BY <1>0
    <2>3. SumOver(inserted, StampedBy(u, s)) + Landed(u, s) <= tables[u][s]
      BY <2>2 DEF NothingLost
    <2> QED BY <2>1, <2>3, StampTypes
  <1>2. S \in SUBSET Times /\ \A t \in Times : t \in S <=> Rollup(u, t) = s
    BY StampedTimes
  <1> HIDE DEF S
  <1>3. ASSUME NEW t \in Times, InsertBegins(t)
        PROVE  SumOver(inserted', S) + Landed(u, s)' <= tables'[u][s]
    <2>1. insert' = [at |-> t, left |-> Tables] /\ tables' = tables /\ inserted' = inserted
      BY <1>3 DEF InsertBegins
    <2>2. Landed(u, s)' = 0
      BY <2>1 DEF Landed
    <2> QED BY <1>1, <2>1, <2>2
  <1>4. ASSUME NEW table \in Tables, InsertReaches(table)
        PROVE  SumOver(inserted', S) + Landed(u, s)' <= tables'[u][s]
    <2> DEFINE r == Rollup(table, insert.at)
    <2>1. /\ r \in Times /\ insert.at \in Times /\ table \in insert.left
          /\ tables'[table][r] = tables[table][r] + 1
          /\ u # table \/ s # r => tables'[u][s] = tables[u][s]
          /\ insert.left = {table} =>
                /\ insert'.left = {}
                /\ inserted'[insert.at] = inserted[insert.at] + 1
                /\ \A t \in Times : t # insert.at => inserted'[t] = inserted[t]
          /\ insert.left # {table} =>
                /\ insert'.at = insert.at /\ insert'.left = insert.left \ {table}
                /\ insert'.left # {} /\ inserted' = inserted
      BY <1>4, Reached
    <2>2. CASE insert.left = {table}
      <3>1. Landed(u, s)' = 0
        BY <2>1, <2>2 DEF Landed
      <3>2. inserted \in Counts /\ inserted' \in Counts
        BY DEF Typed
      <3>3. SumOver(inserted', S) = SumOver(inserted, S) + IF insert.at \in S THEN 1 ELSE 0
        <4> DEFINE at == insert.at
        <4>1. /\ at \in Times /\ inserted'[at] = inserted[at] + 1
              /\ \A t \in Times : t # at => inserted'[t] = inserted[t]
          BY <2>1, <2>2
        <4> HIDE DEF at
        <4>2. SumOver(inserted', S) = SumOver(inserted, S) + IF at \in S THEN 1 ELSE 0
          BY <1>2, <3>2, <4>1, OneMore
        <4> QED BY <4>2 DEF at
      <3>4. CASE insert.at \notin S
        <4>1. u # table \/ s # r
          BY <1>2, <2>1, <3>4
        <4> QED BY <1>1, <2>1, <3>1, <3>3, <3>4, <4>1
      <3>5. CASE insert.at \in S /\ u = table
        <4>1. s = r
          BY <1>2, <2>1, <3>5
        <4> QED BY <1>1, <2>1, <3>1, <3>3, <3>5, <4>1
      <3>6. CASE insert.at \in S /\ u # table
        <4>1. Landed(u, s) = 1
          BY <1>2, <2>1, <2>2, <3>6 DEF Landed
        <4> QED BY <1>1, <2>1, <3>1, <3>3, <3>6, <4>1
      <3> QED BY <3>4, <3>5, <3>6
    <2>3. CASE insert.left # {table}
      <3>1. CASE u = table /\ s = r
        <4>1. Landed(u, s) = 0 /\ Landed(u, s)' \in {0, 1}
          BY <2>1, <3>1 DEF Landed
        <4> QED BY <1>1, <2>1, <2>3, <3>1, <4>1
      <3>2. CASE u # table \/ s # r
        <4>1. Landed(u, s)' = Landed(u, s)
          BY <2>1, <2>3, <3>2 DEF Landed
        <4> QED BY <1>1, <2>1, <2>3, <3>2, <4>1
      <3> QED BY <3>1, <3>2
    <2> QED BY <2>2, <2>3
  <1>5. ASSUME InsertFails
        PROVE  SumOver(inserted', S) + Landed(u, s)' <= tables'[u][s]
    <2>1. inserted' = inserted /\ tables' = tables /\ Landed(u, s)' = 0
      BY <1>5 DEF InsertFails, Landed, NoInsert
    <2> QED BY <1>1, <2>1
  <1>6. ASSUME NEW table \in Tables, NEW t \in Times, Expire(table, t)
        PROVE  SumOver(inserted', S) + Landed(u, s)' <= tables'[u][s]
    <2>1. /\ inserted' = inserted /\ insert' = insert /\ horizon' = horizon
          /\ tables' = [tables EXCEPT ![table][t] = 0] /\ t <= horizon
      BY <1>6 DEF Expire
    <2>2. s # t
      BY <1>0, <2>1
    <2>3. tables'[u][s] = tables[u][s]
      BY <2>1, <2>2 DEF Typed, Counts
    <2>4. Landed(u, s)' = Landed(u, s)
      BY <2>1 DEF Landed
    <2> QED BY <1>1, <2>1, <2>3, <2>4
  <1>7. ASSUME UNCHANGED <<insert, tables, inserted>>
        PROVE  SumOver(inserted', S) + Landed(u, s)' <= tables'[u][s]
    <2>1. Landed(u, s)' = Landed(u, s)
      BY <1>7 DEF Landed
    <2> QED BY <1>1, <1>7, <2>1
  <1>8. \/ \E t \in Times : InsertBegins(t)
        \/ \E table \in Tables : InsertReaches(table)
        \/ InsertFails
        \/ \E table \in Tables, t \in Times : Expire(table, t)
        \/ UNCHANGED <<insert, tables, inserted>>
    BY DEF Next, Advance, QueryBegins, ReadChunk, ReadFails, ReadNames, QueryEnds,
           storeVars, vars
  <1>9. SumOver(inserted', S) + Landed(u, s)' <= tables'[u][s]
    BY <1>3, <1>4, <1>5, <1>6, <1>7, <1>8
  <1> QED BY <1>9 DEF S

-----------------------------------------------------------------------------
(* What only grows: the horizon and the histories. *)
LEMMA HistoriesGrow ==
    ASSUME Typed, Typed', [Next]_vars
    PROVE  /\ horizon \in Nat /\ horizon' \in Nat /\ horizon <= horizon'
           /\ \A t \in Times : /\ inserted[t] <= inserted'[t] /\ started[t] <= started'[t]
                               /\ inserted[t] \in Nat /\ inserted'[t] \in Nat
                               /\ before[t] \in Nat
  <1>1. /\ horizon \in Nat /\ horizon' \in Nat
        /\ \A t \in Times : /\ inserted[t] \in Nat /\ started[t] \in Nat /\ before[t] \in Nat
                            /\ inserted'[t] \in Nat /\ started'[t] \in Nat
    BY BoundsAssumption DEF Typed, Counts
  <1>2. horizon' = horizon \/ horizon' = horizon + 1
    BY DEF Next, InsertBegins, InsertReaches, InsertFails, Advance, Expire, QueryBegins,
           ReadChunk, ReadFails, ReadNames, QueryEnds, storeVars, vars
  <1>3. \/ started' = started
        \/ \E t \in Times : started' = [started EXCEPT ![t] = @ + 1]
    BY DEF Next, InsertBegins, InsertReaches, InsertFails, Advance, Expire, QueryBegins,
           ReadChunk, ReadFails, ReadNames, QueryEnds, storeVars, vars
  <1>4. \/ inserted' = inserted
        \/ \E t \in Times : inserted' = [inserted EXCEPT ![t] = @ + 1]
    <2>1. insert.at \in Times
      BY DEF Typed
    <2> QED BY <2>1 DEF Next, InsertBegins, InsertReaches, InsertFails, Advance, Expire,
           QueryBegins, ReadChunk, ReadFails, ReadNames, QueryEnds, storeVars, vars
  <1>5. inserted \in Counts /\ started \in Counts
    BY DEF Typed
  <1>6. \A t \in Times : started[t] <= started'[t]
    BY <1>1, <1>3, <1>5, Incremented
  <1>7. \A t \in Times : inserted[t] <= inserted'[t]
    BY <1>1, <1>4, <1>5, Incremented
  <1> QED BY <1>1, <1>2, <1>6, <1>7

LEMMA QueryFacts ==
    ASSUME Typed, query # None
    PROVE  /\ query \in Queries /\ query.start \in Nat /\ query.end \in Nat
           /\ query.res \in Resolutions /\ ReadTimes \in SUBSET Times
  BY TimesAreFinite, BoundsAssumption DEF Typed, Queries, ReadTimes

(* A step that leaves the query alone keeps what it has counted right. *)
LEMMA QueryUndisturbed ==
    ASSUME Typed, Typed', QueryCounts, [Next]_vars, UNCHANGED queryVars
    PROVE  QueryCounts'
  <1>1. query' = query /\ unread' = unread /\ total' = total /\ before' = before
    BY DEF queryVars
  <1>2. Cut' = Cut /\ ReadTimes' = ReadTimes
    BY <1>1 DEF Cut, ReadTimes
  <1>3. \A t \in Times : before'[t] <= inserted'[t]
    BY <1>1, HistoriesGrow DEF QueryCounts
  <1>4. ASSUME query # None
        PROVE  /\ total <= SumOver(started', ReadTimes)
               /\ horizon' < query.start => SumOver(before, ReadTimes) <= total
    <2>1. ReadTimes \in SUBSET Times /\ query.start \in Nat
      BY <1>4, QueryFacts
    <2>2. started \in Counts /\ started' \in Counts /\ total \in Nat
      BY DEF Typed
    <2>3. SumOver(started, ReadTimes) <= SumOver(started', ReadTimes)
      <3> DEFINE R == ReadTimes
      <3>1. R \in SUBSET Times /\ \A t \in R : started[t] <= started'[t]
        BY <2>1, HistoriesGrow
      <3> HIDE DEF R
      <3>2. SumOver(started, R) <= SumOver(started', R)
        BY <2>2, <3>1, CountsGrow
      <3> QED BY <3>2 DEF R
    <2>4. SumOver(started, ReadTimes) \in Nat /\ SumOver(started', ReadTimes) \in Nat
      BY <2>1, <2>2, CountOver
    <2>5. horizon' < query.start => horizon < query.start
      BY <2>1, HistoriesGrow
    <2>6. total <= SumOver(started, ReadTimes)
      BY <1>4 DEF QueryCounts
    <2>7. horizon < query.start => SumOver(before, ReadTimes) <= total
      BY <1>4 DEF QueryCounts
    <2> QED BY <2>2, <2>3, <2>4, <2>5, <2>6, <2>7
  <1> QED BY <1>1, <1>2, <1>3, <1>4 DEF QueryCounts

LEMMA BeginCounts ==
    ASSUME Typed, Typed', QueryCounts, NEW start \in Times, NEW end \in Times, NEW res \in Asked,
           QueryBegins(start, end, res)
    PROVE  QueryCounts'
  <1>1. /\ query'.start = start /\ query'.end = end /\ query'.res = res /\ start < end
        /\ query'.stage = "reading" /\ unread' = ToSet(BuildChunks(start, end, res))
        /\ total' = 0 /\ before' = inserted /\ inserted' = inserted
    BY DEF QueryBegins, storeVars
  <1>2. Cut' = unread'
    BY <1>1 DEF Cut
  <1>3. ReadTimes' = {}
    BY <1>2 DEF ReadTimes
  <1>4. SumOver(started', {}) = 0 /\ SumOver(before', {}) = 0
    BY SumEmpty
  <1>5. \A t \in Times : inserted[t] \in Nat
    BY DEF Typed, Counts
  <1>6. query' # None
    BY <1>1 DEF None
  <1> QED BY <1>1, <1>2, <1>3, <1>4, <1>5, <1>6 DEF QueryCounts

LEMMA ReadCounts ==
    ASSUME Typed, Typed', QueryCounts, NothingTwice, NothingLost, NEW chunk \in unread,
           ReadChunk(chunk)
    PROVE  QueryCounts'
  <1> DEFINE stamps == {t \in Times : chunk.start <= t /\ t < chunk.end}
             read == {t \in Times : Reads(chunk, t)}
             R == ReadTimes
             row == tables[chunk.table]
  <1>1. /\ query.stage = "reading" /\ total' = total + SumOver(row, stamps)
        /\ unread' = unread \ {chunk} /\ query' = query /\ before' = before
        /\ UNCHANGED storeVars
    BY DEF ReadChunk
  <1>2. query # None /\ query' # None
    BY <1>1 DEF None
  <1>3. query \in Queries /\ query.start \in Nat /\ query.end \in Nat
        /\ query.res \in Resolutions /\ R \in SUBSET Times
    BY <1>2, QueryFacts
  <1>4. /\ unread \subseteq Cut /\ query.start < query.end
        /\ total <= SumOver(started, R)
        /\ horizon < query.start => SumOver(before, R) <= total
        /\ \A t \in Times : before[t] <= inserted[t]
    BY <1>2 DEF QueryCounts
  <1>5. /\ Cut \subseteq StoredChunks /\ \A c \in Cut : query.start <= c.start
        /\ \A t \in Nat : \A c, d \in Cut : Reads(c, t) /\ Reads(d, t) => c = d
    BY <1>3, <1>4, ChunksCover DEF Cut
  <1>6. chunk \in StoredChunks /\ chunk.table \in Tables /\ query.start <= chunk.start
        /\ chunk.start \in Nat /\ chunk.end \in Nat /\ chunk \in Cut
    BY <1>4, <1>5 DEF StoredChunks, Tables
  <1>7. Cut' = Cut
    BY <1>1 DEF Cut
  <1>8. ReadTimes' = R \cup read
    <2>1. ReadTimes' = {t \in Times : \E c \in Cut \ (unread \ {chunk}) : Reads(c, t)}
      BY <1>1, <1>7 DEF ReadTimes
    <2>2. \A t \in Times : (\E c \in Cut \ (unread \ {chunk}) : Reads(c, t))
                              <=> Reads(chunk, t) \/ \E c \in Cut \ unread : Reads(c, t)
      BY <1>6
    <2> QED BY <2>1, <2>2 DEF ReadTimes
  <1>9. R \cap read = {}
    <2> SUFFICES ASSUME NEW t \in Times, NEW c \in Cut \ unread, Reads(c, t), Reads(chunk, t)
                 PROVE  FALSE
      BY DEF ReadTimes
    <2>1. t \in Nat
      BY TimesAreFinite
    <2> QED BY <1>5, <1>6, <2>1
  <1>10. /\ read \in SUBSET Times /\ stamps \in SUBSET Times
         /\ IsFiniteSet(read) /\ IsFiniteSet(R)
    BY <1>3, TimesAreFinite
  <1>11. row \in Counts /\ started \in Counts /\ inserted \in Counts /\ before \in Counts
         /\ total \in Nat /\ horizon \in Nat
    BY <1>6, BoundsAssumption DEF Typed
  <1>12. SumOver(row, stamps) <= SumOver(started, read)
    <2>1. \A s \in stamps : row[s] <= SumOver(started, StampedBy(chunk.table, s))
      <3> SUFFICES ASSUME NEW s \in stamps
                   PROVE  row[s] <= SumOver(started, StampedBy(chunk.table, s))
        OBVIOUS
      <3>1. row[s] + Coming(chunk.table, s) <= SumOver(started, StampedBy(chunk.table, s))
        BY <1>6 DEF NothingTwice
      <3> QED BY <1>6, <3>1, StampTypes
    <2> HIDE DEF stamps, read, row
    <2>2. /\ stamps = {t \in Times : chunk.start <= t /\ t < chunk.end}
          /\ read = {t \in Times : Reads(chunk, t)}
      BY DEF stamps, read
    <2> QED BY <1>6, <1>11, <2>1, <2>2, StampsCount
  <1>13. ASSUME horizon < query.start
         PROVE  SumOver(before, read) <= SumOver(row, stamps)
    <2>1. \A s \in stamps : SumOver(inserted, StampedBy(chunk.table, s)) <= row[s]
      <3> SUFFICES ASSUME NEW s \in stamps
                   PROVE  SumOver(inserted, StampedBy(chunk.table, s)) <= row[s]
        OBVIOUS
      <3>1. horizon < s
        BY <1>3, <1>6, <1>11, <1>13, TimesAreFinite
      <3>2. SumOver(inserted, StampedBy(chunk.table, s)) + Landed(chunk.table, s) <= row[s]
        BY <1>6, <3>1 DEF NothingLost
      <3> QED BY <1>6, <3>2, StampTypes
    <2> HIDE DEF stamps, read, row
    <2>2. /\ stamps = {t \in Times : chunk.start <= t /\ t < chunk.end}
          /\ read = {t \in Times : Reads(chunk, t)}
      BY DEF stamps, read
    <2>3. SumOver(inserted, read) <= SumOver(row, stamps)
      BY <1>6, <1>11, <2>1, <2>2, StampsCount
    <2>4. SumOver(before, read) <= SumOver(inserted, read)
      BY <1>4, <1>10, <1>11, CountsGrow
    <2>5. /\ SumOver(before, read) \in Nat /\ SumOver(inserted, read) \in Nat
          /\ SumOver(row, stamps) \in Nat
      BY <1>10, <1>11, CountOver
    <2> QED BY <2>3, <2>4, <2>5
  <1> HIDE DEF stamps, read, row, R
  <1>14. \A f \in Counts : /\ SumOver(f, R \cup read) = SumOver(f, R) + SumOver(f, read)
                           /\ SumOver(f, R) \in Nat /\ SumOver(f, read) \in Nat
    <2> SUFFICES ASSUME NEW f \in Counts
                 PROVE  /\ SumOver(f, R \cup read) = SumOver(f, R) + SumOver(f, read)
                        /\ SumOver(f, R) \in Nat /\ SumOver(f, read) \in Nat
      OBVIOUS
    <2>1. \A t \in R \cup read : f[t] \in Int
      BY <1>3, <1>10 DEF Counts
    <2> QED BY <1>3, <1>9, <1>10, <2>1, SumUnion, CountOver
  <1>15. SumOver(row, stamps) \in Nat
    BY <1>10, <1>11, CountOver
  <1>16. started' = started /\ inserted' = inserted /\ horizon' = horizon
    BY <1>1 DEF storeVars
  <1>17. total' <= SumOver(started', ReadTimes')
    <2>1. SumOver(started', ReadTimes') = SumOver(started, R) + SumOver(started, read)
      BY <1>8, <1>11, <1>14, <1>16
    <2>2. SumOver(started, R) \in Nat /\ SumOver(started, read) \in Nat
      BY <1>11, <1>14
    <2> QED BY <1>1, <1>4, <1>11, <1>12, <1>15, <2>1, <2>2
  <1>18. horizon' < query'.start => SumOver(before', ReadTimes') <= total'
    <2>1. SumOver(before', ReadTimes') = SumOver(before, R) + SumOver(before, read)
      BY <1>1, <1>8, <1>11, <1>14
    <2>2. SumOver(before, R) \in Nat /\ SumOver(before, read) \in Nat
      BY <1>11, <1>14
    <2> SUFFICES ASSUME horizon < query.start
                 PROVE  SumOver(before', ReadTimes') <= total'
      BY <1>1, <1>16
    <2>3. SumOver(before, read) <= SumOver(row, stamps) /\ SumOver(before, R) <= total
      BY <1>4, <1>13
    <2> QED BY <1>1, <1>11, <1>15, <2>1, <2>2, <2>3
  <1>19. unread' \subseteq Cut' /\ query'.stage # "done"
    BY <1>1, <1>4, <1>7
  <1> QED BY <1>1, <1>2, <1>4, <1>16, <1>17, <1>18, <1>19 DEF QueryCounts

LEMMA QueryCountsKept ==
    ASSUME Typed, Typed', QueryCounts, NothingTwice, NothingLost, [Next]_vars
    PROVE  QueryCounts'
  <1>1. ASSUME query' = None, unread' = {}, total' = 0, before' = Zero
        PROVE  QueryCounts'
    <2>1. \A t \in Times : before'[t] <= inserted'[t]
      BY <1>1 DEF Zero, Typed, Counts
    <2> QED BY <1>1, <2>1 DEF QueryCounts
  <1>2. CASE ReadFails
    BY <1>1, <1>2 DEF ReadFails
  <1>3. CASE QueryEnds
    <2>1. query # None /\ query.stage = "done"
      BY <1>3 DEF QueryEnds, None
    <2>2. unread = {}
      BY <2>1 DEF QueryCounts
    <2> QED BY <1>1, <1>3, <2>2 DEF QueryEnds
  <1>4. CASE ReadNames
    <2>1. /\ query.stage = "reading" /\ unread = {} /\ UNCHANGED <<storeVars, unread, total, before>>
          /\ query # None
      BY <1>4 DEF ReadNames, None
    <2>2. query \in Queries
      BY <2>1 DEF Typed
    <2>3. /\ query'.start = query.start /\ query'.end = query.end /\ query'.res = query.res
          /\ query' # None
      <3>1. \E b : query' = [query EXCEPT !.stage = "done", !.named = b]
        BY <1>4 DEF ReadNames
      <3> QED BY <2>2, <3>1 DEF Queries, None
    <2>4. Cut' = Cut
      BY <2>3 DEF Cut
    <2>5. ReadTimes' = ReadTimes
      BY <2>1, <2>4 DEF ReadTimes
    <2> QED BY <2>1, <2>3, <2>4, <2>5 DEF QueryCounts, storeVars
  <1>5. \/ \E start, end \in Times, res \in Asked : QueryBegins(start, end, res)
        \/ \E chunk \in unread : ReadChunk(chunk)
        \/ ReadFails \/ ReadNames \/ QueryEnds
        \/ UNCHANGED queryVars
    BY DEF Next, InsertBegins, InsertReaches, InsertFails, Advance, Expire, queryVars, vars
  <1> QED BY <1>2, <1>3, <1>4, <1>5, BeginCounts, ReadCounts, QueryUndisturbed

-----------------------------------------------------------------------------
(* The start of the day of a rollup's hour is that of the sample's. *)
LEMMA DayOfRollup ==
    ASSUME NEW table \in {"raw", "1hour", "1day"}, NEW t \in Nat
    PROVE  StartOf(Day, Rollup(table, t)) = StartOf(Day, t) /\ Rollup(table, t) \in Nat
  <1>1. /\ StartOf(Hour, t) \in Nat /\ StartOf(Hour, t) <= t
        /\ StartOf(Day, t) \in Nat /\ StartOf(Day, t) <= t
        /\ IsAligned(Day, StartOf(Day, t)) /\ IsAligned(Hour, StartOf(Day, t))
    BY HourAssumption, DayAssumption, StartBounds, StartAligned, DayAlignedIsHourAligned
  <1>2. CASE table = "1hour"
    <2> DEFINE h == StartOf(Hour, t)
               d == StartOf(Day, t)
               e == StartOf(Day, h)
    <2>1. h \in Nat /\ h <= t /\ d \in Nat /\ d <= t /\ IsAligned(Day, d) /\ IsAligned(Hour, d)
      BY <1>1
    <2>2. d <= h
      <3>1. d <= StartOf(Hour, t) <=> d <= t
        BY <2>1, HourAssumption, AlignedBoundSeparates
      <3> QED BY <2>1, <3>1
    <2>3. e \in Nat /\ e <= h /\ IsAligned(Day, e)
      BY <2>1, DayAssumption, StartBounds, StartAligned
    <2> HIDE DEF h, e
    <2>4. e <= t
      BY <2>1, <2>3
    <2>5. d <= e
      <3> HIDE DEF d
      <3>1. d <= StartOf(Day, h) <=> d <= h
        BY <2>1, DayAssumption, AlignedBoundSeparates
      <3> QED BY <2>2, <3>1 DEF e
    <2>6. e <= d
      <3>1. e <= StartOf(Day, t) <=> e <= t
        BY <2>3, DayAssumption, AlignedBoundSeparates
      <3> QED BY <2>4, <3>1
    <2>7. e = d
      BY <2>1, <2>3, <2>5, <2>6
    <2> QED BY <1>2, <2>1, <2>7 DEF h, e, Rollup
  <1>3. CASE table = "1day"
    BY <1>1, <1>3 DEF Rollup, IsAligned
  <1>4. CASE table = "raw"
    BY <1>4 DEF Rollup
  <1> QED BY <1>2, <1>3, <1>4

(* Whatever table a sample is read from, the days asked for hold its name. *)
LEMMA NameIsAsked ==
    ASSUME NEW start \in Nat, NEW end \in Nat, start < end, NEW res \in Resolutions,
           NEW t \in Nat, Covered(start, end, res, t)
    PROVE  /\ StartOf(Day, start) <= Rollup("name", t)
           /\ FrameNamesDays(start, end).start <= Rollup("name", t)
           /\ Rollup("name", t) < FrameNamesDays(start, end).end
  <1>1. PICK u \in Nat : start <= u /\ u < end /\ StartOf(Day, u) = StartOf(Day, t)
    <2>1. CASE res \in {"raw", "multi"}
      BY <2>1 DEF Covered
    <2>2. CASE res = "hour"
      <3>1. start <= Rollup("1hour", t) /\ Rollup("1hour", t) < end
        BY <2>2 DEF Covered, Reads, Chunk
      <3> QED BY <3>1, DayOfRollup
    <2>3. CASE res = "day"
      <3>1. start <= Rollup("1day", t) /\ Rollup("1day", t) < end
        BY <2>3 DEF Covered, Reads, Chunk
      <3> QED BY <3>1, DayOfRollup
    <2> QED BY <2>1, <2>2, <2>3 DEF Resolutions
  <1>2. /\ FrameNamesDays(start, end).start <= Rollup("name", u)
        /\ Rollup("name", u) < FrameNamesDays(start, end).end
    BY <1>1, NamesCoverRange
  <1>3. Rollup("name", u) = StartOf(Day, t) /\ Rollup("name", t) = StartOf(Day, t)
    BY <1>1 DEF Rollup
  <1>4. FrameNamesDays(start, end).start = StartOf(Day, start)
    BY DEF FrameNamesDays
  <1> QED BY <1>2, <1>3, <1>4

LEMMA WholeRead ==
    ASSUME Typed, QueryCounts, query # None
    PROVE  /\ \A t \in Times : t \in WantedTimes <=> Covered(query.start, query.end, query.res, t)
           /\ WantedTimes \in SUBSET Times
           /\ unread = {} => ReadTimes = WantedTimes
  <1>1. \A t \in Times : t \in WantedTimes <=> Covered(query.start, query.end, query.res, t)
    BY DEF WantedTimes, Wanted, Covered
  <1>2. WantedTimes \in SUBSET Times
    BY DEF WantedTimes
  <1>3. /\ query.start \in Nat /\ query.end \in Nat /\ query.res \in Resolutions
        /\ query.start < query.end /\ ReadTimes \in SUBSET Times
    BY QueryFacts DEF QueryCounts
  <1>4. \A t \in Nat : (\E c \in Cut : Reads(c, t))
                          <=> Covered(query.start, query.end, query.res, t)
    BY <1>3, ChunksCover DEF Cut
  <1>5. ASSUME unread = {}
        PROVE  ReadTimes = WantedTimes
    <2>1. Cut \ unread = Cut
      BY <1>5
    <2>2. \A t \in Times : t \in ReadTimes <=> \E c \in Cut : Reads(c, t)
      BY <2>1 DEF ReadTimes
    <2> QED BY <1>1, <1>2, <1>3, <1>4, <2>2, TimesAreFinite
  <1> QED BY <1>1, <1>2, <1>5

LEMMA SomethingCounted ==
    ASSUME NEW f \in Counts, NEW S \in SUBSET Times, SumOver(f, S) > 0
    PROVE  \E t \in S : f[t] > 0
  <1> SUFFICES ASSUME \A t \in S : ~(f[t] > 0) PROVE FALSE
    OBVIOUS
  <1>1. IsFiniteSet(S) /\ \A t \in S : f[t] = 0
    BY TimesAreFinite DEF Counts
  <1>2. SumOver(f, S) = 0
    BY <1>1, SumZero
  <1> QED BY <1>2

LEMMA NamesFound ==
    ASSUME Typed, Typed', QueryCounts, NothingLost, ReadNames
    PROVE  FramesAreNamed'
  <1>1. /\ query.stage = "reading" /\ unread = {} /\ before' = before /\ horizon' = horizon
        /\ query # None
    BY DEF ReadNames, storeVars, None
  <1> DEFINE days == FrameNamesDays(query.start, query.end)
  <1>2. query' = [query EXCEPT !.stage = "done",
                    !.named = total > 0 /\ \E t \in Times : /\ days.start <= t /\ t < days.end
                                                            /\ tables["name"][t] > 0]
    BY DEF ReadNames
  <1>3. query \in Queries
    BY <1>1 DEF Typed
  <1> HIDE DEF days
  <1>4. /\ query'.start = query.start /\ query'.end = query.end /\ query'.res = query.res
        /\ query'.named = (total > 0 /\ \E t \in Times : /\ days.start <= t /\ t < days.end
                                                          /\ tables["name"][t] > 0)
    BY <1>2, <1>3 DEF Queries
  <1>5. WantedTimes' = WantedTimes
    BY <1>4 DEF WantedTimes, Wanted
  <1> SUFFICES ASSUME horizon < StartOf(Day, query.start), SumOver(before, WantedTimes) > 0
               PROVE  /\ total > 0
                      /\ \E t \in Times : /\ days.start <= t /\ t < days.end
                                          /\ tables["name"][t] > 0
    BY <1>1, <1>4, <1>5 DEF FramesAreNamed
  <1>6. /\ query.start \in Nat /\ query.end \in Nat /\ query.res \in Resolutions
        /\ query.start < query.end
    BY <1>1, QueryFacts DEF QueryCounts
  <1>7. before \in Counts /\ inserted \in Counts /\ horizon \in Nat /\ total \in Nat
    BY BoundsAssumption DEF Typed
  <1>8. StartOf(Day, query.start) \in Nat /\ StartOf(Day, query.start) <= query.start
    BY <1>6, DayAssumption, StartBounds
  <1>9. /\ WantedTimes \in SUBSET Times /\ ReadTimes = WantedTimes
        /\ \A t \in Times : t \in WantedTimes <=> Covered(query.start, query.end, query.res, t)
    BY <1>1, WholeRead
  <1>10. total > 0
    <2>1. SumOver(before, WantedTimes) <= total
      BY <1>1, <1>6, <1>7, <1>8, <1>9 DEF QueryCounts
    <2>2. SumOver(before, WantedTimes) \in Nat
      BY <1>7, <1>9, CountOver
    <2> QED BY <1>7, <2>1, <2>2
  <1>11. PICK t \in WantedTimes : before[t] > 0
    BY <1>7, <1>9, SomethingCounted
  <1>12. t \in Times /\ t \in Nat /\ Covered(query.start, query.end, query.res, t)
    BY <1>9, TimesAreFinite
  <1> DEFINE s == Rollup("name", t)
  <1>13. s \in Times /\ s \in Nat
    BY <1>12, RollupIsEarlier, TimesAreFinite DEF Tables
  <1>14. StartOf(Day, query.start) <= s /\ days.start <= s /\ s < days.end
    BY <1>6, <1>12, NameIsAsked DEF days
  <1> HIDE DEF s
  <1>15. horizon < s
    BY <1>7, <1>8, <1>13, <1>14
  <1>16. /\ SumOver(inserted, StampedBy("name", s)) + Landed("name", s) <= tables["name"][s]
         /\ tables["name"][s] \in Nat /\ Landed("name", s) \in {0, 1}
         /\ SumOver(inserted, StampedBy("name", s)) \in Nat
    BY <1>13, <1>15, StampTypes DEF NothingLost, Tables
  <1>17. t \in StampedBy("name", s) /\ StampedBy("name", s) \in SUBSET Times
    BY <1>12, StampedTimes DEF s
  <1>18. inserted[t] <= SumOver(inserted, StampedBy("name", s))
    BY <1>7, <1>17, CountOver
  <1>19. before[t] <= inserted[t] /\ before[t] \in Nat /\ inserted[t] \in Nat
    BY <1>7, <1>12 DEF QueryCounts, Counts
  <1>20. tables["name"][s] > 0
    BY <1>11, <1>16, <1>18, <1>19
  <1> QED BY <1>10, <1>13, <1>14, <1>20

LEMMA FramesAreNamedKept ==
    ASSUME Typed, Typed', QueryCounts, NothingLost, FramesAreNamed, [Next]_vars
    PROVE  FramesAreNamed'
  <1>1. ASSUME query' = query, before' = before
        PROVE  FramesAreNamed'
    <2>1. WantedTimes' = WantedTimes
      BY <1>1 DEF WantedTimes, Wanted
    <2>2. query.stage = "done" => query # None
      BY DEF None
    <2>3. query # None => query.start \in Nat /\ StartOf(Day, query.start) \in Nat
      BY QueryFacts, DayAssumption, StartBounds
    <2>4. query # None => (horizon' < StartOf(Day, query.start) => horizon < StartOf(Day, query.start))
      BY <2>3, HistoriesGrow
    <2> QED BY <1>1, <2>1, <2>2, <2>4 DEF FramesAreNamed
  <1>2. ASSUME query'.stage # "done"
        PROVE  FramesAreNamed'
    BY <1>2 DEF FramesAreNamed
  <1>3. CASE ReadNames
    BY <1>3, NamesFound
  <1>4. CASE ReadFails \/ QueryEnds
    <2>1. query'.stage # "done"
      BY <1>4 DEF ReadFails, QueryEnds, None
    <2> QED BY <1>2, <2>1
  <1>5. ASSUME NEW start \in Times, NEW end \in Times, NEW res \in Asked,
               QueryBegins(start, end, res)
        PROVE  FramesAreNamed'
    <2>1. query'.stage # "done"
      BY <1>5 DEF QueryBegins
    <2> QED BY <1>2, <2>1
  <1>6. \/ ReadNames \/ ReadFails \/ QueryEnds
        \/ \E start, end \in Times, res \in Asked : QueryBegins(start, end, res)
        \/ query' = query /\ before' = before
    BY DEF Next, InsertBegins, InsertReaches, InsertFails, Advance, Expire, ReadChunk,
           queryVars, vars
  <1> QED BY <1>1, <1>3, <1>4, <1>5, <1>6

LEMMA IInvInit == ASSUME Init PROVE IInv
  <1>1. Typed
    BY TypedInit
  <1>2. /\ \A t \in Times : Zero[t] = 0 /\ Zero[t] \in Int
        /\ Zero \in Counts
    BY DEF Zero, Counts
  <1>3. \A S \in SUBSET Times : SumOver(Zero, S) = 0
    <2> SUFFICES ASSUME NEW S \in SUBSET Times PROVE SumOver(Zero, S) = 0
      OBVIOUS
    <2>1. IsFiniteSet(S) /\ \A t \in S : Zero[t] = 0
      BY <1>2, TimesAreFinite
    <2> HIDE DEF Zero
    <2> QED BY <2>1, SumZero
  <1>4. /\ tables = [table \in Tables |-> Zero] /\ insert.left = {} /\ inserted = Zero
        /\ started = Zero /\ query = None /\ unread = {} /\ total = 0 /\ before = Zero
    BY DEF Init, NoInsert
  <1>5. InsertsCount
    <2>1. SumOver(Zero, Times) = 0
      BY <1>3
    <2>2. \A t \in Times : UnderWay(t) = 0
      BY <1>4 DEF UnderWay
    <2> QED BY <1>2, <1>4, <2>1, <2>2, BoundsAssumption DEF InsertsCount
  <1>6. \A table \in Tables, s \in Times :
           /\ Coming(table, s) = 0 /\ Landed(table, s) = 0 /\ tables[table][s] = 0
           /\ SumOver(Zero, StampedBy(table, s)) = 0
    BY <1>2, <1>3, <1>4, StampedTimes DEF Coming, Landed
  <1>7. NothingTwice /\ NothingLost
    BY <1>4, <1>6 DEF NothingTwice, NothingLost
  <1>8. QueryCounts
    BY <1>2, <1>4 DEF QueryCounts
  <1>9. FramesAreNamed
    BY <1>4 DEF FramesAreNamed, None
  <1> QED BY <1>1, <1>5, <1>7, <1>8, <1>9 DEF IInv

LEMMA IInvKept == ASSUME IInv, [Next]_vars PROVE IInv'
  <1>1. Typed /\ InsertsCount /\ NothingTwice /\ NothingLost /\ QueryCounts /\ FramesAreNamed
    BY DEF IInv
  <1>2. Typed'
    BY <1>1, TypedKept
  <1> QED BY <1>1, <1>2, InsertsCountKept, NothingTwiceKept, NothingLostKept, QueryCountsKept,
             FramesAreNamedKept DEF IInv

LEMMA IInvAlways == Spec => []IInv
  <1>1. Init => IInv
    BY IInvInit
  <1>2. IInv /\ [Next]_vars => IInv'
    BY IInvKept
  <1> QED BY <1>1, <1>2, PTL DEF Spec

(* Every variable stays within its domain, however many inserts fail half  *)
(* way: no row of any table exceeds the inserts sent (the views each add a *)
(* sample once).                                                           *)
THEOREM StoreIsTyped == Spec => []TypeOK
  <1>1. ASSUME IInv PROVE TypeOK
    <2>1. Typed /\ InsertsCount /\ NothingTwice /\ QueryCounts
      BY <1>1 DEF IInv
    <2>2. started \in Counts /\ inserted \in Counts /\ before \in Counts
      BY <2>1 DEF Typed
    <2>3. SumOver(started, Times) \in Nat /\ SumOver(started, Times) <= MaxInserts
      <3> DEFINE T == Times
      <3>1. T \in SUBSET Times
        OBVIOUS
      <3> HIDE DEF T
      <3>2. SumOver(started, T) \in Nat
        BY <2>2, <3>1, CountOver
      <3> QED BY <2>1, <3>2 DEF InsertsCount, T
    <2>4. \A t \in Times : started[t] \in 0..MaxInserts
      <3> SUFFICES ASSUME NEW t \in Times PROVE started[t] \in 0..MaxInserts
        OBVIOUS
      <3> DEFINE T == Times
      <3>1. T \in SUBSET Times /\ t \in T /\ started[t] \in Nat
        BY <2>2 DEF Counts
      <3> HIDE DEF T
      <3>2. started[t] <= SumOver(started, T)
        BY <2>2, <3>1, CountOver
      <3>3. started[t] <= SumOver(started, Times)
        BY <3>2 DEF T
      <3> QED BY <2>3, <3>1, <3>3, BoundsAssumption
    <2>5. \A t \in Times : /\ inserted[t] \in 0..MaxInserts /\ before[t] \in 0..MaxInserts
      <3> SUFFICES ASSUME NEW t \in Times
                   PROVE  inserted[t] \in 0..MaxInserts /\ before[t] \in 0..MaxInserts
        OBVIOUS
      <3>1. /\ inserted[t] \in Nat /\ before[t] \in Nat /\ UnderWay(t) \in {0, 1}
            /\ started[t] \in Nat /\ started[t] <= MaxInserts
        BY <2>2, <2>4 DEF UnderWay, Counts
      <3>2. inserted[t] + UnderWay(t) <= started[t] /\ before[t] <= inserted[t]
        BY <2>1 DEF InsertsCount, QueryCounts
      <3> QED BY <3>1, <3>2, BoundsAssumption
    <2>6. \A table \in Tables : \A s \in Times : tables[table][s] \in 0..MaxInserts
      <3> SUFFICES ASSUME NEW table \in Tables, NEW s \in Times
                   PROVE  tables[table][s] \in 0..MaxInserts
        OBVIOUS
      <3>1. /\ tables[table][s] \in Nat /\ Coming(table, s) \in {0, 1}
            /\ SumOver(started, StampedBy(table, s)) \in Nat
            /\ tables[table][s] + Coming(table, s) <= SumOver(started, StampedBy(table, s))
        BY <2>1, StampTypes DEF NothingTwice
      <3>2. SumOver(started, StampedBy(table, s)) <= SumOver(started, Times)
        <4>1. StampedBy(table, s) \in SUBSET Times
          BY StampedTimes
        <4> QED BY <2>2, <4>1, CountOver
      <3> QED BY <2>3, <3>1, <3>2, BoundsAssumption
    <2>7. /\ started \in [Times -> 0..MaxInserts] /\ inserted \in [Times -> 0..MaxInserts]
          /\ before \in [Times -> 0..MaxInserts]
      BY <2>2, <2>4, <2>5 DEF Counts
    <2>8. tables \in [Tables -> [Times -> 0..MaxInserts]]
      BY <2>1, <2>6 DEF Typed, Counts
    <2>9. query.stage \in {"none", "reading", "done"} /\ query.named \in BOOLEAN
      <3>1. CASE query = None
        BY <3>1 DEF None
      <3>2. CASE query \in Queries
        BY <3>2 DEF Queries
      <3> QED BY <2>1, <3>1, <3>2 DEF Typed
    <2> QED BY <2>1, <2>7, <2>8, <2>9 DEF TypeOK, Typed
  <1> QED BY <1>1, IInvAlways, PTL

LEMMA DoneIsWhole ==
    ASSUME IInv, query.stage = "done"
    PROVE  /\ total <= SumOver(started, WantedTimes)
           /\ horizon < query.start => SumOver(before, WantedTimes) <= total
  <1>1. Typed /\ QueryCounts /\ query # None
    BY DEF IInv, None
  <1>2. unread = {}
    BY <1>1 DEF QueryCounts
  <1>3. ReadTimes = WantedTimes
    BY <1>1, <1>2, WholeRead
  <1> QED BY <1>1, <1>3 DEF QueryCounts

(* The total of a flamegraph is at most what was sent for its range: no    *)
(* sample is counted from two resolutions or by two goroutines, whatever   *)
(* was inserted between their reads (BuildChunks, GetTopFrames).           *)
THEOREM QueryCountsOnce == Spec => []NoSampleTwice
  <1>1. IInv => NoSampleTwice
    BY DoneIsWhole DEF NoSampleTwice
  <1> QED BY <1>1, IInvAlways, PTL

(* A query that begins after the retention horizon counts every sample     *)
(* that was stored when it began, from whichever table it is read.         *)
THEOREM QueryMissesNothing == Spec => []NoSampleMissed
  <1>1. IInv => NoSampleMissed
    BY DoneIsWhole DEF NoSampleMissed
  <1> QED BY <1>1, IInvAlways, PTL

(* If the first day of the query is within the retention, a frame stored   *)
(* when it began comes with its name, at every resolution                  *)
(* (frameNamesTimeRange, fetchFrameNames).                                 *)
THEOREM AnswerHasNames == Spec => []FramesAreNamed
  <1>1. IInv => FramesAreNamed
    BY DEF IInv
  <1> QED BY <1>1, IInvAlways, PTL
=============================================================================
