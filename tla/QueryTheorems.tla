---------------------------- MODULE QueryTheorems ----------------------------
(***************************************************************************)
(* The arithmetic that the proofs about queries share: how a range of time *)
(* is cut into chunks, and what totals over finite sets come to.           *)
(*                                                                         *)
(* For every length of the hour and the day and every query the chunks of  *)
(* splitMulti read each sample of the query exactly once and no other, and *)
(* the days asked of the names table hold the name of each.  The argument: *)
(* an aligned bound separates samples as it separates their rollups        *)
(* (AlignedBoundSeparates), so a chunk with aligned bounds reads the       *)
(* samples between them (ChunkPartitions); chunks that meet end to end     *)
(* join, in either order (PartitionsJoin).                                 *)
(*                                                                         *)
(* SumOver is known for every finite set and every function with integer   *)
(* values on it.  FoldSet takes the elements in an order that CHOOSE fixes *)
(* and nobody knows; that the order does not matter, and what follows, is  *)
(* proved here by least counterexamples: a set of naturals that is not     *)
(* empty has a least member (WFMin).                                       *)
(***************************************************************************)
EXTENDS TimeRange, Sums, FiniteSetTheorems, WellFoundedInduction, TLAPS

NotRead(chunks, t) == \A i \in DOMAIN chunks : ~Reads(chunks[i], t)

ReadOnce(chunks, t) ==
    \E i \in DOMAIN chunks :
        /\ Reads(chunks[i], t)
        /\ \A j \in DOMAIN chunks : Reads(chunks[j], t) => j = i

(* The chunks read the samples of start..end-1, each once. *)
Partition(chunks, start, end) ==
    \A t \in Nat : IF start <= t /\ t < end THEN ReadOnce(chunks, t)
                                            ELSE NotRead(chunks, t)

ChunkSet == [table : Tables, start : Nat, end : Nat]

-----------------------------------------------------------------------------
(* Division with remainder, for startOfHour and startOfDay.                *)
LEMMA StartBounds ==
    ASSUME NEW u \in Nat \ {0}, NEW t \in Nat
    PROVE  /\ t \div u \in Nat
           /\ StartOf(u, t) \in Nat
           /\ StartOf(u, t) <= t
           /\ t < StartOf(u, t) + u
BY SMTT(30) DEF StartOf

(* Multiples of a unit keep the order of their factors. *)
LEMMA ProductsOrdered ==
    ASSUME NEW u \in Nat \ {0}, NEW p \in Nat, NEW q \in Nat, p < q
    PROVE  p * u + u <= q * u
<1>1. PICK d \in Nat : q = p + 1 + d
  <2>1. q - p - 1 \in Nat /\ q = p + 1 + (q - p - 1)
    OBVIOUS
  <2> QED BY <2>1
<1>2. q * u = p * u + u + d * u
  BY <1>1, SMTT(30)
<1>3. d * u \in Nat /\ p * u \in Nat
  BY SMTT(30)
<1> QED BY <1>2, <1>3

(* A multiple of the unit is at or before a sample exactly if it is at or  *)
(* before the sample's rollup.                                             *)
LEMMA AlignedBoundSeparates ==
    ASSUME NEW u \in Nat \ {0}, NEW a \in Nat, IsAligned(u, a), NEW t \in Nat
    PROVE  a <= StartOf(u, t) <=> a <= t
<1> DEFINE p == t \div u
           q == a \div u
<1>1. p \in Nat /\ q \in Nat /\ StartOf(u, t) <= t /\ t < StartOf(u, t) + u
      /\ StartOf(u, t) \in Nat
  BY StartBounds
<1>2. a = q * u /\ StartOf(u, t) = p * u
  BY DEF IsAligned, StartOf
<1>3. CASE p < q
  <2>1. p * u + u <= q * u
    BY <1>1, <1>3, ProductsOrdered
  <2> HIDE DEF p, q
  <2> QED BY <1>1, <1>2, <2>1
<1>4. CASE p = q
  BY <1>1, <1>2, <1>4
<1>5. CASE q < p
  <2>1. q * u + u <= p * u
    BY <1>1, <1>5, ProductsOrdered
  <2> HIDE DEF p, q
  <2> QED BY <1>1, <1>2, <2>1
<1> HIDE DEF p, q
<1> QED BY <1>1, <1>3, <1>4, <1>5

(* startOfDay and nextDay are aligned, and to whole hours too. *)
LEMMA MultiplesAligned ==
    ASSUME NEW u \in Nat \ {0}, NEW q \in Nat
    PROVE  q * u \in Nat /\ IsAligned(u, q * u)
<1>1. q * u \in Nat
  BY SMTT(30)
<1>2. (q * u) \div u = q
  <2> DEFINE p == (q * u) \div u
  <2>1. p \in Nat /\ p * u <= q * u /\ q * u < p * u + u
    BY <1>1, StartBounds DEF StartOf
  <2> HIDE DEF p
  <2>2. ~(p < q)
    BY <2>1, ProductsOrdered, <1>1, SMTT(30)
  <2>3. ~(q < p)
    <3> SUFFICES ASSUME q < p PROVE FALSE
      OBVIOUS
    <3>1. q * u + u <= p * u
      BY <2>1, ProductsOrdered
    <3>2. p * u \in Nat
      BY <2>1, SMTT(30)
    <3> QED BY <1>1, <2>1, <3>1, <3>2
  <2>4. p = q
    BY <2>1, <2>2, <2>3
  <2> QED BY <2>4 DEF p
<1> QED BY <1>1, <1>2 DEF IsAligned, StartOf

LEMMA StartAligned ==
    ASSUME NEW u \in Nat \ {0}, NEW t \in Nat
    PROVE  /\ StartOf(u, t) \in Nat /\ IsAligned(u, StartOf(u, t))
           /\ NextOf(u, t) \in Nat /\ IsAligned(u, NextOf(u, t))
           /\ t < NextOf(u, t)
<1>1. t \div u \in Nat
  BY StartBounds
<1>2. NextOf(u, t) = (t \div u + 1) * u
  BY <1>1, SMTT(30) DEF NextOf, StartOf
<1>3. IsAligned(u, StartOf(u, t))
  BY <1>1, MultiplesAligned DEF StartOf
<1>4. t \div u + 1 \in Nat
  BY <1>1
<1>5. NextOf(u, t) \in Nat /\ IsAligned(u, NextOf(u, t))
  BY <1>2, <1>4, MultiplesAligned
<1> QED BY <1>3, <1>5, StartBounds DEF NextOf

(* A multiple of a larger unit is one of the smaller units it is made of.  *)
LEMMA CoarseAlignedIsFineAligned ==
    ASSUME NEW u \in Nat \ {0}, NEW v \in Nat \ {0}, v % u = 0,
           NEW t \in Nat, IsAligned(v, t)
    PROVE  IsAligned(u, t)
<1>1. PICK n \in Nat : v = n * u
  <2>1. v \div u \in Nat /\ v = (v \div u) * u
    BY SMTT(30)
  <2> QED BY <2>1
<1>2. PICK q \in Nat : t = q * v
  <2>1. t \div v \in Nat /\ t = (t \div v) * v
    BY StartBounds DEF IsAligned, StartOf
  <2> QED BY <2>1
<1>3. q * n \in Nat /\ t = (q * n) * u
  BY <1>1, <1>2, SMTT(30)
<1> QED BY <1>3, MultiplesAligned

(* A whole day is a whole hour. *)
LEMMA DayAlignedIsHourAligned ==
    ASSUME NEW t \in Nat, IsAligned(Day, t)
    PROVE  IsAligned(Hour, t)
BY HourAssumption, DayAssumption, CoarseAlignedIsFineAligned

(* What lies in one unit has one start. *)
LEMMA SameUnit ==
    ASSUME NEW u \in Nat \ {0}, NEW a \in Nat, NEW t \in Nat,
           StartOf(u, t) <= a, a <= t
    PROVE  StartOf(u, a) = StartOf(u, t)
<1> DEFINE p == a \div u
           q == t \div u
<1>1. /\ p \in Nat /\ q \in Nat
      /\ StartOf(u, a) = p * u /\ StartOf(u, t) = q * u
      /\ p * u \in Nat /\ q * u \in Nat
      /\ p * u <= a /\ a < p * u + u /\ t < q * u + u
  BY StartBounds DEF StartOf
<1> HIDE DEF p, q
<1>2. ~(p < q)
  BY <1>1, ProductsOrdered
<1>3. ~(q < p)
  <2> SUFFICES ASSUME q < p PROVE FALSE
    OBVIOUS
  <2>1. q * u + u <= p * u
    BY <1>1, ProductsOrdered
  <2> QED BY <1>1, <2>1
<1> QED BY <1>1, <1>2, <1>3

-----------------------------------------------------------------------------
LEMMA UnlessIsChunks ==
    ASSUME NEW table \in Tables, NEW start \in Nat, NEW end \in Nat, NEW empty \in BOOLEAN
    PROVE  Unless(empty, Chunk(table, start, end)) \in Seq(ChunkSet)
<1>1. Chunk(table, start, end) \in ChunkSet
  BY DEF Chunk, ChunkSet
<1>2. CASE empty
  BY <1>2 DEF Unless
<1>3. CASE ~empty
  BY <1>1, <1>3 DEF Unless
<1> QED BY <1>2, <1>3

(* A chunk reads the samples between its bounds if they are aligned to the *)
(* unit of its table.                                                      *)
LEMMA ChunkReads ==
    ASSUME NEW table \in Tables, NEW start \in Nat, NEW end \in Nat, NEW t \in Nat,
           table = "1hour" => IsAligned(Hour, start) /\ IsAligned(Hour, end),
           table = "1day" => IsAligned(Day, start) /\ IsAligned(Day, end),
           table # "name"
    PROVE  Reads(Chunk(table, start, end), t) <=> start <= t /\ t < end
<1>1. CASE table = "raw"
  BY <1>1 DEF Reads, Chunk, Rollup
<1>2. CASE table = "1hour"
  <2>1. StartOf(Hour, t) \in Nat
    BY HourAssumption, StartBounds
  <2>2. start <= StartOf(Hour, t) <=> start <= t
    BY <1>2, HourAssumption, AlignedBoundSeparates
  <2>3. end <= StartOf(Hour, t) <=> end <= t
    BY <1>2, HourAssumption, AlignedBoundSeparates
  <2> QED BY <1>2, <2>1, <2>2, <2>3 DEF Reads, Chunk, Rollup
<1>3. CASE table = "1day"
  <2>1. StartOf(Day, t) \in Nat
    BY DayAssumption, StartBounds
  <2>2. start <= StartOf(Day, t) <=> start <= t
    BY <1>3, DayAssumption, AlignedBoundSeparates
  <2>3. end <= StartOf(Day, t) <=> end <= t
    BY <1>3, DayAssumption, AlignedBoundSeparates
  <2> QED BY <1>3, <2>1, <2>2, <2>3 DEF Reads, Chunk, Rollup
<1> QED BY <1>1, <1>2, <1>3 DEF Tables

LEMMA ChunkPartitions ==
    ASSUME NEW table \in Tables, NEW start \in Nat, NEW end \in Nat, start <= end,
           table = "1hour" => IsAligned(Hour, start) /\ IsAligned(Hour, end),
           table = "1day" => IsAligned(Day, start) /\ IsAligned(Day, end),
           table # "name"
    PROVE  /\ Partition(Unless(start = end, Chunk(table, start, end)), start, end)
           /\ Partition(<<Chunk(table, start, end)>>, start, end)
<1> DEFINE c == Chunk(table, start, end)
<1>1. ASSUME NEW t \in Nat
      PROVE  Reads(c, t) <=> start <= t /\ t < end
  BY ChunkReads
<1> HIDE DEF c
<1>2. Partition(<<c>>, start, end)
  BY <1>1 DEF Partition, ReadOnce, NotRead
<1>3. ASSUME start = end
      PROVE  Partition(<<>>, start, end)
  BY <1>3 DEF Partition, NotRead
<1>4. Unless(start = end, c) = IF start = end THEN <<>> ELSE <<c>>
  BY DEF Unless
<1>5. Partition(Unless(start = end, c), start, end)
  BY <1>2, <1>3, <1>4
<1> QED BY <1>2, <1>5 DEF c

(* Reading from a concatenation. *)
LEMMA ReadConcat ==
    ASSUME NEW cs \in Seq(ChunkSet), NEW ds \in Seq(ChunkSet), NEW t \in Nat, NotRead(cs, t)
    PROVE  /\ NotRead(ds, t) => NotRead(cs \o ds, t) /\ NotRead(ds \o cs, t)
           /\ ReadOnce(ds, t) => ReadOnce(cs \o ds, t) /\ ReadOnce(ds \o cs, t)
<1>1. /\ \A i \in 1..Len(cs) : (cs \o ds)[i] = cs[i] /\ (ds \o cs)[i + Len(ds)] = cs[i]
      /\ \A i \in 1..Len(ds) : (cs \o ds)[i + Len(cs)] = ds[i] /\ (ds \o cs)[i] = ds[i]
      /\ DOMAIN (cs \o ds) = 1..(Len(cs) + Len(ds))
      /\ DOMAIN (ds \o cs) = 1..(Len(ds) + Len(cs))
      /\ DOMAIN cs = 1..Len(cs) /\ DOMAIN ds = 1..Len(ds)
      /\ Len(cs) \in Nat /\ Len(ds) \in Nat
  OBVIOUS
<1>2. ASSUME NEW j \in DOMAIN (cs \o ds), Reads((cs \o ds)[j], t)
      PROVE  j - Len(cs) \in DOMAIN ds /\ Reads(ds[j - Len(cs)], t)
  <2>1. ~(j \in 1..Len(cs))
    BY <1>1, <1>2 DEF NotRead
  <2>2. j - Len(cs) \in 1..Len(ds) /\ j = (j - Len(cs)) + Len(cs)
    BY <1>1, <2>1
  <2> QED BY <1>1, <1>2, <2>2
<1>3. ASSUME NEW j \in DOMAIN (ds \o cs), Reads((ds \o cs)[j], t)
      PROVE  j \in DOMAIN ds /\ Reads(ds[j], t)
  <2>1. CASE j \in 1..Len(ds)
    BY <1>1, <1>3, <2>1
  <2>2. CASE ~(j \in 1..Len(ds))
    <3>1. j - Len(ds) \in 1..Len(cs) /\ j = (j - Len(ds)) + Len(ds)
      BY <1>1, <2>2
    <3> QED BY <1>1, <1>3, <3>1 DEF NotRead
  <2> QED BY <2>1, <2>2
<1>4. NotRead(ds, t) => NotRead(cs \o ds, t) /\ NotRead(ds \o cs, t)
  BY <1>2, <1>3 DEF NotRead
<1>5. ASSUME ReadOnce(ds, t)
      PROVE  ReadOnce(cs \o ds, t) /\ ReadOnce(ds \o cs, t)
  <2>1. PICK i \in DOMAIN ds :
            Reads(ds[i], t) /\ \A j \in DOMAIN ds : Reads(ds[j], t) => j = i
    BY <1>5 DEF ReadOnce
  <2>2. /\ i + Len(cs) \in DOMAIN (cs \o ds) /\ Reads((cs \o ds)[i + Len(cs)], t)
        /\ i \in DOMAIN (ds \o cs) /\ Reads((ds \o cs)[i], t)
    BY <1>1, <2>1
  <2>3. \A j \in DOMAIN (cs \o ds) : Reads((cs \o ds)[j], t) => j = i + Len(cs)
    BY <1>1, <1>2, <2>1
  <2>4. \A j \in DOMAIN (ds \o cs) : Reads((ds \o cs)[j], t) => j = i
    BY <1>3, <2>1
  <2> QED BY <2>2, <2>3, <2>4 DEF ReadOnce
<1> QED BY <1>4, <1>5

(* Partitions that meet join, in whichever order they are appended. *)
LEMMA PartitionsJoin ==
    ASSUME NEW cs \in Seq(ChunkSet), NEW ds \in Seq(ChunkSet),
           NEW a \in Nat, NEW b \in Nat, NEW c \in Nat, a <= b, b <= c,
           Partition(cs, a, b), Partition(ds, b, c)
    PROVE  Partition(cs \o ds, a, c) /\ Partition(ds \o cs, a, c)
<1> SUFFICES ASSUME NEW t \in Nat
             PROVE  /\ a <= t /\ t < c => ReadOnce(cs \o ds, t) /\ ReadOnce(ds \o cs, t)
                    /\ ~(a <= t /\ t < c) => NotRead(cs \o ds, t) /\ NotRead(ds \o cs, t)
  BY DEF Partition
<1>1. CASE a <= t /\ t < b
  <2>1. ReadOnce(cs, t) /\ NotRead(ds, t)
    BY <1>1 DEF Partition
  <2> QED BY <1>1, <2>1, ReadConcat
<1>2. CASE b <= t /\ t < c
  <2>1. NotRead(cs, t) /\ ReadOnce(ds, t)
    BY <1>2 DEF Partition
  <2> QED BY <1>2, <2>1, ReadConcat
<1>3. CASE ~(a <= t /\ t < c)
  <2>1. NotRead(cs, t) /\ NotRead(ds, t)
    BY <1>3 DEF Partition
  <2> QED BY <1>3, <2>1, ReadConcat
<1> QED BY <1>1, <1>2, <1>3

-----------------------------------------------------------------------------
(* Between whole hours splitMulti uses days where there are whole ones.    *)
LEMMA HoursPartitioned ==
    ASSUME NEW start \in Nat, NEW end \in Nat, start < end,
           IsAligned(Hour, start), IsAligned(Hour, end)
    PROVE  SplitHours(start, end) \in Seq(ChunkSet) /\ Partition(SplitHours(start, end), start, end)
<1> DEFINE first == IF IsAligned(Day, start) THEN start ELSE NextOf(Day, start)
           last  == StartOf(Day, end)
           head  == Unless(start = first, Chunk("1hour", start, first))
           days  == <<Chunk("1day", first, last)>>
           tail  == Unless(last = end, Chunk("1hour", last, end))
           whole == <<Chunk("1hour", start, end)>>
<1>1. /\ first \in Nat /\ start <= first /\ IsAligned(Day, first) /\ IsAligned(Hour, first)
      /\ last \in Nat /\ last <= end /\ IsAligned(Day, last) /\ IsAligned(Hour, last)
  <2>1. /\ NextOf(Day, start) \in Nat /\ start < NextOf(Day, start)
        /\ IsAligned(Day, NextOf(Day, start))
        /\ StartOf(Day, end) \in Nat /\ IsAligned(Day, StartOf(Day, end))
    BY DayAssumption, StartAligned
  <2>2. StartOf(Day, end) <= end
    BY DayAssumption, StartBounds
  <2>3. first \in Nat /\ start <= first /\ IsAligned(Day, first)
    BY <2>1
  <2> QED BY <2>1, <2>2, <2>3, DayAlignedIsHourAligned
<1>2. SplitHours(start, end) = IF first < last THEN head \o days \o tail ELSE whole
  BY DEF SplitHours
<1>3. /\ head \in Seq(ChunkSet) /\ tail \in Seq(ChunkSet)
      /\ days \in Seq(ChunkSet) /\ whole \in Seq(ChunkSet)
  <2>1. Chunk("1day", first, last) \in ChunkSet /\ Chunk("1hour", start, end) \in ChunkSet
    BY <1>1 DEF Chunk, ChunkSet, Tables
  <2>2. head \in Seq(ChunkSet) /\ tail \in Seq(ChunkSet)
    BY <1>1, UnlessIsChunks DEF Tables
  <2> QED BY <2>1, <2>2
<1>4. Partition(whole, start, end)
  BY ChunkPartitions DEF Tables
<1>5. CASE first < last
  <2>1. Partition(head, start, first) /\ Partition(tail, last, end)
    BY <1>1, ChunkPartitions DEF Tables
  <2>2. Partition(days, first, last)
    BY <1>1, <1>5, ChunkPartitions DEF Tables
  <2> HIDE DEF first, last, head, days, tail, whole
  <2>3. head \o days \in Seq(ChunkSet) /\ Partition(head \o days, start, last)
    BY <1>1, <1>3, <1>5, <2>1, <2>2, PartitionsJoin
  <2>4. start <= last
    BY <1>1, <1>5
  <2>5. Partition((head \o days) \o tail, start, end)
    BY <1>1, <1>3, <2>1, <2>3, <2>4, PartitionsJoin
  <2>6. (head \o days) \o tail \in Seq(ChunkSet)
    BY <1>3, <2>3
  <2> QED BY <1>2, <1>5, <2>5, <2>6
<1> HIDE DEF first, last, head, days, tail, whole
<1> QED BY <1>2, <1>3, <1>4, <1>5

(* Whatever the range, the chunks of splitMulti read every sample of it    *)
(* exactly once, from one table, and no sample outside it: no flamegraph   *)
(* counts a sample in two resolutions or loses one at a seam.              *)
THEOREM MultiReadsEachSampleOnce ==
    ASSUME NEW start \in Nat, NEW end \in Nat, start < end
    PROVE  Partition(SplitMulti(start, end), start, end)
<1> DEFINE leftEnd == IF IsAligned(Hour, start) THEN start
                      ELSE Earlier(end, NextOf(Hour, start))
           rightStart == IF leftEnd = end \/ IsAligned(Hour, end) THEN end
                         ELSE Later(leftEnd, StartOf(Hour, end))
           left == Unless(leftEnd = start, Chunk("raw", start, leftEnd))
           right == Unless(rightStart = end, Chunk("raw", rightStart, end))
           hours == IF leftEnd < rightStart THEN SplitHours(leftEnd, rightStart) ELSE <<>>
<1>1. SplitMulti(start, end) = left \o right \o hours
  BY DEF SplitMulti
<1>2. /\ NextOf(Hour, start) \in Nat /\ IsAligned(Hour, NextOf(Hour, start))
      /\ start < NextOf(Hour, start)
      /\ StartOf(Hour, end) \in Nat /\ IsAligned(Hour, StartOf(Hour, end))
      /\ StartOf(Hour, end) <= end
  BY HourAssumption, StartAligned, StartBounds
<1>3. /\ leftEnd \in Nat /\ start <= leftEnd /\ leftEnd <= end
      /\ leftEnd = end \/ IsAligned(Hour, leftEnd)
  BY <1>2 DEF Earlier
<1>4. /\ rightStart \in Nat /\ leftEnd <= rightStart /\ rightStart <= end
      /\ leftEnd < rightStart => IsAligned(Hour, leftEnd) /\ IsAligned(Hour, rightStart)
  BY <1>2, <1>3 DEF Later
<1>5. left \in Seq(ChunkSet) /\ Partition(left, start, leftEnd)
  <2>1. left = Unless(start = leftEnd, Chunk("raw", start, leftEnd))
    BY <1>3 DEF Unless
  <2> QED BY <1>3, <2>1, ChunkPartitions, UnlessIsChunks DEF Tables
<1>6. right \in Seq(ChunkSet) /\ Partition(right, rightStart, end)
  BY <1>4, ChunkPartitions, UnlessIsChunks DEF Tables
<1>7. hours \in Seq(ChunkSet) /\ Partition(hours, leftEnd, rightStart)
  <2>1. CASE leftEnd < rightStart
    BY <1>3, <1>4, <2>1, HoursPartitioned
  <2>2. CASE leftEnd = rightStart
    <3>1. hours = <<>>
      BY <1>3, <2>2
    <3> HIDE DEF leftEnd, rightStart, hours
    <3>2. Partition(<<>>, leftEnd, rightStart)
      BY <1>3, <2>2 DEF Partition, NotRead
    <3>3. <<>> \in Seq(ChunkSet)
      OBVIOUS
    <3> QED BY <3>1, <3>2, <3>3
  <2> QED BY <1>3, <1>4, <2>1, <2>2
<1> HIDE DEF leftEnd, rightStart, left, right, hours
(* The raw chunk at the right is appended before the hours to its left. *)
<1>8. right \o hours \in Seq(ChunkSet) /\ Partition(right \o hours, leftEnd, end)
  BY <1>3, <1>4, <1>6, <1>7, PartitionsJoin
<1>9. Partition(left \o (right \o hours), start, end)
  BY <1>3, <1>5, <1>8, PartitionsJoin
<1>10. left \o right \o hours = left \o (right \o hours)
  BY <1>5, <1>6, <1>7
<1> QED BY <1>1, <1>9, <1>10

(* The days asked of samples_name hold the row of every sample in the      *)
(* range, whose timestamp is the start of its day.                         *)
THEOREM NamesCoverRange ==
    ASSUME NEW start \in Nat, NEW end \in Nat, start < end,
           NEW t \in Nat, start <= t, t < end
    PROVE  /\ FrameNamesDays(start, end).start <= Rollup("name", t)
           /\ Rollup("name", t) < FrameNamesDays(start, end).end
<1> DEFINE startDay == StartOf(Day, start)
           endDay == IF IsAligned(Day, end) THEN end ELSE NextOf(Day, end)
<1>1. /\ startDay \in Nat /\ IsAligned(Day, startDay) /\ startDay <= start
      /\ StartOf(Day, t) \in Nat /\ StartOf(Day, t) <= t
      /\ endDay \in Nat /\ end <= endDay
  <2>1. NextOf(Day, end) \in Nat /\ end < NextOf(Day, end)
    BY DayAssumption, StartAligned
  <2>2. endDay \in Nat /\ end <= endDay
    BY <2>1
  <2>3. startDay \in Nat /\ IsAligned(Day, startDay)
    BY DayAssumption, StartAligned
  <2>4. startDay <= start /\ StartOf(Day, t) \in Nat /\ StartOf(Day, t) <= t
    BY DayAssumption, StartBounds
  <2> QED BY <2>2, <2>3, <2>4
<1>2. startDay <= StartOf(Day, t)
  BY <1>1, DayAssumption, AlignedBoundSeparates
<1>3. StartOf(Day, t) < endDay
  BY <1>1
<1>4. startDay < endDay
  BY <1>1
<1>5. FrameNamesDays(start, end) = [start |-> startDay, end |-> endDay]
  BY <1>4 DEF FrameNamesDays
<1>6. Rollup("name", t) = StartOf(Day, t)
  BY DEF Rollup
<1> HIDE DEF startDay, endDay
<1> QED BY <1>2, <1>3, <1>5, <1>6

-----------------------------------------------------------------------------
(* Induction on the naturals, and on the subsets of a finite set, with the *)
(* property given as the set of those that have it.                        *)
LEMMA SetOfNaturals ==
    ASSUME NEW P, 0 \in P, \A n \in Nat : n \in P => n + 1 \in P
    PROVE  Nat \subseteq P
  <1> SUFFICES ASSUME Nat \ P # {} PROVE FALSE
    OBVIOUS
  <1>1. IsWellFoundedOn(OpToRel(<, Nat), Nat)
    BY NatLessThanWellFounded
  <1>2. PICK n \in Nat \ P : \A m \in Nat \ P : ~(<<m, n>> \in OpToRel(<, Nat))
    BY <1>1, WFMin
  <1>3. n \in Nat /\ n # 0 /\ n - 1 \in Nat /\ n - 1 < n
    OBVIOUS
  <1>4. <<n - 1, n>> \in OpToRel(<, Nat)
    BY <1>3 DEF OpToRel
  <1>5. n - 1 \in P
    BY <1>2, <1>3, <1>4
  <1>6. (n - 1) + 1 = n
    BY <1>3
  <1> QED BY <1>3, <1>5, <1>6

LEMMA SubsetsOfFiniteSet ==
    ASSUME NEW S, IsFiniteSet(S), NEW P, {} \in P,
           \A T \in SUBSET S : T # {} /\ (\A x \in T : T \ {x} \in P) => T \in P
    PROVE  SUBSET S \subseteq P
  <1> DEFINE Q == {n \in Nat : \A T \in SUBSET S : Cardinality(T) <= n => T \in P}
  <1>1. \A T \in SUBSET S : IsFiniteSet(T) /\ Cardinality(T) \in Nat
    BY FS_Subset, FS_CardinalityType
  <1>2. 0 \in Q
    <2> SUFFICES ASSUME NEW T \in SUBSET S, Cardinality(T) <= 0
                 PROVE  T \in P
      OBVIOUS
    <2>1. Cardinality(T) = 0 /\ IsFiniteSet(T)
      BY <1>1
    <2> QED BY <2>1, FS_EmptySet
  <1>3. ASSUME NEW n \in Nat, n \in Q
        PROVE  n + 1 \in Q
    <2> SUFFICES ASSUME NEW T \in SUBSET S, Cardinality(T) <= n + 1
                 PROVE  T \in P
      OBVIOUS
    <2>1. CASE T = {}
      BY <2>1
    <2>2. CASE T # {}
      <3>1. \A x \in T : Cardinality(T \ {x}) = Cardinality(T) - 1
        BY <1>1, FS_RemoveElement
      <3>2. \A x \in T : T \ {x} \in P
        BY <1>1, <1>3, <3>1
      <3> QED BY <2>2, <3>2
    <2> QED BY <2>1, <2>2
  <1> HIDE DEF Q
  <1>4. Nat \subseteq Q
    BY <1>2, <1>3, SetOfNaturals
  <1>5. \A n \in Q : \A T \in SUBSET S : Cardinality(T) <= n => T \in P
    BY DEF Q
  <1> QED BY <1>1, <1>4, <1>5

-----------------------------------------------------------------------------
(* FoldSet's way through a set. *)
Pick(s) == CHOOSE x \in s : TRUE
Adds(g, f, D) ==
    g = [s \in D |-> IF s = {} THEN 0 ELSE f[Pick(s)] + g[s \ {Pick(s)}]]

LEMMA PickInSet == ASSUME NEW s, s # {} PROVE Pick(s) \in s
  BY DEF Pick

(* The recursive function behind FoldSet exists, level by level. *)
LEMMA AddsExists ==
    ASSUME NEW f, NEW S, IsFiniteSet(S)
    PROVE  \E g : Adds(g, f, SUBSET S)
  <1> DEFINE Upto(n) == {s \in SUBSET S : Cardinality(s) <= n}
  <1> DEFINE P == {n \in Nat : \E g : Adds(g, f, Upto(n))}
  <1>1. \A s \in SUBSET S : /\ IsFiniteSet(s) /\ Cardinality(s) \in Nat
                            /\ Cardinality(s) <= Cardinality(S)
    BY FS_Subset, FS_CardinalityType
  <1>2. \A s \in SUBSET S : s # {} =>
           /\ s \ {Pick(s)} \in SUBSET S
           /\ Cardinality(s \ {Pick(s)}) = Cardinality(s) - 1
    BY <1>1, PickInSet, FS_RemoveElement
  <1>3. 0 \in P
    <2> DEFINE g == [s \in Upto(0) |-> 0]
    <2>1. \A s \in Upto(0) : s = {}
      BY <1>1, FS_EmptySet
    <2>2. g = [s \in Upto(0) |-> IF s = {} THEN 0 ELSE f[Pick(s)] + g[s \ {Pick(s)}]]
      BY <2>1
    <2>3. Adds(g, f, Upto(0))
      BY <2>2 DEF Adds
    <2> QED BY <2>3
  <1>4. ASSUME NEW n \in Nat, n \in P
        PROVE  n + 1 \in P
    <2>1. PICK g : Adds(g, f, Upto(n))
      BY <1>4
    <2> DEFINE h == [s \in Upto(n + 1) |->
                        IF s = {} THEN 0 ELSE f[Pick(s)] + g[s \ {Pick(s)}]]
    <2>2. \A s \in Upto(n) : s \in Upto(n + 1) /\ h[s] = g[s]
      <3> SUFFICES ASSUME NEW s \in Upto(n)
                   PROVE  s \in Upto(n + 1) /\ h[s] = g[s]
        OBVIOUS
      <3>1. s \in Upto(n + 1)
        BY <1>1
      <3>2. g[s] = IF s = {} THEN 0 ELSE f[Pick(s)] + g[s \ {Pick(s)}]
        BY <2>1 DEF Adds
      <3> QED BY <3>1, <3>2
    <2>3. \A s \in Upto(n + 1) : s # {} => s \ {Pick(s)} \in Upto(n)
      BY <1>1, <1>2
    <2>4. \A s \in Upto(n + 1) :
             h[s] = IF s = {} THEN 0 ELSE f[Pick(s)] + h[s \ {Pick(s)}]
      BY <2>2, <2>3
    <2>5. Adds(h, f, Upto(n + 1))
      BY <2>4 DEF Adds
    <2>6. \E w : Adds(w, f, Upto(n + 1))
      <3> HIDE DEF h, Upto
      <3> QED BY <2>5
    <2>7. n + 1 \in Nat
      OBVIOUS
    <2> HIDE DEF h, Upto
    <2> QED BY <2>6, <2>7, Zenon
  <1> HIDE DEF P
  <1>5. Cardinality(S) \in P
    BY <1>1, <1>3, <1>4, SetOfNaturals
  <1>6. Upto(Cardinality(S)) = SUBSET S
    BY <1>1
  <1> QED BY <1>5, <1>6 DEF P

(* Two such functions agree on every set both are defined on. *)
LEMMA AddsAgree ==
    ASSUME NEW f, NEW S, IsFiniteSet(S), NEW D, NEW E, NEW g, NEW h,
           SUBSET S \subseteq D, SUBSET S \subseteq E,
           Adds(g, f, D), Adds(h, f, E)
    PROVE  g[S] = h[S]
  <1> DEFINE P == {s \in SUBSET S : g[s] = h[s]}
  <1>1. \A s \in SUBSET S :
           /\ g[s] = IF s = {} THEN 0 ELSE f[Pick(s)] + g[s \ {Pick(s)}]
           /\ h[s] = IF s = {} THEN 0 ELSE f[Pick(s)] + h[s \ {Pick(s)}]
    BY DEF Adds
  <1>2. {} \in P
    BY <1>1
  <1>3. ASSUME NEW T \in SUBSET S, T # {}, \A x \in T : T \ {x} \in P
        PROVE  T \in P
    <2>1. Pick(T) \in T
      BY <1>3, PickInSet
    <2> QED BY <1>1, <1>3, <2>1
  <1> HIDE DEF P
  <1>4. SUBSET S \subseteq P
    BY <1>2, <1>3, SubsetsOfFiniteSet
  <1> QED BY <1>4 DEF P

-----------------------------------------------------------------------------
(* The first facts: nothing to add, and an element taken out by FoldSet.   *)
LEMMA SumUnfold ==
    ASSUME NEW f, NEW S, IsFiniteSet(S)
    PROVE  /\ SumOver(f, {}) = 0
           /\ S # {} => SumOver(f, S) = f[Pick(S)] + SumOver(f, S \ {Pick(S)})
  <1>1. \A T : IsFiniteSet(T) => \E h : Adds(h, f, SUBSET T) /\ SumOver(f, T) = h[T]
    <2> SUFFICES ASSUME NEW T, IsFiniteSet(T)
                 PROVE  \E h : Adds(h, f, SUBSET T) /\ SumOver(f, T) = h[T]
      OBVIOUS
    <2> DEFINE it == CHOOSE h : Adds(h, f, SUBSET T)
    <2>1. Adds(it, f, SUBSET T)
      BY AddsExists, Zenon
    <2>2. SumOver(f, T) = it[T]
      BY Zenon DEF SumOver, FoldSet, MapThenFoldSet, Adds, Pick
    <2> HIDE DEF it
    <2> QED BY <2>1, <2>2
  <1>2. SumOver(f, {}) = 0
    <2>1. PICK h : Adds(h, f, SUBSET {}) /\ SumOver(f, {}) = h[{}]
      BY <1>1, FS_EmptySet
    <2> QED BY <2>1 DEF Adds
  <1>3. ASSUME S # {}
        PROVE  SumOver(f, S) = f[Pick(S)] + SumOver(f, S \ {Pick(S)})
    <2> DEFINE T == S \ {Pick(S)}
    <2>1. IsFiniteSet(T) /\ T \in SUBSET S
      BY FS_RemoveElement
    <2>2. PICK h : Adds(h, f, SUBSET S) /\ SumOver(f, S) = h[S]
      BY <1>1
    <2>3. PICK g : Adds(g, f, SUBSET T) /\ SumOver(f, T) = g[T]
      BY <1>1, <2>1
    <2>4. h[S] = f[Pick(S)] + h[T]
      BY <1>3, <2>2 DEF Adds
    <2>5. SUBSET T \subseteq SUBSET S
      BY <2>1
    <2> HIDE DEF T
    <2>6. h[T] = g[T]
      BY <2>1, <2>2, <2>3, <2>5, AddsAgree
    <2> QED BY <2>2, <2>3, <2>4, <2>6 DEF T
  <1> QED BY <1>2, <1>3

(* The order does not matter: any element may be taken out. *)
LEMMA SumRemove ==
    ASSUME NEW f, NEW S, IsFiniteSet(S), \A x \in S : f[x] \in Int
    PROVE  /\ SumOver(f, S) \in Int
           /\ \A x \in S : SumOver(f, S) = f[x] + SumOver(f, S \ {x})
  <1> DEFINE P == {T \in SUBSET S : /\ SumOver(f, T) \in Int
                                   /\ \A x \in T : SumOver(f, T) = f[x] + SumOver(f, T \ {x})}
  <1> DEFINE Good == {T \in SUBSET S : SUBSET T \subseteq P}
  <1>1. \A T \in SUBSET S : IsFiniteSet(T)
    BY FS_Subset
  <1>2. {} \in Good
    <2>1. SumOver(f, {}) = 0 /\ SUBSET {} = {{}}
      BY SumUnfold, FS_EmptySet
    <2>2. {} \in P
      BY <2>1
    <2> QED BY <2>1, <2>2
  <1>3. ASSUME NEW T \in SUBSET S, T # {}, \A x \in T : T \ {x} \in Good
        PROVE  T \in Good
    <2> DEFINE c == Pick(T)
    <2>1. c \in T /\ SumOver(f, T) = f[c] + SumOver(f, T \ {c}) /\ f[c] \in Int
      BY <1>1, <1>3, PickInSet, SumUnfold
    <2> HIDE DEF c
    <2>2. \A U \in SUBSET T : U # T => U \in P
      <3> SUFFICES ASSUME NEW U \in SUBSET T, U # T PROVE U \in P
        OBVIOUS
      <3>1. PICK x \in T : x \notin U
        OBVIOUS
      <3>2. U \in SUBSET (T \ {x})
        BY <3>1
      <3> QED BY <1>3, <3>2
    <2>3. SumOver(f, T \ {c}) \in Int
      BY <2>1, <2>2
    <2>4. SumOver(f, T) \in Int
      BY <2>1, <2>3
    <2>5. ASSUME NEW x \in T
          PROVE  SumOver(f, T) = f[x] + SumOver(f, T \ {x})
      <3>1. CASE x = c
        BY <2>1, <3>1
      <3>2. CASE x # c
        <4>1. /\ T \ {c} \in P /\ x \in T \ {c}
              /\ T \ {x} \in P /\ c \in T \ {x}
              /\ (T \ {c}) \ {x} \in P
          BY <2>1, <2>2, <3>2
        <4>2. SumOver(f, T \ {c}) = f[x] + SumOver(f, (T \ {c}) \ {x})
          BY <4>1
        <4>3. SumOver(f, T \ {x}) = f[c] + SumOver(f, (T \ {x}) \ {c})
          BY <4>1
        <4>4. SumOver(f, T \ {x}) = f[c] + SumOver(f, (T \ {c}) \ {x})
          <5>1. (T \ {x}) \ {c} = (T \ {c}) \ {x}
            OBVIOUS
          <5> QED BY <4>3, <5>1
        <4>5. SumOver(f, (T \ {c}) \ {x}) \in Int /\ f[x] \in Int
          BY <4>1
        <4>6. \A a, b, m \in Int : b + (a + m) = a + (b + m)
          OBVIOUS
        <4> QED BY <2>1, <4>2, <4>4, <4>5, <4>6
      <3> QED BY <3>1, <3>2
    <2> QED BY <2>2, <2>4, <2>5
  <1> HIDE DEF Good
  <1>4. S \in Good
    BY <1>2, <1>3, SubsetsOfFiniteSet
  <1> QED BY <1>4 DEF Good

-----------------------------------------------------------------------------
(* SumOver, one element at a time. *)
LEMMA SumEmpty == ASSUME NEW f PROVE SumOver(f, {}) = 0
  BY SumUnfold, FS_EmptySet

LEMMA SumInt ==
    ASSUME NEW f, NEW S, IsFiniteSet(S), \A x \in S : f[x] \in Int
    PROVE  SumOver(f, S) \in Int
  BY SumRemove

LEMMA SumAdd ==
    ASSUME NEW f, NEW S, IsFiniteSet(S), NEW y, y \notin S,
           \A x \in S \cup {y} : f[x] \in Int
    PROVE  SumOver(f, S \cup {y}) = f[y] + SumOver(f, S)
  <1>1. IsFiniteSet(S \cup {y})
    BY FS_AddElement
  <1>2. (S \cup {y}) \ {y} = S
    OBVIOUS
  <1>3. SumOver(f, S \cup {y}) = f[y] + SumOver(f, (S \cup {y}) \ {y})
    BY <1>1, SumRemove
  <1> QED BY <1>2, <1>3

(* A comparison of two functions, element by element, carries over. *)
LEMMA SumCompare ==
    ASSUME NEW f, NEW g, NEW S, IsFiniteSet(S),
           \A x \in S : f[x] \in Int /\ g[x] \in Int /\ f[x] <= g[x]
    PROVE  SumOver(f, S) <= SumOver(g, S)
  <1> DEFINE P == {T \in SUBSET S : SumOver(f, T) <= SumOver(g, T)}
  <1>1. {} \in P
    BY SumEmpty
  <1>2. ASSUME NEW T \in SUBSET S, T # {}, \A x \in T : T \ {x} \in P
        PROVE  T \in P
    <2>1. PICK x \in T : T \ {x} \in P
      BY <1>2
    <2>2. IsFiniteSet(T) /\ IsFiniteSet(T \ {x})
      BY FS_Subset, FS_RemoveElement
    <2>3. /\ SumOver(f, T) = f[x] + SumOver(f, T \ {x})
          /\ SumOver(f, T \ {x}) \in Int
      BY <2>2, SumRemove
    <2>4. /\ SumOver(g, T) = g[x] + SumOver(g, T \ {x})
          /\ SumOver(g, T \ {x}) \in Int
      BY <2>2, SumRemove
    <2>5. SumOver(f, T \ {x}) <= SumOver(g, T \ {x}) /\ f[x] <= g[x]
      BY <2>1
    <2>6. \A a, b, c, d \in Int : a <= b /\ c <= d => a + c <= b + d
      OBVIOUS
    <2> QED BY <2>3, <2>4, <2>5, <2>6
  <1> HIDE DEF P
  <1>3. S \in P
    BY <1>1, <1>2, SubsetsOfFiniteSet
  <1> QED BY <1>3 DEF P

LEMMA SumEqual ==
    ASSUME NEW f, NEW g, NEW S, IsFiniteSet(S),
           \A x \in S : f[x] \in Int /\ f[x] = g[x]
    PROVE  SumOver(f, S) = SumOver(g, S)
  <1>1. SumOver(f, S) <= SumOver(g, S) /\ SumOver(g, S) <= SumOver(f, S)
    BY SumCompare
  <1>2. SumOver(f, S) \in Int /\ SumOver(g, S) \in Int
    BY SumInt
  <1> QED BY <1>1, <1>2

LEMMA SumZero ==
    ASSUME NEW f, NEW S, IsFiniteSet(S), \A x \in S : f[x] = 0
    PROVE  SumOver(f, S) = 0
  <1> DEFINE P == {T \in SUBSET S : SumOver(f, T) = 0}
  <1>1. {} \in P
    BY SumEmpty
  <1>2. ASSUME NEW T \in SUBSET S, T # {}, \A x \in T : T \ {x} \in P
        PROVE  T \in P
    <2>1. PICK x \in T : T \ {x} \in P
      BY <1>2
    <2>2. IsFiniteSet(T)
      BY FS_Subset
    <2>3. SumOver(f, T) = f[x] + SumOver(f, T \ {x})
      BY <2>2, SumRemove
    <2> QED BY <2>1, <2>3
  <1> HIDE DEF P
  <1>3. S \in P
    BY <1>1, <1>2, SubsetsOfFiniteSet
  <1> QED BY <1>3 DEF P

(* Sums of two functions, and over two sets apart. *)
LEMMA SumPlus ==
    ASSUME NEW f, NEW g, NEW h, NEW S, IsFiniteSet(S),
           \A x \in S : f[x] \in Int /\ g[x] \in Int /\ h[x] = f[x] + g[x]
    PROVE  SumOver(h, S) = SumOver(f, S) + SumOver(g, S)
  <1> DEFINE P == {T \in SUBSET S : SumOver(h, T) = SumOver(f, T) + SumOver(g, T)}
  <1>1. {} \in P
    BY SumEmpty
  <1>2. ASSUME NEW T \in SUBSET S, T # {}, \A x \in T : T \ {x} \in P
        PROVE  T \in P
    <2>1. PICK x \in T : T \ {x} \in P
      BY <1>2
    <2>2. IsFiniteSet(T) /\ IsFiniteSet(T \ {x})
      BY FS_Subset, FS_RemoveElement
    <2>3. \A y \in T : h[y] \in Int
      OBVIOUS
    <2>4. SumOver(f, T) = f[x] + SumOver(f, T \ {x}) /\ SumOver(f, T \ {x}) \in Int
      BY <2>2, SumRemove
    <2>5. SumOver(g, T) = g[x] + SumOver(g, T \ {x}) /\ SumOver(g, T \ {x}) \in Int
      BY <2>2, SumRemove
    <2>6. SumOver(h, T) = h[x] + SumOver(h, T \ {x})
      BY <2>2, <2>3, SumRemove
    <2>7. SumOver(h, T \ {x}) = SumOver(f, T \ {x}) + SumOver(g, T \ {x}) /\ h[x] = f[x] + g[x]
      BY <2>1
    <2>8. \A a, b, c, d \in Int : (a + b) + (c + d) = (a + c) + (b + d)
      OBVIOUS
    <2> QED BY <2>4, <2>5, <2>6, <2>7, <2>8
  <1> HIDE DEF P
  <1>3. S \in P
    BY <1>1, <1>2, SubsetsOfFiniteSet
  <1> QED BY <1>3 DEF P

LEMMA SumUnion ==
    ASSUME NEW f, NEW S, NEW T, IsFiniteSet(S), IsFiniteSet(T), S \cap T = {},
           \A x \in S \cup T : f[x] \in Int
    PROVE  SumOver(f, S \cup T) = SumOver(f, S) + SumOver(f, T)
  <1> DEFINE P == {U \in SUBSET T : SumOver(f, S \cup U) = SumOver(f, S) + SumOver(f, U)}
  <1>1. {} \in P
    <2>1. S \cup {} = S /\ SumOver(f, {}) = 0 /\ SumOver(f, S) \in Int
      BY SumEmpty, SumInt
    <2> QED BY <2>1
  <1>2. ASSUME NEW U \in SUBSET T, U # {}, \A x \in U : U \ {x} \in P
        PROVE  U \in P
    <2>1. PICK x \in U : U \ {x} \in P
      BY <1>2
    <2>2. IsFiniteSet(U) /\ IsFiniteSet(U \ {x}) /\ IsFiniteSet(S \cup U)
      BY FS_Subset, FS_RemoveElement, FS_Union
    <2>3. (S \cup U) \ {x} = S \cup (U \ {x}) /\ x \in S \cup U
      OBVIOUS
    <2>4. SumOver(f, S \cup U) = f[x] + SumOver(f, S \cup (U \ {x}))
      <3>1. SumOver(f, S \cup U) = f[x] + SumOver(f, (S \cup U) \ {x})
        BY <2>2, <2>3, SumRemove
      <3> QED BY <2>3, <3>1
    <2>5. SumOver(f, U) = f[x] + SumOver(f, U \ {x}) /\ SumOver(f, U \ {x}) \in Int
      BY <2>2, SumRemove
    <2>6. SumOver(f, S \cup (U \ {x})) = SumOver(f, S) + SumOver(f, U \ {x})
      BY <2>1
    <2>7. SumOver(f, S) \in Int /\ f[x] \in Int
      BY SumInt
    <2>8. \A a, b, c \in Int : a + (b + c) = b + (a + c)
      OBVIOUS
    <2>9. SumOver(f, S \cup U) = SumOver(f, S) + SumOver(f, U)
      <3> HIDE DEF P
      <3> QED BY <2>4, <2>5, <2>6, <2>7, <2>8
    <2> QED BY <2>9
  <1> HIDE DEF P
  <1>3. T \in P
    BY <1>1, <1>2, SubsetsOfFiniteSet
  <1> QED BY <1>3 DEF P

-----------------------------------------------------------------------------
(* Sums of counts: never negative, and no less over more elements. *)
LEMMA SumNat ==
    ASSUME NEW f, NEW S, IsFiniteSet(S), \A x \in S : f[x] \in Nat
    PROVE  SumOver(f, S) \in Nat
  <1> DEFINE z == [x \in S |-> 0]
  <1>1. SumOver(z, S) = 0
    BY SumZero
  <1>2. SumOver(z, S) <= SumOver(f, S)
    BY SumCompare
  <1>3. SumOver(f, S) \in Int
    BY SumInt
  <1> HIDE DEF z
  <1> QED BY <1>1, <1>2, <1>3

LEMMA SumSubset ==
    ASSUME NEW f, NEW S, IsFiniteSet(S), NEW T \in SUBSET S,
           \A x \in S : f[x] \in Nat
    PROVE  SumOver(f, T) <= SumOver(f, S)
  <1>1. IsFiniteSet(T) /\ IsFiniteSet(S \ T)
    BY FS_Subset
  <1>2. T \cup (S \ T) = S /\ T \cap (S \ T) = {}
    OBVIOUS
  <1>3. SumOver(f, S) = SumOver(f, T) + SumOver(f, S \ T)
    <2>1. SumOver(f, T \cup (S \ T)) = SumOver(f, T) + SumOver(f, S \ T)
      BY <1>1, <1>2, SumUnion
    <2> QED BY <1>2, <2>1
  <1>4. SumOver(f, T) \in Nat /\ SumOver(f, S \ T) \in Nat
    BY <1>1, SumNat
  <1> QED BY <1>3, <1>4

LEMMA SumMember ==
    ASSUME NEW f, NEW S, IsFiniteSet(S), NEW x \in S, \A y \in S : f[y] \in Nat
    PROVE  f[x] <= SumOver(f, S)
  <1>1. SumOver(f, S) = f[x] + SumOver(f, S \ {x})
    BY SumRemove
  <1>2. SumOver(f, S \ {x}) \in Nat
    BY FS_RemoveElement, SumNat
  <1> QED BY <1>1, <1>2

(* Nothing changes if elements that count nothing are left out. *)
LEMMA SumSupport ==
    ASSUME NEW f, NEW S, IsFiniteSet(S), NEW T \in SUBSET S,
           \A x \in S : f[x] \in Int, \A x \in S \ T : f[x] = 0
    PROVE  SumOver(f, S) = SumOver(f, T)
  <1>1. IsFiniteSet(T) /\ IsFiniteSet(S \ T)
    BY FS_Subset
  <1>2. T \cup (S \ T) = S /\ T \cap (S \ T) = {}
    OBVIOUS
  <1>3. SumOver(f, S) = SumOver(f, T) + SumOver(f, S \ T)
    <2>1. SumOver(f, T \cup (S \ T)) = SumOver(f, T) + SumOver(f, S \ T)
      BY <1>1, <1>2, SumUnion
    <2> QED BY <1>2, <2>1
  <1>4. SumOver(f, S \ T) = 0 /\ SumOver(f, T) \in Int
    BY <1>1, SumZero, SumInt
  <1> QED BY <1>3, <1>4

(* A set taken apart in groups: the totals of the groups add up to the     *)
(* total.  group names the members of each group, h its total.             *)
LEMMA SumGroups ==
    ASSUME NEW f, NEW S, IsFiniteSet(S), \A x \in S : f[x] \in Int,
           NEW T, IsFiniteSet(T),
           NEW group, \A t \in T : group[t] \subseteq S,
           \A x \in S : \E t \in T : x \in group[t],
           \A t, u \in T : t # u => group[t] \cap group[u] = {},
           NEW h, \A t \in T : h[t] = SumOver(f, group[t])
    PROVE  SumOver(h, T) = SumOver(f, S)
  <1> DEFINE In(U) == {x \in S : \E t \in U : x \in group[t]}
  <1> DEFINE P == {U \in SUBSET T : SumOver(h, U) = SumOver(f, In(U))}
  <1>1. \A V \in SUBSET S : IsFiniteSet(V) /\ SumOver(f, V) \in Int
    <2> SUFFICES ASSUME NEW V \in SUBSET S PROVE IsFiniteSet(V) /\ SumOver(f, V) \in Int
      OBVIOUS
    <2>1. IsFiniteSet(V) /\ \A x \in V : f[x] \in Int
      BY FS_Subset
    <2> QED BY <2>1, SumInt
  <1>2. \A U : In(U) \in SUBSET S
    OBVIOUS
  <1>3. {} \in P
    <2>1. In({}) = {}
      OBVIOUS
    <2>2. SumOver(h, {}) = 0 /\ SumOver(f, In({})) = 0
      BY <2>1, SumEmpty
    <2> QED BY <2>2
  <1>4. \A t \in T : h[t] \in Int
    BY <1>1
  <1>5. ASSUME NEW U \in SUBSET T, U # {}, \A x \in U : U \ {x} \in P
        PROVE  U \in P
    <2>1. PICK t \in U : U \ {t} \in P
      BY <1>5
    <2>2. SumOver(h, U \ {t}) = SumOver(f, In(U \ {t})) /\ t \in T
      BY <2>1
    <2>3. SumOver(h, U) = h[t] + SumOver(h, U \ {t})
      <3>1. IsFiniteSet(U) /\ \A x \in U : h[x] \in Int
        BY <1>4, FS_Subset
      <3> HIDE DEF In, P
      <3> QED BY <3>1, SumRemove
    <2>4. In(U) = group[t] \cup In(U \ {t})
      OBVIOUS
    <2>5. group[t] \cap In(U \ {t}) = {}
      OBVIOUS
    <2>6. group[t] \in SUBSET S
      BY <2>2
    <2> HIDE DEF In
    <2>7. SumOver(f, In(U)) = SumOver(f, group[t]) + SumOver(f, In(U \ {t}))
      <3>1. \A x \in group[t] \cup In(U \ {t}) : f[x] \in Int
        BY <1>2, <2>6
      <3>2. IsFiniteSet(group[t]) /\ IsFiniteSet(In(U \ {t}))
        BY <1>1, <1>2, <2>6
      <3>3. SumOver(f, group[t] \cup In(U \ {t})) =
               SumOver(f, group[t]) + SumOver(f, In(U \ {t}))
        BY <2>5, <3>1, <3>2, SumUnion
      <3> QED BY <2>4, <3>3
    <2>8. SumOver(h, U) = SumOver(f, In(U))
      <3> HIDE DEF P
      <3> QED BY <2>2, <2>3, <2>7
    <2> QED BY <2>8
  <1>6. T \in P
    <2> HIDE DEF P, In
    <2> QED BY <1>3, <1>5, SubsetsOfFiniteSet
  <1>7. In(T) = S
    OBVIOUS
  <1>8. SumOver(h, T) = SumOver(f, In(T))
    BY <1>6
  <1> HIDE DEF In, P
  <1> QED BY <1>7, <1>8

(* Rows and columns: numbers added up in one order or the other. *)
LEMMA SumSwap ==
    ASSUME NEW S, IsFiniteSet(S), NEW T, IsFiniteSet(T),
           NEW m, \A x \in S : \A y \in T : m[x][y] \in Int,
           NEW f, \A x \in S : f[x] = SumOver(m[x], T),
           NEW col, \A y \in T : \A x \in S : col[y][x] = m[x][y],
           NEW g, \A y \in T : g[y] = SumOver(col[y], S)
    PROVE  SumOver(f, S) = SumOver(g, T)
  <1> DEFINE row(U) == [x \in S |-> SumOver(m[x], U)]
  <1> DEFINE P == {U \in SUBSET T : SumOver(row(U), S) = SumOver(g, U)}
  <1>1. \A y \in T : \A x \in S : col[y][x] = m[x][y] /\ col[y][x] \in Int
    OBVIOUS
  <1>2. \A U : \A x \in S : row(U)[x] = SumOver(m[x], U)
    OBVIOUS
  <1>3. \A U \in SUBSET T : IsFiniteSet(U) /\ \A x \in S : SumOver(m[x], U) \in Int
    <2> SUFFICES ASSUME NEW U \in SUBSET T
                 PROVE  IsFiniteSet(U) /\ \A x \in S : SumOver(m[x], U) \in Int
      OBVIOUS
    <2>1. IsFiniteSet(U)
      BY FS_Subset
    <2>2. ASSUME NEW x \in S PROVE SumOver(m[x], U) \in Int
      BY <2>1, SumInt
    <2> QED BY <2>1, <2>2
  <1>4. \A y \in T : g[y] \in Int
    <2> SUFFICES ASSUME NEW y \in T PROVE SumOver(col[y], S) \in Int
      OBVIOUS
    <2> QED BY <1>1, SumInt
  <1> HIDE DEF row
  <1>5. {} \in P
    <2>1. \A x \in S : row({})[x] = 0
      BY <1>2, SumEmpty
    <2>2. SumOver(row({}), S) = 0 /\ SumOver(g, {}) = 0
      BY <2>1, SumZero, SumEmpty
    <2> QED BY <2>2
  <1>6. ASSUME NEW U \in SUBSET T, U # {}, \A x \in U : U \ {x} \in P
        PROVE  U \in P
    <2>1. PICK y \in U : U \ {y} \in P
      BY <1>6
    <2> DEFINE V == U \ {y}
    <2>2. SumOver(row(V), S) = SumOver(g, V)
      BY <2>1
    <2>3. y \in T /\ V \in SUBSET T
      OBVIOUS
    <2>4. \A x \in S : /\ col[y][x] \in Int
                       /\ row(V)[x] \in Int
                       /\ row(U)[x] = col[y][x] + row(V)[x]
      <3> SUFFICES ASSUME NEW x \in S
                   PROVE  /\ col[y][x] \in Int
                          /\ row(V)[x] \in Int
                          /\ row(U)[x] = col[y][x] + row(V)[x]
        OBVIOUS
      <3>1. SumOver(m[x], U) = m[x][y] + SumOver(m[x], U \ {y})
        <4>1. IsFiniteSet(U) /\ \A z \in U : m[x][z] \in Int
          BY <1>3
        <4> QED BY <4>1, SumRemove
      <3> QED BY <1>1, <1>2, <1>3, <2>3, <3>1
    <2>5. SumOver(g, U) = g[y] + SumOver(g, V) /\ SumOver(g, V) \in Int
      <3>1. IsFiniteSet(U) /\ IsFiniteSet(V) /\ \A z \in U : g[z] \in Int
        BY <1>3, <1>4, <2>3
      <3>2. SumOver(g, U) = g[y] + SumOver(g, U \ {y})
        BY <3>1, SumRemove
      <3>3. SumOver(g, V) \in Int
        BY <3>1, SumInt
      <3> QED BY <3>2, <3>3
    <2> HIDE DEF V
    <2>6. SumOver(row(U), S) = SumOver(col[y], S) + SumOver(row(V), S)
      BY <2>4, SumPlus
    <2>7. SumOver(row(U), S) = SumOver(g, U)
      BY <1>1, <2>2, <2>3, <2>5, <2>6
    <2> QED BY <2>7
  <1>7. T \in P
    <2> HIDE DEF P
    <2> QED BY <1>5, <1>6, SubsetsOfFiniteSet
  <1>8. SumOver(row(T), S) = SumOver(f, S)
    <2>1. \A x \in S : f[x] \in Int /\ f[x] = row(T)[x]
      BY <1>2, <1>3
    <2> QED BY <2>1, SumEqual
  <1> QED BY <1>7, <1>8 DEF P

-----------------------------------------------------------------------------
(* A finite set of integers that is not empty has a greatest member and a  *)
(* least one, and Max and Min choose them.                                 *)
LEMMA GreatestAndLeast ==
    ASSUME NEW S, IsFiniteSet(S), S \subseteq Int, S # {}
    PROVE  /\ Max(S) \in S /\ \A i \in S : i <= Max(S)
           /\ Min(S) \in S /\ \A i \in S : Min(S) <= i
  <1> DEFINE Bounded(T) == /\ \E x \in T : \A y \in T : x >= y
                           /\ \E x \in T : \A y \in T : x <= y
  <1> DEFINE P == {T \in SUBSET S : T # {} => Bounded(T)}
  <1>1. {} \in P
    OBVIOUS
  <1>2. ASSUME NEW T \in SUBSET S, T # {}, \A x \in T : T \ {x} \in P
        PROVE  T \in P
    <2>1. PICK x \in T : T \ {x} \in P
      BY <1>2
    <2>2. CASE T \ {x} = {}
      <3>1. \A y \in T : x >= y /\ x <= y
        BY <2>2
      <3> QED BY <3>1
    <2>3. CASE T \ {x} # {}
      <3>1. PICK g \in T \ {x} : \A y \in T \ {x} : g >= y
        BY <2>1, <2>3
      <3>2. PICK l \in T \ {x} : \A y \in T \ {x} : l <= y
        BY <2>1, <2>3
      <3>3. \E z \in T : \A y \in T : z >= y
        <4>1. CASE x >= g
          BY <3>1, <4>1
        <4>2. CASE ~(x >= g)
          BY <3>1, <4>2
        <4> QED BY <4>1, <4>2
      <3>4. \E z \in T : \A y \in T : z <= y
        <4>1. CASE x <= l
          BY <3>2, <4>1
        <4>2. CASE ~(x <= l)
          BY <3>2, <4>2
        <4> QED BY <4>1, <4>2
      <3> QED BY <3>3, <3>4
    <2> QED BY <2>2, <2>3
  <1> HIDE DEF P
  <1>3. SUBSET S \subseteq P
    BY <1>1, <1>2, SubsetsOfFiniteSet
  <1>4. Bounded(S)
    BY <1>3 DEF P
  <1> QED BY <1>4 DEF Max, Min
=============================================================================
