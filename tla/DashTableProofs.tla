-------------------------- MODULE DashTableProofs --------------------------
(***************************************************************************)
(* The directory of a DashTable, for every hash function, every width of a *)
(* hash, every initial size and every split threshold: it stays consistent *)
(* however splits and doublings follow one another, no segment passes the  *)
(* threshold, and the table is a map.                                      *)
(***************************************************************************)
EXTENDS DashTable, FiniteSetTheorems, TLAPS

-----------------------------------------------------------------------------
(* Powers of two, which the provers know only as the sizes of power sets.  *)

\* 2^n is the number of subsets of a set of n elements.
LEMMA PowerIsSize ==
    ASSUME NEW a \in Nat, NEW n \in Nat
    PROVE  IsFiniteSet(SUBSET (a + 1 .. a + n)) /\ Cardinality(SUBSET (a + 1 .. a + n)) = 2 ^ n
<1>1. IsFiniteSet(a + 1 .. a + n) /\ Cardinality(a + 1 .. a + n) = n
    BY FS_Interval
<1> QED BY <1>1, FS_SUBSET, Zenon

\* A subset of 1 .. a + b is a subset of 1 .. a and one of a + 1 .. a + b.
LEMMA PowerSum == ASSUME NEW a \in Nat, NEW b \in Nat PROVE 2 ^ (a + b) = 2 ^ a * 2 ^ b
<1> DEFINE A == 1 .. a
           B == a + 1 .. a + b
           C == 1 .. a + b
           f == [T \in SUBSET C |-> <<T \cap A, T \cap B>>]
<1>1. C = A \cup B /\ A \cap B = {}
    OBVIOUS
<1>2. /\ IsFiniteSet(SUBSET A) /\ Cardinality(SUBSET A) = 2 ^ a
      /\ IsFiniteSet(SUBSET B) /\ Cardinality(SUBSET B) = 2 ^ b
      /\ IsFiniteSet(SUBSET C) /\ Cardinality(SUBSET C) = 2 ^ (a + b)
  <2>1. 0 + 1 = 1 /\ 0 + a = a /\ 0 + (a + b) = a + b /\ 0 \in Nat /\ a + b \in Nat
    OBVIOUS
  <2> QED BY <2>1, PowerIsSize
<1> HIDE DEF A, B, C
<1>3. f \in Bijection(SUBSET C, (SUBSET A) \X (SUBSET B))
  <2>1. f \in [SUBSET C -> (SUBSET A) \X (SUBSET B)]
    BY Zenon
  <2>2. \A S, T \in SUBSET C : f[S] = f[T] => S = T
    <3> SUFFICES ASSUME NEW S \in SUBSET C, NEW T \in SUBSET C, f[S] = f[T] PROVE S = T
        BY Zenon
    <3>1. S \cap A = T \cap A /\ S \cap B = T \cap B
        BY Zenon
    <3> QED BY <1>1, <3>1, Zenon
  <2>3. \A p \in (SUBSET A) \X (SUBSET B) : \E T \in SUBSET C : f[T] = p
    <3> TAKE p \in (SUBSET A) \X (SUBSET B)
    <3>0. PICK S \in SUBSET A, T \in SUBSET B : p = <<S, T>>
        OBVIOUS
    <3>1. S \cup T \in SUBSET C /\ (S \cup T) \cap A = S /\ (S \cup T) \cap B = T
        BY <1>1, Zenon
    <3>2. f[S \cup T] = <<S, T>>
        BY <3>1, Zenon
    <3> QED BY <3>0, <3>1, <3>2, Zenon
  <2> QED BY <2>1, <2>2, <2>3, Zenon DEF Bijection, Injection, Surjection, IsInjective
<1>4. Cardinality((SUBSET A) \X (SUBSET B)) = 2 ^ (a + b)
    BY <1>2, <1>3, FS_Bijection, Zenon DEF ExistsBijection
<1>5. Cardinality((SUBSET A) \X (SUBSET B)) = Cardinality(SUBSET A) * Cardinality(SUBSET B)
    BY <1>2, FS_Product, Zenon
<1> QED BY <1>2, <1>4, <1>5, Zenon

\* The first powers; a power of two is positive, and the next one is its double.
LEMMA Powers ==
    /\ 2 ^ 0 = 1 /\ 2 ^ 1 = 2
    /\ \A n \in Nat : 2 ^ n \in Nat /\ 2 ^ n >= 1 /\ 2 ^ (n + 1) = 2 * 2 ^ n
<1>1. 2 ^ 0 = 1
  <2>1. SUBSET (0 + 1 .. 0 + 0) = {{}}
    OBVIOUS
  <2>2. Cardinality(SUBSET (0 + 1 .. 0 + 0)) = 2 ^ 0
    BY PowerIsSize, Zenon
  <2>3. Cardinality({{}}) = 1
    BY FS_Singleton, Zenon
  <2> QED BY <2>1, <2>2, <2>3, Zenon
<1>2. 2 ^ 1 = 2
  <2>1. SUBSET (0 + 1 .. 0 + 1) = {{}} \cup {{1}} /\ {1} \notin {{}}
    OBVIOUS
  <2>2. Cardinality({{}} \cup {{1}}) = 2
    <3> DEFINE E == {{}}
               x == {1}
    <3>1. IsFiniteSet(E) /\ Cardinality(E) = 1 /\ x \notin E
        BY <2>1, FS_Singleton, Zenon
    <3> HIDE DEF E, x
    <3>2. Cardinality(E \cup {x}) = 2
        BY <3>1, FS_AddElement
    <3> QED BY <3>2, Zenon DEF E, x
  <2>3. Cardinality(SUBSET (0 + 1 .. 0 + 1)) = 2 ^ 1
    BY PowerIsSize, Zenon
  <2> QED BY <2>1, <2>2, <2>3, Zenon
<1>3. ASSUME NEW n \in Nat PROVE 2 ^ n \in Nat /\ 2 ^ n >= 1
  <2> DEFINE S == SUBSET (0 + 1 .. 0 + n)
  <2>1. IsFiniteSet(S) /\ Cardinality(S) = 2 ^ n /\ S # {}
    BY PowerIsSize, Zenon
  <2> HIDE DEF S
  <2>2. Cardinality(S) \in Nat /\ Cardinality(S) # 0
    BY <2>1, FS_CardinalityType, FS_EmptySet, Zenon
  <2> QED BY <2>1, <2>2
<1>4. ASSUME NEW n \in Nat PROVE 2 ^ (n + 1) = 2 * 2 ^ n
  <2>1. 2 ^ (n + 1) = 2 ^ n * 2 ^ 1
    BY PowerSum, Zenon
  <2>2. 2 ^ n \in Nat
    BY <1>3, Zenon
  <2> QED BY <1>2, <2>1, <2>2
<1> QED BY <1>1, <1>2, <1>3, <1>4, Zenon

-----------------------------------------------------------------------------
(* Division.                                                               *)

\* A number in a block of size c that starts at c * q is r behind its start.
LEMMA Remainder ==
    ASSUME NEW c \in Nat, NEW q \in Nat, NEW r \in Nat, r < c
    PROVE  (c * q + r) % c = r /\ (c * q + r) \div c = q
<1>1. (c * q + r) % c = r
    OBVIOUS
<1>2. (c * q + r) \div c = q
    OBVIOUS
<1> QED BY <1>1, <1>2, Zenon

\* Dividing by 2d is dividing by d and halving.
LEMMA Halve ==
    ASSUME NEW a \in Nat, NEW d \in Nat, d >= 1
    PROVE  a \div (2 * d) = (a \div d) \div 2
    OBVIOUS

\* The two places that a place has in a directory twice as large.
LEMMA Half ==
    ASSUME NEW i \in Nat, NEW n \in Nat
    PROVE  /\ i \div 2 \in Nat
           /\ i \div 2 < n <=> i < 2 * n
           /\ n <= i \div 2 <=> 2 * n <= i
    OBVIOUS

-----------------------------------------------------------------------------
(* The slot of a key.                                                      *)

\* It is a slot of the directory.
LEMMA SlotRange ==
    ASSUME NEW k \in Key, NEW depth \in 0 .. HashBits
    PROVE  SlotAt(k, depth) \in 0 .. 2 ^ depth - 1
<1> DEFINE p == 2 ^ depth
           d == 2 ^ (HashBits - depth)
           h == Hash[k]
<1>1. p \in Nat /\ d \in Nat /\ p >= 1 /\ d >= 1
    BY Powers, HashBitsAssumption
<1>2. depth + (HashBits - depth) = HashBits /\ depth \in Nat /\ HashBits - depth \in Nat
    BY HashBitsAssumption
<1>3. 2 ^ HashBits = p * d
    BY <1>2, PowerSum, Zenon
<1>4. h \in Nat /\ h < p * d
    BY <1>1, <1>3, HashAssumption
<1> HIDE DEF p, d, h
<1>5. h \div d \in Nat /\ d * (h \div d) <= h
    BY <1>1, <1>4
<1>6. h \div d < p
    BY <1>1, <1>4, <1>5
<1> QED BY <1>1, <1>5, <1>6 DEF SlotAt, p, d, h

\* One bit less of the hash.
LEMMA SlotHalves ==
    ASSUME NEW k \in Key, NEW depth \in Nat, depth < HashBits
    PROVE  SlotAt(k, depth) = SlotAt(k, depth + 1) \div 2
<1> DEFINE n == HashBits - (depth + 1)
           d == 2 ^ n
           h == Hash[k]
<1>1. n \in Nat /\ n + 1 = HashBits - depth
    BY HashBitsAssumption
<1>2. d \in Nat /\ d >= 1 /\ 2 ^ (HashBits - depth) = 2 * d
    BY <1>1, Powers, Zenon
<1>3. h \in Nat
    BY Powers, HashBitsAssumption, HashAssumption
<1> HIDE DEF d, h
<1>4. h \div (2 * d) = (h \div d) \div 2
    BY <1>2, <1>3, Halve, Zenon
<1> QED BY <1>2, <1>4, Zenon DEF SlotAt, d, h

-----------------------------------------------------------------------------
(* The shape of a directory.                                               *)

\* Segment object s, in state seg, has an aligned chunk of the slots to itself.
Chunk(depth, seg) == 2 ^ (depth - seg.local_depth)
Placed(depth, dir, s, seg) ==
    /\ seg.local_depth <= depth
    /\ \E q \in Nat : seg.segment_id = Chunk(depth, seg) * q
    /\ seg.segment_id + Chunk(depth, seg) <= 2 ^ depth
    /\ \A i \in 0 .. 2 ^ depth - 1 :
          dir[i] = s <=> seg.segment_id <= i /\ i < seg.segment_id + Chunk(depth, seg)

\* A directory of 2^depth slots over n segment objects in which all are placed.
Shape(depth, dir, segs, n) ==
    /\ depth \in 0 .. HashBits /\ n \in Nat
    /\ segs \in [0 .. n - 1 -> Segment]
    /\ dir \in [0 .. 2 ^ depth - 1 -> 0 .. n - 1]
    /\ \A s \in 0 .. n - 1 : Placed(depth, dir, s, segs[s])

\* What a segment is.
LEMMA SegmentFields ==
    ASSUME NEW seg \in Segment
    PROVE  /\ seg.table \in [Key -> Val \cup {Absent}]
           /\ seg.local_depth \in 0 .. HashBits /\ seg.segment_id \in Nat
           /\ \A f : [seg EXCEPT !.segment_id = f].table = seg.table
           /\ \A f : [seg EXCEPT !.segment_id = f].local_depth = seg.local_depth
           /\ \A f : [seg EXCEPT !.segment_id = f].segment_id = f
           /\ \A f \in Nat : [seg EXCEPT !.segment_id = f] \in Segment
           /\ \A t : [seg EXCEPT !.table = t].table = t
           /\ \A t : [seg EXCEPT !.table = t].local_depth = seg.local_depth
           /\ \A t : [seg EXCEPT !.table = t].segment_id = seg.segment_id
           /\ \A t \in [Key -> Val \cup {Absent}] : [seg EXCEPT !.table = t] \in Segment
    BY Zenon DEF Segment

\* A chunk is a positive number of slots.
LEMMA ChunkType ==
    ASSUME NEW depth \in Nat, NEW deep \in Nat, deep <= depth
    PROVE  /\ depth - deep \in Nat /\ 2 ^ (depth - deep) \in Nat /\ 2 ^ (depth - deep) >= 1
           /\ 2 ^ ((depth + 1) - deep) = 2 * 2 ^ (depth - deep)
<1>1. depth - deep \in Nat /\ (depth + 1) - deep = (depth - deep) + 1
    OBVIOUS
<1> QED BY <1>1, Powers, Zenon

\* The numbers that describe a segment's place.
LEMMA PlacedType ==
    ASSUME NEW depth \in 0 .. HashBits, NEW dir, NEW s, NEW seg \in Segment, Placed(depth, dir, s, seg)
    PROVE  /\ depth \in Nat /\ 2 ^ depth \in Nat
           /\ seg.local_depth \in Nat /\ seg.local_depth <= depth
           /\ seg.segment_id \in Nat
           /\ Chunk(depth, seg) \in Nat /\ Chunk(depth, seg) >= 1
<1>1. depth \in Nat /\ seg.local_depth \in Nat /\ seg.segment_id \in Nat
    BY SegmentFields, HashBitsAssumption
<1>2. seg.local_depth <= depth
    BY Zenon DEF Placed
<1>3. Chunk(depth, seg) \in Nat /\ Chunk(depth, seg) >= 1
    BY <1>1, <1>2, ChunkType, Zenon DEF Chunk
<1> QED BY <1>1, <1>2, <1>3, Powers, Zenon

\* The directory is then consistent.
LEMMA ShapeIsConsistent ==
    ASSUME NEW n, Shape(global_depth, segment_directory, segments, n), growing \in Key \cup {Absent}
    PROVE  DirectoryConsistent
<1>1. DOMAIN segments = 0 .. n - 1 /\ Cardinality(DOMAIN segments) = n
  <2>1. DOMAIN segments = 0 .. n - 1 /\ n \in Nat
    BY Zenon DEF Shape
  <2>2. Cardinality(0 .. n - 1) = n
    BY <2>1, FS_Interval
  <2> QED BY <2>1, <2>2, Zenon
<1>2. TypeOK
    BY <1>1, Zenon DEF Shape, TypeOK
<1>3. ASSUME NEW s \in DOMAIN segments
      PROVE  LET seg   == segments[s]
                 chunk == 2 ^ (global_depth - seg.local_depth)
             IN  /\ seg.local_depth <= global_depth
                 /\ seg.segment_id % chunk = 0
                 /\ {i \in DOMAIN segment_directory : segment_directory[i] = s}
                       = seg.segment_id .. seg.segment_id + chunk - 1
  <2> DEFINE seg == segments[s]
             chunk == 2 ^ (global_depth - seg.local_depth)
             slots == {i \in DOMAIN segment_directory : segment_directory[i] = s}
  <2>1. /\ Placed(global_depth, segment_directory, s, seg) /\ seg \in Segment
        /\ global_depth \in Nat /\ DOMAIN segment_directory = 0 .. 2 ^ global_depth - 1
    BY <1>1, <1>3, HashBitsAssumption DEF Shape
  <2>2. seg.local_depth \in Nat /\ seg.segment_id \in Nat /\ seg.local_depth <= global_depth
    BY <2>1, SegmentFields, HashBitsAssumption DEF Placed
  <2>3. chunk \in Nat /\ chunk >= 1 /\ 2 ^ global_depth \in Nat
    BY <2>1, <2>2, ChunkType, Powers, Zenon
  <2>4. PICK q \in Nat : seg.segment_id = chunk * q
    BY <2>1, Zenon DEF Placed, Chunk
  <2>5. /\ seg.segment_id + chunk <= 2 ^ global_depth
        /\ \A i \in 0 .. 2 ^ global_depth - 1 :
              segment_directory[i] = s <=> seg.segment_id <= i /\ i < seg.segment_id + chunk
    BY <2>1, Zenon DEF Placed, Chunk
  <2> HIDE DEF seg, chunk
  <2>6. seg.segment_id % chunk = 0
    <3>1. (chunk * q + 0) % chunk = 0
        BY <2>3, Remainder
    <3> QED BY <2>3, <2>4, <3>1
  <2>7. slots = seg.segment_id .. seg.segment_id + chunk - 1
    <3>1. \A i : i \in slots <=> i \in 0 .. 2 ^ global_depth - 1 /\ segment_directory[i] = s
        BY <2>1, Zenon
    <3>2. \A i : i \in slots => i \in seg.segment_id .. seg.segment_id + chunk - 1
        BY <2>2, <2>3, <2>5, <3>1
    <3>3. \A i : i \in seg.segment_id .. seg.segment_id + chunk - 1 => i \in slots
        BY <2>2, <2>3, <2>5, <3>1
    <3> QED BY <3>2, <3>3, Zenon
  <2> QED BY <2>2, <2>6, <2>7, Zenon DEF seg, chunk
<1> QED BY <1>2, <1>3, Zenon DEF DirectoryConsistent

-----------------------------------------------------------------------------
(* Doubling.                                                               *)

\* The first slot of a segment is its segment_id.
LEMMA FirstSlot ==
    ASSUME NEW n, Shape(global_depth, segment_directory, segments, n), NEW s \in 0 .. n - 1
    PROVE  (CHOOSE i \in DOMAIN segment_directory :
                /\ segment_directory[i] = s
                /\ \A j \in DOMAIN segment_directory : segment_directory[j] = s => i <= j)
           = segments[s].segment_id
<1> DEFINE f == segments[s].segment_id
           D == DOMAIN segment_directory
           First(i) == segment_directory[i] = s /\ \A j \in D : segment_directory[j] = s => i <= j
           c == Chunk(global_depth, segments[s])
<1>1. /\ Placed(global_depth, segment_directory, s, segments[s])
      /\ segments[s] \in Segment /\ global_depth \in 0 .. HashBits
      /\ D = 0 .. 2 ^ global_depth - 1
    BY HashBitsAssumption, Zenon DEF Shape
<1>2. f \in Nat /\ c \in Nat /\ c >= 1 /\ 2 ^ global_depth \in Nat
    BY <1>1, PlacedType, Zenon
<1>3. f + c <= 2 ^ global_depth /\ \A i \in D : segment_directory[i] = s <=> f <= i /\ i < f + c
    BY <1>1, Zenon DEF Placed
<1> HIDE DEF f, c, D
<1>4. f \in D /\ First(f)
  <2>1. f \in D
    BY <1>1, <1>2, <1>3
  <2> QED BY <2>1, <1>2, <1>3
<1>5. ASSUME NEW i \in D, First(i) PROVE i = f
  <2>1. i <= f /\ f <= i /\ i \in Int
    BY <1>1, <1>2, <1>3, <1>4, <1>5
  <2> QED BY <1>2, <2>1
<1> HIDE DEF First
<1>6. (CHOOSE i \in D : First(i)) = f
    BY <1>4, <1>5, Zenon
<1> QED BY <1>6, Zenon DEF First, D, f

\* Doubling keeps the shape; slot i becomes slots 2i and 2i + 1.
LEMMA DoubledShape ==
    ASSUME NEW n, Shape(global_depth, segment_directory, segments, n), global_depth < HashBits
    PROVE  /\ Doubled.depth = global_depth + 1
           /\ \A s \in 0 .. n - 1 : Doubled.segments[s] =
                 [segments[s] EXCEPT !.segment_id = 2 * segments[s].segment_id]
           /\ \A i \in 0 .. 2 ^ (global_depth + 1) - 1 :
                 Doubled.directory[i] = segment_directory[i \div 2]
           /\ Shape(Doubled.depth, Doubled.directory, Doubled.segments, n)
<1> DEFINE g == global_depth
           size == 2 ^ g
           dir == [i \in 0 .. 2 ^ (g + 1) - 1 |-> segment_directory[i \div 2]]
           segs == [s \in 0 .. n - 1 |-> [segments[s] EXCEPT !.segment_id = 2 * segments[s].segment_id]]
<1>1. /\ DOMAIN segments = 0 .. n - 1 /\ g \in Nat /\ g + 1 \in 0 .. HashBits
      /\ segment_directory \in [0 .. size - 1 -> 0 .. n - 1]
      /\ segments \in [0 .. n - 1 -> Segment] /\ n \in Nat
    BY HashBitsAssumption DEF Shape
<1>2. size \in Nat /\ 2 ^ (g + 1) = 2 * size
    BY <1>1, Powers, Zenon
<1>3. Doubled = [depth |-> g + 1, directory |-> dir, segments |-> segs]
  <2> DEFINE first(s) == CHOOSE i \in DOMAIN segment_directory :
                            /\ segment_directory[i] = s
                            /\ \A j \in DOMAIN segment_directory : segment_directory[j] = s => i <= j
             moved == [s \in DOMAIN segments |-> [segments[s] EXCEPT !.segment_id = 2 * first(s)]]
  <2>1. Doubled = [depth |-> g + 1, directory |-> dir, segments |-> moved]
    BY Zenon DEF Doubled
  <2>2. \A s \in 0 .. n - 1 : first(s) = segments[s].segment_id
    BY FirstSlot, Zenon
  <2> HIDE DEF first
  <2>3. moved = segs
    BY <1>1, <2>2, Zenon
  <2> QED BY <2>1, <2>3, Zenon
<1>4. segs \in [0 .. n - 1 -> Segment]
  <2>1. \A s \in 0 .. n - 1 : [segments[s] EXCEPT !.segment_id = 2 * segments[s].segment_id] \in Segment
    <3> TAKE s \in 0 .. n - 1
    <3>1. segments[s] \in Segment
        BY <1>1, Zenon
    <3>2. 2 * segments[s].segment_id \in Nat
        BY <3>1, SegmentFields
    <3> QED BY <3>1, <3>2, SegmentFields, Zenon
  <2> QED BY <2>1, Zenon
<1>5. \A i \in 0 .. 2 ^ (g + 1) - 1 : i \div 2 \in 0 .. size - 1
    BY <1>2, Half
<1>6. dir \in [0 .. 2 ^ (g + 1) - 1 -> 0 .. n - 1]
    BY <1>1, <1>5, Zenon
<1>7. ASSUME NEW s \in 0 .. n - 1 PROVE Placed(g + 1, dir, s, segs[s])
  <2> DEFINE f == segments[s].segment_id
             c == Chunk(g, segments[s])
  <2>1. /\ Placed(g, segment_directory, s, segments[s]) /\ segments[s] \in Segment
        /\ segments[s].local_depth <= g
    BY <1>1, Zenon DEF Shape, Placed
  <2>2. f \in Nat /\ segments[s].local_depth \in Nat
    BY <2>1, SegmentFields, HashBitsAssumption
  <2>3. c \in Nat /\ c >= 1
    BY <1>1, <2>1, <2>2, ChunkType, Zenon DEF Chunk
  <2>4. segs[s].local_depth = segments[s].local_depth /\ segs[s].segment_id = 2 * f
    BY <2>1, SegmentFields
  <2>5. Chunk(g + 1, segs[s]) = 2 * c
    <3> DEFINE l == segments[s].local_depth
    <3>1. 2 ^ ((g + 1) - l) = 2 * 2 ^ (g - l)
        BY <1>1, <2>1, <2>2, ChunkType, Zenon
    <3> HIDE DEF segs
    <3> QED BY <2>4, <3>1, Zenon DEF Chunk
  <2>6. PICK q \in Nat : f = c * q
    BY <2>1, Zenon DEF Placed
  <2>7. f + c <= size /\ \A i \in 0 .. size - 1 : segment_directory[i] = s <=> f <= i /\ i < f + c
    BY <2>1, Zenon DEF Placed
  <2> HIDE DEF f, c, size, segs
  <2>8. 2 * f = (2 * c) * q
    BY <2>2, <2>3, <2>6
  <2>9. ASSUME NEW i \in 0 .. 2 ^ (g + 1) - 1
        PROVE  dir[i] = s <=> 2 * f <= i /\ i < 2 * f + 2 * c
    <3>1. dir[i] = segment_directory[i \div 2] /\ i \div 2 \in 0 .. size - 1
        BY <1>5, <2>9, Zenon
    <3>2. dir[i] = s <=> f <= i \div 2 /\ i \div 2 < f + c
        BY <2>7, <3>1, Zenon
    <3>3. i \in Nat /\ f + c \in Nat
        BY <1>2, <2>2, <2>3
    <3>4. (f <= i \div 2 <=> 2 * f <= i) /\ (i \div 2 < f + c <=> i < 2 * (f + c))
        BY <2>2, <3>3, Half, Zenon
    <3> HIDE DEF dir
    <3> QED BY <2>2, <2>3, <3>2, <3>4
  <2>10. 2 * f + 2 * c <= 2 ^ (g + 1)
    BY <1>2, <2>2, <2>3, <2>7
  <2>11. segs[s].local_depth <= g + 1
    BY <1>1, <2>1, <2>2, <2>4
  <2> HIDE DEF dir, g
  <2> QED BY <2>4, <2>5, <2>8, <2>9, <2>10, <2>11, Zenon DEF Placed
<1>8. Shape(g + 1, dir, segs, n)
  <2> HIDE DEF dir, segs, g
  <2> QED BY <1>1, <1>4, <1>6, <1>7, Zenon DEF Shape
<1> QED BY <1>3, <1>8, Zenon

-----------------------------------------------------------------------------
(* Splitting.                                                              *)

\* The second of the two halves that start at slot first.
Upper(first, half, i) == first + half <= i /\ i < first + 2 * half

\* The directory and the segments behind a split of segment object `source',
\* the new object being number n.
SplitDir(dir, first, half, n) == [i \in DOMAIN dir |-> IF Upper(first, half, i) THEN n ELSE dir[i]]
UpperPart(depth, seg, half) ==
    [table       |-> [k \in Key |-> IF Upper(seg.segment_id, half, SlotAt(k, depth))
                                    THEN seg.table[k] ELSE Absent],
     local_depth |-> seg.local_depth + 1, segment_id |-> seg.segment_id + half]
LowerPart(depth, seg, half) ==
    [table       |-> [k \in Key |-> IF Upper(seg.segment_id, half, SlotAt(k, depth))
                                    THEN Absent ELSE seg.table[k]],
     local_depth |-> seg.local_depth + 1, segment_id |-> seg.segment_id]
SplitSegs(depth, segs, source, half, n) ==
    [s \in 0 .. n |-> CASE s = n      -> UpperPart(depth, segs[source], half)
                        [] s = source -> LowerPart(depth, segs[source], half)
                        [] OTHER      -> segs[s]]

\* What SplitSegment does, once the directory has doubled if it had to: the
\* segment of the growing key has two slots or more, and its chunk is halved.
SplitsAs(n, depth, dir, segs, half) ==
    LET source == SegmentOf(growing)
    IN  /\ growing \in Key /\ source \in 0 .. n - 1
        /\ Shape(depth, dir, segs, n)
        /\ \A s \in 0 .. n - 1 : segs[s].table = segments[s].table
        /\ \A k \in Key : dir[SlotAt(k, depth)] = SegmentOf(k)
        /\ segs[source].local_depth < depth
        /\ half \in Nat /\ half >= 1 /\ half = 2 ^ (depth - (segs[source].local_depth + 1))
        /\ Chunk(depth, segs[source]) = 2 * half
        /\ global_depth' = depth
        /\ segment_directory' = SplitDir(dir, segs[source].segment_id, half, n)
        /\ segments' = SplitSegs(depth, segs, source, half, n)
        /\ growing' = IF NeedSplit(segments'[segment_directory'[SlotAt(growing, depth)]].table)
                      THEN growing ELSE Absent

\* The slot that a split starts from lies in the chunk of its segment.
LEMMA ChunkStart ==
    ASSUME NEW first \in Nat, NEW half \in Nat, half >= 1, NEW q \in Nat, first = (2 * half) * q,
           NEW at \in Nat, first <= at, at < first + 2 * half
    PROVE  at - (at % (2 * half)) = first /\ (2 * half) \div 2 = half
<1> DEFINE r == at - first
           c == 2 * half
<1>1. r \in Nat /\ r < c /\ c \in Nat /\ at = c * q + r
    OBVIOUS
<1> HIDE DEF r, c
<1>2. at % c = r
    BY <1>1, Remainder, Zenon
<1>3. at - (at % c) = first
    BY <1>2 DEF r
<1>4. c \div 2 = half
    BY DEF c
<1> QED BY <1>3, <1>4, Zenon DEF c

\* Every key is found where it was, in the directory as large as it becomes.
LEMMA BeforeSplit ==
    ASSUME NEW n, Shape(global_depth, segment_directory, segments, n), NEW k \in Key
    PROVE  /\ GetSegmentIndex(k) \in 0 .. 2 ^ global_depth - 1
           /\ SegmentOf(k) \in 0 .. n - 1
           /\ global_depth < HashBits => Doubled.directory[SlotAt(k, global_depth + 1)] = SegmentOf(k)
<1>1. /\ global_depth \in 0 .. HashBits /\ global_depth \in Nat
      /\ segment_directory \in [0 .. 2 ^ global_depth - 1 -> 0 .. n - 1]
    BY HashBitsAssumption DEF Shape
<1>2. GetSegmentIndex(k) \in 0 .. 2 ^ global_depth - 1
    BY <1>1, SlotRange, Zenon DEF GetSegmentIndex
<1>3. SegmentOf(k) \in 0 .. n - 1
    BY <1>1, <1>2, Zenon DEF SegmentOf
<1>4. ASSUME global_depth < HashBits
      PROVE  Doubled.directory[SlotAt(k, global_depth + 1)] = SegmentOf(k)
  <2>1. global_depth + 1 \in 0 .. HashBits
    BY <1>1, <1>4, HashBitsAssumption
  <2>2. SlotAt(k, global_depth + 1) \in 0 .. 2 ^ (global_depth + 1) - 1
    BY <2>1, SlotRange, Zenon
  <2>3. SlotAt(k, global_depth) = SlotAt(k, global_depth + 1) \div 2
    BY <1>1, <1>4, SlotHalves, Zenon
  <2> QED BY <1>4, <2>2, <2>3, DoubledShape, Zenon DEF SegmentOf, GetSegmentIndex
<1> QED BY <1>2, <1>3, <1>4, Zenon

\* SplitSegment has that form.
LEMMA SplitForm ==
    ASSUME NEW n, Shape(global_depth, segment_directory, segments, n), growing \in Key \cup {Absent},
           SplitSegment
    PROVE  \E depth, dir, segs, half : SplitsAs(n, depth, dir, segs, half)
<1> DEFINE seg_id == GetSegmentIndex(growing)
           source == segment_directory[seg_id]
           deep   == segments[source].local_depth
           dbl    == deep = global_depth
           depth  == IF dbl THEN Doubled.depth ELSE global_depth
           dir    == IF dbl THEN Doubled.directory ELSE segment_directory
           segs   == IF dbl THEN Doubled.segments ELSE segments
           at     == IF dbl THEN segs[source].segment_id ELSE seg_id
           chunk  == 2 ^ (depth - deep)
           start  == at - (at % chunk)
           mid    == start + chunk \div 2
           fresh  == Cardinality(DOMAIN segments)
           table  == segs[source].table
           up(k)  == MovesUp(k, depth, mid, start + chunk)
           kept   == [segs EXCEPT ![source] =
                        [table       |-> [k \in Key |-> IF up(k) THEN Absent ELSE table[k]],
                         local_depth |-> deep + 1, segment_id |-> start]]
           new    == [table       |-> [k \in Key |-> IF up(k) THEN table[k] ELSE Absent],
                      local_depth |-> deep + 1, segment_id |-> mid]
           half   == 2 ^ (depth - (deep + 1))
           first  == segs[source].segment_id
<1>1. /\ deep < HashBits
      /\ global_depth' = depth
      /\ segment_directory' = [i \in DOMAIN dir |-> IF i \in mid .. start + chunk - 1 THEN fresh ELSE dir[i]]
      /\ segments' = [s \in 0 .. fresh |-> IF s = fresh THEN new ELSE kept[s]]
      /\ growing' = IF SplitAgain(growing, segments', segment_directory', depth)
                    THEN growing ELSE Absent
      /\ growing # Absent
    BY Zenon DEF SplitSegment
<1>2. growing \in Key /\ seg_id \in 0 .. 2 ^ global_depth - 1 /\ source \in 0 .. n - 1
      /\ source = SegmentOf(growing)
    BY <1>1, BeforeSplit, Zenon DEF SegmentOf
<1>3. /\ n \in Nat /\ global_depth \in 0 .. HashBits /\ global_depth \in Nat
      /\ segments \in [0 .. n - 1 -> Segment] /\ segments[source] \in Segment
      /\ Placed(global_depth, segment_directory, source, segments[source])
    BY <1>2, HashBitsAssumption DEF Shape
<1>4. fresh = n
  <2>1. DOMAIN segments = 0 .. n - 1 /\ Cardinality(0 .. n - 1) = n
    BY <1>3, FS_Interval
  <2> QED BY <2>1, Zenon
<1>5. deep \in Nat /\ deep <= global_depth
    BY <1>3, PlacedType, Zenon
<1>6. dbl => global_depth < HashBits
    BY <1>1, Zenon
<1>7. /\ Shape(depth, dir, segs, n) /\ deep < depth /\ depth \in Nat
      /\ \A s \in 0 .. n - 1 : segs[s].table = segments[s].table
      /\ segs[source].local_depth = deep
      /\ \A k \in Key : dir[SlotAt(k, depth)] = SegmentOf(k)
  <2>1. CASE dbl
    <3>1. Shape(depth, dir, segs, n) /\ deep < depth /\ depth \in Nat
        BY <1>3, <1>5, <1>6, <2>1, DoubledShape
    <3>2. \A s \in 0 .. n - 1 :
             segs[s] = [segments[s] EXCEPT !.segment_id = 2 * segments[s].segment_id]
        BY <1>6, <2>1, DoubledShape, Zenon
    <3>3. ASSUME NEW s \in 0 .. n - 1
          PROVE  segs[s].table = segments[s].table /\ segs[s].local_depth = segments[s].local_depth
      <4>1. segments[s] \in Segment
        BY <1>3, Zenon
      <4> HIDE DEF segs
      <4>2. segs[s] = [segments[s] EXCEPT !.segment_id = 2 * segments[s].segment_id]
        BY <3>2, Zenon
      <4> QED BY <4>1, <4>2, SegmentFields
    <3>4. \A k \in Key : dir[SlotAt(k, depth)] = SegmentOf(k)
        BY <1>6, <2>1, BeforeSplit, DoubledShape, Zenon
    <3> HIDE DEF depth, dir, segs, dbl, seg_id
    <3> QED BY <1>2, <3>1, <3>3, <3>4, Zenon
  <2>2. CASE ~dbl
    BY <1>3, <1>5, <2>2 DEF SegmentOf, GetSegmentIndex
  <2> QED BY <2>1, <2>2, Zenon
<1>8. /\ half \in Nat /\ half >= 1 /\ chunk = 2 * half
  <2> HIDE DEF depth, deep
  <2>1. depth - (deep + 1) \in Nat /\ depth - deep = (depth - (deep + 1)) + 1
    BY <1>5, <1>7
  <2> QED BY <2>1, Powers, Zenon
<1>9. Placed(depth, dir, source, segs[source]) /\ segs[source] \in Segment /\ depth \in 0 .. HashBits
  <2> HIDE DEF depth, dir, segs, source
  <2> QED BY <1>2, <1>7, Zenon DEF Shape
<1>10. Chunk(depth, segs[source]) = 2 * half /\ first \in Nat
  <2>1. Chunk(depth, segs[source]) = chunk
    <3> HIDE DEF depth, segs, source, deep
    <3> QED BY <1>7, Zenon DEF Chunk
  <2>2. first \in Nat
    <3> HIDE DEF depth, segs, source, dir
    <3> QED BY <1>9, PlacedType, Zenon
  <2> QED BY <1>8, <2>1, <2>2, Zenon
<1>11. at \in Nat /\ first <= at /\ at < first + 2 * half
  <2>1. CASE dbl
    <3>1. at = first
        BY <2>1, Zenon
    <3> HIDE DEF first, half, at
    <3> QED BY <1>8, <1>10, <3>1
  <2>2. CASE ~dbl
    <3>1. at = seg_id /\ dir = segment_directory /\ depth = global_depth /\ segs = segments
        BY <2>2, Zenon
    <3>2. \A i \in 0 .. 2 ^ global_depth - 1 :
             segment_directory[i] = source <=> first <= i /\ i < first + Chunk(global_depth, segments[source])
        BY <1>3, <3>1, Zenon DEF Placed
    <3>3. first <= at /\ at < first + Chunk(global_depth, segments[source])
        BY <1>2, <3>1, <3>2, Zenon
    <3>4. 2 ^ global_depth \in Nat
        BY <1>3, Powers, Zenon
    <3> HIDE DEF first, half, at, dir, segs, depth, seg_id, source
    <3> QED BY <1>2, <1>10, <3>1, <3>3, <3>4
  <2> QED BY <2>1, <2>2, Zenon
<1>12. start = first /\ mid = first + half /\ chunk = 2 * half
  <2>1. PICK q \in Nat : first = (2 * half) * q
    BY <1>9, <1>10, Zenon DEF Placed
  <2> HIDE DEF first, half, at, chunk
  <2>2. at - (at % (2 * half)) = first /\ (2 * half) \div 2 = half
    BY <1>8, <1>10, <1>11, <2>1, ChunkStart, Zenon
  <2> QED BY <1>8, <2>2, Zenon
<1>13. segment_directory' = SplitDir(dir, first, half, n)
  <2>1. DOMAIN dir = 0 .. 2 ^ depth - 1 /\ 2 ^ depth \in Nat
    <3> HIDE DEF depth, dir, segs
    <3> QED BY <1>7, Powers, Zenon DEF Shape
  <2> HIDE DEF dir, depth, first, half, start, mid, chunk, fresh
  <2>2. \A i \in DOMAIN dir : i \in mid .. start + chunk - 1 <=> Upper(first, half, i)
    BY <1>8, <1>10, <1>12, <2>1 DEF Upper
  <2> QED BY <1>1, <1>4, <2>2, Zenon DEF SplitDir
<1>14. segments' = SplitSegs(depth, segs, source, half, n)
  <2>1. \A k \in Key : up(k) <=> Upper(first, half, SlotAt(k, depth))
    <3>1. \A k \in Key : SlotAt(k, depth) \in Nat
      <4>1. 2 ^ depth \in Nat
        <5> HIDE DEF depth
        <5> QED BY <1>7, Powers, Zenon
      <4> HIDE DEF depth, dir, segs, source
      <4> QED BY <1>9, <4>1, SlotRange
    <3> HIDE DEF depth, first, half, start, mid, chunk
    <3> QED BY <1>8, <1>10, <1>12, <3>1, Zenon DEF MovesUp, Upper
  <2>2. new = UpperPart(depth, segs[source], half)
    <3> HIDE DEF up, depth, segs, source, deep, half, start, mid, chunk
    <3> QED BY <1>7, <1>12, <2>1, Zenon DEF UpperPart
  <2>3. DOMAIN segs = 0 .. n - 1 /\ source \in DOMAIN segs
    <3> HIDE DEF depth, dir, segs, source
    <3> QED BY <1>2, <1>7, Zenon DEF Shape
  <2>4. kept[source] = LowerPart(depth, segs[source], half)
    <3> HIDE DEF up, depth, segs, source, deep, half, start, mid, chunk
    <3> QED BY <1>7, <1>12, <2>1, <2>3, Zenon DEF LowerPart
  <2>5. \A s \in 0 .. n - 1 : s # source => kept[s] = segs[s]
    <3> HIDE DEF up, depth, segs, source, deep, half, start, mid, chunk, table
    <3> QED BY <2>3, Zenon
  <2> HIDE DEF up, depth, segs, source, deep, half, start, mid, chunk, table, new, kept, fresh
  <2>6. \A s \in 0 .. n : s # n => s \in 0 .. n - 1
    BY <1>3
  <2>7. \A s \in 0 .. n : (IF s = n THEN new ELSE kept[s]) = SplitSegs(depth, segs, source, half, n)[s]
    BY <1>2, <1>3, <2>2, <2>4, <2>5, <2>6 DEF SplitSegs
  <2> QED BY <1>1, <1>4, <2>7, Zenon DEF SplitSegs
<1>15. growing' = IF NeedSplit(segments'[segment_directory'[SlotAt(growing, depth)]].table)
                  THEN growing ELSE Absent
    BY <1>1, Zenon DEF SplitAgain
<1>16. global_depth' = depth
    BY <1>1, Zenon
<1> HIDE DEF depth, segs, source, half, dir, seg_id
<1>17. half = 2 ^ (depth - (segs[source].local_depth + 1)) /\ first = segs[source].segment_id
    BY <1>7, Zenon DEF half
<1>18. SplitsAs(n, depth, dir, segs, half)
  <2> HIDE DEF deep, first
  <2> QED BY <1>2, <1>7, <1>8, <1>10, <1>13, <1>14, <1>15, <1>16, <1>17, Zenon DEF SplitsAs
<1> QED BY <1>18, Zenon

\* A split keeps the shape: the two segments have half of the chunk each.
LEMMA SplitShape ==
    ASSUME NEW n, NEW depth, NEW dir, NEW segs, NEW half, SplitsAs(n, depth, dir, segs, half)
    PROVE  Shape(global_depth', segment_directory', segments', n + 1)
<1> DEFINE source == SegmentOf(growing)
           old == segs[source]
           first == old.segment_id
           low == LowerPart(depth, old, half)
           high == UpperPart(depth, old, half)
           newdir == SplitDir(dir, first, half, n)
           newsegs == SplitSegs(depth, segs, source, half, n)
<1>1. /\ source \in 0 .. n - 1 /\ Shape(depth, dir, segs, n)
      /\ old.local_depth < depth
      /\ half \in Nat /\ half >= 1 /\ half = 2 ^ (depth - (old.local_depth + 1))
      /\ Chunk(depth, old) = 2 * half
      /\ global_depth' = depth /\ segment_directory' = newdir /\ segments' = newsegs
    BY Zenon DEF SplitsAs
<1>2. /\ depth \in 0 .. HashBits /\ n \in Nat
      /\ segs \in [0 .. n - 1 -> Segment]
      /\ dir \in [0 .. 2 ^ depth - 1 -> 0 .. n - 1]
      /\ \A s \in 0 .. n - 1 : Placed(depth, dir, s, segs[s])
    BY <1>1, Zenon DEF Shape
<1> HIDE DEF source
<1>3. old \in Segment /\ Placed(depth, dir, source, old)
    BY <1>1, <1>2, Zenon
<1>4. /\ depth \in Nat /\ 2 ^ depth \in Nat /\ first \in Nat /\ old.local_depth \in Nat
    BY <1>2, <1>3, PlacedType, Zenon
<1>5. /\ first + 2 * half <= 2 ^ depth
      /\ \A i \in 0 .. 2 ^ depth - 1 : dir[i] = source <=> first <= i /\ i < first + 2 * half
    BY <1>1, <1>3, Zenon DEF Placed
<1>6. PICK q \in Nat : first = (2 * half) * q
    BY <1>1, <1>3, Zenon DEF Placed
<1>7. old.table \in [Key -> Val \cup {Absent}] /\ old.local_depth + 1 \in 0 .. HashBits
  <2>1. old.table \in [Key -> Val \cup {Absent}]
    BY <1>3, SegmentFields, Zenon
  <2>2. old.local_depth + 1 \in 0 .. HashBits
    <3>1. old.local_depth < depth /\ old.local_depth \in Nat
        BY <1>1, <1>4, Zenon
    <3>2. depth <= HashBits /\ depth \in Nat /\ HashBits \in Nat
        BY <1>2, <1>4, HashBitsAssumption
    <3> HIDE DEF old
    <3> QED BY <3>1, <3>2
  <2> QED BY <2>1, <2>2, Zenon
<1> HIDE DEF old
<1>8. low \in Segment /\ high \in Segment
    BY <1>1, <1>4, <1>7 DEF LowerPart, UpperPart, Segment
<1>9. /\ low.local_depth = old.local_depth + 1 /\ low.segment_id = first
      /\ high.local_depth = old.local_depth + 1 /\ high.segment_id = first + half
    BY Zenon DEF LowerPart, UpperPart
<1>10. Chunk(depth, low) = half /\ Chunk(depth, high) = half
  <2> HIDE DEF low, high
  <2> QED BY <1>1, <1>9, Zenon DEF Chunk
<1>11. newdir \in [0 .. 2 ^ depth - 1 -> 0 .. n]
      /\ \A i \in 0 .. 2 ^ depth - 1 : newdir[i] = IF Upper(first, half, i) THEN n ELSE dir[i]
    BY <1>2 DEF SplitDir
<1>12. /\ DOMAIN newsegs = 0 .. n /\ newsegs[n] = high /\ newsegs[source] = low
       /\ \A s \in 0 .. n - 1 : s # source => newsegs[s] = segs[s]
    BY <1>1, <1>2 DEF SplitSegs, old
<1> HIDE DEF newdir, newsegs, low, high, first
<1>13. newsegs \in [0 .. n -> Segment]
  <2>1. \A s \in 0 .. n : newsegs[s] \in Segment
    BY <1>2, <1>8, <1>12
  <2>2. newsegs = [s \in 0 .. n |-> newsegs[s]]
    BY <1>12 DEF newsegs, SplitSegs
  <2> QED BY <2>1, <2>2, Zenon
<1>20. ASSUME NEW i \in 0 .. 2 ^ depth - 1
       PROVE  /\ i \in Nat /\ dir[i] # n
              /\ newdir[i] = IF Upper(first, half, i) THEN n ELSE dir[i]
              /\ dir[i] = source <=> first <= i /\ i < first + 2 * half
              /\ Upper(first, half, i) <=> first + half <= i /\ i < first + 2 * half
  <2>1. dir[i] \in 0 .. n - 1 /\ i \in Nat
    BY <1>2, <1>4
  <2>2. dir[i] # n
    BY <1>2, <2>1
  <2> QED BY <1>5, <1>11, <2>1, <2>2, Zenon DEF Upper
<1>14. first = half * (2 * q) /\ first + half = half * (2 * q + 1)
    BY <1>1, <1>4, <1>6
<1>15. Placed(depth, newdir, source, low)
  <2>1. \A i \in 0 .. 2 ^ depth - 1 : newdir[i] = source <=> first <= i /\ i < first + half
    <3> TAKE i \in 0 .. 2 ^ depth - 1
    <3>1. source # n
        BY <1>1, <1>2
    <3> QED BY <1>1, <1>4, <1>20, <3>1
  <2>2. low.local_depth <= depth /\ first + half <= 2 ^ depth /\ 2 * q \in Nat
    BY <1>1, <1>4, <1>5, <1>9
  <2> QED BY <1>9, <1>10, <1>14, <2>1, <2>2, Zenon DEF Placed
<1>16. Placed(depth, newdir, n, high)
  <2>1. \A i \in 0 .. 2 ^ depth - 1 : newdir[i] = n <=> first + half <= i /\ i < (first + half) + half
    <3> TAKE i \in 0 .. 2 ^ depth - 1
    <3> QED BY <1>1, <1>4, <1>20
  <2>2. high.local_depth <= depth /\ (first + half) + half <= 2 ^ depth /\ 2 * q + 1 \in Nat
    BY <1>1, <1>4, <1>5, <1>9
  <2> QED BY <1>9, <1>10, <1>14, <2>1, <2>2, Zenon DEF Placed
<1>17. ASSUME NEW s \in 0 .. n - 1, s # source PROVE Placed(depth, newdir, s, segs[s])
  <2>1. \A i \in 0 .. 2 ^ depth - 1 : newdir[i] = s <=> dir[i] = s
    <3> TAKE i \in 0 .. 2 ^ depth - 1
    <3>1. s # n
        BY <1>2, <1>17
    <3>2. Upper(first, half, i) => dir[i] = source
        BY <1>1, <1>4, <1>20
    <3> QED BY <1>17, <1>20, <3>1, <3>2, Zenon
  <2> QED BY <1>2, <1>17, <2>1, Zenon DEF Placed
<1>18. \A s \in 0 .. n : Placed(depth, newdir, s, newsegs[s])
    BY <1>2, <1>12, <1>15, <1>16, <1>17
<1>19. n + 1 \in Nat /\ 0 .. (n + 1) - 1 = 0 .. n
    BY <1>2
<1> QED BY <1>1, <1>2, <1>11, <1>13, <1>18, <1>19 DEF Shape

-----------------------------------------------------------------------------
(* What the operations do to the tables of the segments.                   *)

Shaped(n) == Shape(global_depth, segment_directory, segments, n)

\* A change of tables only.
LEMMA TablesOnly ==
    ASSUME NEW n, Shaped(n), UNCHANGED <<global_depth, segment_directory>>,
           segments' \in [0 .. n - 1 -> Segment],
           \A s \in 0 .. n - 1 : /\ segments'[s].local_depth = segments[s].local_depth
                                 /\ segments'[s].segment_id = segments[s].segment_id
    PROVE  Shaped(n)' /\ \A k \in Key : SegmentOf(k)' = SegmentOf(k)
<1>1. ASSUME NEW s \in 0 .. n - 1
      PROVE  Placed(global_depth', segment_directory', s, segments'[s])
  <2>1. Placed(global_depth, segment_directory, s, segments[s])
    BY Zenon DEF Shaped, Shape
  <2>2. Chunk(global_depth, segments'[s]) = Chunk(global_depth, segments[s])
    BY Zenon DEF Chunk
  <2> QED BY <2>1, <2>2, Zenon DEF Placed
<1>2. Shape(global_depth', segment_directory', segments', n)
    BY <1>1, Zenon DEF Shaped, Shape
<1> QED BY <1>2, Zenon DEF Shaped, SegmentOf, GetSegmentIndex

\* Replacing the table of one segment.
LEMMA OneTable ==
    ASSUME NEW n, Shaped(n), UNCHANGED <<global_depth, segment_directory>>,
           NEW x \in 0 .. n - 1, NEW table \in [Key -> Val \cup {Absent}],
           segments' = [segments EXCEPT ![x].table = table]
    PROVE  /\ Shaped(n)' /\ \A k \in Key : SegmentOf(k)' = SegmentOf(k)
           /\ \A s \in 0 .. n - 1 : segments'[s].table = IF s = x THEN table ELSE segments[s].table
<1>1. segments \in [0 .. n - 1 -> Segment]
    BY Zenon DEF Shaped, Shape
<1>2. \A s \in 0 .. n - 1 :
         segments'[s] = IF s = x THEN [segments[s] EXCEPT !.table = table] ELSE segments[s]
    BY <1>1, Zenon
<1>3. segments' = [s \in 0 .. n - 1 |-> segments'[s]]
    BY <1>1, Zenon
<1>4. ASSUME NEW s \in 0 .. n - 1
      PROVE  /\ segments'[s] \in Segment
             /\ segments'[s].local_depth = segments[s].local_depth
             /\ segments'[s].segment_id = segments[s].segment_id
             /\ segments'[s].table = IF s = x THEN table ELSE segments[s].table
  <2>1. segments[s] \in Segment
    BY <1>1, Zenon
  <2>2. segments'[s] = IF s = x THEN [segments[s] EXCEPT !.table = table] ELSE segments[s]
    BY <1>2, Zenon
  <2>3. CASE s = x
    <3>1. segments'[s] = [segments[s] EXCEPT !.table = table]
        BY <2>2, <2>3, Zenon
    <3> DEFINE seg == segments[s]
    <3> HIDE DEF seg
    <3>2. /\ [seg EXCEPT !.table = table] \in Segment
          /\ [seg EXCEPT !.table = table].local_depth = seg.local_depth
          /\ [seg EXCEPT !.table = table].segment_id = seg.segment_id
          /\ [seg EXCEPT !.table = table].table = table
        BY <2>1, SegmentFields DEF seg
    <3> QED BY <2>3, <3>1, <3>2, Zenon DEF seg
  <2>4. CASE s # x
    BY <2>1, <2>2, <2>4
  <2> QED BY <2>3, <2>4, Zenon
<1>5. segments' \in [0 .. n - 1 -> Segment]
    BY <1>3, <1>4, Zenon
<1> QED BY <1>4, <1>5, TablesOnly, Zenon

\* The segment of a key, and what it is.
LEMMA HomeType ==
    ASSUME NEW n, Shaped(n), NEW k \in Key
    PROVE  /\ SegmentOf(k) \in 0 .. n - 1 /\ n \in Nat /\ DOMAIN segments = 0 .. n - 1
           /\ segments[SegmentOf(k)].table \in [Key -> Val \cup {Absent}]
<1>1. SegmentOf(k) \in 0 .. n - 1
    BY BeforeSplit, Zenon DEF Shaped
<1>2. segments[SegmentOf(k)] \in Segment /\ n \in Nat /\ DOMAIN segments = 0 .. n - 1
    BY <1>1, Zenon DEF Shaped, Shape
<1> QED BY <1>1, <1>2, SegmentFields, Zenon

\* Insert, up to the first test of its loop, and Erase: one entry changes.
LEMMA UpdateEffect ==
    ASSUME NEW n, Shaped(n), NEW k \in Key, NEW v \in Val \cup {Absent},
           Insert(k, v) \/ (v = Absent /\ Erase(k))
    PROVE  /\ Shaped(n)' /\ \A j \in Key : SegmentOf(j)' = SegmentOf(j)
           /\ \A s \in 0 .. n - 1, j \in Key :
                 segments'[s].table[j] = IF s = SegmentOf(k) /\ j = k THEN v ELSE segments[s].table[j]
<1> DEFINE home == SegmentOf(k)
           table == [segments[home].table EXCEPT ![k] = v]
<1>1. home \in 0 .. n - 1 /\ segments[home].table \in [Key -> Val \cup {Absent}]
    BY HomeType, Zenon
<1>2. UNCHANGED <<global_depth, segment_directory>>
    BY Zenon DEF Insert, Erase
<1>3. segments' = [segments EXCEPT ![home].table = table]
  <2>1. CASE Insert(k, v)
    BY <2>1, Zenon DEF Insert
  <2>2. CASE v = Absent /\ Erase(k)
    BY <2>2, Zenon DEF Erase
  <2> QED BY <2>1, <2>2, Zenon
<1>4. table \in [Key -> Val \cup {Absent}] /\ \A j \in Key : table[j] = IF j = k THEN v ELSE segments[home].table[j]
    BY <1>1, Zenon
<1> HIDE DEF home, table
<1>5. /\ Shaped(n)' /\ \A j \in Key : SegmentOf(j)' = SegmentOf(j)
      /\ \A s \in 0 .. n - 1 : segments'[s].table = IF s = home THEN table ELSE segments[s].table
  <2>1. PICK x, t : x = home /\ t = table
    BY Zenon
  <2>2. /\ x \in 0 .. n - 1 /\ t \in [Key -> Val \cup {Absent}]
        /\ segments' = [segments EXCEPT ![x].table = t]
    BY <1>1, <1>3, <1>4, <2>1, Zenon
  <2>3. /\ Shaped(n)' /\ \A j \in Key : SegmentOf(j)' = SegmentOf(j)
        /\ \A s \in 0 .. n - 1 : segments'[s].table = IF s = x THEN t ELSE segments[s].table
    BY <1>2, <2>2, OneTable
  <2> QED BY <2>1, <2>3, Zenon
<1>6. \A s \in 0 .. n - 1, j \in Key :
         segments'[s].table[j] = IF s = home /\ j = k THEN v ELSE segments[s].table[j]
    BY <1>4, <1>5, Zenon
<1> QED BY <1>5, <1>6, Zenon DEF home

\* Clear reaches every segment, since every segment has a slot.
LEMMA ClearEffect ==
    ASSUME NEW n, Shaped(n), Clear
    PROVE  /\ Shaped(n)' /\ \A j \in Key : SegmentOf(j)' = SegmentOf(j)
           /\ \A s \in 0 .. n - 1 : segments'[s].table = EmptyTable
<1>1. /\ segments \in [0 .. n - 1 -> Segment] /\ global_depth \in 0 .. HashBits
      /\ DOMAIN segment_directory = 0 .. 2 ^ global_depth - 1
      /\ \A s \in 0 .. n - 1 : Placed(global_depth, segment_directory, s, segments[s])
    BY Zenon DEF Shaped, Shape
<1>2. ASSUME NEW s \in 0 .. n - 1
      PROVE  \E i \in DOMAIN segment_directory : segment_directory[i] = s
  <2> DEFINE f == segments[s].segment_id
             c == Chunk(global_depth, segments[s])
  <2>1. segments[s] \in Segment /\ Placed(global_depth, segment_directory, s, segments[s])
    BY <1>1, Zenon
  <2>2. f \in Nat /\ c \in Nat /\ c >= 1 /\ 2 ^ global_depth \in Nat
    BY <1>1, <2>1, PlacedType, Zenon
  <2>3. f + c <= 2 ^ global_depth
        /\ \A i \in 0 .. 2 ^ global_depth - 1 : segment_directory[i] = s <=> f <= i /\ i < f + c
    BY <2>1, Zenon DEF Placed
  <2> HIDE DEF f, c
  <2>4. f \in 0 .. 2 ^ global_depth - 1
    BY <2>2, <2>3
  <2> QED BY <1>1, <2>2, <2>3, <2>4
<1>3. segments' = [s \in 0 .. n - 1 |-> [segments[s] EXCEPT !.table = EmptyTable]]
    BY <1>1, <1>2, Zenon DEF Clear
<1>4. EmptyTable \in [Key -> Val \cup {Absent}]
    BY Zenon DEF EmptyTable
<1>5. ASSUME NEW s \in 0 .. n - 1
      PROVE  /\ segments'[s] \in Segment
             /\ segments'[s].local_depth = segments[s].local_depth
             /\ segments'[s].segment_id = segments[s].segment_id
             /\ segments'[s].table = EmptyTable
  <2>1. segments[s] \in Segment /\ segments'[s] = [segments[s] EXCEPT !.table = EmptyTable]
    BY <1>1, <1>3, Zenon
  <2> QED BY <1>4, <2>1, SegmentFields
<1>6. segments' \in [0 .. n - 1 -> Segment]
    BY <1>3, <1>5, Zenon
<1> QED BY <1>5, <1>6, TablesOnly, Zenon DEF Clear

\* What a split does to the tables: the keys W move from their segment to the
\* new segment object n, and nothing else moves.
Moves(n, W) ==
    LET source == SegmentOf(growing)
    IN  /\ growing \in Key /\ Shaped(n) /\ Shaped(n + 1)'
        /\ \A j \in W : SegmentOf(j) = source
        /\ \A j \in Key : SegmentOf(j)' = IF j \in W THEN n ELSE SegmentOf(j)
        /\ \A j \in Key : segments'[n].table[j] = IF j \in W THEN segments[source].table[j] ELSE Absent
        /\ \A j \in Key : segments'[source].table[j] =
                             IF j \in W THEN Absent ELSE segments[source].table[j]
        /\ \A s \in 0 .. n - 1 : s # source => segments'[s].table = segments[s].table
        /\ \A j \in Key : j = growing =>
              growing' = IF NeedSplit(segments'[SegmentOf(j)'].table) THEN j ELSE Absent

\* Every split is of that kind.
LEMMA SplitEffect ==
    ASSUME NEW n, Shaped(n), growing \in Key \cup {Absent}, SplitSegment
    PROVE  \E W \in SUBSET Key : Moves(n, W)
<1>1. PICK depth, dir, segs, half : SplitsAs(n, depth, dir, segs, half)
    BY SplitForm, Zenon DEF Shaped
<1> DEFINE source == SegmentOf(growing)
           old == segs[source]
           first == old.segment_id
           W == {j \in Key : Upper(first, half, SlotAt(j, depth))}
<1>2. /\ growing \in Key /\ source \in 0 .. n - 1 /\ Shape(depth, dir, segs, n)
      /\ \A s \in 0 .. n - 1 : segs[s].table = segments[s].table
      /\ \A k \in Key : dir[SlotAt(k, depth)] = SegmentOf(k)
      /\ half \in Nat /\ half >= 1
      /\ Chunk(depth, old) = 2 * half
      /\ global_depth' = depth
      /\ segment_directory' = SplitDir(dir, first, half, n)
      /\ segments' = SplitSegs(depth, segs, source, half, n)
      /\ growing' = IF NeedSplit(segments'[segment_directory'[SlotAt(growing, depth)]].table)
                    THEN growing ELSE Absent
    BY <1>1, Zenon DEF SplitsAs
<1>3. Shaped(n + 1)'
    BY <1>1, SplitShape, Zenon DEF Shaped
<1> HIDE DEF source
<1>4. /\ depth \in 0 .. HashBits /\ n \in Nat /\ DOMAIN dir = 0 .. 2 ^ depth - 1
      /\ old \in Segment /\ Placed(depth, dir, source, old)
    BY <1>2, Zenon DEF Shape
<1>5. first \in Nat /\ 2 ^ depth \in Nat
    BY <1>4, PlacedType, Zenon
<1>6. \A j \in Key : SlotAt(j, depth) \in 0 .. 2 ^ depth - 1
    BY <1>4, SlotRange, Zenon
<1>7. \A i \in 0 .. 2 ^ depth - 1 : dir[i] = source <=> first <= i /\ i < first + 2 * half
    BY <1>2, <1>4, Zenon DEF Placed
<1> HIDE DEF old, first
<1>8. \A j \in W : SegmentOf(j) = source
  <2> TAKE j \in W
  <2>1. j \in Key /\ SlotAt(j, depth) \in Nat /\ first <= SlotAt(j, depth)
        /\ SlotAt(j, depth) < first + 2 * half
    BY <1>2, <1>5, <1>6 DEF Upper
  <2> QED BY <1>2, <1>6, <1>7, <2>1, Zenon
<1>9. \A j \in Key : j \in W <=> Upper(first, half, SlotAt(j, depth))
    BY Zenon
<1> HIDE DEF W
<1>10. \A j \in Key : SegmentOf(j)' = segment_directory'[SlotAt(j, depth)]
    BY <1>2, Zenon DEF SegmentOf, GetSegmentIndex, SlotAt
<1>11. \A j \in Key : SegmentOf(j)' = IF j \in W THEN n ELSE SegmentOf(j)
    BY <1>2, <1>4, <1>6, <1>9, <1>10, Zenon DEF SplitDir
<1>12. source # n /\ n \in 0 .. n /\ source \in 0 .. n /\ \A s \in 0 .. n - 1 : s \in 0 .. n /\ s # n
    BY <1>2, <1>4
<1>13. /\ segments'[n] = UpperPart(depth, old, half)
       /\ segments'[source] = LowerPart(depth, old, half)
       /\ \A s \in 0 .. n - 1 : s # source => segments'[s] = segs[s]
    BY <1>2, <1>12, Zenon DEF SplitSegs, old
<1>14. old.table = segments[source].table
    BY <1>2, Zenon DEF old
<1>15. \A j \in Key : segments'[n].table[j] = IF j \in W THEN segments[source].table[j] ELSE Absent
    BY <1>9, <1>13, <1>14 DEF UpperPart, first
<1>16. \A j \in Key : segments'[source].table[j] =
                         IF j \in W THEN Absent ELSE segments[source].table[j]
    BY <1>9, <1>13, <1>14 DEF LowerPart, first
<1>17. \A s \in 0 .. n - 1 : s # source => segments'[s].table = segments[s].table
    BY <1>2, <1>13, Zenon
<1>18. \A j \in Key : j = growing =>
          growing' = IF NeedSplit(segments'[SegmentOf(j)'].table) THEN j ELSE Absent
    BY <1>2, <1>10, Zenon
<1>19. W \in SUBSET Key
    BY Zenon DEF W
<1>20. Moves(n, W)
    BY <1>2, <1>3, <1>8, <1>11, <1>15, <1>16, <1>17, <1>18, Zenon DEF Moves, source
<1> QED BY <1>19, <1>20, Zenon

-----------------------------------------------------------------------------
(* The inductive invariant.                                                *)

\* An entry is in the table of its key's segment and in no other.
Homed == \A s \in DOMAIN segments, k \in Key : segments[s].table[k] # Absent => s = SegmentOf(k)

\* A set of keys that a segment may hold without having to split.
Light(S) == IsFiniteSet(S) /\ 5 * Cardinality(S) < 4 * MaxSegmentSize

\* A segment is at the threshold only by the key whose Insert is not over.
Bounded == \A s \in DOMAIN segments : Light(Held(s) \ {growing})

DInv == (\E n : Shaped(n)) /\ growing \in Key \cup {Absent} /\ Homed /\ Bounded

\* Fewer keys are no heavier.
LEMMA LightSubset == ASSUME NEW S, Light(S), NEW T \in SUBSET S PROVE Light(T)
<1>1. IsFiniteSet(T) /\ Cardinality(T) <= Cardinality(S)
    BY FS_Subset, Zenon DEF Light
<1>2. Cardinality(T) \in Nat /\ Cardinality(S) \in Nat
    BY <1>1, FS_CardinalityType, Zenon DEF Light
<1> QED BY <1>1, <1>2, SizeAssumption DEF Light

\* A segment that does not have to split is light.
LEMMA NoSplitIsLight ==
    ASSUME NEW t, NEW k, ~NeedSplit(t), IsFiniteSet({j \in Key : t[j] # Absent} \ {k})
    PROVE  Light({j \in Key : t[j] # Absent})
<1> DEFINE H == {j \in Key : t[j] # Absent}
<1>1. IsFiniteSet(H)
  <2>1. CASE k \in H
    <3>1. H = (H \ {k}) \cup {k}
        BY <2>1, Zenon
    <3> QED BY <3>1, FS_AddElement
  <2>2. CASE k \notin H
    <3>1. H = H \ {k}
        BY <2>2, Zenon
    <3> QED BY <3>1, Zenon
  <2> QED BY <2>1, <2>2, Zenon
<1>2. Cardinality(H) \in Nat
    BY <1>1, FS_CardinalityType, Zenon
<1>3. ~(5 * Cardinality(H) >= 4 * MaxSegmentSize)
    BY Zenon DEF NeedSplit
<1> HIDE DEF H
<1>4. Light(H)
    BY <1>1, <1>2, <1>3, SizeAssumption DEF Light
<1> QED BY <1>4, Zenon DEF H

-----------------------------------------------------------------------------
(* The invariant holds initially and every operation keeps it.             *)

LEMMA InitShape == Init => Shaped(2 ^ InitialDepth)
<1> SUFFICES ASSUME Init PROVE Shaped(2 ^ InitialDepth)
    BY Zenon
<1> DEFINE d == InitialDepth
           n == 2 ^ d
<1>1. d \in 0 .. HashBits /\ n \in Nat /\ n >= 1 /\ HashBits \in Nat
    BY HashBitsAssumption, Powers
<1>2. 2 ^ (d - d) = 1
  <2>1. d - d = 0
    BY <1>1
  <2> QED BY <2>1, Powers, Zenon
<1>3. EmptyTable \in [Key -> Val \cup {Absent}]
    BY Zenon DEF EmptyTable
<1>4. /\ global_depth = d
      /\ segment_directory = [i \in 0 .. n - 1 |-> i]
      /\ segments = [i \in 0 .. n - 1 |-> [table |-> EmptyTable, local_depth |-> d, segment_id |-> i]]
    BY Zenon DEF Init
<1> HIDE DEF n, d
<1>5. ASSUME NEW s \in 0 .. n - 1
      PROVE  segments[s] \in Segment /\ Placed(d, segment_directory, s, segments[s])
  <2>1. segments[s] = [table |-> EmptyTable, local_depth |-> d, segment_id |-> s] /\ s \in Nat
    BY <1>1, <1>4
  <2>2. segments[s].local_depth = d /\ segments[s].segment_id = s
    BY <2>1
  <2>3. Chunk(d, segments[s]) = 1
    BY <1>2, <2>2, Zenon DEF Chunk
  <2>4. segments[s] \in Segment
    BY <1>1, <1>3, <2>1 DEF Segment
  <2>5. \A i \in 0 .. n - 1 : segment_directory[i] = s <=> s <= i /\ i < s + 1
    BY <1>1, <1>4
  <2>6. s = 1 * s
    BY <2>1
  <2> QED BY <1>1, <2>1, <2>2, <2>3, <2>4, <2>5, <2>6 DEF Placed, n
<1>6. segments \in [0 .. n - 1 -> Segment]
    BY <1>4, <1>5, Zenon
<1>7. segment_directory \in [0 .. 2 ^ global_depth - 1 -> 0 .. n - 1]
    BY <1>4, Zenon DEF n
<1>8. Shape(global_depth, segment_directory, segments, n)
    BY <1>1, <1>4, <1>5, <1>6, <1>7, Zenon DEF Shape
<1> QED BY <1>8, Zenon DEF Shaped, n, d

LEMMA EmptyIsLight == Light({})
BY FS_EmptySet, SizeAssumption DEF Light

LEMMA DInit == Init => DInv
<1> SUFFICES ASSUME Init PROVE DInv
    BY Zenon
<1>1. (\E n : Shaped(n)) /\ growing \in Key \cup {Absent}
    BY InitShape, Zenon DEF Init
<1>2. \A s \in DOMAIN segments : segments[s].table = EmptyTable
    BY Zenon DEF Init
<1>3. \A s \in DOMAIN segments, k \in Key : segments[s].table[k] = Absent
    BY <1>2, Zenon DEF EmptyTable
<1>4. Homed
    BY <1>3, Zenon DEF Homed
<1>5. Bounded
  <2> SUFFICES ASSUME NEW s \in DOMAIN segments PROVE Light(Held(s) \ {growing})
    BY Zenon DEF Bounded
  <2>1. Held(s) \ {growing} = {}
    BY <1>3, Zenon DEF Held
  <2> QED BY <2>1, EmptyIsLight, Zenon
<1> QED BY <1>1, <1>4, <1>5, Zenon DEF DInv

\* Insert, up to the first test of its loop.
LEMMA InsertKeeps == ASSUME DInv, NEW k \in Key, NEW v \in Val, Insert(k, v) PROVE DInv'
<1>1. PICK n : Shaped(n)
    BY Zenon DEF DInv
<1>2. /\ Shaped(n)' /\ \A j \in Key : SegmentOf(j)' = SegmentOf(j)
      /\ \A s \in 0 .. n - 1, j \in Key :
            segments'[s].table[j] = IF s = SegmentOf(k) /\ j = k THEN v ELSE segments[s].table[j]
    BY <1>1, UpdateEffect
<1>3. DOMAIN segments = 0 .. n - 1 /\ DOMAIN segments' = 0 .. n - 1
    BY <1>1, <1>2, Zenon DEF Shaped, Shape
<1>4. growing = Absent /\ growing' \in {k, Absent}
    BY Zenon DEF Insert
<1>5. Homed'
    BY <1>2, <1>3 DEF DInv, Homed
<1>6. ASSUME NEW s \in 0 .. n - 1 PROVE Light(Held(s)' \ {growing'})
  <2>1. Light(Held(s) \ {growing}) /\ Held(s) \ {growing} = Held(s)
    BY <1>3, <1>4, AbsentAssumption, Zenon DEF DInv, Bounded, Held
  <2>2. Held(s)' \subseteq Held(s) \cup {k} /\ (s # SegmentOf(k) => Held(s)' \subseteq Held(s))
    BY <1>2, Zenon DEF Held
  <2>3. CASE growing' = k \/ s # SegmentOf(k)
    <3>1. Held(s)' \ {growing'} \subseteq Held(s)
        BY <2>2, <2>3, Zenon
    <3> QED BY <2>1, <3>1, LightSubset, Zenon
  <2>4. CASE growing' = Absent /\ s = SegmentOf(k)
    <3>1. PICK t : t = segments'[s].table
        BY Zenon
    <3>2. segments' = [segments EXCEPT ![s].table = [segments[s].table EXCEPT ![k] = v]]
          /\ growing' = IF NeedSplit([segments[s].table EXCEPT ![k] = v]) THEN k ELSE Absent
        BY <2>4, Zenon DEF Insert
    <3>3. segments'[s].table = [segments[s].table EXCEPT ![k] = v]
      <4>1. segments[s] \in Segment /\ segments \in [0 .. n - 1 -> Segment]
        BY <1>1, Zenon DEF Shaped, Shape
      <4>2. PICK u : u = [segments[s].table EXCEPT ![k] = v]
        BY Zenon
      <4>3. segments'[s] = [segments[s] EXCEPT !.table = u]
        BY <3>2, <4>1, <4>2, Zenon
      <4> QED BY <4>1, <4>2, <4>3, Zenon DEF Segment
    <3>4. ~NeedSplit(t)
      <4>1. k # Absent
        BY AbsentAssumption, Zenon
      <4> QED BY <2>4, <3>1, <3>2, <3>3, <4>1, Zenon
    <3>5. Held(s)' = {j \in Key : t[j] # Absent}
        BY <3>1, Zenon DEF Held
    <3>6. IsFiniteSet({j \in Key : t[j] # Absent} \ {k})
      <4>1. {j \in Key : t[j] # Absent} \ {k} \subseteq Held(s)
        BY <2>2, <3>5, Zenon
      <4> QED BY <2>1, <4>1, LightSubset, Zenon DEF Light
    <3>7. Light(Held(s)')
        BY <3>4, <3>5, <3>6, NoSplitIsLight, Zenon
    <3>8. Held(s)' \ {growing'} = Held(s)'
        BY <2>4, AbsentAssumption, Zenon DEF Held
    <3> QED BY <3>7, <3>8, Zenon
  <2> QED BY <1>4, <2>3, <2>4, Zenon
<1>7. Bounded'
    BY <1>3, <1>6, Zenon DEF Bounded
<1>8. (\E m : Shaped(m))' /\ (growing \in Key \cup {Absent})'
    BY <1>2, <1>4, Zenon
<1> QED BY <1>5, <1>7, <1>8, Zenon DEF DInv

LEMMA EraseKeeps == ASSUME DInv, NEW k \in Key, Erase(k) PROVE DInv'
<1>1. PICK n : Shaped(n)
    BY Zenon DEF DInv
<1>2. /\ Shaped(n)' /\ \A j \in Key : SegmentOf(j)' = SegmentOf(j)
      /\ \A s \in 0 .. n - 1, j \in Key :
            segments'[s].table[j] = IF s = SegmentOf(k) /\ j = k THEN Absent ELSE segments[s].table[j]
    BY <1>1, UpdateEffect
<1>3. DOMAIN segments = 0 .. n - 1 /\ DOMAIN segments' = 0 .. n - 1
    BY <1>1, <1>2, Zenon DEF Shaped, Shape
<1>4. growing' = growing
    BY Zenon DEF Erase
<1>5. Homed'
    BY <1>2, <1>3 DEF DInv, Homed
<1>6. ASSUME NEW s \in 0 .. n - 1 PROVE Light(Held(s)' \ {growing'})
  <2>1. Light(Held(s) \ {growing})
    BY <1>3, Zenon DEF DInv, Bounded
  <2>2. Held(s)' \ {growing'} \subseteq Held(s) \ {growing}
    BY <1>2, <1>4 DEF Held
  <2> QED BY <2>1, <2>2, LightSubset, Zenon
<1>7. Bounded'
    BY <1>3, <1>6, Zenon DEF Bounded
<1>8. (\E m : Shaped(m))' /\ (growing \in Key \cup {Absent})'
    BY <1>2, <1>4, Zenon DEF DInv
<1> QED BY <1>5, <1>7, <1>8, Zenon DEF DInv

LEMMA ClearKeeps == ASSUME DInv, Clear PROVE DInv'
<1>1. PICK n : Shaped(n)
    BY Zenon DEF DInv
<1>2. Shaped(n)' /\ \A s \in 0 .. n - 1 : segments'[s].table = EmptyTable
    BY <1>1, ClearEffect, Zenon
<1>3. DOMAIN segments' = 0 .. n - 1
    BY <1>2, Zenon DEF Shaped, Shape
<1>4. \A s \in 0 .. n - 1, k \in Key : segments'[s].table[k] = Absent
    BY <1>2, Zenon DEF EmptyTable
<1>5. Homed'
    BY <1>3, <1>4, Zenon DEF Homed
<1>6. Bounded'
  <2>1. ASSUME NEW s \in 0 .. n - 1 PROVE Light(Held(s)' \ {growing'})
    <3>1. Held(s)' \ {growing'} = {}
        BY <1>4, Zenon DEF Held
    <3> QED BY <3>1, EmptyIsLight, Zenon
  <2> QED BY <1>3, <2>1, Zenon DEF Bounded
<1>7. (\E m : Shaped(m))' /\ (growing \in Key \cup {Absent})'
    BY <1>2, Zenon DEF DInv, Clear
<1> QED BY <1>5, <1>6, <1>7, Zenon DEF DInv

\* A split: the segment of `growing' is the only one that can be at the
\* threshold afterwards, and the loop goes on when it is.
LEMMA SplitKeeps == ASSUME DInv, SplitSegment PROVE DInv'
<1>1. PICK n : Shaped(n)
    BY Zenon DEF DInv
<1>2. PICK W \in SUBSET Key : Moves(n, W)
    BY <1>1, SplitEffect, Zenon DEF DInv
<1>3. PICK g \in Key : g = growing
    BY <1>2, Zenon DEF Moves
<1> DEFINE source == SegmentOf(g)
<1>4. /\ Shaped(n + 1)'
      /\ \A j \in W : SegmentOf(j) = source
      /\ \A j \in Key : SegmentOf(j)' = IF j \in W THEN n ELSE SegmentOf(j)
      /\ \A j \in Key : segments'[n].table[j] = IF j \in W THEN segments[source].table[j] ELSE Absent
      /\ \A j \in Key : segments'[source].table[j] = IF j \in W THEN Absent ELSE segments[source].table[j]
      /\ \A s \in 0 .. n - 1 : s # source => segments'[s].table = segments[s].table
      /\ growing' = IF NeedSplit(segments'[SegmentOf(g)'].table) THEN g ELSE Absent
    BY <1>2, <1>3, Zenon DEF Moves
<1>5. source \in 0 .. n - 1 /\ n \in Nat /\ DOMAIN segments = 0 .. n - 1
    BY <1>1, HomeType, Zenon
<1>6. DOMAIN segments' = 0 .. n /\ \A s \in 0 .. n : s = n \/ s = source \/ (s \in 0 .. n - 1 /\ s # source)
    BY <1>4, <1>5 DEF Shaped, Shape
<1>7. \A s \in 0 .. n - 1, j \in Key : segments[s].table[j] # Absent => s = SegmentOf(j)
    BY <1>5, Zenon DEF DInv, Homed
<1>8. \A s \in 0 .. n - 1 : Light(Held(s) \ {g})
    BY <1>3, <1>5, Zenon DEF DInv, Bounded
<1> HIDE DEF source
<1>9. ASSUME NEW s \in 0 .. n, NEW j \in Key, segments'[s].table[j] # Absent
      PROVE  s = SegmentOf(j)'
  <2>1. CASE s = n
    BY <1>4, <1>9, <2>1, Zenon
  <2>2. CASE s = source
    BY <1>4, <1>5, <1>7, <1>9, <2>2, Zenon
  <2>3. CASE s \in 0 .. n - 1 /\ s # source
    <3>1. s = SegmentOf(j)
        BY <1>4, <1>7, <1>9, <2>3
    <3> QED BY <1>4, <2>3, <3>1, Zenon
  <2> QED BY <1>6, <2>1, <2>2, <2>3, Zenon
<1>10. Homed'
    BY <1>6, <1>9, Zenon DEF Homed
<1>11. ASSUME NEW s \in 0 .. n PROVE Light(Held(s)' \ {g})
  <2>1. CASE s = n \/ s = source
    <3>1. Held(s)' \ {g} \subseteq Held(source) \ {g}
        BY <1>4, <2>1, Zenon DEF Held
    <3> QED BY <1>5, <1>8, <3>1, LightSubset, Zenon
  <2>2. CASE s \in 0 .. n - 1 /\ s # source
    <3>1. Held(s)' = Held(s)
        BY <1>4, <2>2, Zenon DEF Held
    <3> QED BY <1>8, <2>2, <3>1, Zenon
  <2> QED BY <1>6, <2>1, <2>2, Zenon
<1>12. ASSUME NEW s \in 0 .. n PROVE Light(Held(s)' \ {growing'})
  <2>1. CASE growing' = g
    BY <1>11, <2>1, Zenon
  <2>2. CASE growing' # g
    <3>1. growing' = Absent /\ ~NeedSplit(segments'[SegmentOf(g)'].table)
        BY <1>4, <2>2, Zenon
    <3>2. Held(s)' \ {growing'} = Held(s)'
        BY <3>1, AbsentAssumption, Zenon DEF Held
    <3>3. CASE s = SegmentOf(g)'
      <4>1. PICK t : t = segments'[s].table
        BY Zenon
      <4>2. Held(s)' = {j \in Key : t[j] # Absent}
        BY <4>1, Zenon DEF Held
      <4>3. ~NeedSplit(t)
        BY <3>1, <3>3, <4>1, Zenon
      <4>4. IsFiniteSet({j \in Key : t[j] # Absent} \ {g})
        BY <1>11, <4>2, Zenon DEF Light
      <4> QED BY <3>2, <4>2, <4>3, <4>4, NoSplitIsLight
    <3>4. CASE s # SegmentOf(g)'
      <4>1. g \notin Held(s)'
        BY <1>9, <3>4, Zenon DEF Held
      <4>2. Held(s)' \ {g} = Held(s)'
        BY <4>1, Zenon
      <4> QED BY <1>11, <3>2, <4>2, Zenon
    <3> QED BY <3>3, <3>4, Zenon
  <2> QED BY <2>1, <2>2, Zenon
<1>13. Bounded'
    BY <1>6, <1>12, Zenon DEF Bounded
<1>14. (\E m : Shaped(m))' /\ (growing \in Key \cup {Absent})'
    BY <1>4, Zenon
<1> QED BY <1>10, <1>13, <1>14, Zenon DEF DInv

LEMMA DStep == DInv /\ [Next]_vars => DInv'
<1> SUFFICES ASSUME DInv, [Next]_vars PROVE DInv'
    BY Zenon
<1>1. CASE \E k \in Key, v \in Val : Insert(k, v)
    BY <1>1, InsertKeeps, Zenon
<1>2. CASE SplitSegment
    BY <1>2, SplitKeeps, Zenon
<1>3. CASE \E k \in Key : Erase(k)
    BY <1>3, EraseKeeps, Zenon
<1>4. CASE Clear
    BY <1>4, ClearKeeps, Zenon
<1>5. CASE UNCHANGED vars
  <2>1. UNCHANGED <<global_depth, segment_directory, segments, growing>>
    BY <1>5, Zenon DEF vars
  <2>2. (\E n : Shaped(n))'
    BY <2>1, Zenon DEF DInv, Shaped
  <2>3. Homed'
    BY <2>1, Zenon DEF DInv, Homed, SegmentOf, GetSegmentIndex
  <2>4. Bounded'
    BY <2>1, Zenon DEF DInv, Bounded, Held
  <2> QED BY <2>1, <2>2, <2>3, <2>4, Zenon DEF DInv
<1> QED BY <1>1, <1>2, <1>3, <1>4, <1>5, Zenon DEF Next

\* The invariant holds in every state.
THEOREM TableInvariant == Spec => []DInv
BY DInit, DStep, PTL DEF Spec

\* IsDirectoryConsistent: for every hash function, whatever its width, and for
\* any sequence of calls, the slots of a segment are the aligned chunk of
\* 2^(global_depth - local_depth) slots that starts at its segment_id.
THEOREM DirectoryIsConsistent == Spec => []DirectoryConsistent
<1>1. DInv => DirectoryConsistent
    BY ShapeIsConsistent, Zenon DEF DInv, Shaped
<1> QED BY <1>1, TableInvariant, PTL

\* No call of Insert leaves a segment at the split threshold.
THEOREM SegmentsStayBounded == Spec => []SegmentsBounded
<1>1. DInv => SegmentsBounded
  <2> SUFFICES ASSUME DInv, growing = Absent, NEW s \in DOMAIN segments
               PROVE  5 * Cardinality(Held(s)) < 4 * MaxSegmentSize
    BY Zenon DEF SegmentsBounded
  <2>1. Held(s) \ {growing} = Held(s)
    BY AbsentAssumption, Zenon DEF Held
  <2> QED BY <2>1, Zenon DEF DInv, Bounded, Light
<1> QED BY <1>1, TableInvariant, PTL

-----------------------------------------------------------------------------
(* The table implements a map.                                             *)

Contents == [k \in Key |-> Find(k)]

LEMMA MapInit == Init => Map!MInit
<1> SUFFICES ASSUME Init PROVE Map!MInit
    BY Zenon
<1>1. Shaped(2 ^ InitialDepth) /\ \A s \in DOMAIN segments : segments[s].table = EmptyTable
    BY InitShape, Zenon DEF Init
<1>2. ASSUME NEW k \in Key PROVE Find(k) = Absent
  <2>1. SegmentOf(k) \in DOMAIN segments
    BY <1>1, HomeType, Zenon
  <2> QED BY <1>1, <2>1, Zenon DEF Find, EmptyTable
<1> QED BY <1>2, Zenon DEF Map!MInit, Map!Empty, Init

LEMMA MapStep == DInv /\ [Next]_vars => [Map!MNext]_<<Contents, call>>
<1> SUFFICES ASSUME DInv, [Next]_vars PROVE [Map!MNext]_<<Contents, call>>
    BY Zenon
<1>1. PICK n : Shaped(n)
    BY Zenon DEF DInv
<1>2. \A k \in Key : SegmentOf(k) \in 0 .. n - 1
    BY <1>1, HomeType, Zenon
<1>3. ASSUME NEW k \in Key, NEW v \in Val, Insert(k, v) PROVE Map!Insert(k, v)
  <2>1. \A j \in Key : Find(j)' = IF j = k THEN v ELSE Find(j)
    BY <1>1, <1>2, <1>3, UpdateEffect DEF Find
  <2> QED BY <1>3, <2>1, Zenon DEF Insert, Map!Insert
<1>4. ASSUME NEW k \in Key, Erase(k) PROVE Map!Erase(k)
  <2>1. \A j \in Key : Find(j)' = IF j = k THEN Absent ELSE Find(j)
    BY <1>1, <1>2, <1>4, UpdateEffect DEF Find
  <2> QED BY <1>4, <2>1, Zenon DEF Erase, Map!Erase
<1>5. ASSUME Clear PROVE Map!Clear
  <2>1. \A j \in Key : Find(j)' = Absent
    BY <1>1, <1>2, <1>5, ClearEffect DEF Find, EmptyTable
  <2> QED BY <1>5, <2>1, Zenon DEF Clear, Map!Clear, Map!Empty
<1>6. ASSUME SplitSegment PROVE UNCHANGED <<Contents, call>>
  <2>1. PICK W \in SUBSET Key : Moves(n, W)
    BY <1>1, <1>6, SplitEffect, Zenon DEF DInv
  <2>2. PICK source : source = SegmentOf(growing)
    BY Zenon
  <2>3. /\ growing \in Key
        /\ \A j \in W : SegmentOf(j) = source
        /\ \A j \in Key : SegmentOf(j)' = IF j \in W THEN n ELSE SegmentOf(j)
        /\ \A j \in Key : segments'[n].table[j] = IF j \in W THEN segments[source].table[j] ELSE Absent
        /\ \A j \in Key : segments'[source].table[j] = IF j \in W THEN Absent ELSE segments[source].table[j]
        /\ \A s \in 0 .. n - 1 : s # source => segments'[s].table = segments[s].table
    BY <2>1, <2>2, Zenon DEF Moves
  <2>4. ASSUME NEW j \in Key PROVE Find(j)' = Find(j)
    <3>1. CASE j \in W
        BY <2>3, <3>1, Zenon DEF Find
    <3>2. CASE j \notin W
        BY <1>2, <2>3, <3>2, Zenon DEF Find
    <3> QED BY <3>1, <3>2, Zenon
  <2>5. Contents' = Contents
    BY <2>4, Zenon DEF Contents
  <2> QED BY <1>6, <2>5, Zenon DEF SplitSegment
<1>7. ASSUME UNCHANGED vars PROVE UNCHANGED <<Contents, call>>
    BY <1>7, Zenon DEF vars, Contents, Find, SegmentOf, GetSegmentIndex
<1> QED BY <1>3, <1>4, <1>5, <1>6, <1>7, Zenon DEF Next, Map!MNext

\* Whatever splits and doublings happen, Find answers like a plain map to
\* which Insert, Erase and Clear are applied one after another.
THEOREM TableImplementsMap == Spec => ImplementsMap
BY MapInit, MapStep, TableInvariant, PTL DEF Spec, ImplementsMap, Map!MSpec, Contents

-----------------------------------------------------------------------------
(* Iteration: the walk from slot to slot that ForEach and Size make.       *)

\* Induction, with a set in place of the predicate.
LEMMA Induction ==
    ASSUME NEW S, 0 \in S, \A m \in Nat : m \in S => m + 1 \in S
    PROVE  \A m \in Nat : m \in S
<1> SUFFICES ASSUME NEW b \in Nat, b \notin S PROVE FALSE
    BY Zenon
<1> DEFINE R == OpToRel(<, Nat)
           T == Nat \ S
<1>1. IsWellFoundedOn(R, Nat)
    BY NatLessThanWellFounded, Zenon
<1>2. \A x, y \in Nat : x < y => <<x, y>> \in R
    BY Zenon DEF OpToRel
<1> HIDE DEF R
<1>3. PICK x \in T : \A y \in T : ~(<<y, x>> \in R)
    BY <1>1, WFMin, Zenon
<1>4. x \in Nat /\ x # 0 /\ x \notin S
    BY Zenon
<1>5. x - 1 \in Nat /\ x - 1 < x /\ x = (x - 1) + 1
    BY <1>4
<1>6. x - 1 \notin T
    BY <1>2, <1>3, <1>4, <1>5, Zenon
<1> QED BY <1>4, <1>5, <1>6, Zenon

\* A walk that always goes up ends: the recursive function that collects its
\* slots exists.
LEMMA WalkExists ==
    ASSUME NEW N \in Nat, NEW next \in [0 .. N - 1 -> Nat], \A i \in 0 .. N - 1 : next[i] > i
    PROVE  \E f : f = [i \in Nat |-> IF i \in 0 .. N - 1 THEN {i} \cup f[next[i]] ELSE {}]
<1> DEFINE Body(f, i) == IF i \in 0 .. N - 1 THEN {i} \cup f[next[i]] ELSE {}
           Upto(f, m) == DOMAIN f = Nat /\ \A i \in Nat : i + m >= N => f[i] = Body(f, i)
           S == {m \in Nat : \E f : Upto(f, m)}
<1>1. 0 \in S
  <2> DEFINE f == [i \in Nat |-> {}]
  <2>1. Upto(f, 0)
    OBVIOUS
  <2> QED BY <2>1, Zenon
<1>2. ASSUME NEW m \in Nat, m \in S PROVE m + 1 \in S
  <2>1. PICK f : Upto(f, m)
    BY <1>2, Zenon
  <2> DEFINE k == N - (m + 1)
             g == [f EXCEPT ![k] = Body(f, k)]
  <2>2. CASE k \in Nat
    <3>1. DOMAIN g = Nat /\ g[k] = Body(f, k) /\ \A i \in Nat : i # k => g[i] = f[i]
        BY <2>1, <2>2, Zenon
    <3>2. k \in Int /\ k + (m + 1) = N
        OBVIOUS
    <3> HIDE DEF g, k
    <3>3. ASSUME NEW i \in Nat, i + (m + 1) >= N PROVE g[i] = Body(g, i)
      <4>1. i = k \/ (i > k /\ i + m >= N)
        BY <3>2, <3>3
      <4>2. CASE i \in 0 .. N - 1
        <5>1. next[i] \in Nat /\ next[i] > k
            BY <3>2, <4>1, <4>2
        <5>2. g[next[i]] = f[next[i]]
            BY <3>1, <3>2, <5>1
        <5>3. Body(g, i) = Body(f, i)
            BY <5>2, Zenon
        <5>4. g[i] = Body(f, i)
          <6>1. CASE i = k
            BY <3>1, <6>1, Zenon
          <6>2. CASE i > k /\ i + m >= N
            BY <2>1, <3>1, <3>2, <6>2
          <6> QED BY <4>1, <6>1, <6>2, Zenon
        <5> QED BY <5>3, <5>4, Zenon
      <4>3. CASE i \notin 0 .. N - 1
        <5>1. Body(f, i) = {} /\ Body(g, i) = {}
            BY <4>3, Zenon
        <5>2. CASE i = k
            BY <3>1, <5>1, <5>2, Zenon
        <5>3. CASE i > k /\ i + m >= N
          <6>1. f[i] = Body(f, i) /\ g[i] = f[i]
            BY <2>1, <3>1, <3>2, <5>3, Zenon
          <6> QED BY <5>1, <6>1, Zenon
        <5> QED BY <4>1, <5>2, <5>3, Zenon
      <4> QED BY <4>2, <4>3, Zenon
    <3>4. Upto(g, m + 1)
        BY <3>1, <3>3, Zenon
    <3>5. m + 1 \in Nat
        OBVIOUS
    <3> HIDE DEF Upto
    <3> QED BY <3>4, <3>5, Zenon
  <2>3. CASE k \notin Nat
    <3>1. \A i \in Nat : i + m >= N
        BY <2>3
    <3>2. Upto(f, m + 1)
        BY <2>1, <3>1, Zenon
    <3>3. m + 1 \in Nat
        OBVIOUS
    <3> HIDE DEF Upto
    <3> QED BY <3>2, <3>3, Zenon
  <2> QED BY <2>2, <2>3, Zenon
<1> HIDE DEF S
<1>3. N \in S
    BY <1>1, <1>2, Induction, Zenon
<1>4. PICK f : Upto(f, N)
    BY <1>3, Zenon DEF S
<1>5. \A i \in Nat : f[i] = Body(f, i)
  <2> TAKE i \in Nat
  <2>1. i + N >= N
    OBVIOUS
  <2> QED BY <1>4, <2>1, Zenon
<1> DEFINE g == [i \in Nat |-> f[i]]
<1>6. \A i \in Nat : g[i] = f[i]
    BY Zenon
<1>7. \A i \in Nat : f[i] = Body(g, i)
  <2> TAKE i \in Nat
  <2>1. CASE i \in 0 .. N - 1
    <3>1. next[i] \in Nat
        BY <2>1, Zenon
    <3> QED BY <1>5, <1>6, <3>1, Zenon
  <2>2. CASE i \notin 0 .. N - 1
    BY <1>5, <2>2, Zenon
  <2> QED BY <2>1, <2>2, Zenon
<1>8. g = [i \in Nat |-> Body(g, i)]
    BY <1>7, Zenon
<1> QED BY <1>8, Zenon

\* f collects the slots of a walk, and the walk goes from one of the slots T to
\* the next of them.
Walks(f, N, next) == \A i \in Nat : f[i] = IF i \in 0 .. N - 1 THEN {i} \cup f[next[i]] ELSE {}
Stops(T, N, next) ==
    /\ T \in SUBSET (0 .. N - 1) /\ 0 \in T
    /\ \A i \in T : /\ next[i] = N \/ next[i] \in T
                    /\ \A j \in T : ~(i < j /\ j < next[i])

\* Then T is what it collects.
LEMMA WalkCollects ==
    ASSUME NEW N \in Nat, NEW next \in [0 .. N - 1 -> Nat], \A i \in 0 .. N - 1 : next[i] > i,
           NEW T, Stops(T, N, next), NEW f, Walks(f, N, next)
    PROVE  f[0] = T
<1> DEFINE From(i) == {j \in T : j >= i}
           S == {m \in Nat : \A i \in T : i + m >= N => f[i] = From(i)}
<1>1. T \in SUBSET (0 .. N - 1) /\ 0 \in T /\ f[N] = {}
  <2>1. N \notin 0 .. N - 1
    OBVIOUS
  <2>2. f[N] = {}
    BY <2>1, Zenon DEF Walks
  <2> QED BY <2>2, Zenon DEF Stops
<1>2. \A i \in T : i \in Nat /\ i < N /\ next[i] \in Nat /\ next[i] > i
    BY <1>1
<1>3. \A i \in T : f[i] = {i} \cup f[next[i]]
  <2> TAKE i \in T
  <2>1. i \in Nat /\ i \in 0 .. N - 1
    BY <1>1
  <2> QED BY <2>1, Zenon DEF Walks
<1>4. 0 \in S
    BY <1>2
<1>5. ASSUME NEW m \in Nat, m \in S PROVE m + 1 \in S
  <2> SUFFICES ASSUME NEW i \in T, i + (m + 1) >= N PROVE f[i] = From(i)
    OBVIOUS
  <2> DEFINE x == next[i]
  <2>1. i \in Nat /\ x \in Nat /\ x > i /\ f[i] = {i} \cup f[x] /\ (x = N \/ x \in T)
        /\ \A j \in T : ~(i < j /\ j < x)
    BY <1>2, <1>3, Zenon DEF Stops
  <2> HIDE DEF x
  <2>2. f[x] = From(x)
    <3>1. CASE x = N
      <4>1. \A j \in T : ~(j >= N)
        BY <1>2
      <4>2. From(N) = {}
        BY <4>1, Zenon
      <4> QED BY <1>1, <3>1, <4>2, Zenon
    <3>2. CASE x \in T
      <4>1. x + m >= N
        BY <2>1
      <4> QED BY <1>5, <3>2, <4>1, Zenon
    <3> QED BY <2>1, <3>1, <3>2, Zenon
  <2>3. ASSUME NEW j \in T PROVE j >= i <=> (j = i \/ j >= x)
    BY <1>2, <2>1
  <2>4. \A j : j \in From(i) <=> j = i \/ j \in From(x)
    BY <2>3, Zenon
  <2> HIDE DEF From
  <2>5. From(i) = {i} \cup From(x)
    BY <2>4, Zenon
  <2> QED BY <2>1, <2>2, <2>5, Zenon
<1> HIDE DEF S
<1>6. N \in S
    BY <1>4, <1>5, Induction, Zenon
<1>7. f[0] = From(0)
    BY <1>1, <1>6 DEF S
<1>8. \A j \in T : j >= 0
    BY <1>2
<1>9. From(0) = T
    BY <1>8, Zenon
<1> QED BY <1>7, <1>9, Zenon

\* The first slots of the segments.
Starts == {segments[s].segment_id : s \in DOMAIN segments}

\* ForEach and Size stop at the first slot of every segment and nowhere else.
LEMMA VisitedStarts == ASSUME NEW n, Shaped(n) PROVE Visited = Starts
<1> DEFINE N == 2 ^ global_depth
           D == 0 .. N - 1
           next == [i \in D |-> NextSeg(i)]
           first(s) == segments[s].segment_id
           size(s) == Chunk(global_depth, segments[s])
<1>1. /\ global_depth \in 0 .. HashBits /\ n \in Nat /\ segments \in [0 .. n - 1 -> Segment]
      /\ DOMAIN segment_directory = D /\ \A i \in D : segment_directory[i] \in 0 .. n - 1
      /\ \A s \in 0 .. n - 1 : Placed(global_depth, segment_directory, s, segments[s])
    BY Zenon DEF Shaped, Shape
<1>2. N \in Nat /\ N >= 1
  <2>1. global_depth \in Nat
    BY <1>1, HashBitsAssumption
  <2> QED BY <2>1, Powers, Zenon
<1>3. ASSUME NEW s \in 0 .. n - 1
      PROVE  /\ first(s) \in Nat /\ size(s) \in Nat /\ size(s) >= 1 /\ first(s) + size(s) <= N
             /\ \A i \in D : segment_directory[i] = s <=> first(s) <= i /\ i < first(s) + size(s)
  <2>1. segments[s] \in Segment /\ Placed(global_depth, segment_directory, s, segments[s])
    BY <1>1, Zenon
  <2>2. first(s) \in Nat /\ size(s) \in Nat /\ size(s) >= 1
    BY <1>1, <2>1, PlacedType, Zenon
  <2> QED BY <2>1, <2>2, Zenon DEF Placed
<1>4. \A i \in D : NextSeg(i) = i + size(segment_directory[i])
    BY Zenon DEF NextSeg, Chunk
<1>5. Starts = {first(s) : s \in 0 .. n - 1}
    BY <1>1, Zenon DEF Starts
<1> HIDE DEF N, first, size
<1>6. /\ next \in [D -> Nat] /\ \A i \in D : next[i] > i
      /\ \A i \in D : next[i] = i + size(segment_directory[i])
  <2>1. ASSUME NEW i \in D PROVE NextSeg(i) \in Nat /\ NextSeg(i) > i
    <3>1. i \in Nat /\ size(segment_directory[i]) \in Nat /\ size(segment_directory[i]) >= 1
      <4>1. segment_directory[i] \in 0 .. n - 1 /\ i \in Nat
        BY <1>1, <1>2
      <4> QED BY <1>3, <4>1, Zenon
    <3> QED BY <1>4, <3>1
  <2>2. \A i \in D : next[i] = NextSeg(i)
    BY Zenon
  <2> QED BY <1>4, <2>1, <2>2, Zenon
<1>7. \A s \in 0 .. n - 1 : first(s) \in D /\ segment_directory[first(s)] = s
  <2> TAKE s \in 0 .. n - 1
  <2>1. first(s) \in D
    BY <1>2, <1>3
  <2> QED BY <1>3, <2>1
<1>8. Starts \in SUBSET D /\ \A i \in Starts : i = first(segment_directory[i]) /\ segment_directory[i] \in 0 .. n - 1
    BY <1>1, <1>5, <1>7, Zenon
<1>9. 0 \in Starts
  <2>1. 0 \in D
    BY <1>2
  <2>2. first(segment_directory[0]) = 0
    BY <1>1, <1>3, <2>1
  <2> QED BY <1>1, <1>5, <2>1, <2>2, Zenon
<1> HIDE DEF next
<1>10. ASSUME NEW i \in Starts
       PROVE  /\ next[i] = N \/ next[i] \in Starts
              /\ \A j \in Starts : ~(i < j /\ j < next[i])
  <2> DEFINE s == segment_directory[i]
             e == first(s) + size(s)
  <2>1. i \in D /\ s \in 0 .. n - 1 /\ i = first(s) /\ next[i] = e
    BY <1>6, <1>8, Zenon
  <2>2. /\ first(s) \in Nat /\ size(s) \in Nat /\ size(s) >= 1 /\ e <= N /\ e \in Nat
        /\ \A j \in D : segment_directory[j] = s <=> first(s) <= j /\ j < e
    BY <1>3, <2>1
  <2> HIDE DEF s, e
  <2>3. ASSUME NEW j \in Starts PROVE ~(i < j /\ j < e)
    <3>1. j \in D /\ j = first(segment_directory[j])
        BY <1>8, Zenon
    <3>2. first(s) < j /\ j < e => segment_directory[j] = s
        BY <1>2, <2>2, <3>1
    <3> QED BY <1>2, <2>1, <2>2, <3>1, <3>2
  <2>4. CASE e < N
    <3> DEFINE t == segment_directory[e]
               f == first(t)
               z == size(t)
    <3>1. e \in D /\ e - 1 \in D
        BY <1>2, <2>1, <2>2, <2>4 DEF e
    <3>2. t \in 0 .. n - 1
        BY <1>1, <3>1, Zenon
    <3>3. /\ f \in Nat /\ z \in Nat
          /\ \A j \in D : segment_directory[j] = t <=> f <= j /\ j < f + z
        BY <1>3, <3>2, Zenon
    <3>4. f <= e /\ e < f + z
        BY <3>1, <3>3, Zenon
    <3>5. segment_directory[e - 1] = s /\ t # s
      <4>1. first(s) <= e - 1 /\ e - 1 < e /\ ~(e < e)
        BY <2>2 DEF e
      <4> QED BY <2>2, <3>1, <4>1, Zenon
    <3>6. ~(f <= e - 1 /\ e - 1 < f + z)
        BY <3>1, <3>3, <3>5, Zenon
    <3> HIDE DEF f, z
    <3>7. f = e
        BY <2>2, <3>3, <3>4, <3>6
    <3> QED BY <1>5, <2>1, <2>3, <3>2, <3>7, Zenon DEF f
  <2> QED BY <1>2, <2>1, <2>2, <2>3, <2>4
<1> DEFINE Walk(f) == f = [i \in Nat |-> IF i \in DOMAIN segment_directory THEN {i} \cup f[NextSeg(i)] ELSE {}]
<1>11. ASSUME NEW f
       PROVE  [i \in Nat |-> IF i \in DOMAIN segment_directory THEN {i} \cup f[NextSeg(i)] ELSE {}]
              = [i \in Nat |-> IF i \in D THEN {i} \cup f[next[i]] ELSE {}]
    BY <1>1, Zenon DEF next
<1>12. \E f : Walk(f)
  <2>1. PICK f : f = [i \in Nat |-> IF i \in D THEN {i} \cup f[next[i]] ELSE {}]
    BY <1>2, <1>6, WalkExists, Zenon
  <2>2. Walk(f)
    BY <1>11, <2>1, Zenon
  <2> QED BY <2>2, Zenon
<1> DEFINE from == CHOOSE f : Walk(f)
<1>13. Walk(from)
    BY <1>12, Zenon
<1>14. Visited = from[0]
    BY Zenon DEF Visited
<1> HIDE DEF from
<1>15. ASSUME NEW i \in Nat PROVE from[i] = IF i \in D THEN {i} \cup from[next[i]] ELSE {}
  <2> DEFINE F == [j \in Nat |-> IF j \in D THEN {j} \cup from[next[j]] ELSE {}]
  <2>1. from = F
    BY <1>11, <1>13, Zenon
  <2>2. F[i] = IF i \in D THEN {i} \cup from[next[i]] ELSE {}
    BY Zenon
  <2> HIDE DEF F
  <2> QED BY <2>1, <2>2, Zenon
<1>16. from[0] = Starts
  <2>1. Stops(Starts, N, next)
    BY <1>8, <1>9, <1>10, Zenon DEF Stops
  <2>2. Walks(from, N, next)
    BY <1>15, Zenon DEF Walks
  <2> QED BY <1>2, <1>6, <2>1, <2>2, WalkCollects, Zenon
<1> QED BY <1>14, <1>16, Zenon

\* The entries of the table are finitely many.
LEMMA FinitelyMany == DInv => IsFiniteSet({k \in Key : Find(k) # Absent})
<1> SUFFICES ASSUME DInv PROVE IsFiniteSet({k \in Key : Find(k) # Absent})
    BY Zenon
<1>1. PICK n : Shaped(n)
    BY Zenon DEF DInv
<1>2. n \in Nat /\ DOMAIN segments = 0 .. n - 1
    BY <1>1, Zenon DEF Shaped, Shape
<1> DEFINE I == 0 .. n - 1
           h == [s \in I |-> Held(s)]
           H == {Held(s) : s \in I}
<1>3. IsFiniteSet(I)
    BY <1>2, FS_Interval
<1>4. IsFiniteSet(H)
  <2>1. h \in Surjection(I, H)
    BY Zenon DEF Surjection
  <2> QED BY <1>3, <2>1, FS_Surjection
<1>5. ASSUME NEW s \in I PROVE IsFiniteSet(Held(s))
  <2>1. IsFiniteSet(Held(s) \ {growing})
    BY <1>2, Zenon DEF DInv, Bounded, Light
  <2>2. IsFiniteSet((Held(s) \ {growing}) \cup {growing})
    BY <2>1, FS_AddElement, Zenon
  <2>3. Held(s) \subseteq (Held(s) \ {growing}) \cup {growing}
    BY Zenon
  <2> QED BY <2>2, <2>3, FS_Subset, Zenon
<1>6. IsFiniteSet(UNION H)
    BY <1>4, <1>5, FS_UNION, Zenon
<1>7. {k \in Key : Find(k) # Absent} \subseteq UNION H
  <2> SUFFICES ASSUME NEW k \in Key, Find(k) # Absent PROVE k \in UNION H
    BY Zenon
  <2>1. SegmentOf(k) \in I
    BY <1>1, HomeType, Zenon
  <2>2. k \in Held(SegmentOf(k))
    BY Zenon DEF Held, Find
  <2> QED BY <2>1, <2>2, Zenon
<1> QED BY <1>6, <1>7, FS_Subset, Zenon

\* ForEach and Size meet every entry exactly once.
THEOREM IterationStaysExact == Spec => []IterationIsExact
<1>1. ASSUME DInv PROVE IterationIsExact
  <2>1. PICK n : Shaped(n)
    BY <1>1, Zenon DEF DInv
  <2>2. n \in Nat /\ DOMAIN segments = 0 .. n - 1 /\ Visited = Starts
    BY <2>1, VisitedStarts, Zenon DEF Shaped, Shape
  <2> DEFINE first(s) == segments[s].segment_id
             L == {k \in Key : Find(k) # Absent}
             f == [k \in L |-> <<first(SegmentOf(k)), k>>]
  <2>3. ASSUME NEW s \in 0 .. n - 1 PROVE segment_directory[first(s)] = s
    <3>1. segments[s] \in Segment /\ Placed(global_depth, segment_directory, s, segments[s])
          /\ global_depth \in 0 .. HashBits
        BY <2>1, Zenon DEF Shaped, Shape
    <3> DEFINE c == Chunk(global_depth, segments[s])
               i == first(s)
    <3>2. i \in Nat /\ c \in Nat /\ c >= 1 /\ 2 ^ global_depth \in Nat
        BY <3>1, PlacedType, Zenon
    <3>3. i + c <= 2 ^ global_depth
          /\ \A j \in 0 .. 2 ^ global_depth - 1 : segment_directory[j] = s <=> i <= j /\ j < i + c
        BY <3>1, Zenon DEF Placed
    <3> HIDE DEF i, c
    <3>4. i \in 0 .. 2 ^ global_depth - 1
        BY <3>2, <3>3
    <3>5. segment_directory[i] = s
        BY <3>2, <3>3, <3>4
    <3> QED BY <3>5, Zenon DEF i
  <2> HIDE DEF first
  <2>4. Starts = {first(s) : s \in 0 .. n - 1}
    BY <2>2, Zenon DEF Starts, first
  <2>5. \A k \in Key : k \in L <=> k \in Held(SegmentOf(k))
    BY Zenon DEF Held, Find
  <2>6. \A k \in Key : SegmentOf(k) \in 0 .. n - 1
    BY <2>1, HomeType, Zenon
  <2>7. \A s \in 0 .. n - 1, k \in Key : k \in Held(s) => s = SegmentOf(k)
    BY <1>1, <2>2, Zenon DEF DInv, Homed, Held
  <2>8. Iterated = UNION {{i} \X Held(segment_directory[i]) : i \in Starts}
    BY <2>2, Zenon DEF Iterated
  <2>9. \A k \in L : k \in Key
    BY Zenon
  <2> HIDE DEF L
  <2>10. ASSUME NEW k \in L PROVE f[k] \in Iterated
    <3>1. first(SegmentOf(k)) \in Starts /\ segment_directory[first(SegmentOf(k))] = SegmentOf(k)
        BY <2>3, <2>4, <2>6, <2>9, Zenon
    <3> QED BY <2>5, <2>8, <2>9, <3>1
  <2>11. ASSUME NEW t \in Iterated PROVE \E k \in L : f[k] = t
    <3>1. PICK i \in Starts : t \in {i} \X Held(segment_directory[i])
        BY <2>8, Zenon
    <3>2. PICK s \in 0 .. n - 1 : i = first(s)
        BY <2>4, Zenon
    <3>3. PICK k \in Held(s) : t = <<first(s), k>>
        BY <2>3, <3>1, <3>2
    <3>4. k \in Key /\ s = SegmentOf(k)
        BY <2>7, <3>3, Zenon DEF Held
    <3>5. k \in L
        BY <2>5, <3>3, <3>4, Zenon
    <3> QED BY <3>3, <3>4, <3>5, Zenon
  <2>12. f \in Bijection(L, Iterated)
    <3>1. f \in [L -> Iterated]
        BY <2>10, Zenon
    <3>2. \A a, b \in L : f[a] = f[b] => a = b
        BY Zenon
    <3> HIDE DEF f
    <3> QED BY <2>11, <3>1, <3>2, Zenon DEF Bijection, Injection, Surjection, IsInjective
  <2>13. IsFiniteSet(L)
    BY <1>1, FinitelyMany, Zenon DEF L
  <2>14. Cardinality(Iterated) = Cardinality(L)
    BY <2>12, <2>13, FS_Bijection, Zenon DEF ExistsBijection
  <2> QED BY <2>14, Zenon DEF IterationIsExact, L
<1> QED BY <1>1, TableInvariant, PTL
=============================================================================
