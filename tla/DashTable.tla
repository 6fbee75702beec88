----------------------------- MODULE DashTable -----------------------------
(***************************************************************************)
(* The extendible hash table (core/dashtable.h, core/dashtable.cc) behind  *)
(* every table of a Database.  A key's segment is found through the top    *)
(* global_depth bits of its hash; several directory slots share a segment  *)
(* until it splits.                                                        *)
(*                                                                         *)
(* A segment is an object, shared by reference, so the directory maps      *)
(* slots to object numbers and `segments' maps those to their state.       *)
(* Insert is one call, but its loop over SplitSegment is kept: `growing'   *)
(* holds the key whose Insert has not returned, and nothing else runs      *)
(* before it has.                                                          *)
(***************************************************************************)
EXTENDS Integers, FiniteSets

CONSTANTS
    Key, Val,
    Absent,         \* no entry for a key; no Insert in progress
    HashBits,       \* width of a hash, 64 in the code
    Hash,           \* ankerl::unordered_dense::hash
    InitialDepth,   \* log2 of initial_segment_count
    MaxSegmentSize  \* max_segment_size

ASSUME HashBitsAssumption == HashBits \in Nat \ {0} /\ InitialDepth \in 0 .. HashBits
ASSUME HashAssumption == Hash \in [Key -> 0 .. 2 ^ HashBits - 1]
ASSUME SizeAssumption == MaxSegmentSize \in Nat \ {0}
ASSUME AbsentAssumption == Absent \notin Key \cup Val

VARIABLES
    global_depth,
    segment_directory,  \* slot -> segment object
    segments,           \* segment object -> its table, local_depth, segment_id
    growing,            \* the key being inserted while segments split, or Absent
    call                \* history: the last call that changes the table

vars == <<global_depth, segment_directory, segments, growing, call>>

Segment == [table : [Key -> Val \cup {Absent}], local_depth : 0 .. HashBits, segment_id : Nat]
EmptyTable == [k \in Key |-> Absent]

Init ==
    /\ global_depth = InitialDepth
    /\ segment_directory = [i \in 0 .. 2 ^ InitialDepth - 1 |-> i]
    /\ segments = [i \in 0 .. 2 ^ InitialDepth - 1 |->
                      [table |-> EmptyTable, local_depth |-> InitialDepth, segment_id |-> i]]
    /\ growing = Absent
    /\ call = <<"none">>

-----------------------------------------------------------------------------
(* Lookups.                                                                *)

\* The slot of key k in a directory of the given depth: the top bits of the hash.
SlotAt(k, depth) == Hash[k] \div 2 ^ (HashBits - depth)
GetSegmentIndex(k) == SlotAt(k, global_depth)
SegmentOf(k) == segment_directory[GetSegmentIndex(k)]

Find(k) == segments[SegmentOf(k)].table[k]

Held(s) == {k \in Key : segments[s].table[k] # Absent}

\* Faulty variant: iteration goes slot by slot.
NextSlot(i) == i + 1

\* The first slot of the next segment.
NextSeg(i) == i + 2 ^ (global_depth - segments[segment_directory[i]].local_depth)

\* The slots at which ForEach, Size and BucketCount stop.
Visited ==
    LET from[i \in Nat] == IF i \in DOMAIN segment_directory THEN {i} \cup from[NextSeg(i)] ELSE {}
    IN  from[0]

\* What they see there: pairs of a slot and a key.
Iterated == UNION {{i} \X Held(segment_directory[i]) : i \in Visited}

-----------------------------------------------------------------------------
(* Updates.                                                                *)

\* Faulty variant: one entry too many before a split.
NeedSplitLate(table) == 5 * Cardinality({k \in Key : table[k] # Absent}) > 4 * MaxSegmentSize + 4

\* kSplitThreshold is 0.8.
NeedSplit(table) == 5 * Cardinality({k \in Key : table[k] # Absent}) >= 4 * MaxSegmentSize

\* insert_or_assign, up to the first test of the loop.
Insert(k, v) ==
    /\ growing = Absent
    /\ call' = <<"Insert", k, v>>
    /\ LET table == [segments[SegmentOf(k)].table EXCEPT ![k] = v]
       IN  /\ segments' = [segments EXCEPT ![SegmentOf(k)].table = table]
           /\ growing' = IF NeedSplit(table) THEN k ELSE Absent
    /\ UNCHANGED <<global_depth, segment_directory>>

\* Faulty variant: the segments keep their ids when the directory doubles.
DoubledKeepingIds ==
    [depth     |-> global_depth + 1,
     directory |-> [i \in 0 .. 2 ^ (global_depth + 1) - 1 |-> segment_directory[i \div 2]],
     segments  |-> segments]

\* The directory doubles: slot i becomes slots 2i and 2i + 1.  The loop runs
\* downwards, so a segment's id ends as twice the first slot it had.
Doubled ==
    LET first(s) == CHOOSE i \in DOMAIN segment_directory :
                       /\ segment_directory[i] = s
                       /\ \A j \in DOMAIN segment_directory : segment_directory[j] = s => i <= j
    IN  [depth     |-> global_depth + 1,
         directory |-> [i \in 0 .. 2 ^ (global_depth + 1) - 1 |-> segment_directory[i \div 2]],
         segments  |-> [s \in DOMAIN segments |-> [segments[s] EXCEPT !.segment_id = 2 * first(s)]]]

\* Faulty variant: the key at the very start of the upper half stays behind.
MovesUpStrictly(k, depth, mid, end) == SlotAt(k, depth) > mid /\ SlotAt(k, depth) < end

\* Which keys of a split segment go to the new one: those of the upper half.
MovesUp(k, depth, mid, end) == SlotAt(k, depth) >= mid /\ SlotAt(k, depth) < end

\* Faulty variant: an "if" where the loop is.
SplitOnce(k, segs, dir, depth) == FALSE

\* Whether the loop of Insert goes round again.
SplitAgain(k, segs, dir, depth) == NeedSplit(segs[dir[SlotAt(k, depth)]].table)

\* One turn of the loop: SplitSegment for the segment that the key is in.  A
\* hash has no more bits to tell keys apart when local_depth is HashBits.
SplitSegment ==
    /\ growing # Absent
    /\ LET seg_id == GetSegmentIndex(growing)
           source == segment_directory[seg_id]
           deep   == segments[source].local_depth
           dbl    == deep = global_depth
           depth  == IF dbl THEN Doubled.depth ELSE global_depth
           dir    == IF dbl THEN Doubled.directory ELSE segment_directory
           segs   == IF dbl THEN Doubled.segments ELSE segments
           at     == IF dbl THEN segs[source].segment_id ELSE seg_id
           chunk  == 2 ^ (depth - deep)
           start  == at - (at % chunk)
           mid    == start + chunk \div 2
           fresh  == Cardinality(DOMAIN segments)
           table  == segs[source].table
           up(k)  == MovesUp(k, depth, mid, start + chunk)
           kept   == [segs EXCEPT ![source] =
                        [table       |-> [k \in Key |-> IF up(k) THEN Absent ELSE table[k]],
                         local_depth |-> deep + 1, segment_id |-> start]]
           new    == [table       |-> [k \in Key |-> IF up(k) THEN table[k] ELSE Absent],
                      local_depth |-> deep + 1, segment_id |-> mid]
       IN  /\ deep < HashBits
           /\ global_depth' = depth
           /\ segment_directory' = [i \in DOMAIN dir |->
                                      IF i \in mid .. start + chunk - 1 THEN fresh ELSE dir[i]]
           /\ segments' = [s \in 0 .. fresh |-> IF s = fresh THEN new ELSE kept[s]]
           /\ growing' = IF SplitAgain(growing, segments', segment_directory', depth)
                         THEN growing ELSE Absent
    /\ UNCHANGED call

Erase(k) ==
    /\ growing = Absent
    /\ call' = <<"Erase", k>>
    /\ segments' = [segments EXCEPT ![SegmentOf(k)].table[k] = Absent]
    /\ UNCHANGED <<global_depth, segment_directory, growing>>

\* The tables are cleared; the directory stays as large as it has become.
Clear ==
    /\ growing = Absent
    /\ call' = <<"Clear">>
    /\ segments' = [s \in DOMAIN segments |->
                       IF \E i \in DOMAIN segment_directory : segment_directory[i] = s
                       THEN [segments[s] EXCEPT !.table = EmptyTable] ELSE segments[s]]
    /\ UNCHANGED <<global_depth, segment_directory, growing>>

Next == \/ \E k \in Key, v \in Val : Insert(k, v)
        \/ SplitSegment
        \/ \E k \in Key : Erase(k)
        \/ Clear

Spec == Init /\ [][Next]_vars

\* Insert runs its loop without waiting for anybody.
FairSpec == Spec /\ WF_vars(SplitSegment)

-----------------------------------------------------------------------------
(* Properties.                                                             *)

\* The directory has one slot for every prefix of global_depth bits, and every
\* slot refers to a segment object.  A part of DirectoryConsistent.
TypeOK ==
    /\ global_depth \in 0 .. HashBits
    /\ segment_directory \in [0 .. 2 ^ global_depth - 1 -> DOMAIN segments]
    /\ segments \in [0 .. Cardinality(DOMAIN segments) - 1 -> Segment]
    /\ growing \in Key \cup {Absent}

\* IsDirectoryConsistent: the slots of a segment are exactly the aligned chunk
\* of 2^(global_depth - local_depth) slots that starts at its segment_id,
\* however splits and doublings have followed one another.
DirectoryConsistent ==
    TypeOK /\ \A s \in DOMAIN segments :
        LET seg   == segments[s]
            chunk == 2 ^ (global_depth - seg.local_depth)
        IN  /\ seg.local_depth <= global_depth
            /\ seg.segment_id % chunk = 0
            /\ {i \in DOMAIN segment_directory : segment_directory[i] = s}
                  = seg.segment_id .. seg.segment_id + chunk - 1

\* ForEach and Size meet every entry once: no segment is skipped and none is
\* visited through two of its slots.
IterationIsExact == Cardinality(Iterated) = Cardinality({k \in Key : Find(k) # Absent})

\* When Insert returns no segment is at the split threshold, the ones that the
\* loop of Insert did not look at included.
SegmentsBounded ==
    growing = Absent => \A s \in DOMAIN segments : 5 * Cardinality(Held(s)) < 4 * MaxSegmentSize

\* What Find returns is what was inserted last and not erased since: splitting
\* moves keys without anybody noticing.
Map == INSTANCE KeyMap WITH contents <- [k \in Key |-> Find(k)]
ImplementsMap == Map!MSpec

\* Insert returns: the loop over splits ends.
InsertEnds == growing # Absent ~> growing = Absent
=============================================================================
