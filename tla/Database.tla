------------------------------ MODULE Database ------------------------------
(***************************************************************************)
(* The storage methods of class Database (src/core/database.cc), as        *)
(* operators on the state of ONE numbered database.                        *)
(*                                                                         *)
(* A database d is a record of two tables over the same keys:              *)
(*   d.val[k]   the value stored in tables[i], Absent when there is none;  *)
(*   d.exp[k]   the deadline stored in expire_tables[i], NoExpiry when     *)
(*              the key has no entry there.                                *)
(* Both DashTables are maps here; DashTable.tla looks inside one.          *)
(*                                                                         *)
(* A method that calls CurrentTimeMs() takes the sample as argument t; the *)
(* caller chooses the samples, one for each call it makes.                 *)
(***************************************************************************)
EXTENDS Integers, FiniteSets

CONSTANTS
    Key,        \* the keys
    Str,        \* contents of string values
    NumStr,     \* those that ParseInt accepts
    Member,     \* set members, hash fields, list elements
    Absent,     \* "no entry" in tables[i]
    Int64Max,   \* std::numeric_limits<int64_t>::max()
    MsPerSec,   \* milliseconds in a second, 1000 in the code
    Rank        \* iteration order of the expire table (DashTable::ForEach)

NoExpiry == 0   \* never a deadline: a deadline is now + ttl with ttl > 0

\* What a NanoObj holds: its type and its content.  A container is the set of
\* its elements; the order of a list is not kept.
ContainerType == {"hash", "set", "list"}
Value == ({"string"} \X Str) \cup (ContainerType \X SUBSET Member)

TypeOfValue(v) == v[1]
Content(v) == v[2]

ASSUME AbsentAssumption == Absent \notin Value
ASSUME NumStrAssumption == NumStr \subseteq Str
ASSUME Int64MaxAssumption == Int64Max \in Nat
ASSUME MsPerSecAssumption == MsPerSec \in Nat \ {0}
ASSUME RankAssumption == /\ Rank \in [Key -> Nat]
                         /\ \A j, k \in Key : Rank[j] = Rank[k] => j = k

Deadline == 1 .. Int64Max

DatabaseType == [val : [Key -> Value \cup {Absent}],
                 exp : [Key -> Deadline \cup {NoExpiry}]]

\* No deadline without its key.
Coherent(d) == \A k \in Key : d.exp[k] # NoExpiry => d.val[k] # Absent

EmptyDB == [val |-> [k \in Key |-> Absent], exp |-> [k \in Key |-> NoExpiry]]

-----------------------------------------------------------------------------
(* Private helpers.                                                        *)

IsExpiredInDB(d, k, t) == d.exp[k] # NoExpiry /\ d.exp[k] <= t

\* tables[i]->Erase(key) and expire_tables[i]->Erase(key) for a set of keys.
EraseBoth(d, S) == [val |-> [k \in Key |-> IF k \in S THEN Absent ELSE d.val[k]],
                    exp |-> [k \in Key |-> IF k \in S THEN NoExpiry ELSE d.exp[k]]]

PruneExpiredInDB(d, k, t) == IF IsExpiredInDB(d, k, t) THEN EraseBoth(d, {k}) ELSE d

-----------------------------------------------------------------------------
(* Methods that address one key.                                           *)

\* Faulty variant: overwriting a value also clears its deadline.
SetClearingDeadline(d, k, v) == [d EXCEPT !.val[k] = v, !.exp[k] = NoExpiry]

\* Set: the value table only, a deadline the key already has stays.
Set(d, k, v) == [d EXCEPT !.val[k] = v]

\* Faulty variant: a lookup without the lazy expiry check.
FindUnpruned(d, k, t) == d

\* Get, Exists and Find leave this database behind and answer from it.
Find(d, k, t) == PruneExpiredInDB(d, k, t)

Found(d, k, t) == Find(d, k, t).val[k]

\* Faulty variant: Del forgets the expire table.
DelValueOnly(d, k, t) == [d EXCEPT !.val[k] = Absent]

\* Del: the expire entry goes only when the value table had the key.
Del(d, k, t) ==
    LET p == PruneExpiredInDB(d, k, t)
    IN  IF p.val[k] # Absent THEN EraseBoth(p, {k}) ELSE p

\* Faulty variant: the sum as it comes.
DeadlineUnbounded(t, ttl) == t + ttl

\* now_ms + ttl_ms, held at INT64_MAX where the sum would not fit.
DeadlineAfter(t, ttl) == IF ttl >= Int64Max - t THEN Int64Max ELSE t + ttl

Expire(d, k, ttl, t) ==
    LET p == PruneExpiredInDB(d, k, t)
    IN  CASE p.val[k] = Absent              -> p
          [] p.val[k] # Absent /\ ttl <= 0  -> EraseBoth(p, {k})
          [] OTHER                          -> [p EXCEPT !.exp[k] = DeadlineAfter(t, ttl)]

Persist(d, k, t) ==
    LET p == PruneExpiredInDB(d, k, t)
    IN  IF p.val[k] = Absent THEN p ELSE [p EXCEPT !.exp[k] = NoExpiry]

\* TTL's answer: -2 no key, -1 no deadline, else whole seconds left.
TTL(d, k, t) ==
    LET p == PruneExpiredInDB(d, k, t)
    IN  CASE p.val[k] = Absent                        -> -2
          [] p.val[k] # Absent /\ p.exp[k] = NoExpiry -> -1
          [] OTHER                                    -> (p.exp[k] - t) \div MsPerSec

-----------------------------------------------------------------------------
(* Methods that address the whole database.                                *)

Expired(d, t) == {k \in Key : IsExpiredInDB(d, k, t)}

\* KeyCount and Keys first erase every expired key.
PurgeExpired(d, t) == EraseBoth(d, Expired(d, t))

Keys(d, t) == {k \in Key : PurgeExpired(d, t).val[k] # Absent}

ClearCurrentDB(d) == EmptyDB

\* Faulty variant: the scan stops one entry early.
FirstScannedOneLess(d, maxKeys) ==
    LET withTtl == {k \in Key : d.exp[k] # NoExpiry}
    IN  {k \in withTtl : Cardinality({j \in withTtl : Rank[j] <= Rank[k]}) < maxKeys}

\* The entries ForEach reaches before `scanned' gets to max_keys_per_db.
\* Segments are visited in hash order, which Rank stands for.
FirstScanned(d, maxKeys) ==
    LET withTtl == {k \in Key : d.exp[k] # NoExpiry}
    IN  {k \in withTtl : Cardinality({j \in withTtl : Rank[j] < Rank[k]}) < maxKeys}

\* One database's share of ActiveExpireCycle(max_keys_per_db).
ActiveExpire(d, maxKeys, t) == EraseBoth(d, FirstScanned(d, maxKeys) \cap Expired(d, t))
=============================================================================
