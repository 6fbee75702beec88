------------------------------ MODULE Routing -------------------------------
(***************************************************************************)
(* How commands reach the shards (src/server/proactor_pool.cc), and the    *)
(* commands that need several of them (src/command/string_family.cc,       *)
(* set_family.cc, server_family.cc).                                       *)
(*                                                                         *)
(* Each vCPU owns one shard and serves its own connections.  A command on  *)
(* one key runs on the key's shard.  DEL, EXISTS, MSET and MGET group      *)
(* their keys by shard and visit those shards one after the other; KEYS,   *)
(* RANDOMKEY, DBSIZE and FLUSHDB visit all of them; the commands on        *)
(* several sets stay on the connection's vCPU.  A visit is one closure     *)
(* that shard_set->Await runs on the owner's thread: it is atomic, and     *)
(* closures of other connections run between two visits.                   *)
(*                                                                         *)
(* A database is a map from keys to values here.  Deadlines and what each  *)
(* handler does on its shard are in Keyspace.tla, the queue under Await in *)
(* TaskQueue.tla, the connection's loop in Frontend.tla.                   *)
(***************************************************************************)
EXTENDS Integers, Sequences, FiniteSets, FiniteSetsExt

CONSTANTS
    Conn,       \* client connections
    NumShards,  \* num_vcpus
    NumDBs,     \* Database::kNumDBs
    Key,        \* the keys
    Str,        \* contents of string values
    Member,     \* set members
    Absent,     \* no entry
    Home,       \* Shard(): the shard of a string; members are strings as well
    VcpuOf,     \* the vCPU that accepted the connection
    Command,    \* the requests the clients make
    MaxCalls    \* bound: requests of one connection

Shard == 0 .. NumShards - 1
DB == 0 .. NumDBs - 1

Value == ({"string"} \X Str) \cup ({"set"} \X SUBSET Member)
Map == [Key -> Value \cup {Absent}]
EmptyMap == [k \in Key |-> Absent]

\* CommandMeta: one key, keys grouped by the handler, no key, several sets.
RoutedOp == {"GET", "SET", "SADD"}
GroupedOp == {"DEL", "EXISTS", "MSET", "MGET"}
EverywhereOp == {"KEYS", "RANDOMKEY", "DBSIZE", "FLUSHDB"}
SetOp == {"SINTER", "SUNION", "SDIFF", "SMOVE"}
KeyedOp == RoutedOp \cup GroupedOp \cup SetOp

Request == [op : KeyedOp \cup EverywhereOp, keys : Seq(Key), vals : Seq(Str), members : SUBSET Member]

ASSUME NumShardsAssumption == NumShards \in Nat \ {0}
ASSUME NumDBsAssumption == NumDBs \in Nat \ {0}
ASSUME AbsentAssumption == Absent \notin Value
ASSUME HomeAssumption == Home \in [Key \cup Member -> Shard]
ASSUME VcpuAssumption == VcpuOf \in [Conn -> Shard]
ASSUME MaxCallsAssumption == MaxCalls \in Nat
ASSUME CommandAssumption ==     \* the handlers' checks on the number of arguments
    /\ Command \subseteq Request
    /\ \A r \in Command :
          /\ r.op \in KeyedOp => r.keys # <<>>
          /\ r.op \in RoutedOp => Len(r.keys) = 1
          /\ r.op \in {"SET", "MSET"} => Len(r.vals) = Len(r.keys)
          /\ r.op = "SADD" => r.members # {}
          /\ r.op = "SMOVE" => Len(r.keys) = 2 /\ Cardinality(r.members) = 1

VARIABLES
    dbs,    \* dbs[s][i]: database i of shard s
    conn,   \* what the fiber of each connection is doing
    since   \* history: the contents of the connection's database, over all
            \* shards, at each moment since its request was made

vars == <<dbs, conn, since>>

-----------------------------------------------------------------------------
(* What a handler does to one map d.  I is the set of positions, among the  *)
(* keys of request r, that the closure was given.                           *)

IsSet(v) == v # Absent /\ v[1] = "set"
Present(d) == {k \in Key : d[k] # Absent}
KeysAt(r, I) == {r.keys[i] : i \in I}

\* SADD's loop over its members; SMOVE adds to its destination the same way.
\* A value of another type is deleted first.
WithMembers(d, k, M) == [d EXCEPT ![k] = <<"set", M \cup IF IsSet(d[k]) THEN d[k][2] ELSE {}>>]

\* The member leaves its set, and the key goes with the last member.
WithoutMembers(d, k, M) ==
    [d EXCEPT ![k] = IF d[k][2] \subseteq M THEN Absent ELSE <<"set", d[k][2] \ M>>]

Moves(d, r) == IsSet(d[r.keys[1]]) /\ r.members \subseteq d[r.keys[1]][2]

SMove(d, r) == IF Moves(d, r)
               THEN WithMembers(WithoutMembers(d, r.keys[1], r.members), r.keys[2], r.members)
               ELSE d

\* SET and the loop of MSET: the last of several values for a key stays.
Stored(d, r, I) ==
    [k \in Key |-> LET J == {i \in I : r.keys[i] = k}
                   IN  IF J = {} THEN d[k] ELSE <<"string", r.vals[Max(J)]>>]

Deleted(d, K) == [k \in Key |-> IF k \in K THEN Absent ELSE d[k]]

\* The map that request r leaves behind.
Applied(d, r, I) ==
    CASE r.op \in {"SET", "MSET"} -> Stored(d, r, I)
      [] r.op = "DEL"             -> Deleted(d, KeysAt(r, I))
      [] r.op = "FLUSHDB"         -> EmptyMap
      [] r.op = "SADD"            -> WithMembers(d, r.keys[1], r.members)
      [] r.op = "SMOVE"           -> SMove(d, r)
      [] OTHER                    -> d

MembersOf(v) == IF IsSet(v) THEN v[2] ELSE {}

SInter(d, r) == {m \in Member : \A i \in DOMAIN r.keys : m \in MembersOf(d[r.keys[i]])}
SUnion(d, r) == {m \in Member : \E i \in DOMAIN r.keys : m \in MembersOf(d[r.keys[i]])}
SDiff(d, r) == {m \in MembersOf(d[r.keys[1]]) :
                   \A i \in DOMAIN r.keys \ {1} : m \notin MembersOf(d[r.keys[i]])}

\* An answer: a value for each key of the request, a number, a set of names.
\* final_values of MGET starts with no value for any key.
NoAnswer(r) == [vals |-> [i \in DOMAIN r.keys |-> Absent], sum |-> 0, found |-> {}]

\* The values that MGET's closure brings back go to the places of their keys.
GotValues(a, d, r, I) ==
    [a EXCEPT !.vals = [i \in DOMAIN @ |-> IF i \in I THEN d[r.keys[i]] ELSE @[i]]]

\* EXISTS counts a key as often as it is named, DEL once.
CountExisting(d, r, I) == Cardinality({i \in I : d[r.keys[i]] # Absent})
CountDeleted(d, r, I) == Cardinality(KeysAt(r, I) \cap Present(d))

KeyCount(d) == Cardinality(Present(d))

\* KEYS and RANDOMKEY append the shard's keys to a list of that many entries;
\* RANDOMKEY then picks one of them.
Listed(a, d) == [a EXCEPT !.found = @ \cup Present(d), !.sum = @ + KeyCount(d)]

\* Answer a, after map d has been asked as well.
Answered(a, d, r, I) ==
    CASE r.op \in {"GET", "MGET"}       -> GotValues(a, d, r, I)
      [] r.op = "EXISTS"                -> [a EXCEPT !.sum = @ + CountExisting(d, r, I)]
      [] r.op = "DEL"                   -> [a EXCEPT !.sum = @ + CountDeleted(d, r, I)]
      [] r.op = "DBSIZE"                -> [a EXCEPT !.sum = @ + KeyCount(d)]
      [] r.op \in {"KEYS", "RANDOMKEY"} -> Listed(a, d)
      [] r.op = "SADD"   -> [a EXCEPT !.sum = Cardinality(r.members \ MembersOf(d[r.keys[1]]))]
      [] r.op = "SMOVE"  -> [a EXCEPT !.sum = IF Moves(d, r) THEN 1 ELSE 0]
      [] r.op = "SINTER" -> [a EXCEPT !.found = SInter(d, r)]
      [] r.op = "SUNION" -> [a EXCEPT !.found = SUnion(d, r)]
      [] r.op = "SDIFF"  -> [a EXCEPT !.found = SDiff(d, r)]
      [] OTHER           -> a

-----------------------------------------------------------------------------
(* Where a request goes.                                                    *)

\* Faulty variant: every request runs where its connection is.
TargetsUnrouted(c, r) == {VcpuOf[c]}

\* Faulty variant: the loop over all shards ends one shard early.
TargetsButLast(c, r) ==
    CASE r.op \in RoutedOp     -> {Home[r.keys[1]]}
      [] r.op \in GroupedOp    -> {Home[r.keys[i]] : i \in DOMAIN r.keys}
      [] r.op \in EverywhereOp -> Shard \ {NumShards - 1}
      [] OTHER                 -> {VcpuOf[c]}

\* The shards the request visits: the owner of its key, the owners of its
\* keys, all of them, or the one at hand.
Targets(c, r) ==
    CASE r.op \in RoutedOp     -> {Home[r.keys[1]]}
      [] r.op \in GroupedOp    -> {Home[r.keys[i]] : i \in DOMAIN r.keys}
      [] r.op \in EverywhereOp -> Shard
      [] OTHER                 -> {VcpuOf[c]}

\* Faulty variant: every closure is given all the keys.
ShareUngrouped(r, s) == DOMAIN r.keys

\* The positions of the keys that the closure for shard s is given.
Share(r, s) == IF r.op \in GroupedOp
               THEN {i \in DOMAIN r.keys : Home[r.keys[i]] = s}
               ELSE DOMAIN r.keys

\* AllKeysSameShard looks at all arguments: to SMOVE, its member is a key.
AllKeysSameShard(r) ==
    LET names == KeysAt(r, DOMAIN r.keys) \cup IF r.op = "SMOVE" THEN r.members ELSE {}
    IN  \A x, y \in names : Home[x] = Home[y]

\* The CROSSSLOT error.  SDIFF first answers for a first key that is no set.
Refused(r, d) == /\ r.op \in SetOp /\ ~AllKeysSameShard(r)
                 /\ r.op = "SDIFF" => IsSet(d[r.keys[1]])

-----------------------------------------------------------------------------
(* The fiber of a connection.                                               *)

Idle(i, n) == [pc |-> "idle", db |-> i, calls |-> n]

Init ==
    /\ dbs = [s \in Shard |-> [i \in DB |-> EmptyMap]]
    /\ conn = [c \in Conn |-> Idle(0, 0)]
    /\ since = [c \in Conn |-> {}]

\* The database that clients see as number i: each key on its shard.
Seen(D, i) == [k \in Key |-> D[Home[k]][i][k]]

\* SELECT only changes the connection.
Select(c, i) ==
    /\ conn[c].pc = "idle" /\ conn[c].calls < MaxCalls
    /\ conn' = [conn EXCEPT ![c] = Idle(i, @.calls + 1)]
    /\ UNCHANGED <<dbs, since>>

\* A parsed request: its targets are known before the first visit.
Call(c, r) ==
    /\ conn[c].pc = "idle" /\ conn[c].calls < MaxCalls
    /\ conn' = [conn EXCEPT ![c] = [pc |-> "visit", db |-> @.db, calls |-> @.calls + 1, req |-> r,
                                    todo |-> Targets(c, r), ans |-> NoAnswer(r)]]
    /\ since' = [since EXCEPT ![c] = {Seen(dbs, conn[c].db)}]
    /\ UNCHANGED dbs

\* Loops over all shards go up from shard 0; the groups are in an
\* unordered_map, whose order is arbitrary.
NextTarget(r, s, todo) == s \in todo /\ (r.op \in EverywhereOp => \A x \in todo : s <= x)

\* One closure on shard s, in the database of the connection.
Visit(c, s) ==
    /\ conn[c].pc = "visit"
    /\ LET r == conn[c].req
           i == conn[c].db
           d == dbs[s][i]
           todo == conn[c].todo \ {s}
       IN  /\ NextTarget(r, s, conn[c].todo)
           /\ IF Refused(r, d)
              THEN /\ conn' = [conn EXCEPT ![c].pc = "refused", ![c].todo = todo]
                   /\ UNCHANGED dbs
              ELSE /\ dbs' = [dbs EXCEPT ![s][i] = Applied(d, r, Share(r, s))]
                   /\ conn' = [conn EXCEPT ![c].pc = IF todo = {} THEN "done" ELSE "visit",
                                           ![c].todo = todo,
                                           ![c].ans = Answered(@, d, r, Share(r, s))]
    /\ since' = [x \in Conn |-> since[x] \cup
                    IF conn[x].pc = "visit" THEN {Seen(dbs', conn[x].db)} ELSE {}]

\* The answer goes to the client.
Return(c) ==
    /\ conn[c].pc \in {"done", "refused"}
    /\ conn' = [conn EXCEPT ![c] = Idle(@.db, @.calls)]
    /\ since' = [since EXCEPT ![c] = {}]
    /\ UNCHANGED dbs

Next == \E c \in Conn : \/ \E i \in DB : Select(c, i)
                        \/ \E r \in Command : Call(c, r)
                        \/ \E s \in Shard : Visit(c, s)
                        \/ Return(c)

Spec == Init /\ [][Next]_vars

-----------------------------------------------------------------------------
(* Properties.                                                              *)

\* The types of the variables.
TypeOK ==
    /\ dbs \in [Shard -> [DB -> Map]]
    /\ \A c \in Conn :
          /\ conn[c].pc \in {"idle", "visit", "done", "refused"}
          /\ conn[c].db \in DB /\ conn[c].calls \in 0 .. MaxCalls
          /\ conn[c].pc # "idle" => conn[c].req \in Command /\ conn[c].todo \subseteq Shard
          /\ since[c] \subseteq Map

\* No shard ever holds a key of another shard, whatever connection wrote it and
\* through whichever command: otherwise two shards would have two values of
\* one key, and which one a client sees would depend on its vCPU.
OwnedOnly ==
    \A s \in Shard, i \in DB, k \in Key : dbs[s][i][k] # Absent => Home[k] = s

\* A moment for each shard, out of those since the request of c was made, and
\* the map that the shards make up at these moments.
Moments(c) == [Shard -> since[c]]
Combined(f) == [k \in Key |-> f[Home[k]][k]]

\* The commands on sets check that their keys share a shard, not that it is the
\* one they run on; on another vCPU they find no keys (set_family.cc:16).
Misplaced(c) == conn[c].req.op \in SetOp /\ Home[conn[c].req.keys[1]] # VcpuOf[c]

\* Connection c has the answer that one map, made up of moments of the shards
\* while the request was under way, gives to its request.
AnswerOfMoments(c) ==
    LET r == conn[c].req
    IN  \E f \in Moments(c) : conn[c].ans = Answered(NoAnswer(r), Combined(f), r, DOMAIN r.keys)

\* The answer of a finished command is the one that a single map would have
\* given, made up of one moment of each shard while the command ran: MGET puts
\* each value with its key, counts and listings neither miss a key that stayed
\* nor count one twice, and keys of the same shard are read at the same moment.
AnswersOfTheTime == \A c \in Conn : conn[c].pc = "done" /\ ~Misplaced(c) => AnswerOfMoments(c)

\* The same of every command, as proactor_pool.cc:347 and the documentation of
\* the MultiKey flag have it: requests go to the shards that own their keys, so
\* it makes no difference on which vCPU a connection was accepted.
AnswersWhereverAsked == \A c \in Conn : conn[c].pc = "done" => AnswerOfMoments(c)

\* The keys a request may write.
Written(r) == IF r.op = "FLUSHDB" THEN Key ELSE KeysAt(r, DOMAIN r.keys)

\* When a command has finished, each shard has gone through a state with all of
\* the command's writes to it: no shard was left out by MSET, DEL or FLUSHDB,
\* and pairs of an MSET on the same shard became visible together.
WritesArrive ==
    \A c \in Conn : conn[c].pc = "done" /\ ~Misplaced(c) =>
        LET r == conn[c].req
        IN  \E f, g \in Moments(c) : \A k \in Written(r) :
               Combined(g)[k] = Applied(Combined(f), r, DOMAIN r.keys)[k]
=============================================================================
