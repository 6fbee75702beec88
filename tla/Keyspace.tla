------------------------------ MODULE Keyspace ------------------------------
(***************************************************************************)
(* One shard: its Database (16 numbered databases), the command handlers   *)
(* that run on it and the active-expiry fiber.  A handler never yields, so *)
(* it is one step; but every Database method it calls samples the clock    *)
(* anew, so a key may expire in the middle of it.  The samples of a        *)
(* handler are t1 <= t2 <= ..., and the step leaves the clock at the last. *)
(***************************************************************************)
EXTENDS Database

CONSTANTS
    DB,         \* the database numbers, 0 .. kNumDBs - 1 in the code
    Conn,       \* client connections
    MaxScan,    \* max_keys_per_db of ActiveExpireCycle, 32 in the code
    PxArgs,     \* arguments of SET ... PX, milliseconds
    ExArgs,     \* arguments of SET ... EX and of EXPIRE, seconds
    MaxNow      \* bound: the last instant of the model's clock

ASSUME DBAssumption == 0 \in DB
ASSUME MaxScanAssumption == MaxScan \in Nat \ {0}
ASSUME ArgsAssumption == PxArgs \subseteq 1 .. Int64Max /\ ExArgs \subseteq Int
ASSUME MaxNowAssumption == MaxNow \in Nat /\ MaxNow < Int64Max

VARIABLES
    dbs,        \* tables[i] and expire_tables[i], for every i
    current_db, \* Database::current_db
    conn_db,    \* the database index each connection selected
    now,        \* the steady clock
    request,    \* the last command executed
    answer,     \* what it answered
    crashed     \* a handler used the null pointer that Find returned

vars == <<dbs, current_db, conn_db, now, request, answer, crashed>>

Instant == 0 .. MaxNow
Later(t) == {u \in Instant : u >= t}

Init ==
    /\ dbs = [i \in DB |-> EmptyDB]
    /\ current_db = 0
    /\ conn_db = [c \in Conn |-> 0]
    /\ now = 0
    /\ request = [op |-> "none"]
    /\ answer = <<"none">>
    /\ crashed = FALSE

-----------------------------------------------------------------------------
\* Faulty variant: the handler works on whatever the shard has selected.
GetDBUnselected(c) == current_db

\* CommandContext::GetDB: the database the handler works on.
GetDB(c) == IF current_db # conn_db[c] THEN conn_db[c] ELSE current_db

\* What every handler does on its way out: the database becomes d, the clock
\* stands at its last sample t, and the client is answered.
Done(c, d, t, result) ==
    /\ dbs' = [dbs EXCEPT ![GetDB(c)] = d]
    /\ current_db' = GetDB(c)
    /\ now' = t
    /\ answer' = result
    /\ UNCHANGED conn_db

Finish(c, d, t, result) == Done(c, d, t, result) /\ UNCHANGED crashed

\* EX and EXPIRE give seconds; the product is held at INT64_MAX.
ToMs(s) == IF s > Int64Max \div MsPerSec THEN Int64Max ELSE s * MsPerSec

SetTtls == PxArgs \cup {ToMs(s) : s \in {e \in ExArgs : e > 0}}

-----------------------------------------------------------------------------
(* String commands.                                                        *)

\* SET key value: the value is stored first, then the deadline removed.
SetPlain(c, k, s) ==
    /\ request' = [op |-> "SET", conn |-> c, key |-> k, val |-> <<"string", s>>]
    /\ \E t \in Later(now) :
          Finish(c, Persist(Set(dbs[GetDB(c)], k, <<"string", s>>), k, t), t, <<"OK">>)

\* SET key value EX|PX n: the value is stored first, then the deadline set.
SetEx(c, k, s, ttl) ==
    /\ request' = [op |-> "SETEX", conn |-> c, key |-> k, val |-> <<"string", s>>]
    /\ \E t \in Later(now) :
          Finish(c, Expire(Set(dbs[GetDB(c)], k, <<"string", s>>), k, ttl, t), t, <<"OK">>)

\* MSET: Set and Persist for each pair in turn; two pairs, whose keys may agree.
MSet(c, k1, s1, k2, s2) ==
    /\ request' = [op |-> "MSET", conn |-> c, keys |-> <<k1, k2>>]
    /\ \E t1 \in Later(now) : \E t2 \in Later(t1) :
          LET d1 == Persist(Set(dbs[GetDB(c)], k1, <<"string", s1>>), k1, t1)
              d2 == Persist(Set(d1, k2, <<"string", s2>>), k2, t2)
          IN  Finish(c, d2, t2, <<"OK">>)

\* GET.  The other commands that only look a key up are Get too: what they
\* answer is part of the value or computed from it.
Get(c, k) ==
    /\ request' = [op |-> "GET", conn |-> c, key |-> k]
    /\ \E t \in Later(now) : LET d == dbs[GetDB(c)] IN
          Finish(c, Find(d, k, t), t, <<"value", Found(d, k, t)>>)

\* MGET: two keys, which may agree.
MGet(c, k1, k2) ==
    /\ request' = [op |-> "MGET", conn |-> c, keys |-> <<k1, k2>>]
    /\ \E t1 \in Later(now) : \E t2 \in Later(t1) :
          LET d  == dbs[GetDB(c)]
              d1 == Find(d, k1, t1)
          IN  Finish(c, Find(d1, k2, t2), t2, <<"values", Found(d, k1, t1), Found(d1, k2, t2)>>)

StrLenTypeGetRange(c, k) == Get(c, k)

\* Integer answers, and the 1 or 0 that a bool becomes in one.
Int64(n) == <<"int", n>>
Count(b) == IF b THEN 1 ELSE 0

\* DEL: two keys, which may agree.
DelKeys(c, k1, k2) ==
    /\ request' = [op |-> "DEL", conn |-> c, keys |-> <<k1, k2>>]
    /\ \E t1 \in Later(now) : \E t2 \in Later(t1) :
          LET d  == dbs[GetDB(c)]
              d1 == Del(d, k1, t1)
          IN  Finish(c, Del(d1, k2, t2), t2,
                     Int64(Count(Found(d, k1, t1) # Absent) + Count(Found(d1, k2, t2) # Absent)))

\* EXISTS: two keys, which may agree.
Exists(c, k1, k2) ==
    /\ request' = [op |-> "EXISTS", conn |-> c, keys |-> <<k1, k2>>]
    /\ \E t1 \in Later(now) : \E t2 \in Later(t1) :
          LET d  == dbs[GetDB(c)]
              d1 == Find(d, k1, t1)
          IN  Finish(c, Find(d1, k2, t2), t2,
                     Int64(Count(Found(d, k1, t1) # Absent) + Count(Found(d1, k2, t2) # Absent)))

\* INCR, DECR, INCRBY, DECRBY: the sum is some number; a value that is not one
\* is refused.
Incr(c, k, s) ==
    /\ request' = [op |-> "INCR", conn |-> c, key |-> k, val |-> s]
    /\ \E t \in Later(now) :
          LET d   == Find(dbs[GetDB(c)], k, t)
              old == d.val[k]
              ok  == old # Absent => TypeOfValue(old) = "string" /\ Content(old) \in NumStr
          IN  Finish(c, IF ok THEN Set(d, k, <<"string", s>>) ELSE d, t,
                     IF ok THEN <<"OK">> ELSE <<"ERR">>)

\* APPEND: the new string replaces whatever the key held.
Append(c, k, s) ==
    /\ request' = [op |-> "APPEND", conn |-> c, key |-> k, val |-> s]
    /\ \E t \in Later(now) :
          Finish(c, Set(Find(dbs[GetDB(c)], k, t), k, <<"string", s>>), t, <<"OK">>)

SetRange(c, k, s) == Append(c, k, s)

\* EXPIRE key seconds; no or negative seconds delete the key.
ExpireKey(c, k, secs) ==
    /\ request' = [op |-> "EXPIRE", conn |-> c, key |-> k, secs |-> secs]
    /\ \E t \in Later(now) :
          LET d   == dbs[GetDB(c)]
              ttl == IF secs > 0 THEN ToMs(secs) ELSE 0
          IN  Finish(c, Expire(d, k, ttl, t), t, Int64(Count(Found(d, k, t) # Absent)))

TTLOf(c, k) ==
    /\ request' = [op |-> "TTL", conn |-> c, key |-> k]
    /\ \E t \in Later(now) : LET d == dbs[GetDB(c)] IN
          Finish(c, Find(d, k, t), t, Int64(TTL(d, k, t)))

PersistKey(c, k) ==
    /\ request' = [op |-> "PERSIST", conn |-> c, key |-> k]
    /\ \E t \in Later(now) : LET d == dbs[GetDB(c)] IN
          Finish(c, Persist(d, k, t), t,
                 Int64(Count(Found(d, k, t) # Absent /\ Find(d, k, t).exp[k] # NoExpiry)))

-----------------------------------------------------------------------------
(* Hash, set and list commands.                                            *)

IsType(v, ty) == v # Absent /\ TypeOfValue(v) = ty

\* How SADD, HSET, HMSET, LPUSH, RPUSH and SMOVE come by their container once
\* Find has left d: a missing key gets an empty one, a key of another type is
\* deleted first, and the new container is then looked up again.
FindOrCreate(d, k, ty, t2, t3) ==
    IF IsType(d.val[k], ty)
    THEN d
    ELSE Find(Set(IF d.val[k] # Absent THEN Del(d, k, t2) ELSE d, k, <<ty, {}>>), k, t3)

\* They go on to dereference what the lookup returned.
Insert(c, d, k, ty, m, t, result) ==
    IF d.val[k] = Absent
    THEN Done(c, d, t, result) /\ crashed' = TRUE
    ELSE Finish(c, Set(d, k, <<ty, Content(d.val[k]) \cup {m}>>), t, result)

\* One more element.
AddMember(c, k, ty, m) ==
    /\ request' = [op |-> "ADD", conn |-> c, key |-> k, val |-> <<ty, m>>]
    /\ \E t1 \in Later(now) : \E t2 \in Later(t1) : \E t3 \in Later(t2) :
          LET d == Find(dbs[GetDB(c)], k, t1)
          IN  Insert(c, FindOrCreate(d, k, ty, t2, t3), k, ty, m,
                     IF IsType(d.val[k], ty) THEN t1 ELSE t3, <<"OK">>)

\* Faulty variant: the emptied container stays.
RemoveKeepingEmpty(c, k, ty, M) ==
    /\ request' = [op |-> "REM", conn |-> c, key |-> k, val |-> <<ty, M>>]
    /\ \E t \in Later(now) : LET d == Find(dbs[GetDB(c)], k, t) IN
          Finish(c, IF IsType(d.val[k], ty) THEN Set(d, k, <<ty, Content(d.val[k]) \ M>>) ELSE d,
                 t, <<"OK">>)

\* The elements M go, and the key with the last one.
RemoveMembers(c, k, ty, M) ==
    /\ request' = [op |-> "REM", conn |-> c, key |-> k, val |-> <<ty, M>>]
    /\ \E t1 \in Later(now) : \E t2 \in Later(t1) :
          LET d0   == Find(dbs[GetDB(c)], k, t1)
              rest == Content(d0.val[k]) \ M
              d1   == Set(d0, k, <<ty, rest>>)
          IN  CASE ~IsType(d0.val[k], ty)               -> Finish(c, d0, t1, <<"OK">>)
                [] IsType(d0.val[k], ty) /\ rest = {}   -> Finish(c, Del(d1, k, t2), t2, <<"OK">>)
                [] OTHER                                -> Finish(c, d1, t1, <<"OK">>)

\* Fields go; the hash stays even if empty.
RemoveFields(c, k, M) ==
    /\ request' = [op |-> "HDEL", conn |-> c, key |-> k, val |-> M]
    /\ \E t \in Later(now) : LET d == Find(dbs[GetDB(c)], k, t) IN
          Finish(c, IF IsType(d.val[k], "hash")
                    THEN Set(d, k, <<"hash", Content(d.val[k]) \ M>>) ELSE d, t, <<"OK">>)

\* An element is put into a container that exists; M is what it overwrites.  (A
\* list that is left alone, for want of the index or the pivot, has m already.)
PutElement(c, k, ty, m, M) ==
    /\ request' = [op |-> "PUT", conn |-> c, key |-> k, val |-> <<ty, m, M>>]
    /\ \E t \in Later(now) : LET d == Find(dbs[GetDB(c)], k, t) IN
          Finish(c, IF IsType(d.val[k], ty)
                    THEN Set(d, k, <<ty, (Content(d.val[k]) \ M) \cup {m}>>) ELSE d, t, <<"OK">>)

\* SMOVE on the shard that holds both sets: out of src, which goes with its
\* last member, and then into dst as SADD does it.
SMove(c, src, dst, m) ==
    /\ request' = [op |-> "SMOVE", conn |-> c, keys |-> <<src, dst>>, val |-> m]
    /\ \E t1 \in Later(now) : \E t2 \in Later(t1) : \E t3 \in Later(t2) :
       \E t4 \in Later(t3) : \E t5 \in Later(t4) :
          LET d0   == Find(dbs[GetDB(c)], src, t1)
              has  == IsType(d0.val[src], "set") /\ m \in Content(d0.val[src])
              rest == Content(d0.val[src]) \ {m}
              d1   == Set(d0, src, <<"set", rest>>)
              d2   == IF rest = {} THEN Del(d1, src, t2) ELSE d1
              d3   == Find(d2, dst, t3)
          IN  IF ~has THEN Finish(c, d0, t1, Int64(0))
              ELSE Insert(c, FindOrCreate(d3, dst, "set", t4, t5), dst, "set", m,
                          IF IsType(d3.val[dst], "set") THEN t3 ELSE t5, Int64(1))

\* The handlers.  SREM stands for SPOP, LPOP for RPOP, LTRIM for LREM; HRANDFIELD
\* removes the fields it returns when it is given a count.
SAdd(c, k, m)       == AddMember(c, k, "set", m)
HSet(c, k, m)       == AddMember(c, k, "hash", m)
HMSet(c, k, m)      == AddMember(c, k, "hash", m)
LPush(c, k, m)      == AddMember(c, k, "list", m)
SRem(c, k, M)       == RemoveMembers(c, k, "set", M)
LPop(c, k, M)       == RemoveMembers(c, k, "list", M)
LTrim(c, k, M)      == RemoveMembers(c, k, "list", M)
HDel(c, k, M)       == RemoveFields(c, k, M)
HRandField(c, k, M) == RemoveFields(c, k, M)
HIncrBy(c, k, m, M) == PutElement(c, k, "hash", m, M)
LSet(c, k, m, M)    == PutElement(c, k, "list", m, M)
LInsert(c, k, m)    == PutElement(c, k, "list", m, {})

\* Those that only read: one set, several sets, a hash, a list.
SMembers(c, k)   == Get(c, k)
SRandMember(c, k) == Get(c, k)
SUnion(c, k1, k2) == MGet(c, k1, k2)
HMGet(c, k)      == Get(c, k)
HGetAll(c, k)    == Get(c, k)
HScan(c, k)      == Get(c, k)
LLen(c, k)       == Get(c, k)
LRange(c, k)     == Get(c, k)

\* SINTER and SDIFF look no further when the first key has no set.
SInter(c, k1, k2) ==
    \/ Get(c, k1) /\ ~IsType(answer'[2], "set")
    \/ MGet(c, k1, k2) /\ IsType(answer'[2], "set")
SDiff(c, k1, k2) == SInter(c, k1, k2)

-----------------------------------------------------------------------------
(* Commands on the whole database and on the connection.                   *)

\* KEYS.
ListKeys(c) ==
    /\ request' = [op |-> "KEYS", conn |-> c]
    /\ \E t \in Later(now) : LET d == dbs[GetDB(c)] IN
          Finish(c, PurgeExpired(d, t), t, <<"keys", Keys(d, t)>>)

DBSize(c) == ListKeys(c)

FlushDB(c) ==
    /\ request' = [op |-> "FLUSHDB", conn |-> c]
    /\ Finish(c, ClearCurrentDB(dbs[GetDB(c)]), now, <<"OK">>)

\* SELECT changes the connection's index; the shard follows at its next GetDB.
SelectDB(c, i) ==
    /\ request' = [op |-> "SELECT", conn |-> c]
    /\ conn_db' = [conn_db EXCEPT ![c] = i]
    /\ answer' = <<"OK">>
    /\ UNCHANGED <<dbs, current_db, now, crashed>>

\* Wrong number of arguments, a bad option or a bad number: an error, after
\* GetDB has already selected the database.  (Before GetDB nothing happens at all.)
Reject(c) ==
    /\ request' = [op |-> "ERROR", conn |-> c]
    /\ Finish(c, dbs[GetDB(c)], now, <<"ERR">>)

\* The expiry fiber: all databases, one clock sample.
ActiveExpireCycle ==
    /\ request' = [op |-> "expire cycle"]
    /\ \E t \in Later(now) :
          /\ dbs' = [i \in DB |-> ActiveExpire(dbs[i], MaxScan, t)]
          /\ now' = t
    /\ UNCHANGED <<current_db, conn_db, answer, crashed>>

Command(c) ==
    \/ \E k \in Key, s \in Str : SetPlain(c, k, s) \/ Append(c, k, s) \/ SetRange(c, k, s)
    \/ \E k \in Key, s \in Str, ttl \in SetTtls : SetEx(c, k, s, ttl)
    \/ \E k1, k2 \in Key, s1, s2 \in Str : MSet(c, k1, s1, k2, s2)
    \/ \E k \in Key : Get(c, k) \/ StrLenTypeGetRange(c, k) \/ TTLOf(c, k) \/ PersistKey(c, k)
    \/ \E k1, k2 \in Key : DelKeys(c, k1, k2) \/ Exists(c, k1, k2) \/ MGet(c, k1, k2)
    \/ \E k \in Key, s \in NumStr : Incr(c, k, s)
    \/ \E k \in Key, secs \in ExArgs : ExpireKey(c, k, secs)
    \/ \E k \in Key, m \in Member : SAdd(c, k, m) \/ HSet(c, k, m) \/ HMSet(c, k, m) \/ LPush(c, k, m)
    \/ \E k \in Key, M \in SUBSET Member :
          \/ SRem(c, k, M) \/ LPop(c, k, M) \/ LTrim(c, k, M)
          \/ HDel(c, k, M) \/ HRandField(c, k, M)
          \/ \E m \in Member : HIncrBy(c, k, m, M) \/ LSet(c, k, m, M) \/ LInsert(c, k, m)
    \/ \E src, dst \in Key, m \in Member : SMove(c, src, dst, m)
    \/ \E k \in Key : \/ SMembers(c, k) \/ SRandMember(c, k) \/ HMGet(c, k) \/ HGetAll(c, k)
                      \/ HScan(c, k) \/ LLen(c, k) \/ LRange(c, k)
    \/ \E k1, k2 \in Key : SUnion(c, k1, k2) \/ SInter(c, k1, k2) \/ SDiff(c, k1, k2)
    \/ ListKeys(c) \/ DBSize(c) \/ FlushDB(c) \/ Reject(c)
    \/ \E i \in DB : SelectDB(c, i)

Next == ~crashed /\ ((\E c \in Conn : Command(c)) \/ ActiveExpireCycle)

Spec == Init /\ [][Next]_vars

\* The expiry fiber of a running shard wakes every 100 ms, for ever.
FairSpec == Spec /\ WF_vars(~crashed /\ ActiveExpireCycle)

-----------------------------------------------------------------------------
(* Properties.                                                             *)

\* Every table maps keys to values and deadlines; in particular no deadline
\* leaves the range of int64_t, however large the TTL argument.
TypeOK ==
    /\ dbs \in [DB -> DatabaseType]
    /\ current_db \in DB
    /\ conn_db \in [Conn -> DB]
    /\ now \in Instant
    /\ crashed \in BOOLEAN

\* A deadline never outlives its key: an entry of an expire table always has
\* its key in the value table.  (A key created later would inherit it.)
NoOrphanDeadline == \A i \in DB : Coherent(dbs[i])

\* SADD, HSET, LPUSH and SMOVE create a container, look it up again and use the
\* pointer unchecked: it is never null, whatever expires in between.
NoNullDereference == ~crashed

\* A set or a list exists only while it has an element: the command that takes
\* the last one deletes the key.
NoEmptySetOrList ==
    \A i \in DB, k \in Key :
        dbs[i].val[k] # Absent /\ TypeOfValue(dbs[i].val[k]) \in {"set", "list"}
            => Content(dbs[i].val[k]) # {}

\* The shard's current_db is shared by all connections, and only the expiry
\* cycle may touch a database that the connection served has not selected.
DatabaseIsolation ==
    [][\A i \in DB : dbs'[i] # dbs[i] =>
          request'.op = "expire cycle" \/ conn_db[request'.conn] = i]_vars

\* Clients cannot tell when expired keys are really erased: what they see is a
\* store whose keys vanish at their deadline (TtlStore).
Promise == INSTANCE TtlStore WITH view <- [i \in DB |-> PurgeExpired(dbs[i], now)]
ImplementsTtlStore == Promise!ASpec

\* SET answers OK, with or without EX/PX: the key now holds the value.
SetIsStored ==
    request.op \in {"SET", "SETEX"} =>
        dbs[conn_db[request.conn]].val[request.key] = request.val

\* An expired key is erased in the end even if no client asks for it.
ExpiredIsErased ==
    \A i \in DB, k \in Key :
        IsExpiredInDB(dbs[i], k, now) ~> ~IsExpiredInDB(dbs[i], k, now)
=============================================================================
