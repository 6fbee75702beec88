------------------------------ MODULE TtlStore ------------------------------
(***************************************************************************)
(* What a shard promises its clients, with no trace of HOW keys expire: a  *)
(* key is gone from the instant its deadline is reached, everywhere and at *)
(* once.  There is no pruning, no expiry cycle and no current database.    *)
(*                                                                         *)
(* The one promise that is weaker than one would like is that of SET, SETEX*)
(* and MSET: see Store.                                                    *)
(***************************************************************************)
EXTENDS Database

CONSTANTS DB, Conn, PxArgs, ExArgs, MaxNow

VARIABLES view,      \* the keys that exist now, with value and deadline
          conn_db,   \* the database each connection works on
          now,       \* the clock
          request,   \* the last command
          answer     \* and its answer

aVars == <<view, conn_db, now, request, answer>>

Later(t) == {u \in 0 .. MaxNow : u >= t}

\* Store m as it is seen at instant t.
At(m, t) ==
    LET gone == {k \in Key : m.exp[k] # NoExpiry /\ m.exp[k] <= t}
    IN  [val |-> [k \in Key |-> IF k \in gone THEN Absent ELSE m.val[k]],
         exp |-> [k \in Key |-> IF k \in gone THEN NoExpiry ELSE m.exp[k]]]

Put(m, k, v) == [m EXCEPT !.val[k] = v]
PutFresh(m, k, v, e) == [val |-> [m.val EXCEPT ![k] = v], exp |-> [m.exp EXCEPT ![k] = e]]
Without(m, k) == PutFresh(m, k, Absent, NoExpiry)
Has(m, k) == m.val[k] # Absent
Number(b) == IF b THEN 1 ELSE 0
Holds(m, k, ty) == Has(m, k) /\ TypeOfValue(m.val[k]) = ty

\* x in the container under k, which is new when k holds none of that type;
\* X out of the container under k, which goes with its last element.
Included(m, k, ty, x) ==
    IF Holds(m, k, ty) THEN Put(m, k, <<ty, Content(m.val[k]) \cup {x}>>)
                       ELSE PutFresh(m, k, <<ty, {x}>>, NoExpiry)
Excluded(m, k, ty, X) ==
    IF Content(m.val[k]) \subseteq X THEN Without(m, k)
                                    ELSE Put(m, k, <<ty, Content(m.val[k]) \ X>>)

\* Connection c leaves its database as m at instant t; time passes for all.
Answer(c, m, t, r) ==
    /\ now' = t
    /\ answer' = r
    /\ view' = [i \in DB |-> At(IF i = conn_db[c] THEN m ELSE view[i], t)]
    /\ UNCHANGED conn_db

AInit ==
    /\ view = [i \in DB |-> EmptyDB]
    /\ conn_db = [c \in Conn |-> 0]
    /\ now = 0
    /\ request = [op |-> "none"]
    /\ answer = <<"none">>

-----------------------------------------------------------------------------
\* What storing v under k with deadline e may leave: v under k, or, when k does
\* not exist, nothing at all.  (The code stores first and prunes afterwards.)
Store(m, k, v, e) == {PutFresh(m, k, v, e)} \cup (IF Has(m, k) THEN {} ELSE {m})

Mine(c) == view[conn_db[c]]
Seconds(s) == IF s > Int64Max \div MsPerSec THEN Int64Max ELSE s * MsPerSec
Ttls == PxArgs \cup {Seconds(s) : s \in {e \in ExArgs : e > 0}}
Due(t, ttl) == IF ttl >= Int64Max - t THEN Int64Max ELSE t + ttl

ASet(c, k, s) ==
    /\ request' = [op |-> "SET", conn |-> c, key |-> k, val |-> <<"string", s>>]
    /\ \E t \in Later(now) :
       \E m \in Store(At(Mine(c), t), k, <<"string", s>>, NoExpiry) : Answer(c, m, t, <<"OK">>)

ASetEx(c, k, s, ttl) ==
    /\ request' = [op |-> "SETEX", conn |-> c, key |-> k, val |-> <<"string", s>>]
    /\ \E t \in Later(now) :
       \E m \in Store(At(Mine(c), t), k, <<"string", s>>, Due(t, ttl)) : Answer(c, m, t, <<"OK">>)

AMSet(c, k1, s1, k2, s2) ==
    /\ request' = [op |-> "MSET", conn |-> c, keys |-> <<k1, k2>>]
    /\ \E t1 \in Later(now) : \E t2 \in Later(t1) :
       \E m1 \in Store(At(Mine(c), t1), k1, <<"string", s1>>, NoExpiry) :
       \E m2 \in Store(At(m1, t2), k2, <<"string", s2>>, NoExpiry) : Answer(c, m2, t2, <<"OK">>)

AGet(c, k) ==
    /\ request' = [op |-> "GET", conn |-> c, key |-> k]
    /\ \E t \in Later(now) : Answer(c, Mine(c), t, <<"value", At(Mine(c), t).val[k]>>)

AMGet(c, k1, k2) ==
    /\ request' = [op |-> "MGET", conn |-> c, keys |-> <<k1, k2>>]
    /\ \E t1 \in Later(now) : \E t2 \in Later(t1) :
          Answer(c, Mine(c), t2, <<"values", At(Mine(c), t1).val[k1], At(Mine(c), t2).val[k2]>>)

ADel(c, k1, k2) ==
    /\ request' = [op |-> "DEL", conn |-> c, keys |-> <<k1, k2>>]
    /\ \E t1 \in Later(now) : \E t2 \in Later(t1) :
          LET m1 == At(Mine(c), t1)
              m2 == At(Without(m1, k1), t2)
          IN  Answer(c, Without(m2, k2), t2,
                     <<"int", Number(Has(m1, k1)) + Number(Has(m2, k2))>>)

AExists(c, k1, k2) ==
    /\ request' = [op |-> "EXISTS", conn |-> c, keys |-> <<k1, k2>>]
    /\ \E t1 \in Later(now) : \E t2 \in Later(t1) :
          Answer(c, Mine(c), t2,
                 <<"int", Number(Has(At(Mine(c), t1), k1)) + Number(Has(At(Mine(c), t2), k2))>>)

AIncr(c, k, s) ==
    /\ request' = [op |-> "INCR", conn |-> c, key |-> k, val |-> s]
    /\ \E t \in Later(now) :
          LET m  == At(Mine(c), t)
              ok == Has(m, k) => Holds(m, k, "string") /\ Content(m.val[k]) \in NumStr
          IN  Answer(c, IF ok THEN Put(m, k, <<"string", s>>) ELSE m, t,
                     IF ok THEN <<"OK">> ELSE <<"ERR">>)

AAppend(c, k, s) ==
    /\ request' = [op |-> "APPEND", conn |-> c, key |-> k, val |-> s]
    /\ \E t \in Later(now) : Answer(c, Put(At(Mine(c), t), k, <<"string", s>>), t, <<"OK">>)

AExpire(c, k, secs) ==
    /\ request' = [op |-> "EXPIRE", conn |-> c, key |-> k, secs |-> secs]
    /\ \E t \in Later(now) :
          LET m == At(Mine(c), t)
          IN  Answer(c, CASE ~Has(m, k)              -> m
                          [] Has(m, k) /\ secs <= 0  -> Without(m, k)
                          [] OTHER -> PutFresh(m, k, m.val[k], Due(t, Seconds(secs))),
                     t, <<"int", Number(Has(m, k))>>)

ATTL(c, k) ==
    /\ request' = [op |-> "TTL", conn |-> c, key |-> k]
    /\ \E t \in Later(now) :
          LET m == At(Mine(c), t)
          IN  Answer(c, m, t, <<"int", CASE ~Has(m, k)                        -> -2
                                         [] Has(m, k) /\ m.exp[k] = NoExpiry  -> -1
                                         [] OTHER -> (m.exp[k] - t) \div MsPerSec>>)

APersist(c, k) ==
    /\ request' = [op |-> "PERSIST", conn |-> c, key |-> k]
    /\ \E t \in Later(now) :
          LET m == At(Mine(c), t)
          IN  Answer(c, PutFresh(m, k, m.val[k], NoExpiry), t,
                     <<"int", Number(m.exp[k] # NoExpiry)>>)

AAdd(c, k, ty, x) ==
    /\ request' = [op |-> "ADD", conn |-> c, key |-> k, val |-> <<ty, x>>]
    /\ \E t1 \in Later(now) : \E t2 \in Later(t1) :
          Answer(c, Included(At(Mine(c), t1), k, ty, x), t2, <<"OK">>)

ARemove(c, k, ty, X) ==
    /\ request' = [op |-> "REM", conn |-> c, key |-> k, val |-> <<ty, X>>]
    /\ \E t1 \in Later(now) : \E t2 \in Later(t1) :
          LET m == At(Mine(c), t1)
          IN  Answer(c, IF Holds(m, k, ty) THEN Excluded(m, k, ty, X) ELSE m, t2, <<"OK">>)

AHDel(c, k, X) ==
    /\ request' = [op |-> "HDEL", conn |-> c, key |-> k, val |-> X]
    /\ \E t \in Later(now) :
          LET m == At(Mine(c), t)
          IN  Answer(c, IF Holds(m, k, "hash")
                        THEN Put(m, k, <<"hash", Content(m.val[k]) \ X>>) ELSE m, t, <<"OK">>)

APut(c, k, ty, x, X) ==
    /\ request' = [op |-> "PUT", conn |-> c, key |-> k, val |-> <<ty, x, X>>]
    /\ \E t \in Later(now) :
          LET m == At(Mine(c), t)
          IN  Answer(c, IF Holds(m, k, ty)
                        THEN Put(m, k, <<ty, (Content(m.val[k]) \ X) \cup {x}>>) ELSE m, t, <<"OK">>)

ASMove(c, src, dst, x) ==
    /\ request' = [op |-> "SMOVE", conn |-> c, keys |-> <<src, dst>>, val |-> x]
    /\ \E t1 \in Later(now) : \E t2 \in Later(t1) : \E t3 \in Later(t2) :
          LET m   == At(Mine(c), t1)
              has == Holds(m, src, "set") /\ x \in Content(m.val[src])
          IN  Answer(c, IF has THEN Included(At(Excluded(m, src, "set", {x}), t2), dst, "set", x)
                               ELSE m, t3, <<"int", Number(has)>>)

AKeys(c) ==
    /\ request' = [op |-> "KEYS", conn |-> c]
    /\ \E t \in Later(now) :
          Answer(c, Mine(c), t, <<"keys", {k \in Key : Has(At(Mine(c), t), k)}>>)

AFlush(c) ==
    /\ request' = [op |-> "FLUSHDB", conn |-> c]
    /\ Answer(c, EmptyDB, now, <<"OK">>)

ASelect(c, i) ==
    /\ request' = [op |-> "SELECT", conn |-> c]
    /\ conn_db' = [conn_db EXCEPT ![c] = i]
    /\ answer' = <<"OK">>
    /\ UNCHANGED <<view, now>>

AReject(c) ==
    /\ request' = [op |-> "ERROR", conn |-> c]
    /\ Answer(c, Mine(c), now, <<"ERR">>)

\* Time passes with nobody watching.
APass ==
    /\ request' = [op |-> "expire cycle"]
    /\ \E t \in Later(now) : now' = t /\ view' = [i \in DB |-> At(view[i], t)]
    /\ UNCHANGED <<conn_db, answer>>

ACommand(c) ==
    \/ \E k \in Key, s \in Str : ASet(c, k, s) \/ AAppend(c, k, s)
    \/ \E k \in Key, s \in Str, ttl \in Ttls : ASetEx(c, k, s, ttl)
    \/ \E k1, k2 \in Key, s1, s2 \in Str : AMSet(c, k1, s1, k2, s2)
    \/ \E k \in Key : AGet(c, k) \/ ATTL(c, k) \/ APersist(c, k)
    \/ \E k1, k2 \in Key : ADel(c, k1, k2) \/ AExists(c, k1, k2) \/ AMGet(c, k1, k2)
    \/ \E k \in Key, s \in NumStr : AIncr(c, k, s)
    \/ \E k \in Key, secs \in ExArgs : AExpire(c, k, secs)
    \/ \E k \in Key, x \in Member, ty \in ContainerType : AAdd(c, k, ty, x)
    \/ \E k \in Key, X \in SUBSET Member, ty \in {"set", "list"} : ARemove(c, k, ty, X)
    \/ \E k \in Key, X \in SUBSET Member : AHDel(c, k, X)
    \/ \E k \in Key, x \in Member, X \in SUBSET Member, ty \in {"hash", "list"} :
          APut(c, k, ty, x, X)
    \/ \E src, dst \in Key, x \in Member : ASMove(c, src, dst, x)
    \/ AKeys(c) \/ AFlush(c) \/ AReject(c)
    \/ \E i \in DB : ASelect(c, i)

ANext == (\E c \in Conn : ACommand(c)) \/ APass

ASpec == AInit /\ [][ANext]_aVars
=============================================================================
