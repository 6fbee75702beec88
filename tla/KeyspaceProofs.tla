--------------------------- MODULE KeyspaceProofs ---------------------------
(* The safety of one shard, for any keys, values, connections and clocks,    *)
(* and that it implements TtlStore: when expired keys are really erased, by  *)
(* lazy pruning or by the expiry cycle, is something no client can observe.  *)
EXTENDS Keyspace, TLAPS

-----------------------------------------------------------------------------
(* What every method of Database preserves, for all keys, values and clocks. *)

\* A database as every method leaves it.
Sound(d) == d \in DatabaseType /\ Coherent(d)

\* An empty database is sound (the constructor, FLUSHDB).
LEMMA EmptySound == Sound(EmptyDB)
  BY Zenon DEF Sound, EmptyDB, DatabaseType, Coherent, NoExpiry

\* Erasing a set of keys from both tables keeps them in step.
LEMMA EraseBothSound ==
  ASSUME NEW d, Sound(d), NEW S
  PROVE  /\ Sound(EraseBoth(d, S))
         /\ \A k \in Key : k \in S => /\ EraseBoth(d, S).val[k] = Absent
                                      /\ EraseBoth(d, S).exp[k] = NoExpiry
         /\ \A k \in Key : k \notin S => /\ EraseBoth(d, S).val[k] = d.val[k]
                                         /\ EraseBoth(d, S).exp[k] = d.exp[k]
  BY Zenon DEF Sound, EraseBoth, DatabaseType, Coherent

\* Lazy pruning keeps the tables in step.
LEMMA PruneSound ==
  ASSUME NEW d, Sound(d), NEW k \in Key, NEW t
  PROVE  Sound(PruneExpiredInDB(d, k, t))
  BY EraseBothSound, Zenon DEF PruneExpiredInDB

\* Storing a value keeps the tables in step, and touches no deadline.
LEMMA SetSound ==
  ASSUME NEW d, Sound(d), NEW k \in Key, NEW v \in Value
  PROVE  /\ Sound(Set(d, k, v))
         /\ Set(d, k, v).val[k] = v
         /\ Set(d, k, v).exp = d.exp
  BY AbsentAssumption, Zenon DEF Sound, Set, DatabaseType, Coherent

\* Del removes the key and leaves no deadline of it behind.
LEMMA DelSound ==
  ASSUME NEW d, Sound(d), NEW k \in Key, NEW t
  PROVE  /\ Sound(Del(d, k, t))
         /\ Del(d, k, t).val[k] = Absent
  BY PruneSound, EraseBothSound DEF Del

\* The saturating sum is a deadline that int64_t can hold.
LEMMA DeadlineInRange ==
  ASSUME NEW t \in Nat, t < Int64Max, NEW ttl \in Nat \ {0}
  PROVE  DeadlineAfter(t, ttl) \in Deadline /\ DeadlineAfter(t, ttl) > t
  BY Int64MaxAssumption DEF DeadlineAfter, Deadline

\* Expire, whatever the TTL, gives only a key that exists a deadline.
LEMMA ExpireSound ==
  ASSUME NEW d, Sound(d), NEW k \in Key, NEW ttl \in Int, NEW t \in Nat, t < Int64Max
  PROVE  Sound(Expire(d, k, ttl, t))
<1> DEFINE p == PruneExpiredInDB(d, k, t)
<1>1. Sound(p)
  BY PruneSound, Zenon
<1>2. CASE p.val[k] = Absent
  BY <1>1, <1>2, Zenon DEF Expire
<1>3. CASE p.val[k] # Absent /\ ttl <= 0
  BY <1>1, <1>3, EraseBothSound, Zenon DEF Expire
<1>4. CASE p.val[k] # Absent /\ ttl > 0
  <2>1. DeadlineAfter(t, ttl) \in Deadline
    BY <1>4, DeadlineInRange
  <2>2. Expire(d, k, ttl, t) = [p EXCEPT !.exp[k] = DeadlineAfter(t, ttl)]
    BY <1>4 DEF Expire
  <2>3. QED
    BY <1>1, <1>4, <2>1, <2>2 DEF Sound, DatabaseType, Coherent
<1>5. QED
  BY <1>2, <1>3, <1>4

\* Persist keeps the tables in step.
LEMMA PersistSound ==
  ASSUME NEW d, Sound(d), NEW k \in Key, NEW t
  PROVE  Sound(Persist(d, k, t))
<1> DEFINE p == PruneExpiredInDB(d, k, t)
<1>1. Sound(p)
  BY PruneSound, Zenon
<1>2. QED
  BY <1>1, Zenon DEF Persist, Sound, DatabaseType, Coherent

\* What AddMember and SMove rely on: a container stored under a key that did not
\* exist is still there when the handler looks it up, however late it is.
LEMMA CreatedIsFound ==
  ASSUME NEW d, Sound(d), NEW k \in Key, d.val[k] = Absent, NEW v \in Value, NEW t
  PROVE  /\ Find(Set(d, k, v), k, t) = Set(d, k, v)
         /\ Found(Set(d, k, v), k, t) = v
<1>1. d.exp[k] = NoExpiry
  BY Zenon DEF Sound, Coherent
<1>2. QED
  BY <1>1, SetSound DEF Find, Found, PruneExpiredInDB, IsExpiredInDB

-----------------------------------------------------------------------------
(* The commands.                                                             *)

\* The inductive invariant: every database is well typed and coherent, which is
\* what keeps the handlers from using a null pointer.
Inv == TypeOK /\ NoOrphanDeadline /\ NoNullDereference

\* A handler that leaves a sound database leaves a sound shard.
LEMMA FinishInv ==
  ASSUME Inv, NEW c \in Conn, NEW d, Sound(d), NEW t \in Instant, NEW r, Finish(c, d, t, r)
  PROVE  Inv'
<1>1. GetDB(c) \in DB
  BY Zenon DEF Inv, TypeOK, GetDB
<1>2. dbs' = [dbs EXCEPT ![GetDB(c)] = d]
  BY Zenon DEF Finish, Done
<1>3. \A i \in DB : dbs'[i] \in DatabaseType /\ Coherent(dbs'[i])
  BY <1>1, <1>2, Zenon DEF Inv, TypeOK, NoOrphanDeadline, Sound
<1>4. QED
  BY <1>1, <1>2, <1>3, Zenon DEF Inv, TypeOK, NoOrphanDeadline, NoNullDereference, Finish, Done, Coherent

\* The database a handler works on is sound.
LEMMA MineSound ==
  ASSUME Inv, NEW c \in Conn
  PROVE  GetDB(c) \in DB /\ GetDB(c) = conn_db[c] /\ Sound(dbs[GetDB(c)])
  BY Zenon DEF Inv, TypeOK, NoOrphanDeadline, GetDB, Sound

\* Strings are values.
LEMMA StringValue == \A s \in Str : <<"string", s>> \in Value
  BY Zenon DEF Value

\* So are containers.
LEMMA ContainerValue ==
  \A ty \in ContainerType, M \in SUBSET Member : <<ty, M>> \in Value
  BY Zenon DEF Value

\* A container holds members.
LEMMA ContentOfContainer ==
  ASSUME NEW v \in Value, NEW ty \in ContainerType, TypeOfValue(v) = ty
  PROVE  Content(v) \in SUBSET Member
  BY Zenon DEF Value, TypeOfValue, Content, ContainerType

\* The clock never reaches the largest int64_t.
LEMMA InstantBound == \A t \in Instant : t \in Nat /\ t < Int64Max
  BY MaxNowAssumption, Int64MaxAssumption DEF Instant

\* TTL arguments are numbers, also once they are milliseconds.
LEMMA TtlInt == /\ \A ttl \in SetTtls : ttl \in Int
                /\ \A s \in ExArgs : s > 0 => ToMs(s) \in Int
  BY ArgsAssumption, Int64MaxAssumption, MsPerSecAssumption DEF SetTtls, ToMs

\* A container that a handler finds or creates is there, of the right type.
LEMMA FindOrCreateSound ==
  ASSUME NEW d, Sound(d), NEW k \in Key, NEW ty \in ContainerType, NEW t2, NEW t3
  PROVE  /\ Sound(FindOrCreate(d, k, ty, t2, t3))
         /\ IsType(FindOrCreate(d, k, ty, t2, t3).val[k], ty)
<1>1. CASE IsType(d.val[k], ty)
  BY <1>1, Zenon DEF FindOrCreate
<1>2. CASE ~IsType(d.val[k], ty)
  <2> DEFINE e == IF d.val[k] # Absent THEN Del(d, k, t2) ELSE d
  <2>1. Sound(e) /\ e.val[k] = Absent
    BY DelSound, Zenon
  <2>2. <<ty, {}>> \in Value
    BY ContainerValue, Zenon
  <2>3. /\ Find(Set(e, k, <<ty, {}>>), k, t3) = Set(e, k, <<ty, {}>>)
        /\ Sound(Set(e, k, <<ty, {}>>))
    <3> DEFINE v == <<ty, {}>>
    <3> HIDE DEF e, v
    <3>1. Sound(e) /\ e.val[k] = Absent /\ v \in Value
      BY <2>1, <2>2, Zenon DEF v
    <3>2. Find(Set(e, k, v), k, t3) = Set(e, k, v) /\ Sound(Set(e, k, v))
      BY <3>1, CreatedIsFound, SetSound
    <3>3. QED
      BY <3>2, Zenon DEF v
  <2>4. FindOrCreate(d, k, ty, t2, t3) = Set(e, k, <<ty, {}>>)
    BY <1>2, <2>3, Zenon DEF FindOrCreate
  <2>5. Set(e, k, <<ty, {}>>).val[k] = <<ty, {}>>
    BY <2>1, <2>2, SetSound, ZenonT(30)
  <2>6. IsType(<<ty, {}>>, ty)
    BY <2>2, AbsentAssumption, Zenon DEF IsType, TypeOfValue
  <2>7. QED
    BY <2>3, <2>4, <2>5, <2>6, Zenon
<1>3. QED
  BY <1>1, <1>2, Zenon

\* Inserting into such a container uses no null pointer and leaves a sound shard.
LEMMA InsertInv ==
  ASSUME Inv, NEW c \in Conn, NEW d, Sound(d), NEW k \in Key, NEW ty \in ContainerType,
         IsType(d.val[k], ty), NEW m \in Member, NEW t \in Instant, NEW r,
         Insert(c, d, k, ty, m, t, r)
  PROVE  Inv'
<1>1. d.val[k] \in Value /\ TypeOfValue(d.val[k]) = ty
  BY Zenon DEF IsType, Sound, DatabaseType
<1>2. Content(d.val[k]) \cup {m} \in SUBSET Member
  BY <1>1, ContentOfContainer, Zenon
<1>3. Sound(Set(d, k, <<ty, Content(d.val[k]) \cup {m}>>))
  BY <1>2, ContainerValue, SetSound, Zenon
<1>4. Finish(c, Set(d, k, <<ty, Content(d.val[k]) \cup {m}>>), t, r)
  BY Zenon DEF Insert, IsType
<1>5. QED
  BY <1>3, <1>4, FinishInv, Zenon

\* The handlers come down to a few forms.
Form(c) ==
    \/ \E k \in Key, s \in Str : SetPlain(c, k, s) \/ Append(c, k, s)
    \/ \E k \in Key, s \in Str, ttl \in SetTtls : SetEx(c, k, s, ttl)
    \/ \E k1, k2 \in Key, s1, s2 \in Str : MSet(c, k1, s1, k2, s2)
    \/ \E k \in Key : Get(c, k) \/ TTLOf(c, k) \/ PersistKey(c, k)
    \/ \E k1, k2 \in Key : DelKeys(c, k1, k2) \/ Exists(c, k1, k2) \/ MGet(c, k1, k2)
    \/ \E k \in Key, s \in NumStr : Incr(c, k, s)
    \/ \E k \in Key, secs \in ExArgs : ExpireKey(c, k, secs)
    \/ \E k \in Key, m \in Member, ty \in ContainerType : AddMember(c, k, ty, m)
    \/ \E k \in Key, M \in SUBSET Member, ty \in {"set", "list"} : RemoveMembers(c, k, ty, M)
    \/ \E k \in Key, M \in SUBSET Member : RemoveFields(c, k, M)
    \/ \E k \in Key, m \in Member, M \in SUBSET Member, ty \in {"hash", "list"} :
          PutElement(c, k, ty, m, M)
    \/ \E src, dst \in Key, m \in Member : SMove(c, src, dst, m)
    \/ ListKeys(c) \/ FlushDB(c) \/ Reject(c)
    \/ \E i \in DB : SelectDB(c, i)

\* Every handler has one of these forms.
LEMMA CommandForm == ASSUME NEW c \in Conn, Command(c) PROVE Form(c)
<1>1. CASE \E k \in Key, s \in Str : SetPlain(c, k, s) \/ Append(c, k, s) \/ SetRange(c, k, s)
  BY <1>1, Zenon DEF Form, SetRange
<1>2. CASE \E k \in Key, m \in Member :
              SAdd(c, k, m) \/ HSet(c, k, m) \/ HMSet(c, k, m) \/ LPush(c, k, m)
  <2>1. \E k \in Key, m \in Member, ty \in ContainerType : AddMember(c, k, ty, m)
    BY <1>2, Zenon DEF SAdd, HSet, HMSet, LPush, ContainerType
  <2>2. QED
    BY <2>1, Zenon DEF Form
<1>3. ASSUME NEW k \in Key, NEW M \in SUBSET Member,
             \/ SRem(c, k, M) \/ LPop(c, k, M) \/ LTrim(c, k, M)
             \/ HDel(c, k, M) \/ HRandField(c, k, M)
      PROVE  Form(c)
  <2>1. \/ \E ty \in {"set", "list"} : RemoveMembers(c, k, ty, M)
        \/ RemoveFields(c, k, M)
    BY <1>3, Zenon DEF SRem, LPop, LTrim, HDel, HRandField
  <2>2. QED
    BY <2>1, Zenon DEF Form
<1>4. ASSUME NEW k \in Key, NEW M \in SUBSET Member, NEW m \in Member,
             HIncrBy(c, k, m, M) \/ LSet(c, k, m, M) \/ LInsert(c, k, m)
      PROVE  Form(c)
  <2>1. \E X \in SUBSET Member, ty \in {"hash", "list"} : PutElement(c, k, ty, m, X)
    BY <1>4, Zenon DEF HIncrBy, LSet, LInsert
  <2>2. QED
    BY <2>1, Zenon DEF Form
<1>5. CASE \E k \in Key : \/ Get(c, k) \/ StrLenTypeGetRange(c, k) \/ TTLOf(c, k) \/ PersistKey(c, k)
                          \/ SMembers(c, k) \/ SRandMember(c, k) \/ HMGet(c, k) \/ HGetAll(c, k)
                          \/ HScan(c, k) \/ LLen(c, k) \/ LRange(c, k)
  <2>1. \E k \in Key : Get(c, k) \/ TTLOf(c, k) \/ PersistKey(c, k)
    BY <1>5, Zenon DEF StrLenTypeGetRange, SMembers, SRandMember, HMGet, HGetAll, HScan, LLen, LRange
  <2>2. QED
    BY <2>1, Zenon DEF Form
<1>6. CASE \E k1, k2 \in Key : SUnion(c, k1, k2) \/ SInter(c, k1, k2) \/ SDiff(c, k1, k2)
  <2>1. (\E k \in Key : Get(c, k)) \/ (\E k1, k2 \in Key : MGet(c, k1, k2))
    BY <1>6, Zenon DEF SUnion, SInter, SDiff
  <2>2. QED
    BY <2>1, Zenon DEF Form
<1>7. CASE ListKeys(c) \/ DBSize(c) \/ FlushDB(c) \/ Reject(c)
  BY <1>7, Zenon DEF Form, DBSize
<1>8. CASE \/ \E k \in Key, s \in Str, ttl \in SetTtls : SetEx(c, k, s, ttl)
           \/ \E k1, k2 \in Key, s1, s2 \in Str : MSet(c, k1, s1, k2, s2)
           \/ \E k1, k2 \in Key : DelKeys(c, k1, k2) \/ Exists(c, k1, k2) \/ MGet(c, k1, k2)
           \/ \E k \in Key, s \in NumStr : Incr(c, k, s)
           \/ \E k \in Key, secs \in ExArgs : ExpireKey(c, k, secs)
           \/ \E src, dst \in Key, m \in Member : SMove(c, src, dst, m)
           \/ \E i \in DB : SelectDB(c, i)
  BY <1>8, Zenon DEF Form
<1>9. QED
  BY <1>1, <1>2, <1>3, <1>4, <1>5, <1>6, <1>7, <1>8 DEF Command

\* Every command leaves the shard sound.
LEMMA CommandInv ==
  ASSUME Inv, NEW c \in Conn, Command(c)
  PROVE  Inv'
<1> DEFINE mine == dbs[GetDB(c)]
<1> USE StringValue, ContainerValue
<1>0. Sound(mine) /\ now \in Instant
  BY MineSound, Zenon DEF Inv, TypeOK
<1>00. \A t \in Instant : \A u \in Later(t) : u \in Instant /\ u \in Nat /\ u < Int64Max
  BY InstantBound, Zenon DEF Later
<1>1. ASSUME NEW k \in Key, NEW s \in Str, SetPlain(c, k, s) PROVE Inv'
  <2>1. PICK t \in Later(now) :
          Finish(c, Persist(Set(mine, k, <<"string", s>>), k, t), t, <<"OK">>)
    BY <1>1, Zenon DEF SetPlain
  <2>2. QED
    BY <1>0, <1>00, <2>1, SetSound, PersistSound, FinishInv, Zenon
<1>2. ASSUME NEW k \in Key, NEW s \in Str, Append(c, k, s) PROVE Inv'
  <2>1. PICK t \in Later(now) :
          Finish(c, Set(Find(mine, k, t), k, <<"string", s>>), t, <<"OK">>)
    BY <1>2, Zenon DEF Append
  <2>2. QED
    BY <1>0, <1>00, <2>1, SetSound, PruneSound, FinishInv, Zenon DEF Find
<1>3. ASSUME NEW k \in Key, NEW s \in Str, NEW ttl \in SetTtls, SetEx(c, k, s, ttl) PROVE Inv'
  <2>1. PICK t \in Later(now) :
          Finish(c, Expire(Set(mine, k, <<"string", s>>), k, ttl, t), t, <<"OK">>)
    BY <1>3, Zenon DEF SetEx
  <2>2. QED
    BY <1>0, <1>00, <2>1, TtlInt, SetSound, ExpireSound, FinishInv
<1>4. ASSUME NEW k1 \in Key, NEW k2 \in Key, NEW s1 \in Str, NEW s2 \in Str,
             MSet(c, k1, s1, k2, s2)
      PROVE  Inv'
  <2> DEFINE d1(t1) == Persist(Set(mine, k1, <<"string", s1>>), k1, t1)
             d2(t1, t2) == Persist(Set(d1(t1), k2, <<"string", s2>>), k2, t2)
  <2>1. PICK t1, t2 : t1 \in Later(now) /\ t2 \in Later(t1) /\ Finish(c, d2(t1, t2), t2, <<"OK">>)
    BY <1>4, Zenon DEF MSet
  <2>2. Sound(d1(t1))
    BY <1>0, SetSound, PersistSound, Zenon
  <2>3. Sound(d2(t1, t2))
    BY <2>2, SetSound, PersistSound, Zenon
  <2>4. QED
    BY <1>0, <1>00, <2>1, <2>3, FinishInv, Zenon
<1>5. ASSUME NEW k \in Key, Get(c, k) \/ TTLOf(c, k) PROVE Inv'
  <2>1. PICK t, r : t \in Later(now) /\ Finish(c, Find(mine, k, t), t, r)
    BY <1>5, Zenon DEF Get, TTLOf
  <2>2. QED
    BY <1>0, <1>00, <2>1, PruneSound, FinishInv DEF Find
<1>6. ASSUME NEW k \in Key, PersistKey(c, k) PROVE Inv'
  <2>1. PICK t, r : t \in Later(now) /\ Finish(c, Persist(mine, k, t), t, r)
    BY <1>6, Zenon DEF PersistKey
  <2>2. QED
    BY <1>0, <1>00, <2>1, PersistSound, FinishInv, Zenon
<1>7. ASSUME NEW k1 \in Key, NEW k2 \in Key, DelKeys(c, k1, k2) PROVE Inv'
  <2>1. PICK t1, t2, r :
          t1 \in Later(now) /\ t2 \in Later(t1) /\ Finish(c, Del(Del(mine, k1, t1), k2, t2), t2, r)
    BY <1>7, Zenon DEF DelKeys
  <2>2. QED
    BY <1>0, <1>00, <2>1, DelSound, FinishInv, Zenon
<1>8. ASSUME NEW k1 \in Key, NEW k2 \in Key, Exists(c, k1, k2) \/ MGet(c, k1, k2) PROVE Inv'
  <2>1. PICK t1, t2, r :
          t1 \in Later(now) /\ t2 \in Later(t1) /\ Finish(c, Find(Find(mine, k1, t1), k2, t2), t2, r)
    BY <1>8, Zenon DEF Exists, MGet
  <2>2. QED
    BY <1>0, <1>00, <2>1, PruneSound, FinishInv, Zenon DEF Find
<1>9. ASSUME NEW k \in Key, NEW s \in NumStr, Incr(c, k, s) PROVE Inv'
  <2>1. PICK t, d, r :
          /\ t \in Later(now)
          /\ Finish(c, d, t, r)
          /\ d = Find(mine, k, t) \/ d = Set(Find(mine, k, t), k, <<"string", s>>)
    BY <1>9, Zenon DEF Incr
  <2>2. s \in Str
    BY NumStrAssumption, Zenon
  <2>3. QED
    BY <1>0, <1>00, <2>1, <2>2, SetSound, PruneSound, FinishInv DEF Find
<1>10. ASSUME NEW k \in Key, NEW secs \in ExArgs, ExpireKey(c, k, secs) PROVE Inv'
  <2>1. PICK t, ttl, r :
          t \in Later(now) /\ ttl \in Int /\ Finish(c, Expire(mine, k, ttl, t), t, r)
    BY <1>10, TtlInt DEF ExpireKey
  <2>2. QED
    BY <1>0, <1>00, <2>1, ExpireSound, FinishInv, Zenon
<1>11. ASSUME NEW k \in Key, NEW m \in Member, NEW ty \in ContainerType, AddMember(c, k, ty, m)
       PROVE  Inv'
  <2>1. PICK t1, t2, t3 :
          /\ t1 \in Later(now) /\ t2 \in Later(t1) /\ t3 \in Later(t2)
          /\ Insert(c, FindOrCreate(Find(mine, k, t1), k, ty, t2, t3), k, ty, m,
                    IF IsType(Find(mine, k, t1).val[k], ty) THEN t1 ELSE t3, <<"OK">>)
    BY <1>11, Zenon DEF AddMember
  <2>2. Sound(Find(mine, k, t1))
    BY <1>0, PruneSound, Zenon DEF Find
  <2>3. t1 \in Instant /\ t3 \in Instant
    BY <1>0, <1>00, <2>1, Zenon
  <2>4. (IF IsType(Find(mine, k, t1).val[k], ty) THEN t1 ELSE t3) \in Instant
    BY <2>3, Zenon
  <2>5. QED
    BY <2>1, <2>2, <2>4, FindOrCreateSound, InsertInv, Zenon
<1>12. ASSUME NEW k \in Key, NEW M \in SUBSET Member, NEW ty \in {"set", "list"},
              RemoveMembers(c, k, ty, M)
       PROVE  Inv'
  <2> DEFINE d0(t1) == Find(mine, k, t1)
             rest(t1) == Content(d0(t1).val[k]) \ M
             d1(t1) == Set(d0(t1), k, <<ty, rest(t1)>>)
  <2>1. PICK t1, t2 :
          /\ t1 \in Later(now) /\ t2 \in Later(t1)
          /\ \/ Finish(c, d0(t1), t1, <<"OK">>)
             \/ IsType(d0(t1).val[k], ty) /\ Finish(c, Del(d1(t1), k, t2), t2, <<"OK">>)
             \/ IsType(d0(t1).val[k], ty) /\ Finish(c, d1(t1), t1, <<"OK">>)
    BY <1>12, Zenon DEF RemoveMembers
  <2>2. Sound(d0(t1))
    BY <1>0, PruneSound, Zenon DEF Find
  <2>3. IsType(d0(t1).val[k], ty) => Sound(d1(t1))
    <3>1. ty \in ContainerType
      BY Zenon DEF ContainerType
    <3>2. SUFFICES ASSUME IsType(d0(t1).val[k], ty) PROVE Sound(d1(t1))
      BY Zenon
    <3>3. d0(t1).val[k] \in Value /\ TypeOfValue(d0(t1).val[k]) = ty
      BY <2>2, <3>2, Zenon DEF IsType, Sound, DatabaseType
    <3>4. rest(t1) \in SUBSET Member
      BY <3>1, <3>3, ContentOfContainer, Zenon
    <3>5. QED
      BY <2>2, <3>1, <3>4, SetSound, Zenon
  <2>4. QED
    BY <1>0, <1>00, <2>1, <2>2, <2>3, DelSound, FinishInv
<1>13. ASSUME NEW k \in Key, NEW d, Sound(d), NEW ty \in ContainerType, IsType(d.val[k], ty),
              NEW M \in SUBSET Member, NEW N \in SUBSET Member
       PROVE  Sound(Set(d, k, <<ty, (Content(d.val[k]) \ M) \cup N>>))
  <2>1. d.val[k] \in Value /\ TypeOfValue(d.val[k]) = ty
    BY <1>13, Zenon DEF IsType, Sound, DatabaseType
  <2>2. (Content(d.val[k]) \ M) \cup N \in SUBSET Member
    BY <2>1, <1>13, ContentOfContainer, Zenon
  <2>3. QED
    BY <1>13, <2>2, SetSound, Zenon
<1>14. ASSUME NEW k \in Key, NEW M \in SUBSET Member, RemoveFields(c, k, M) PROVE Inv'
  <2>1. PICK t, d :
          /\ t \in Later(now)
          /\ Finish(c, d, t, <<"OK">>)
          /\ \/ d = Find(mine, k, t)
             \/ /\ IsType(Find(mine, k, t).val[k], "hash")
                /\ d = Set(Find(mine, k, t), k, <<"hash", Content(Find(mine, k, t).val[k]) \ M>>)
    BY <1>14, Zenon DEF RemoveFields
  <2>2. Sound(Find(mine, k, t))
    BY <1>0, PruneSound, Zenon DEF Find
  <2>3. "hash" \in ContainerType
    BY Zenon DEF ContainerType
  <2>4. IsType(Find(mine, k, t).val[k], "hash") =>
          Sound(Set(Find(mine, k, t), k, <<"hash", (Content(Find(mine, k, t).val[k]) \ M) \cup {}>>))
    BY <1>13, <2>2, <2>3, Zenon
  <2>5. (Content(Find(mine, k, t).val[k]) \ M) \cup {} = Content(Find(mine, k, t).val[k]) \ M
    BY Zenon
  <2>6. QED
    BY <1>0, <1>00, <2>1, <2>2, <2>4, <2>5, FinishInv
<1>15. ASSUME NEW k \in Key, NEW m \in Member, NEW M \in SUBSET Member, NEW ty \in {"hash", "list"},
              PutElement(c, k, ty, m, M)
       PROVE  Inv'
  <2>1. PICK t, d :
          /\ t \in Later(now)
          /\ Finish(c, d, t, <<"OK">>)
          /\ \/ d = Find(mine, k, t)
             \/ /\ IsType(Find(mine, k, t).val[k], ty)
                /\ d = Set(Find(mine, k, t), k,
                           <<ty, (Content(Find(mine, k, t).val[k]) \ M) \cup {m}>>)
    BY <1>15, Zenon DEF PutElement
  <2>2. Sound(Find(mine, k, t))
    BY <1>0, PruneSound, Zenon DEF Find
  <2>3. ty \in ContainerType
    BY Zenon DEF ContainerType
  <2>4. IsType(Find(mine, k, t).val[k], ty) =>
          Sound(Set(Find(mine, k, t), k, <<ty, (Content(Find(mine, k, t).val[k]) \ M) \cup {m}>>))
    BY <1>13, <2>2, <2>3, Zenon
  <2>5. QED
    BY <1>0, <1>00, <2>1, <2>2, <2>4, FinishInv, Zenon
<1>16. ASSUME NEW src \in Key, NEW dst \in Key, NEW m \in Member, SMove(c, src, dst, m) PROVE Inv'
  <2> DEFINE d0(t1) == Find(mine, src, t1)
             has(t1) == IsType(d0(t1).val[src], "set") /\ m \in Content(d0(t1).val[src])
             rest(t1) == Content(d0(t1).val[src]) \ {m}
             d1(t1) == Set(d0(t1), src, <<"set", rest(t1)>>)
             d2(t1, t2) == IF rest(t1) = {} THEN Del(d1(t1), src, t2) ELSE d1(t1)
             d3(t1, t2, t3) == Find(d2(t1, t2), dst, t3)
  <2>1. PICK t1, t2, t3, t4, t5 :
          /\ t1 \in Later(now) /\ t2 \in Later(t1) /\ t3 \in Later(t2)
          /\ t4 \in Later(t3) /\ t5 \in Later(t4)
          /\ IF ~has(t1) THEN Finish(c, d0(t1), t1, Int64(0))
             ELSE Insert(c, FindOrCreate(d3(t1, t2, t3), dst, "set", t4, t5), dst, "set", m,
                         IF IsType(d3(t1, t2, t3).val[dst], "set") THEN t3 ELSE t5, Int64(1))
    BY <1>16, ZenonT(30) DEF SMove
  <2>2. Sound(d0(t1))
    BY <1>0, PruneSound, Zenon DEF Find
  <2>3. "set" \in ContainerType
    BY Zenon DEF ContainerType
  <2>4. t1 \in Instant /\ t3 \in Instant /\ t5 \in Instant
    BY <1>0, <1>00, <2>1, Zenon
  <2>5. CASE ~has(t1)
    BY <2>1, <2>2, <2>4, <2>5, FinishInv, Zenon
  <2>6. CASE has(t1)
    <3>1. Sound(Set(d0(t1), src, <<"set", (Content(d0(t1).val[src]) \ {m}) \cup {}>>))
      BY <1>13, <2>2, <2>3, <2>6, Zenon
    <3>2. (Content(d0(t1).val[src]) \ {m}) \cup {} = rest(t1)
      BY Zenon
    <3>3. Sound(d1(t1))
      BY <3>1, <3>2, Zenon
    <3>4. Sound(d2(t1, t2))
      BY <3>3, DelSound, Zenon
    <3>5. Sound(d3(t1, t2, t3))
      BY <3>4, PruneSound, Zenon DEF Find
    <3>6. (IF IsType(d3(t1, t2, t3).val[dst], "set") THEN t3 ELSE t5) \in Instant
      BY <2>4, Zenon
    <3>7. QED
      BY <2>1, <2>3, <2>6, <3>5, <3>6, FindOrCreateSound, InsertInv, ZenonT(30)
  <2>7. QED
    BY <2>5, <2>6, Zenon
<1>17. ASSUME ListKeys(c) PROVE Inv'
  <2>1. PICK t, r : t \in Later(now) /\ Finish(c, PurgeExpired(mine, t), t, r)
    BY <1>17, Zenon DEF ListKeys
  <2>2. QED
    BY <1>0, <1>00, <2>1, EraseBothSound, FinishInv, Zenon DEF PurgeExpired
<1>18. ASSUME FlushDB(c) \/ Reject(c) PROVE Inv'
  BY <1>0, <1>18, EmptySound, FinishInv, Zenon DEF FlushDB, Reject, ClearCurrentDB
<1>19. ASSUME NEW i \in DB, SelectDB(c, i) PROVE Inv'
  BY <1>19, Zenon DEF SelectDB, Inv, TypeOK, NoOrphanDeadline, NoNullDereference
<1>20. QED
  BY <1>1, <1>2, <1>3, <1>4, <1>5, <1>6, <1>7, <1>8, <1>9, <1>10, <1>11, <1>12,
     <1>14, <1>15, <1>16, <1>17, <1>18, <1>19, CommandForm DEF Form

\* The expiry cycle leaves the shard sound.
LEMMA CycleInv ==
  ASSUME Inv, ActiveExpireCycle
  PROVE  Inv'
<1>1. PICK t \in Later(now) :
        /\ dbs' = [i \in DB |-> ActiveExpire(dbs[i], MaxScan, t)]
        /\ now' = t
  BY Zenon DEF ActiveExpireCycle
<1>2. \A i \in DB : Sound(dbs'[i])
  BY <1>1, EraseBothSound, Zenon DEF Inv, TypeOK, NoOrphanDeadline, ActiveExpire, Sound
<1>3. QED
  BY <1>1, <1>2, Zenon DEF Inv, TypeOK, NoOrphanDeadline, NoNullDereference, Sound, Later,
                    ActiveExpireCycle

\* Inv holds initially and is preserved.
THEOREM InvInvariant == Spec => []Inv
<1>1. Init => Inv
  <2> SUFFICES ASSUME Init PROVE Inv
    BY Zenon
  <2>1. dbs = [i \in DB |-> EmptyDB] /\ EmptyDB \in DatabaseType /\ Coherent(EmptyDB)
    BY EmptySound, Zenon DEF Init, Sound
  <2>2. now \in Instant
    BY MaxNowAssumption DEF Init, Instant
  <2>3. current_db \in DB /\ conn_db \in [Conn -> DB]
    BY DBAssumption, Zenon DEF Init
  <2>4. crashed = FALSE
    BY Zenon DEF Init
  <2>5. QED
    BY <2>1, <2>2, <2>3, <2>4, Zenon DEF Inv, TypeOK, NoOrphanDeadline, NoNullDereference
<1>2. Inv /\ [Next]_vars => Inv'
  <2>1. ASSUME Inv, Next PROVE Inv'
    BY <2>1, CommandInv, CycleInv, Zenon DEF Next
  <2>2. ASSUME Inv, UNCHANGED vars PROVE Inv'
    BY <2>2, Zenon DEF vars, Inv, TypeOK, NoOrphanDeadline, NoNullDereference
  <2>3. QED
    BY <2>1, <2>2, Zenon
<1>3. QED
  BY <1>1, <1>2, PTL DEF Spec

\* The tables of a shard are well typed: no TTL argument, however large, makes a
\* deadline that int64_t cannot hold.
THEOREM TypeCorrect == Spec => []TypeOK
  BY InvInvariant, PTL DEF Inv

\* No command and no expiry cycle ever leaves a deadline behind without its key.
THEOREM DeadlinesHaveKeys == Spec => []NoOrphanDeadline
  BY InvInvariant, PTL DEF Inv

\* SADD, HSET, LPUSH and SMOVE never use a null container.
THEOREM NeverDereferencesNull == Spec => []NoNullDereference
  BY InvInvariant, PTL DEF Inv

\* A handler changes no database but the one its connection selected, because
\* GetDB re-selects it first.
LEMMA DoneIsolated ==
  ASSUME Inv, NEW c \in Conn, NEW d, NEW t, NEW r, Done(c, d, t, r)
  PROVE  \A i \in DB : dbs'[i] # dbs[i] => conn_db[c] = i
<1>1. GetDB(c) \in DB /\ GetDB(c) = conn_db[c]
  BY MineSound, Zenon
<1>2. dbs' = [dbs EXCEPT ![GetDB(c)] = d] /\ dbs \in [DB -> DatabaseType]
  BY Zenon DEF Done, Inv, TypeOK
<1>3. QED
  BY <1>1, <1>2, Zenon

\* The same of every command.
LEMMA CommandIsolated ==
  ASSUME Inv, NEW c \in Conn, Command(c)
  PROVE  request'.conn = c /\ \A i \in DB : dbs'[i] # dbs[i] => conn_db[c] = i
<1> DEFINE Iso == \A i \in DB : dbs'[i] # dbs[i] => conn_db[c] = i
<1>0. \A d, t, r : Done(c, d, t, r) => Iso
  BY DoneIsolated, Zenon
<1> HIDE DEF Iso
<1> USE DEF Finish
<1>1. ASSUME NEW k, NEW s, SetPlain(c, k, s) PROVE request'.conn = c /\ Iso
  BY <1>0, <1>1, Zenon DEF SetPlain
<1>2. ASSUME NEW k, NEW s, Append(c, k, s) PROVE request'.conn = c /\ Iso
  BY <1>0, <1>2, Zenon DEF Append
<1>3. ASSUME NEW k, NEW s, NEW ttl, SetEx(c, k, s, ttl) PROVE request'.conn = c /\ Iso
  BY <1>0, <1>3, Zenon DEF SetEx
<1>4. ASSUME NEW k1, NEW k2, NEW s1, NEW s2, MSet(c, k1, s1, k2, s2) PROVE request'.conn = c /\ Iso
  BY <1>0, <1>4, Zenon DEF MSet
<1>5. ASSUME NEW k, Get(c, k) \/ TTLOf(c, k) \/ PersistKey(c, k) PROVE request'.conn = c /\ Iso
  <2>1. CASE Get(c, k)
    BY <1>0, <2>1, Zenon DEF Get
  <2>2. CASE TTLOf(c, k)
    BY <1>0, <2>2, Zenon DEF TTLOf
  <2>3. CASE PersistKey(c, k)
    BY <1>0, <2>3, Zenon DEF PersistKey
  <2>4. QED
    BY <1>5, <2>1, <2>2, <2>3, Zenon
<1>6. ASSUME NEW k1, NEW k2, DelKeys(c, k1, k2) \/ Exists(c, k1, k2) \/ MGet(c, k1, k2) PROVE request'.conn = c /\ Iso
  <2>1. CASE DelKeys(c, k1, k2)
    BY <1>0, <2>1, Zenon DEF DelKeys
  <2>2. CASE Exists(c, k1, k2)
    BY <1>0, <2>2, Zenon DEF Exists
  <2>3. CASE MGet(c, k1, k2)
    BY <1>0, <2>3, Zenon DEF MGet
  <2>4. QED
    BY <1>6, <2>1, <2>2, <2>3, Zenon
<1>7. ASSUME NEW k, NEW s, Incr(c, k, s) PROVE request'.conn = c /\ Iso
  BY <1>0, <1>7, Zenon DEF Incr
<1>8. ASSUME NEW k, NEW secs, ExpireKey(c, k, secs) PROVE request'.conn = c /\ Iso
  BY <1>0, <1>8, Zenon DEF ExpireKey
<1>9. ASSUME NEW k, NEW m, NEW ty, AddMember(c, k, ty, m) PROVE request'.conn = c /\ Iso
  BY <1>0, <1>9 DEF AddMember, Insert
<1>10. ASSUME NEW k, NEW M, NEW ty, RemoveMembers(c, k, ty, M) PROVE request'.conn = c /\ Iso
  BY <1>0, <1>10, Zenon DEF RemoveMembers
<1>11. ASSUME NEW k, NEW M, RemoveFields(c, k, M) PROVE request'.conn = c /\ Iso
  BY <1>0, <1>11, Zenon DEF RemoveFields
<1>12. ASSUME NEW k, NEW m, NEW M, NEW ty, PutElement(c, k, ty, m, M) PROVE request'.conn = c /\ Iso
  BY <1>0, <1>12, Zenon DEF PutElement
<1>13. ASSUME NEW src, NEW dst, NEW m, SMove(c, src, dst, m) PROVE request'.conn = c /\ Iso
  <2>1. request'.conn = c
    BY <1>13, Zenon DEF SMove
  <2> DEFINE d0(t1) == Find(dbs[GetDB(c)], src, t1)
             has(t1) == IsType(d0(t1).val[src], "set") /\ m \in Content(d0(t1).val[src])
             rest(t1) == Content(d0(t1).val[src]) \ {m}
             d1(t1) == Set(d0(t1), src, <<"set", rest(t1)>>)
             d2(t1, t2) == IF rest(t1) = {} THEN Del(d1(t1), src, t2) ELSE d1(t1)
             d3(t1, t2, t3) == Find(d2(t1, t2), dst, t3)
  <2>2. PICK t1, t2, t3, t4, t5 :
          IF ~has(t1) THEN Finish(c, d0(t1), t1, Int64(0))
          ELSE Insert(c, FindOrCreate(d3(t1, t2, t3), dst, "set", t4, t5), dst, "set", m,
                      IF IsType(d3(t1, t2, t3).val[dst], "set") THEN t3 ELSE t5, Int64(1))
    BY <1>13, ZenonT(30) DEF SMove
  <2> HIDE DEF d0, has, rest, d1, d2, d3
  <2>3. QED
    BY <1>0, <2>1, <2>2, Zenon DEF Insert
<1>14. ASSUME ListKeys(c) \/ FlushDB(c) \/ Reject(c) PROVE request'.conn = c /\ Iso
  <2>1. CASE ListKeys(c)
    BY <1>0, <2>1, Zenon DEF ListKeys
  <2>2. CASE FlushDB(c)
    BY <1>0, <2>2, Zenon DEF FlushDB
  <2>3. CASE Reject(c)
    BY <1>0, <2>3, Zenon DEF Reject
  <2>4. QED
    BY <1>14, <2>1, <2>2, <2>3, Zenon
<1>15. ASSUME NEW i, SelectDB(c, i) PROVE request'.conn = c /\ Iso
  BY <1>15, Zenon DEF SelectDB, Iso
<1>16. QED
  BY <1>1, <1>2, <1>3, <1>4, <1>5, <1>6, <1>7, <1>8, <1>9, <1>10, <1>11, <1>12,
     <1>13, <1>14, <1>15, CommandForm, ZenonT(30) DEF Form, Iso

\* Whatever databases the connections of a shard select, and in whatever order
\* their commands run, a command changes only the database of its connection.
THEOREM Isolation == Spec => DatabaseIsolation
<1>1. Inv /\ [Next]_vars => [\A i \in DB : dbs'[i] # dbs[i] =>
          request'.op = "expire cycle" \/ conn_db[request'.conn] = i]_vars
  <2>1. ASSUME Inv, NEW c \in Conn, Command(c), NEW i \in DB, dbs'[i] # dbs[i]
        PROVE  conn_db[request'.conn] = i
    BY <2>1, CommandIsolated, Zenon
  <2>2. ASSUME ActiveExpireCycle
        PROVE  request'.op = "expire cycle"
    BY <2>2, Zenon DEF ActiveExpireCycle
  <2>3. QED
    BY <2>1, <2>2, Zenon DEF Next
<1>2. QED
  BY <1>1, InvInvariant, PTL DEF Spec, DatabaseIsolation
-----------------------------------------------------------------------------
(* Sets and lists are never empty.                                           *)

\* A value that is not an empty set or list.
Filled(v) == v # Absent /\ TypeOfValue(v) \in {"set", "list"} => Content(v) # {}

\* No set and no list of d is empty, but perhaps the one under key k.
FilledBut(d, k) == \A j \in Key \ {k} : Filled(d.val[j])
AllFilled(d) == \A j \in Key : Filled(d.val[j])

\* Database e has the values of d that it has not lost.
Shrunk(d, e) == \A j \in Key : e.val[j] \in {d.val[j], Absent}

\* No method but Set brings a value into a database.
LEMMA MethodsShrink ==
  ASSUME NEW d, Sound(d), NEW k \in Key, NEW ttl, NEW t, NEW S
  PROVE  /\ Shrunk(d, EraseBoth(d, S))
         /\ Shrunk(d, Find(d, k, t))
         /\ Shrunk(d, Del(d, k, t)) /\ Del(d, k, t).val[k] = Absent
         /\ Shrunk(d, Expire(d, k, ttl, t))
         /\ Shrunk(d, Persist(d, k, t))
<1> DEFINE p == PruneExpiredInDB(d, k, t)
<1>1. \A e : Sound(e) => \A X : Shrunk(e, EraseBoth(e, X))
  BY EraseBothSound DEF Shrunk
<1>2. Sound(p) /\ Shrunk(d, p)
  BY <1>1, PruneSound, Zenon DEF PruneExpiredInDB, Shrunk
<1>3. Shrunk(p, EraseBoth(p, {k}))
  BY <1>1, <1>2, Zenon
<1>4. Shrunk(d, EraseBoth(p, {k}))
  BY <1>2, <1>3, Zenon DEF Shrunk
<1>5. \A x : [p EXCEPT !.exp[k] = x].val = p.val
  BY <1>2, Zenon DEF Sound, DatabaseType
<1>6. \A x : Shrunk(d, [p EXCEPT !.exp[k] = x])
  BY <1>2, <1>5, Zenon DEF Shrunk
<1>7. Shrunk(d, Del(d, k, t)) /\ Del(d, k, t).val[k] = Absent
  BY <1>2, <1>4, DelSound, Zenon DEF Del
<1>8. Shrunk(d, Expire(d, k, ttl, t))
  <2> HIDE DEF p
  <2>1. Expire(d, k, ttl, t) \in {p, EraseBoth(p, {k}), [p EXCEPT !.exp[k] = DeadlineAfter(t, ttl)]}
    BY Zenon DEF Expire, p
  <2>2. QED
    BY <1>2, <1>4, <1>6, <2>1, Zenon
<1>9. Shrunk(d, Persist(d, k, t))
  <2> HIDE DEF p
  <2>1. Persist(d, k, t) \in {p, [p EXCEPT !.exp[k] = NoExpiry]}
    BY Zenon DEF Persist, p
  <2>2. QED
    BY <1>2, <1>6, <2>1, Zenon
<1>10. QED
  BY <1>1, <1>2, <1>7, <1>8, <1>9, Zenon DEF Find

\* What is lost was filled, and what is left still is.
LEMMA ShrunkFilled ==
  ASSUME NEW d, NEW e, Shrunk(d, e), NEW k \in Key
  PROVE  /\ AllFilled(d) => AllFilled(e)
         /\ FilledBut(d, k) => FilledBut(e, k)
         /\ FilledBut(d, k) /\ e.val[k] = Absent => AllFilled(e)
  BY Zenon DEF Shrunk, Filled, FilledBut, AllFilled

\* Set disturbs one key.
LEMMA SetFilled ==
  ASSUME NEW d, Sound(d), NEW k \in Key, NEW v \in Value, FilledBut(d, k)
  PROVE  FilledBut(Set(d, k, v), k) /\ (Filled(v) => AllFilled(Set(d, k, v)))
<1>1. \A j \in Key : Set(d, k, v).val[j] = IF j = k THEN v ELSE d.val[j]
  BY Zenon DEF Set, Sound, DatabaseType
<1>2. QED
  BY <1>1, Zenon DEF FilledBut, AllFilled

\* Strings, hashes and containers with an element are filled.
LEMMA FilledValue ==
  /\ \A s : Filled(<<"string", s>>)
  /\ \A M : Filled(<<"hash", M>>)
  /\ \A ty, M : M # {} => Filled(<<ty, M>>)
  /\ Filled(Absent)
  BY Zenon DEF Filled, TypeOfValue, Content

\* The container that is found or created is the only one that may be empty.
LEMMA FindOrCreateFilled ==
  ASSUME NEW d, Sound(d), AllFilled(d), NEW k \in Key, NEW ty \in ContainerType, NEW t2, NEW t3
  PROVE  FilledBut(FindOrCreate(d, k, ty, t2, t3), k)
<1> DEFINE e == IF d.val[k] # Absent THEN Del(d, k, t2) ELSE d
           v == <<ty, {}>>
<1>1. Sound(e) /\ FilledBut(e, k)
  BY DelSound, MethodsShrink, ShrunkFilled, Zenon DEF FilledBut, AllFilled
<1>2. v \in Value
  BY ContainerValue, Zenon
<1> HIDE DEF e, v
<1>3. Sound(Set(e, k, v)) /\ FilledBut(Set(e, k, v), k)
  BY <1>1, <1>2, SetSound, SetFilled, Zenon
<1>4. FilledBut(Find(Set(e, k, v), k, t3), k)
  BY <1>3, MethodsShrink, ShrunkFilled, Zenon
<1>5. QED
  BY <1>4, Zenon DEF FindOrCreate, e, v, FilledBut, AllFilled

\* A handler that leaves filled containers leaves a shard with filled containers.
LEMMA DoneFilled ==
  ASSUME Inv, NoEmptySetOrList, NEW c \in Conn, NEW d, AllFilled(d), NEW t, NEW r, Done(c, d, t, r)
  PROVE  NoEmptySetOrList'
<1>1. GetDB(c) \in DB /\ dbs' = [dbs EXCEPT ![GetDB(c)] = d] /\ dbs \in [DB -> DatabaseType]
  BY MineSound, Zenon DEF Done, Inv, TypeOK
<1>2. QED
  BY <1>1, Zenon DEF NoEmptySetOrList, AllFilled, Filled

\* The insertion fills the container.
LEMMA InsertFilled ==
  ASSUME Inv, NoEmptySetOrList, NEW c \in Conn, NEW d, Sound(d), NEW k \in Key,
         NEW ty \in ContainerType, IsType(d.val[k], ty), FilledBut(d, k),
         NEW m \in Member, NEW t, NEW r, Insert(c, d, k, ty, m, t, r)
  PROVE  NoEmptySetOrList'
<1> DEFINE M == Content(d.val[k]) \cup {m}
           v == <<ty, M>>
<1>1. d.val[k] \in Value /\ TypeOfValue(d.val[k]) = ty
  BY Zenon DEF IsType, Sound, DatabaseType
<1>2. M \in SUBSET Member /\ M # {}
  BY <1>1, ContentOfContainer, Zenon
<1> HIDE DEF M
<1>3. v \in Value /\ Filled(v)
  BY <1>2, ContainerValue, FilledValue
<1>4. Done(c, Set(d, k, v), t, r)
  BY Zenon DEF Insert, IsType, Finish, M
<1> HIDE DEF v
<1>5. QED
  BY <1>3, <1>4, SetFilled, DoneFilled, Zenon

\* No command leaves an empty set or list behind, whatever expires under it.
LEMMA CommandFilled ==
  ASSUME Inv, NoEmptySetOrList, NEW c \in Conn, Command(c)
  PROVE  NoEmptySetOrList'
<1> DEFINE mine == dbs[GetDB(c)]
           Ok(d) == Sound(d) /\ AllFilled(d)
<1>0. Ok(mine)
  BY MineSound, Zenon DEF NoEmptySetOrList, AllFilled, Filled
<1>1. \A d, t, r : Finish(c, d, t, r) /\ AllFilled(d) => NoEmptySetOrList'
  BY DoneFilled, Zenon DEF Finish
<1>2. ASSUME NEW d, Ok(d), NEW k \in Key, NEW t
      PROVE  Ok(Find(d, k, t)) /\ Ok(Del(d, k, t)) /\ Ok(Persist(d, k, t))
  BY <1>2, MethodsShrink, ShrunkFilled, PruneSound, DelSound, PersistSound, Zenon DEF Find
<1>3. ASSUME NEW d, Ok(d), NEW k \in Key, NEW v \in Value, Filled(v)
      PROVE  Ok(Set(d, k, v))
  BY <1>3, SetSound, SetFilled, Zenon DEF FilledBut, AllFilled
<1>4. \A s \in Str : <<"string", s>> \in Value /\ Filled(<<"string", s>>)
  BY StringValue, FilledValue, Zenon
<1>5. ASSUME NEW d, Ok(d), NEW k \in Key, NEW ty \in ContainerType, IsType(d.val[k], ty),
             NEW M \in SUBSET Member, NEW N \in SUBSET Member,
             ty = "hash" \/ (Content(d.val[k]) \ M) \cup N # {}
      PROVE  AllFilled(Set(d, k, <<ty, (Content(d.val[k]) \ M) \cup N>>))
  <2> DEFINE C == (Content(d.val[k]) \ M) \cup N
  <2>1. d.val[k] \in Value /\ TypeOfValue(d.val[k]) = ty
    BY <1>5, Zenon DEF IsType, Sound, DatabaseType
  <2>2. C \in SUBSET Member
    BY <2>1, <1>5, ContentOfContainer
  <2> HIDE DEF C
  <2>3. <<ty, C>> \in Value /\ Filled(<<ty, C>>)
    BY <1>5, <2>2, ContainerValue, FilledValue, Zenon DEF C
  <2>4. Ok(Set(d, k, <<ty, C>>))
    BY <1>5, <2>3, <1>3, Zenon
  <2>5. QED
    BY <2>4, Zenon DEF C
<1> HIDE DEF Ok
<1>6. \A d : Ok(d) => Sound(d) /\ AllFilled(d)
  BY Zenon DEF Ok
<1>7. ASSUME NEW k \in Key, NEW s \in Str, SetPlain(c, k, s) \/ Append(c, k, s)
      PROVE  NoEmptySetOrList'
  <2>1. PICK t, d, r : Finish(c, d, t, r) /\ d \in {Persist(Set(mine, k, <<"string", s>>), k, t),
                                                   Set(Find(mine, k, t), k, <<"string", s>>)}
    BY <1>7, Zenon DEF SetPlain, Append
  <2>2. Ok(Persist(Set(mine, k, <<"string", s>>), k, t)) /\ Ok(Set(Find(mine, k, t), k, <<"string", s>>))
    BY <1>0, <1>2, <1>3, <1>4, Zenon
  <2>3. QED
    BY <1>1, <1>6, <2>1, <2>2, Zenon
<1>8. ASSUME NEW k \in Key, NEW s \in Str, NEW ttl \in SetTtls, SetEx(c, k, s, ttl)
      PROVE  NoEmptySetOrList'
  <2>1. PICK t : Finish(c, Expire(Set(mine, k, <<"string", s>>), k, ttl, t), t, <<"OK">>)
    BY <1>8, Zenon DEF SetEx
  <2>2. Ok(Set(mine, k, <<"string", s>>))
    BY <1>0, <1>3, <1>4, Zenon
  <2>3. AllFilled(Expire(Set(mine, k, <<"string", s>>), k, ttl, t))
    BY <2>2, <1>6, MethodsShrink, ShrunkFilled
  <2>4. QED
    BY <1>1, <2>1, <2>3, Zenon
<1>9. ASSUME NEW k1 \in Key, NEW k2 \in Key, NEW s1 \in Str, NEW s2 \in Str,
             MSet(c, k1, s1, k2, s2)
      PROVE  NoEmptySetOrList'
  <2> DEFINE d1(t1) == Persist(Set(mine, k1, <<"string", s1>>), k1, t1)
             d2(t1, t2) == Persist(Set(d1(t1), k2, <<"string", s2>>), k2, t2)
  <2>1. PICK t1, t2 : Finish(c, d2(t1, t2), t2, <<"OK">>)
    BY <1>9, Zenon DEF MSet
  <2>2. Ok(d1(t1))
    BY <1>0, <1>2, <1>3, <1>4
  <2>3. Ok(d2(t1, t2))
    BY <2>2, <1>2, <1>3, <1>4, Zenon
  <2>4. QED
    BY <1>1, <1>6, <2>1, <2>3, Zenon
<1>10. ASSUME NEW k \in Key, Get(c, k) \/ TTLOf(c, k) \/ PersistKey(c, k) PROVE NoEmptySetOrList'
  <2>1. PICK t, d, r : Finish(c, d, t, r) /\ d \in {Find(mine, k, t), Persist(mine, k, t)}
    BY <1>10, Zenon DEF Get, TTLOf, PersistKey
  <2>2. QED
    BY <1>0, <1>1, <1>2, <1>6, <2>1, Zenon
<1>11. ASSUME NEW k1 \in Key, NEW k2 \in Key,
              DelKeys(c, k1, k2) \/ Exists(c, k1, k2) \/ MGet(c, k1, k2)
       PROVE  NoEmptySetOrList'
  <2>1. PICK t1, t2, d, r : Finish(c, d, t2, r) /\ d \in {Del(Del(mine, k1, t1), k2, t2),
                                                         Find(Find(mine, k1, t1), k2, t2)}
    BY <1>11, Zenon DEF DelKeys, Exists, MGet
  <2>2. QED
    BY <1>0, <1>1, <1>2, <1>6, <2>1
<1>12. ASSUME NEW k \in Key, NEW s \in NumStr, Incr(c, k, s) PROVE NoEmptySetOrList'
  <2>1. PICK t, d, r : Finish(c, d, t, r) /\ d \in {Find(mine, k, t),
                                                   Set(Find(mine, k, t), k, <<"string", s>>)}
    BY <1>12, Zenon DEF Incr
  <2>2. s \in Str
    BY NumStrAssumption, Zenon
  <2>3. QED
    BY <1>0, <1>1, <1>2, <1>3, <1>4, <1>6, <2>1, <2>2
<1>13. ASSUME NEW k \in Key, NEW secs \in ExArgs, ExpireKey(c, k, secs) PROVE NoEmptySetOrList'
  <2>1. PICK t, ttl, r : Finish(c, Expire(mine, k, ttl, t), t, r)
    BY <1>13, Zenon DEF ExpireKey
  <2>2. QED
    BY <1>0, <1>1, <1>6, <2>1, MethodsShrink, ShrunkFilled
<1>14. ASSUME NEW k \in Key, NEW m \in Member, NEW ty \in ContainerType, AddMember(c, k, ty, m)
       PROVE  NoEmptySetOrList'
  <2>1. PICK t1, t2, t3, t :
          Insert(c, FindOrCreate(Find(mine, k, t1), k, ty, t2, t3), k, ty, m, t, <<"OK">>)
    BY <1>14, Zenon DEF AddMember
  <2>2. Sound(Find(mine, k, t1)) /\ AllFilled(Find(mine, k, t1))
    BY <1>0, <1>2, <1>6, Zenon
  <2>3. QED
    BY <2>1, <2>2, FindOrCreateSound, FindOrCreateFilled, InsertFilled, Zenon
<1>15. ASSUME NEW k \in Key, NEW M \in SUBSET Member, NEW ty \in {"set", "list"},
              RemoveMembers(c, k, ty, M)
       PROVE  NoEmptySetOrList'
  <2> DEFINE d0(t1) == Find(mine, k, t1)
             rest(t1) == Content(d0(t1).val[k]) \ M
             d1(t1) == Set(d0(t1), k, <<ty, rest(t1)>>)
  <2>1. PICK t1, t2 :
          \/ Finish(c, d0(t1), t1, <<"OK">>)
          \/ IsType(d0(t1).val[k], ty) /\ Finish(c, Del(d1(t1), k, t2), t2, <<"OK">>)
          \/ IsType(d0(t1).val[k], ty) /\ rest(t1) # {} /\ Finish(c, d1(t1), t1, <<"OK">>)
    BY <1>15, Zenon DEF RemoveMembers
  <2>2. Ok(d0(t1)) /\ ty \in ContainerType /\ {} \in SUBSET Member
    BY <1>0, <1>2, Zenon DEF ContainerType
  <2>3. ASSUME IsType(d0(t1).val[k], ty) PROVE <<ty, rest(t1)>> \in Value
    <3>1. d0(t1).val[k] \in Value /\ TypeOfValue(d0(t1).val[k]) = ty
      BY <1>6, <2>2, <2>3 DEF IsType, Sound, DatabaseType
    <3>2. QED
      BY <2>2, <3>1, ContentOfContainer, ContainerValue
  <2>4. ASSUME IsType(d0(t1).val[k], ty) PROVE AllFilled(Del(d1(t1), k, t2))
    <3> DEFINE v == <<ty, rest(t1)>>
    <3>1. Sound(d0(t1)) /\ FilledBut(d0(t1), k) /\ v \in Value
      BY <1>6, <2>2, <2>3, <2>4, Zenon DEF FilledBut, AllFilled
    <3> HIDE DEF d0, v
    <3>2. Sound(Set(d0(t1), k, v)) /\ FilledBut(Set(d0(t1), k, v), k)
      BY <3>1, SetSound, SetFilled, Zenon
    <3>3. AllFilled(Del(Set(d0(t1), k, v), k, t2))
      BY <3>2, MethodsShrink, ShrunkFilled, Zenon
    <3>4. QED
      BY <3>3, Zenon DEF v
  <2>5. ASSUME IsType(d0(t1).val[k], ty), rest(t1) # {} PROVE AllFilled(d1(t1))
    <3>1. FilledBut(d0(t1), k) /\ Sound(d0(t1)) /\ Filled(<<ty, rest(t1)>>)
      BY <1>6, <2>2, <2>5, FilledValue DEF FilledBut, AllFilled
    <3>2. QED
      BY <2>3, <2>5, <3>1, SetFilled, ZenonT(30)
  <2>6. QED
    BY <1>1, <1>6, <2>1, <2>2, <2>4, <2>5
<1>16. ASSUME NEW k \in Key, NEW M \in SUBSET Member, RemoveFields(c, k, M) PROVE NoEmptySetOrList'
  <2> DEFINE d0(t) == Find(mine, k, t)
  <2>1. PICK t, d :
          /\ Finish(c, d, t, <<"OK">>)
          /\ \/ d = d0(t)
             \/ /\ IsType(d0(t).val[k], "hash")
                /\ d = Set(d0(t), k, <<"hash", Content(d0(t).val[k]) \ M>>)
    BY <1>16, Zenon DEF RemoveFields
  <2>2. Ok(d0(t)) /\ "hash" \in ContainerType /\ {} \in SUBSET Member
    BY <1>0, <1>2, Zenon DEF ContainerType
  <2> HIDE DEF d0
  <2>3. IsType(d0(t).val[k], "hash") =>
          AllFilled(Set(d0(t), k, <<"hash", (Content(d0(t).val[k]) \ M) \cup {}>>))
    BY <1>5, <2>2, Zenon
  <2>4. (Content(d0(t).val[k]) \ M) \cup {} = Content(d0(t).val[k]) \ M
    BY Zenon
  <2>5. QED
    BY <1>1, <1>6, <2>1, <2>2, <2>3, <2>4
<1>17. ASSUME NEW k \in Key, NEW m \in Member, NEW M \in SUBSET Member, NEW ty \in {"hash", "list"},
              PutElement(c, k, ty, m, M)
       PROVE  NoEmptySetOrList'
  <2> DEFINE d0(t) == Find(mine, k, t)
             C(t) == (Content(d0(t).val[k]) \ M) \cup {m}
  <2>1. PICK t, d :
          /\ Finish(c, d, t, <<"OK">>)
          /\ d = d0(t) \/ (IsType(d0(t).val[k], ty) /\ d = Set(d0(t), k, <<ty, C(t)>>))
    BY <1>17, Zenon DEF PutElement
  <2>2. Ok(d0(t)) /\ ty \in ContainerType /\ {m} \in SUBSET Member /\ C(t) # {}
    BY <1>0, <1>2, Zenon DEF ContainerType
  <2>3. IsType(d0(t).val[k], ty) => AllFilled(Set(d0(t), k, <<ty, C(t)>>))
    BY <1>5, <2>2, Zenon
  <2>4. QED
    BY <1>1, <1>6, <2>1, <2>2, <2>3
<1>18. ASSUME NEW src \in Key, NEW dst \in Key, NEW m \in Member, SMove(c, src, dst, m)
       PROVE  NoEmptySetOrList'
  <2> DEFINE d0(t1) == Find(mine, src, t1)
             has(t1) == IsType(d0(t1).val[src], "set") /\ m \in Content(d0(t1).val[src])
             rest(t1) == Content(d0(t1).val[src]) \ {m}
             d1(t1) == Set(d0(t1), src, <<"set", rest(t1)>>)
             d2(t1, t2) == IF rest(t1) = {} THEN Del(d1(t1), src, t2) ELSE d1(t1)
             d3(t1, t2, t3) == Find(d2(t1, t2), dst, t3)
  <2>1. PICK t1, t2, t3, t4, t5, t :
          \/ Finish(c, d0(t1), t1, Int64(0))
          \/ /\ has(t1)
             /\ Insert(c, FindOrCreate(d3(t1, t2, t3), dst, "set", t4, t5), dst, "set", m, t, Int64(1))
    BY <1>18, ZenonT(30) DEF SMove
  <2>2. Ok(d0(t1)) /\ "set" \in ContainerType
    BY <1>0, <1>2, Zenon DEF ContainerType
  <2>3. ASSUME has(t1) PROVE Ok(d2(t1, t2))
    <3> DEFINE v == <<"set", rest(t1)>>
    <3>1. v \in Value
      <4>1. d0(t1).val[src] \in Value /\ TypeOfValue(d0(t1).val[src]) = "set"
        BY <1>6, <2>2, <2>3 DEF IsType, Sound, DatabaseType
      <4>2. QED
        BY <2>2, <4>1, ContentOfContainer, ContainerValue, Zenon
    <3>2. rest(t1) # {} => Filled(v)
      BY FilledValue, Zenon
    <3>3. Sound(d0(t1)) /\ FilledBut(d0(t1), src)
      BY <1>6, <2>2, Zenon DEF FilledBut, AllFilled
    <3> HIDE DEF d0, v, rest
    <3>4. Sound(Set(d0(t1), src, v)) /\ FilledBut(Set(d0(t1), src, v), src)
      BY <3>1, <3>3, SetSound, SetFilled, Zenon
    <3>5. rest(t1) # {} => AllFilled(Set(d0(t1), src, v))
      BY <3>1, <3>2, <3>3, SetFilled, Zenon
    <3>6. Sound(Del(Set(d0(t1), src, v), src, t2)) /\ AllFilled(Del(Set(d0(t1), src, v), src, t2))
      BY <3>4, DelSound, MethodsShrink, ShrunkFilled, Zenon
    <3>7. QED
      BY <3>4, <3>5, <3>6, Zenon DEF v, Ok
  <2>4. ASSUME has(t1) PROVE Ok(d3(t1, t2, t3))
    BY <1>2, <2>3, <2>4, Zenon
  <2> HIDE DEF d0, has, rest, d1, d2, d3
  <2>5. CASE has(t1) /\ Insert(c, FindOrCreate(d3(t1, t2, t3), dst, "set", t4, t5), dst, "set", m, t, Int64(1))
    <3> DEFINE f == FindOrCreate(d3(t1, t2, t3), dst, "set", t4, t5)
    <3>1. Sound(f) /\ IsType(f.val[dst], "set") /\ FilledBut(f, dst)
      BY <1>6, <2>2, <2>4, <2>5, FindOrCreateSound, FindOrCreateFilled, Zenon
    <3> HIDE DEF f
    <3>2. Insert(c, f, dst, "set", m, t, Int64(1))
      BY <2>5, Zenon DEF f
    <3>3. QED
      BY <2>2, <3>1, <3>2, InsertFilled, Zenon
  <2>6. QED
    BY <1>1, <1>6, <2>1, <2>2, <2>5
<1>19. ASSUME ListKeys(c) \/ FlushDB(c) \/ Reject(c) PROVE NoEmptySetOrList'
  <2>1. PICK t, d, r : Finish(c, d, t, r) /\ d \in {PurgeExpired(mine, t), EmptyDB, mine}
    BY <1>19, Zenon DEF ListKeys, FlushDB, Reject, ClearCurrentDB
  <2>2. AllFilled(PurgeExpired(mine, t))
    <3> DEFINE S == Expired(mine, t)
    <3>0. Sound(mine) /\ AllFilled(mine)
      BY <1>0, <1>6, Zenon
    <3> HIDE DEF mine, S
    <3>1. ASSUME NEW j \in Key PROVE EraseBoth(mine, S).val[j] \in {Absent, mine.val[j]}
      BY <3>0, EraseBothSound
    <3>2. Filled(Absent) /\ \A j \in Key : Filled(mine.val[j])
      BY <3>0, Zenon DEF AllFilled, Filled
    <3>3. AllFilled(EraseBoth(mine, S))
      BY <3>1, <3>2, Zenon DEF AllFilled
    <3> QED BY <3>3, Zenon DEF PurgeExpired, S
  <2>3. AllFilled(EmptyDB)
    BY FilledValue, Zenon DEF EmptyDB, AllFilled
  <2>4. QED
    BY <1>0, <1>1, <1>6, <2>1, <2>2, <2>3, Zenon
<1>20. ASSUME NEW i \in DB, SelectDB(c, i) PROVE NoEmptySetOrList'
  BY <1>20, Zenon DEF SelectDB, NoEmptySetOrList
<1>21. QED
  BY <1>7, <1>8, <1>9, <1>10, <1>11, <1>12, <1>13, <1>14, <1>15, <1>16, <1>17, <1>18,
     <1>19, <1>20, CommandForm, ZenonT(30) DEF Form

\* A set or a list exists only while it has an element, in any interleaving of
\* commands and expiry cycles, and although SADD, LPUSH and SMOVE first store an
\* empty container and SREM, LPOP, LTRIM and SMOVE first take the last element.
THEOREM NoneEmpty == Spec => []NoEmptySetOrList
<1>1. Init => NoEmptySetOrList
  BY DEF Init, EmptyDB, NoEmptySetOrList
<1>2. ASSUME Inv, NoEmptySetOrList, ActiveExpireCycle PROVE NoEmptySetOrList'
  <2>1. PICK t : dbs' = [i \in DB |-> ActiveExpire(dbs[i], MaxScan, t)]
    BY <1>2, Zenon DEF ActiveExpireCycle
  <2>2. \A i \in DB : Sound(dbs[i]) /\ AllFilled(dbs[i])
    BY <1>2, Zenon DEF Inv, TypeOK, NoOrphanDeadline, Sound, NoEmptySetOrList, AllFilled, Filled
  <2>3. \A i \in DB : AllFilled(dbs'[i])
    BY <2>1, <2>2, EraseBothSound DEF ActiveExpire, AllFilled, Filled
  <2>4. QED
    BY <2>3, Zenon DEF NoEmptySetOrList, AllFilled, Filled
<1>3. Inv /\ NoEmptySetOrList /\ [Next]_vars => NoEmptySetOrList'
  <2>1. ASSUME Inv, NoEmptySetOrList, Next PROVE NoEmptySetOrList'
    BY <2>1, <1>2, CommandFilled, Zenon DEF Next
  <2>2. ASSUME NoEmptySetOrList, UNCHANGED vars PROVE NoEmptySetOrList'
    BY <2>2, Zenon DEF vars, NoEmptySetOrList
  <2>3. QED
    BY <2>1, <2>2, Zenon
<1>4. QED
  BY <1>1, <1>3, InvInvariant, PTL DEF Spec


-----------------------------------------------------------------------------
(* What each method of a database does to what a client sees: the methods of *)
(* Database.tla against the operations of TtlStore.tla.                      *)

\* Database d is seen at instant t as the abstract store m is.
SameAt(d, m, t) == PurgeExpired(d, t) = Promise!At(m, t)

\* The abstract store forgets expired keys exactly as a purge does.
LEMMA AtIsPurge ==
  ASSUME NEW d, NEW t
  PROVE  Promise!At(d, t) = PurgeExpired(d, t)
  BY Zenon DEF Promise!At, Promise!NoExpiry, NoExpiry, PurgeExpired, EraseBoth, Expired, IsExpiredInDB

\* What a purged database holds, key by key.
LEMMA PurgedAt ==
  ASSUME NEW d, NEW t, NEW k \in Key
  PROVE  /\ PurgeExpired(d, t).val[k] = (IF IsExpiredInDB(d, k, t) THEN Absent ELSE d.val[k])
         /\ PurgeExpired(d, t).exp[k] = (IF IsExpiredInDB(d, k, t) THEN NoExpiry ELSE d.exp[k])
  BY Zenon DEF PurgeExpired, EraseBoth, Expired

\* Two purged databases that agree on every key are equal.
LEMMA PurgedEqual ==
  ASSUME NEW d, NEW e, NEW t, NEW u,
         \A k \in Key : /\ PurgeExpired(d, t).val[k] = PurgeExpired(e, u).val[k]
                        /\ PurgeExpired(d, t).exp[k] = PurgeExpired(e, u).exp[k]
  PROVE  PurgeExpired(d, t) = PurgeExpired(e, u)
<1>1. [k \in Key |-> PurgeExpired(d, t).val[k]] = [k \in Key |-> PurgeExpired(e, u).val[k]]
  BY Zenon
<1>2. [k \in Key |-> PurgeExpired(d, t).exp[k]] = [k \in Key |-> PurgeExpired(e, u).exp[k]]
  BY Zenon
<1>3. QED
  BY <1>1, <1>2, Zenon DEF PurgeExpired, EraseBoth

\* Purging early does not change what a later purge leaves.
LEMMA PurgeTwice ==
  ASSUME NEW d, \A k \in Key : d.exp[k] \in Int, NEW t \in Nat, NEW u \in Nat, t <= u
  PROVE  PurgeExpired(PurgeExpired(d, t), u) = PurgeExpired(d, u)
<1>1. ASSUME NEW k \in Key
      PROVE  IsExpiredInDB(d, k, t) => IsExpiredInDB(d, k, u)
  BY DEF IsExpiredInDB
<1>2. ASSUME NEW k \in Key
      PROVE  /\ PurgeExpired(PurgeExpired(d, t), u).val[k] = PurgeExpired(d, u).val[k]
             /\ PurgeExpired(PurgeExpired(d, t), u).exp[k] = PurgeExpired(d, u).exp[k]
  BY <1>1, PurgedAt DEF IsExpiredInDB
<1>3. QED
  BY <1>2, PurgedEqual

\* Deadlines are numbers.
LEMMA SoundInt ==
  ASSUME NEW d, Sound(d), NEW k \in Key
  PROVE  d.exp[k] \in Int
  BY Int64MaxAssumption DEF Sound, DatabaseType, Deadline, NoExpiry

\* Databases that are seen alike once are seen alike from then on.
LEMMA SameLater ==
  ASSUME NEW d, Sound(d), NEW m, \A k \in Key : m.exp[k] \in Int,
         NEW t \in Nat, NEW u \in Nat, t <= u, SameAt(d, m, t)
  PROVE  SameAt(d, m, u)
<1>1. PurgeExpired(PurgeExpired(d, t), u) = PurgeExpired(PurgeExpired(m, t), u)
  BY AtIsPurge, Zenon DEF SameAt
<1>2. PurgeExpired(d, u) = PurgeExpired(m, u)
  BY <1>1, SoundInt, PurgeTwice, Zenon
<1>3. QED
  BY <1>2, AtIsPurge, Zenon DEF SameAt

\* Pruning one expired key changes nothing that can be seen.
LEMMA PruneInvisible ==
  ASSUME NEW d, Sound(d), NEW k \in Key, NEW t
  PROVE  PurgeExpired(PruneExpiredInDB(d, k, t), t) = PurgeExpired(d, t)
<1> DEFINE p == PruneExpiredInDB(d, k, t)
<1>1. ASSUME NEW j \in Key
      PROVE  /\ PurgeExpired(p, t).val[j] = PurgeExpired(d, t).val[j]
             /\ PurgeExpired(p, t).exp[j] = PurgeExpired(d, t).exp[j]
  BY PurgedAt, EraseBothSound DEF PruneExpiredInDB, IsExpiredInDB
<1>2. QED
  BY <1>1, PurgedEqual

-----------------------------------------------------------------------------
(* Each method does to the database what its abstract counterpart does to   *)
(* the store seen at the same instant.                                      *)

\* What a lookup finds is what the store holds.
LEMMA FoundSame ==
  ASSUME NEW d, Sound(d), NEW k \in Key, NEW t
  PROVE  Found(d, k, t) = PurgeExpired(d, t).val[k]
  BY PurgedAt, EraseBothSound DEF Found, Find, PruneExpiredInDB

\* Storing over the key just looked up: the deadline, if it has one, stays.
LEMMA SetSame ==
  ASSUME NEW d, Sound(d), NEW k \in Key, NEW v \in Value, NEW t
  PROVE  SameAt(Set(Find(d, k, t), k, v), Promise!Put(PurgeExpired(d, t), k, v), t)
<1> DEFINE p == Find(d, k, t)
           w == PurgeExpired(d, t)
           x == Set(p, k, v)
           y == [w EXCEPT !.val[k] = v]
<1>1. Sound(p) /\ Sound(w)
  BY PruneSound, EraseBothSound, Zenon DEF Find, PurgeExpired
<1>2. x.exp = p.exp /\ y.exp = w.exp
  BY <1>1, Zenon DEF Set, Sound, DatabaseType
<1>3. \A j \in Key : /\ x.val[j] = IF j = k THEN v ELSE p.val[j]
                     /\ y.val[j] = IF j = k THEN v ELSE w.val[j]
  BY <1>1, Zenon DEF Set, Sound, DatabaseType
<1>4. PurgeExpired(p, t) = w
  BY PruneInvisible, Zenon DEF Find
<1>5. ~IsExpiredInDB(p, k, t)
  BY EraseBothSound DEF Find, PruneExpiredInDB, IsExpiredInDB
<1>6. ASSUME NEW j \in Key
      PROVE  /\ PurgeExpired(x, t).val[j] = PurgeExpired(y, t).val[j]
             /\ PurgeExpired(x, t).exp[j] = PurgeExpired(y, t).exp[j]
  <2>1. /\ w.val[j] = IF IsExpiredInDB(p, j, t) THEN Absent ELSE p.val[j]
        /\ w.exp[j] = IF IsExpiredInDB(p, j, t) THEN NoExpiry ELSE p.exp[j]
    BY <1>4, PurgedAt
  <2> HIDE DEF w, x, y, p
  <2>2. QED
    BY <1>2, <1>3, <1>5, <2>1, PurgedAt DEF IsExpiredInDB
<1>7. PurgeExpired(x, t) = PurgeExpired(y, t)
  BY <1>6, PurgedEqual
<1>8. QED
  BY <1>7, AtIsPurge, Zenon DEF SameAt, Promise!Put

\* Replacing both entries of a key that is then not expired, seen at t.
LEMMA FreshSame ==
  ASSUME NEW d, Sound(d), NEW k \in Key, NEW t, NEW v, NEW e, NEW x,
         x \in [val : [Key -> Value \cup {Absent}], exp : [Key -> Deadline \cup {NoExpiry}]],
         x.val[k] = v, x.exp[k] = e, ~IsExpiredInDB(x, k, t),
         \A j \in Key \ {k} : x.val[j] = d.val[j] /\ x.exp[j] = d.exp[j]
  PROVE  SameAt(x, Promise!PutFresh(PurgeExpired(d, t), k, v, e), t)
<1> DEFINE w == PurgeExpired(d, t)
           y == [val |-> [w.val EXCEPT ![k] = v], exp |-> [w.exp EXCEPT ![k] = e]]
<1>1. Sound(w)
  BY EraseBothSound, Zenon DEF PurgeExpired
<1>2. \A j \in Key : /\ y.val[j] = IF j = k THEN v ELSE w.val[j]
                     /\ y.exp[j] = IF j = k THEN e ELSE w.exp[j]
  BY <1>1, Zenon DEF Sound, DatabaseType
<1>3. ASSUME NEW j \in Key
      PROVE  /\ PurgeExpired(x, t).val[j] = PurgeExpired(y, t).val[j]
             /\ PurgeExpired(x, t).exp[j] = PurgeExpired(y, t).exp[j]
  <2>1. /\ w.val[j] = IF IsExpiredInDB(d, j, t) THEN Absent ELSE d.val[j]
        /\ w.exp[j] = IF IsExpiredInDB(d, j, t) THEN NoExpiry ELSE d.exp[j]
    BY PurgedAt
  <2> HIDE DEF w, y
  <2>2. QED
    BY <1>2, <2>1, PurgedAt DEF IsExpiredInDB
<1>4. PurgeExpired(x, t) = PurgeExpired(y, t)
  BY <1>3, PurgedEqual
<1>5. QED
  BY <1>4, AtIsPurge, Zenon DEF SameAt, Promise!PutFresh

\* Del, whether or not the key is there.
LEMMA DelSame ==
  ASSUME NEW d, Sound(d), NEW k \in Key, NEW t
  PROVE  SameAt(Del(d, k, t), Promise!Without(PurgeExpired(d, t), k), t)
<1> DEFINE p == PruneExpiredInDB(d, k, t)
           x == Del(d, k, t)
<1>1. Sound(p) /\ Sound(x) /\ x.val[k] = Absent
  BY PruneSound, DelSound, Zenon
<1>2. x.exp[k] = NoExpiry
  BY <1>1, Zenon DEF Sound, Coherent
<1>3. \A j \in Key \ {k} : x.val[j] = d.val[j] /\ x.exp[j] = d.exp[j]
  BY <1>1, EraseBothSound DEF Del, PruneExpiredInDB
<1>4. ~IsExpiredInDB(x, k, t)
  BY <1>2, Zenon DEF IsExpiredInDB
<1>5. SameAt(x, Promise!PutFresh(PurgeExpired(d, t), k, Absent, NoExpiry), t)
  <2> HIDE DEF x
  <2>1. QED
    BY <1>1, <1>2, <1>3, <1>4, FreshSame, Zenon DEF Sound, DatabaseType
<1>6. QED
  BY <1>5, Zenon DEF Promise!Without, Promise!NoExpiry, NoExpiry

\* The deadline that EXPIRE and SET EX give is in the future.
LEMMA DueSame ==
  ASSUME NEW t \in Nat, t < Int64Max, NEW ttl \in Nat \ {0}
  PROVE  Promise!Due(t, ttl) = DeadlineAfter(t, ttl)
  BY Zenon DEF Promise!Due, DeadlineAfter

\* Expire on the key of a store: no key, no effect; no time, no key.
LEMMA ExpireSame ==
  ASSUME NEW d, Sound(d), NEW k \in Key, NEW ttl \in Int, NEW t \in Nat, t < Int64Max
  PROVE  LET w == PurgeExpired(d, t) IN
         SameAt(Expire(d, k, ttl, t),
                CASE w.val[k] = Absent -> w
                  [] w.val[k] # Absent /\ ttl <= 0 -> Promise!Without(w, k)
                  [] OTHER -> Promise!PutFresh(w, k, w.val[k], DeadlineAfter(t, ttl)), t)
<1> DEFINE p == PruneExpiredInDB(d, k, t)
           w == PurgeExpired(d, t)
           x == Expire(d, k, ttl, t)
<1>1. Sound(p) /\ Sound(x) /\ PurgeExpired(p, t) = w
  BY PruneSound, ExpireSound, PruneInvisible, Zenon
<1>2. p.val[k] = w.val[k]
  BY FoundSame, Zenon DEF Found, Find
<1>3. CASE w.val[k] = Absent
  <2>1. x = p
    BY <1>2, <1>3, Zenon DEF Expire
  <2>2. PurgeExpired(w, t) = w
    BY SoundInt, PurgeTwice
  <2>3. QED
    BY <1>1, <1>3, <2>1, <2>2, AtIsPurge, Zenon DEF SameAt
<1>4. CASE w.val[k] # Absent /\ ttl <= 0
  <2>1. x = Del(d, k, t)
    BY <1>2, <1>4, Zenon DEF Expire, Del
  <2>2. SameAt(x, Promise!Without(w, k), t)
    BY <2>1, DelSame, Zenon
  <2>3. QED
    BY <1>4, <2>2, Zenon
<1>5. CASE w.val[k] # Absent /\ ~(ttl <= 0)
  <2> DEFINE e == DeadlineAfter(t, ttl)
  <2>1. x = [p EXCEPT !.exp[k] = e]
    BY <1>2, <1>5, Zenon DEF Expire
  <2>2. e \in Deadline /\ e > t
    BY <1>5, DeadlineInRange
  <2>3. /\ x.val[k] = w.val[k] /\ x.exp[k] = e
        /\ \A j \in Key \ {k} : x.val[j] = p.val[j] /\ x.exp[j] = p.exp[j]
    BY <1>1, <1>2, <2>1 DEF Sound, DatabaseType
  <2>4. ~IsExpiredInDB(x, k, t)
    <3> HIDE DEF e, x
    <3>1. QED
      BY <2>2, <2>3 DEF IsExpiredInDB, Deadline
  <2>5. SameAt(x, Promise!PutFresh(PurgeExpired(p, t), k, w.val[k], e), t)
    <3> HIDE DEF e, x, p, w
    <3>1. QED
      BY <1>1, <2>3, <2>4, FreshSame DEF Sound, DatabaseType
  <2>6. QED
    BY <1>1, <1>5, <2>5, Zenon
<1>6. QED
  BY <1>3, <1>4, <1>5, Zenon

\* Persist on the key of a store.
LEMMA PersistSame ==
  ASSUME NEW d, Sound(d), NEW k \in Key, NEW t \in Nat
  PROVE  LET w == PurgeExpired(d, t) IN
         SameAt(Persist(d, k, t), Promise!PutFresh(w, k, w.val[k], NoExpiry), t)
<1> DEFINE p == PruneExpiredInDB(d, k, t)
           w == PurgeExpired(d, t)
           x == Persist(d, k, t)
<1>1. Sound(p) /\ Sound(x) /\ PurgeExpired(p, t) = w
  BY PruneSound, PersistSound, PruneInvisible, Zenon
<1>2. p.val[k] = w.val[k]
  BY FoundSame, Zenon DEF Found, Find
<1>3. /\ x.val[k] = w.val[k] /\ x.exp[k] = NoExpiry
      /\ \A j \in Key \ {k} : x.val[j] = p.val[j] /\ x.exp[j] = p.exp[j]
  BY <1>1, <1>2, Zenon DEF Persist, Sound, DatabaseType, Coherent
<1>4. ~IsExpiredInDB(x, k, t)
  BY <1>3, Zenon DEF IsExpiredInDB
<1>5. SameAt(x, Promise!PutFresh(PurgeExpired(p, t), k, w.val[k], NoExpiry), t)
  <2> HIDE DEF x, p, w
  <2>1. QED
    BY <1>1, <1>3, <1>4, FreshSame DEF Sound, DatabaseType
<1>6. QED
  BY <1>1, <1>5, Zenon

\* SET without a TTL: stored, unless the key was expired but still there.
LEMMA StorePersist ==
  ASSUME NEW d, Sound(d), NEW k \in Key, NEW v \in Value, NEW t \in Nat
  PROVE  \E m \in Promise!Store(PurgeExpired(d, t), k, v, NoExpiry) :
            SameAt(Persist(Set(d, k, v), k, t), m, t)
<1> DEFINE w == PurgeExpired(d, t)
           s == Set(d, k, v)
           x == Persist(s, k, t)
<1>1. Sound(s) /\ Sound(x) /\ v # Absent
  BY SetSound, PersistSound, AbsentAssumption, Zenon
<1>2. /\ s.exp = d.exp /\ s.val[k] = v
      /\ \A j \in Key \ {k} : s.val[j] = d.val[j]
  BY Zenon DEF Set, Sound, DatabaseType
<1>3. CASE IsExpiredInDB(d, k, t)
  <2>1. x = EraseBoth(s, {k})
    BY <1>2, <1>3, EraseBothSound DEF Persist, PruneExpiredInDB, IsExpiredInDB, EraseBoth
  <2>2. /\ x.val[k] = Absent /\ x.exp[k] = NoExpiry
        /\ \A j \in Key \ {k} : x.val[j] = d.val[j] /\ x.exp[j] = d.exp[j]
    BY <1>2, <2>1 DEF EraseBoth
  <2>3. ASSUME NEW j \in Key
        PROVE  /\ PurgeExpired(x, t).val[j] = w.val[j]
               /\ PurgeExpired(x, t).exp[j] = w.exp[j]
    <3> HIDE DEF x
    <3>1. QED
      BY <1>3, <2>2, PurgedAt DEF IsExpiredInDB
  <2>4. PurgeExpired(x, t) = w
    BY <2>3, PurgedEqual
  <2>5. PurgeExpired(w, t) = w /\ w.val[k] = Absent
    BY <1>3, SoundInt, PurgeTwice, PurgedAt
  <2>6. SameAt(x, w, t)
    BY <2>4, <2>5, AtIsPurge, Zenon DEF SameAt
  <2>7. w \in Promise!Store(w, k, v, NoExpiry)
    BY <2>5, Zenon DEF Promise!Store, Promise!Has
  <2>8. QED
    BY <2>6, <2>7, Zenon
<1>4. CASE ~IsExpiredInDB(d, k, t)
  <2>1. /\ x.val[k] = v /\ x.exp[k] = NoExpiry
        /\ \A j \in Key \ {k} : x.val[j] = d.val[j] /\ x.exp[j] = d.exp[j]
    BY <1>1, <1>2, <1>4 DEF Persist, PruneExpiredInDB, IsExpiredInDB, Sound, DatabaseType
  <2>2. ~IsExpiredInDB(x, k, t)
    BY <2>1, Zenon DEF IsExpiredInDB
  <2>3. SameAt(x, Promise!PutFresh(w, k, v, NoExpiry), t)
    <3> HIDE DEF x
    <3>1. QED
      BY <1>1, <2>1, <2>2, FreshSame DEF Sound, DatabaseType
  <2>4. QED
    BY <2>3, Zenon DEF Promise!Store
<1>5. QED
  BY <1>3, <1>4, Zenon

\* SET with a TTL: stored, unless the key was expired but still there.
LEMMA StoreExpire ==
  ASSUME NEW d, Sound(d), NEW k \in Key, NEW v \in Value, NEW t \in Nat, t < Int64Max,
         NEW ttl \in Nat \ {0}
  PROVE  \E m \in Promise!Store(PurgeExpired(d, t), k, v, DeadlineAfter(t, ttl)) :
            SameAt(Expire(Set(d, k, v), k, ttl, t), m, t)
<1> DEFINE w == PurgeExpired(d, t)
           e == DeadlineAfter(t, ttl)
           s == Set(d, k, v)
           x == Expire(s, k, ttl, t)
<1>1. Sound(s) /\ Sound(x) /\ v # Absent
  BY SetSound, ExpireSound, AbsentAssumption
<1>2. /\ s.exp = d.exp /\ s.val[k] = v
      /\ \A j \in Key \ {k} : s.val[j] = d.val[j]
  BY Zenon DEF Set, Sound, DatabaseType
<1>3. CASE IsExpiredInDB(d, k, t)
  <2>1. x = EraseBoth(s, {k})
    BY <1>2, <1>3, EraseBothSound, Zenon DEF Expire, PruneExpiredInDB, IsExpiredInDB, EraseBoth
  <2>2. /\ x.val[k] = Absent /\ x.exp[k] = NoExpiry
        /\ \A j \in Key \ {k} : x.val[j] = d.val[j] /\ x.exp[j] = d.exp[j]
    BY <1>2, <2>1 DEF EraseBoth
  <2>3. ASSUME NEW j \in Key
        PROVE  /\ PurgeExpired(x, t).val[j] = w.val[j]
               /\ PurgeExpired(x, t).exp[j] = w.exp[j]
    <3> HIDE DEF x
    <3>1. QED
      BY <1>3, <2>2, PurgedAt DEF IsExpiredInDB
  <2>4. PurgeExpired(x, t) = w
    BY <2>3, PurgedEqual
  <2>5. PurgeExpired(w, t) = w /\ w.val[k] = Absent
    BY <1>3, SoundInt, PurgeTwice, PurgedAt
  <2>6. SameAt(x, w, t)
    BY <2>4, <2>5, AtIsPurge, Zenon DEF SameAt
  <2>7. w \in Promise!Store(w, k, v, e)
    BY <2>5, Zenon DEF Promise!Store, Promise!Has
  <2>8. QED
    BY <2>6, <2>7, Zenon
<1>4. CASE ~IsExpiredInDB(d, k, t)
  <2>1. PruneExpiredInDB(s, k, t) = s
    BY <1>2, <1>4, Zenon DEF PruneExpiredInDB, IsExpiredInDB
  <2>2. x = [s EXCEPT !.exp[k] = e]
    BY <1>1, <1>2, <2>1 DEF Expire
  <2>3. /\ x.val[k] = v /\ x.exp[k] = e
        /\ \A j \in Key \ {k} : x.val[j] = d.val[j] /\ x.exp[j] = d.exp[j]
    BY <1>1, <1>2, <2>2 DEF Sound, DatabaseType
  <2>4. e \in Deadline /\ e > t
    BY DeadlineInRange, Zenon
  <2>5. ~IsExpiredInDB(x, k, t)
    <3> HIDE DEF e, x
    <3>1. QED
      BY <2>3, <2>4 DEF IsExpiredInDB, Deadline
  <2>6. SameAt(x, Promise!PutFresh(w, k, v, e), t)
    <3> HIDE DEF x, e
    <3>1. QED
      BY <1>1, <2>3, <2>5, FreshSame DEF Sound, DatabaseType
  <2>7. QED
    BY <2>6, Zenon DEF Promise!Store
<1>5. QED
  BY <1>3, <1>4, Zenon

\* Adding an element, to a container that is there or to a new one.
LEMMA IncludeSame ==
  ASSUME NEW d, Sound(d), NEW k \in Key, NEW ty \in ContainerType, NEW m \in Member,
         NEW t1, NEW t2, NEW t3
  PROVE  LET c == FindOrCreate(Find(d, k, t1), k, ty, t2, t3)
             x == Set(c, k, <<ty, Content(c.val[k]) \cup {m}>>)
         IN  Sound(x) /\ SameAt(x, Promise!Included(PurgeExpired(d, t1), k, ty, m), t1)
<1> DEFINE p == Find(d, k, t1)
           w == PurgeExpired(d, t1)
           c == FindOrCreate(p, k, ty, t2, t3)
           v == <<ty, Content(c.val[k]) \cup {m}>>
           x == Set(c, k, v)
<1>1. Sound(p) /\ p.val[k] = w.val[k]
  BY PruneSound, FoundSame, Zenon DEF Find, Found
<1>2. Sound(c) /\ IsType(c.val[k], ty)
  BY <1>1, FindOrCreateSound, Zenon
<1>3. v \in Value
  <2>1. c.val[k] \in Value /\ TypeOfValue(c.val[k]) = ty
    BY <1>2, Zenon DEF IsType, Sound, DatabaseType
  <2>2. QED
    BY <2>1, ContentOfContainer, ContainerValue, Zenon
<1>4. Sound(x)
  BY <1>2, <1>3, SetSound, Zenon
<1>5. CASE IsType(p.val[k], ty)
  <2>1. c = p
    BY <1>5, Zenon DEF FindOrCreate
  <2>2. Promise!Included(w, k, ty, m) = Promise!Put(w, k, v)
    BY <1>1, <1>5, <2>1, Zenon DEF Promise!Included, Promise!Holds, Promise!Has, IsType,
                            Promise!TypeOfValue, TypeOfValue, Promise!Content, Content
  <2>3. SameAt(Set(p, k, v), Promise!Put(w, k, v), t1)
    <3> HIDE DEF v
    <3>1. QED
      BY <1>3, SetSame, Zenon
  <2>4. QED
    BY <1>4, <2>1, <2>2, <2>3
<1>6. CASE ~IsType(p.val[k], ty)
  <2> DEFINE e == IF p.val[k] # Absent THEN Del(p, k, t2) ELSE p
             n == <<ty, {}>>
  <2>1. Sound(e) /\ e.val[k] = Absent
    BY <1>1, DelSound
  <2>2. e.exp[k] = NoExpiry
    BY <2>1, Zenon DEF Sound, Coherent
  <2>3. \A j \in Key \ {k} : e.val[j] = d.val[j] /\ e.exp[j] = d.exp[j]
    <3>1. \A j \in Key \ {k} : p.val[j] = d.val[j] /\ p.exp[j] = d.exp[j]
      BY EraseBothSound DEF Find, PruneExpiredInDB
    <3>2. \A j \in Key \ {k} : Del(p, k, t2).val[j] = p.val[j] /\ Del(p, k, t2).exp[j] = p.exp[j]
      BY <1>1, EraseBothSound, PruneSound DEF Del, PruneExpiredInDB
    <3>3. QED
      BY <3>1, <3>2, Zenon
  <2>4. n \in Value
    BY ContainerValue, Zenon
  <2>5. c = Set(e, k, n)
    <3>1. c = Find(Set(e, k, n), k, t3)
      BY <1>6, Zenon DEF FindOrCreate
    <3> HIDE DEF c, e, n
    <3>2. QED
      BY <2>1, <2>4, <3>1, CreatedIsFound
  <2>6. c.val[k] = n /\ v = <<ty, {m}>>
    <3>1. c.val[k] = n
      <4> HIDE DEF c, e, n
      <4>1. QED
        BY <2>1, <2>4, <2>5, SetSound
    <3>2. Content(n) = {}
      BY Zenon DEF Content
    <3>3. QED
      BY <3>1, <3>2, Zenon
  <2>7. /\ x.val[k] = v /\ x.exp[k] = NoExpiry
        /\ \A j \in Key \ {k} : x.val[j] = d.val[j] /\ x.exp[j] = d.exp[j]
    <3> HIDE DEF e, n, v, c
    <3>1. QED
      BY <1>2, <2>1, <2>2, <2>3, <2>5, SMTT(30) DEF Set, Sound, DatabaseType
  <2>8. ~IsExpiredInDB(x, k, t1)
    BY <2>7, Zenon DEF IsExpiredInDB
  <2>9. SameAt(x, Promise!PutFresh(w, k, v, NoExpiry), t1)
    <3> HIDE DEF x, v
    <3>1. QED
      BY <1>4, <2>7, <2>8, FreshSame DEF Sound, DatabaseType
  <2>10. Promise!Included(w, k, ty, m) = Promise!PutFresh(w, k, <<ty, {m}>>, NoExpiry)
    BY <1>1, <1>6, Zenon DEF Promise!Included, Promise!Holds, Promise!Has, IsType,
                      Promise!TypeOfValue, TypeOfValue, Promise!NoExpiry, NoExpiry
  <2>11. QED
    BY <1>4, <2>6, <2>9, <2>10
<1>7. QED
  BY <1>5, <1>6, Zenon

\* Removing elements, and the key with the last one.
LEMMA ExcludeSame ==
  ASSUME NEW d, Sound(d), NEW k \in Key, NEW ty \in ContainerType, NEW M,
         NEW t1, NEW t2, IsType(Find(d, k, t1).val[k], ty)
  PROVE  LET p    == Find(d, k, t1)
             rest == Content(p.val[k]) \ M
             s    == Set(p, k, <<ty, rest>>)
             x    == IF rest = {} THEN Del(s, k, t2) ELSE s
         IN  Sound(x) /\ SameAt(x, Promise!Excluded(PurgeExpired(d, t1), k, ty, M), t1)
<1> DEFINE p == Find(d, k, t1)
           w == PurgeExpired(d, t1)
           rest == Content(p.val[k]) \ M
           v == <<ty, rest>>
           s == Set(p, k, v)
<1>1. Sound(p) /\ p.val[k] = w.val[k]
  BY PruneSound, FoundSame, Zenon DEF Find, Found
<1>2. v \in Value
  <2>1. p.val[k] \in Value /\ TypeOfValue(p.val[k]) = ty
    BY <1>1, Zenon DEF IsType, Sound, DatabaseType
  <2>2. QED
    BY <2>1, ContentOfContainer, ContainerValue, Zenon
<1>3. Sound(s)
  BY <1>1, <1>2, SetSound, Zenon
<1>4. CASE rest = {}
  <2> DEFINE x == Del(s, k, t2)
  <2>1. Sound(x) /\ x.val[k] = Absent
    BY <1>3, DelSound, Zenon
  <2>2. x.exp[k] = NoExpiry
    BY <2>1, Zenon DEF Sound, Coherent
  <2>3. \A j \in Key \ {k} : x.val[j] = d.val[j] /\ x.exp[j] = d.exp[j]
    <3>1. \A j \in Key \ {k} : p.val[j] = d.val[j] /\ p.exp[j] = d.exp[j]
      BY EraseBothSound DEF Find, PruneExpiredInDB
    <3>2. \A j \in Key \ {k} : s.val[j] = p.val[j] /\ s.exp[j] = p.exp[j]
      BY <1>1, Zenon DEF Set, Sound, DatabaseType
    <3> HIDE DEF s, p
    <3>3. \A j \in Key \ {k} : x.val[j] = s.val[j] /\ x.exp[j] = s.exp[j]
      BY <1>3, EraseBothSound, PruneSound DEF Del, PruneExpiredInDB
    <3>4. QED
      BY <3>1, <3>2, <3>3
  <2>4. ~IsExpiredInDB(x, k, t1)
    BY <2>2, Zenon DEF IsExpiredInDB
  <2>5. SameAt(x, Promise!PutFresh(w, k, Absent, NoExpiry), t1)
    <3> HIDE DEF x
    <3>1. QED
      BY <2>1, <2>2, <2>3, <2>4, FreshSame DEF Sound, DatabaseType
  <2>6. Promise!Excluded(w, k, ty, M) = Promise!PutFresh(w, k, Absent, NoExpiry)
    BY <1>1, <1>4, Zenon DEF Promise!Excluded, Promise!Without, Promise!NoExpiry, NoExpiry,
                      Promise!Content, Content
  <2>7. QED
    BY <1>4, <2>1, <2>5, <2>6, SMTT(30)
<1>5. CASE rest # {}
  <2>1. Promise!Excluded(w, k, ty, M) = Promise!Put(w, k, v)
    BY <1>1, <1>5, Zenon DEF Promise!Excluded, Promise!Content, Content
  <2>2. SameAt(s, Promise!Put(w, k, v), t1)
    <3> HIDE DEF v
    <3>1. QED
      BY <1>2, SetSame, Zenon
  <2>3. QED
    BY <1>3, <1>5, <2>1, <2>2, SMTT(30)
<1>6. QED
  BY <1>4, <1>5, Zenon

-----------------------------------------------------------------------------
(* Deadlines stay numbers, and lookups stay invisible.                      *)

\* What is put into a store keeps its deadlines numbers.
LEMMA PutInt ==
  ASSUME NEW d, Sound(d), NEW t, NEW k \in Key, NEW v, NEW e \in Int, NEW j \in Key
  PROVE  LET w == PurgeExpired(d, t)
         IN  /\ w.exp[j] \in Int
             /\ Promise!PutFresh(w, k, v, e).exp[j] \in Int
             /\ Promise!Put(w, k, v).exp[j] \in Int
<1>1. Sound(PurgeExpired(d, t))
  BY EraseBothSound, Zenon DEF PurgeExpired
<1>2. QED
  BY <1>1, SoundInt, Zenon DEF Promise!PutFresh, Promise!Put, Sound, DatabaseType

\* So does what SET may leave.
LEMMA StoreInt ==
  ASSUME NEW d, Sound(d), NEW t, NEW k \in Key, NEW v, NEW e \in Int, NEW j \in Key,
         NEW m \in Promise!Store(PurgeExpired(d, t), k, v, e)
  PROVE  m.exp[j] \in Int
<1> DEFINE w == PurgeExpired(d, t)
<1>1. Promise!NoExpiry \in Int
  BY DEF Promise!NoExpiry
<1>2. ASSUME NEW u, NEW f \in Int PROVE Promise!PutFresh(w, k, u, f).exp[j] \in Int
  BY PutInt, Zenon
<1>3. w.exp[j] \in Int
  BY PutInt, Zenon
<1> HIDE DEF w
<1>4. QED
  BY <1>1, <1>2, <1>3, SMTT(30) DEF Promise!Store, Promise!Without, w

\* So does a container that gains or loses elements.
LEMMA ChangedInt ==
  ASSUME NEW d, Sound(d), NEW t, NEW k \in Key, NEW ty, NEW x, NEW X, NEW j \in Key
  PROVE  /\ Promise!Included(PurgeExpired(d, t), k, ty, x).exp[j] \in Int
         /\ Promise!Excluded(PurgeExpired(d, t), k, ty, X).exp[j] \in Int
<1> DEFINE w == PurgeExpired(d, t)
<1>1. Promise!NoExpiry \in Int
  BY DEF Promise!NoExpiry
<1>2. ASSUME NEW v
      PROVE  /\ Promise!PutFresh(w, k, v, Promise!NoExpiry).exp[j] \in Int
             /\ Promise!Put(w, k, v).exp[j] \in Int
  BY <1>1, PutInt, Zenon
<1> HIDE DEF w
<1>3. Promise!Included(w, k, ty, x).exp[j] \in Int
  BY <1>2, Zenon DEF Promise!Included
<1>4. Promise!Excluded(w, k, ty, X).exp[j] \in Int
  BY <1>2, Zenon DEF Promise!Excluded, Promise!Without
<1>5. QED
  BY <1>3, <1>4, Zenon DEF w

\* Lookups never change what is seen, now or later.
LEMMA FindInvisible ==
  ASSUME NEW d, Sound(d), NEW k \in Key, NEW t \in Nat, NEW u \in Nat, t <= u
  PROVE  PurgeExpired(Find(d, k, t), u) = PurgeExpired(d, u)
<1>1. Sound(Find(d, k, t)) /\ PurgeExpired(Find(d, k, t), t) = PurgeExpired(d, t)
  BY PruneSound, PruneInvisible, Zenon DEF Find
<1>2. QED
  BY <1>1, SoundInt, PurgeTwice



-----------------------------------------------------------------------------
(* The steps.                                                               *)

\* What connection c sees at a later instant t.
LEMMA MineAt ==
  ASSUME Inv, NEW c \in Conn, NEW t \in Later(now)
  PROVE  /\ Promise!At(Promise!Mine(c), t) = PurgeExpired(dbs[GetDB(c)], t)
         /\ Promise!Mine(c) = PurgeExpired(dbs[GetDB(c)], now)
<1>1. GetDB(c) \in DB /\ GetDB(c) = conn_db[c] /\ Sound(dbs[GetDB(c)])
  BY MineSound, Zenon
<1>2. Promise!Mine(c) = PurgeExpired(dbs[GetDB(c)], now)
  BY <1>1, Zenon DEF Promise!Mine
<1>3. now \in Nat /\ t \in Nat /\ now <= t
  BY InstantBound, Zenon DEF Inv, TypeOK, Later
<1>4. QED
  BY <1>1, <1>2, <1>3, AtIsPurge, SoundInt, PurgeTwice

\* A handler that leaves what the store should hold is an abstract answer.
LEMMA AnswerFrom ==
  ASSUME Inv, NEW c \in Conn, NEW d, NEW t \in Later(now), NEW r, NEW m,
         Finish(c, d, t, r), SameAt(d, m, t)
  PROVE  Promise!Answer(c, m, t, r)
<1>1. GetDB(c) \in DB /\ GetDB(c) = conn_db[c]
  BY MineSound, Zenon
<1>2. dbs' = [dbs EXCEPT ![GetDB(c)] = d] /\ now' = t /\ answer' = r /\ UNCHANGED conn_db
  BY Zenon DEF Finish, Done
<1>3. now \in Nat /\ t \in Nat /\ now <= t
  BY InstantBound, Zenon DEF Inv, TypeOK, Later
<1>4. ASSUME NEW i \in DB
      PROVE  PurgeExpired(dbs'[i], t)
               = Promise!At(IF i = conn_db[c] THEN m ELSE PurgeExpired(dbs[i], now), t)
  <2>1. CASE i = conn_db[c]
    BY <1>1, <1>2, <2>1, Zenon DEF Inv, TypeOK, SameAt
  <2>2. CASE i # conn_db[c]
    <3>1. dbs'[i] = dbs[i] /\ Sound(dbs[i])
      BY <1>1, <1>2, <2>2, Zenon DEF Inv, TypeOK, NoOrphanDeadline, Sound
    <3>2. QED
      BY <1>3, <2>2, <3>1, AtIsPurge, SoundInt, PurgeTwice
  <2>3. QED
    BY <2>1, <2>2, Zenon
<1>5. QED
  BY <1>2, <1>4, Zenon DEF Promise!Answer

\* A plain reading or pruning handler: the store is as it was.
LEMMA SameMine ==
  ASSUME Inv, NEW c \in Conn, NEW d, NEW t \in Later(now),
         PurgeExpired(d, t) = PurgeExpired(dbs[GetDB(c)], t)
  PROVE  SameAt(d, Promise!Mine(c), t) /\ SameAt(d, Promise!At(Promise!Mine(c), t), t)
<1>1. Promise!At(Promise!Mine(c), t) = PurgeExpired(dbs[GetDB(c)], t)
  BY MineAt, Zenon
<1>2. Sound(dbs[GetDB(c)]) /\ t \in Nat
  BY MineSound, InstantBound, Zenon DEF Later
<1>3. PurgeExpired(PurgeExpired(dbs[GetDB(c)], t), t) = PurgeExpired(dbs[GetDB(c)], t)
  BY <1>2, SoundInt, PurgeTwice
<1>4. QED
  BY <1>1, <1>3, AtIsPurge, Zenon DEF SameAt

\* Names that mean the same on both sides.
LEMMA SameNames ==
  /\ \A t : Promise!Later(t) = Later(t)
  /\ \A s : Promise!Seconds(s) = ToMs(s)
  /\ Promise!Ttls = SetTtls
  /\ \A b : Promise!Number(b) = Count(b)
  BY Zenon DEF Promise!Later, Later, Instant, Promise!Seconds, ToMs, Promise!Ttls, SetTtls,
         Promise!Number, Count

\* TTL arguments are positive.
LEMMA TtlPositive ==
  /\ \A ttl \in SetTtls : ttl \in Nat \ {0}
  /\ \A s \in ExArgs : s > 0 => ToMs(s) \in Nat \ {0}
<1>1. Int64Max \in Nat /\ Int64Max > 0
  BY Int64MaxAssumption, MaxNowAssumption
<1>2. \A s \in Nat \ {0} : s * MsPerSec \in Nat \ {0}
  BY MsPerSecAssumption
<1>3. \A s \in ExArgs : s > 0 => ToMs(s) \in Nat \ {0}
  BY <1>1, <1>2, ArgsAssumption DEF ToMs
<1>4. QED
  BY <1>1, <1>3, ArgsAssumption DEF SetTtls

\* Every string command is an abstract command.
LEMMA StringCommands ==
  ASSUME Inv, NEW c \in Conn
  PROVE  /\ \A k \in Key, s \in Str : SetPlain(c, k, s) => Promise!ASet(c, k, s)
         /\ \A k \in Key, s \in Str : Append(c, k, s) => Promise!AAppend(c, k, s)
         /\ \A k \in Key, s \in Str, ttl \in SetTtls :
              SetEx(c, k, s, ttl) => Promise!ASetEx(c, k, s, ttl)
         /\ \A k \in Key, s \in NumStr : Incr(c, k, s) => Promise!AIncr(c, k, s)
<1> DEFINE mine == dbs[GetDB(c)]
<1>0. Sound(mine) /\ now \in Instant
  BY MineSound, Zenon DEF Inv, TypeOK
<1>00. \A t \in Later(now) : t \in Nat /\ t < Int64Max /\ t \in Promise!Later(now)
  BY InstantBound, SameNames, Zenon DEF Later
<1>1. ASSUME NEW k \in Key, NEW s \in Str, SetPlain(c, k, s) PROVE Promise!ASet(c, k, s)
  <2>1. PICK t \in Later(now) :
          Finish(c, Persist(Set(mine, k, <<"string", s>>), k, t), t, <<"OK">>)
    BY <1>1, Zenon DEF SetPlain
  <2>2. PICK m \in Promise!Store(PurgeExpired(mine, t), k, <<"string", s>>, NoExpiry) :
          SameAt(Persist(Set(mine, k, <<"string", s>>), k, t), m, t)
    BY <1>0, <1>00, StringValue, StorePersist
  <2>3. Promise!Answer(c, m, t, <<"OK">>)
    BY <2>1, <2>2, AnswerFrom
  <2>4. m \in Promise!Store(Promise!At(Promise!Mine(c), t), k, <<"string", s>>, Promise!NoExpiry)
    BY <2>2, MineAt, Zenon DEF Promise!NoExpiry, NoExpiry
  <2>5. QED
    BY <1>1, <1>00, <2>3, <2>4 DEF SetPlain, Promise!ASet
<1>2. ASSUME NEW k \in Key, NEW s \in Str, Append(c, k, s) PROVE Promise!AAppend(c, k, s)
  <2>1. PICK t \in Later(now) :
          Finish(c, Set(Find(mine, k, t), k, <<"string", s>>), t, <<"OK">>)
    BY <1>2, Zenon DEF Append
  <2>2. Promise!Answer(c, Promise!Put(PurgeExpired(mine, t), k, <<"string", s>>), t, <<"OK">>)
    BY <1>0, <2>1, StringValue, SetSame, AnswerFrom
  <2>3. QED
    BY <1>2, <1>00, <2>2, MineAt, Zenon DEF Append, Promise!AAppend
<1>3. ASSUME NEW k \in Key, NEW s \in Str, NEW ttl \in SetTtls, SetEx(c, k, s, ttl)
      PROVE  Promise!ASetEx(c, k, s, ttl)
  <2>1. PICK t \in Later(now) :
          Finish(c, Expire(Set(mine, k, <<"string", s>>), k, ttl, t), t, <<"OK">>)
    BY <1>3, Zenon DEF SetEx
  <2>2. ttl \in Nat \ {0}
    BY TtlPositive, Zenon
  <2>3. PICK m \in Promise!Store(PurgeExpired(mine, t), k, <<"string", s>>, DeadlineAfter(t, ttl)) :
          SameAt(Expire(Set(mine, k, <<"string", s>>), k, ttl, t), m, t)
    BY <1>0, <1>00, <2>2, StringValue, StoreExpire, Zenon
  <2>4. Promise!Answer(c, m, t, <<"OK">>)
    BY <2>1, <2>3, AnswerFrom, Zenon
  <2>5. m \in Promise!Store(Promise!At(Promise!Mine(c), t), k, <<"string", s>>, Promise!Due(t, ttl))
    BY <1>00, <2>2, <2>3, MineAt, DueSame, Zenon
  <2>6. QED
    BY <1>3, <1>00, <2>4, <2>5, Zenon DEF SetEx, Promise!ASetEx
<1>4. ASSUME NEW k \in Key, NEW s \in NumStr, Incr(c, k, s) PROVE Promise!AIncr(c, k, s)
  <2> DEFINE d(t) == Find(mine, k, t)
             ok(v) == v # Absent => TypeOfValue(v) = "string" /\ Content(v) \in NumStr
  <2>1. PICK t \in Later(now) :
          Finish(c, IF ok(d(t).val[k]) THEN Set(d(t), k, <<"string", s>>) ELSE d(t), t,
                 IF ok(d(t).val[k]) THEN <<"OK">> ELSE <<"ERR">>)
    BY <1>4, Zenon DEF Incr
  <2> DEFINE w == PurgeExpired(mine, t)
  <2>2. d(t).val[k] = w.val[k]
    BY <1>0, FoundSame, Zenon DEF Found
  <2>3. s \in Str /\ <<"string", s>> \in Value
    BY NumStrAssumption, StringValue, Zenon
  <2>4. SameAt(Set(d(t), k, <<"string", s>>), Promise!Put(w, k, <<"string", s>>), t)
    BY <1>0, <2>3, SetSame, Zenon
  <2>5. SameAt(d(t), w, t)
    BY <1>0, PruneInvisible, SameMine, MineAt DEF Find
  <2>6. Promise!Answer(c, IF ok(w.val[k]) THEN Promise!Put(w, k, <<"string", s>>) ELSE w, t,
                       IF ok(w.val[k]) THEN <<"OK">> ELSE <<"ERR">>)
    <3> HIDE DEF ok, w, d
    <3>1. CASE ok(w.val[k])
      BY <2>1, <2>2, <2>4, <3>1, AnswerFrom, SMTT(30)
    <3>2. CASE ~ok(w.val[k])
      BY <2>1, <2>2, <2>5, <3>2, AnswerFrom, Zenon
    <3>3. QED
      BY <3>1, <3>2, Zenon
  <2>7. ok(w.val[k]) <=> (Promise!Has(w, k) =>
                            Promise!Holds(w, k, "string") /\ Promise!Content(w.val[k]) \in NumStr)
    BY Zenon DEF Promise!Has, Promise!Holds, Promise!Content, Content, Promise!TypeOfValue, TypeOfValue
  <2>8. w = Promise!At(Promise!Mine(c), t)
    BY MineAt, Zenon
  <2>9. request' = [op |-> "INCR", conn |-> c, key |-> k, val |-> s]
    BY <1>4, Zenon DEF Incr
  <2> HIDE DEF w, ok
  <2>10. QED
    BY <1>00, <2>6, <2>7, <2>8, <2>9, Zenon DEF Promise!AIncr
<1>5. QED
  BY <1>1, <1>2, <1>3, <1>4

\* Every command on two keys is an abstract command.
LEMMA TwoKeyCommands ==
  ASSUME Inv, NEW c \in Conn, NEW k1 \in Key, NEW k2 \in Key
  PROVE  /\ \A s1, s2 \in Str : MSet(c, k1, s1, k2, s2) => Promise!AMSet(c, k1, s1, k2, s2)
         /\ DelKeys(c, k1, k2) => Promise!ADel(c, k1, k2)
         /\ Exists(c, k1, k2) => Promise!AExists(c, k1, k2)
         /\ MGet(c, k1, k2) => Promise!AMGet(c, k1, k2)
<1> DEFINE mine == dbs[GetDB(c)]
<1>0. Sound(mine) /\ now \in Instant
  BY MineSound, Zenon DEF Inv, TypeOK
<1>00. \A t1 \in Later(now) : \A t2 \in Later(t1) :
         /\ t1 \in Nat /\ t2 \in Nat /\ t1 <= t2 /\ t2 \in Later(now)
         /\ t1 \in Promise!Later(now) /\ t2 \in Promise!Later(t1)
  BY <1>0, InstantBound, SameNames DEF Later, Instant
<1>1. ASSUME NEW s1 \in Str, NEW s2 \in Str, MSet(c, k1, s1, k2, s2)
      PROVE  Promise!AMSet(c, k1, s1, k2, s2)
  <2> DEFINE d1(t1) == Persist(Set(mine, k1, <<"string", s1>>), k1, t1)
             d2(t1, t2) == Persist(Set(d1(t1), k2, <<"string", s2>>), k2, t2)
  <2>1. PICK t1, t2 : t1 \in Later(now) /\ t2 \in Later(t1) /\ Finish(c, d2(t1, t2), t2, <<"OK">>)
    BY <1>1, Zenon DEF MSet
  <2>2. Sound(d1(t1))
    BY <1>0, StringValue, SetSound, PersistSound
  <2>3. PICK m1 \in Promise!Store(PurgeExpired(mine, t1), k1, <<"string", s1>>, NoExpiry) :
          SameAt(d1(t1), m1, t1)
    BY <1>0, <1>00, <2>1, StringValue, StorePersist, SMTT(30)
  <2>4. \A j \in Key : m1.exp[j] \in Int
    BY <1>0, <2>3, StoreInt, SMTT(30) DEF NoExpiry
  <2>5. Promise!At(m1, t2) = PurgeExpired(d1(t1), t2)
    BY <1>00, <2>1, <2>2, <2>3, <2>4, SameLater, SMTT(30) DEF SameAt
  <2>6. PICK m2 \in Promise!Store(PurgeExpired(d1(t1), t2), k2, <<"string", s2>>, NoExpiry) :
          SameAt(d2(t1, t2), m2, t2)
    <3> HIDE DEF d1
    <3>1. QED
      BY <1>00, <2>1, <2>2, StringValue, StorePersist
  <2>7. Promise!Answer(c, m2, t2, <<"OK">>)
    <3> HIDE DEF d2
    <3>1. QED
      BY <1>00, <2>1, <2>6, AnswerFrom, Zenon
  <2>8. m1 \in Promise!Store(Promise!At(Promise!Mine(c), t1), k1, <<"string", s1>>, Promise!NoExpiry)
    BY <2>1, <2>3, MineAt, Zenon DEF Promise!NoExpiry, NoExpiry
  <2>9. m2 \in Promise!Store(Promise!At(m1, t2), k2, <<"string", s2>>, Promise!NoExpiry)
    BY <2>5, <2>6, Zenon DEF Promise!NoExpiry, NoExpiry
  <2>10. request' = [op |-> "MSET", conn |-> c, keys |-> <<k1, k2>>]
    BY <1>1, Zenon DEF MSet
  <2> HIDE DEF d1, d2
  <2>11. QED
    BY <1>00, <2>1, <2>7, <2>8, <2>9, <2>10, ZenonT(30) DEF Promise!AMSet
<1>2. ASSUME DelKeys(c, k1, k2) PROVE Promise!ADel(c, k1, k2)
  <2> DEFINE d1(t1) == Del(mine, k1, t1)
  <2>1. PICK t1, t2 :
          /\ t1 \in Later(now) /\ t2 \in Later(t1)
          /\ Finish(c, Del(d1(t1), k2, t2), t2,
                    Int64(Count(Found(mine, k1, t1) # Absent) + Count(Found(d1(t1), k2, t2) # Absent)))
    BY <1>2, Zenon DEF DelKeys
  <2> DEFINE m1 == Promise!At(Promise!Mine(c), t1)
             m2 == Promise!At(Promise!Without(m1, k1), t2)
  <2>2. Sound(d1(t1)) /\ m1 = PurgeExpired(mine, t1)
    BY <1>0, <2>1, DelSound, MineAt, Zenon
  <2>3. SameAt(d1(t1), Promise!Without(m1, k1), t1)
    BY <1>0, <2>2, DelSame, Zenon
  <2>4. \A j \in Key : Promise!Without(m1, k1).exp[j] \in Int
    BY <1>0, <2>2, PutInt, SMTT(30) DEF Promise!Without, Promise!NoExpiry
  <2>5. m2 = PurgeExpired(d1(t1), t2)
    <3> HIDE DEF d1, m1
    <3>1. QED
      BY <1>00, <2>1, <2>2, <2>3, <2>4, SameLater DEF SameAt
  <2>6. SameAt(Del(d1(t1), k2, t2), Promise!Without(m2, k2), t2)
    <3> HIDE DEF d1, m2
    <3>1. QED
      BY <2>2, <2>5, DelSame, Zenon
  <2>7. Found(mine, k1, t1) = m1.val[k1] /\ Found(d1(t1), k2, t2) = m2.val[k2]
    <3> HIDE DEF d1, m1, m2
    <3>1. QED
      BY <1>0, <2>2, <2>5, FoundSame, Zenon
  <2>8. Promise!Answer(c, Promise!Without(m2, k2), t2,
            <<"int", Promise!Number(Promise!Has(m1, k1)) + Promise!Number(Promise!Has(m2, k2))>>)
    <3> HIDE DEF d1, m1, m2
    <3>1. QED
      BY <1>00, <2>1, <2>6, <2>7, AnswerFrom, SameNames DEF Int64, Promise!Has
  <2>9. request' = [op |-> "DEL", conn |-> c, keys |-> <<k1, k2>>]
    BY <1>2, Zenon DEF DelKeys
  <2>10. QED
    BY <1>00, <2>1, <2>8, <2>9, Zenon DEF Promise!ADel
<1>3. ASSUME NEW t1 \in Later(now), NEW t2 \in Later(t1)
      PROVE  LET d1 == Find(mine, k1, t1) IN
             /\ SameAt(Find(d1, k2, t2), Promise!Mine(c), t2)
             /\ Found(mine, k1, t1) = Promise!At(Promise!Mine(c), t1).val[k1]
             /\ Found(d1, k2, t2) = Promise!At(Promise!Mine(c), t2).val[k2]
  <2> DEFINE d1 == Find(mine, k1, t1)
  <2>1. Sound(d1)
    BY <1>0, PruneSound, Zenon DEF Find
  <2>2. PurgeExpired(d1, t2) = PurgeExpired(mine, t2)
    BY <1>0, <1>00, FindInvisible, Zenon
  <2>3. PurgeExpired(Find(d1, k2, t2), t2) = PurgeExpired(d1, t2)
    BY <1>00, <2>1, FindInvisible
  <2>4. SameAt(Find(d1, k2, t2), Promise!Mine(c), t2)
    BY <1>00, <2>2, <2>3, SameMine, Zenon
  <2>5. Found(mine, k1, t1) = Promise!At(Promise!Mine(c), t1).val[k1]
    BY <1>0, FoundSame, MineAt
  <2>6. Found(d1, k2, t2) = Promise!At(Promise!Mine(c), t2).val[k2]
    <3>1. Found(d1, k2, t2) = PurgeExpired(d1, t2).val[k2]
      BY <2>1, FoundSame, Zenon
    <3>2. QED
      BY <1>00, <2>2, <3>1, MineAt, Zenon
  <2>7. QED
    BY <2>4, <2>5, <2>6, Zenon
<1>4. ASSUME Exists(c, k1, k2) PROVE Promise!AExists(c, k1, k2)
  <2>1. PICK t1, t2 :
          /\ t1 \in Later(now) /\ t2 \in Later(t1)
          /\ Finish(c, Find(Find(mine, k1, t1), k2, t2), t2,
                    Int64(Count(Found(mine, k1, t1) # Absent)
                            + Count(Found(Find(mine, k1, t1), k2, t2) # Absent)))
    BY <1>4, Zenon DEF Exists
  <2>2. Promise!Answer(c, Promise!Mine(c), t2,
            <<"int", Promise!Number(Promise!Has(Promise!At(Promise!Mine(c), t1), k1))
                       + Promise!Number(Promise!Has(Promise!At(Promise!Mine(c), t2), k2))>>)
    BY <1>00, <1>3, <2>1, AnswerFrom, SameNames, Zenon DEF Int64, Promise!Has
  <2>3. QED
    BY <1>4, <1>00, <2>1, <2>2 DEF Exists, Promise!AExists
<1>5. ASSUME MGet(c, k1, k2) PROVE Promise!AMGet(c, k1, k2)
  <2>1. PICK t1, t2 :
          /\ t1 \in Later(now) /\ t2 \in Later(t1)
          /\ Finish(c, Find(Find(mine, k1, t1), k2, t2), t2,
                    <<"values", Found(mine, k1, t1), Found(Find(mine, k1, t1), k2, t2)>>)
    BY <1>5, Zenon DEF MGet
  <2>2. Promise!Answer(c, Promise!Mine(c), t2,
            <<"values", Promise!At(Promise!Mine(c), t1).val[k1], Promise!At(Promise!Mine(c), t2).val[k2]>>)
    BY <1>00, <1>3, <2>1, AnswerFrom, Zenon
  <2>3. QED
    BY <1>5, <1>00, <2>1, <2>2, Zenon DEF MGet, Promise!AMGet
<1>6. QED
  BY <1>1, <1>2, <1>4, <1>5, Zenon

\* GET, TTL, PERSIST and EXPIRE are abstract commands.
LEMMA TtlCommands ==
  ASSUME Inv, NEW c \in Conn, NEW k \in Key
  PROVE  /\ Get(c, k) => Promise!AGet(c, k)
         /\ TTLOf(c, k) => Promise!ATTL(c, k)
         /\ PersistKey(c, k) => Promise!APersist(c, k)
         /\ \A secs \in ExArgs : ExpireKey(c, k, secs) => Promise!AExpire(c, k, secs)
<1> DEFINE mine == dbs[GetDB(c)]
           m(t) == Promise!At(Promise!Mine(c), t)
<1>0. Sound(mine)
  BY MineSound, Zenon
<1>1. ASSUME NEW t \in Later(now)
      PROVE  /\ t \in Nat /\ t < Int64Max /\ t \in Promise!Later(now)
             /\ m(t) = PurgeExpired(mine, t)
             /\ SameAt(Find(mine, k, t), Promise!Mine(c), t) /\ SameAt(Find(mine, k, t), m(t), t)
             /\ Found(mine, k, t) = m(t).val[k]
             /\ Find(mine, k, t).exp[k] = m(t).exp[k]
  <2>1. t \in Nat /\ t < Int64Max /\ t \in Promise!Later(now)
    BY InstantBound, SameNames, Zenon DEF Later
  <2>2. m(t) = PurgeExpired(mine, t)
    BY MineAt, Zenon
  <2>3. SameAt(Find(mine, k, t), Promise!Mine(c), t) /\ SameAt(Find(mine, k, t), m(t), t)
    BY <1>0, <2>1, FindInvisible, SameMine
  <2>4. Found(mine, k, t) = m(t).val[k]
    BY <1>0, <2>2, FoundSame, Zenon
  <2>5. Find(mine, k, t).exp[k] = m(t).exp[k]
    <3>1. PurgeExpired(mine, t).exp[k] = IF IsExpiredInDB(mine, k, t) THEN NoExpiry ELSE mine.exp[k]
      BY PurgedAt
    <3>2. Find(mine, k, t).exp[k] = IF IsExpiredInDB(mine, k, t) THEN NoExpiry ELSE mine.exp[k]
      BY Zenon DEF Find, PruneExpiredInDB, EraseBoth
    <3>3. QED
      BY <2>2, <3>1, <3>2, Zenon
  <2>6. QED
    BY <2>1, <2>2, <2>3, <2>4, <2>5
<1> HIDE DEF m
<1>2. ASSUME Get(c, k) PROVE Promise!AGet(c, k)
  <2>1. PICK t \in Later(now) : Finish(c, Find(mine, k, t), t, <<"value", Found(mine, k, t)>>)
    BY <1>2, Zenon DEF Get
  <2>2. Promise!Answer(c, Promise!Mine(c), t, <<"value", m(t).val[k]>>)
    BY <1>1, <2>1, AnswerFrom, Zenon
  <2>3. QED
    BY <1>1, <1>2, <2>2, Zenon DEF Get, Promise!AGet, m
<1>3. ASSUME TTLOf(c, k) PROVE Promise!ATTL(c, k)
  <2>1. PICK t \in Later(now) : Finish(c, Find(mine, k, t), t, Int64(TTL(mine, k, t)))
    BY <1>3, Zenon DEF TTLOf
  <2>2. TTL(mine, k, t) = CASE ~Promise!Has(m(t), k) -> -2
                            [] Promise!Has(m(t), k) /\ m(t).exp[k] = Promise!NoExpiry -> -1
                            [] OTHER -> (m(t).exp[k] - t) \div MsPerSec
    BY <1>1, Zenon DEF TTL, Promise!Has, Promise!NoExpiry, NoExpiry, Found, Find
  <2>3. SameAt(Find(mine, k, t), m(t), t)
    BY <1>1, Zenon
  <2>4. Promise!Answer(c, m(t), t, Int64(TTL(mine, k, t)))
    BY <2>1, <2>3, AnswerFrom, Zenon
  <2>5. request' = [op |-> "TTL", conn |-> c, key |-> k]
    BY <1>3, Zenon DEF TTLOf
  <2>6. QED
    BY <1>1, <2>2, <2>4, <2>5, Zenon DEF Promise!ATTL, m, Int64
<1>4. ASSUME PersistKey(c, k) PROVE Promise!APersist(c, k)
  <2>1. PICK t \in Later(now) :
          Finish(c, Persist(mine, k, t), t,
                 Int64(Count(Found(mine, k, t) # Absent /\ Find(mine, k, t).exp[k] # NoExpiry)))
    BY <1>4, Zenon DEF PersistKey
  <2>2. SameAt(Persist(mine, k, t), Promise!PutFresh(m(t), k, m(t).val[k], NoExpiry), t)
    BY <1>0, <1>1, PersistSame, SMTT(30)
  <2>3. (Found(mine, k, t) # Absent /\ Find(mine, k, t).exp[k] # NoExpiry)
           <=> m(t).exp[k] # Promise!NoExpiry
    <3>1. Sound(Find(mine, k, t))
      BY <1>0, PruneSound, Zenon DEF Find
    <3>2. Find(mine, k, t).exp[k] # NoExpiry => Found(mine, k, t) # Absent
      BY <3>1, Zenon DEF Sound, Coherent, Found
    <3>3. QED
      BY <1>1, <3>2, Zenon DEF Promise!NoExpiry, NoExpiry
  <2>4. Count(Found(mine, k, t) # Absent /\ Find(mine, k, t).exp[k] # NoExpiry)
           = Promise!Number(m(t).exp[k] # Promise!NoExpiry)
    BY <2>3, Zenon DEF Count, Promise!Number
  <2>5. Promise!Answer(c, Promise!PutFresh(m(t), k, m(t).val[k], Promise!NoExpiry), t,
                       <<"int", Promise!Number(m(t).exp[k] # Promise!NoExpiry)>>)
    BY <2>1, <2>2, <2>4, AnswerFrom, ZenonT(30) DEF Int64, Promise!NoExpiry, NoExpiry
  <2>6. request' = [op |-> "PERSIST", conn |-> c, key |-> k]
    BY <1>4, Zenon DEF PersistKey
  <2>7. QED
    BY <1>1, <2>5, <2>6, ZenonT(30) DEF Promise!APersist, m
<1>5. ASSUME NEW secs \in ExArgs, ExpireKey(c, k, secs) PROVE Promise!AExpire(c, k, secs)
  <2> DEFINE ttl == IF secs > 0 THEN ToMs(secs) ELSE 0
  <2>1. PICK t \in Later(now) :
          Finish(c, Expire(mine, k, ttl, t), t, Int64(Count(Found(mine, k, t) # Absent)))
    BY <1>5, Zenon DEF ExpireKey
  <2>2. secs \in Int /\ ttl \in Nat /\ (secs > 0 => ttl \in Nat \ {0}) /\ (secs <= 0 <=> ttl <= 0)
    BY TtlPositive, ArgsAssumption, SMTT(30)
  <2> DEFINE x == Expire(mine, k, ttl, t)
             r == <<"int", Promise!Number(Promise!Has(m(t), k))>>
             y == CASE ~Promise!Has(m(t), k) -> m(t)
                    [] Promise!Has(m(t), k) /\ secs <= 0 -> Promise!Without(m(t), k)
                    [] OTHER -> Promise!PutFresh(m(t), k, m(t).val[k],
                                                 Promise!Due(t, Promise!Seconds(secs)))
  <2>3. Int64(Count(Found(mine, k, t) # Absent)) = r
    BY <1>1, SameNames, Zenon DEF Int64, Promise!Has
  <2>4. SameAt(x, CASE m(t).val[k] = Absent -> m(t)
                    [] m(t).val[k] # Absent /\ ttl <= 0 -> Promise!Without(m(t), k)
                    [] OTHER -> Promise!PutFresh(m(t), k, m(t).val[k], DeadlineAfter(t, ttl)), t)
    <3> HIDE DEF ttl
    <3>1. QED
      BY <1>0, <1>1, <2>2, ExpireSame
  <2>5. SameAt(x, y, t)
    <3> HIDE DEF x
    <3>1. CASE m(t).val[k] = Absent
      BY <2>4, <3>1, Zenon DEF Promise!Has
    <3>2. CASE m(t).val[k] # Absent /\ secs <= 0
      <4> HIDE DEF ttl
      <4>1. QED
        BY <2>2, <2>4, <3>2 DEF Promise!Has
    <3>3. CASE m(t).val[k] # Absent /\ ~(secs <= 0)
      <4>1. secs > 0 /\ ttl = ToMs(secs) /\ ~(ttl <= 0)
        BY <2>2, <3>3, SMTT(30)
      <4>2. DeadlineAfter(t, ttl) = Promise!Due(t, Promise!Seconds(secs))
        <5> HIDE DEF ttl
        <5>1. QED
          BY <1>1, <2>2, <4>1, DueSame, SameNames
      <4> HIDE DEF ttl
      <4>3. QED
        BY <2>4, <3>3, <4>1, <4>2 DEF Promise!Has
    <3>4. QED
      BY <3>1, <3>2, <3>3, Zenon
  <2>6. Promise!Answer(c, y, t, r)
    <3> HIDE DEF y, r, x
    <3>1. QED
      BY <2>1, <2>3, <2>5, AnswerFrom DEF x
  <2>7. request' = [op |-> "EXPIRE", conn |-> c, key |-> k, secs |-> secs]
    BY <1>5, Zenon DEF ExpireKey
  <2>8. m(t) = Promise!At(Promise!Mine(c), t) /\ t \in Promise!Later(now)
    BY <1>1, Zenon DEF m
  <2>9. QED
    BY <2>6, <2>7, <2>8, Zenon DEF Promise!AExpire
<1>6. QED
  BY <1>2, <1>3, <1>4, <1>5, Zenon

\* SADD, HSET, LPUSH and the like are abstract additions.
LEMMA AddCommand ==
  ASSUME Inv, NEW c \in Conn, NEW k \in Key, NEW x \in Member, NEW ty \in ContainerType,
         AddMember(c, k, ty, x)
  PROVE  Promise!AAdd(c, k, ty, x)
<1> DEFINE mine == dbs[GetDB(c)]
           new(t1, t2, t3) == FindOrCreate(Find(mine, k, t1), k, ty, t2, t3)
           y(t1, t2, t3) == Set(new(t1, t2, t3), k, <<ty, Content(new(t1, t2, t3).val[k]) \cup {x}>>)
<1>1. Sound(mine) /\ now \in Instant
  BY MineSound, Zenon DEF Inv, TypeOK
<1>2. PICK t1, t2, t3, t :
        /\ t1 \in Later(now) /\ t2 \in Later(t1) /\ t3 \in Later(t2) /\ t \in {t1, t3}
        /\ Insert(c, new(t1, t2, t3), k, ty, x, t, <<"OK">>)
  BY Zenon DEF AddMember
<1>3. t1 \in Nat /\ t \in Nat /\ t1 <= t /\ t \in Later(now) /\ t \in Later(t1)
  BY <1>1, <1>2, InstantBound DEF Later
<1>4. Sound(Find(mine, k, t1))
  BY <1>1, PruneSound, Zenon DEF Find
<1>5. IsType(new(t1, t2, t3).val[k], ty)
  BY <1>4, FindOrCreateSound, Zenon
<1>6. Finish(c, y(t1, t2, t3), t, <<"OK">>)
  <2> HIDE DEF new
  <2>1. QED
    BY <1>2, <1>5, Zenon DEF Insert, IsType
<1> DEFINE w == PurgeExpired(mine, t1)
<1>7. Sound(y(t1, t2, t3)) /\ SameAt(y(t1, t2, t3), Promise!Included(w, k, ty, x), t1)
  BY <1>1, IncludeSame, Zenon
<1>8. \A j \in Key : Promise!Included(w, k, ty, x).exp[j] \in Int
  BY <1>1, ChangedInt, ZenonT(30)
<1>9. SameAt(y(t1, t2, t3), Promise!Included(w, k, ty, x), t)
  <2> HIDE DEF y, w
  <2>1. QED
    BY <1>3, <1>7, <1>8, SameLater
<1>10. Promise!Answer(c, Promise!Included(w, k, ty, x), t, <<"OK">>)
  <2> HIDE DEF y, w
  <2>1. QED
    BY <1>3, <1>6, <1>9, AnswerFrom, Zenon
<1>11. w = Promise!At(Promise!Mine(c), t1)
  BY <1>2, MineAt, Zenon
<1>12. request' = [op |-> "ADD", conn |-> c, key |-> k, val |-> <<ty, x>>]
  BY Zenon DEF AddMember
<1>13. QED
  BY <1>2, <1>3, <1>10, <1>11, <1>12, SameNames DEF Promise!AAdd

\* SREM, SPOP, LPOP, LTRIM and the like are abstract removals.
LEMMA RemoveCommand ==
  ASSUME Inv, NEW c \in Conn, NEW k \in Key, NEW X \in SUBSET Member, NEW ty \in {"set", "list"},
         RemoveMembers(c, k, ty, X)
  PROVE  Promise!ARemove(c, k, ty, X)
<1> DEFINE mine == dbs[GetDB(c)]
           p(t1) == Find(mine, k, t1)
           rest(t1) == Content(p(t1).val[k]) \ X
           s(t1) == Set(p(t1), k, <<ty, rest(t1)>>)
           y(t1, t2) == IF rest(t1) = {} THEN Del(s(t1), k, t2) ELSE s(t1)
<1>1. Sound(mine) /\ now \in Instant /\ ty \in ContainerType
  BY MineSound, Zenon DEF Inv, TypeOK, ContainerType
<1>2. PICK t1, t2, t :
        /\ t1 \in Later(now) /\ t2 \in Later(t1) /\ t \in {t1, t2}
        /\ \/ ~IsType(p(t1).val[k], ty) /\ t = t1 /\ Finish(c, p(t1), t1, <<"OK">>)
           \/ IsType(p(t1).val[k], ty) /\ Finish(c, y(t1, t2), t, <<"OK">>)
  BY ZenonT(30) DEF RemoveMembers
<1>3. t1 \in Nat /\ t \in Nat /\ t1 <= t /\ t \in Later(now) /\ t \in Later(t1)
  BY <1>1, <1>2, InstantBound DEF Later
<1> DEFINE w == PurgeExpired(mine, t1)
<1>4. p(t1).val[k] = w.val[k]
  BY <1>1, FoundSame, ZenonT(30) DEF Found
<1>5. IsType(p(t1).val[k], ty) <=> Promise!Holds(w, k, ty)
  <2> HIDE DEF p, w
  <2> QED
    BY <1>4, Zenon DEF IsType, Promise!Holds, Promise!Has, TypeOfValue, Promise!TypeOfValue
<1>6. w = Promise!At(Promise!Mine(c), t1)
  BY <1>2, MineAt, Zenon
<1>7. CASE ~IsType(p(t1).val[k], ty)
  <2>1. SameAt(p(t1), w, t1)
    BY <1>1, <1>2, <1>3, <1>6, FindInvisible, SameMine, SMTT(30)
  <2>2. Promise!Answer(c, w, t, <<"OK">>) /\ t = t1
    BY <1>2, <1>7, <2>1, AnswerFrom, Zenon
  <2>3. QED
    BY <1>2, <1>3, <1>5, <1>6, <1>7, <2>2, SameNames, SMTT(30) DEF Promise!ARemove, RemoveMembers
<1>8. CASE IsType(p(t1).val[k], ty)
  <2>1. Sound(y(t1, t2)) /\ SameAt(y(t1, t2), Promise!Excluded(w, k, ty, X), t1)
    BY <1>1, <1>8, ExcludeSame, ZenonT(30)
  <2>2. \A j \in Key : Promise!Excluded(w, k, ty, X).exp[j] \in Int
    BY <1>1, ChangedInt, ZenonT(30)
  <2> HIDE DEF y, w, p
  <2>3. SameAt(y(t1, t2), Promise!Excluded(w, k, ty, X), t)
    BY <1>3, <2>1, <2>2, SameLater, ZenonT(30)
  <2>4. Promise!Answer(c, Promise!Excluded(w, k, ty, X), t, <<"OK">>)
    BY <1>2, <1>3, <1>8, <2>3, AnswerFrom
  <2>5. request' = [op |-> "REM", conn |-> c, key |-> k, val |-> <<ty, X>>]
    BY Zenon DEF RemoveMembers
  <2>6. QED
    BY <1>2, <1>3, <1>5, <1>6, <1>8, <2>4, <2>5, SameNames, Zenon DEF Promise!ARemove
<1>9. QED
  BY <1>7, <1>8, Zenon

\* HDEL, and HINCRBY, LSET, LINSERT, are abstract updates of a container.
LEMMA UpdateCommands ==
  ASSUME Inv, NEW c \in Conn, NEW k \in Key, NEW X \in SUBSET Member
  PROVE  /\ RemoveFields(c, k, X) => Promise!AHDel(c, k, X)
         /\ \A x \in Member, ty \in {"hash", "list"} :
              PutElement(c, k, ty, x, X) => Promise!APut(c, k, ty, x, X)
<1> DEFINE mine == dbs[GetDB(c)]
           m(t) == Promise!At(Promise!Mine(c), t)
           new(v, ty, N) == <<ty, (Content(v) \ X) \cup N>>
           y(t, ty, N) == IF IsType(Find(mine, k, t).val[k], ty)
                          THEN Set(Find(mine, k, t), k, new(Find(mine, k, t).val[k], ty, N))
                          ELSE Find(mine, k, t)
           a(t, ty, N) == IF Promise!Holds(m(t), k, ty)
                          THEN Promise!Put(m(t), k, new(m(t).val[k], ty, N)) ELSE m(t)
<1>1. Sound(mine)
  BY MineSound, ZenonT(30)
<1>2. ASSUME NEW t \in Later(now), NEW ty \in ContainerType, NEW N \in SUBSET Member
      PROVE  SameAt(y(t, ty, N), a(t, ty, N), t)
  <2> DEFINE p == Find(mine, k, t)
  <2>1. m(t) = PurgeExpired(mine, t) /\ t \in Nat
    BY MineAt, InstantBound, Zenon DEF Later
  <2>2. Sound(p) /\ p.val[k] = m(t).val[k]
    BY <1>1, <2>1, PruneSound, FoundSame, SMTT(30) DEF Find, Found
  <2>3. IsType(p.val[k], ty) <=> Promise!Holds(m(t), k, ty)
    BY <2>2, Zenon DEF IsType, Promise!Holds, Promise!Has, TypeOfValue, Promise!TypeOfValue
  <2>4. CASE ~IsType(p.val[k], ty)
    <3>1. SameAt(p, m(t), t)
      BY <1>1, <2>1, FindInvisible, SameMine, SMTT(30)
    <3>2. QED
      BY <2>3, <2>4, <3>1, ZenonT(30)
  <2>5. CASE IsType(p.val[k], ty)
    <3>1. p.val[k] \in Value /\ TypeOfValue(p.val[k]) = ty
      BY <2>2, <2>5, ZenonT(30) DEF IsType, Sound, DatabaseType
    <3>2. new(p.val[k], ty, N) \in Value
      BY <3>1, ContentOfContainer, ContainerValue, Zenon
    <3>3. SameAt(Set(p, k, new(p.val[k], ty, N)), Promise!Put(m(t), k, new(p.val[k], ty, N)), t)
      <4> HIDE DEF new, m
      <4>1. QED
        BY <1>1, <2>1, <3>2, SetSame, Zenon
    <3>4. QED
      BY <2>2, <2>3, <2>5, <3>3, ZenonT(30)
  <2>6. QED
    BY <2>4, <2>5, Zenon
<1>3. ASSUME RemoveFields(c, k, X) PROVE Promise!AHDel(c, k, X)
  <2>1. PICK t \in Later(now) :
          Finish(c, IF IsType(Find(mine, k, t).val[k], "hash")
                    THEN Set(Find(mine, k, t), k, <<"hash", Content(Find(mine, k, t).val[k]) \ X>>)
                    ELSE Find(mine, k, t), t, <<"OK">>)
    BY <1>3, Zenon DEF RemoveFields
  <2>2. \A v : new(v, "hash", {}) = <<"hash", Content(v) \ X>>
    BY Zenon
  <2>3. Finish(c, y(t, "hash", {}), t, <<"OK">>)
    <3> HIDE DEF new
    <3>1. QED
      BY <2>1, <2>2, Zenon
  <2>4. SameAt(y(t, "hash", {}), a(t, "hash", {}), t)
    BY <1>2, ZenonT(30) DEF ContainerType
  <2>5. Promise!Answer(c, a(t, "hash", {}), t, <<"OK">>)
    <3> HIDE DEF y, a
    <3>1. QED
      BY <2>3, <2>4, AnswerFrom, SMTT(30)
  <2>6. a(t, "hash", {}) = IF Promise!Holds(m(t), k, "hash")
          THEN Promise!Put(m(t), k, <<"hash", Promise!Content(m(t).val[k]) \ X>>) ELSE m(t)
    <3> HIDE DEF new, m
    <3>1. QED
      BY <2>2, Zenon DEF Promise!Content, Content
  <2>7. request' = [op |-> "HDEL", conn |-> c, key |-> k, val |-> X]
    BY <1>3, Zenon DEF RemoveFields
  <2>8. QED
    <3> HIDE DEF a
    <3>1. QED
      BY <2>5, <2>6, <2>7, SameNames, Zenon DEF Promise!AHDel
<1>4. ASSUME NEW x \in Member, NEW ty \in {"hash", "list"}, PutElement(c, k, ty, x, X)
      PROVE  Promise!APut(c, k, ty, x, X)
  <2>1. PICK t \in Later(now) : Finish(c, y(t, ty, {x}), t, <<"OK">>)
    BY <1>4, Zenon DEF PutElement
  <2>2. SameAt(y(t, ty, {x}), a(t, ty, {x}), t)
    BY <1>2, Zenon DEF ContainerType
  <2>3. Promise!Answer(c, a(t, ty, {x}), t, <<"OK">>)
    <3> HIDE DEF y, a
    <3>1. QED
      BY <2>1, <2>2, AnswerFrom, Zenon
  <2>4. a(t, ty, {x}) = IF Promise!Holds(m(t), k, ty)
          THEN Promise!Put(m(t), k, <<ty, (Promise!Content(m(t).val[k]) \ X) \cup {x}>>) ELSE m(t)
    BY Zenon DEF Promise!Content, Content
  <2>5. request' = [op |-> "PUT", conn |-> c, key |-> k, val |-> <<ty, x, X>>]
    BY <1>4, Zenon DEF PutElement
  <2>6. QED
    <3> HIDE DEF a
    <3>1. QED
      BY <2>3, <2>4, <2>5, SameNames, Zenon DEF Promise!APut
<1>5. QED
  BY <1>3, <1>4, Zenon

\* SMOVE is an abstract move, although src and dst may expire between its calls.
LEMMA MoveCommand ==
  ASSUME Inv, NEW c \in Conn, NEW src \in Key, NEW dst \in Key, NEW x \in Member,
         SMove(c, src, dst, x)
  PROVE  Promise!ASMove(c, src, dst, x)
<1> DEFINE mine == dbs[GetDB(c)]
           p(t1) == Find(mine, src, t1)
           has(t1) == IsType(p(t1).val[src], "set") /\ x \in Content(p(t1).val[src])
           rest(t1) == Content(p(t1).val[src]) \ {x}
           s(t1) == Set(p(t1), src, <<"set", rest(t1)>>)
           e(t1, t2) == IF rest(t1) = {} THEN Del(s(t1), src, t2) ELSE s(t1)
           new(t1, t2, t3, t4, t5) == FindOrCreate(Find(e(t1, t2), dst, t3), dst, "set", t4, t5)
<1>1. Sound(mine) /\ now \in Instant /\ "set" \in ContainerType
  BY MineSound, Zenon DEF Inv, TypeOK, ContainerType
<1>2. PICK t1, t2, t3, t4, t5, t :
        /\ t1 \in Later(now) /\ t2 \in Later(t1) /\ t3 \in Later(t2)
        /\ t4 \in Later(t3) /\ t5 \in Later(t4) /\ t \in {t3, t5}
        /\ IF ~has(t1) THEN Finish(c, p(t1), t1, Int64(0))
           ELSE Insert(c, new(t1, t2, t3, t4, t5), dst, "set", x, t, Int64(1))
  <2> DEFINE last(t1, t2, t3, t5) ==
               IF IsType(Find(e(t1, t2), dst, t3).val[dst], "set") THEN t3 ELSE t5
  <2>1. PICK t1, t2, t3, t4, t5 :
          /\ t1 \in Later(now) /\ t2 \in Later(t1) /\ t3 \in Later(t2)
          /\ t4 \in Later(t3) /\ t5 \in Later(t4)
          /\ IF ~has(t1) THEN Finish(c, p(t1), t1, Int64(0))
             ELSE Insert(c, new(t1, t2, t3, t4, t5), dst, "set", x, last(t1, t2, t3, t5), Int64(1))
    BY ZenonT(30) DEF SMove
  <2>2. last(t1, t2, t3, t5) \in {t3, t5}
    BY Zenon
  <2> HIDE DEF has, p, new, last
  <2>3. QED
    BY <2>1, <2>2, Zenon
<1>3. /\ t1 \in Nat /\ t3 \in Nat /\ t \in Nat /\ t1 <= t3 /\ t3 <= t
      /\ t \in Later(now) /\ t3 \in Later(t1) /\ t \in Later(t3) /\ t1 \in Later(t1)
  BY <1>1, <1>2, InstantBound DEF Later
<1> DEFINE w == PurgeExpired(mine, t1)
<1>4. p(t1).val[src] = w.val[src]
  BY <1>1, FoundSame, ZenonT(30) DEF Found
<1> DEFINE ahas == Promise!Holds(w, src, "set") /\ x \in Promise!Content(w.val[src])
<1>5. has(t1) <=> ahas
  <2> HIDE DEF p, w
  <2> QED
    BY <1>4, Zenon DEF IsType, Promise!Holds, Promise!Has, TypeOfValue, Promise!TypeOfValue,
                Content, Promise!Content
<1>6. w = Promise!At(Promise!Mine(c), t1)
  BY <1>2, MineAt, Zenon
<1>7. request' = [op |-> "SMOVE", conn |-> c, keys |-> <<src, dst>>, val |-> x]
  BY ZenonT(30) DEF SMove
<1> DEFINE out == Promise!Excluded(w, src, "set", {x})
           done(u3) == Promise!Included(Promise!At(out, u3), dst, "set", x)
<1>8. SUFFICES \E u2, u3 : /\ u2 \in Later(t1) /\ u3 \in Later(u2)
                           /\ Promise!Answer(c, IF ahas THEN done(u2) ELSE w, u3,
                                             <<"int", Promise!Number(ahas)>>)
  <2> HIDE DEF w
  <2>1. QED
    BY <1>2, <1>6, <1>7, SameNames, ZenonT(30) DEF Promise!ASMove
<1>9. CASE ~has(t1)
  <2>1. SameAt(p(t1), w, t1)
    <3>1. PurgeExpired(p(t1), t1) = w
      BY <1>1, <1>3, FindInvisible, SMTT(30)
    <3>2. PurgeExpired(w, t1) = w
      BY <1>1, <1>3, SoundInt, PurgeTwice, SMTT(30)
    <3> HIDE DEF w, p
    <3>3. QED
      BY <3>1, <3>2, AtIsPurge, Zenon DEF SameAt
  <2> HIDE DEF w, has, p, ahas, done
  <2>2. Promise!Answer(c, w, t1, Int64(0))
    BY <1>2, <1>9, <2>1, AnswerFrom, Zenon
  <2>3. ~ahas /\ Promise!Number(ahas) = 0
    BY <1>5, <1>9, Zenon DEF Promise!Number
  <2>4. QED
    BY <1>3, <2>2, <2>3, Zenon DEF Int64
<1>10. CASE has(t1)
  <2>1. Sound(e(t1, t2)) /\ SameAt(e(t1, t2), out, t1)
    BY <1>1, <1>10, ExcludeSame, Zenon
  <2>2. \A j \in Key : out.exp[j] \in Int
    BY <1>1, ChangedInt, ZenonT(30)
  <2>3. Promise!At(out, t3) = PurgeExpired(e(t1, t2), t3)
    <3> HIDE DEF e, out
    <3>1. QED
      BY <1>3, <2>1, <2>2, SameLater, Zenon DEF SameAt
  <2> DEFINE n == new(t1, t2, t3, t4, t5)
             y == Set(n, dst, <<"set", Content(n.val[dst]) \cup {x}>>)
  <2>4. Sound(Find(e(t1, t2), dst, t3))
    <3> HIDE DEF e
    <3>1. QED
      BY <2>1, PruneSound, Zenon DEF Find
  <2>5. IsType(n.val[dst], "set")
    <3> HIDE DEF e
    <3>1. QED
      BY <1>1, <2>4, FindOrCreateSound, Zenon
  <2>6. Finish(c, y, t, Int64(1))
    <3> HIDE DEF new, has
    <3>1. QED
      BY <1>2, <1>10, <2>5, Zenon DEF Insert, IsType
  <2>7. Sound(y) /\ SameAt(y, done(t3), t3)
    <3> HIDE DEF e, out
    <3>1. QED
      BY <1>1, <2>1, <2>3, IncludeSame, Zenon
  <2>8. \A j \in Key : done(t3).exp[j] \in Int
    <3> HIDE DEF e, out
    <3>1. QED
      BY <2>1, <2>3, ChangedInt, ZenonT(30)
  <2>9. Promise!Answer(c, done(t3), t, Int64(1))
    <3> HIDE DEF y, done
    <3>1. SameAt(y, done(t3), t)
      BY <1>3, <2>7, <2>8, SameLater, Zenon
    <3>2. QED
      BY <1>3, <2>6, <3>1, AnswerFrom, Zenon
  <2> HIDE DEF w, has, ahas, done
  <2>10. ahas /\ Promise!Number(ahas) = 1
    BY <1>5, <1>10, Zenon DEF Promise!Number
  <2>11. QED
    BY <1>3, <2>9, <2>10, ZenonT(30) DEF Int64
<1>11. QED
  BY <1>9, <1>10, ZenonT(30)

\* Commands on the whole database and on the connection.
LEMMA WholeCommands ==
  ASSUME Inv, NEW c \in Conn
  PROVE  /\ ListKeys(c) => Promise!AKeys(c)
         /\ FlushDB(c) => Promise!AFlush(c)
         /\ Reject(c) => Promise!AReject(c)
         /\ \A i \in DB : SelectDB(c, i) => Promise!ASelect(c, i)
<1> DEFINE mine == dbs[GetDB(c)]
<1>0. Sound(mine) /\ now \in Later(now) /\ now \in Nat
  BY MineSound, InstantBound, SMTT(30) DEF Inv, TypeOK, Later
<1>1. ASSUME ListKeys(c) PROVE Promise!AKeys(c)
  <2>1. PICK t \in Later(now) : Finish(c, PurgeExpired(mine, t), t, <<"keys", Keys(mine, t)>>)
    BY <1>1, Zenon DEF ListKeys
  <2>2. t \in Nat
    BY InstantBound, Zenon DEF Later
  <2>3. PurgeExpired(PurgeExpired(mine, t), t) = PurgeExpired(mine, t)
    BY <1>0, <2>2, SoundInt, PurgeTwice, SMTT(30)
  <2>4. Promise!Answer(c, Promise!Mine(c), t, <<"keys", Keys(mine, t)>>)
    BY <2>1, <2>3, SameMine, AnswerFrom, Zenon
  <2>5. Keys(mine, t) = {k \in Key : Promise!Has(Promise!At(Promise!Mine(c), t), k)}
    BY MineAt, Zenon DEF Keys, Promise!Has
  <2>6. QED
    BY <1>1, <2>4, <2>5, SameNames DEF ListKeys, Promise!AKeys
<1>2. ASSUME FlushDB(c) PROVE Promise!AFlush(c)
  <2>1. Finish(c, EmptyDB, now, <<"OK">>) /\ SameAt(EmptyDB, EmptyDB, now)
    BY <1>2, AtIsPurge, Zenon DEF FlushDB, ClearCurrentDB, SameAt
  <2>2. Promise!Answer(c, EmptyDB, now, <<"OK">>)
    BY <1>0, <2>1, AnswerFrom, Zenon
  <2>3. QED
    BY <1>2, <2>2, Zenon DEF FlushDB, Promise!AFlush, Promise!EmptyDB, EmptyDB, Promise!NoExpiry, NoExpiry
<1>3. ASSUME Reject(c) PROVE Promise!AReject(c)
  <2>1. Finish(c, mine, now, <<"ERR">>) /\ SameAt(mine, Promise!Mine(c), now)
    BY <1>0, <1>3, SameMine, Zenon DEF Reject
  <2>2. Promise!Answer(c, Promise!Mine(c), now, <<"ERR">>)
    BY <1>0, <2>1, AnswerFrom, Zenon
  <2>3. QED
    BY <1>3, <2>2, Zenon DEF Reject, Promise!AReject
<1>4. ASSUME NEW i \in DB, SelectDB(c, i) PROVE Promise!ASelect(c, i)
  BY <1>4, Zenon DEF SelectDB, Promise!ASelect
<1>5. QED
  BY <1>1, <1>2, <1>3, <1>4, Zenon

\* The expiry cycle is, to clients, the passage of time.
LEMMA CycleInvisible ==
  ASSUME Inv, ActiveExpireCycle
  PROVE  Promise!APass
<1>1. PICK t \in Later(now) :
        dbs' = [i \in DB |-> ActiveExpire(dbs[i], MaxScan, t)] /\ now' = t
  BY Zenon DEF ActiveExpireCycle
<1>2. now \in Nat /\ t \in Nat /\ now <= t
  BY InstantBound, Zenon DEF Inv, TypeOK, Later
<1>3. ASSUME NEW i \in DB
      PROVE  PurgeExpired(dbs'[i], t) = Promise!At(PurgeExpired(dbs[i], now), t)
  <2> DEFINE d == dbs[i]
             x == ActiveExpire(d, MaxScan, t)
  <2>1. Sound(d)
    BY Zenon DEF Inv, TypeOK, NoOrphanDeadline, Sound
  <2>2. ASSUME NEW k \in Key
        PROVE  /\ PurgeExpired(x, t).val[k] = PurgeExpired(d, t).val[k]
               /\ PurgeExpired(x, t).exp[k] = PurgeExpired(d, t).exp[k]
    <3> DEFINE S == FirstScanned(d, MaxScan) \cap Expired(d, t)
    <3>1. /\ x.val[k] = IF k \in S THEN Absent ELSE d.val[k]
          /\ x.exp[k] = IF k \in S THEN NoExpiry ELSE d.exp[k]
      BY Zenon DEF ActiveExpire, EraseBoth
    <3>2. k \in S => IsExpiredInDB(d, k, t)
      BY Zenon DEF Expired
    <3> HIDE DEF S, x, d
    <3>3. CASE k \in S
      <4>1. x.val[k] = Absent /\ x.exp[k] = NoExpiry /\ ~IsExpiredInDB(x, k, t)
        BY <3>1, <3>3, Zenon DEF IsExpiredInDB
      <4>2. QED
        BY <3>2, <3>3, <4>1, PurgedAt
    <3>4. CASE k \notin S
      <4>1. x.val[k] = d.val[k] /\ x.exp[k] = d.exp[k]
        BY <3>1, <3>4, Zenon
      <4>2. IsExpiredInDB(x, k, t) <=> IsExpiredInDB(d, k, t)
        BY <4>1, Zenon DEF IsExpiredInDB
      <4>3. QED
        BY <4>1, <4>2, PurgedAt
    <3>5. QED
      BY <3>3, <3>4, ZenonT(30)
  <2>3. PurgeExpired(x, t) = PurgeExpired(d, t)
    <3> HIDE DEF x, d
    <3>1. QED
      BY <2>2, PurgedEqual
  <2>4. QED
    BY <1>1, <1>2, <2>1, <2>3, AtIsPurge, SoundInt, PurgeTwice
<1>4. QED
  BY <1>1, <1>3, SameNames, Zenon DEF Promise!APass, ActiveExpireCycle

\* A shard is a store with TTLs: in every behaviour its answers, and the keys
\* that exist at each instant, are those of TtlStore, so clients cannot tell
\* when PruneExpiredInDB and ActiveExpireCycle really erase an expired key.
THEOREM Refinement == Spec => ImplementsTtlStore
<1>1. Init => Promise!AInit
  <2> SUFFICES ASSUME Init PROVE Promise!AInit
    BY Zenon
  <2>1. \A i \in DB : PurgeExpired(dbs[i], now) = EmptyDB
    <3>1. \A k \in Key : ~IsExpiredInDB(EmptyDB, k, now)
      BY Zenon DEF IsExpiredInDB, EmptyDB
    <3>2. Expired(EmptyDB, now) = {}
      BY <3>1, Zenon DEF Expired
    <3>3. PurgeExpired(EmptyDB, now) = EmptyDB
      BY <3>2, Zenon DEF PurgeExpired, EraseBoth, EmptyDB
    <3>4. QED
      BY <3>3, Zenon DEF Init
  <2>2. EmptyDB = Promise!EmptyDB
    BY Zenon DEF EmptyDB, Promise!EmptyDB, NoExpiry, Promise!NoExpiry
  <2>3. QED
    BY <2>1, <2>2, Zenon DEF Init, Promise!AInit
<1>2. Inv /\ [Next]_vars => [Promise!ANext]_(Promise!aVars)
  <2>1. ASSUME Inv, NEW c \in Conn, Command(c) PROVE Promise!ACommand(c)
    <3> USE <2>1
    <3>1. Promise!Ttls = SetTtls
      BY SameNames, Zenon
    <3>2. CASE \E k \in Key, s \in Str : SetPlain(c, k, s) \/ Append(c, k, s)
      BY <3>2, StringCommands, Zenon DEF Promise!ACommand
    <3>3. CASE \E k \in Key, s \in Str, ttl \in SetTtls : SetEx(c, k, s, ttl)
      BY <3>1, <3>3, StringCommands, Zenon DEF Promise!ACommand
    <3>4. CASE \E k1, k2 \in Key, s1, s2 \in Str : MSet(c, k1, s1, k2, s2)
      BY <3>4, TwoKeyCommands DEF Promise!ACommand
    <3>5. CASE \E k \in Key : Get(c, k) \/ TTLOf(c, k) \/ PersistKey(c, k)
      BY <3>5, TtlCommands, Zenon DEF Promise!ACommand
    <3>6. CASE \E k1, k2 \in Key : DelKeys(c, k1, k2) \/ Exists(c, k1, k2) \/ MGet(c, k1, k2)
      BY <3>6, TwoKeyCommands, Zenon DEF Promise!ACommand
    <3>7. CASE \E k \in Key, s \in NumStr : Incr(c, k, s)
      BY <3>7, StringCommands, Zenon DEF Promise!ACommand
    <3>8. CASE \E k \in Key, secs \in ExArgs : ExpireKey(c, k, secs)
      BY <3>8, TtlCommands, Zenon DEF Promise!ACommand
    <3>9. CASE \E k \in Key, m \in Member, ty \in ContainerType : AddMember(c, k, ty, m)
      BY <3>9, AddCommand, Zenon DEF Promise!ACommand, Promise!ContainerType, ContainerType
    <3>10. CASE \E k \in Key, M \in SUBSET Member, ty \in {"set", "list"} : RemoveMembers(c, k, ty, M)
      BY <3>10, RemoveCommand, Zenon DEF Promise!ACommand
    <3>11. CASE \E k \in Key, M \in SUBSET Member : RemoveFields(c, k, M)
      BY <3>11, UpdateCommands, Zenon DEF Promise!ACommand
    <3>12. CASE \E k \in Key, m \in Member, M \in SUBSET Member, ty \in {"hash", "list"} :
                  PutElement(c, k, ty, m, M)
      BY <3>12, UpdateCommands, SMTT(30) DEF Promise!ACommand
    <3>13. CASE \E src, dst \in Key, m \in Member : SMove(c, src, dst, m)
      BY <3>13, MoveCommand, Zenon DEF Promise!ACommand
    <3>14. CASE ListKeys(c) \/ FlushDB(c) \/ Reject(c) \/ \E i \in DB : SelectDB(c, i)
      BY <3>14, WholeCommands, Zenon DEF Promise!ACommand
    <3>15. QED
      BY <2>1, <3>2, <3>3, <3>4, <3>5, <3>6, <3>7, <3>8, <3>9, <3>10, <3>11, <3>12,
         <3>13, <3>14, CommandForm, SMTT(30), SMTT(30) DEF Form
  <2>2. ASSUME Inv, Next PROVE Promise!ANext
    BY <2>1, <2>2, CycleInvisible, Zenon DEF Next, Promise!ANext
  <2>3. ASSUME UNCHANGED vars PROVE UNCHANGED Promise!aVars
    BY <2>3, Zenon DEF vars, Promise!aVars
  <2>4. QED
    BY <2>2, <2>3, Zenon
<1>3. QED
  BY <1>1, <1>2, InvInvariant, PTL DEF Spec, ImplementsTtlStore, Promise!ASpec
=============================================================================
