--------------------------- MODULE RoutingProofs ----------------------------
(* For any number of shards, databases and connections and any assignment of *)
(* keys to shards: every key stays on its shard, all writes of a command     *)
(* arrive, and its answer is that of one moment of each shard.               *)
EXTENDS Routing, FiniteSetTheorems, TLAPS

\* A map over the keys, with no key of another shard.
IsMap(d) == d = [k \in Key |-> d[k]]
Owned(d, s) == \A k \in Key : d[k] # Absent => Home[k] = s

\* The fiber's record while it is idle and while it has a request; the request
\* has only its own targets left to visit.
IsIdle(x) == x = Idle(x.db, x.calls)
IsBusy(c, x) ==
    /\ x = [pc |-> x.pc, db |-> x.db, calls |-> x.calls, req |-> x.req, todo |-> x.todo, ans |-> x.ans]
    /\ x.pc \in {"visit", "done", "refused"}
    /\ x.req \in Command
    /\ x.todo \subseteq Targets(c, x.req)

\* The inductive invariant: that keys are owned needs that a closure only ever
\* runs on a target of its request.
IInv ==
    /\ dbs = [s \in Shard |-> [i \in DB |-> dbs[s][i]]]
    /\ \A s \in Shard, i \in DB : IsMap(dbs[s][i]) /\ Owned(dbs[s][i], s)
    /\ conn = [c \in Conn |-> conn[c]]
    /\ \A c \in Conn : conn[c].db \in DB /\ (IsIdle(conn[c]) \/ IsBusy(c, conn[c]))

-----------------------------------------------------------------------------
\* A request on one key has the key's shard as its only target.
LEMMA RoutedTarget ==
  ASSUME NEW c \in Conn, NEW r \in Command, r.op \in RoutedOp
  PROVE  Targets(c, r) = {Home[r.keys[1]]} /\ DOMAIN r.keys = {1} /\ r.keys[1] \in Key
<1>1. Targets(c, r) = {Home[r.keys[1]]}
  <2>1. r.op \notin GroupedOp /\ r.op \notin EverywhereOp
    BY Zenon DEF RoutedOp, GroupedOp, EverywhereOp
  <2> QED
    BY <2>1, Zenon DEF Targets
<1>2. r.keys \in Seq(Key) /\ Len(r.keys) = 1
  BY CommandAssumption, Zenon DEF Request
<1> QED
  BY <1>1, <1>2

\* A closure that runs on a target of its request stores only keys of the shard
\* it runs on.  SMOVE is the case that needs the map it finds: on a foreign
\* shard it finds no source, and so it has nothing to move.
LEMMA AppliedOwned ==
  ASSUME NEW c \in Conn, NEW r \in Command, NEW s \in Targets(c, r), NEW d,
         IsMap(d), Owned(d, s), ~Refused(r, d)
  PROVE  /\ IsMap(Applied(d, r, Share(r, s)))
         /\ Owned(Applied(d, r, Share(r, s)), s)
<1> DEFINE I == Share(r, s)
<1>1. r \in Request /\ DOMAIN r.keys = 1 .. Len(r.keys) /\ \A i \in DOMAIN r.keys : r.keys[i] \in Key
  BY CommandAssumption DEF Request
<1>2. CASE r.op \in {"SET", "MSET"}
  <2>1. \A i \in I : Home[r.keys[i]] = s
    <3>1. CASE r.op = "SET"
      BY <3>1, RoutedTarget DEF Share, RoutedOp, GroupedOp
    <3>2. CASE r.op = "MSET"
      BY <3>2, Zenon DEF Share, GroupedOp
    <3> QED
      BY <1>2, <3>1, <3>2, Zenon
  <2>2. \A k \in Key : {i \in I : r.keys[i] = k} # {} => Home[k] = s
    BY <2>1, Zenon
  <2>3. IsMap(Stored(d, r, I))
    BY Zenon DEF Stored, IsMap
  <2>4. Owned(Stored(d, r, I), s)
    BY <2>2, Zenon DEF Stored, Owned
  <2> QED
    BY <1>2, <2>3, <2>4, Zenon DEF Applied
<1>3. CASE r.op = "DEL"
  BY <1>3, Zenon DEF Applied, Deleted, IsMap, Owned
<1>4. CASE r.op = "FLUSHDB"
  BY <1>4, Zenon DEF Applied, EmptyMap, IsMap, Owned
<1>5. CASE r.op = "SADD"
  <2>1. r.keys[1] \in Key /\ Home[r.keys[1]] = s
    BY <1>5, RoutedTarget DEF RoutedOp
  <2>2. Applied(d, r, I) = WithMembers(d, r.keys[1], r.members)
    BY <1>5, Zenon DEF Applied
  <2> QED
    BY <2>1, <2>2, Zenon DEF WithMembers, IsMap, Owned
<1>6. CASE r.op = "SMOVE"
  <2>1. Applied(d, r, I) = SMove(d, r)
    BY <1>6, Zenon DEF Applied
  <2>2. CASE ~Moves(d, r)
    BY <2>1, <2>2, Zenon DEF SMove
  <2>3. CASE Moves(d, r)
    <3> DEFINE e == WithoutMembers(d, r.keys[1], r.members)
    <3>1. 1 \in DOMAIN r.keys /\ 2 \in DOMAIN r.keys
      BY <1>1, <1>6, CommandAssumption
    <3>2. Home[r.keys[1]] = s
      BY <1>1, <3>1, <2>3, Zenon DEF Moves, IsSet, Owned
    <3>3. Home[r.keys[2]] = s
      BY <3>1, <3>2, <1>6 DEF Refused, SetOp, AllKeysSameShard, KeysAt
    <3>4. IsMap(e) /\ Owned(e, s)
      BY <1>1, <3>1, <3>2, Zenon DEF WithoutMembers, IsMap, Owned
    <3>5. IsMap(WithMembers(e, r.keys[2], r.members)) /\ Owned(WithMembers(e, r.keys[2], r.members), s)
      <4> HIDE DEF e
      <4> QED
        BY <1>1, <3>1, <3>3, <3>4, Zenon DEF WithMembers, IsMap, Owned
    <3> QED
      BY <2>1, <2>3, <3>5, Zenon DEF SMove
  <2> QED
    BY <2>2, <2>3, Zenon
<1>7. CASE r.op \notin {"SET", "MSET", "DEL", "FLUSHDB", "SADD", "SMOVE"}
  BY <1>7, Zenon DEF Applied
<1> QED
  BY <1>2, <1>3, <1>4, <1>5, <1>6, <1>7, Zenon

\* One closure keeps every key on its shard.
LEMMA VisitKeepsInv == ASSUME IInv, NEW c \in Conn, NEW s \in Shard, Visit(c, s) PROVE IInv'
<1> DEFINE x == conn[c]
           r == x.req
           d == dbs[s][x.db]
<1>1. x.pc = "visit" /\ s \in x.todo
  BY Zenon DEF Visit, NextTarget
<1>2. IsBusy(c, x) /\ x.db \in DB
  BY <1>1 DEF IInv, IsIdle, Idle
<1>3. r \in Command /\ s \in Targets(c, r)
  BY <1>1, <1>2, Zenon DEF IsBusy
<1>4. IsMap(d) /\ Owned(d, s)
  BY <1>2, Zenon DEF IInv
<1>5. CASE Refused(r, d)
  <2>1. dbs' = dbs /\ conn' = [conn EXCEPT ![c].pc = "refused", ![c].todo = x.todo \ {s}]
    BY <1>5, Zenon DEF Visit
  <2>2. conn'[c].db = x.db /\ IsBusy(c, conn'[c])
    BY <2>1, <1>2, Zenon DEF IInv, IsBusy
  <2> QED
    BY <2>1, <2>2, <1>2, Zenon DEF IInv
<1>6. CASE ~Refused(r, d)
  <2> DEFINE e == Applied(d, r, Share(r, s))
             p == IF x.todo \ {s} = {} THEN "done" ELSE "visit"
             a == Answered(x.ans, d, r, Share(r, s))
  <2>1. dbs' = [dbs EXCEPT ![s][x.db] = e]
    BY <1>6, Zenon DEF Visit
  <2>2. conn' = [conn EXCEPT ![c].pc = p, ![c].todo = x.todo \ {s}, ![c].ans = a]
    BY <1>6, Zenon DEF Visit
  <2>3. IsMap(e) /\ Owned(e, s)
    BY <1>3, <1>4, <1>6, AppliedOwned, Zenon
  <2> HIDE DEF e, a
  <2>4. conn'[c].db = x.db /\ IsBusy(c, conn'[c])
    BY <2>2, <1>2 DEF IInv, IsBusy
  <2>5. /\ dbs' = [y \in Shard |-> [i \in DB |-> dbs'[y][i]]]
        /\ \A y \in Shard, i \in DB : IsMap(dbs'[y][i]) /\ Owned(dbs'[y][i], y)
    BY <2>1, <2>3, <1>2 DEF IInv
  <2> QED
    BY <2>2, <2>4, <2>5, <1>2, Zenon DEF IInv
<1> QED
  BY <1>5, <1>6, Zenon

\* The invariant holds at the start and every step keeps it.
LEMMA StartHasInv == Init => IInv
<1> SUFFICES ASSUME Init PROVE IInv
  BY Zenon
<1>1. 0 \in DB
  BY NumDBsAssumption DEF DB
<1> QED
  BY <1>1, Zenon DEF Init, IInv, IsMap, Owned, EmptyMap, IsIdle, Idle

LEMMA NextKeepsInv == IInv /\ [Next]_vars => IInv'
<1> SUFFICES ASSUME IInv, [Next]_vars PROVE IInv'
  BY Zenon
<1>1. ASSUME NEW c \in Conn, NEW i \in DB, Select(c, i) PROVE IInv'
  BY <1>1, Zenon DEF IInv, Select, IsIdle, Idle
<1>2. ASSUME NEW c \in Conn, NEW r \in Command, Call(c, r) PROVE IInv'
  <2>1. dbs' = dbs /\ conn' = [conn EXCEPT ![c] = conn'[c]]
    BY <1>2, Zenon DEF Call, IInv
  <2>2. conn'[c].db = conn[c].db /\ IsBusy(c, conn'[c])
    BY <1>2, Zenon DEF Call, IInv, IsBusy
  <2> QED
    BY <2>1, <2>2, Zenon DEF IInv
<1>3. ASSUME NEW c \in Conn, NEW s \in Shard, Visit(c, s) PROVE IInv'
  BY <1>3, VisitKeepsInv, Zenon
<1>4. ASSUME NEW c \in Conn, Return(c) PROVE IInv'
  BY <1>4, Zenon DEF IInv, Return, IsIdle, Idle
<1>5. CASE UNCHANGED vars
  BY <1>5, Zenon DEF IInv, vars
<1> QED
  BY <1>1, <1>2, <1>3, <1>4, <1>5, Zenon DEF Next

\* No shard ever holds a key of another shard, for any number of shards and
\* connections: also not through the commands on several sets, which run on the
\* connection's vCPU wherever their keys are.
THEOREM KeysStayHome == Spec => []OwnedOnly
<1>1. IInv => OwnedOnly
  BY Zenon DEF IInv, OwnedOnly, Owned
<1> QED
  BY <1>1, StartHasInv, NextKeepsInv, PTL DEF Spec

-----------------------------------------------------------------------------
(* The writes.                                                               *)

\* Maps that agree on the keys of shard s, and positions that agree on them.
SameOn(s, d, w) == \A k \in Key : Home[k] = s => d[k] = w[k]
SamePlaces(r, s, I, J) ==
    \A k \in Key : Home[k] = s => {i \in I : r.keys[i] = k} = {i \in J : r.keys[i] = k}

\* The keys of SMOVE and SADD are on shard s.
KeysHere(r, s) == r.op \in {"SADD", "SMOVE"} => \A i \in DOMAIN r.keys : Home[r.keys[i]] = s

\* What a request leaves on shard s depends on the contents of shard s alone.
LEMMA AppliedLocally ==
  ASSUME NEW r \in Command, NEW s, NEW d, NEW w, NEW I, NEW J,
         IsMap(d), IsMap(w), SameOn(s, d, w), SamePlaces(r, s, I, J), KeysHere(r, s)
  PROVE  SameOn(s, Applied(d, r, I), Applied(w, r, J))
<1>1. r.keys \in Seq(Key)
  BY CommandAssumption, Zenon DEF Request
<1>2. CASE r.op \in {"SET", "MSET"}
  <2>1. SameOn(s, Stored(d, r, I), Stored(w, r, J))
    <3> SUFFICES ASSUME NEW k \in Key, Home[k] = s PROVE Stored(d, r, I)[k] = Stored(w, r, J)[k]
      BY Zenon DEF SameOn
    <3>1. {i \in I : r.keys[i] = k} = {i \in J : r.keys[i] = k} /\ d[k] = w[k]
      BY Zenon DEF SamePlaces, SameOn
    <3> QED
      BY <3>1, Zenon DEF Stored
  <2> QED
    BY <1>2, <2>1, Zenon DEF Applied
<1>3. CASE r.op = "DEL"
  <2>1. SameOn(s, Deleted(d, KeysAt(r, I)), Deleted(w, KeysAt(r, J)))
    <3> SUFFICES ASSUME NEW k \in Key, Home[k] = s
                 PROVE  Deleted(d, KeysAt(r, I))[k] = Deleted(w, KeysAt(r, J))[k]
      BY Zenon DEF SameOn
    <3>1. {i \in I : r.keys[i] = k} = {i \in J : r.keys[i] = k} /\ d[k] = w[k]
      BY Zenon DEF SamePlaces, SameOn
    <3>2. k \in KeysAt(r, I) <=> k \in KeysAt(r, J)
      BY <3>1, Zenon DEF KeysAt
    <3> QED
      BY <3>1, <3>2, Zenon DEF Deleted
  <2> QED
    BY <1>3, <2>1, Zenon DEF Applied
<1>4. CASE r.op = "FLUSHDB"
  BY <1>4, Zenon DEF Applied, SameOn
<1>5. CASE r.op = "SADD"
  <2>1. r.keys[1] \in Key /\ Home[r.keys[1]] = s
    <3>1. Len(r.keys) = 1
      BY <1>5, CommandAssumption, Zenon DEF RoutedOp
    <3> QED
      BY <1>1, <1>5, <3>1 DEF KeysHere
  <2>2. SameOn(s, WithMembers(d, r.keys[1], r.members), WithMembers(w, r.keys[1], r.members))
    BY <2>1, Zenon DEF SameOn, WithMembers, IsMap
  <2> QED
    BY <1>5, <2>2, Zenon DEF Applied
<1>6. CASE r.op = "SMOVE"
  <2> DEFINE a == r.keys[1]
             b == r.keys[2]
             M == r.members
  <2>1. a \in Key /\ Home[a] = s /\ b \in Key /\ Home[b] = s
    <3>1. Len(r.keys) = 2
      BY <1>6, CommandAssumption, Zenon
    <3> QED
      BY <1>1, <1>6, <3>1 DEF KeysHere
  <2>2. d[a] = w[a]
    BY <2>1, Zenon DEF SameOn
  <2>3. Moves(d, r) <=> Moves(w, r)
    BY <2>2, Zenon DEF Moves
  <2> DEFINE e == WithoutMembers(d, a, M)
             u == WithoutMembers(w, a, M)
  <2>4. SameOn(s, e, u) /\ IsMap(e) /\ IsMap(u)
    BY <2>1, <2>2, Zenon DEF WithoutMembers, SameOn, IsMap
  <2>5. SameOn(s, WithMembers(e, b, M), WithMembers(u, b, M))
    <3> HIDE DEF e, u
    <3> QED
      BY <2>1, <2>4, Zenon DEF SameOn, WithMembers, IsMap
  <2>6. SameOn(s, SMove(d, r), SMove(w, r))
    BY <2>3, <2>5, Zenon DEF SMove
  <2> QED
    BY <1>6, <2>6, Zenon DEF Applied
<1>7. CASE r.op \notin {"SET", "MSET", "DEL", "FLUSHDB", "SADD", "SMOVE"}
  BY <1>7, Zenon DEF Applied
<1> QED
  BY <1>2, <1>3, <1>4, <1>5, <1>6, <1>7, Zenon

\* Map v has what the request makes of map w, for the keys of shard s.
Arrived(r, s, w, v) ==
    \A k \in Written(r) : Home[k] = s => v[k] = Applied(w, r, DOMAIN r.keys)[k]

\* Every shard that the request of c has visited has such moments.
Settled(c) ==
    conn[c].pc \in {"visit", "done"} /\ ~Misplaced(c) =>
        \A s \in Targets(c, conn[c].req) \ conn[c].todo :
            \E w, v \in since[c] : Arrived(conn[c].req, s, w, v)

\* The strengthening for the writes: the history holds the present moment while
\* a request is under way, and the moments of the visits made so far.
WInv ==
    /\ since = [c \in Conn |-> since[c]]
    /\ \A c \in Conn : \A w \in since[c] : IsMap(w)
    /\ \A c \in Conn : conn[c].pc = "visit" => Seen(dbs, conn[c].db) \in since[c]
    /\ \A c \in Conn : conn[c].pc = "done" =>
          /\ since[c] # {} /\ conn[c].todo = {}
          /\ conn[c].req.op = "SMOVE" => AllKeysSameShard(conn[c].req)
    /\ \A c \in Conn : Settled(c)

\* A request that is neither refused nor misplaced has its keys on its targets.
LEMMA ServedHere ==
  ASSUME NEW c \in Conn, NEW r \in Command, NEW s \in Targets(c, r),
         r.op = "SMOVE" => AllKeysSameShard(r),
         r.op \in SetOp => Home[r.keys[1]] = VcpuOf[c]
  PROVE  KeysHere(r, s)
<1>1. CASE r.op = "SADD"
  BY <1>1, RoutedTarget DEF KeysHere, RoutedOp
<1>2. CASE r.op = "SMOVE"
  <2>1. r.keys \in Seq(Key) /\ Len(r.keys) = 2
    BY <1>2, CommandAssumption, Zenon DEF Request
  <2>2. s = VcpuOf[c]
    BY <1>2, Zenon DEF Targets, RoutedOp, GroupedOp, EverywhereOp
  <2>3. Home[r.keys[1]] = s
    BY <1>2, <2>2, Zenon DEF SetOp
  <2>4. \A i \in DOMAIN r.keys : Home[r.keys[i]] = Home[r.keys[1]]
    BY <1>2, <2>1 DEF AllKeysSameShard, KeysAt
  <2> QED
    BY <2>3, <2>4, Zenon DEF KeysHere
<1> QED
  BY <1>1, <1>2, Zenon DEF KeysHere

LEMMA WrittenAreKeys == ASSUME NEW r \in Command PROVE Written(r) \subseteq Key
  BY CommandAssumption DEF Request, Written, KeysAt

\* A visit: the moments before and after it are the ones that shard s needs.
LEMMA VisitArrives ==
  ASSUME IInv, NEW c \in Conn, NEW s \in Shard, Visit(c, s),
         ~Refused(conn[c].req, dbs[s][conn[c].db]), ~Misplaced(c)
  PROVE  Arrived(conn[c].req, s, Seen(dbs, conn[c].db), Seen(dbs', conn[c].db))
<1> DEFINE r == conn[c].req
           n == conn[c].db
           d == dbs[s][n]
           w == Seen(dbs, n)
           e == Applied(d, r, Share(r, s))
<1>1. conn[c].pc = "visit" /\ s \in conn[c].todo
  BY Zenon DEF Visit, NextTarget
<1>2. IsBusy(c, conn[c]) /\ n \in DB
  BY <1>1 DEF IInv, IsIdle, Idle
<1>3. r \in Command /\ s \in Targets(c, r)
  BY <1>1, <1>2, Zenon DEF IsBusy
<1>4. dbs' = [dbs EXCEPT ![s][n] = e]
  BY Zenon DEF Visit
<1>5. IsMap(d) /\ IsMap(w)
  BY <1>2, Zenon DEF IInv, Seen, IsMap
<1>6. SameOn(s, d, w)
  BY Zenon DEF SameOn, Seen
<1>7. SamePlaces(r, s, Share(r, s), DOMAIN r.keys)
  BY Zenon DEF SamePlaces, Share
<1>8. KeysHere(r, s)
  BY <1>3, ServedHere, Zenon DEF Refused, Misplaced, SetOp
<1>9. SameOn(s, e, Applied(w, r, DOMAIN r.keys))
  BY <1>3, <1>5, <1>6, <1>7, <1>8, AppliedLocally, Zenon
<1>10. \A k \in Key : Home[k] = s => Seen(dbs', n)[k] = e[k]
  <2> HIDE DEF e
  <2> QED
    BY <1>2, <1>4, Zenon DEF IInv, Seen
<1> HIDE DEF e
<1> QED
  BY <1>3, <1>9, <1>10, WrittenAreKeys, Zenon DEF Arrived, SameOn

\* One closure keeps the history complete, for its own connection and the others.
LEMMA VisitKeepsWrites ==
  ASSUME IInv, WInv, NEW c \in Conn, NEW s \in Shard, Visit(c, s)
  PROVE  WInv'
<1> DEFINE r == conn[c].req
           n == conn[c].db
           d == dbs[s][n]
           todo == conn[c].todo \ {s}
<1>1. conn[c].pc = "visit" /\ s \in conn[c].todo
  BY Zenon DEF Visit, NextTarget
<1>2. IsBusy(c, conn[c]) /\ n \in DB /\ conn = [x \in Conn |-> conn[x]]
  BY <1>1 DEF IInv, IsIdle, Idle
<1>3. since' = [x \in Conn |-> since[x] \cup
                    IF conn[x].pc = "visit" THEN {Seen(dbs', conn[x].db)} ELSE {}]
  BY Zenon DEF Visit
<1>4. \A x \in Conn : x # c => conn'[x] = conn[x]
  BY <1>2, Zenon DEF Visit
<1>5. /\ conn'[c].db = n /\ conn'[c].req = r /\ conn'[c].todo = todo
      /\ conn'[c].pc \in {"visit", "done", "refused"}
      /\ conn'[c].pc = "refused" <=> Refused(r, d)
      /\ conn'[c].pc = "done" => todo = {}
  <2>1. CASE Refused(r, d)
    <3>1. conn' = [conn EXCEPT ![c].pc = "refused", ![c].todo = todo]
      BY <2>1, Zenon DEF Visit
    <3> QED
      BY <1>2, <2>1, <3>1, Zenon DEF IsBusy
  <2>2. CASE ~Refused(r, d)
    <3> DEFINE a == Answered(conn[c].ans, d, r, Share(r, s))
    <3>1. conn' = [conn EXCEPT ![c].pc = IF todo = {} THEN "done" ELSE "visit",
                               ![c].todo = todo, ![c].ans = a]
      BY <2>2, Zenon DEF Visit
    <3> HIDE DEF a
    <3> QED
      BY <1>2, <2>2, <3>1, Zenon DEF IsBusy
  <2> QED
    BY <2>1, <2>2, Zenon
<1>6. \A x \in Conn : since[x] \subseteq since'[x]
  BY <1>3, Zenon
<1>7. \A x \in Conn : conn[x].pc = "visit" => Seen(dbs', conn[x].db) \in since'[x]
  BY <1>3, Zenon
<1>8. \A x \in Conn : \A w \in since'[x] : IsMap(w)
  BY <1>3, Zenon DEF WInv, IsMap, Seen
<1>9. \A x \in Conn : conn'[x].pc = "visit" => Seen(dbs', conn'[x].db) \in since'[x]
  BY <1>1, <1>4, <1>5, <1>7, Zenon
<1>10. \A x \in Conn : conn'[x].pc = "done" =>
          /\ since'[x] # {} /\ conn'[x].todo = {}
          /\ conn'[x].req.op = "SMOVE" => AllKeysSameShard(conn'[x].req)
  <2>1. CASE conn'[c].pc = "done"
    <3>1. r.op = "SMOVE" => AllKeysSameShard(r)
      BY <1>5, <2>1, Zenon DEF Refused, SetOp
    <3> QED
      BY <1>1, <1>4, <1>5, <1>6, <1>7, <2>1, <3>1 DEF WInv
  <2>2. CASE conn'[c].pc # "done"
    BY <1>4, <1>6, <2>2 DEF WInv
  <2> QED
    BY <2>1, <2>2, Zenon
<1>11. ASSUME NEW x \in Conn, x # c PROVE Settled(x)'
  BY <1>4, <1>6, <1>11, Zenon DEF WInv, Settled, Misplaced
<1>12. Settled(c)'
  <2> SUFFICES ASSUME conn'[c].pc \in {"visit", "done"}, ~Misplaced(c)',
                      NEW y \in Targets(c, r) \ todo
               PROVE  \E w, v \in since'[c] : Arrived(r, y, w, v)
    BY <1>5, Zenon DEF Settled
  <2>1. ~Misplaced(c) /\ ~Refused(r, d)
    BY <1>5, Zenon DEF Misplaced
  <2>2. CASE y = s
    <3>1. Arrived(r, s, Seen(dbs, n), Seen(dbs', n))
      BY <2>1, VisitArrives, Zenon
    <3>2. Seen(dbs, n) \in since'[c] /\ Seen(dbs', n) \in since'[c]
      BY <1>1, <1>6, <1>7, Zenon DEF WInv
    <3> QED
      BY <2>2, <3>1, <3>2, Zenon
  <2>3. CASE y # s
    <3>1. PICK w, v \in since[c] : Arrived(r, y, w, v)
      BY <1>1, <2>1, <2>3, Zenon DEF WInv, Settled
    <3> QED
      BY <1>6, <3>1, Zenon
  <2> QED
    BY <2>2, <2>3, Zenon
<1> QED
  BY <1>3, <1>8, <1>9, <1>10, <1>11, <1>12, Zenon DEF WInv

LEMMA NextKeepsWrites == IInv /\ WInv /\ [Next]_vars => WInv'
<1> SUFFICES ASSUME IInv, WInv, [Next]_vars PROVE WInv'
  BY Zenon
<1>1. ASSUME NEW c \in Conn, NEW i \in DB, Select(c, i) PROVE WInv'
  BY <1>1, Zenon DEF IInv, WInv, Select, Idle, Settled, Misplaced
<1>2. ASSUME NEW c \in Conn, NEW r \in Command, Call(c, r) PROVE WInv'
  <2>1. /\ dbs' = dbs /\ \A x \in Conn : x # c => conn'[x] = conn[x] /\ since'[x] = since[x]
        /\ conn'[c].pc = "visit" /\ conn'[c].db = conn[c].db /\ conn'[c].req = r
        /\ conn'[c].todo = Targets(c, r) /\ since'[c] = {Seen(dbs, conn[c].db)}
        /\ since' = [x \in Conn |-> since'[x]]
    BY <1>2, Zenon DEF Call, IInv, WInv
  <2>2. Settled(c)'
    BY <2>1, Zenon DEF Settled
  <2>3. ASSUME NEW x \in Conn, x # c PROVE Settled(x)'
    BY <2>1, <2>3 DEF WInv, Settled, Misplaced
  <2>4. IsMap(Seen(dbs, conn[c].db))
    BY Zenon DEF IsMap, Seen
  <2> QED
    BY <2>1, <2>2, <2>3, <2>4 DEF WInv
<1>3. ASSUME NEW c \in Conn, NEW s \in Shard, Visit(c, s) PROVE WInv'
  BY <1>3, VisitKeepsWrites, Zenon
<1>4. ASSUME NEW c \in Conn, Return(c) PROVE WInv'
  BY <1>4 DEF IInv, WInv, Return, Idle, Settled, Misplaced
<1>5. CASE UNCHANGED vars
  BY <1>5, Zenon DEF WInv, vars, Settled, Misplaced
<1> QED
  BY <1>1, <1>2, <1>3, <1>4, <1>5, Zenon DEF Next

\* Every key that a finished request may have written is on one of its targets,
\* unless it is a command that only reads sets.
LEMMA WrittenOnTargets ==
  ASSUME NEW c \in Conn, NEW r \in Command, NEW k \in Written(r),
         r.op \notin {"SINTER", "SUNION", "SDIFF"},
         r.op = "SMOVE" => AllKeysSameShard(r),
         r.op \in SetOp => Home[r.keys[1]] = VcpuOf[c]
  PROVE  Home[k] \in Targets(c, r)
<1>1. r \in Request /\ Home[k] \in Shard
  BY WrittenAreKeys, CommandAssumption, HomeAssumption, Zenon
<1>2. CASE r.op \in RoutedOp
  BY <1>2, RoutedTarget DEF Written, KeysAt, RoutedOp
<1>3. CASE r.op \in GroupedOp
  <2>1. r.op \notin RoutedOp /\ r.op \notin EverywhereOp /\ r.op # "FLUSHDB"
    BY <1>3, Zenon DEF RoutedOp, GroupedOp, EverywhereOp
  <2>2. Targets(c, r) = {Home[r.keys[i]] : i \in DOMAIN r.keys}
    BY <1>3, <2>1, Zenon DEF Targets
  <2>3. PICK i \in DOMAIN r.keys : k = r.keys[i]
    BY <2>1, Zenon DEF Written, KeysAt
  <2> QED
    BY <2>2, <2>3, Zenon
<1>4. CASE r.op \in EverywhereOp
  BY <1>1, <1>4, Zenon DEF Targets, RoutedOp, GroupedOp, EverywhereOp
<1>5. CASE r.op = "SMOVE"
  <2>1. VcpuOf[c] \in Targets(c, r)
    BY <1>5, Zenon DEF Targets, RoutedOp, GroupedOp, EverywhereOp
  <2>2. KeysHere(r, VcpuOf[c])
    BY <1>5, <2>1, ServedHere, Zenon
  <2> QED
    BY <1>5, <2>1, <2>2, Zenon DEF KeysHere, Written, KeysAt
<1>6. r.op \in RoutedOp \cup GroupedOp \cup EverywhereOp \cup SetOp
  BY <1>1, Zenon DEF Request, KeyedOp
<1> QED
  BY <1>2, <1>3, <1>4, <1>5, <1>6, Zenon DEF SetOp

\* The moments of the visits, put together over the shards.
LEMMA WritesFromInv == IInv /\ WInv => WritesArrive
<1> SUFFICES ASSUME IInv, WInv, NEW c \in Conn, conn[c].pc = "done", ~Misplaced(c)
             PROVE  \E f, g \in Moments(c) : \A k \in Written(conn[c].req) :
                       Combined(g)[k] = Applied(Combined(f), conn[c].req, DOMAIN conn[c].req.keys)[k]
  BY Zenon DEF WritesArrive
<1> DEFINE r == conn[c].req
           T == Targets(c, r)
           Good(s, w) == \E v \in since[c] : Arrived(r, s, w, v)
           before(s) == IF s \in T THEN CHOOSE w \in since[c] : Good(s, w)
                        ELSE CHOOSE w \in since[c] : TRUE
           after(s) == IF s \in T THEN CHOOSE v \in since[c] : Arrived(r, s, before(s), v)
                       ELSE before(s)
           f == [s \in Shard |-> before(s)]
           g == [s \in Shard |-> after(s)]
<1>1. /\ r \in Command /\ since[c] # {} /\ conn[c].todo = {}
      /\ r.op = "SMOVE" => AllKeysSameShard(r)
      /\ r.op \in SetOp => Home[r.keys[1]] = VcpuOf[c]
  BY DEF IInv, WInv, IsIdle, Idle, IsBusy, Misplaced
<1>2. \A s \in T : \E w, v \in since[c] : Arrived(r, s, w, v)
  BY <1>1, Zenon DEF WInv, Settled
<1>3. \A s \in T : before(s) \in since[c] /\ Good(s, before(s))
  BY <1>2, Zenon
<1>4. \A s \in Shard : before(s) \in since[c]
  BY <1>1, <1>3, Zenon
<1> HIDE DEF before
<1>5. \A s \in T : after(s) \in since[c] /\ Arrived(r, s, before(s), after(s))
  BY <1>3, Zenon
<1>6. \A s \in Shard : after(s) \in since[c] /\ (s \notin T => after(s) = before(s))
  BY <1>4, <1>5, Zenon
<1> HIDE DEF after
<1>7. f \in Moments(c) /\ g \in Moments(c)
  BY <1>4, <1>6, Zenon DEF Moments
<1>8. ASSUME NEW k \in Written(r)
      PROVE  Combined(g)[k] = Applied(Combined(f), r, DOMAIN r.keys)[k]
  <2> DEFINE s == Home[k]
  <2>1. k \in Key /\ s \in Shard
    BY <1>1, <1>8, WrittenAreKeys, HomeAssumption, Zenon
  <2>2. Combined(g)[k] = after(s)[k] /\ Combined(f)[k] = before(s)[k]
    BY <2>1, Zenon DEF Combined
  <2>3. CASE s \in T
    <3>1. SameOn(s, Combined(f), before(s))
      BY <2>1, Zenon DEF SameOn, Combined
    <3>2. IsMap(Combined(f)) /\ IsMap(before(s))
      BY <1>4, <2>1 DEF WInv, IsMap, Combined
    <3>3. KeysHere(r, s)
      BY <1>1, <2>3, ServedHere, Zenon
    <3>4. SameOn(s, Applied(Combined(f), r, DOMAIN r.keys), Applied(before(s), r, DOMAIN r.keys))
      <4> HIDE DEF f
      <4> QED
        BY <1>1, <3>1, <3>2, <3>3, AppliedLocally, Zenon DEF SamePlaces
    <3>5. after(s)[k] = Applied(before(s), r, DOMAIN r.keys)[k]
      BY <1>5, <1>8, <2>3, Zenon DEF Arrived
    <3> QED
      BY <2>1, <2>2, <3>4, <3>5, Zenon DEF SameOn
  <2>4. CASE s \notin T
    <3>1. r.op \in {"SINTER", "SUNION", "SDIFF"}
      BY <1>1, <1>8, <2>4, WrittenOnTargets, Zenon
    <3>2. Applied(Combined(f), r, DOMAIN r.keys) = Combined(f)
      BY <3>1, Zenon DEF Applied
    <3> QED
      BY <1>6, <2>1, <2>2, <2>4, <3>2, Zenon
  <2> QED
    BY <2>3, <2>4, Zenon
<1> QED
  BY <1>7, <1>8, Zenon

\* No shard is left out and none is written in parts: when MSET, DEL, FLUSHDB or
\* any other command has finished, each shard has gone through a state with all
\* of the command's writes to it, for any number of shards and connections.
THEOREM AllWritesArrive == Spec => []WritesArrive
<1>1. Init => WInv
  BY DEF Init, Idle, WInv, Settled
<1> QED
  BY <1>1, StartHasInv, NextKeepsInv, NextKeepsWrites, WritesFromInv, PTL DEF Spec

-----------------------------------------------------------------------------
(* The answers.                                                              *)

\* What a map has of the shards in V, and map v with what map d has of shard s.
Within(w, V) == [k \in Key |-> IF Home[k] \in V THEN w[k] ELSE Absent]
Joined(v, d, s) == [k \in Key |-> IF Home[k] = s THEN d[k] ELSE v[k]]

Visited(c) == Targets(c, conn[c].req) \ conn[c].todo

\* Requests that visit one shard have an answer after that visit.
AnsweredAtOnce(c) ==
    /\ conn[c].pc = "visit" => conn[c].ans = NoAnswer(conn[c].req)
    /\ conn[c].pc = "done" => AnswerOfMoments(c)

\* The others have, so far, the answer of the shards that they have visited,
\* each of them at a moment of its own.
AnsweredInPart(c) ==
    \E f \in Moments(c) :
        LET r == conn[c].req
            w == Within(Combined(f), Visited(c))
        IN  /\ IsFiniteSet(Present(w))
            /\ conn[c].ans = Answered(NoAnswer(r), w, r, DOMAIN r.keys)

AnswerSoFar(c) ==
    conn[c].pc \in {"visit", "done"} /\ ~Misplaced(c) =>
        IF conn[c].req.op \in RoutedOp \cup SetOp THEN AnsweredAtOnce(c) ELSE AnsweredInPart(c)

\* The strengthening for the answers.  There may be infinitely many keys; those
\* that have a value are finitely many at any time, so that they can be counted.
AInv ==
    /\ \A s \in Shard, i \in DB : IsFiniteSet(Present(dbs[s][i]))
    /\ \A c \in Conn : AnswerSoFar(c)

\* A closure adds no key but those that its request names.
LEMMA PresentAfter ==
  ASSUME NEW r \in Command, NEW I \in SUBSET DOMAIN r.keys, NEW d, IsMap(d)
  PROVE  Present(Applied(d, r, I)) \subseteq Present(d) \cup KeysAt(r, DOMAIN r.keys)
<1>1. r.keys \in Seq(Key)
  BY CommandAssumption, Zenon DEF Request
<1>2. CASE r.op \in {"SET", "MSET"}
  BY <1>2, Zenon DEF Applied, Stored, Present, KeysAt
<1>3. CASE r.op = "DEL"
  BY <1>3, Zenon DEF Applied, Deleted, Present
<1>4. CASE r.op = "FLUSHDB"
  BY <1>4, Zenon DEF Applied, EmptyMap, Present
<1>5. CASE r.op = "SADD"
  <2>1. 1 \in DOMAIN r.keys
    BY <1>1, <1>5, CommandAssumption DEF RoutedOp
  <2>2. r.keys[1] \in KeysAt(r, DOMAIN r.keys)
    BY <2>1, Zenon DEF KeysAt
  <2>3. Applied(d, r, I) = WithMembers(d, r.keys[1], r.members)
    BY <1>5, Zenon DEF Applied
  <2>4. \A k \in Key : k # r.keys[1] => WithMembers(d, r.keys[1], r.members)[k] = d[k]
    BY Zenon DEF WithMembers, IsMap
  <2> QED
    BY <2>2, <2>3, <2>4, Zenon DEF Present
<1>6. CASE r.op = "SMOVE"
  <2>1. 1 \in DOMAIN r.keys /\ 2 \in DOMAIN r.keys
    BY <1>1, <1>6, CommandAssumption
  <2>2. r.keys[1] \in KeysAt(r, DOMAIN r.keys) /\ r.keys[2] \in KeysAt(r, DOMAIN r.keys)
    BY <2>1, Zenon DEF KeysAt
  <2>3. Applied(d, r, I) = SMove(d, r)
    BY <1>6, Zenon DEF Applied
  <2>4. \A k \in Key : k \notin {r.keys[1], r.keys[2]} => SMove(d, r)[k] = d[k]
    BY Zenon DEF SMove, WithMembers, WithoutMembers, IsMap
  <2> QED
    BY <2>2, <2>3, <2>4, Zenon DEF Present
<1>7. CASE r.op \notin {"SET", "MSET", "DEL", "FLUSHDB", "SADD", "SMOVE"}
  BY <1>7, Zenon DEF Applied
<1> QED
  BY <1>2, <1>3, <1>4, <1>5, <1>6, <1>7, Zenon

\* The keys of a request are finitely many.
LEMMA NamedFinite ==
  ASSUME NEW r \in Command, NEW I \in SUBSET DOMAIN r.keys
  PROVE  IsFiniteSet(I) /\ IsFiniteSet(KeysAt(r, I))
<1>1. DOMAIN r.keys = 1 .. Len(r.keys) /\ Len(r.keys) \in Nat
  BY CommandAssumption DEF Request
<1>2. IsFiniteSet(DOMAIN r.keys)
  BY <1>1, FS_Interval
<1>3. IsFiniteSet(I)
  BY <1>2, FS_Subset, Zenon
<1>4. IsFiniteSet({r.keys[i] : i \in I})
  <2> DEFINE g == [i \in I |-> r.keys[i]]
  <2>1. {r.keys[i] : i \in I} = {g[i] : i \in I}
    BY Zenon
  <2>2. g \in Surjection(I, {g[i] : i \in I})
    BY Zenon DEF Surjection
  <2> QED
    BY <1>3, <2>1, <2>2, FS_Surjection, Zenon
<1> QED
  BY <1>3, <1>4, Zenon DEF KeysAt

\* Two parts that have nothing in common are counted one after the other.
LEMMA CountedInParts ==
  ASSUME NEW S, NEW T, IsFiniteSet(S), IsFiniteSet(T), S \cap T = {}
  PROVE  /\ IsFiniteSet(S \cup T)
         /\ Cardinality(S \cup T) = 0 + Cardinality(S) + Cardinality(T)
         /\ Cardinality(S \cup T) \in Nat /\ Cardinality(S) \in Nat /\ Cardinality(T) \in Nat
<1>1. Cardinality(S \cap T) = 0
  BY FS_EmptySet, Zenon
<1>2. /\ Cardinality(S \cup T) = Cardinality(S) + Cardinality(T) - Cardinality(S \cap T)
      /\ IsFiniteSet(S \cup T)
  BY FS_Union, Zenon
<1>3. Cardinality(S) \in Nat /\ Cardinality(T) \in Nat /\ Cardinality(S \cup T) \in Nat
  BY <1>2, FS_CardinalityType, Zenon
<1> QED
  BY <1>1, <1>2, <1>3

-----------------------------------------------------------------------------
(* Requests that visit one shard.                                            *)

\* Their answer depends on the keys that they name and on no others.
LEMMA AnsweredByKeys ==
  ASSUME NEW r \in Command, NEW a, NEW d, NEW w, r.op \in RoutedOp \cup SetOp,
         \A i \in DOMAIN r.keys : d[r.keys[i]] = w[r.keys[i]]
  PROVE  Answered(a, d, r, DOMAIN r.keys) = Answered(a, w, r, DOMAIN r.keys)
<1>1. r.keys \in Seq(Key) /\ 1 \in DOMAIN r.keys
  BY CommandAssumption DEF Request, KeyedOp
<1>2. d[r.keys[1]] = w[r.keys[1]]
  BY <1>1, Zenon
<1>3. CASE r.op = "GET"
  <2>1. \A i \in DOMAIN a.vals : (IF i \in DOMAIN r.keys THEN d[r.keys[i]] ELSE a.vals[i])
                               = (IF i \in DOMAIN r.keys THEN w[r.keys[i]] ELSE a.vals[i])
    BY Zenon
  <2>2. [i \in DOMAIN a.vals |-> IF i \in DOMAIN r.keys THEN d[r.keys[i]] ELSE a.vals[i]]
      = [i \in DOMAIN a.vals |-> IF i \in DOMAIN r.keys THEN w[r.keys[i]] ELSE a.vals[i]]
    BY <2>1, Zenon
  <2>3. GotValues(a, d, r, DOMAIN r.keys) = GotValues(a, w, r, DOMAIN r.keys)
    BY <2>2, Zenon DEF GotValues
  <2> QED
    BY <1>3, <2>3, Zenon DEF Answered
<1>4. CASE r.op = "SET"
  BY <1>4, Zenon DEF Answered
<1>5. CASE r.op = "SADD"
  BY <1>2, <1>5, Zenon DEF Answered
<1>6. CASE r.op = "SMOVE"
  BY <1>2, <1>6, Zenon DEF Answered, Moves
<1>7. CASE r.op = "SINTER"
  <2>1. SInter(d, r) = SInter(w, r)
    BY Zenon DEF SInter
  <2> QED
    BY <1>7, <2>1, Zenon DEF Answered
<1>8. CASE r.op = "SUNION"
  <2>1. SUnion(d, r) = SUnion(w, r)
    BY Zenon DEF SUnion
  <2> QED
    BY <1>8, <2>1 DEF Answered
<1>9. CASE r.op = "SDIFF"
  <2>1. SDiff(d, r) = SDiff(w, r)
    BY <1>1, <1>2, Zenon DEF SDiff
  <2> QED
    BY <1>9, <2>1 DEF Answered
<1> QED
  BY <1>3, <1>4, <1>5, <1>6, <1>7, <1>8, <1>9, Zenon DEF RoutedOp, SetOp

\* A first key that is no set has no difference, whatever the other keys are.
LEMMA NoDifference ==
  ASSUME NEW r, NEW a, NEW d, NEW w, r.op = "SDIFF",
         ~IsSet(d[r.keys[1]]), d[r.keys[1]] = w[r.keys[1]]
  PROVE  Answered(a, d, r, DOMAIN r.keys) = Answered(a, w, r, DOMAIN r.keys)
<1>1. SDiff(d, r) = {} /\ SDiff(w, r) = {}
  BY Zenon DEF SDiff, MembersOf
<1> QED
  BY <1>1, Zenon DEF Answered

\* The shard that serves such a request gives the answer of the whole database.
LEMMA OneShardAnswers ==
  ASSUME NEW c \in Conn, NEW r \in Command, NEW s \in Targets(c, r), NEW d, NEW w, NEW a,
         r.op \in RoutedOp \cup SetOp, ~Refused(r, d), SameOn(s, d, w),
         r.op \in SetOp => Home[r.keys[1]] = VcpuOf[c]
  PROVE  Answered(a, d, r, Share(r, s)) = Answered(a, w, r, DOMAIN r.keys)
<1>1. Share(r, s) = DOMAIN r.keys
  BY Zenon DEF Share, RoutedOp, SetOp, GroupedOp
<1>2. r.keys \in Seq(Key) /\ 1 \in DOMAIN r.keys
  BY CommandAssumption DEF Request, KeyedOp
<1>3. Home[r.keys[1]] = s
  <2>1. CASE r.op \in RoutedOp
    BY <2>1, RoutedTarget
  <2>2. CASE r.op \in SetOp
    BY <2>2, Zenon DEF Targets, RoutedOp, GroupedOp, EverywhereOp, SetOp
  <2> QED
    BY <2>1, <2>2, Zenon
<1>4. CASE \A i \in DOMAIN r.keys : Home[r.keys[i]] = s
  <2>1. \A i \in DOMAIN r.keys : d[r.keys[i]] = w[r.keys[i]]
    BY <1>2, <1>4 DEF SameOn
  <2> QED
    BY <1>1, <2>1, AnsweredByKeys
<1>5. CASE \E i \in DOMAIN r.keys : Home[r.keys[i]] # s
  <2>1. r.op \in SetOp
    BY <1>3, <1>5, RoutedTarget, Zenon
  <2>2. ~AllKeysSameShard(r)
    BY <1>2, <1>3, <1>5 DEF AllKeysSameShard, KeysAt
  <2>3. r.op = "SDIFF" /\ ~IsSet(d[r.keys[1]])
    BY <2>1, <2>2, Zenon DEF Refused
  <2>4. d[r.keys[1]] = w[r.keys[1]]
    BY <1>2, <1>3 DEF SameOn
  <2> QED
    BY <1>1, <2>3, <2>4, NoDifference
<1> QED
  BY <1>4, <1>5, Zenon

\* The same of the requests that name the keys of several shards.
LEMMA GroupAnsweredByKeys ==
  ASSUME NEW r \in Command, NEW a, NEW d, NEW w, r.op \in GroupedOp,
         \A i \in DOMAIN r.keys : d[r.keys[i]] = w[r.keys[i]]
  PROVE  Answered(a, d, r, DOMAIN r.keys) = Answered(a, w, r, DOMAIN r.keys)
<1> DEFINE D == DOMAIN r.keys
<1>1. r.keys \in Seq(Key)
  BY CommandAssumption, Zenon DEF Request
<1>2. CASE r.op = "MGET"
  <2>1. [i \in DOMAIN a.vals |-> IF i \in D THEN d[r.keys[i]] ELSE a.vals[i]]
      = [i \in DOMAIN a.vals |-> IF i \in D THEN w[r.keys[i]] ELSE a.vals[i]]
    BY Zenon
  <2>2. GotValues(a, d, r, D) = GotValues(a, w, r, D)
    BY <2>1, Zenon DEF GotValues
  <2> QED
    BY <1>2, <2>2, Zenon DEF Answered
<1>3. CASE r.op = "EXISTS"
  <2>1. {i \in D : d[r.keys[i]] # Absent} = {i \in D : w[r.keys[i]] # Absent}
    BY Zenon
  <2>2. CountExisting(d, r, D) = CountExisting(w, r, D)
    BY <2>1, Zenon DEF CountExisting
  <2> QED
    BY <1>3, <2>2, Zenon DEF Answered
<1>4. CASE r.op = "DEL"
  <2>1. KeysAt(r, D) \cap Present(d) = KeysAt(r, D) \cap Present(w)
    BY <1>1, Zenon DEF KeysAt, Present
  <2>2. CountDeleted(d, r, D) = CountDeleted(w, r, D)
    BY <2>1, Zenon DEF CountDeleted
  <2> QED
    BY <1>4, <2>2, Zenon DEF Answered
<1>5. CASE r.op = "MSET"
  BY <1>5, Zenon DEF Answered
<1> QED
  BY <1>2, <1>3, <1>4, <1>5, Zenon DEF GroupedOp

-----------------------------------------------------------------------------
(* Requests that visit several shards.                                       *)

\* An answer, and what becomes of its fields.
Ans(vals, sum, found) == [vals |-> vals, sum |-> sum, found |-> found]

LEMMA Summed ==
  ASSUME NEW vals, NEW sum, NEW found, NEW m
  PROVE  [Ans(vals, sum, found) EXCEPT !.sum = @ + m] = Ans(vals, sum + m, found)
  BY DEF Ans

LEMMA ListedAs ==
  ASSUME NEW vals, NEW sum, NEW found, NEW d
  PROVE  Listed(Ans(vals, sum, found), d) = Ans(vals, sum + KeyCount(d), found \cup Present(d))
<1> DEFINE a == Ans(vals, sum, found)
           x == found \cup Present(d)
           y == sum + KeyCount(d)
<1>1. a.found = found /\ a.sum = sum
  BY Zenon DEF Ans
<1>2. Listed(a, d) = [a EXCEPT !.found = x, !.sum = y]
  BY <1>1, Zenon DEF Listed
<1> HIDE DEF x, y
<1>3. [a EXCEPT !.found = x] = Ans(vals, sum, x)
  BY DEF Ans
<1>4. [Ans(vals, sum, x) EXCEPT !.sum = y] = Ans(vals, y, x)
  BY DEF Ans
<1>5. [a EXCEPT !.found = x, !.sum = y] = [[a EXCEPT !.found = x] EXCEPT !.sum = y]
  BY Zenon DEF Ans
<1> QED
  BY <1>2, <1>3, <1>4, <1>5, Zenon DEF x, y

LEMMA GotAs ==
  ASSUME NEW vals, NEW sum, NEW found, NEW d, NEW r, NEW I
  PROVE  GotValues(Ans(vals, sum, found), d, r, I)
            = Ans([i \in DOMAIN vals |-> IF i \in I THEN d[r.keys[i]] ELSE vals[i]], sum, found)
  BY DEF Ans, GotValues

\* How the several kinds of requests add to an answer.
LEMMA AnsweredAs ==
  ASSUME NEW a, NEW d, NEW r, NEW I
  PROVE  /\ r.op = "MGET" => Answered(a, d, r, I) = GotValues(a, d, r, I)
         /\ r.op = "EXISTS" => Answered(a, d, r, I) = [a EXCEPT !.sum = @ + CountExisting(d, r, I)]
         /\ r.op = "DEL" => Answered(a, d, r, I) = [a EXCEPT !.sum = @ + CountDeleted(d, r, I)]
         /\ r.op = "DBSIZE" => Answered(a, d, r, I) = [a EXCEPT !.sum = @ + KeyCount(d)]
         /\ r.op \in {"KEYS", "RANDOMKEY"} => Answered(a, d, r, I) = Listed(a, d)
         /\ r.op \in {"MSET", "FLUSHDB"} => Answered(a, d, r, I) = a
  BY Zenon DEF Answered

\* The keys of one more shard are others than those that were there before.
LEMMA PresentInParts ==
  ASSUME NEW s, NEW V, s \notin V, NEW d, NEW v, Owned(d, s),
         \A k \in Key : v[k] # Absent => Home[k] \in V
  PROVE  /\ Present(Joined(v, d, s)) = Present(v) \cup Present(d)
         /\ Present(v) \cap Present(d) = {}
  BY Zenon DEF Present, Joined, Owned

\* EXISTS and DEL: what the parts count adds up.
LEMMA InParts ==
  ASSUME NEW r, NEW vals, NEW v, NEW d, NEW u, NEW D, NEW I, r.op \in {"EXISTS", "DEL"},
         NEW x \in Nat, NEW y \in Nat, NEW z,
         r.op = "EXISTS" => CountExisting(v, r, D) = x /\ CountExisting(d, r, I) = y
                            /\ CountExisting(u, r, D) = z,
         r.op = "DEL" => CountDeleted(v, r, D) = x /\ CountDeleted(d, r, I) = y
                         /\ CountDeleted(u, r, D) = z,
         z = 0 + x + y
  PROVE  Answered(Answered(Ans(vals, 0, {}), v, r, D), d, r, I) = Answered(Ans(vals, 0, {}), u, r, D)
<1>1. Answered(Ans(vals, 0, {}), v, r, D) = Ans(vals, 0 + x, {})
  BY AnsweredAs, Summed
<1>2. Answered(Ans(vals, 0 + x, {}), d, r, I) = Ans(vals, 0 + x + y, {})
  BY AnsweredAs, Summed
<1>3. Answered(Ans(vals, 0, {}), u, r, D) = Ans(vals, 0 + z, {})
  BY AnsweredAs, Summed
<1>4. 0 + x + y = 0 + z
  OBVIOUS
<1> QED
  BY <1>1, <1>2, <1>3, <1>4

\* One more shard turns the answer of the shards so far into the answer of
\* these and the one more.
LEMMA OneMoreAnswers ==
  ASSUME NEW r \in Command, r.op \in GroupedOp \cup EverywhereOp,
         NEW s, NEW V, s \notin V, NEW d, NEW v, Owned(d, s),
         \A k \in Key : v[k] # Absent => Home[k] \in V,
         IsFiniteSet(Present(d)), IsFiniteSet(Present(v))
  PROVE  Answered(Answered(NoAnswer(r), v, r, DOMAIN r.keys), d, r, Share(r, s))
            = Answered(NoAnswer(r), Joined(v, d, s), r, DOMAIN r.keys)
<1> DEFINE D == DOMAIN r.keys
           I == Share(r, s)
           u == Joined(v, d, s)
           n == NoAnswer(r)
<1>1. r.keys \in Seq(Key) /\ \A i \in D : r.keys[i] \in Key
  BY CommandAssumption DEF Request
<1>2. n = Ans([i \in D |-> Absent], 0, {})
  BY Zenon DEF NoAnswer, Ans
<1>3. /\ Present(u) = Present(v) \cup Present(d)
      /\ Present(v) \cap Present(d) = {}
  BY PresentInParts, Zenon
<1>4. Cardinality(Present(u)) = 0 + Cardinality(Present(v)) + Cardinality(Present(d))
  BY <1>3, CountedInParts, Zenon
<1> DEFINE none == [i \in D |-> Absent]
<1>5. CASE r.op = "MGET"
  <2> DEFINE b == [i \in D |-> v[r.keys[i]]]
             e == [i \in D |-> u[r.keys[i]]]
  <2>1. \A m : [i \in DOMAIN none |-> IF i \in D THEN m[r.keys[i]] ELSE none[i]] = [i \in D |-> m[r.keys[i]]]
    BY Zenon
  <2> HIDE DEF none
  <2>2. GotValues(n, v, r, D) = Ans(b, 0, {})
    BY <1>2, <2>1, GotAs DEF none
  <2>3. GotValues(n, u, r, D) = Ans(e, 0, {})
    <3> HIDE DEF u
    <3> QED
      BY <1>2, <2>1, GotAs DEF none
  <2>4. I = {i \in D : Home[r.keys[i]] = s}
    BY <1>5, Zenon DEF Share, GroupedOp
  <2>5. \A i \in D : u[r.keys[i]] = IF i \in I THEN d[r.keys[i]] ELSE v[r.keys[i]]
    BY <1>1, <2>4, Zenon DEF Joined
  <2>6. e = [i \in DOMAIN b |-> IF i \in I THEN d[r.keys[i]] ELSE b[i]]
    BY <2>5, Zenon
  <2> HIDE DEF b, e
  <2>7. GotValues(Ans(b, 0, {}), d, r, I) = Ans(e, 0, {})
    BY <2>6, GotAs
  <2> QED
    BY <1>5, <2>2, <2>3, <2>7, AnsweredAs
<1>6. CASE r.op = "EXISTS"
  <2> DEFINE X == {i \in D : v[r.keys[i]] # Absent}
             Y == {i \in I : d[r.keys[i]] # Absent}
             Z == {i \in D : u[r.keys[i]] # Absent}
  <2>1. I = {i \in D : Home[r.keys[i]] = s}
    BY <1>6, Zenon DEF Share, GroupedOp
  <2>2. Z = X \cup Y /\ X \cap Y = {}
    BY <1>1, <2>1, Zenon DEF Joined, Owned
  <2>3. IsFiniteSet(X) /\ IsFiniteSet(Y)
    BY <2>1, NamedFinite, Zenon
  <2>4. Cardinality(Z) = 0 + Cardinality(X) + Cardinality(Y)
    <3> HIDE DEF X, Y, Z
    <3> QED
      BY <2>2, <2>3, CountedInParts
  <2>5. /\ CountExisting(v, r, D) = Cardinality(X) /\ CountExisting(u, r, D) = Cardinality(Z)
        /\ CountExisting(d, r, I) = Cardinality(Y)
    BY Zenon DEF CountExisting
  <2>6. Cardinality(X) \in Nat /\ Cardinality(Y) \in Nat
    BY <2>3, FS_CardinalityType, Zenon
  <2> QED
    BY <1>2, <1>6, <2>4, <2>5, <2>6, InParts
<1>7. CASE r.op = "DEL"
  <2> DEFINE X == KeysAt(r, D) \cap Present(v)
             Y == KeysAt(r, I) \cap Present(d)
             Z == KeysAt(r, D) \cap Present(u)
  <2>1. I = {i \in D : Home[r.keys[i]] = s}
    BY <1>7, Zenon DEF Share, GroupedOp
  <2>2. Z = X \cup Y /\ X \cap Y = {}
    <3>1. \A k \in Present(d) : k \in KeysAt(r, D) <=> k \in KeysAt(r, I)
      BY <2>1, Zenon DEF KeysAt, Present, Owned
    <3> QED
      BY <1>3, <3>1, Zenon
  <2>3. IsFiniteSet(X) /\ IsFiniteSet(Y)
    BY FS_Subset, Zenon
  <2>4. Cardinality(Z) = 0 + Cardinality(X) + Cardinality(Y)
    <3> HIDE DEF X, Y, Z
    <3> QED
      BY <2>2, <2>3, CountedInParts, Zenon
  <2>5. /\ CountDeleted(v, r, D) = Cardinality(X) /\ CountDeleted(u, r, D) = Cardinality(Z)
        /\ CountDeleted(d, r, I) = Cardinality(Y)
    BY Zenon DEF CountDeleted
  <2>6. Cardinality(X) \in Nat /\ Cardinality(Y) \in Nat
    BY <2>3, FS_CardinalityType, Zenon
  <2> QED
    BY <1>2, <1>7, <2>4, <2>5, <2>6, InParts
<1>8. CASE r.op \in {"DBSIZE", "KEYS", "RANDOMKEY"}
  <2>1. Cardinality(Present(v)) \in Nat /\ Cardinality(Present(d)) \in Nat
    BY FS_CardinalityType, Zenon
  <2>2. KeyCount(u) = 0 + KeyCount(v) + KeyCount(d) /\ KeyCount(v) \in Nat /\ KeyCount(d) \in Nat
    BY <1>4, <2>1, Zenon DEF KeyCount
  <2> HIDE DEF none
  <2>3. CASE r.op = "DBSIZE"
    <3>1. /\ Answered(n, v, r, D) = Ans(none, 0 + KeyCount(v), {})
          /\ Answered(n, u, r, D) = Ans(none, 0 + KeyCount(u), {})
      BY <1>2, <2>3, AnsweredAs, Summed DEF none
    <3>2. Answered(Ans(none, 0 + KeyCount(v), {}), d, r, I) = Ans(none, 0 + KeyCount(v) + KeyCount(d), {})
      BY <2>3, AnsweredAs, Summed
    <3> QED
      BY <2>2, <3>1, <3>2
  <2>4. CASE r.op \in {"KEYS", "RANDOMKEY"}
    <3>1. /\ Answered(n, v, r, D) = Ans(none, 0 + KeyCount(v), {} \cup Present(v))
          /\ Answered(n, u, r, D) = Ans(none, 0 + KeyCount(u), {} \cup Present(u))
      BY <1>2, <2>4, AnsweredAs, ListedAs DEF none
    <3>2. Answered(Ans(none, 0 + KeyCount(v), {} \cup Present(v)), d, r, I)
             = Ans(none, 0 + KeyCount(v) + KeyCount(d), ({} \cup Present(v)) \cup Present(d))
      BY <2>4, AnsweredAs, ListedAs
    <3>3. ({} \cup Present(v)) \cup Present(d) = {} \cup Present(u)
      BY <1>3, Zenon
    <3>4. 0 + KeyCount(v) + KeyCount(d) = 0 + KeyCount(u)
      BY <2>2
    <3> QED
      BY <3>1, <3>2, <3>3, <3>4, Zenon
  <2> QED
    BY <1>8, <2>3, <2>4, Zenon
<1>9. CASE r.op \in {"MSET", "FLUSHDB"}
  <2> QED
    BY <1>9, AnsweredAs
<1> QED
  BY <1>5, <1>6, <1>7, <1>8, <1>9 DEF GroupedOp, EverywhereOp

\* No shard, no answer.
LEMMA NothingAnswers ==
  ASSUME NEW r \in Command, r.op \in GroupedOp \cup EverywhereOp
  PROVE  Answered(NoAnswer(r), EmptyMap, r, DOMAIN r.keys) = NoAnswer(r)
<1> DEFINE D == DOMAIN r.keys
           n == NoAnswer(r)
<1> DEFINE none == [i \in D |-> Absent]
<1>1. n = Ans(none, 0, {})
  BY Zenon DEF NoAnswer, Ans
<1>2. r.keys \in Seq(Key) /\ \A i \in D : EmptyMap[r.keys[i]] = Absent
  BY CommandAssumption DEF Request, EmptyMap
<1>3. Present(EmptyMap) = {} /\ {i \in D : EmptyMap[r.keys[i]] # Absent} = {}
  BY <1>2, Zenon DEF Present, EmptyMap
<1>4. Cardinality({}) = 0
  BY FS_EmptySet, Zenon
<1>5. /\ KeyCount(EmptyMap) = 0 /\ CountDeleted(EmptyMap, r, D) = 0
      /\ CountExisting(EmptyMap, r, D) = 0
  <2>1. KeysAt(r, D) \cap {} = {}
    BY Zenon
  <2> QED
    BY <1>3, <1>4, <2>1, Zenon DEF KeyCount, CountDeleted, CountExisting
<1>6. [i \in DOMAIN none |-> IF i \in D THEN EmptyMap[r.keys[i]] ELSE none[i]] = none
  BY <1>2, Zenon
<1>7. {} \cup Present(EmptyMap) = {} /\ 0 + 0 = 0
  BY <1>3
<1> HIDE DEF none
<1>8. CASE r.op = "MGET"
  BY <1>1, <1>6, <1>8, GotAs, AnsweredAs
<1>9. CASE r.op \in {"KEYS", "RANDOMKEY"}
  BY <1>1, <1>5, <1>7, <1>9, ListedAs, AnsweredAs
<1>10. CASE r.op \in {"EXISTS", "DEL", "DBSIZE"}
  BY <1>1, <1>5, <1>7, <1>10, Summed, AnsweredAs
<1>11. CASE r.op \in {"MSET", "FLUSHDB"}
  BY <1>11, AnsweredAs
<1> QED
  BY <1>8, <1>9, <1>10, <1>11 DEF GroupedOp, EverywhereOp

-----------------------------------------------------------------------------
(* The steps.                                                                *)

\* A request that needs one shard has no other target.
LEMMA OneTarget ==
  ASSUME NEW c \in Conn, NEW r \in Command, r.op \in RoutedOp \cup SetOp
  PROVE  \E s : Targets(c, r) = {s}
<1>1. CASE r.op \in RoutedOp
  BY <1>1, RoutedTarget, Zenon
<1>2. CASE r.op \in SetOp
  BY <1>2, Zenon DEF Targets, RoutedOp, GroupedOp, EverywhereOp, SetOp
<1> QED
  BY <1>1, <1>2, Zenon

\* Moments that have been are not lost when the history grows.
LEMMA MomentsStay ==
  ASSUME NEW c \in Conn, AnswerSoFar(c), conn'[c] = conn[c], since[c] \subseteq since'[c]
  PROVE  AnswerSoFar(c)'
<1>1. Moments(c) \subseteq Moments(c)'
  BY Zenon DEF Moments
<1>2. (Misplaced(c)' <=> Misplaced(c)) /\ Visited(c)' = Visited(c)
  BY Zenon DEF Misplaced, Visited
<1>3. AnswerOfMoments(c) => AnswerOfMoments(c)'
  BY <1>1, Zenon DEF AnswerOfMoments
<1>4. AnsweredInPart(c) => AnsweredInPart(c)'
  BY <1>1, <1>2, Zenon DEF AnsweredInPart
<1> QED
  BY <1>2, <1>3, <1>4 DEF AnswerSoFar, AnsweredAtOnce

\* A closure leaves finitely many keys behind.
LEMMA VisitKeepsFinite ==
  ASSUME IInv, AInv, NEW c \in Conn, NEW s \in Shard, Visit(c, s)
  PROVE  \A x \in Shard, i \in DB : IsFiniteSet(Present(dbs'[x][i]))
<1> DEFINE r == conn[c].req
           n == conn[c].db
           d == dbs[s][n]
           e == Applied(d, r, Share(r, s))
<1>1. conn[c].pc = "visit"
  BY Zenon DEF Visit
<1>2. IsBusy(c, conn[c]) /\ n \in DB
  BY <1>1 DEF IInv, IsIdle, Idle
<1>3. CASE Refused(r, d)
  BY <1>3, Zenon DEF Visit, AInv
<1>4. CASE ~Refused(r, d)
  <2>1. dbs' = [dbs EXCEPT ![s][n] = e]
    BY <1>4, Zenon DEF Visit
  <2>2. r \in Command /\ IsMap(d) /\ IsFiniteSet(Present(d))
    BY <1>2, Zenon DEF IsBusy, IInv, AInv
  <2>3. Share(r, s) \in SUBSET DOMAIN r.keys
    BY Zenon DEF Share
  <2>4. Present(e) \subseteq Present(d) \cup KeysAt(r, DOMAIN r.keys)
    BY <2>2, <2>3, PresentAfter, Zenon
  <2>5. IsFiniteSet(KeysAt(r, DOMAIN r.keys))
    BY <2>2, NamedFinite, Zenon
  <2>6. IsFiniteSet(Present(d) \cup KeysAt(r, DOMAIN r.keys))
    BY <2>2, <2>5, FS_Union, Zenon
  <2>7. IsFiniteSet(Present(e))
    BY <2>4, <2>6, FS_Subset, Zenon
  <2> HIDE DEF e
  <2> QED
    BY <1>2, <2>1, <2>7, Zenon DEF IInv, AInv
<1> QED
  BY <1>3, <1>4, Zenon

\* The database as it is before a visit is one of its moments.
LEMMA SeenAtOnce ==
  ASSUME NEW D, NEW i
  PROVE  Combined([x \in Shard |-> Seen(D, i)]) = Seen(D, i)
  BY HomeAssumption, Zenon DEF Combined, Seen

\* The visit that a request with one target consists of.
LEMMA OnlyVisitAnswers ==
  ASSUME IInv, WInv, AInv, NEW c \in Conn, NEW s \in Shard, Visit(c, s),
         ~Refused(conn[c].req, dbs[s][conn[c].db]), ~Misplaced(c),
         conn[c].req.op \in RoutedOp \cup SetOp, Seen(dbs, conn[c].db) \in since'[c],
         conn'[c].req = conn[c].req, conn'[c].pc = "done",
         conn'[c].ans = Answered(conn[c].ans, dbs[s][conn[c].db], conn[c].req, Share(conn[c].req, s))
  PROVE  AnswerOfMoments(c)'
<1> DEFINE r == conn[c].req
           n == conn[c].db
           d == dbs[s][n]
           w == Seen(dbs, n)
           f == [x \in Shard |-> w]
<1>1. conn[c].pc = "visit" /\ s \in conn[c].todo
  BY Zenon DEF Visit, NextTarget
<1>2. IsBusy(c, conn[c])
  BY <1>1 DEF IInv, IsIdle, Idle
<1>3. r \in Command /\ s \in Targets(c, r)
  BY <1>1, <1>2, Zenon DEF IsBusy
<1>4. conn[c].ans = NoAnswer(r)
  BY <1>1, Zenon DEF AInv, AnswerSoFar, AnsweredAtOnce
<1>5. SameOn(s, d, w)
  BY Zenon DEF SameOn, Seen
<1>6. Answered(NoAnswer(r), d, r, Share(r, s)) = Answered(NoAnswer(r), w, r, DOMAIN r.keys)
  BY <1>3, <1>5, OneShardAnswers DEF Misplaced
<1>7. Combined(f) = w
  BY SeenAtOnce, Zenon
<1>8. f \in Moments(c)'
  BY Zenon DEF Moments
<1> HIDE DEF f, w
<1> QED
  BY <1>4, <1>6, <1>7, <1>8 DEF AnswerOfMoments

\* One visit of several.
LEMMA AnotherVisitAnswers ==
  ASSUME IInv, WInv, AInv, NEW c \in Conn, NEW s \in Shard, Visit(c, s),
         ~Misplaced(c), conn[c].req.op \in GroupedOp \cup EverywhereOp,
         Seen(dbs, conn[c].db) \in since'[c], since[c] \subseteq since'[c],
         conn'[c].req = conn[c].req, conn'[c].todo = conn[c].todo \ {s},
         conn'[c].ans = Answered(conn[c].ans, dbs[s][conn[c].db], conn[c].req, Share(conn[c].req, s))
  PROVE  AnsweredInPart(c)'
<1> DEFINE r == conn[c].req
           n == conn[c].db
           d == dbs[s][n]
           w == Seen(dbs, n)
           V == Visited(c)
<1>1. conn[c].pc = "visit" /\ s \in conn[c].todo
  BY Zenon DEF Visit, NextTarget
<1>2. IsBusy(c, conn[c]) /\ n \in DB
  BY <1>1 DEF IInv, IsIdle, Idle
<1>3. r \in Command /\ s \in Targets(c, r)
  BY <1>1, <1>2, Zenon DEF IsBusy
<1>4. s \notin V /\ Visited(c)' = V \cup {s}
  BY <1>1, <1>3, Zenon DEF Visited
<1>5. r.op \notin RoutedOp \cup SetOp
  BY Zenon DEF RoutedOp, SetOp, GroupedOp, EverywhereOp
<1>6. PICK f \in Moments(c) :
          /\ IsFiniteSet(Present(Within(Combined(f), V)))
          /\ conn[c].ans = Answered(NoAnswer(r), Within(Combined(f), V), r, DOMAIN r.keys)
  BY <1>1, <1>5, Zenon DEF AInv, AnswerSoFar, AnsweredInPart
<1> DEFINE v == Within(Combined(f), V)
           g == [f EXCEPT ![s] = w]
<1>7. g \in Moments(c)'
  BY Zenon DEF Moments
<1>8. Owned(d, s) /\ IsFiniteSet(Present(d))
  BY <1>2, Zenon DEF IInv, AInv
<1>9. \A k \in Key : v[k] # Absent => Home[k] \in V
  BY Zenon DEF Within
<1>10. Within(Combined(g), V \cup {s}) = Joined(v, d, s)
  <2>1. \A k \in Key : Combined(g)[k] = IF Home[k] = s THEN d[k] ELSE Combined(f)[k]
    BY HomeAssumption, Zenon DEF Combined, Moments, Seen
  <2> QED
    BY <1>4, <2>1, Zenon DEF Within, Joined
<1> HIDE DEF v, d, V
<1>11. IsFiniteSet(Present(Joined(v, d, s)))
  <2>1. Present(Joined(v, d, s)) = Present(v) \cup Present(d)
    BY <1>4, <1>8, <1>9, PresentInParts
  <2>2. IsFiniteSet(Present(v)) /\ IsFiniteSet(Present(d))
    BY <1>6, <1>8, Zenon DEF v
  <2>3. IsFiniteSet(Present(v) \cup Present(d))
    BY <2>2, FS_Union, Zenon
  <2> QED
    BY <2>1, <2>3, Zenon
<1>12. Answered(conn[c].ans, d, r, Share(r, s)) = Answered(NoAnswer(r), Joined(v, d, s), r, DOMAIN r.keys)
  <2>1. conn[c].ans = Answered(NoAnswer(r), v, r, DOMAIN r.keys) /\ IsFiniteSet(Present(v))
    BY <1>6, Zenon DEF v
  <2>2. Answered(Answered(NoAnswer(r), v, r, DOMAIN r.keys), d, r, Share(r, s))
           = Answered(NoAnswer(r), Joined(v, d, s), r, DOMAIN r.keys)
    <3>1. r \in Command /\ r.op \in GroupedOp \cup EverywhereOp /\ s \notin V
      BY <1>3, <1>4, Zenon
    <3> HIDE DEF r
    <3> QED BY <1>8, <1>9, <2>1, <3>1, OneMoreAnswers
  <2> QED
    BY <2>1, <2>2, Zenon
<1> HIDE DEF g
<1> QED
  BY <1>4, <1>7, <1>10, <1>11, <1>12 DEF AnsweredInPart, d, V

\* One closure, seen by its own connection and by the others.
LEMMA VisitKeepsAnswers ==
  ASSUME IInv, WInv, AInv, NEW c \in Conn, NEW s \in Shard, Visit(c, s)
  PROVE  AInv'
<1> DEFINE r == conn[c].req
           n == conn[c].db
           d == dbs[s][n]
           todo == conn[c].todo \ {s}
           a == Answered(conn[c].ans, d, r, Share(r, s))
<1>1. conn[c].pc = "visit" /\ s \in conn[c].todo
  BY Zenon DEF Visit, NextTarget
<1>2. IsBusy(c, conn[c]) /\ n \in DB /\ conn = [x \in Conn |-> conn[x]]
  BY <1>1 DEF IInv, IsIdle, Idle
<1>3. r \in Command /\ conn[c].todo \subseteq Targets(c, r)
  BY <1>2, Zenon DEF IsBusy
<1>4. since' = [x \in Conn |-> since[x] \cup
                    IF conn[x].pc = "visit" THEN {Seen(dbs', conn[x].db)} ELSE {}]
  BY Zenon DEF Visit
<1>5. \A x \in Conn : since[x] \subseteq since'[x]
  BY <1>4, Zenon
<1>6. Seen(dbs, n) \in since'[c]
  BY <1>1, <1>5, Zenon DEF WInv
<1>7. \A x \in Conn : x # c => conn'[x] = conn[x]
  BY <1>2, Zenon DEF Visit
<1>8. \A x \in Conn : x # c => AnswerSoFar(x)'
  BY <1>5, <1>7, MomentsStay DEF AInv
<1>9. AnswerSoFar(c)'
  <2>1. CASE Refused(r, d)
    <3>1. conn' = [conn EXCEPT ![c].pc = "refused", ![c].todo = todo]
      BY <2>1, Zenon DEF Visit
    <3>2. conn'[c].pc = "refused"
      BY <1>2, <3>1, Zenon DEF IsBusy
    <3> QED
      BY <3>2, Zenon DEF AnswerSoFar
  <2>2. CASE ~Refused(r, d)
    <3>1. conn' = [conn EXCEPT ![c].pc = IF todo = {} THEN "done" ELSE "visit",
                               ![c].todo = todo, ![c].ans = a]
      BY <2>2, Zenon DEF Visit
    <3> HIDE DEF a
    <3>2. /\ conn'[c].pc = (IF todo = {} THEN "done" ELSE "visit")
          /\ conn'[c].todo = todo /\ conn'[c].ans = a /\ conn'[c].req = r
      BY <1>2, <3>1, Zenon DEF IsBusy
    <3> USE DEF a
    <3>3. SUFFICES ASSUME ~Misplaced(c)'
                   PROVE  IF r.op \in RoutedOp \cup SetOp THEN AnsweredAtOnce(c)' ELSE AnsweredInPart(c)'
      BY <3>2, Zenon DEF AnswerSoFar
    <3>4. ~Misplaced(c)
      BY <3>2, <3>3, Zenon DEF Misplaced
    <3>5. CASE r.op \in RoutedOp \cup SetOp
      <4>1. todo = {}
        BY <1>1, <1>3, <3>5, OneTarget
      <4>2. AnswerOfMoments(c)'
        BY <1>6, <2>2, <3>2, <3>4, <3>5, <4>1, OnlyVisitAnswers, Zenon
      <4> QED
        BY <3>2, <3>5, <4>1, <4>2, Zenon DEF AnsweredAtOnce
    <3>6. CASE r.op \notin RoutedOp \cup SetOp
      <4>1. r.op \in GroupedOp \cup EverywhereOp
        BY <1>3, <3>6, CommandAssumption, Zenon DEF Request, KeyedOp
      <4>2. AnsweredInPart(c)'
        BY <1>5, <1>6, <3>2, <3>4, <4>1, AnotherVisitAnswers, Zenon
      <4> QED
        BY <3>6, <4>2, Zenon
    <3> QED
      BY <3>5, <3>6, Zenon
  <2> QED
    BY <2>1, <2>2
<1> QED
  BY <1>8, <1>9, VisitKeepsFinite, Zenon DEF AInv

\* A new request has asked nobody yet.
LEMMA CallKeepsAnswers ==
  ASSUME IInv, WInv, AInv, NEW c \in Conn, NEW r \in Command, Call(c, r)
  PROVE  AInv'
<1> DEFINE w == Seen(dbs, conn[c].db)
           f == [x \in Shard |-> w]
<1>1. /\ dbs' = dbs /\ \A x \in Conn : x # c => conn'[x] = conn[x] /\ since'[x] = since[x]
      /\ conn'[c].pc = "visit" /\ conn'[c].req = r /\ conn'[c].ans = NoAnswer(r)
      /\ conn'[c].todo = Targets(c, r) /\ since'[c] = {w}
  BY Zenon DEF Call, IInv, WInv
<1>2. \A x \in Conn : x # c => AnswerSoFar(x)'
  BY <1>1, MomentsStay, Zenon DEF AInv
<1>3. f \in Moments(c)'
  BY <1>1, Zenon DEF Moments
<1>4. Within(Combined(f), Visited(c)') = EmptyMap
  BY <1>1 DEF Visited, Within, EmptyMap
<1>5. IsFiniteSet(Present(EmptyMap))
  <2>1. Present(EmptyMap) = {}
    BY Zenon DEF Present, EmptyMap
  <2> QED
    BY <2>1, FS_EmptySet, Zenon
<1> HIDE DEF f
<1>6. AnswerSoFar(c)'
  <2>1. CASE r.op \in RoutedOp \cup SetOp
    BY <1>1, <2>1, Zenon DEF AnswerSoFar, AnsweredAtOnce
  <2>2. CASE r.op \notin RoutedOp \cup SetOp
    <3>1. r.op \in GroupedOp \cup EverywhereOp
      BY <2>2, CommandAssumption, Zenon DEF Request, KeyedOp
    <3>2. Answered(NoAnswer(r), EmptyMap, r, DOMAIN r.keys) = NoAnswer(r)
      BY <3>1, NothingAnswers, Zenon
    <3>3. AnsweredInPart(c)'
      BY <1>1, <1>3, <1>4, <1>5, <3>2 DEF AnsweredInPart
    <3> QED
      BY <1>1, <2>2, <3>3 DEF AnswerSoFar
  <2> QED
    BY <2>1, <2>2, Zenon
<1> QED
  BY <1>1, <1>2, <1>6, Zenon DEF AInv

LEMMA NextKeepsAnswers == IInv /\ WInv /\ AInv /\ [Next]_vars => AInv'
<1> SUFFICES ASSUME IInv, WInv, AInv, [Next]_vars PROVE AInv'
  BY Zenon
<1>1. ASSUME NEW c \in Conn, dbs' = dbs, conn'[c].pc = "idle",
             \A x \in Conn : x # c => conn'[x] = conn[x] /\ since'[x] = since[x]
      PROVE  AInv'
  <2>1. \A x \in Conn : x # c => AnswerSoFar(x)'
    BY <1>1, MomentsStay, Zenon DEF AInv
  <2>2. AnswerSoFar(c)'
    BY <1>1, Zenon DEF AnswerSoFar
  <2> QED
    BY <1>1, <2>1, <2>2, Zenon DEF AInv
<1>2. ASSUME NEW c \in Conn, NEW i \in DB, Select(c, i) PROVE AInv'
  <2>1. /\ dbs' = dbs /\ conn'[c].pc = "idle"
        /\ \A x \in Conn : x # c => conn'[x] = conn[x] /\ since'[x] = since[x]
    BY <1>2, Zenon DEF IInv, Select, Idle
  <2> QED
    BY <1>1, <2>1, Zenon
<1>3. ASSUME NEW c \in Conn, NEW r \in Command, Call(c, r) PROVE AInv'
  BY <1>3, CallKeepsAnswers, Zenon
<1>4. ASSUME NEW c \in Conn, NEW s \in Shard, Visit(c, s) PROVE AInv'
  BY <1>4, VisitKeepsAnswers, Zenon
<1>5. ASSUME NEW c \in Conn, Return(c) PROVE AInv'
  <2>1. /\ dbs' = dbs /\ conn'[c].pc = "idle"
        /\ \A x \in Conn : x # c => conn'[x] = conn[x] /\ since'[x] = since[x]
    BY <1>5, Zenon DEF IInv, WInv, Return, Idle
  <2> QED
    BY <1>1, <2>1, Zenon
<1>6. CASE UNCHANGED vars
  <2>1. dbs' = dbs /\ \A x \in Conn : AnswerSoFar(x)'
    BY <1>6, MomentsStay, Zenon DEF AInv, vars
  <2> QED
    BY <2>1, Zenon DEF AInv
<1> QED
  BY <1>2, <1>3, <1>4, <1>5, <1>6 DEF Next

\* Nothing is absent from the shards that a finished request has visited.
LEMMA AnswersFromInv == IInv /\ WInv /\ AInv => AnswersOfTheTime
<1> SUFFICES ASSUME IInv, WInv, AInv, NEW c \in Conn, conn[c].pc = "done", ~Misplaced(c)
             PROVE  AnswerOfMoments(c)
  BY Zenon DEF AnswersOfTheTime
<1> DEFINE r == conn[c].req
<1>1. r \in Command /\ conn[c].todo = {}
  BY DEF IInv, WInv, IsIdle, Idle, IsBusy
<1>2. CASE r.op \in RoutedOp \cup SetOp
  BY <1>2, Zenon DEF AInv, AnswerSoFar, AnsweredAtOnce
<1>3. CASE r.op \notin RoutedOp \cup SetOp
  <2>1. r.op \in GroupedOp \cup EverywhereOp
    BY <1>1, <1>3, CommandAssumption, Zenon DEF Request, KeyedOp
  <2>2. PICK f \in Moments(c) :
           conn[c].ans = Answered(NoAnswer(r), Within(Combined(f), Visited(c)), r, DOMAIN r.keys)
    BY <1>3, Zenon DEF AInv, AnswerSoFar, AnsweredInPart
  <2>3. Visited(c) = Targets(c, r)
    BY <1>1, Zenon DEF Visited
  <2> DEFINE w == Combined(f)
             v == Within(w, Targets(c, r))
  <2>4. CASE r.op \in EverywhereOp
    <3>1. Targets(c, r) = Shard
      BY <2>4, Zenon DEF Targets, RoutedOp, GroupedOp, EverywhereOp
    <3>2. v = w
      BY <3>1, HomeAssumption, Zenon DEF Within, Combined
    <3> QED
      BY <2>2, <2>3, <3>2 DEF AnswerOfMoments
  <2>5. CASE r.op \in GroupedOp
    <3>1. Targets(c, r) = {Home[r.keys[i]] : i \in DOMAIN r.keys}
      BY <2>5, Zenon DEF Targets, RoutedOp, GroupedOp, EverywhereOp
    <3>2. r.keys \in Seq(Key)
      BY <1>1, CommandAssumption, Zenon DEF Request
    <3>3. \A i \in DOMAIN r.keys : v[r.keys[i]] = w[r.keys[i]]
      BY <3>1, <3>2 DEF Within
    <3>4. Answered(NoAnswer(r), v, r, DOMAIN r.keys) = Answered(NoAnswer(r), w, r, DOMAIN r.keys)
      <4> HIDE DEF w, v
      <4> QED
        BY <1>1, <2>5, <3>3, GroupAnsweredByKeys
    <3> QED
      BY <2>2, <2>3, <3>4, Zenon DEF AnswerOfMoments
  <2> QED
    BY <2>1, <2>4, <2>5, Zenon
<1> QED
  BY <1>2, <1>3, Zenon

\* MGET, EXISTS, DEL, KEYS, DBSIZE and all other commands answer what one map
\* would have answered, made up of one moment of each shard while the command
\* ran, for any number of shards, keys and connections.  Commands on several sets
\* that run on a shard without their keys are the exception.
THEOREM AnswersAreOfTheTime == Spec => []AnswersOfTheTime
<1>1. Init => WInv
  BY DEF Init, Idle, WInv, Settled
<1>2. Init => AInv
  <2> SUFFICES ASSUME Init PROVE AInv
    BY Zenon
  <2>1. Present(EmptyMap) = {}
    BY Zenon DEF Present, EmptyMap
  <2>2. IsFiniteSet(Present(EmptyMap))
    BY <2>1, FS_EmptySet, Zenon
  <2> QED
    BY <2>2, Zenon DEF Init, Idle, AInv, AnswerSoFar
<1> QED
  BY <1>1, <1>2, StartHasInv, NextKeepsInv, NextKeepsWrites, NextKeepsAnswers, AnswersFromInv, PTL
  DEF Spec
=============================================================================
