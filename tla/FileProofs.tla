----------------------------- MODULE FileProofs -----------------------------
(* Files and tables, for any number of shards and databases and any order in *)
(* which tables are iterated: a file that a save has completed holds exactly *)
(* the entries that the save has seen, and the loader reads each of them,    *)
(* once; a command, an expiry cycle and the load's handler change only what  *)
(* they name.  Recursive definitions are followed by induction, which rests  *)
(* on the well-founded order of the natural numbers.                         *)
EXTENDS Snapshots, FiniteSetTheorems, TLAPS

-----------------------------------------------------------------------------
(* The tables of the shards.                                                 *)

StoredValue == Value \cup {NullObject}

\* A database of shard s: finitely many keys, all of them keys of that shard.
IsDb(d) == d \in [val : [Key -> Value \cup {Absent, NullObject}],
                  exp : [Key -> Deadline \cup {NoExpiry}]]
Living(d) == {k \in Key : d.val[k] # Absent}
IsDbOf(d, s) == IsDb(d) /\ IsFiniteSet(Living(d)) /\ \A k \in Living(d) : home[k] = s

Tables ==
    /\ home \in [Key -> Shard]
    /\ dbs = [s \in Shard |-> [i \in DB |-> dbs[s][i]]]
    /\ \A s \in Shard, i \in DB : IsDbOf(dbs[s][i], s)
    /\ now \in 0 .. MaxNow

-----------------------------------------------------------------------------
(* Files.                                                                    *)

Opcode == {<<"select", i>> : i \in DB} \cup {<<"expire", t>> : t \in Deadline}
             \cup {<<"entry", k, v>> : k \in Key, v \in Value}

\* A file that has been begun and not yet ended.
Begun(t) ==
    /\ t \in Seq({<<"header">>} \cup Opcode)
    /\ t # <<>> /\ t[1] = <<"header">>
    /\ \A p \in 2 .. Len(t) : t[p] \in Opcode

\* Token m selects database i for position p.
Selects(t, m, p, i) == t[m] = <<"select", i>> /\ \A q \in m + 1 .. p : t[q][1] # "select"

\* Position p of file t is where entry e has been written.
Records(t, p, e) ==
    /\ t[p] = <<"entry", StringView(e.key), Written(e.val)>>
    /\ \E m \in 1 .. p - 1 : Selects(t, m, p, e.db)
    /\ IF e.exp = NoExpiry THEN t[p - 1][1] # "expire" ELSE t[p - 1] = <<"expire", e.exp>>

\* What a save has seen: entries of tables, one for each key of a database.
IsCut(c) ==
    /\ c \subseteq [db : DB, key : Key, val : StoredValue, exp : Deadline \cup {NoExpiry}]
    /\ \A e, f \in c : e.db = f.db /\ e.key = f.key => e = f

\* File t has exactly the entries of c, each of them once.
Holds(t, c) == \E b \in Bijection(EntriesOf(t), c) : \A p \in EntriesOf(t) : Records(t, p, b[p])

\* A serializer that has written c.
Saved(o, c) ==
    /\ o = [out |-> o.out, last_dbid |-> o.last_dbid]
    /\ Begun(o.out) /\ o.out[Len(o.out)][1] # "expire"
    /\ o.last_dbid # NoDb => \E m \in DOMAIN o.out : Selects(o.out, m, Len(o.out), o.last_dbid)
    /\ IsCut(c) /\ Holds(o.out, c)

\* A file that has been ended.
Ended(g) == Append(Append(g, <<"eof">>), <<"crc", Append(g, <<"eof">>)>>)

Complete(t, c) == \E g : Begun(g) /\ t = Ended(g) /\ IsCut(c) /\ Holds(g, c)

-----------------------------------------------------------------------------
(* The load.                                                                 *)

PlainKey == Key \ (IntKey \cup {EmptyKey})

\* Database i is the one selected at position p of file t, if any is.
Chosen(t, p, i) ==
    (\A m \in 1 .. p : t[m][1] # "select") \/ \E m \in 1 .. p : Selects(t, m, p, i)

\* The loader stands behind an entry or the header, with the database at hand.
IsReader(l) ==
    /\ DOMAIN l = {"tokens", "pos", "dbid", "expire"} /\ l.expire = NoExpiry
    /\ l.pos \in 2 .. Len(l.tokens) - 1
    /\ l.tokens[l.pos - 1][1] \notin {"expire", "eof", "crc"}
    /\ l.dbid \in DB
    /\ Chosen(l.tokens, l.pos - 1, l.dbid)

\* Nobody has stored key k in database i.
Vacant(i, k) == dbs[home[k]][i].val[k] = Absent /\ dbs[home[k]][i].exp[k] = NoExpiry

-----------------------------------------------------------------------------
(* Induction, with a set in place of the predicate.                          *)

\* What holds of 0 and passes from n to n + 1 holds of all numbers: the least
\* number outside of a set T would have a predecessor in it.
LEMMA Induction ==
    ASSUME NEW S, 0 \in S, \A m \in Nat : m \in S => m + 1 \in S
    PROVE  \A m \in Nat : m \in S
<1> SUFFICES ASSUME NEW b \in Nat, b \notin S PROVE FALSE
    BY Zenon
<1> DEFINE R == OpToRel(<, Nat)
           T == Nat \ S
<1>1. IsWellFoundedOn(R, Nat)
    BY NatLessThanWellFounded, Zenon
<1>2. \A x, y \in Nat : x < y => <<x, y>> \in R
    BY Zenon DEF OpToRel
<1> HIDE DEF R
<1>3. PICK x \in T : \A y \in T : ~(<<y, x>> \in R)
    BY <1>1, WFMin, Zenon
<1>4. x \in Nat /\ x # 0 /\ x \notin S
    BY Zenon
<1>5. x - 1 \in Nat /\ x - 1 < x /\ x = (x - 1) + 1
    BY <1>4
<1>6. x - 1 \notin T
    BY <1>2, <1>3, <1>4, <1>5, Zenon
<1> QED BY <1>4, <1>5, <1>6, Zenon

\* A finite set and its subsets, counted.
LEMMA Counted ==
    ASSUME NEW E, IsFiniteSet(E), NEW S \in SUBSET E
    PROVE  /\ IsFiniteSet(S) /\ Cardinality(S) \in Nat /\ Cardinality(S) <= Cardinality(E)
           /\ S = {} <=> Cardinality(S) = 0
           /\ \A x \in S : Cardinality(S \ {x}) = Cardinality(S) - 1
<1>1. IsFiniteSet(S) /\ Cardinality(S) <= Cardinality(E)
    BY FS_Subset, Zenon
<1>2. Cardinality(S) \in Nat /\ (Cardinality(S) = 0 <=> S = {})
    BY <1>1, FS_CardinalityType, FS_EmptySet, Zenon
<1>3. \A x \in S : Cardinality(S \ {x}) = Cardinality(S) - 1
    BY <1>1, FS_RemoveElement, Zenon
<1> QED BY <1>1, <1>2, <1>3, Zenon

-----------------------------------------------------------------------------
(* The order of an iteration.                                                *)

Keyed(S) == IsFiniteSet(S) /\ \A e \in S : e.key \in Key

\* A finite set of entries has one that the iteration comes to last.
LEMMA LastIsThere ==
    ASSUME NEW E, Keyed(E), NEW S \in SUBSET E, S # {}
    PROVE  LastOf(S) \in S
<1> DEFINE IsLast(U, e) == e \in U /\ \A f \in U : Rank[f.key] <= Rank[e.key]
           T == {n \in Nat : \A U \in SUBSET E : Cardinality(U) = n /\ U # {} => \E e : IsLast(U, e)}
<1>1. 0 \in T
    BY Counted, Zenon DEF Keyed
<1>2. ASSUME NEW n \in Nat, n \in T PROVE n + 1 \in T
  <2> SUFFICES ASSUME NEW U \in SUBSET E, Cardinality(U) = n + 1, U # {} PROVE \E e : IsLast(U, e)
    OBVIOUS
  <2>1. PICK x \in U : TRUE
    BY Zenon
  <2>2. Cardinality(U \ {x}) = n /\ U \ {x} \in SUBSET E
    BY Counted DEF Keyed
  <2>3. Rank[x.key] \in Nat /\ \A f \in U : Rank[f.key] \in Nat
    BY RankAssumption, Zenon DEF Keyed
  <2>4. CASE U \ {x} = {}
    <3>1. \A f \in U : f = x
      BY <2>4, Zenon
    <3> QED BY <2>1, <2>3, <3>1
  <2>5. CASE U \ {x} # {}
    <3>1. PICK e : IsLast(U \ {x}, e)
      BY <1>2, <2>2, <2>5, Zenon
    <3>2. e \in U /\ Rank[e.key] \in Nat
      BY <2>3, <3>1, Zenon
    <3>3. CASE Rank[x.key] <= Rank[e.key]
      <4>1. IsLast(U, e)
        BY <3>1, <3>2, <3>3, Zenon
      <4> QED BY <4>1, Zenon
    <3>4. CASE ~(Rank[x.key] <= Rank[e.key])
      <4>1. IsLast(U, x)
        BY <2>1, <2>3, <3>1, <3>2, <3>4
      <4> QED BY <4>1, Zenon
    <3> QED BY <3>3, <3>4, Zenon
  <2> QED BY <2>4, <2>5, Zenon
<1>3. \A n \in Nat : n \in T
  <2> HIDE DEF T
  <2> QED BY <1>1, <1>2, Induction, Zenon
<1>4. Cardinality(S) \in Nat
    BY Counted, Zenon DEF Keyed
<1>5. \E e : IsLast(S, e)
    BY <1>3, <1>4, Zenon
<1> QED BY <1>5, Zenon DEF LastOf

\* The function that SaveTable is defined with, and that it exists.
SavesEach(g, o, E) ==
    /\ g = [S \in SUBSET E |-> g[S]]
    /\ \A S \in SUBSET E : g[S] = IF S = {} THEN o ELSE SaveEntry(g[S \ {LastOf(S)}], LastOf(S))

\* The function that SaveTable defines by recursion on sets of entries exists.
LEMMA SavedExists ==
    ASSUME NEW o, NEW E, Keyed(E)
    PROVE  \E g : SavesEach(g, o, E)
<1> DEFINE B(g, S) == IF S = {} THEN o ELSE SaveEntry(g[S \ {LastOf(S)}], LastOf(S))
           Upto(g, n) == g = [S \in SUBSET E |-> g[S]]
                         /\ \A S \in SUBSET E : Cardinality(S) <= n => g[S] = B(g, S)
           T == {n \in Nat : \E g : Upto(g, n)}
<1>1. 0 \in T
  <2> DEFINE g == [S \in SUBSET E |-> o]
  <2>1. \A S \in SUBSET E : Cardinality(S) <= 0 => S = {}
    BY Counted DEF Keyed
  <2>2. Upto(g, 0)
    BY <2>1, Zenon
  <2> QED BY <2>2, Zenon
<1>2. ASSUME NEW n \in Nat, n \in T PROVE n + 1 \in T
  <2>1. PICK g : Upto(g, n)
    BY <1>2, Zenon
  <2> DEFINE h == [S \in SUBSET E |-> B(g, S)]
  <2>2. \A S \in SUBSET E : Cardinality(S) <= n => h[S] = g[S]
    BY <2>1, Zenon
  <2>3. ASSUME NEW S \in SUBSET E, Cardinality(S) <= n + 1 PROVE h[S] = B(h, S)
    <3>1. CASE S = {}
      BY <3>1, Zenon
    <3>2. CASE S # {}
      <4> DEFINE R == S \ {LastOf(S)}
      <4>1. LastOf(S) \in S
        BY <3>2, LastIsThere, Zenon
      <4>2. R \in SUBSET E /\ Cardinality(R) <= n
        BY <2>3, <4>1, Counted DEF Keyed
      <4>3. h[R] = g[R]
        BY <2>2, <4>2, Zenon
      <4>4. h[S] = SaveEntry(g[R], LastOf(S))
        BY <3>2, Zenon
      <4> HIDE DEF h
      <4> QED BY <3>2, <4>3, <4>4, Zenon
    <3> QED BY <3>1, <3>2, Zenon
  <2>4. h = [S \in SUBSET E |-> h[S]]
    BY Zenon
  <2> HIDE DEF h
  <2>5. Upto(h, n + 1)
    BY <2>3, <2>4, Zenon
  <2> HIDE DEF Upto
  <2> QED BY <2>5
<1>3. \A n \in Nat : n \in T
  <2> HIDE DEF T
  <2> QED BY <1>1, <1>2, Induction, Zenon
<1>4. Cardinality(E) \in Nat /\ \A S \in SUBSET E : Cardinality(S) <= Cardinality(E)
    BY Counted, Zenon DEF Keyed
<1>5. PICK g : Upto(g, Cardinality(E))
    BY <1>3, <1>4, Zenon
<1>6. \A S \in SUBSET E : g[S] = B(g, S)
    BY <1>4, <1>5, Zenon
<1> QED BY <1>5, <1>6, Zenon DEF SavesEach

\* What SaveTable is, one entry at a time.
LEMMA SaveTableByEntries ==
    ASSUME NEW o, NEW d, NEW i, NEW t, Keyed(Entries(d, i, t))
    PROVE  \E g : SavesEach(g, o, Entries(d, i, t)) /\ SaveTable(o, d, i, t) = g[Entries(d, i, t)]
<1> DEFINE E == Entries(d, i, t)
           B(g, S) == IF S = {} THEN o ELSE SaveEntry(g[S \ {LastOf(S)}], LastOf(S))
           Body(g) == [S \in SUBSET E |-> B(g, S)]
           saved == CHOOSE g : g = Body(g)
<1>1. SaveTable(o, d, i, t) = saved[E] /\ Keyed(E)
    BY Zenon DEF SaveTable
<1> HIDE DEF E
<1>2. saved = Body(saved)
  <2>1. PICK g : SavesEach(g, o, E)
    BY <1>1, SavedExists, Zenon
  <2>2. g = [S \in SUBSET E |-> g[S]] /\ \A S \in SUBSET E : g[S] = B(g, S)
    BY <2>1, Zenon DEF SavesEach
  <2> HIDE DEF B
  <2>3. g = Body(g)
    BY <2>2, Zenon
  <2> HIDE DEF Body
  <2> QED BY <2>3, Zenon
<1>3. \A S \in SUBSET E : Body(saved)[S] = B(saved, S)
    BY Zenon
<1>4. Body(saved) = [S \in SUBSET E |-> Body(saved)[S]]
    OBVIOUS
<1> HIDE DEF saved, Body
<1>5. saved = [S \in SUBSET E |-> saved[S]] /\ \A S \in SUBSET E : saved[S] = B(saved, S)
    BY <1>2, <1>3, <1>4, Zenon
<1>6. SavesEach(saved, o, E)
    BY <1>5, Zenon DEF SavesEach
<1> QED BY <1>1, <1>6, Zenon DEF E

-----------------------------------------------------------------------------
(* Writing an entry.                                                         *)

CutEntry == [db : DB, key : Key, val : StoredValue, exp : Deadline \cup {NoExpiry}]

\* The three kinds of opcodes.
LEMMA OpcodeKinds == \A x \in Opcode : x[1] \in {"select", "expire", "entry"}
BY DEF Opcode

\* What SaveEntry writes for an entry of a table are opcodes.
LEMMA EntryOpcodes ==
    ASSUME NEW e \in CutEntry
    PROVE  /\ <<"select", e.db>> \in Opcode
           /\ e.exp # NoExpiry => <<"expire", e.exp>> \in Opcode
           /\ <<"entry", StringView(e.key), Written(e.val)>> \in Opcode
<1>1. StringView(e.key) \in Key
    BY KeyKindsAssumption, Zenon DEF StringView, CutEntry
<1>2. Written(e.val) \in Value
    BY EmptyStrAssumption, Zenon DEF Written, CutEntry, StoredValue, Value
<1> QED BY <1>1, <1>2 DEF Opcode, CutEntry

\* File u goes on where t ends.
GoesOn(t, u) ==
    /\ Begun(t) /\ Begun(u) /\ Len(t) \in Nat /\ Len(u) \in Nat /\ Len(t) <= Len(u)
    /\ \A q \in 1 .. Len(t) : u[q] = t[q]

Extends(t, u) ==
    /\ Len(t) \in Nat /\ Len(u) \in Nat /\ Len(t) <= Len(u)
    /\ DOMAIN t = 1 .. Len(t) /\ DOMAIN u = 1 .. Len(u)
    /\ \A q \in 1 .. Len(t) : u[q] = t[q]

\* One more opcode at the end of a file that has been begun.
LEMMA OneMoreToken ==
    ASSUME NEW t, Begun(t), NEW x \in Opcode
    PROVE  /\ GoesOn(t, Append(t, x))
           /\ Len(Append(t, x)) = Len(t) + 1 /\ Append(t, x)[Len(t) + 1] = x
<1> DEFINE X == {<<"header">>} \cup Opcode
           u == Append(t, x)
<1>1. t \in Seq(X) /\ x \in X /\ t # <<>> /\ t[1] = <<"header">> /\ \A p \in 2 .. Len(t) : t[p] \in Opcode
    BY Zenon DEF Begun
<1> HIDE DEF X
<1>2. /\ u \in Seq(X) /\ Len(u) = Len(t) + 1 /\ u[Len(t) + 1] = x /\ Len(t) \in Nat
      /\ \A q \in 1 .. Len(t) : u[q] = t[q]
    BY <1>1
<1>3. Len(t) # 0
    BY <1>1
<1> HIDE DEF u
<1>4. u # <<>> /\ u[1] = <<"header">>
    BY <1>1, <1>2, <1>3
<1>5. ASSUME NEW p \in 2 .. Len(u) PROVE u[p] \in Opcode
    BY <1>1, <1>2
<1> QED BY <1>2, <1>4, <1>5 DEF Begun, GoesOn, X, u

\* A file that has been begun has its header.
LEMMA FileLength == ASSUME NEW t, Begun(t) PROVE Len(t) \in Nat /\ Len(t) >= 1 /\ DOMAIN t = 1 .. Len(t)
<1> DEFINE X == {<<"header">>} \cup Opcode
<1>1. t \in Seq(X) /\ t # <<>>
    BY Zenon DEF Begun
<1> HIDE DEF X
<1> QED BY <1>1

\* What has been recorded stays recorded.
LEMMA StaysRecorded ==
    ASSUME NEW t, NEW u, Extends(t, u), NEW p \in EntriesOf(t), NEW e, Records(t, p, e)
    PROVE  p \in EntriesOf(u) /\ Records(u, p, e)
<1>1. /\ Len(t) \in Nat /\ Len(u) \in Nat /\ Len(t) <= Len(u)
      /\ DOMAIN t = 1 .. Len(t) /\ DOMAIN u = 1 .. Len(u)
      /\ \A q \in 1 .. Len(t) : u[q] = t[q]
    BY Zenon DEF Extends
<1>2. p \in 1 .. Len(t) /\ t[p][1] = "entry" /\ u[p] = t[p]
    BY <1>1, Zenon DEF EntriesOf
<1>3. PICK m \in 1 .. p - 1 : Selects(t, m, p, e.db)
    BY Zenon DEF Records
<1>4. u[m] = t[m] /\ u[p - 1] = t[p - 1]
    BY <1>1, <1>2
<1>5. \A q \in m + 1 .. p : u[q][1] # "select"
    BY <1>1, <1>2, <1>3 DEF Selects
<1>6. Selects(u, m, p, e.db)
    BY <1>3, <1>4, <1>5, Zenon DEF Selects
<1> QED BY <1>1, <1>2, <1>4, <1>6 DEF EntriesOf, Records

\* SaveSelectDb: the database is selected, and nothing else is written.
LEMMA Selected ==
    ASSUME NEW o, NEW c, Saved(o, c), NEW i \in DB
    PROVE  LET s == SaveSelectDb(o, i)
           IN  /\ s = [out |-> s.out, last_dbid |-> i]
               /\ GoesOn(o.out, s.out) /\ EntriesOf(s.out) = EntriesOf(o.out)
               /\ s.out[Len(s.out)][1] # "expire"
               /\ \E m \in DOMAIN s.out : Selects(s.out, m, Len(s.out), i)
<1> DEFINE s == SaveSelectDb(o, i)
           t == o.out
<1>1. /\ o = [out |-> t, last_dbid |-> o.last_dbid] /\ Begun(t) /\ t[Len(t)][1] # "expire"
      /\ o.last_dbid # NoDb => \E m \in DOMAIN t : Selects(t, m, Len(t), o.last_dbid)
    BY Zenon DEF Saved
<1>2. i # NoDb
    BY NumDBsAssumption DEF DB, NoDb
<1>3. Len(t) \in Nat /\ DOMAIN t = 1 .. Len(t)
    BY <1>1, FileLength, Zenon
<1>4. CASE o.last_dbid = i
  <2>1. s = o
    BY <1>4, Zenon DEF SaveSelectDb
  <2>2. GoesOn(t, t)
    BY <1>1, <1>3 DEF GoesOn
  <2> QED BY <1>1, <1>2, <1>4, <2>1, <2>2, Zenon
<1>5. CASE o.last_dbid # i
  <2> DEFINE x == <<"select", i>>
             u == Append(t, x)
  <2>1. s = [out |-> u, last_dbid |-> i]
    BY <1>1, <1>5, Zenon DEF SaveSelectDb, Write
  <2>2. x \in Opcode
    BY DEF Opcode
  <2>3. GoesOn(t, u) /\ Len(u) = Len(t) + 1 /\ u[Len(t) + 1] = x
    BY <1>1, <2>2, OneMoreToken, Zenon
  <2>4. x[1] = "select"
    BY Zenon
  <2> HIDE DEF u, x
  <2>5. DOMAIN u = 1 .. Len(t) + 1 /\ \A q \in 1 .. Len(t) : u[q] = t[q]
    BY <2>3, FileLength, Zenon DEF GoesOn
  <2>6. EntriesOf(u) = EntriesOf(t)
    BY <1>3, <2>3, <2>4, <2>5 DEF EntriesOf
  <2>7. u[Len(u)][1] # "expire"
    BY <2>3, <2>4, Zenon
  <2>8. Selects(u, Len(u), Len(u), i)
    BY <1>3, <2>3 DEF Selects, x
  <2>9. Len(u) \in DOMAIN u
    BY <1>3, <2>3, <2>5
  <2>10. s.out = u /\ s.last_dbid = i
    BY <2>1
  <2> HIDE DEF s
  <2> QED BY <2>1, <2>3, <2>6, <2>7, <2>8, <2>9, <2>10, Zenon DEF s
<1> QED BY <1>4, <1>5, Zenon

\* The deadline in front of the entry.
LEMMA DeadlineWritten ==
    ASSUME NEW o, o = [out |-> o.out, last_dbid |-> o.last_dbid], Begun(o.out),
           o.out[Len(o.out)][1] # "expire", NEW e \in CutEntry,
           \E m \in DOMAIN o.out : Selects(o.out, m, Len(o.out), e.db)
    PROVE  LET x == IF e.exp > 0 THEN Write(o, <<"expire", e.exp>>) ELSE o
           IN  /\ x = [out |-> x.out, last_dbid |-> o.last_dbid]
               /\ GoesOn(o.out, x.out) /\ EntriesOf(x.out) = EntriesOf(o.out)
               /\ IF e.exp = NoExpiry THEN x.out[Len(x.out)][1] # "expire"
                                      ELSE x.out[Len(x.out)] = <<"expire", e.exp>>
               /\ \E m \in DOMAIN x.out : Selects(x.out, m, Len(x.out), e.db)
<1> DEFINE x == IF e.exp > 0 THEN Write(o, <<"expire", e.exp>>) ELSE o
           t == o.out
<1>1. e.exp \in Nat /\ (e.exp > 0 <=> e.exp # NoExpiry)
    BY Int64MaxAssumption DEF CutEntry, Deadline, NoExpiry
<1>2. Len(t) \in Nat /\ DOMAIN t = 1 .. Len(t)
    BY FileLength, Zenon
<1>3. CASE e.exp = NoExpiry
  <2>1. x = o
    BY <1>1, <1>3, Zenon
  <2>2. GoesOn(t, t)
    BY <1>2 DEF GoesOn
  <2> HIDE DEF x
  <2> QED BY <1>3, <2>1, <2>2 DEF x
<1>4. CASE e.exp # NoExpiry
  <2> DEFINE y == <<"expire", e.exp>>
             u == Append(t, y)
  <2>1. x = [out |-> u, last_dbid |-> o.last_dbid]
    BY <1>1, <1>4, Zenon DEF Write
  <2>2. y \in Opcode
    BY <1>4, EntryOpcodes, Zenon
  <2>3. GoesOn(t, u) /\ Len(u) = Len(t) + 1 /\ u[Len(t) + 1] = y
    BY <2>2, OneMoreToken, Zenon
  <2>4. y[1] = "expire"
    BY Zenon
  <2> HIDE DEF u, y
  <2>5. DOMAIN u = 1 .. Len(t) + 1 /\ \A q \in 1 .. Len(t) : u[q] = t[q]
    BY <2>3, FileLength, Zenon DEF GoesOn
  <2>6. EntriesOf(u) = EntriesOf(t)
    BY <1>2, <2>3, <2>4, <2>5 DEF EntriesOf
  <2>7. PICK m \in DOMAIN t : Selects(t, m, Len(t), e.db)
    BY Zenon
  <2>8. Selects(u, m, Len(u), e.db)
    BY <1>2, <2>3, <2>4, <2>5, <2>7 DEF Selects
  <2>9. m \in DOMAIN u
    BY <1>2, <2>5
  <2>10. x.out = u
    BY <2>1
  <2> HIDE DEF x
  <2> QED BY <1>4, <2>1, <2>3, <2>6, <2>8, <2>9, <2>10, Zenon DEF x, y
<1> QED BY <1>3, <1>4, Zenon

\* A bijection and what makes one.
LEMMA PairsUp ==
    ASSUME NEW P, NEW C, NEW b \in Bijection(P, C)
    PROVE  b \in [P -> C] /\ (\A x, y \in P : b[x] = b[y] => x = y) /\ \A z \in C : \E x \in P : b[x] = z
BY Zenon DEF Bijection, Injection, Surjection, IsInjective

\* ... and what makes one.
LEMMA IsPairing ==
    ASSUME NEW P, NEW C, NEW b \in [P -> C], \A x, y \in P : b[x] = b[y] => x = y,
           \A z \in C : \E x \in P : b[x] = z
    PROVE  b \in Bijection(P, C)
BY Zenon DEF Bijection, Injection, Surjection, IsInjective

\* One more pair extends a bijection.
LEMMA OneMorePair ==
    ASSUME NEW P, NEW C, NEW b \in Bijection(P, C), NEW p, p \notin P, NEW e, e \notin C
    PROVE  [q \in P \cup {p} |-> IF q = p THEN e ELSE b[q]] \in Bijection(P \cup {p}, C \cup {e})
<1> DEFINE B == [q \in P \cup {p} |-> IF q = p THEN e ELSE b[q]]
<1>1. b \in [P -> C] /\ (\A x, y \in P : b[x] = b[y] => x = y) /\ \A z \in C : \E x \in P : b[x] = z
    BY PairsUp
<1>2. B \in [P \cup {p} -> C \cup {e}]
    BY <1>1, Zenon
<1>3. \A x, y \in P \cup {p} : B[x] = B[y] => x = y
    BY <1>1
<1>4. \A z \in C \cup {e} : \E x \in P \cup {p} : B[x] = z
  <2> SUFFICES ASSUME NEW z \in C \cup {e} PROVE \E x \in P \cup {p} : B[x] = z
    BY Zenon
  <2>1. CASE z = e
    <3>1. B[p] = e
      BY Zenon
    <3> QED BY <2>1, <3>1, Zenon
  <2>2. CASE z \in C
    <3>1. PICK x \in P : b[x] = z
      BY <1>1, <2>2, Zenon
    <3>2. B[x] = z
      BY <3>1, Zenon
    <3> QED BY <3>2, Zenon
  <2> QED BY <2>1, <2>2, Zenon
<1> HIDE DEF B
<1>5. B \in Bijection(P \cup {p}, C \cup {e})
    BY <1>2, <1>3, <1>4, IsPairing, Zenon
<1> QED BY <1>5, Zenon DEF B

\* An entry is not in the cut yet.
New(e, c) == \A f \in c : f.db # e.db \/ f.key # e.key

\* SaveEntry adds one entry, with its database and its deadline, to what a file
\* holds.
LEMMA EntrySaved ==
    ASSUME NEW o, NEW c, Saved(o, c), NEW e \in CutEntry, New(e, c)
    PROVE  Saved(SaveEntry(o, e), c \cup {e})
<1> DEFINE s == SaveSelectDb(o, e.db)
           x == IF e.exp > 0 THEN Write(s, <<"expire", e.exp>>) ELSE s
           y == <<"entry", StringView(e.key), Written(e.val)>>
           u == Append(x.out, y)
           n == Len(x.out) + 1
<1>1. SaveEntry(o, e) = Write(x, y)
    BY Zenon DEF SaveEntry
<1>2. e.db \in DB
    BY Zenon DEF CutEntry
<1>3. /\ s = [out |-> s.out, last_dbid |-> e.db]
      /\ GoesOn(o.out, s.out) /\ EntriesOf(s.out) = EntriesOf(o.out)
      /\ s.out[Len(s.out)][1] # "expire"
      /\ \E m \in DOMAIN s.out : Selects(s.out, m, Len(s.out), e.db)
    BY <1>2, Selected, Zenon
<1> HIDE DEF s
<1>4. s.last_dbid = e.db /\ s = [out |-> s.out, last_dbid |-> s.last_dbid] /\ Begun(s.out)
    BY <1>3 DEF GoesOn
<1>5. /\ x = [out |-> x.out, last_dbid |-> s.last_dbid]
      /\ GoesOn(s.out, x.out) /\ EntriesOf(x.out) = EntriesOf(s.out)
      /\ IF e.exp = NoExpiry THEN x.out[Len(x.out)][1] # "expire"
                             ELSE x.out[Len(x.out)] = <<"expire", e.exp>>
      /\ \E m \in DOMAIN x.out : Selects(x.out, m, Len(x.out), e.db)
    BY <1>3, <1>4, DeadlineWritten, Zenon
<1> HIDE DEF x
<1>6. Begun(x.out) /\ x = [out |-> x.out, last_dbid |-> e.db]
    BY <1>4, <1>5, Zenon DEF GoesOn
<1>7. y \in Opcode /\ y[1] = "entry"
    BY EntryOpcodes, Zenon
<1>8. GoesOn(x.out, u) /\ Len(u) = n /\ u[n] = y
    BY <1>6, <1>7, OneMoreToken, Zenon
<1>9. Write(x, y) = [out |-> u, last_dbid |-> e.db]
    BY <1>6 DEF Write
<1>10. Len(x.out) \in Nat /\ Len(x.out) >= 1 /\ DOMAIN x.out = 1 .. Len(x.out)
    BY <1>6, FileLength, Zenon
<1> HIDE DEF u, y
<1>11. /\ DOMAIN u = 1 .. n /\ Begun(u) /\ n \in Nat /\ n - 1 = Len(x.out)
       /\ \A q \in 1 .. n - 1 : u[q] = x.out[q]
    BY <1>8, <1>10, FileLength DEF GoesOn
<1> HIDE DEF n
<1>12. \E m \in 1 .. n - 1 : Selects(u, m, n, e.db)
  <2>1. PICK m \in 1 .. n - 1 : Selects(x.out, m, n - 1, e.db)
    BY <1>5, <1>10, <1>11, Zenon
  <2>2. Selects(u, m, n, e.db)
    BY <1>7, <1>8, <1>11, <2>1 DEF Selects
  <2> QED BY <2>2, Zenon
<1>13. Records(u, n, e)
  <2>1. u[n - 1] = x.out[Len(x.out)]
    BY <1>10, <1>11
  <2> QED BY <1>5, <1>8, <1>12, <2>1, Zenon DEF Records, y
<1>14. GoesOn(o.out, u)
  <2>1. Len(o.out) \in Nat /\ Len(s.out) \in Nat
    BY <1>3, Zenon DEF GoesOn
  <2> QED BY <1>3, <1>5, <1>8, <1>10, <2>1 DEF GoesOn
<1>15. EntriesOf(u) = EntriesOf(o.out) \cup {n} /\ n \notin EntriesOf(o.out)
  <2>1. EntriesOf(x.out) = EntriesOf(o.out)
    BY <1>3, <1>5, Zenon
  <2>2. EntriesOf(u) = EntriesOf(x.out) \cup {n} /\ n \notin EntriesOf(x.out)
    BY <1>7, <1>8, <1>10, <1>11 DEF EntriesOf
  <2> QED BY <2>1, <2>2, Zenon
<1>16. Holds(u, c \cup {e})
  <2>1. PICK b \in Bijection(EntriesOf(o.out), c) :
              \A p \in EntriesOf(o.out) : Records(o.out, p, b[p])
    BY Zenon DEF Saved, Holds
  <2>2. e \notin c
    BY Zenon DEF New
  <2> DEFINE B == [q \in EntriesOf(o.out) \cup {n} |-> IF q = n THEN e ELSE b[q]]
  <2>3. B \in Bijection(EntriesOf(u), c \cup {e})
    BY <1>15, <2>1, <2>2, OneMorePair, Zenon
  <2>4. ASSUME NEW p \in EntriesOf(u) PROVE Records(u, p, B[p])
    <3>1. CASE p = n
      BY <1>13, <3>1, Zenon
    <3>2. CASE p # n
      <4>1. p \in EntriesOf(o.out) /\ B[p] = b[p]
        BY <1>15, <3>2, Zenon
      <4>2. Records(o.out, p, b[p])
        BY <2>1, <4>1, Zenon
      <4>3. Extends(o.out, u)
        BY <1>14, FileLength, Zenon DEF GoesOn, Extends
      <4> QED BY <4>1, <4>2, <4>3, StaysRecorded, Zenon
    <3> QED BY <3>1, <3>2, Zenon
  <2> HIDE DEF B
  <2> QED BY <2>3, <2>4, Zenon DEF Holds
<1>17. IsCut(c \cup {e})
    BY Zenon DEF Saved, IsCut, New, CutEntry
<1>18. Saved([out |-> u, last_dbid |-> e.db], c \cup {e})
  <2>1. u[Len(u)][1] # "expire"
    BY <1>7, <1>8, Zenon
  <2>2. \E m \in DOMAIN u : Selects(u, m, Len(u), e.db)
    BY <1>8, <1>11, <1>12
  <2> DEFINE w == [out |-> u, last_dbid |-> e.db]
  <2>3. w.out = u /\ w.last_dbid = e.db /\ w = [out |-> w.out, last_dbid |-> w.last_dbid]
    BY Zenon
  <2> HIDE DEF w
  <2>4. Saved(w, c \cup {e})
    BY <1>11, <1>16, <1>17, <2>1, <2>2, <2>3, Zenon DEF Saved
  <2> QED BY <2>4, Zenon DEF w
<1> QED BY <1>1, <1>9, <1>18, Zenon

-----------------------------------------------------------------------------
(* Writing a table, and all tables of a shard.                               *)

\* The entries of a table are finitely many, one for each key.
LEMMA EntriesTyped ==
    ASSUME NEW d, IsDb(d), IsFiniteSet(Living(d)), NEW i \in DB, NEW t
    PROVE  /\ Keyed(Entries(d, i, t)) /\ Entries(d, i, t) \subseteq CutEntry
           /\ \A e \in Entries(d, i, t) : e.db = i /\ e.key \in Living(d)
           /\ \A e, f \in Entries(d, i, t) : e.key = f.key => e = f
<1> DEFINE L == {k \in Key : d.val[k] # Absent /\ ~IsExpiredInDB(d, k, t)}
           E == Entries(d, i, t)
           r == [k \in L |-> [db |-> i, key |-> k, val |-> d.val[k], exp |-> d.exp[k]]]
<1>1. E = {[db |-> i, key |-> k, val |-> d.val[k], exp |-> d.exp[k]] : k \in L}
    BY Zenon DEF Entries
<1>2. L \subseteq Living(d) /\ L \subseteq Key
    BY Zenon DEF Living
<1>3. \A k \in L : d.val[k] \in StoredValue /\ d.exp[k] \in Deadline \cup {NoExpiry}
    BY Zenon DEF IsDb, StoredValue
<1> HIDE DEF L, E
<1>4. E \subseteq CutEntry
    BY <1>1, <1>2, <1>3 DEF CutEntry
<1>5. \A e \in E : e.db = i /\ e.key \in Living(d) /\ e.key \in Key
    BY <1>1, <1>2
<1>6. \A e, f \in E : e.key = f.key => e = f
    BY <1>1
<1>7. IsFiniteSet(E)
  <2>1. IsFiniteSet(L)
    BY <1>2, FS_Subset, Zenon
  <2>2. r \in Surjection(L, E)
    <3>1. r \in [L -> E]
      BY <1>1, Zenon
    <3>2. \A e \in E : \E k \in L : r[k] = e
      BY <1>1, Zenon
    <3> QED BY <3>1, <3>2, Zenon DEF Surjection
  <2> HIDE DEF r
  <2> QED BY <2>1, <2>2, FS_Surjection, Zenon
<1> QED BY <1>4, <1>5, <1>6, <1>7, Zenon DEF E, Keyed

\* SaveTable adds exactly the entries of the table.
LEMMA TableSaved ==
    ASSUME NEW o, NEW c, Saved(o, c), NEW d, IsDb(d), IsFiniteSet(Living(d)), NEW i \in DB, NEW t,
           \A e \in Entries(d, i, t) : New(e, c)
    PROVE  Saved(SaveTable(o, d, i, t), c \cup Entries(d, i, t))
<1> DEFINE E == Entries(d, i, t)
<1>1. /\ Keyed(E) /\ E \subseteq CutEntry
      /\ \A e, f \in E : e.key = f.key => e = f
    BY EntriesTyped, Zenon
<1>2. PICK g : SavesEach(g, o, E) /\ SaveTable(o, d, i, t) = g[E]
    BY <1>1, SaveTableByEntries, Zenon
<1> HIDE DEF E
<1> DEFINE T == {n \in Nat : \A S \in SUBSET E : Cardinality(S) = n => Saved(g[S], c \cup S)}
<1>3. 0 \in T
  <2> SUFFICES ASSUME NEW S \in SUBSET E, Cardinality(S) = 0 PROVE Saved(g[S], c \cup S)
    BY Zenon
  <2>1. S = {} /\ c \cup S = c
    BY <1>1, Counted, Zenon DEF Keyed
  <2>2. g[{}] = o
    BY <1>2, Zenon DEF SavesEach
  <2> QED BY <2>1, <2>2, Zenon
<1>4. ASSUME NEW n \in Nat, n \in T PROVE n + 1 \in T
  <2>0. n + 1 \in Nat
    OBVIOUS
  <2> SUFFICES ASSUME NEW S \in SUBSET E, Cardinality(S) = n + 1 PROVE Saved(g[S], c \cup S)
    BY <2>0, Zenon
  <2> DEFINE e == LastOf(S)
             R == S \ {e}
  <2>1. S # {}
    BY <1>1, Counted DEF Keyed
  <2>2. e \in S /\ e \in E /\ e \in CutEntry
    BY <1>1, <2>1, LastIsThere, Zenon
  <2>3. R \in SUBSET E /\ Cardinality(R) = n
    BY <1>1, <2>2, Counted DEF Keyed
  <2>4. Saved(g[R], c \cup R)
    BY <1>4, <2>3, Zenon
  <2>5. New(e, c \cup R)
    <3>1. New(e, c)
      BY <2>2, Zenon DEF E
    <3>2. \A f \in R : f.key # e.key
      BY <1>1, <2>2, Zenon
    <3> HIDE DEF R, e
    <3> QED BY <3>1, <3>2, Zenon DEF New
  <2>6. g[S] = SaveEntry(g[R], e) /\ (c \cup R) \cup {e} = c \cup S
    BY <1>2, <2>1, <2>2, Zenon DEF SavesEach
  <2> HIDE DEF R, e
  <2> QED BY <2>2, <2>4, <2>5, <2>6, EntrySaved
<1>5. \A n \in Nat : n \in T
  <2> HIDE DEF T
  <2> QED BY <1>3, <1>4, Induction, Zenon
<1>6. Cardinality(E) \in Nat
    BY <1>1, Counted, Zenon DEF Keyed
<1>7. Saved(g[E], c \cup E)
    BY <1>5, <1>6, Zenon
<1> QED BY <1>2, <1>7, Zenon DEF E

\* What SerializeAllDBs is, one table at a time.
Serialized(g, j, s) ==
    /\ g = [n \in 0 .. NumDBs |-> g[n]]
    /\ \A n \in 0 .. NumDBs :
          g[n] = IF n = 0 THEN job[j].serializer
                 ELSE IF Due(j, s, n - 1) THEN SaveTable(g[n - 1], dbs[s][n - 1], n - 1, now)
                 ELSE g[n - 1]

\* The function that SerializeAllDBs defines by recursion on databases exists.
LEMMA SerializedExists == ASSUME NEW j, NEW s PROVE \E g : Serialized(g, j, s)
<1> DEFINE B(g, n) == IF n = 0 THEN job[j].serializer
                      ELSE IF Due(j, s, n - 1) THEN SaveTable(g[n - 1], dbs[s][n - 1], n - 1, now)
                      ELSE g[n - 1]
           Upto(g, m) == g = [n \in 0 .. NumDBs |-> g[n]]
                         /\ \A n \in 0 .. NumDBs : n <= m => g[n] = B(g, n)
           T == {m \in Nat : \E g : Upto(g, m)}
<1>1. 0 \in T
  <2> DEFINE g == [n \in 0 .. NumDBs |-> job[j].serializer]
  <2>1. Upto(g, 0)
    OBVIOUS
  <2> QED BY <2>1, Zenon
<1>2. ASSUME NEW m \in Nat, m \in T PROVE m + 1 \in T
  <2>1. PICK g : Upto(g, m)
    BY <1>2, Zenon
  <2> DEFINE h == [n \in 0 .. NumDBs |-> B(g, n)]
  <2>2. \A n \in 0 .. NumDBs : h[n] = B(g, n)
    BY Zenon
  <2>3. h = [n \in 0 .. NumDBs |-> h[n]]
    BY Zenon
  <2>4. \A n \in 0 .. NumDBs : n <= m => h[n] = g[n]
    BY <2>1, Zenon
  <2> HIDE DEF h
  <2>5. ASSUME NEW n \in 0 .. NumDBs, n <= m + 1 PROVE h[n] = B(h, n)
    <3>1. CASE n = 0
      BY <2>2, <3>1, Zenon
    <3>2. CASE n # 0
      <4>1. n - 1 \in 0 .. NumDBs /\ n - 1 <= m
        BY <2>5, <3>2, NumDBsAssumption
      <4>2. h[n - 1] = g[n - 1]
        BY <2>4, <4>1, Zenon
      <4> QED BY <2>2, <3>2, <4>2, Zenon
    <3> QED BY <3>1, <3>2, Zenon
  <2>6. Upto(h, m + 1)
    BY <2>3, <2>5, Zenon
  <2> HIDE DEF Upto
  <2> QED BY <2>6
<1>3. \A m \in Nat : m \in T
  <2> HIDE DEF T
  <2> QED BY <1>1, <1>2, Induction, Zenon
<1>4. PICK g : Upto(g, NumDBs)
    BY <1>3, NumDBsAssumption, Zenon
<1>5. \A n \in 0 .. NumDBs : g[n] = B(g, n)
    BY <1>4, NumDBsAssumption
<1>6. Serialized(g, j, s)
    BY <1>4, <1>5, Zenon DEF Serialized
<1> QED BY <1>6, Zenon

\* ... and SerializeAllDBs is its last value.
LEMMA SerializedByTables ==
    ASSUME NEW j, NEW s PROVE \E g : Serialized(g, j, s) /\ SerializeAllDBs(j, s) = g[NumDBs]
<1> DEFINE B(g, n) == IF n = 0 THEN job[j].serializer
                      ELSE IF Due(j, s, n - 1) THEN SaveTable(g[n - 1], dbs[s][n - 1], n - 1, now)
                      ELSE g[n - 1]
           Body(g) == [n \in 0 .. NumDBs |-> B(g, n)]
           upTo == CHOOSE g : g = Body(g)
<1>1. SerializeAllDBs(j, s) = upTo[NumDBs]
    BY Zenon DEF SerializeAllDBs
<1>2. upTo = Body(upTo)
  <2>1. PICK g : Serialized(g, j, s)
    BY SerializedExists, Zenon
  <2>2. g = [n \in 0 .. NumDBs |-> g[n]] /\ \A n \in 0 .. NumDBs : g[n] = B(g, n)
    BY <2>1, Zenon DEF Serialized
  <2> HIDE DEF B
  <2>3. g = Body(g)
    BY <2>2, Zenon
  <2> HIDE DEF Body
  <2> QED BY <2>3, Zenon
<1>3. \A n \in 0 .. NumDBs : Body(upTo)[n] = B(upTo, n)
    BY Zenon
<1>4. Body(upTo) = [n \in 0 .. NumDBs |-> Body(upTo)[n]]
    OBVIOUS
<1> HIDE DEF upTo, Body
<1>5. upTo = [n \in 0 .. NumDBs |-> upTo[n]] /\ \A n \in 0 .. NumDBs : upTo[n] = B(upTo, n)
    BY <1>2, <1>3, <1>4, Zenon
<1>6. Serialized(upTo, j, s)
    BY <1>5, Zenon DEF Serialized
<1> QED BY <1>1, <1>6, Zenon

\* SerializeAllDBs of a shard of which nothing is passed over adds exactly the
\* entries of all its databases.
LEMMA AllDBsSaved ==
    ASSUME Tables, NEW j, NEW s \in Shard, NEW c, Saved(job[j].serializer, c),
           \A i \in DB : version[s][i] < job[j].epoch, \A f \in c : home[f.key] # s
    PROVE  Saved(SerializeAllDBs(j, s), c \cup UNION {Entries(dbs[s][i], i, now) : i \in DB})
<1> DEFINE E(i) == Entries(dbs[s][i], i, now)
           C(n) == c \cup UNION {E(i) : i \in 0 .. n - 1}
<1>1. PICK g : Serialized(g, j, s) /\ SerializeAllDBs(j, s) = g[NumDBs]
    BY SerializedByTables, Zenon
<1>2. ASSUME NEW i \in DB
      PROVE  /\ IsDb(dbs[s][i]) /\ IsFiniteSet(Living(dbs[s][i]))
             /\ \A e \in E(i) : e.db = i /\ home[e.key] = s
  <2>1. IsDbOf(dbs[s][i], s)
    BY Zenon DEF Tables
  <2> QED BY <2>1, EntriesTyped, Zenon DEF IsDbOf
<1>3. ASSUME NEW i \in DB, ~Due(j, s, i) PROVE E(i) = {}
  <2>1. dbs[s][i].val = EmptyDB.val
    BY <1>3, Zenon DEF Due
  <2>2. \A k \in Key : dbs[s][i].val[k] = Absent
    BY <2>1, Zenon DEF EmptyDB
  <2> QED BY <2>2, Zenon DEF Entries
<1> DEFINE T == {n \in Nat : n <= NumDBs => Saved(g[n], C(n))}
<1> HIDE DEF E
<1>4. 0 \in T
  <2>1. C(0) = c
    OBVIOUS
  <2>2. g[0] = job[j].serializer
    BY <1>1, NumDBsAssumption DEF Serialized
  <2> HIDE DEF C
  <2> QED BY <2>1, <2>2, Zenon
<1>5. ASSUME NEW n \in Nat, n \in T PROVE n + 1 \in T
  <2> SUFFICES ASSUME n + 1 <= NumDBs PROVE Saved(g[n + 1], C(n + 1))
    OBVIOUS
  <2>1. n \in DB /\ n <= NumDBs /\ n + 1 \in 0 .. NumDBs /\ (n + 1) - 1 = n /\ n + 1 # 0
    BY NumDBsAssumption DEF DB
  <2>2. Saved(g[n], C(n))
    BY <1>5, <2>1, Zenon
  <2>3. C(n + 1) = C(n) \cup E(n)
    <3>1. 0 .. (n + 1) - 1 = (0 .. n - 1) \cup {n}
      OBVIOUS
    <3> QED BY <3>1, Zenon
  <2>4. g[n + 1] = IF Due(j, s, n) THEN SaveTable(g[n], dbs[s][n], n, now) ELSE g[n]
    BY <1>1, <2>1, Zenon DEF Serialized
  <2>5. \A e \in E(n) : New(e, C(n))
    <3> SUFFICES ASSUME NEW e \in E(n), NEW f \in C(n) PROVE f.db # e.db \/ f.key # e.key
      BY Zenon DEF New
    <3>1. e.db = n /\ home[e.key] = s
      BY <1>2, <2>1, Zenon
    <3>2. CASE f \in c
      BY <3>1, <3>2, Zenon
    <3>3. CASE f \notin c
      <4>1. PICK i \in 0 .. n - 1 : f \in E(i)
        BY <3>3, Zenon
      <4>2. i \in DB /\ i # n
        BY <2>1, NumDBsAssumption DEF DB
      <4> QED BY <1>2, <3>1, <4>1, <4>2, Zenon
    <3> QED BY <3>2, <3>3, Zenon
  <2> HIDE DEF C
  <2>6. CASE Due(j, s, n)
    <3>1. Saved(SaveTable(g[n], dbs[s][n], n, now), C(n) \cup E(n))
      BY <1>2, <2>1, <2>2, <2>5, TableSaved, Zenon DEF E
    <3> QED BY <2>3, <2>4, <2>6, <3>1, Zenon
  <2>7. CASE ~Due(j, s, n)
    BY <1>3, <2>1, <2>2, <2>3, <2>4, <2>7, Zenon
  <2> QED BY <2>6, <2>7, Zenon
<1>6. \A n \in Nat : n \in T
  <2> HIDE DEF T
  <2> QED BY <1>4, <1>5, Induction, Zenon
<1>7. Saved(g[NumDBs], C(NumDBs))
  <2> HIDE DEF C
  <2>1. NumDBs \in T
    BY <1>6, NumDBsAssumption, Zenon
  <2> QED BY <2>1, NumDBsAssumption
<1>8. C(NumDBs) = c \cup UNION {E(i) : i \in DB}
    BY Zenon DEF DB
<1> HIDE DEF C
<1> QED BY <1>1, <1>7, <1>8, Zenon DEF E

-----------------------------------------------------------------------------
(* A file that has been ended, and what a reader finds in it.                *)

\* What stood before the last token.
LEMMA FrontOfAppend ==
    ASSUME NEW S, NEW s \in Seq(S), NEW x PROVE SubSeq(Append(s, x), 1, Len(s)) = s
<1> DEFINE T == S \cup {x}
           u == Append(s, x)
<1>1. s \in Seq(T) /\ x \in T
    OBVIOUS
<1> HIDE DEF T
<1>2. u \in Seq(T) /\ Len(u) = Len(s) + 1 /\ Len(s) \in Nat /\ \A q \in 1 .. Len(s) : u[q] = s[q]
    BY <1>1
<1>3. s = [q \in 1 .. Len(s) |-> s[q]]
    BY <1>1
<1> HIDE DEF u
<1>4. SubSeq(u, 1, Len(s)) = [q \in 1 .. Len(s) |-> u[q]]
    BY <1>2
<1>5. [q \in 1 .. Len(s) |-> u[q]] = [q \in 1 .. Len(s) |-> s[q]]
    BY <1>2, Zenon
<1> QED BY <1>3, <1>4, <1>5, Zenon DEF u

\* The tokens of a file that has been ended.
LEMMA EndedFile ==
    ASSUME NEW g, Begun(g)
    PROVE  LET t == Ended(g)
               n == Len(g)
           IN  /\ Extends(g, t) /\ Len(t) = n + 2
               /\ t[n + 1] = <<"eof">> /\ t[n + 2] = <<"crc", Append(g, <<"eof">>)>>
               /\ SubSeq(t, 1, n + 1) = Append(g, <<"eof">>)
               /\ EntriesOf(t) = EntriesOf(g)
<1> DEFINE X == {<<"header">>} \cup Opcode
           f == Append(g, <<"eof">>)
           t == Append(f, <<"crc", f>>)
           n == Len(g)
           Y == X \cup {<<"eof">>}
           Z == Y \cup {<<"crc", f>>}
<1>1. g \in Seq(X)
    BY Zenon DEF Begun
<1> HIDE DEF X
<1>2. g \in Seq(Y) /\ <<"eof">> \in Y
    BY <1>1
<1> HIDE DEF Y
<1>3. f \in Seq(Y) /\ Len(f) = n + 1 /\ f[n + 1] = <<"eof">> /\ \A q \in 1 .. n : f[q] = g[q]
    BY <1>2
<1> HIDE DEF f
<1>4. f \in Seq(Z) /\ <<"crc", f>> \in Z
    BY <1>3
<1>5. SubSeq(t, 1, Len(f)) = f
    BY <1>3, FrontOfAppend, Zenon
<1> HIDE DEF Z
<1>6. /\ n \in Nat /\ DOMAIN g = 1 .. n
      /\ Len(t) = n + 2 /\ DOMAIN t = 1 .. n + 2 /\ t[n + 2] = <<"crc", f>>
      /\ \A q \in 1 .. n + 1 : t[q] = f[q]
  <2>1. n \in Nat /\ DOMAIN g = 1 .. n /\ DOMAIN t = 1 .. Len(t) /\ Len(t) = Len(f) + 1
    BY <1>2, <1>4
  <2>2. t[Len(f) + 1] = <<"crc", f>> /\ \A q \in 1 .. Len(f) : t[q] = f[q]
    BY <1>4
  <2>3. Len(f) + 1 = n + 2
    BY <1>3, <2>1
  <2> HIDE DEF t, n
  <2> QED BY <1>3, <2>1, <2>2, <2>3, Zenon
<1>7. t = Ended(g)
    BY Zenon DEF Ended, f
<1> HIDE DEF t
<1>8. Extends(g, t)
    BY <1>3, <1>6 DEF Extends
<1>9. t[n + 1] = <<"eof">> /\ t[n + 1][1] = "eof" /\ t[n + 2][1] = "crc"
    BY <1>3, <1>6
<1>10. EntriesOf(t) = EntriesOf(g)
  <2>1. \A q \in 1 .. n : t[q] = g[q]
    BY <1>3, <1>6
  <2> HIDE DEF n
  <2>2. 1 .. n + 2 = 1 .. n \cup {n + 1, n + 2}
    BY <1>6
  <2> QED BY <1>6, <1>9, <2>1, <2>2 DEF EntriesOf
<1>11. SubSeq(t, 1, n + 1) = f
    BY <1>3, <1>5, Zenon
<1> QED BY <1>6, <1>7, <1>8, <1>9, <1>10, <1>11, Zenon DEF f

\* SaveFooter makes a complete file of what the serializer has written.
LEMMA FooterCompletes ==
    ASSUME NEW o, NEW c, Saved(o, c) PROVE Complete(SaveFooter(o).out, c)
<1>1. o = [out |-> o.out, last_dbid |-> o.last_dbid]
    BY Zenon DEF Saved
<1>2. SaveFooter(o).out = Ended(o.out)
    BY <1>1, Zenon DEF SaveFooter, Write, Ended
<1> QED BY <1>2, Zenon DEF Complete, Saved

\* A reader finds the entry that has been recorded.
LEMMA ReadAsRecorded ==
    ASSUME NEW t, NEW p \in Nat, NEW e, Records(t, p, e)
    PROVE  /\ DbAt(t, p) = e.db /\ t[p][2] = StringView(e.key) /\ t[p][3] = Written(e.val)
           /\ DeadlineAt(t, p) = e.exp
<1>1. t[p][2] = StringView(e.key) /\ t[p][3] = Written(e.val)
    BY DEF Records
<1>2. DeadlineAt(t, p) = e.exp
    BY DEF Records, DeadlineAt
<1>3. PICK m \in 1 .. p - 1 : Selects(t, m, p, e.db)
    BY Zenon DEF Records
<1> DEFINE S == {i \in 1 .. p : t[i][1] = "select"}
<1>4. m \in S /\ \A i \in S : m >= i
    BY <1>3 DEF Selects
<1>5. S \subseteq Int
    OBVIOUS
<1> HIDE DEF S
<1>6. Max(S) = m
  <2>1. Max(S) \in S /\ \A i \in S : Max(S) >= i
    BY <1>4, Zenon DEF Max
  <2> DEFINE x == Max(S)
  <2>2. x \in Int /\ m \in Int /\ x >= m /\ m >= x
    BY <1>4, <1>5, <2>1, Zenon
  <2> HIDE DEF x
  <2>3. x = m
    BY <2>2
  <2> QED BY <2>3, Zenon DEF x
<1>7. DbAt(t, p) = t[m][2]
    BY <1>6, Zenon DEF DbAt, S
<1> QED BY <1>1, <1>2, <1>3, <1>7 DEF Selects

\* A complete file is whole, and a reader finds in it exactly the entries that
\* it holds.
LEMMA CompleteIsCut ==
    ASSUME NEW t, NEW c, Complete(t, c)
    PROVE  /\ IsWhole(t)
           /\ {[db |-> DbAt(t, p), key |-> t[p][2], val |-> t[p][3], exp |-> DeadlineAt(t, p)] :
                    p \in EntriesOf(t)}
              = {[db |-> e.db, key |-> StringView(e.key), val |-> Written(e.val), exp |-> e.exp] :
                    e \in c}
           /\ Cardinality(EntriesOf(t)) = Cardinality(c)
<1>1. PICK g : Begun(g) /\ t = Ended(g) /\ Holds(g, c)
    BY Zenon DEF Complete
<1> DEFINE n == Len(g)
<1>2. /\ Extends(g, t) /\ Len(t) = n + 2
      /\ t[n + 1] = <<"eof">> /\ t[n + 2] = <<"crc", Append(g, <<"eof">>)>>
      /\ SubSeq(t, 1, n + 1) = Append(g, <<"eof">>)
      /\ EntriesOf(t) = EntriesOf(g)
    BY <1>1, EndedFile, Zenon
<1>3. n \in Nat /\ n >= 1 /\ g[1] = <<"header">> /\ DOMAIN g = 1 .. n
    BY <1>1, FileLength, Zenon DEF Begun
<1>4. IsWhole(t)
  <2>1. Len(t) - 1 = n + 1 /\ t[1] = <<"header">>
    BY <1>2, <1>3 DEF Extends
  <2>2. SubSeq(t, 1, Len(t) - 1) = Append(g, <<"eof">>)
    BY <1>2, <2>1, Zenon
  <2>3. Len(t) > 2 /\ t[Len(t)] = <<"crc", SubSeq(t, 1, Len(t) - 1)>> /\ t[Len(t) - 1] = <<"eof">>
    BY <1>2, <1>3, <2>1, <2>2
  <2> QED BY <2>1, <2>3, Zenon DEF IsWhole
<1>5. PICK b \in Bijection(EntriesOf(g), c) : \A p \in EntriesOf(g) : Records(g, p, b[p])
    BY <1>1, Zenon DEF Holds
<1>6. b \in [EntriesOf(g) -> c] /\ \A e \in c : \E p \in EntriesOf(g) : b[p] = e
    BY <1>5, PairsUp
<1> DEFINE R(p) == [db |-> DbAt(t, p), key |-> t[p][2], val |-> t[p][3], exp |-> DeadlineAt(t, p)]
           W(e) == [db |-> e.db, key |-> StringView(e.key), val |-> Written(e.val), exp |-> e.exp]
<1>7. ASSUME NEW p \in EntriesOf(g) PROVE R(p) = W(b[p])
  <2>1. Records(t, p, b[p]) /\ p \in Nat
    BY <1>2, <1>3, <1>5, StaysRecorded DEF EntriesOf
  <2> QED BY <2>1, ReadAsRecorded
<1> HIDE DEF R, W
<1>8. {R(p) : p \in EntriesOf(t)} = {W(e) : e \in c}
    BY <1>2, <1>6, <1>7
<1>9. Cardinality(EntriesOf(t)) = Cardinality(c)
  <2>1. IsFiniteSet(1 .. n)
    BY <1>3, FS_Interval
  <2>2. IsFiniteSet(EntriesOf(g))
    BY <1>3, <2>1, FS_Subset, Zenon DEF EntriesOf
  <2> QED BY <1>2, <1>5, <2>2, FS_Bijection, Zenon DEF ExistsBijection
<1> QED BY <1>4, <1>8, <1>9, Zenon DEF R, W

-----------------------------------------------------------------------------
(* Reading a file that has been ended.                                       *)

\* Min of a set of numbers.
LEMMA LeastOf == ASSUME NEW T \in SUBSET Nat, T # {} PROVE Min(T) \in T /\ \A y \in T : Min(T) <= y
<1> DEFINE R == OpToRel(<, Nat)
<1>1. IsWellFoundedOn(R, Nat)
    BY NatLessThanWellFounded, Zenon
<1>2. \A x, y \in Nat : x < y => <<x, y>> \in R
    BY Zenon DEF OpToRel
<1> HIDE DEF R
<1>3. PICK x \in T : \A y \in T : ~(<<y, x>> \in R)
    BY <1>1, WFMin, Zenon
<1>4. ASSUME NEW y \in T PROVE x <= y
  <2>1. x \in Nat /\ y \in Nat
    BY Zenon
  <2>2. ~(y < x)
    BY <1>2, <1>3, <2>1, Zenon
  <2> QED BY <2>1, <2>2
<1> QED BY <1>4, Zenon DEF Min

\* The kinds of the tokens of a file that ends at n + 2.
IsText(t, n) ==
    /\ n \in Nat /\ n >= 1 /\ Len(t) = n + 2 /\ DOMAIN t = 1 .. n + 2
    /\ t[1] = <<"header">>
    /\ \A q \in 2 .. n : t[q] \in Opcode
    /\ t[n + 1] = <<"eof">> /\ t[n + 2] = <<"crc", SubSeq(t, 1, n + 1)>>

\* The tokens of a complete file, and the entry that each of its entry tokens
\* stands for.
LEMMA CompleteIsText ==
    ASSUME NEW t, NEW c, Complete(t, c)
    PROVE  /\ \E n : IsText(t, n)
           /\ IsCut(c)
           /\ \E b \in Bijection(EntriesOf(t), c) : \A p \in EntriesOf(t) : Records(t, p, b[p])
<1>1. PICK g : Begun(g) /\ t = Ended(g) /\ Holds(g, c) /\ IsCut(c)
    BY Zenon DEF Complete
<1> DEFINE n == Len(g)
<1>2. /\ Extends(g, t) /\ Len(t) = n + 2
      /\ t[n + 1] = <<"eof">> /\ t[n + 2] = <<"crc", Append(g, <<"eof">>)>>
      /\ SubSeq(t, 1, n + 1) = Append(g, <<"eof">>)
      /\ EntriesOf(t) = EntriesOf(g)
    BY <1>1, EndedFile, Zenon
<1>3. n \in Nat /\ n >= 1 /\ g[1] = <<"header">> /\ \A q \in 2 .. n : g[q] \in Opcode
    BY <1>1, FileLength, Zenon DEF Begun
<1>4. IsText(t, n)
  <2>1. DOMAIN t = 1 .. n + 2 /\ \A q \in 1 .. n : t[q] = g[q]
    BY <1>2, Zenon DEF Extends
  <2> HIDE DEF n
  <2>2. t[1] = <<"header">> /\ \A q \in 2 .. n : t[q] \in Opcode
    BY <1>3, <2>1
  <2>3. t[n + 2] = <<"crc", SubSeq(t, 1, n + 1)>>
    BY <1>2, Zenon
  <2> QED BY <1>2, <1>3, <2>1, <2>2, <2>3, Zenon DEF IsText
<1>5. PICK b \in Bijection(EntriesOf(g), c) : \A p \in EntriesOf(g) : Records(g, p, b[p])
    BY <1>1, Zenon DEF Holds
<1>6. \A p \in EntriesOf(t) : Records(t, p, b[p])
    BY <1>2, <1>5, StaysRecorded, Zenon
<1> QED BY <1>1, <1>2, <1>4, <1>5, <1>6, Zenon

\* Where the reader stops.
LEMMA Stops ==
    ASSUME NEW l, NEW n, IsText(l.tokens, n), l.pos \in 2 .. n + 1
    PROVE  /\ StopsAt(l) \in l.pos .. n + 1
           /\ l.tokens[StopsAt(l)][1] \in {"entry", "eof"}
           /\ StopsAt(l) <= n <=> l.tokens[StopsAt(l)][1] = "entry"
           /\ \A q \in l.pos .. StopsAt(l) - 1 : l.tokens[q] \in Opcode /\ l.tokens[q][1] \in {"select", "expire"}
<1> DEFINE t == l.tokens
           T == {i \in l.pos .. Len(t) : t[i][1] \in {"entry", "eof", "crc"}} \cup {Len(t) + 1}
<1>1. StopsAt(l) = Min(T)
    BY Zenon DEF StopsAt
<1>2. /\ n \in Nat /\ n >= 1 /\ Len(t) = n + 2
      /\ \A q \in 2 .. n : t[q] \in Opcode
      /\ t[n + 1] = <<"eof">>
    BY Zenon DEF IsText
<1>3. T \in SUBSET Nat /\ T # {}
    BY <1>2
<1>4. t[n + 1][1] = "eof"
    BY <1>2
<1>5. n + 1 \in T
    BY <1>2, <1>4
<1> DEFINE p == Min(T)
<1>6. p \in T /\ \A y \in T : p <= y
    BY <1>3, LeastOf, Zenon
<1> HIDE DEF p
<1>7. p \in Nat /\ p <= n + 1 /\ p \in l.pos .. n + 1
    BY <1>2, <1>3, <1>5, <1>6
<1>8. \A q \in 2 .. n : t[q][1] \in {"select", "expire", "entry"}
    BY <1>2, OpcodeKinds, Zenon
<1>9. t[p][1] \in {"entry", "eof", "crc"}
    BY <1>2, <1>6, <1>7
<1>10. p <= n => t[p][1] = "entry"
    BY <1>7, <1>8, <1>9
<1>11. ~(p <= n) => t[p][1] = "eof"
  <2> SUFFICES ASSUME ~(p <= n) PROVE t[p][1] = "eof"
    BY Zenon
  <2>1. p = n + 1
    BY <1>2, <1>7
  <2> QED BY <1>4, <2>1, Zenon
<1>12. ASSUME NEW q \in l.pos .. p - 1 PROVE t[q] \in Opcode /\ t[q][1] \in {"select", "expire"}
  <2>1. q \in 2 .. n /\ q \in l.pos .. Len(t) /\ ~(p <= q)
    BY <1>2, <1>7
  <2>2. q \notin T
    BY <1>6, <2>1, Zenon
  <2>3. t[q][1] # "entry"
    BY <2>1, <2>2, Zenon
  <2> QED BY <1>2, <1>8, <2>1, <2>3, Zenon
<1> QED BY <1>1, <1>7, <1>10, <1>11, <1>12, Zenon DEF p

\* The loader's states before each token.
ReadsEach(g, l) ==
    /\ g = [p \in l.pos .. StopsAt(l) |-> g[p]]
    /\ \A p \in l.pos .. StopsAt(l) :
          g[p] = IF p = l.pos THEN l ELSE ReadOpcode(g[p - 1], l.tokens[p - 1])

\* The function that ReadOpcodes defines by recursion on positions exists.
LEMMA ReadsExist ==
    ASSUME NEW l, l.pos \in Nat, StopsAt(l) \in Nat PROVE \E g : ReadsEach(g, l)
<1> DEFINE D == l.pos .. StopsAt(l)
           B(g, p) == IF p = l.pos THEN l ELSE ReadOpcode(g[p - 1], l.tokens[p - 1])
           Upto(g, m) == g = [p \in D |-> g[p]] /\ \A p \in D : p <= l.pos + m => g[p] = B(g, p)
           T == {m \in Nat : \E g : Upto(g, m)}
<1>1. 0 \in T
  <2> DEFINE g == [p \in D |-> l]
  <2>1. Upto(g, 0)
    OBVIOUS
  <2> QED BY <2>1, Zenon
<1>2. ASSUME NEW m \in Nat, m \in T PROVE m + 1 \in T
  <2>1. PICK g : Upto(g, m)
    BY <1>2, Zenon
  <2> DEFINE h == [p \in D |-> B(g, p)]
  <2>2. \A p \in D : h[p] = B(g, p)
    BY Zenon
  <2>3. h = [p \in D |-> h[p]]
    BY Zenon
  <2>4. \A p \in D : p <= l.pos + m => h[p] = g[p]
    BY <2>1, Zenon
  <2> HIDE DEF h
  <2>5. ASSUME NEW p \in D, p <= l.pos + (m + 1) PROVE h[p] = B(h, p)
    <3>1. CASE p = l.pos
      BY <2>2, <3>1, Zenon
    <3>2. CASE p # l.pos
      <4>1. p - 1 \in D /\ p - 1 <= l.pos + m
        BY <2>5, <3>2
      <4>2. h[p - 1] = g[p - 1]
        BY <2>4, <4>1, Zenon
      <4> QED BY <2>2, <3>2, <4>2, Zenon
    <3> QED BY <3>1, <3>2, Zenon
  <2> HIDE DEF D
  <2>6. Upto(h, m + 1)
    BY <2>3, <2>5, Zenon
  <2> HIDE DEF Upto
  <2> QED BY <2>6
<1>3. \A m \in Nat : m \in T
  <2> HIDE DEF T
  <2> QED BY <1>1, <1>2, Induction, Zenon
<1>4. PICK g : Upto(g, StopsAt(l))
    BY <1>3, Zenon
<1>5. \A p \in D : p <= l.pos + StopsAt(l)
    OBVIOUS
<1>6. g = [p \in D |-> g[p]] /\ \A p \in D : g[p] = B(g, p)
    BY <1>4, <1>5, Zenon
<1>7. ReadsEach(g, l)
    BY <1>6, Zenon DEF ReadsEach
<1> QED BY <1>7, Zenon

\* ... and ReadOpcodes is its last value.
LEMMA ReadByTokens ==
    ASSUME NEW l, l.pos \in Nat, StopsAt(l) \in Nat
    PROVE  \E g : ReadsEach(g, l) /\ ReadOpcodes(l) = [g[StopsAt(l)] EXCEPT !.pos = StopsAt(l)]
<1> DEFINE D == l.pos .. StopsAt(l)
           B(g, p) == IF p = l.pos THEN l ELSE ReadOpcode(g[p - 1], l.tokens[p - 1])
           Body(g) == [p \in D |-> B(g, p)]
           before == CHOOSE g : g = Body(g)
<1>1. ReadOpcodes(l) = [before[StopsAt(l)] EXCEPT !.pos = StopsAt(l)]
    BY Zenon DEF ReadOpcodes
<1>2. before = Body(before)
  <2>1. PICK g : ReadsEach(g, l)
    BY ReadsExist, Zenon
  <2>2. g = [p \in D |-> g[p]] /\ \A p \in D : g[p] = B(g, p)
    BY <2>1, Zenon DEF ReadsEach
  <2> HIDE DEF B
  <2>3. g = Body(g)
    BY <2>2, Zenon
  <2> HIDE DEF Body
  <2> QED BY <2>3, Zenon
<1>3. \A p \in D : Body(before)[p] = B(before, p)
    BY Zenon
<1>4. Body(before) = [p \in D |-> Body(before)[p]]
    OBVIOUS
<1> HIDE DEF before, Body
<1>5. before = [p \in D |-> before[p]] /\ \A p \in D : before[p] = B(before, p)
    BY <1>2, <1>3, <1>4, Zenon
<1>6. ReadsEach(before, l)
    BY <1>5, Zenon DEF ReadsEach
<1> QED BY <1>1, <1>6, Zenon

\* The loader's state x in front of position q.
ReadsTo(x, l, q) ==
    /\ DOMAIN x = {"tokens", "pos", "dbid", "expire"}
    /\ x.tokens = l.tokens /\ x.pos = l.pos /\ x.expire = DeadlineAt(l.tokens, q)
    /\ x.dbid \in DB /\ Chosen(l.tokens, q - 1, x.dbid)

\* A token that selects no database leaves the one at hand.
LEMMA OneMoreChosen ==
    ASSUME NEW t, NEW q \in Nat, q >= 1, NEW i, Chosen(t, q - 1, i), t[q][1] # "select"
    PROVE  Chosen(t, q, i)
<1>1. CASE \A m \in 1 .. q - 1 : t[m][1] # "select"
  <2>1. \A m \in 1 .. q : m = q \/ m \in 1 .. q - 1
    OBVIOUS
  <2> QED BY <1>1, <2>1, Zenon DEF Chosen
<1>2. ASSUME NEW m \in 1 .. q - 1, Selects(t, m, q - 1, i) PROVE Chosen(t, q, i)
  <2>1. \A k \in m + 1 .. q : k = q \/ k \in m + 1 .. q - 1
    OBVIOUS
  <2>2. Selects(t, m, q, i)
    BY <1>2, <2>1, Zenon DEF Selects
  <2> QED BY <2>2 DEF Chosen
<1> QED BY <1>1, <1>2, Zenon DEF Chosen

\* One more opcode has been read.
LEMMA OneMoreRead ==
    ASSUME NEW l, NEW q \in Nat, q >= 2, l.tokens[q] \in Opcode, l.tokens[q][1] \in {"select", "expire"},
           NEW x, ReadsTo(x, l, q)
    PROVE  ReadsTo(ReadOpcode(x, l.tokens[q]), l, q + 1)
<1> DEFINE t == l.tokens
           y == ReadOpcode(x, t[q])
<1>1. DOMAIN x = {"tokens", "pos", "dbid", "expire"} /\ x.tokens = t /\ x.pos = l.pos
    BY Zenon DEF ReadsTo
<1>2. x.dbid \in DB /\ Chosen(t, q - 1, x.dbid) /\ (q + 1) - 1 = q
    BY DEF ReadsTo
<1>3. CASE t[q][1] = "select"
  <2>1. PICK i \in DB : t[q] = <<"select", i>>
    BY <1>3 DEF Opcode
  <2>2. y = [x EXCEPT !.dbid = i, !.expire = NoExpiry]
    BY <1>3, <2>1 DEF ReadOpcode
  <2>3. /\ DOMAIN y = {"tokens", "pos", "dbid", "expire"}
        /\ y.tokens = t /\ y.pos = l.pos /\ y.dbid = i /\ y.expire = NoExpiry
    BY <1>1, <2>2, Zenon
  <2>4. DeadlineAt(t, q + 1) = NoExpiry
    BY <1>2, <1>3, Zenon DEF DeadlineAt
  <2>5. Selects(t, q, q, i)
    BY <2>1 DEF Selects
  <2>6. Chosen(t, q, i)
    BY <2>5 DEF Chosen
  <2> HIDE DEF y
  <2> QED BY <1>2, <2>3, <2>4, <2>6, Zenon DEF ReadsTo, y
<1>4. CASE t[q][1] = "expire"
  <2>1. y = [x EXCEPT !.expire = t[q][2]]
    BY <1>4, Zenon DEF ReadOpcode
  <2>2. /\ DOMAIN y = {"tokens", "pos", "dbid", "expire"}
        /\ y.tokens = t /\ y.pos = l.pos /\ y.dbid = x.dbid /\ y.expire = t[q][2]
    BY <1>1, <2>1, Zenon
  <2>3. DeadlineAt(t, q + 1) = t[q][2]
    BY <1>2, <1>4, Zenon DEF DeadlineAt
  <2>4. Chosen(t, q, x.dbid)
    BY <1>2, <1>4, OneMoreChosen
  <2> HIDE DEF y
  <2> QED BY <1>2, <2>2, <2>3, <2>4, Zenon DEF ReadsTo, y
<1> QED BY <1>3, <1>4, Zenon

\* The loader reads the opcodes up to the next entry or the end.
LEMMA ReadUpTo ==
    ASSUME NEW l, IsReader(l), NEW n, IsText(l.tokens, n)
    PROVE  \E x : ReadsTo(x, l, StopsAt(l)) /\ ReadOpcodes(l) = [x EXCEPT !.pos = StopsAt(l)]
<1> DEFINE t == l.tokens
           s == StopsAt(l)
<1>1. l.pos \in 2 .. n + 1 /\ n \in Nat
    BY DEF IsReader, IsText
<1>2. /\ s \in l.pos .. n + 1
      /\ \A q \in l.pos .. s - 1 : t[q] \in Opcode /\ t[q][1] \in {"select", "expire"}
    BY <1>1, Stops, Zenon
<1>3. PICK g : ReadsEach(g, l) /\ ReadOpcodes(l) = [g[s] EXCEPT !.pos = s]
    BY <1>1, <1>2, ReadByTokens
<1> HIDE DEF s
<1>4. \A p \in l.pos .. s : g[p] = IF p = l.pos THEN l ELSE ReadOpcode(g[p - 1], t[p - 1])
    BY <1>3, Zenon DEF ReadsEach, s
<1> DEFINE T == {m \in Nat : l.pos + m <= s => ReadsTo(g[l.pos + m], l, l.pos + m)}
<1>5. 0 \in T
  <2>1. l.pos + 0 = l.pos /\ g[l.pos] = l
    BY <1>1, <1>2, <1>4
  <2>2. DeadlineAt(t, l.pos) = NoExpiry
    BY Zenon DEF IsReader, DeadlineAt
  <2>3. ReadsTo(l, l, l.pos)
    BY <2>2, Zenon DEF IsReader, ReadsTo
  <2> QED BY <2>1, <2>3, Zenon
<1>6. ASSUME NEW m \in Nat, m \in T PROVE m + 1 \in T
  <2> SUFFICES ASSUME l.pos + (m + 1) <= s PROVE ReadsTo(g[l.pos + (m + 1)], l, l.pos + (m + 1))
    OBVIOUS
  <2> DEFINE q == l.pos + m
  <2>1. /\ q \in Nat /\ q >= 2 /\ q \in l.pos .. s - 1 /\ q <= s /\ q + 1 \in l.pos .. s
        /\ q + 1 # l.pos /\ (q + 1) - 1 = q /\ l.pos + (m + 1) = q + 1
    BY <1>1, <1>2
  <2>2. ReadsTo(g[q], l, q)
    BY <1>6, <2>1, Zenon
  <2> HIDE DEF q
  <2>3. g[q + 1] = ReadOpcode(g[q], t[q])
    BY <1>4, <2>1, Zenon
  <2>4. ReadsTo(g[q + 1], l, q + 1)
    BY <1>2, <2>1, <2>2, <2>3, OneMoreRead, Zenon
  <2> QED BY <2>1, <2>4, Zenon
<1>7. \A m \in Nat : m \in T
  <2> HIDE DEF T
  <2> QED BY <1>5, <1>6, Induction, Zenon
<1>8. s - l.pos \in Nat /\ l.pos + (s - l.pos) = s
    BY <1>1, <1>2
<1>9. ReadsTo(g[s], l, s)
  <2>1. s - l.pos \in T
    BY <1>7, <1>8, Zenon
  <2>2. l.pos + (s - l.pos) <= s
    BY <1>1, <1>2, <1>8
  <2> QED BY <1>8, <2>1, <2>2, Zenon
<1> QED BY <1>3, <1>9, Zenon DEF s

\* The reader when it has stopped.
LEMMA ReadState ==
    ASSUME NEW l, IsReader(l), NEW n, IsText(l.tokens, n)
    PROVE  LET r == ReadOpcodes(l)
               s == StopsAt(l)
           IN  /\ DOMAIN r = {"tokens", "pos", "dbid", "expire"}
               /\ r.tokens = l.tokens /\ r.pos = s /\ r.expire = DeadlineAt(l.tokens, s)
               /\ r.dbid \in DB /\ Chosen(l.tokens, s - 1, r.dbid)
<1> DEFINE r == ReadOpcodes(l)
           s == StopsAt(l)
<1>1. PICK x : ReadsTo(x, l, s) /\ r = [x EXCEPT !.pos = s]
    BY ReadUpTo, Zenon
<1> HIDE DEF s, r
<1>2. /\ DOMAIN x = {"tokens", "pos", "dbid", "expire"}
      /\ x.tokens = l.tokens /\ x.expire = DeadlineAt(l.tokens, s)
    BY <1>1, Zenon DEF ReadsTo
<1>3. /\ DOMAIN r = {"tokens", "pos", "dbid", "expire"}
      /\ r.tokens = l.tokens /\ r.pos = s /\ r.dbid = x.dbid /\ r.expire = DeadlineAt(l.tokens, s)
    BY <1>1, <1>2, Zenon
<1> QED BY <1>1, <1>3, Zenon DEF ReadsTo, r, s

\* Two selections for the same position are the same.
LEMMA OneSelected ==
    ASSUME NEW t, NEW p \in Nat, NEW i, NEW j, Chosen(t, p - 1, i), t[p][1] # "select",
           \E m \in 1 .. p - 1 : Selects(t, m, p, j)
    PROVE  i = j
<1>1. PICK m \in 1 .. p - 1 : Selects(t, m, p, j)
    BY Zenon
<1>2. t[m] = <<"select", j>> /\ t[m][1] = "select" /\ \A q \in m + 1 .. p : t[q][1] # "select"
    BY <1>1 DEF Selects
<1>3. PICK k \in 1 .. p - 1 : Selects(t, k, p - 1, i)
    BY <1>2, Zenon DEF Chosen
<1>4. t[k] = <<"select", i>> /\ t[k][1] = "select" /\ \A q \in k + 1 .. p - 1 : t[q][1] # "select"
    BY <1>3 DEF Selects
<1>5. ~(k < m)
  <2> SUFFICES ASSUME k < m PROVE FALSE
    BY Zenon
  <2>1. m \in k + 1 .. p - 1
    OBVIOUS
  <2> QED BY <1>2, <1>4, <2>1, Zenon
<1>6. ~(m < k)
  <2> SUFFICES ASSUME m < k PROVE FALSE
    BY Zenon
  <2>1. k \in m + 1 .. p
    OBVIOUS
  <2> QED BY <1>2, <1>4, <2>1, Zenon
<1>7. k = m
    BY <1>5, <1>6
<1> QED BY <1>2, <1>4, <1>7

\* What the handler is given for an entry e of the file.
Given(e) == [db |-> e.db, key |-> StringView(e.key), val |-> Written(e.val), exp |-> e.exp]

\* In a complete file the loader gives its handler the next entry as the save has
\* seen it, and goes on behind it.
LEMMA NextEntry ==
    ASSUME NEW l, IsReader(l), NEW c, Complete(l.tokens, c), HasEntry(ReadOpcodes(l))
    PROVE  \E p \in EntriesOf(l.tokens), e \in c :
              /\ p \in Nat /\ p >= l.pos /\ Records(l.tokens, p, e)
              /\ EntryRead(ReadOpcodes(l)) = Given(e)
              /\ IsReader(EntryDone(ReadOpcodes(l)))
              /\ EntryDone(ReadOpcodes(l)).tokens = l.tokens /\ EntryDone(ReadOpcodes(l)).pos = p + 1
              /\ \A q \in l.pos .. p - 1 : q \notin EntriesOf(l.tokens)
<1> DEFINE t == l.tokens
           r == ReadOpcodes(l)
           p == StopsAt(l)
           d == EntryDone(r)
<1>1. PICK n : IsText(t, n)
    BY CompleteIsText, Zenon
<1>2. PICK b \in Bijection(EntriesOf(t), c) : \A q \in EntriesOf(t) : Records(t, q, b[q])
    BY CompleteIsText, Zenon
<1>3. l.pos \in 2 .. n + 1 /\ n \in Nat /\ Len(t) = n + 2 /\ DOMAIN t = 1 .. n + 2
    BY <1>1 DEF IsReader, IsText
<1>4. /\ p \in l.pos .. n + 1
      /\ p <= n <=> t[p][1] = "entry"
      /\ \A q \in l.pos .. p - 1 : t[q][1] \in {"select", "expire"}
    BY <1>1, <1>3, Stops, Zenon
<1>5. /\ DOMAIN r = {"tokens", "pos", "dbid", "expire"}
      /\ r.tokens = t /\ r.pos = p /\ r.expire = DeadlineAt(t, p)
      /\ r.dbid \in DB /\ Chosen(t, p - 1, r.dbid)
    BY <1>1, ReadState, Zenon
<1> HIDE DEF p, r
<1>6. t[p][1] = "entry"
    BY <1>5, Zenon DEF HasEntry, r
<1>7. p \in EntriesOf(t) /\ p \in Nat /\ p >= l.pos /\ p <= n
    BY <1>3, <1>4, <1>6 DEF EntriesOf
<1> DEFINE e == b[p]
<1>8. e \in c /\ Records(t, p, e)
  <2>1. b \in [EntriesOf(t) -> c]
    BY <1>2, PairsUp, Zenon
  <2> QED BY <1>2, <1>7, <2>1, Zenon
<1> HIDE DEF e
<1>9. t[p][2] = StringView(e.key) /\ t[p][3] = Written(e.val) /\ DeadlineAt(t, p) = e.exp
    BY <1>7, <1>8, ReadAsRecorded, Zenon
<1>10. r.dbid = e.db
  <2>1. \E m \in 1 .. p - 1 : Selects(t, m, p, e.db)
    BY <1>8, Zenon DEF Records
  <2> QED BY <1>5, <1>6, <1>7, <2>1, OneSelected, Zenon
<1>11. EntryRead(r) = Given(e)
    BY <1>5, <1>9, <1>10, Zenon DEF EntryRead, Given
<1>12. /\ DOMAIN d = {"tokens", "pos", "dbid", "expire"} /\ d.expire = NoExpiry
       /\ d.tokens = t /\ d.pos = p + 1 /\ d.dbid = r.dbid
    BY <1>5, Zenon DEF EntryDone
<1>13. Chosen(t, p, r.dbid)
    BY <1>3, <1>4, <1>5, <1>6, <1>7, OneMoreChosen
<1> HIDE DEF d
<1>14. IsReader(d)
  <2>1. d.pos - 1 = p /\ d.pos \in 2 .. Len(d.tokens) - 1
    BY <1>3, <1>7, <1>12
  <2> QED BY <1>5, <1>6, <1>12, <1>13, <2>1, Zenon DEF IsReader
<1>15. \A q \in l.pos .. p - 1 : q \notin EntriesOf(t)
    BY <1>4, Zenon DEF EntriesOf
<1> QED BY <1>7, <1>8, <1>11, <1>12, <1>14, <1>15, Zenon DEF d, r

\* When there is none, the checksum is right and every entry has been read.
LEMMA NoNextEntry ==
    ASSUME NEW l, IsReader(l), NEW c, Complete(l.tokens, c), ~HasEntry(ReadOpcodes(l))
    PROVE  LoadFooter(ReadOpcodes(l)) /\ \A q \in EntriesOf(l.tokens) : q < l.pos
<1> DEFINE t == l.tokens
           r == ReadOpcodes(l)
           p == StopsAt(l)
<1>1. PICK n : IsText(t, n)
    BY CompleteIsText, Zenon
<1>2. /\ l.pos \in 2 .. n + 1 /\ n \in Nat /\ Len(t) = n + 2 /\ DOMAIN t = 1 .. n + 2
      /\ t[n + 1] = <<"eof">> /\ t[n + 2] = <<"crc", SubSeq(t, 1, n + 1)>>
    BY <1>1 DEF IsReader, IsText
<1>3. /\ p \in l.pos .. n + 1
      /\ p <= n <=> t[p][1] = "entry"
      /\ \A q \in l.pos .. p - 1 : t[q][1] \in {"select", "expire"}
    BY <1>1, <1>2, Stops, Zenon
<1>4. r.tokens = t /\ r.pos = p
    BY <1>1, ReadState, Zenon
<1> HIDE DEF p, r
<1>5. t[p][1] # "entry"
    BY <1>2, <1>3, <1>4 DEF HasEntry, r
<1>6. p = n + 1
    BY <1>2, <1>3, <1>5
<1>7. LoadFooter(r)
  <2>1. p < Len(t) /\ p + 1 = n + 2
    BY <1>2, <1>6
  <2> QED BY <1>2, <1>4, <1>6, <2>1, Zenon DEF LoadFooter
<1>8. ASSUME NEW q \in EntriesOf(t) PROVE q < l.pos
  <2>1. q \in 1 .. n + 2 /\ t[q][1] = "entry"
    BY <1>2, Zenon DEF EntriesOf
  <2>2. t[n + 1][1] = "eof" /\ t[n + 2][1] = "crc"
    BY <1>2
  <2>3. q # n + 1 /\ q # n + 2
    BY <2>1, <2>2, Zenon
  <2>4. q \notin l.pos .. p - 1
    BY <1>3, <2>1, Zenon
  <2> QED BY <1>2, <1>6, <2>1, <2>3, <2>4
<1> QED BY <1>7, <1>8, Zenon DEF r

\* A key that is neither an integer nor empty is written as it is.
LEMMA PlainIsWritten ==
    ASSUME NEW j \in Key, NEW k \in PlainKey, StringView(j) = k PROVE j = k
BY Zenon DEF StringView, PlainKey

\* Such a key reads as what it is.
LEMMA PlainView == \A k \in PlainKey : StringView(k) = k /\ k \in Key
BY Zenon DEF StringView, PlainKey

\* There is one place in a file for an entry with such a key.
LEMMA OnePlace ==
    ASSUME NEW t, NEW c, Complete(t, c), NEW e \in c, e.key \in PlainKey,
           NEW p \in EntriesOf(t), Records(t, p, e)
    PROVE  /\ \A q \in EntriesOf(t) : Records(t, q, e) => q = p
           /\ \A f \in c : Records(t, p, f) => f = e
<1>1. PICK b \in Bijection(EntriesOf(t), c) : \A q \in EntriesOf(t) : Records(t, q, b[q])
    BY CompleteIsText, Zenon
<1>2. b \in [EntriesOf(t) -> c] /\ \A x, y \in EntriesOf(t) : b[x] = b[y] => x = y
    BY <1>1, PairsUp
<1>3. IsCut(c) /\ \A q \in EntriesOf(t) : q \in Nat
  <2>1. PICK n : IsText(t, n)
    BY CompleteIsText, Zenon
  <2> QED BY <2>1, CompleteIsText DEF EntriesOf, IsText
<1>4. ASSUME NEW q \in EntriesOf(t), NEW f \in c, Records(t, q, f), Records(t, q, e) PROVE f = e
  <2>1. DbAt(t, q) = e.db /\ t[q][2] = StringView(e.key)
    BY <1>3, <1>4, ReadAsRecorded, Zenon
  <2>2. DbAt(t, q) = f.db /\ t[q][2] = StringView(f.key)
    BY <1>3, <1>4, ReadAsRecorded, Zenon
  <2>3. f.key \in Key
    BY <1>3, Zenon DEF IsCut
  <2>4. StringView(f.key) = e.key
    BY <2>1, <2>2, PlainView, Zenon
  <2>5. f.key = e.key
    BY <2>3, <2>4, PlainIsWritten, Zenon
  <2> QED BY <1>3, <2>1, <2>2, <2>5, Zenon DEF IsCut
<1>5. ASSUME NEW q \in EntriesOf(t), Records(t, q, e) PROVE b[q] = e
    BY <1>1, <1>2, <1>4, <1>5, Zenon
<1> QED BY <1>2, <1>4, <1>5, Zenon

-----------------------------------------------------------------------------
(* What the methods of Database do to the tables.                            *)

\* Database e is d, but for key k.
AtKey(d, e, k) ==
    /\ IsDb(e)
    /\ \A j \in Key : j # k => e.val[j] = d.val[j] /\ e.exp[j] = d.exp[j]

\* The two tables of a database.
LEMMA DbFields == ASSUME NEW d, IsDb(d) PROVE /\ d = [val |-> d.val, exp |-> d.exp]
                                             /\ d.val \in [Key -> Value \cup {Absent, NullObject}]
                                             /\ d.exp \in [Key -> Deadline \cup {NoExpiry}]
BY Zenon DEF IsDb

\* EraseBoth erases the keys of a set and leaves the others alone.
LEMMA Erased ==
    ASSUME NEW d, IsDb(d), NEW S
    PROVE  /\ IsDb(EraseBoth(d, S))
           /\ \A j \in Key : j \notin S => EraseBoth(d, S).val[j] = d.val[j] /\ EraseBoth(d, S).exp[j] = d.exp[j]
           /\ \A j \in Key : j \in S => EraseBoth(d, S).val[j] = Absent /\ EraseBoth(d, S).exp[j] = NoExpiry
<1> DEFINE V == [k \in Key |-> IF k \in S THEN Absent ELSE d.val[k]]
           X == [k \in Key |-> IF k \in S THEN NoExpiry ELSE d.exp[k]]
<1>1. EraseBoth(d, S) = [val |-> V, exp |-> X]
    BY Zenon DEF EraseBoth
<1>2. V \in [Key -> Value \cup {Absent, NullObject}] /\ X \in [Key -> Deadline \cup {NoExpiry}]
    BY DbFields, Zenon
<1>3. \A j \in Key : (j \notin S => V[j] = d.val[j] /\ X[j] = d.exp[j]) /\ (j \in S => V[j] = Absent /\ X[j] = NoExpiry)
    BY Zenon
<1> HIDE DEF V, X
<1> QED BY <1>1, <1>2, <1>3 DEF IsDb

\* Lazy expiry of a key changes that key only, and nothing before its deadline.
LEMMA PrunedAtKey ==
    ASSUME NEW d, IsDb(d), NEW k \in Key, NEW t
    PROVE  /\ AtKey(d, PruneExpiredInDB(d, k, t), k)
           /\ ~IsExpiredInDB(d, k, t) => PruneExpiredInDB(d, k, t) = d
<1>1. CASE IsExpiredInDB(d, k, t)
    BY <1>1, Erased DEF PruneExpiredInDB, AtKey
<1>2. CASE ~IsExpiredInDB(d, k, t)
    BY <1>2, Zenon DEF PruneExpiredInDB, AtKey
<1> QED BY <1>1, <1>2, Zenon

\* Set changes the value of its key only.
LEMMA SetAtKey ==
    ASSUME NEW d, IsDb(d), NEW k \in Key, NEW v \in Value \cup {NullObject}
    PROVE  AtKey(d, Set(d, k, v), k) /\ Set(d, k, v).val[k] = v /\ Set(d, k, v).exp = d.exp
<1>1. Set(d, k, v) = [val |-> [d.val EXCEPT ![k] = v], exp |-> d.exp]
    BY DbFields DEF Set
<1>2. [d.val EXCEPT ![k] = v] \in [Key -> Value \cup {Absent, NullObject}]
    BY DbFields, Zenon
<1> QED BY <1>1, <1>2, DbFields DEF AtKey, IsDb

\* A deadline is set.
LEMMA DeadlineAtKey ==
    ASSUME NEW d, IsDb(d), NEW k \in Key, NEW x \in Deadline \cup {NoExpiry}
    PROVE  LET e == [d EXCEPT !.exp[k] = x]
           IN  AtKey(d, e, k) /\ e.val = d.val /\ e.exp[k] = x
<1> DEFINE e == [d EXCEPT !.exp[k] = x]
<1>1. e = [val |-> d.val, exp |-> [d.exp EXCEPT ![k] = x]]
    BY DbFields
<1>2. [d.exp EXCEPT ![k] = x] \in [Key -> Deadline \cup {NoExpiry}]
    BY DbFields, Zenon
<1>3. e.val = d.val /\ e.exp = [d.exp EXCEPT ![k] = x]
    BY <1>1, Zenon
<1> HIDE DEF e
<1>4. IsDb(e)
    BY <1>1, <1>2, DbFields, Zenon DEF IsDb
<1>5. e.exp[k] = x /\ \A j \in Key : j # k => e.exp[j] = d.exp[j]
    BY <1>3, DbFields, Zenon
<1> QED BY <1>3, <1>4, <1>5, Zenon DEF AtKey, e

\* A deadline that has been held at the largest one is not before any that was
\* meant.
LEMMA DeadlineIsOne ==
    ASSUME NEW t \in 0 .. MaxNow, NEW ttl \in Int, ttl > 0
    PROVE  DeadlineAfter(t, ttl) \in Deadline /\ \A x \in Deadline : x <= t + ttl => x <= DeadlineAfter(t, ttl)
BY MaxNowAssumption, Int64MaxAssumption DEF DeadlineAfter, Deadline

\* Expire changes its key only, and gives a key that lives its new deadline.
LEMMA ExpireAtKey ==
    ASSUME NEW d, IsDb(d), NEW k \in Key, NEW t \in 0 .. MaxNow, NEW ttl \in Int
    PROVE  /\ AtKey(d, Expire(d, k, ttl, t), k)
           /\ ttl > 0 /\ d.val[k] # Absent /\ ~IsExpiredInDB(d, k, t) =>
                 /\ Expire(d, k, ttl, t).val = d.val
                 /\ Expire(d, k, ttl, t).exp[k] = DeadlineAfter(t, ttl)
<1> DEFINE p == PruneExpiredInDB(d, k, t)
           q == EraseBoth(p, {k})
           r == [p EXCEPT !.exp[k] = DeadlineAfter(t, ttl)]
<1>1. AtKey(d, p, k) /\ (~IsExpiredInDB(d, k, t) => p = d)
    BY PrunedAtKey, Zenon
<1>2. Expire(d, k, ttl, t) = CASE p.val[k] = Absent              -> p
                               [] p.val[k] # Absent /\ ttl <= 0  -> q
                               [] OTHER                          -> r
    BY Zenon DEF Expire
<1> HIDE DEF p
<1>3. AtKey(d, q, k)
    BY <1>1, Erased DEF AtKey
<1>4. ttl > 0 => AtKey(d, r, k) /\ r.val = p.val /\ r.exp[k] = DeadlineAfter(t, ttl)
  <2> SUFFICES ASSUME ttl > 0 PROVE AtKey(d, r, k) /\ r.val = p.val /\ r.exp[k] = DeadlineAfter(t, ttl)
    BY Zenon
  <2>1. DeadlineAfter(t, ttl) \in Deadline \cup {NoExpiry}
    BY DeadlineIsOne, Zenon
  <2>2. AtKey(p, r, k) /\ r.val = p.val /\ r.exp[k] = DeadlineAfter(t, ttl)
    BY <1>1, <2>1, DeadlineAtKey DEF AtKey
  <2> HIDE DEF r
  <2> QED BY <1>1, <2>2, Zenon DEF AtKey
<1> HIDE DEF q, r
<1>5. CASE p.val[k] = Absent
    BY <1>1, <1>2, <1>5, Zenon
<1>6. CASE p.val[k] # Absent /\ ttl <= 0
    BY <1>2, <1>3, <1>6
<1>7. CASE p.val[k] # Absent /\ ~(ttl <= 0)
  <2>1. ttl > 0
    BY <1>7
  <2>2. Expire(d, k, ttl, t) = r
    BY <1>2, <1>7, Zenon
  <2> QED BY <1>1, <1>4, <2>1, <2>2, Zenon
<1> QED BY <1>5, <1>6, <1>7, Zenon

\* Persist changes its key only.
LEMMA PersistAtKey ==
    ASSUME NEW d, IsDb(d), NEW k \in Key, NEW t
    PROVE  AtKey(d, Persist(d, k, t), k)
<1> DEFINE p == PruneExpiredInDB(d, k, t)
           r == [p EXCEPT !.exp[k] = NoExpiry]
<1>1. AtKey(d, p, k)
    BY PrunedAtKey, Zenon
<1>2. Persist(d, k, t) = IF p.val[k] = Absent THEN p ELSE r
    BY Zenon DEF Persist
<1> HIDE DEF p
<1>3. AtKey(p, r, k)
    BY <1>1, DeadlineAtKey DEF AtKey
<1> HIDE DEF r
<1> QED BY <1>1, <1>2, <1>3, Zenon DEF AtKey

\* Del changes its key only.
LEMMA DelAtKey ==
    ASSUME NEW d, IsDb(d), NEW k \in Key, NEW t
    PROVE  AtKey(d, Del(d, k, t), k)
<1> DEFINE p == PruneExpiredInDB(d, k, t)
           r == EraseBoth(p, {k})
<1>1. AtKey(d, p, k)
    BY PrunedAtKey, Zenon
<1>2. Del(d, k, t) = IF p.val[k] # Absent THEN r ELSE p
    BY Zenon DEF Del
<1> HIDE DEF p
<1>3. AtKey(p, r, k)
    BY <1>1, Erased DEF AtKey
<1> HIDE DEF r
<1> QED BY <1>1, <1>2, <1>3, Zenon DEF AtKey

\* Two changes of a key are a change of that key.
LEMMA AtKeyTwice ==
    ASSUME NEW d, NEW e, NEW f, NEW k, AtKey(d, e, k), AtKey(e, f, k) PROVE AtKey(d, f, k)
BY Zenon DEF AtKey

-----------------------------------------------------------------------------
(* The tables as a whole.                                                    *)

\* What is stored under a key, where clients look for it.
Val(i, k) == dbs[home[k]][i].val[k]
Exp(i, k) == dbs[home[k]][i].exp[k]

\* A change of one key of one database, on the shard of that key.
LEMMA OneKeyChanged ==
    ASSUME Tables, NEW k \in Key, NEW i \in DB, NEW d, AtKey(dbs[home[k]][i], d, k),
           dbs' = [dbs EXCEPT ![home[k]][i] = d], home' = home, now' \in 0 .. MaxNow
    PROVE  /\ Tables' /\ dbs'[home[k]][i] = d
           /\ \A n \in DB, j \in Key : n # i \/ j # k => Val(n, j)' = Val(n, j) /\ Exp(n, j)' = Exp(n, j)
<1> DEFINE h == home[k]
<1>1. h \in Shard /\ home \in [Key -> Shard]
    BY Zenon DEF Tables
<1>2. dbs = [s \in Shard |-> [n \in DB |-> dbs[s][n]]]
    BY Zenon DEF Tables
<1>3. dbs' = [s \in Shard |-> [n \in DB |-> dbs'[s][n]]]
    BY <1>1, <1>2, Zenon
<1>4. \A s \in Shard, n \in DB : dbs'[s][n] = IF s = h /\ n = i THEN d ELSE dbs[s][n]
    BY <1>1, <1>2, Zenon
<1> HIDE DEF h
<1>5. ASSUME NEW s \in Shard, NEW n \in DB PROVE IsDbOf(dbs[s][n], s)'
  <2>1. IsDbOf(dbs[s][n], s)
    BY Zenon DEF Tables
  <2>2. CASE s = h /\ n = i
    <3>1. dbs'[s][n] = d
      BY <1>4, <2>2, Zenon
    <3>2. IsDb(d) /\ Living(d) \subseteq Living(dbs[s][n]) \cup {k}
      BY <2>2, Zenon DEF AtKey, Living, h
    <3>3. IsFiniteSet(Living(dbs[s][n]) \cup {k})
      BY <2>1, FS_AddElement, Zenon DEF IsDbOf
    <3>4. IsFiniteSet(Living(d))
      BY <3>2, <3>3, FS_Subset, Zenon
    <3>5. \A j \in Living(d) : home[j] = s
      BY <2>1, <2>2, <3>2, Zenon DEF IsDbOf, h
    <3> QED BY <3>1, <3>2, <3>4, <3>5, Zenon DEF IsDbOf, IsDb, Living
  <2>3. CASE ~(s = h /\ n = i)
    <3>1. dbs'[s][n] = dbs[s][n]
      BY <1>4, <2>3, Zenon
    <3> QED BY <2>1, <3>1, Zenon DEF IsDbOf, IsDb, Living
  <2> QED BY <2>2, <2>3, Zenon
<1>6. dbs'[h][i] = d
    BY <1>1, <1>4, Zenon
<1>7. ASSUME NEW n \in DB, NEW j \in Key, n # i \/ j # k
      PROVE  Val(n, j)' = Val(n, j) /\ Exp(n, j)' = Exp(n, j)
  <2>1. home[j] \in Shard
    BY <1>1, Zenon
  <2>2. CASE home[j] = h /\ n = i
    <3>1. dbs'[home[j]][n] = d /\ j # k
      BY <1>6, <1>7, <2>2, Zenon
    <3>2. d.val[j] = dbs[h][i].val[j] /\ d.exp[j] = dbs[h][i].exp[j]
      BY <3>1, Zenon DEF AtKey, h
    <3> QED BY <2>2, <3>1, <3>2, Zenon DEF Val, Exp
  <2>3. CASE ~(home[j] = h /\ n = i)
    <3>1. dbs'[home[j]][n] = dbs[home[j]][n]
      BY <1>4, <2>1, <2>3
    <3> QED BY <3>1, Zenon DEF Val, Exp
  <2> QED BY <2>2, <2>3, Zenon
<1>8. Tables'
    BY <1>1, <1>3, <1>5, Zenon DEF Tables
<1> QED BY <1>6, <1>7, <1>8, Zenon DEF h

-----------------------------------------------------------------------------
(* Steps that change the tables.                                             *)

\* The database in which a key is looked up.
LEMMA DbThere ==
    ASSUME Tables, NEW k \in Key, NEW i \in DB
    PROVE  /\ home[k] \in Shard /\ IsDb(dbs[home[k]][i]) /\ now \in 0 .. MaxNow
           /\ Exp(i, k) \in Nat
<1>1. home[k] \in Shard /\ now \in 0 .. MaxNow
    BY Zenon DEF Tables
<1>2. IsDb(dbs[home[k]][i])
    BY <1>1, Zenon DEF Tables, IsDbOf
<1>3. Exp(i, k) \in Deadline \cup {NoExpiry}
    BY <1>2, DbFields, Zenon DEF Exp
<1> QED BY <1>1, <1>2, <1>3, Int64MaxAssumption DEF Deadline, NoExpiry

\* The clock alone changes no table.
LEMMA TimePasses == ASSUME Tables, UNCHANGED <<dbs, home>>, now' \in 0 .. MaxNow PROVE Tables'
<1>1. ASSUME NEW n \in Shard, NEW i \in DB PROVE IsDbOf(dbs[n][i], n)'
  <2>1. IsDbOf(dbs[n][i], n)
    BY Zenon DEF Tables
  <2>2. dbs'[n][i] = dbs[n][i] /\ home' = home
    BY Zenon
  <2> QED BY <2>1, <2>2, Zenon DEF IsDbOf, IsDb, Living
<1>2. dbs' = dbs /\ home' = home
    BY Zenon
<1> QED BY <1>1, <1>2, Zenon DEF Tables

\* A client's command changes one key of one database, on that key's shard.
LEMMA ClientTouches ==
    ASSUME Tables, NEW w \in Writes, Store(w) \/ Create(w) \/ Delete(w.key, w.db)
    PROVE  \E k \in Key, i \in DB : \E d : AtKey(dbs[home[k]][i], d, k) /\ Touch(k, i, d)
<1> DEFINE k == w.key
           i == w.db
           x == dbs[home[k]][i]
<1>2. k \in Key /\ i \in DB /\ w.val \in Value /\ w.ttl \in Nat
    BY WritesAssumption, Zenon
<1>3. IsDb(x) /\ now \in 0 .. MaxNow
    BY <1>2, DbThere, Zenon
<1>4. CASE Store(w)
  <2> DEFINE y == Set(x, k, w.val)
             z == IF w.ttl > 0 THEN Expire(y, k, w.ttl, now) ELSE Persist(y, k, now)
  <2>1. Touch(k, i, z)
    BY <1>4, Zenon DEF Store
  <2>2. AtKey(x, y, k)
    BY <1>2, <1>3, SetAtKey, Zenon
  <2> HIDE DEF y
  <2>3. AtKey(y, Expire(y, k, w.ttl, now), k) /\ AtKey(y, Persist(y, k, now), k)
    BY <1>2, <1>3, <2>2, ExpireAtKey, PersistAtKey DEF AtKey
  <2>4. AtKey(y, z, k)
    BY <2>3, Zenon
  <2> HIDE DEF z
  <2>5. AtKey(x, z, k)
    BY <2>2, <2>4, AtKeyTwice, Zenon
  <2> QED BY <1>2, <2>1, <2>5, Zenon
<1>5. CASE Create(w)
  <2> DEFINE y == Find(x, k, now)
             z == Set(y, k, w.val)
  <2>1. Touch(k, i, z)
    BY <1>5, Zenon DEF Create
  <2>2. AtKey(x, y, k)
    BY <1>2, <1>3, PrunedAtKey, Zenon DEF Find
  <2> HIDE DEF y
  <2>3. AtKey(y, z, k)
    BY <1>2, <2>2, SetAtKey DEF AtKey
  <2> HIDE DEF z
  <2>4. AtKey(x, z, k)
    BY <2>2, <2>3, AtKeyTwice, Zenon
  <2> QED BY <1>2, <2>1, <2>4, Zenon
<1>6. CASE Delete(k, i)
  <2> DEFINE z == Del(x, k, now)
  <2>1. Touch(k, i, z)
    BY <1>6, Zenon DEF Delete
  <2>2. AtKey(x, z, k)
    BY <1>2, <1>3, DelAtKey, Zenon
  <2> HIDE DEF z
  <2> QED BY <1>2, <2>1, <2>2, Zenon
<1> QED BY <1>4, <1>5, <1>6, Zenon

\* An expiry cycle erases only what has expired.
LEMMA CycleErases ==
    ASSUME Tables, NEW s \in Shard, ExpireCycle(s)
    PROVE  /\ Tables'
           /\ \A i \in DB, k \in Key : \/ Val(i, k)' = Val(i, k) /\ Exp(i, k)' = Exp(i, k)
                                       \/ Exp(i, k) # NoExpiry /\ Exp(i, k) <= now /\ Vacant(i, k)'
<1> DEFINE S(i) == FirstScanned(dbs[s][i], MaxScan) \cap Expired(dbs[s][i], now)
<1>1. /\ dbs' = [dbs EXCEPT ![s] = [i \in DB |-> EraseBoth(dbs[s][i], S(i))]]
      /\ home' = home /\ now' = now
    BY Zenon DEF ExpireCycle, ActiveExpire, SavesUnchanged
<1>2. \A i \in DB : S(i) \subseteq {k \in Key : dbs[s][i].exp[k] # NoExpiry /\ dbs[s][i].exp[k] <= now}
    BY Zenon DEF Expired, IsExpiredInDB
<1> HIDE DEF S
<1>3. dbs = [n \in Shard |-> [i \in DB |-> dbs[n][i]]] /\ home \in [Key -> Shard] /\ now \in 0 .. MaxNow
    BY Zenon DEF Tables
<1>4. \A n \in Shard, i \in DB : dbs'[n][i] = IF n = s THEN EraseBoth(dbs[n][i], S(i)) ELSE dbs[n][i]
    BY <1>1, <1>3, Zenon
<1>5. dbs' = [n \in Shard |-> [i \in DB |-> dbs'[n][i]]]
    BY <1>1, <1>3, Zenon
<1>6. ASSUME NEW n \in Shard, NEW i \in DB PROVE IsDbOf(dbs[n][i], n)'
  <2>1. IsDbOf(dbs[n][i], n)
    BY Zenon DEF Tables
  <2>2. CASE n = s
    <3> DEFINE d == dbs[n][i]
               e == EraseBoth(d, S(i))
    <3>1. dbs'[n][i] = e
      BY <1>4, <2>2, Zenon
    <3>2. /\ IsDb(e)
          /\ \A j \in Key : j \notin S(i) => e.val[j] = d.val[j]
          /\ \A j \in Key : j \in S(i) => e.val[j] = Absent
      BY <2>1, Erased DEF IsDbOf
    <3> HIDE DEF e
    <3>3. Living(e) \subseteq Living(d)
      BY <3>2, Zenon DEF Living
    <3>4. IsFiniteSet(Living(e)) /\ \A k \in Living(e) : home[k] = n
      BY <2>1, <3>3, FS_Subset, Zenon DEF IsDbOf
    <3> QED BY <1>1, <3>1, <3>2, <3>4, Zenon DEF IsDbOf, IsDb, Living
  <2>3. CASE n # s
    <3>1. dbs'[n][i] = dbs[n][i]
      BY <1>4, <2>3, Zenon
    <3> QED BY <1>1, <2>1, <3>1, Zenon DEF IsDbOf, IsDb, Living
  <2> QED BY <2>2, <2>3, Zenon
<1>7. Tables'
    BY <1>1, <1>3, <1>5, <1>6, Zenon DEF Tables
<1>8. ASSUME NEW i \in DB, NEW k \in Key
      PROVE  \/ Val(i, k)' = Val(i, k) /\ Exp(i, k)' = Exp(i, k)
             \/ Exp(i, k) # NoExpiry /\ Exp(i, k) <= now /\ Vacant(i, k)'
  <2> DEFINE n == home[k]
  <2>1. n \in Shard /\ IsDb(dbs[n][i])
    BY DbThere, Zenon
  <2>2. CASE n = s
    <3> DEFINE e == EraseBoth(dbs[n][i], S(i))
    <3>1. dbs'[n][i] = e
      BY <1>4, <2>1, <2>2, Zenon
    <3>2. /\ k \notin S(i) => e.val[k] = dbs[n][i].val[k] /\ e.exp[k] = dbs[n][i].exp[k]
          /\ k \in S(i) => e.val[k] = Absent /\ e.exp[k] = NoExpiry
      BY <2>1, Erased
    <3> HIDE DEF e
    <3>3. CASE k \in S(i)
      <4>1. dbs[n][i].exp[k] # NoExpiry /\ dbs[n][i].exp[k] <= now
        BY <1>2, <2>2, <3>3, Zenon
      <4> QED BY <1>1, <3>1, <3>2, <3>3, <4>1, Zenon DEF Exp, Vacant
    <3>4. CASE k \notin S(i)
      BY <1>1, <3>1, <3>2, <3>4, Zenon DEF Val, Exp
    <3> QED BY <3>3, <3>4, Zenon
  <2>3. CASE n # s
    <3>1. dbs'[n][i] = dbs[n][i]
      BY <1>4, <2>1, <2>3, Zenon
    <3> QED BY <1>1, <3>1, Zenon DEF Val, Exp
  <2> QED BY <2>2, <2>3, Zenon
<1> QED BY <1>7, <1>8, Zenon

\* What the handler of the load does to the tables.
LEMMA HandlerStores ==
    ASSUME Tables, NEW e \in [db : DB, key : Key, val : Value, exp : Deadline \cup {NoExpiry}],
           StoreLoaded(e), home' = home
    PROVE  /\ Tables' /\ now' \in Nat /\ now' >= now
           /\ \A n \in DB, j \in Key : n # e.db \/ j # e.key => Val(n, j)' = Val(n, j) /\ Exp(n, j)' = Exp(n, j)
           /\ Vacant(e.db, e.key) /\ ~IsContainer(e.val) /\ (e.exp = NoExpiry \/ e.exp > now') =>
                 /\ Val(e.db, e.key)' = e.val
                 /\ IF e.exp = NoExpiry THEN Exp(e.db, e.key)' = NoExpiry ELSE Exp(e.db, e.key)' >= e.exp
<1> DEFINE k == e.key
           i == e.db
           s == home[k]
           x == dbs[s][i]
           v == Copied(e.val)
           y == Set(x, k, v)
           z == Expire(y, k, e.exp - now, now')
<1>1. k \in Key /\ i \in DB /\ e.val \in Value /\ e.exp \in Deadline \cup {NoExpiry} /\ e.exp \in Nat
    BY Int64MaxAssumption DEF Deadline, NoExpiry
<1>2. s \in Shard /\ IsDb(x) /\ now \in 0 .. MaxNow
    BY <1>1, DbThere, Zenon
<1>3. now' \in 0 .. MaxNow /\ now' \in Nat /\ now' >= now
    BY <1>2, MaxNowAssumption DEF StoreLoaded
<1>4. dbs' = IF e.exp = NoExpiry THEN [dbs EXCEPT ![s][i] = y]
             ELSE IF e.exp - now <= 0 THEN dbs ELSE [dbs EXCEPT ![s][i] = z]
    BY Zenon DEF StoreLoaded
<1>5. v \in Value \cup {NullObject} /\ (~IsContainer(e.val) => v = e.val)
    BY <1>1, Zenon DEF Copied
<1> HIDE DEF v
<1>6. AtKey(x, y, k) /\ y.val[k] = v /\ y.exp = x.exp
    BY <1>1, <1>2, <1>5, SetAtKey, Zenon
<1> HIDE DEF y
<1>7. /\ AtKey(y, z, k)
      /\ e.exp - now > 0 /\ y.val[k] # Absent /\ ~IsExpiredInDB(y, k, now') =>
            z.val = y.val /\ z.exp[k] = DeadlineAfter(now', e.exp - now)
  <2>1. e.exp - now \in Int
    BY <1>1, <1>2
  <2> QED BY <1>1, <1>3, <1>6, <2>1, ExpireAtKey, Zenon DEF AtKey
<1> HIDE DEF z
<1>8. AtKey(x, z, k)
    BY <1>6, <1>7, AtKeyTwice, Zenon
<1>9. CASE e.exp = NoExpiry
  <2>1. dbs' = [dbs EXCEPT ![s][i] = y]
    BY <1>4, <1>9, Zenon
  <2>2. /\ Tables' /\ dbs'[s][i] = y
        /\ \A n \in DB, j \in Key : n # i \/ j # k => Val(n, j)' = Val(n, j) /\ Exp(n, j)' = Exp(n, j)
    BY <1>1, <1>3, <1>6, <2>1, OneKeyChanged, Zenon
  <2>3. Val(i, k)' = v /\ Exp(i, k)' = Exp(i, k)
    BY <1>6, <2>2, Zenon DEF Val, Exp
  <2> QED BY <1>3, <1>5, <1>9, <2>2, <2>3, Zenon DEF Vacant, Exp
<1>10. CASE e.exp # NoExpiry /\ e.exp - now <= 0
  <2>1. dbs' = dbs
    BY <1>4, <1>10, Zenon
  <2>2. Tables'
    BY <1>3, <2>1, TimePasses, Zenon
  <2>3. ~(e.exp > now')
    BY <1>1, <1>2, <1>3, <1>10
  <2> QED BY <1>3, <1>10, <2>1, <2>2, <2>3, Zenon DEF Val, Exp
<1>11. CASE e.exp # NoExpiry /\ ~(e.exp - now <= 0)
  <2>1. dbs' = [dbs EXCEPT ![s][i] = z]
    BY <1>4, <1>11, Zenon
  <2>2. /\ Tables' /\ dbs'[s][i] = z
        /\ \A n \in DB, j \in Key : n # i \/ j # k => Val(n, j)' = Val(n, j) /\ Exp(n, j)' = Exp(n, j)
    BY <1>1, <1>3, <1>8, <2>1, OneKeyChanged, Zenon
  <2>3. ASSUME Vacant(i, k), ~IsContainer(e.val) PROVE Val(i, k)' = e.val /\ Exp(i, k)' >= e.exp
    <3>1. x.exp[k] = NoExpiry
      BY <2>3, Zenon DEF Vacant
    <3>2. ~IsExpiredInDB(y, k, now') /\ y.val[k] # Absent
      BY <1>1, <1>5, <1>6, <2>3, <3>1, AbsentAssumption, Zenon DEF IsExpiredInDB
    <3>3. e.exp - now > 0 /\ e.exp - now \in Int
      BY <1>1, <1>2, <1>11
    <3>4. z.val = y.val /\ z.exp[k] = DeadlineAfter(now', e.exp - now)
      BY <1>7, <3>2, <3>3, Zenon
    <3>5. DeadlineAfter(now', e.exp - now) \in Deadline /\ e.exp <= DeadlineAfter(now', e.exp - now)
      <4>1. e.exp \in Deadline /\ e.exp <= now' + (e.exp - now)
        BY <1>1, <1>2, <1>3, <1>11
      <4> QED BY <1>3, <3>3, <4>1, DeadlineIsOne, Zenon
    <3>6. z.exp[k] >= e.exp
      BY <1>1, <3>4, <3>5, Int64MaxAssumption, Zenon DEF Deadline
    <3> QED BY <1>5, <1>6, <2>2, <2>3, <3>4, <3>6, Zenon DEF Val, Exp
  <2> QED BY <1>3, <1>11, <2>2, <2>3, Zenon
<1> QED BY <1>9, <1>10, <1>11, Zenon
=============================================================================
