--------------------------------- MODULE Rdb ---------------------------------
(* The dump file: RdbSerializer, which writes it, and RdbLoader, which reads *)
(* it, as operators.                                                         *)
(*                                                                           *)
(* A file is a sequence of tokens: an opcode with the bytes that belong to   *)
(* it, or the header, or the checksum.  The checksum of tokens is the tokens *)
(* themselves: two sequences have the same one only if they are the same.    *)
EXTENDS Database, Sequences, FiniteSetsExt

CONSTANTS
    IntKey,     \* the keys the parser turns into integers (INT_TAG)
    EmptyKey    \* the key that is the empty string

ASSUME KeyKindsAssumption == IntKey \subseteq Key /\ EmptyKey \in Key \ IntKey
ASSUME EmptyStrAssumption == "" \in Str

NoDb == -1      \* last_dbid_ before the first entry, UINT32_MAX in the code

(* What NanoObj's copy makes of a container: still an object, but with no    *)
(* content and with a type nobody has set.                                   *)
NullObject == <<"robj", "null">>

IsContainer(v) == TypeOfValue(v) \in ContainerType

\* NanoObj::CopyFrom: strings and integers are copied, containers are not.
Copied(v) == IF IsContainer(v) THEN NullObject ELSE v

\* NanoObj::GetStringView of a key: an integer has none.
StringView(k) == IF k \in IntKey THEN EmptyKey ELSE k

-----------------------------------------------------------------------------
(* RdbSerializer.                                                          *)

NewSerializer == [out |-> <<>>, last_dbid |-> NoDb]

Write(o, token) == [o EXCEPT !.out = Append(@, token)]

SaveHeader(o) == Write(o, <<"header">>)

SaveSelectDb(o, i) ==
    IF o.last_dbid = i THEN o
    ELSE Write([o EXCEPT !.last_dbid = i], <<"select", i>>)

\* The value as SaveObjectData writes it.  A null object has whatever type its
\* memory holds: it is an error (the caller may fail at any entry) or is taken
\* for a string and written as an empty one.
Written(v) == IF v = NullObject THEN <<"string", "">> ELSE v

\* Faulty variant: the deadline is written behind the entry it belongs to.
SaveEntryDeadlineLast(o, e) ==
    LET s == SaveSelectDb(o, e.db)
        w == Write(s, <<"entry", StringView(e.key), Written(e.val)>>)
    IN  IF e.exp > 0 THEN Write(w, <<"expire", e.exp>>) ELSE w

SaveEntry(o, e) ==
    LET s == SaveSelectDb(o, e.db)
        x == IF e.exp > 0 THEN Write(s, <<"expire", e.exp>>) ELSE s
    IN  Write(x, <<"entry", StringView(e.key), Written(e.val)>>)

\* The opcode is part of what the checksum covers.
SaveFooter(o) ==
    LET f == Write(o, <<"eof">>) IN Write(f, <<"crc", f.out>>)

\* The entries of one table that ForEachInDB and SerializeSegment visit.
Entries(d, i, t) ==
    {[db |-> i, key |-> k, val |-> d.val[k], exp |-> d.exp[k]] :
        k \in {j \in Key : d.val[j] # Absent /\ ~IsExpiredInDB(d, j, t)}}

\* The entry that the iteration comes to last.
LastOf(S) == CHOOSE e \in S : \A f \in S : Rank[f.key] <= Rank[e.key]

\* One table is written in the order of its iteration.
SaveTable(o, d, i, t) ==
    LET saved[S \in SUBSET Entries(d, i, t)] ==
            IF S = {} THEN o ELSE SaveEntry(saved[S \ {LastOf(S)}], LastOf(S))
    IN  saved[Entries(d, i, t)]

-----------------------------------------------------------------------------
(* RdbLoader.                                                              *)

\* The state of Load: the next token, the database and the deadline at hand.
NewLoader(tokens) == [tokens |-> tokens, pos |-> 1, dbid |-> 0, expire |-> NoExpiry]

\* DB_SELECT and EXPIRE_MS.
ReadOpcode(l, token) ==
    IF token[1] = "select" THEN [l EXCEPT !.dbid = token[2], !.expire = NoExpiry]
    ELSE [l EXCEPT !.expire = token[2]]

\* Where the loop of Load stops: at an entry, at EOF, or behind the last token.
StopsAt(l) ==
    Min({i \in l.pos .. Len(l.tokens) : l.tokens[i][1] \in {"entry", "eof", "crc"}}
        \cup {Len(l.tokens) + 1})

\* The opcodes up to there: the state before each of them.
ReadOpcodes(l) ==
    LET before[p \in l.pos .. StopsAt(l)] ==
            IF p = l.pos THEN l ELSE ReadOpcode(before[p - 1], l.tokens[p - 1])
    IN  [before[StopsAt(l)] EXCEPT !.pos = StopsAt(l)]

LoadHeader(l) == [l EXCEPT !.pos = 2]
HeaderIsRight(l) == l.tokens # <<>> /\ l.tokens[1] = <<"header">>

HasEntry(l) == l.pos <= Len(l.tokens) /\ l.tokens[l.pos][1] = "entry"

\* What the handler is given.
EntryRead(l) == [db |-> l.dbid, key |-> l.tokens[l.pos][2],
                 val |-> l.tokens[l.pos][3], exp |-> l.expire]

EntryDone(l) == [l EXCEPT !.pos = @ + 1, !.expire = NoExpiry]

\* LoadFooter: the checksum behind EOF is that of all that has been read.
LoadFooter(l) ==
    /\ l.pos < Len(l.tokens)
    /\ l.tokens[l.pos] = <<"eof">>
    /\ l.tokens[l.pos + 1] = <<"crc", SubSeq(l.tokens, 1, l.pos)>>
=============================================================================
