--------------------------- MODULE FrontendProofs ---------------------------
(***************************************************************************)
(* Connections, for any number of them, any number of vCPUs and any input: *)
(* the parser stays inside its buffer, CLIENT PAUSE holds and is never     *)
(* shortened, and no reply is dropped.                                     *)
(***************************************************************************)
EXTENDS Frontend, WellFoundedInduction, TLAPS

-----------------------------------------------------------------------------
(* Extremes of sets of natural numbers.                                    *)

LEMMA Least == ASSUME NEW T \in SUBSET Nat, T # {} PROVE \E x \in T : \A y \in T : x <= y
<1> DEFINE R == OpToRel(<, Nat)
<1>1. IsWellFoundedOn(R, Nat)
    BY NatLessThanWellFounded
<1>2. \A x, y \in Nat : x < y => <<x, y>> \in R
    BY Zenon DEF OpToRel
<1> HIDE DEF R
<1>3. PICK x \in T : \A y \in T : ~(<<y, x>> \in R)
    BY <1>1, WFMin
<1>4. ASSUME NEW y \in T PROVE x <= y
  <2>1. x \in Nat /\ y \in Nat
    BY Zenon
  <2>2. ~(y < x)
    BY <1>2, <1>3, <2>1
  <2> QED BY <2>1, <2>2
<1> QED BY <1>4, Zenon

LEMMA MinType == ASSUME NEW T \in SUBSET Nat, T # {} PROVE Min(T) \in T /\ \A y \in T : Min(T) <= y
BY Least, Zenon DEF Min

LEMMA MaxType ==
    ASSUME NEW T \in SUBSET Nat, T # {}, NEW b \in Nat, \A y \in T : y <= b
    PROVE  Max(T) \in T
<1> DEFINE U == {x \in Nat : \E y \in T : x = b - y}
<1>1. U \in SUBSET Nat /\ U # {}
  <2>1. PICK y \in T : TRUE
    BY Zenon
  <2>2. b - y \in Nat
    OBVIOUS
  <2> QED BY <2>2, Zenon
<1>2. PICK x \in U : \A z \in U : x <= z
    BY <1>1, Least, Zenon
<1>3. PICK y \in T : x = b - y
    BY Zenon
<1>4. ASSUME NEW z \in T PROVE y >= z
  <2>1. b - z \in U
    OBVIOUS
  <2>2. x <= b - z
    BY <1>2, <2>1, Zenon
  <2> QED BY <1>3, <2>2
<1> QED BY <1>4, Zenon DEF Max

-----------------------------------------------------------------------------
(* The parser stays inside its buffer.                                     *)

ParserFields == {"base", "pos", "size", "allow_socket_read", "no_read_need_more",
                 "starved", "stale", "ok", "char", "line", "args"}

InputOK(in) == Len(in.bytes) \in Nat /\ in.cuts \subseteq Nat

\* The window and the position of a parser or of what is kept of it.
WindowOK(in, w) ==
    /\ w.base \in Nat /\ w.pos \in Nat /\ w.size \in Nat
    /\ w.base <= w.pos /\ w.pos <= w.size /\ w.size <= Len(in.bytes)

\* A parser that may not read from its socket keeps the window that it started
\* the call with.
ParserOK(in, start, s) ==
    /\ DOMAIN s = ParserFields /\ s.ok \in BOOLEAN /\ WindowOK(in, s)
    /\ s.allow_socket_read = start.allow_socket_read
    /\ ~start.allow_socket_read => s.base = start.base

\* The same when only the result of a FillBuffer up to byte b is known: the
\* position may be in front of the window until it is moved to b.
FilledOK(in, s, f, b) ==
    /\ DOMAIN f = ParserFields /\ f.ok \in BOOLEAN /\ f.pos = s.pos
    /\ f.allow_socket_read = s.allow_socket_read /\ (~f.allow_socket_read => f.base = s.base)
    /\ f.base \in Nat /\ f.size \in Nat /\ f.size <= Len(in.bytes)
    /\ f.ok => f.base <= b /\ b <= f.size /\ (f.base < b \/ f.base = s.base)
    /\ ~f.ok => f.base = s.base /\ f.size = s.size

LEMMA FillBufferOK ==
    ASSUME NEW in, NEW start, InputOK(in), NEW s, ParserOK(in, start, s), NEW b \in Nat, s.pos <= b
    PROVE  FilledOK(in, s, FillBuffer(in, s, b), b)
<1> DEFINE f == FillBuffer(in, s, b)
<1>0. /\ DOMAIN s = ParserFields /\ s.base \in Nat /\ s.pos \in Nat /\ s.size \in Nat
      /\ s.base <= s.pos /\ s.pos <= s.size /\ s.size <= Len(in.bytes) /\ Len(in.bytes) \in Nat
    BY Zenon DEF ParserOK, WindowOK, InputOK
<1>1. CASE b <= s.size
  <2>1. f = [s EXCEPT !.ok = TRUE]
    BY <1>1, Zenon DEF FillBuffer
  <2>2. DOMAIN f = ParserFields /\ f.ok = TRUE /\ f.pos = s.pos /\ f.allow_socket_read = s.allow_socket_read /\ f.base = s.base /\ f.size = s.size
    BY <1>0, <2>1 DEF ParserFields
  <2> HIDE DEF f
  <2>3. s.base <= b
    BY <1>0
  <2>4. FilledOK(in, s, f, b)
    BY <1>0, <1>1, <2>2, <2>3 DEF FilledOK
  <2> QED BY <2>4 DEF f
<1>2. CASE ~(b <= s.size) /\ (~s.allow_socket_read \/ b > Len(in.bytes))
  <2>1. f = [Failed(s) EXCEPT !.no_read_need_more = TRUE] \/ f = [Failed(s) EXCEPT !.starved = TRUE]
    BY <1>2, Zenon DEF FillBuffer
  <2>2. DOMAIN f = ParserFields /\ f.ok = FALSE /\ f.pos = s.pos /\ f.allow_socket_read = s.allow_socket_read /\ f.base = s.base /\ f.size = s.size
    BY <1>0, <2>1 DEF ParserFields, Failed
  <2> HIDE DEF f
  <2>3. FilledOK(in, s, f, b)
    BY <1>0, <2>2 DEF FilledOK
  <2> QED BY <2>3, Zenon DEF f
<1>3. CASE ~(b <= s.size) /\ s.allow_socket_read /\ ~(b > Len(in.bytes))
  <2> DEFINE L == {0} \cup {c \in in.cuts : c < b}
             H == {Len(in.bytes)} \cup {c \in in.cuts : c >= b}
  <2>1. L \in SUBSET Nat /\ L # {} /\ (\A y \in L : y <= b /\ y < b) /\ H \in SUBSET Nat /\ H # {}
        /\ \A y \in H : y >= b
    BY <1>0, <1>3 DEF InputOK
  <2>2. Max(L) \in L
    BY <2>1, MaxType
  <2>3. Min(H) \in H /\ \A y \in H : Min(H) <= y
    BY <2>1, MinType
  <2>4. Len(in.bytes) \in H
    BY Zenon
  <2>5. f = [s EXCEPT !.ok = TRUE, !.base = Max(L), !.size = Min(H)]
    BY <1>3 DEF FillBuffer
  <2> HIDE DEF L, H, f
  <2>6. DOMAIN f = ParserFields /\ f.ok = TRUE /\ f.pos = s.pos /\ f.allow_socket_read = s.allow_socket_read /\ f.base = Max(L) /\ f.size = Min(H)
    BY <1>0, <2>5 DEF ParserFields
  <2>7. Max(L) \in Nat /\ Max(L) <= b /\ Max(L) < b /\ Min(H) \in Nat /\ b <= Min(H) /\ Min(H) <= Len(in.bytes)
    BY <2>1, <2>2, <2>3, <2>4
  <2>8. FilledOK(in, s, f, b)
    BY <1>0, <1>3, <2>6, <2>7 DEF FilledOK
  <2> QED BY <2>8, Zenon DEF f
<1> QED BY <1>1, <1>2, <1>3

\* Moving the position to a byte that is in the buffer.
LEMMA MoveTo ==
    ASSUME NEW in, NEW start, NEW s, ParserOK(in, start, s), NEW f, NEW b \in Nat, FilledOK(in, s, f, b), f.ok
    PROVE  ParserOK(in, start, [f EXCEPT !.pos = b])
<1> DEFINE g == [f EXCEPT !.pos = b]
<1>1. DOMAIN f = ParserFields /\ f.base \in Nat /\ f.size \in Nat /\ f.size <= Len(in.bytes)
      /\ f.ok \in BOOLEAN /\ f.base <= b /\ b <= f.size /\ f.allow_socket_read = start.allow_socket_read
      /\ (~start.allow_socket_read => f.base = start.base)
    BY Zenon DEF FilledOK, ParserOK
<1>2. DOMAIN g = ParserFields /\ g.ok = f.ok /\ g.base = f.base /\ g.size = f.size /\ g.pos = b
      /\ g.allow_socket_read = f.allow_socket_read
    BY <1>1, Zenon DEF ParserFields
<1> HIDE DEF g
<1>3. ParserOK(in, start, g)
    BY <1>1, <1>2 DEF ParserOK, WindowOK
<1> QED BY <1>3, Zenon DEF g

\* Leaving it where it is, when there is nothing more to read.
LEMMA StayFailed ==
    ASSUME NEW in, NEW start, NEW s, ParserOK(in, start, s), NEW f, NEW b, FilledOK(in, s, f, b), ~f.ok
    PROVE  ParserOK(in, start, f)
BY Zenon DEF ParserOK, WindowOK, FilledOK

\* Changes of the other fields.
LEMMA SameWindow ==
    ASSUME NEW in, NEW start, NEW s, ParserOK(in, start, s), NEW t, DOMAIN t = ParserFields, t.ok \in BOOLEAN,
           t.base = s.base, t.pos = s.pos, t.size = s.size, t.allow_socket_read = s.allow_socket_read
    PROVE  ParserOK(in, start, t)
BY Zenon DEF ParserOK, WindowOK

LEMMA SetChar ==
    ASSUME NEW in, NEW start, NEW s, ParserOK(in, start, s), NEW x PROVE ParserOK(in, start, [s EXCEPT !.char = x])
BY SameWindow DEF ParserOK, ParserFields

LEMMA SetArgs ==
    ASSUME NEW in, NEW start, NEW s, ParserOK(in, start, s), NEW x PROVE ParserOK(in, start, [s EXCEPT !.args = x])
BY SameWindow DEF ParserOK, ParserFields

LEMMA SetOk ==
    ASSUME NEW in, NEW start, NEW s, ParserOK(in, start, s), NEW b \in BOOLEAN PROVE ParserOK(in, start, [s EXCEPT !.ok = b])
BY SameWindow DEF ParserOK, ParserFields

LEMMA SetFailed == ASSUME NEW in, NEW start, NEW s, ParserOK(in, start, s) PROVE ParserOK(in, start, Failed(s))
BY SetOk, Zenon DEF Failed

LEMMA ReadCharOK ==
    ASSUME NEW in, NEW start, InputOK(in), NEW s, ParserOK(in, start, s) PROVE ParserOK(in, start, ReadChar(in, s))
<1> DEFINE b == s.pos + 1
           f == FillBuffer(in, s, b)
           g == [f EXCEPT !.pos = b]
<1>1. s.pos \in Nat /\ b \in Nat /\ s.pos <= b
    BY DEF ParserOK, WindowOK
<1>2. FilledOK(in, s, f, b)
    BY <1>1, FillBufferOK
<1>3. ReadChar(in, s) = IF f.ok THEN [f EXCEPT !.pos = @ + 1, !.char = in.bytes[s.pos + 1]]
                                ELSE [f EXCEPT !.char = "NUL"]
    BY Zenon DEF ReadChar
<1>4. DOMAIN f = ParserFields /\ f.pos = s.pos
    BY <1>2 DEF FilledOK
<1> HIDE DEF f
<1>5. CASE f.ok
  <2>1. ParserOK(in, start, g)
    BY <1>1, <1>2, <1>5, MoveTo
  <2>2. [f EXCEPT !.pos = @ + 1, !.char = in.bytes[s.pos + 1]] = [g EXCEPT !.char = in.bytes[s.pos + 1]]
    BY <1>4 DEF ParserFields
  <2> HIDE DEF g
  <2>3. ParserOK(in, start, [g EXCEPT !.char = in.bytes[s.pos + 1]])
    BY <2>1, SetChar
  <2> QED BY <1>3, <1>5, <2>2, <2>3, Zenon
<1>6. CASE ~f.ok
  <2>1. ParserOK(in, start, f)
    BY <1>2, <1>6, StayFailed
  <2>2. ParserOK(in, start, [f EXCEPT !.char = "NUL"])
    BY <2>1, SetChar, Zenon
  <2> QED BY <1>3, <1>6, <2>2, Zenon
<1> QED BY <1>5, <1>6

LEMMA ConsumeCRLFOK ==
    ASSUME NEW in, NEW start, InputOK(in), NEW s, ParserOK(in, start, s) PROVE ParserOK(in, start, ConsumeCRLF(in, s))
<1> DEFINE b == s.pos + 1
           f == FillBuffer(in, s, b)
           lf == in.bytes[f.pos + 1] = "LF"
<1>1. s.pos \in Nat /\ b \in Nat /\ s.pos <= b
    BY DEF ParserOK, WindowOK
<1>2. FilledOK(in, s, f, b)
    BY <1>1, FillBufferOK
<1>3. ConsumeCRLF(in, s) = IF in.bytes[s.pos] # "CR" THEN s
                           ELSE IF f.ok /\ lf THEN [f EXCEPT !.pos = @ + 1] ELSE [f EXCEPT !.ok = TRUE]
    BY Zenon DEF ConsumeCRLF
<1>4. DOMAIN f = ParserFields /\ f.pos = s.pos /\ f.ok \in BOOLEAN
    BY <1>2 DEF FilledOK
<1> HIDE DEF f, lf
<1>5. CASE in.bytes[s.pos] # "CR"
    BY <1>3, <1>5
<1>6. CASE ~(in.bytes[s.pos] # "CR") /\ f.ok /\ lf
  <2>1. ParserOK(in, start, [f EXCEPT !.pos = b])
    BY <1>1, <1>2, <1>6, MoveTo
  <2>2. [f EXCEPT !.pos = @ + 1] = [f EXCEPT !.pos = b]
    BY <1>4
  <2> QED BY <1>3, <1>6, <2>1, <2>2
<1>7. CASE ~(in.bytes[s.pos] # "CR") /\ ~(f.ok /\ lf)
  <2>1. ParserOK(in, start, f)
    <3>1. CASE f.ok
      <4>1. f.base <= b /\ b <= f.size /\ f.base \in Nat /\ f.size \in Nat /\ f.size <= Len(in.bytes)
        BY <1>2, <3>1 DEF FilledOK
      <4>2. (f.base < b \/ f.base = s.base) /\ s.base \in Nat /\ s.base <= s.pos
        BY <1>2, <3>1 DEF FilledOK, ParserOK, WindowOK
      <4>3. f.base <= f.pos /\ f.pos <= f.size /\ f.pos \in Nat
        BY <1>1, <1>4, <4>1, <4>2
      <4>4. f.allow_socket_read = start.allow_socket_read /\ (~start.allow_socket_read => f.base = start.base)
        BY <1>2, Zenon DEF FilledOK, ParserOK
      <4> QED BY <1>4, <4>1, <4>3, <4>4 DEF ParserOK, WindowOK
    <3>2. CASE ~f.ok
        BY <1>2, <3>2, StayFailed
    <3> QED BY <3>1, <3>2
  <2>2. ParserOK(in, start, [f EXCEPT !.ok = TRUE])
    BY <2>1, SetOk
  <2> QED BY <1>3, <1>7, <2>2, Zenon
<1> QED BY <1>5, <1>6, <1>7

LEMMA FindTerminatorType ==
    ASSUME NEW in, InputOK(in), NEW i \in Nat
    PROVE  FindTerminator(in, i) \in Nat /\ (i <= Len(in.bytes) => FindTerminator(in, i) > i)
<1> DEFINE T == {Len(in.bytes) + 1} \cup {j \in (i + 1) .. Len(in.bytes) : in.bytes[j] \in {"CR", "LF"}}
<1>1. T \in SUBSET Nat /\ T # {} /\ (i <= Len(in.bytes) => \A j \in T : j > i)
    BY DEF InputOK
<1>2. FindTerminator(in, i) = Min(T)
    BY Zenon DEF FindTerminator
<1> HIDE DEF T
<1> QED BY <1>1, <1>2, MinType

LEMMA EndOfLineOK ==
    ASSUME NEW in, NEW start, InputOK(in), NEW s, ParserOK(in, start, s), NEW f, NEW t \in Nat, FilledOK(in, s, f, t), f.ok,
           NEW copied, NEW i, NEW sent
    PROVE  ParserOK(in, start, EndOfLine(in, f, copied, i, t, sent))
<1> DEFINE m == [f EXCEPT !.pos = t]
           g == ConsumeCRLF(in, m)
           line == IF copied THEN sent ELSE View(in, f, g, i, t - 1)
           h == [g EXCEPT !.line = line, !.stale = @ \/ line # sent]
<1>1. ParserOK(in, start, m)
    BY MoveTo, Zenon
<1>2. EndOfLine(in, f, copied, i, t, sent) = h
    BY Zenon DEF EndOfLine
<1> HIDE DEF m
<1>3. ParserOK(in, start, g)
    BY <1>1, ConsumeCRLFOK
<1> HIDE DEF g, line
<1>4. DOMAIN h = ParserFields /\ h.ok = g.ok /\ h.allow_socket_read = g.allow_socket_read /\ h.base = g.base /\ h.pos = g.pos /\ h.size = g.size
      /\ g.ok \in BOOLEAN
    BY <1>3 DEF ParserOK, ParserFields
<1> HIDE DEF h
<1>5. ParserOK(in, start, h)
    BY <1>3, <1>4, SameWindow
<1> QED BY <1>2, <1>5

\* Both functions that read a line.
LEMMA ReadLineOK ==
    ASSUME NEW in, NEW start, InputOK(in), NEW s, ParserOK(in, start, s)
    PROVE  ParserOK(in, start, ReadLineView(in, s)) /\ ParserOK(in, start, ReadInlineLineView(in, s))
<1> DEFINE t == FindTerminator(in, s.pos)
           f == FillBuffer(in, s, t)
           copied == FillBuffer(in, s, s.pos + 1).base # f.base
           v == EndOfLine(in, f, copied, s.pos + 1, t, SubSeq(in.bytes, s.pos + 1, t - 1))
           w == EndOfLine(in, f, copied, f.base + s.pos - s.base, t, SubSeq(in.bytes, s.pos, t - 1))
<1>1. s.pos \in Nat /\ s.pos <= Len(in.bytes)
    BY DEF ParserOK, WindowOK, InputOK
<1>2. t \in Nat /\ s.pos <= t
    BY <1>1, FindTerminatorType
<1>3. ReadLineView(in, s) = IF ~f.ok THEN f ELSE v
    BY Zenon DEF ReadLineView
<1>4. ReadInlineLineView(in, s) = IF ~f.ok THEN f ELSE w
    BY Zenon DEF ReadInlineLineView
<1> HIDE DEF t
<1>5. FilledOK(in, s, f, t)
    BY <1>2, FillBufferOK
<1> HIDE DEF f, copied
<1>6. CASE f.ok
  <2>1. ParserOK(in, start, v) /\ ParserOK(in, start, w)
    BY <1>2, <1>5, <1>6, EndOfLineOK
  <2> QED BY <1>3, <1>4, <1>6, <2>1, Zenon
<1>7. CASE ~f.ok
  <2>1. ParserOK(in, start, f)
    BY <1>5, <1>7, StayFailed
  <2> QED BY <1>3, <1>4, <1>7, <2>1, Zenon
<1> QED BY <1>6, <1>7

LEMMA ReadBulkOK ==
    ASSUME NEW in, NEW start, InputOK(in), NEW s, ParserOK(in, start, s), NEW len \in Int
    PROVE  ParserOK(in, start, ReadBulkStringInto(in, s, len))
<1> DEFINE f == IF len <= 0 THEN [s EXCEPT !.ok = TRUE] ELSE FillBuffer(in, s, s.pos + len)
           word == SubSeq(in.bytes, s.pos + 1, s.pos + len)
           body == [f EXCEPT !.pos = s.pos + len, !.args = Append(@, word)]
           r == ReadChar(in, ReadChar(in, body))
<1>1. s.pos \in Nat
    BY Zenon DEF ParserOK, WindowOK
<1>2. ReadBulkStringInto(in, s, len) = IF len < 0 THEN [f EXCEPT !.args = Append(@, <<>>)]
                                       ELSE IF ~f.ok THEN f ELSE [r EXCEPT !.ok = TRUE]
    BY Zenon DEF ReadBulkStringInto
<1>3. CASE len < 0
  <2>1. f = [s EXCEPT !.ok = TRUE]
    BY <1>3
  <2>2. ParserOK(in, start, f)
    <3>1. ParserOK(in, start, [s EXCEPT !.ok = TRUE])
        BY SetOk
    <3> QED BY <2>1, <3>1, Zenon
  <2> HIDE DEF f
  <2>3. ParserOK(in, start, [f EXCEPT !.args = Append(f.args, <<>>)])
    BY <2>2, SetArgs
  <2>4. [f EXCEPT !.args = Append(@, <<>>)] = [f EXCEPT !.args = Append(f.args, <<>>)]
    BY Zenon
  <2> QED BY <1>2, <1>3, <2>3, <2>4, Zenon
<1>4. CASE len >= 0
  <2>1. s.pos + len \in Nat /\ s.pos <= s.pos + len
    BY <1>1, <1>4
  <2>2. FilledOK(in, s, f, s.pos + len)
    <3>1. CASE len = 0
      <4>1. f = [s EXCEPT !.ok = TRUE]
        BY <3>1
      <4>2. DOMAIN f = ParserFields /\ f.ok = TRUE /\ f.pos = s.pos /\ f.allow_socket_read = s.allow_socket_read /\ f.base = s.base /\ f.size = s.size
        BY <4>1 DEF ParserOK, ParserFields
      <4>3. s.pos + len = s.pos
        BY <1>1, <3>1
      <4> HIDE DEF f
      <4> QED BY <4>2, <4>3 DEF FilledOK, ParserOK, WindowOK
    <3>2. CASE len > 0
      <4>1. f = FillBuffer(in, s, s.pos + len)
        BY <3>2
      <4> QED BY <2>1, <4>1, FillBufferOK
    <3> QED BY <1>4, <3>1, <3>2
  <2> HIDE DEF f, word
  <2>3. CASE ~f.ok
    <3>1. ParserOK(in, start, f)
        BY <2>2, <2>3, StayFailed
    <3>2. ReadBulkStringInto(in, s, len) = f
        BY <1>2, <1>4, <2>3
    <3> QED BY <3>1, <3>2
  <2>4. CASE f.ok
    <3> DEFINE m == [f EXCEPT !.pos = s.pos + len]
               all == Append(f.args, word)
    <3>1. ParserOK(in, start, m)
        BY <2>1, <2>2, <2>4, MoveTo
    <3>2. body = [m EXCEPT !.args = all]
        BY <2>2 DEF FilledOK, ParserFields
    <3> HIDE DEF m, all, body
    <3>3. ParserOK(in, start, body)
        BY <3>1, <3>2, SetArgs
    <3>4. ParserOK(in, start, r)
        BY <3>3, ReadCharOK
    <3> HIDE DEF r
    <3>5. ParserOK(in, start, [r EXCEPT !.ok = TRUE])
        BY <3>4, SetOk
    <3>6. ReadBulkStringInto(in, s, len) = [r EXCEPT !.ok = TRUE]
        BY <1>2, <1>4, <2>4
    <3> QED BY <3>5, <3>6
  <2> QED BY <2>3, <2>4
<1> QED BY <1>3, <1>4

\* A line that String2ll accepts is a number from -1 to 2.
LEMMA NumberType == ASSUME NEW line, IsNumber(line) PROVE Number(line) \in -1 .. 2
<1>1. CASE line = <<"-", "1">>
    BY <1>1 DEF Number
<1>2. CASE line # <<"-", "1">> /\ line[1] \in Digit
    BY <1>2 DEF Number, DigitValue, Digit
<1> QED BY <1>1, <1>2, Zenon DEF IsNumber

LEMMA ParseElementOK ==
    ASSUME NEW in, NEW start, InputOK(in), NEW s, ParserOK(in, start, s) PROVE ParserOK(in, start, ParseElement(in, s))
<1> DEFINE first == ReadChar(in, s)
           c == IF first.char \in {"CR", "LF"} THEN ReadChar(in, first) ELSE first
           l == ReadLineView(in, c)
           word == [l EXCEPT !.args = Append(@, l.line)]
           bulk == ReadBulkStringInto(in, l, Number(l.line))
<1>1. ParseElement(in, s) = IF c.char \notin {"$", "+", ":", "-"} THEN Failed(c)
                            ELSE IF ~l.ok THEN l
                            ELSE IF c.char # "$" THEN word
                            ELSE IF ~IsNumber(l.line) THEN Failed(l) ELSE bulk
    BY Zenon DEF ParseElement
<1>2. ParserOK(in, start, first)
    BY ReadCharOK
<1> HIDE DEF first
<1>3. ParserOK(in, start, c)
    BY <1>2, ReadCharOK
<1> HIDE DEF c
<1>4. ParserOK(in, start, l) /\ ParserOK(in, start, Failed(c))
    BY <1>3, ReadLineOK, SetFailed
<1> HIDE DEF l
<1>5. ParserOK(in, start, word) /\ ParserOK(in, start, Failed(l))
    BY <1>4, SetArgs, SetFailed
<1>6. IsNumber(l.line) => ParserOK(in, start, bulk)
  <2> SUFFICES ASSUME IsNumber(l.line) PROVE ParserOK(in, start, bulk)
    BY Zenon
  <2>1. Number(l.line) \in Int
    BY NumberType
  <2> QED BY <1>4, <2>1, ReadBulkOK
<1> HIDE DEF word, bulk
<1> QED BY <1>1, <1>4, <1>5, <1>6, Zenon

\* The loop of ParseArray, unfolded as often as a count in this model allows.
LEMMA ParseElementsOK ==
    ASSUME NEW in, NEW start, InputOK(in), NEW s, ParserOK(in, start, s), NEW count \in -1 .. 2
    PROVE  ParserOK(in, start, ParseElements(in, s, count))
<1> DEFINE One(x) == IF x.ok THEN ParseElement(in, x) ELSE x
           Body(f) == [n \in 0 .. count |-> IF n = 0 THEN s ELSE One(f[n - 1])]
           after == CHOOSE f : f = Body(f)
<1>1. ASSUME NEW x, ParserOK(in, start, x) PROVE ParserOK(in, start, One(x))
  <2>1. ParserOK(in, start, ParseElement(in, x))
    BY <1>1, ParseElementOK
  <2> QED BY <1>1, <2>1, Zenon
<1>2. ParseElements(in, s, count) = IF count <= 0 THEN s ELSE after[count]
    BY Zenon DEF ParseElements, Repeat
<1> HIDE DEF One
<1>3. CASE count <= 0
    BY <1>2, <1>3
<1>4. CASE count \in 1 .. 2
  <2> DEFINE g == [n \in 0 .. count |-> IF n = 0 THEN s ELSE IF n = 1 THEN One(s) ELSE One(One(s))]
  <2>1. g[0] = s /\ g[1] = One(s) /\ (count = 2 => g[2] = One(One(s)))
    BY <1>4
  <2>2. \A n \in 0 .. count : (IF n = 0 THEN s ELSE IF n = 1 THEN One(s) ELSE One(One(s)))
                              = (IF n = 0 THEN s ELSE One(g[n - 1]))
    <3> TAKE n \in 0 .. count
    <3>1. n = 0 \/ n = 1 \/ n = 2
        OBVIOUS
    <3>2. 1 - 1 = 0 /\ 2 - 1 = 1
        OBVIOUS
    <3> HIDE DEF g
    <3> QED BY <2>1, <3>1, <3>2
  <2>3. g = Body(g)
    BY <2>2
  <2>4. after = Body(after)
    <3> HIDE DEF g
    <3> QED BY <2>3
  <2>5. \A n \in 0 .. count : Body(after)[n] = IF n = 0 THEN s ELSE One(after[n - 1])
    BY Zenon
  <2> HIDE DEF after, Body
  <2>6. \A n \in 0 .. count : after[n] = IF n = 0 THEN s ELSE One(after[n - 1])
    BY <2>4, <2>5, Zenon
  <2>7. after[0] = s
    BY <1>4, <2>6
  <2>8. after[1] = One(s)
    BY <1>4, <2>6, <2>7
  <2>9. count = 2 => after[2] = One(One(s))
    BY <1>4, <2>6, <2>8
  <2>10. ParserOK(in, start, One(s)) /\ ParserOK(in, start, One(One(s)))
    BY <1>1, Zenon
  <2> QED BY <1>2, <1>4, <2>8, <2>9, <2>10
<1> QED BY <1>3, <1>4

LEMMA ParseArrayOK ==
    ASSUME NEW in, NEW start, InputOK(in), NEW s, ParserOK(in, start, s) PROVE ParserOK(in, start, ParseArray(in, s))
<1> DEFINE l == ReadLineView(in, s)
           e == ParseElements(in, l, Number(l.line))
<1>1. ParseArray(in, s) = IF ~l.ok THEN l ELSE IF ~IsNumber(l.line) THEN Failed(l) ELSE e
    BY Zenon DEF ParseArray
<1>2. ParserOK(in, start, l)
    BY ReadLineOK
<1> HIDE DEF l
<1>3. ParserOK(in, start, Failed(l))
    BY <1>2, SetFailed
<1>4. IsNumber(l.line) => ParserOK(in, start, e)
    BY <1>2, NumberType, ParseElementsOK
<1> HIDE DEF e
<1> QED BY <1>1, <1>2, <1>3, <1>4, Zenon

LEMMA ParseInlineOK ==
    ASSUME NEW in, NEW start, NEW s, ParserOK(in, start, s) PROVE ParserOK(in, start, ParseInlineCommand(s))
<1> DEFINE line == s.line
           starts == {i \in DOMAIN line : line[i] # "SP" /\ (i = 1 \/ line[i - 1] = "SP")}
           end(i) == Min({Len(line) + 1} \cup {j \in i .. Len(line) : line[j] = "SP"})
           words == [n \in 1 .. Cardinality(starts) |->
                        LET i == SetToSortSeq(starts, <)[n] IN  SubSeq(line, i, end(i) - 1)]
           t == [s EXCEPT !.ok = starts # {}, !.args = words]
<1>1. ParseInlineCommand(s) = t
    BY Zenon DEF ParseInlineCommand
<1> HIDE DEF words, starts
<1>2. DOMAIN t = ParserFields /\ t.ok \in BOOLEAN /\ t.allow_socket_read = s.allow_socket_read /\ t.base = s.base /\ t.pos = s.pos /\ t.size = s.size
    BY Zenon DEF ParserOK, ParserFields
<1> HIDE DEF t
<1> QED BY <1>1, <1>2, SameWindow

\* Whatever the client sent and however recv() cut it, ParseCommand leaves the
\* position inside the buffer, and the buffer inside what was sent.
LEMMA ParseCommandOK ==
    ASSUME NEW in, NEW start, InputOK(in), NEW s, ParserOK(in, start, s) PROVE ParserOK(in, start, ParseCommand(in, s))
<1> DEFINE s0 == [s EXCEPT !.args = <<>>, !.no_read_need_more = FALSE, !.starved = FALSE, !.stale = FALSE]
           c == ReadChar(in, s0)
           l == ReadInlineLineView(in, c)
<1>1. ParseCommand(in, s) = IF c.char = "NUL" THEN Failed(c)
                            ELSE IF c.char = "*" THEN ParseArray(in, c)
                            ELSE IF ~l.ok THEN l ELSE ParseInlineCommand(l)
    BY Zenon DEF ParseCommand
<1>2. DOMAIN s0 = ParserFields /\ s0.ok = s.ok /\ s0.base = s.base /\ s0.pos = s.pos /\ s0.size = s.size
      /\ s.ok \in BOOLEAN /\ s0.allow_socket_read = s.allow_socket_read
    BY Zenon DEF ParserOK, ParserFields
<1> HIDE DEF s0
<1>3. ParserOK(in, start, s0)
    BY <1>2, SameWindow
<1>4. ParserOK(in, start, c)
    BY <1>3, ReadCharOK
<1> HIDE DEF c
<1>5. ParserOK(in, start, Failed(c)) /\ ParserOK(in, start, ParseArray(in, c)) /\ ParserOK(in, start, l)
    BY <1>4, SetFailed, ParseArrayOK, ReadLineOK
<1> HIDE DEF l
<1>6. ParserOK(in, start, ParseInlineCommand(l))
    BY <1>5, ParseInlineOK, Zenon
<1> QED BY <1>1, <1>5, <1>6, Zenon

\* TryParseCommandNoRead: a failure puts the position back into the window,
\* which has not moved.
LEMMA TryParseOK ==
    ASSUME NEW in, NEW start, InputOK(in), NEW s, ParserOK(in, start, s)
    PROVE  WindowOK(in, Window(TryParseCommandNoRead(in, s)))
<1> DEFINE s0 == [s EXCEPT !.allow_socket_read = FALSE]
           r == ParseCommand(in, s0)
           done == [r EXCEPT !.allow_socket_read = s.allow_socket_read]
           back == [done EXCEPT !.pos = s.pos, !.size = s.size, !.args = <<>>]
           t == TryParseCommandNoRead(in, s)
<1>1. t = IF r.ok THEN done ELSE back
    BY Zenon DEF TryParseCommandNoRead
<1>2. DOMAIN s0 = ParserFields /\ s0.ok = s.ok /\ s0.base = s.base /\ s0.pos = s.pos /\ s0.size = s.size
      /\ s.ok \in BOOLEAN /\ s0.allow_socket_read = FALSE /\ WindowOK(in, s)
    BY Zenon DEF ParserOK, ParserFields
<1> HIDE DEF s0
<1>3. ParserOK(in, s0, s0)
    BY <1>2, Zenon DEF ParserOK, WindowOK
<1>4. ParserOK(in, s0, r)
    BY <1>3, ParseCommandOK
<1>5. /\ DOMAIN r = ParserFields /\ WindowOK(in, r) /\ r.base = s.base
    BY <1>2, <1>4 DEF ParserOK
<1> HIDE DEF r
<1>6. t.base = r.base /\ ((t.pos = r.pos /\ t.size = r.size) \/ (t.pos = s.pos /\ t.size = s.size))
  <2>1. CASE r.ok
    <3>1. t = done
        BY <1>1, <2>1
    <3> QED BY <1>5, <3>1 DEF ParserFields
  <2>2. CASE ~r.ok
    <3>1. t = back
        BY <1>1, <2>2
    <3> QED BY <1>5, <3>1 DEF ParserFields
  <2> QED BY <2>1, <2>2
<1> HIDE DEF t
<1>7. WindowOK(in, Window(t))
    BY <1>2, <1>5, <1>6 DEF WindowOK, Window
<1> QED BY <1>7, Zenon DEF t

-----------------------------------------------------------------------------
(* The inductive invariant.                                                *)

ConnFields == {"pc", "parser", "args", "should_close", "parse_error", "write_buffer", "sent",
               "close_requested", "kill_shard", "pause", "desync"}

Places == {"new", "top", "sleep_top", "recv", "loop", "sleep_loop", "command", "await", "kill",
           "pause", "threshold", "more", "flush", "closed"}

\* Outside the inner loop, where nothing waits to be sent.
AtRest == {"new", "top", "sleep_top", "recv", "closed"}

\* Behind the PauseIfNeeded of the inner loop, in front of the reply.
Admitted == {"command", "await", "kill", "pause"}

\* The state of a fiber whose client sends `in' and has left if `gone'.
FiberOK(in, gone, s) ==
    /\ DOMAIN s = ConnFields /\ s.pc \in Places
    /\ WindowOK(in, s.parser) /\ (s.pc = "new" => s.parser.size = 0)
    /\ s.kill_shard \in 0 .. NumVcpus
    /\ s.pause \in [old : Int, new : 0 .. Int64Max]
    /\ s.pc \in AtRest /\ ~gone => s.write_buffer = <<>>

\* A fiber whose command was completed in this pause has no further one under
\* way: it would have had to pass PauseIfNeeded.
StrayOK == DOMAIN stray = Conn /\
    \A c \in Conn : stray[c] \in {0, 1} /\ (stray[c] = 1 => Paused /\ conn[c].pc \notin Admitted)

ClocksOK == g_pause_until_ms \in 0 .. Int64Max /\ now \in Nat

FInv ==
    /\ DOMAIN conn = Conn /\ DOMAIN input = Conn /\ hung_up \subseteq Conn /\ ClocksOK /\ StrayOK
    /\ \A c \in Conn : InputOK(input[c]) /\ FiberOK(input[c], c \in hung_up, conn[c])

LEMMA FInit == Init => FInv
<1> SUFFICES ASSUME Init PROVE FInv
    BY Zenon
<1>1. /\ input = [c \in Conn |-> NoInput] /\ conn = [c \in Conn |-> NewConnection] /\ hung_up = {}
      /\ g_pause_until_ms = 0 /\ now = 0 /\ stray = [c \in Conn |-> 0]
    BY Zenon DEF Init
<1>2. ClocksOK /\ StrayOK
    BY <1>1, PauseAssumption DEF ClocksOK, StrayOK
<1>3. InputOK(NoInput)
    BY Zenon DEF InputOK, NoInput
<1>4. FiberOK(NoInput, FALSE, NewConnection)
  <2>1. /\ DOMAIN NewConnection = ConnFields /\ NewConnection.pc = "new"
        /\ NewConnection.kill_shard = 0 /\ NewConnection.pause = [old |-> 0, new |-> 0]
        /\ NewConnection.write_buffer = <<>> /\ NewConnection.parser = Window(NewParser)
    BY Zenon DEF NewConnection, ConnFields
  <2>2. WindowOK(NoInput, Window(NewParser)) /\ Window(NewParser).size = 0
    BY DEF WindowOK, Window, NewParser, NoInput
  <2> QED BY <2>1, <2>2, PauseAssumption, VcpuAssumption DEF FiberOK, Places
<1>5. ASSUME NEW c \in Conn PROVE InputOK(input[c]) /\ FiberOK(input[c], c \in hung_up, conn[c])
  <2>1. input[c] = NoInput /\ conn[c] = NewConnection /\ c \notin hung_up
    BY <1>1
  <2> QED BY <1>3, <1>4, <2>1 DEF FiberOK
<1> QED BY <1>1, <1>2, <1>5 DEF FInv

-----------------------------------------------------------------------------
(* What a step may do to the state of a fiber.                             *)

LEMMA GotoOK ==
    ASSUME NEW in, NEW c, NEW away, NEW s, FiberOK(in, c \in away, s), NEW w \in Places \ {"new"},
           w \in AtRest /\ c \notin away => s.write_buffer = <<>>
    PROVE  FiberOK(in, c \in away, Goto(s, w)) /\ Goto(s, w).pc = w
<1> DEFINE t == Goto(s, w)
<1>1. DOMAIN s = ConnFields
    BY Zenon DEF FiberOK
<1>2. /\ DOMAIN t = ConnFields /\ t.pc = w /\ t.parser = s.parser /\ t.kill_shard = s.kill_shard
      /\ t.pause = s.pause /\ t.write_buffer = s.write_buffer
    BY <1>1 DEF Goto, ConnFields
<1> HIDE DEF t
<1>3. FiberOK(in, c \in away, t)
    BY <1>2, Zenon DEF FiberOK
<1> QED BY <1>2, <1>3 DEF t

LEMMA ReplyOK ==
    ASSUME NEW in, NEW gone, NEW s, FiberOK(in, gone, s)
    PROVE  FiberOK(in, gone, Reply(s)) /\ Reply(s).pc = "threshold"
<1> DEFINE t == Reply(s)
<1>1. DOMAIN s = ConnFields
    BY Zenon DEF FiberOK
<1>2. /\ DOMAIN t = ConnFields /\ t.pc = "threshold" /\ t.parser = s.parser
      /\ t.kill_shard = s.kill_shard /\ t.pause = s.pause
    BY <1>1 DEF Reply, ConnFields
<1> HIDE DEF t
<1>3. FiberOK(in, gone, t)
    BY <1>2 DEF FiberOK, Places, AtRest
<1> QED BY <1>2, <1>3 DEF t

LEMMA FlushOK ==
    ASSUME NEW in, NEW gone, NEW s, FiberOK(in, gone, s)
    PROVE  FiberOK(in, gone, Flush(s)) /\ Flush(s).pc = s.pc /\ Flush(s).write_buffer = <<>>
<1> DEFINE t == Flush(s)
<1>1. DOMAIN s = ConnFields
    BY Zenon DEF FiberOK
<1>2. /\ DOMAIN t = ConnFields /\ t.pc = s.pc /\ t.parser = s.parser
      /\ t.kill_shard = s.kill_shard /\ t.pause = s.pause /\ t.write_buffer = <<>>
    BY <1>1, Zenon DEF Flush, ConnFields
<1> HIDE DEF t
<1>3. FiberOK(in, gone, t)
    BY <1>2, Zenon DEF FiberOK
<1> QED BY <1>2, <1>3 DEF t

\* Only the fiber of c moves.  It is let through to a command only when there is
\* no pause, or it completes the command that it was let through to.
Alone(c, s) == conn' = [conn EXCEPT ![c] = s] /\ UNCHANGED <<input, hung_up, g_pause_until_ms, now>>
Pauses(c, s) == UNCHANGED stray /\ (s.pc \in Admitted => conn[c].pc \in Admitted \/ ~Paused)
Completes(c, s) == CountStray(c) /\ conn[c].pc \in Admitted /\ s.pc \notin Admitted

LEMMA AloneKeeps ==
    ASSUME FInv, NEW c \in Conn, NEW s, FiberOK(input[c], c \in hung_up, s), Alone(c, s),
           Pauses(c, s) \/ Completes(c, s)
    PROVE  FInv'
<1>1. DOMAIN conn = Conn /\ DOMAIN conn' = Conn /\ conn'[c] = s /\ \A d \in Conn : d # c => conn'[d] = conn[d]
    BY Zenon DEF FInv, Alone
<1>2. UNCHANGED <<input, hung_up, g_pause_until_ms, now>>
    BY Zenon DEF Alone
<1>3. \A d \in Conn : InputOK(input'[d]) /\ FiberOK(input'[d], d \in hung_up', conn'[d])
    BY <1>1, <1>2 DEF FInv
<1>4. ClocksOK' /\ (Paused' <=> Paused)
    BY <1>2 DEF FInv, ClocksOK, Paused
<1>5. DOMAIN stray = Conn
      /\ \A d \in Conn : stray[d] \in {0, 1} /\ (stray[d] = 1 => Paused /\ conn[d].pc \notin Admitted)
    BY Zenon DEF FInv, StrayOK
<1>6. ASSUME Pauses(c, s) PROVE StrayOK'
    BY <1>1, <1>4, <1>5, <1>6 DEF StrayOK, Pauses
<1>7. ASSUME Completes(c, s) PROVE StrayOK'
  <2>1. stray[c] = 0 /\ s.pc \notin Admitted
    BY <1>5, <1>7 DEF Completes
  <2>2. DOMAIN stray' = Conn /\ stray'[c] = (IF Paused THEN stray[c] + 1 ELSE 0)
        /\ \A d \in Conn : d # c => stray'[d] = stray[d]
    BY <1>5, <1>7 DEF Completes, CountStray
  <2>3. stray'[c] = IF Paused THEN 1 ELSE 0
    BY <2>1, <2>2
  <2> QED BY <1>1, <1>4, <1>5, <2>1, <2>2, <2>3 DEF StrayOK
<1> QED BY <1>1, <1>2, <1>3, <1>4, <1>6, <1>7 DEF FInv

LEMMA ContinueIsAlone == ASSUME NEW c, NEW s, Continue(c, s) PROVE Alone(c, s)
BY Zenon DEF Continue, Alone

\* What is known of the fiber that moves.
LEMMA FiberOf ==
    ASSUME FInv, NEW c \in Conn, NEW w, At(c, w)
    PROVE  /\ FiberOK(input[c], c \in hung_up, conn[c]) /\ InputOK(input[c]) /\ conn[c].pc = w
           /\ (w \in AtRest /\ c \notin hung_up => conn[c].write_buffer = <<>>)
           /\ DOMAIN conn[c] = ConnFields
BY Zenon DEF FInv, At, FiberOK

\* A parser that goes on where the fiber has left it.
LEMMA ResumedOK ==
    ASSUME NEW in, NEW w, WindowOK(in, w) PROVE ParserOK(in, Resumed(w), Resumed(w))
<1> DEFINE s == Resumed(w)
<1>1. DOMAIN NewParser = ParserFields /\ NewParser.ok = TRUE
    BY Zenon DEF NewParser, ParserFields
<1>2. DOMAIN s = ParserFields /\ s.ok = TRUE /\ s.base = w.base /\ s.pos = w.pos /\ s.size = w.size
    BY <1>1, Zenon DEF Resumed, ParserFields
<1> HIDE DEF s
<1>3. ParserOK(in, s, s)
    BY <1>2, Zenon DEF ParserOK, WindowOK
<1> QED BY <1>3, Zenon DEF s

-----------------------------------------------------------------------------
(* Every step of a fiber keeps the invariant.                              *)

LEMMA TopKeeps == ASSUME FInv, NEW c \in Conn, Top(c) PROVE FInv'
<1> DEFINE w == IF ~running THEN "closed" ELSE IF Paused THEN "sleep_top"
                ELSE IF conn[c].close_requested THEN "closed" ELSE "recv"
<1>1. At(c, "top")
    BY Zenon DEF Top
<1>2. Continue(c, Goto(conn[c], w)) /\ UNCHANGED stray
    BY Zenon DEF Top, Unpaused
<1>3. w \in Places \ {"new"} /\ w \notin Admitted
    BY Zenon DEF Places, Admitted
<1>4. "top" \in AtRest
    BY Zenon DEF AtRest
<1> HIDE DEF w
<1>5. FiberOK(input[c], c \in hung_up, Goto(conn[c], w)) /\ Goto(conn[c], w).pc = w
  <2>1. FiberOK(input[c], c \in hung_up, conn[c]) /\ (c \notin hung_up => conn[c].write_buffer = <<>>)
    BY <1>1, <1>4, FiberOf, Zenon
  <2> QED BY <1>3, <2>1, GotoOK
<1>6. Alone(c, Goto(conn[c], w)) /\ Pauses(c, Goto(conn[c], w))
    BY <1>2, <1>3, <1>5, ContinueIsAlone DEF Pauses
<1> QED BY <1>5, <1>6, AloneKeeps

LEMMA WakeUpKeeps == ASSUME FInv, NEW c \in Conn, WakeUp(c) PROVE FInv'
<1> DEFINE w == IF At(c, "sleep_loop") THEN "command"
                ELSE IF conn[c].close_requested THEN "closed" ELSE "recv"
<1>1. ~Paused /\ UNCHANGED stray
    BY Zenon DEF WakeUp
<1>2. PICK p \in {"sleep_top", "sleep_loop"} : At(c, p) /\ Continue(c, Goto(conn[c], w))
    BY Zenon DEF WakeUp, Unpaused, At
<1>3. w \in Places \ {"new"} /\ (w \in AtRest => p \in AtRest)
    BY <1>2 DEF Places, AtRest, At
<1> HIDE DEF w
<1>4. FiberOK(input[c], c \in hung_up, Goto(conn[c], w)) /\ Goto(conn[c], w).pc = w
  <2>1. /\ FiberOK(input[c], c \in hung_up, conn[c])
        /\ w \in AtRest /\ c \notin hung_up => conn[c].write_buffer = <<>>
    BY <1>2, <1>3, FiberOf, Zenon
  <2> QED BY <1>3, <2>1, GotoOK
<1>5. Alone(c, Goto(conn[c], w)) /\ Pauses(c, Goto(conn[c], w))
    BY <1>1, <1>2, ContinueIsAlone DEF Pauses
<1> QED BY <1>4, <1>5, AloneKeeps

LEMMA RecvKeeps == ASSUME FInv, NEW c \in Conn, Recv(c) PROVE FInv'
<1> DEFINE r == ParseCommand(input[c], Resumed(conn[c].parser))
           s == [conn[c] EXCEPT !.pc = IF r.ok THEN "loop" ELSE "closed", !.parser = Window(r),
                                !.args = r.args, !.desync = @ \/ r.stale]
<1>1. At(c, "recv") /\ Continue(c, s) /\ UNCHANGED stray
    BY DEF Recv
<1>2. /\ FiberOK(input[c], c \in hung_up, conn[c]) /\ InputOK(input[c]) /\ DOMAIN conn[c] = ConnFields
      /\ (c \notin hung_up => conn[c].write_buffer = <<>>)
    BY <1>1, FiberOf DEF AtRest
<1>3. WindowOK(input[c], Window(r))
  <2>1. ParserOK(input[c], Resumed(conn[c].parser), Resumed(conn[c].parser))
    BY <1>2, ResumedOK, Zenon DEF FiberOK
  <2>2. ParserOK(input[c], Resumed(conn[c].parser), r)
    BY <1>2, <2>1, ParseCommandOK
  <2> HIDE DEF r
  <2> QED BY <2>2, Zenon DEF ParserOK, WindowOK, Window
<1> HIDE DEF r
<1>4. /\ DOMAIN s = ConnFields /\ s.pc \in {"loop", "closed"} /\ s.parser = Window(r)
      /\ s.kill_shard = conn[c].kill_shard /\ s.pause = conn[c].pause
      /\ s.write_buffer = conn[c].write_buffer
    BY <1>2, Zenon DEF ConnFields
<1> HIDE DEF s
<1>5. s.pc \in Places /\ s.pc # "new" /\ s.pc \notin Admitted
    BY <1>4, Zenon DEF Places, Admitted
<1>6. FiberOK(input[c], c \in hung_up, s)
    BY <1>2, <1>3, <1>4, <1>5 DEF FiberOK
<1>7. Alone(c, s) /\ Pauses(c, s)
    BY <1>1, <1>5, ContinueIsAlone DEF Pauses
<1> QED BY <1>6, <1>7, AloneKeeps

LEMMA LoopKeeps == ASSUME FInv, NEW c \in Conn, Loop(c) PROVE FInv'
<1> DEFINE w == IF ~running THEN "flush" ELSE IF conn[c].args = <<>> THEN "threshold"
                ELSE IF Paused THEN "sleep_loop" ELSE "command"
<1>1. At(c, "loop") /\ Continue(c, Goto(conn[c], w)) /\ UNCHANGED stray
    BY Zenon DEF Loop
<1>2. w \in Places \ {"new"} /\ w \notin AtRest /\ (w \in Admitted => ~Paused)
    BY Zenon DEF Places, Admitted, AtRest
<1> HIDE DEF w
<1>3. FiberOK(input[c], c \in hung_up, Goto(conn[c], w)) /\ Goto(conn[c], w).pc = w
    BY <1>1, <1>2, FiberOf, GotoOK
<1>4. Alone(c, Goto(conn[c], w)) /\ Pauses(c, Goto(conn[c], w))
    BY <1>1, <1>2, <1>3, ContinueIsAlone, Zenon DEF Pauses
<1> QED BY <1>3, <1>4, AloneKeeps

LEMMA CommandClosedKeeps == ASSUME FInv, NEW c \in Conn, CommandClosed(c) PROVE FInv'
<1> DEFINE s == [conn[c] EXCEPT !.should_close = TRUE, !.pc = "flush"]
<1>1. At(c, "command") /\ Continue(c, s) /\ UNCHANGED stray
    BY Zenon DEF CommandClosed
<1>2. FiberOK(input[c], c \in hung_up, conn[c]) /\ DOMAIN conn[c] = ConnFields
    BY <1>1, FiberOf
<1>3. /\ DOMAIN s = ConnFields /\ s.pc = "flush" /\ s.parser = conn[c].parser
      /\ s.kill_shard = conn[c].kill_shard /\ s.pause = conn[c].pause
    BY <1>2, Zenon DEF ConnFields
<1> HIDE DEF s
<1>4. FiberOK(input[c], c \in hung_up, s)
    BY <1>2, <1>3 DEF FiberOK, Places, AtRest
<1>5. Alone(c, s) /\ Pauses(c, s)
    BY <1>1, <1>3, ContinueIsAlone DEF Pauses, Admitted
<1> QED BY <1>4, <1>5, AloneKeeps, Zenon

LEMMA CommandLocalKeeps == ASSUME FInv, NEW c \in Conn, CommandLocal(c) PROVE FInv'
<1> DEFINE q == Reply(conn[c])
           b == Is(c, "q")
           s == [q EXCEPT !.should_close = b]
<1>1. At(c, "command") /\ Continue(c, s) /\ CountStray(c)
    BY Zenon DEF CommandLocal
<1>2. FiberOK(input[c], c \in hung_up, q) /\ q.pc = "threshold"
    BY <1>1, FiberOf, ReplyOK
<1> HIDE DEF q, b
<1>3. /\ DOMAIN s = ConnFields /\ s.pc = "threshold" /\ s.parser = q.parser
      /\ s.kill_shard = q.kill_shard /\ s.pause = q.pause
    BY <1>2, Zenon DEF ConnFields, FiberOK
<1> HIDE DEF s
<1>4. FiberOK(input[c], c \in hung_up, s)
    BY <1>2, <1>3 DEF FiberOK, Places, AtRest
<1>5. Alone(c, s) /\ Completes(c, s)
    BY <1>1, <1>3, ContinueIsAlone DEF Completes, Admitted, At
<1> QED BY <1>4, <1>5, AloneKeeps

LEMMA CommandStartsKeeps == ASSUME FInv, NEW c \in Conn, CommandStarts(c) PROVE FInv'
<1> DEFINE new == IF PauseMs > Int64Max - now THEN Int64Max ELSE now + PauseMs
           a == Goto(conn[c], "await")
           k == [conn[c] EXCEPT !.kill_shard = 0, !.pc = "kill"]
           p == [conn[c] EXCEPT !.pc = "pause", !.pause = [old |-> g_pause_until_ms, new |-> new]]
<1>1. At(c, "command") /\ UNCHANGED stray
    BY Zenon DEF CommandStarts
<1>2. Continue(c, a) \/ Continue(c, k) \/ Continue(c, p)
    BY Zenon DEF CommandStarts
<1>3. /\ FiberOK(input[c], c \in hung_up, conn[c]) /\ DOMAIN conn[c] = ConnFields
      /\ conn[c].pc \in Admitted
    BY <1>1, FiberOf, Zenon DEF Admitted
<1>4. ASSUME NEW s, FiberOK(input[c], c \in hung_up, s), Continue(c, s) PROVE FInv'
  <2>1. Alone(c, s) /\ Pauses(c, s)
    BY <1>1, <1>3, <1>4, ContinueIsAlone DEF Pauses
  <2> QED BY <1>4, <2>1, AloneKeeps
<1>5. FiberOK(input[c], c \in hung_up, a)
    BY <1>3, GotoOK DEF Places, AtRest
<1>6. FiberOK(input[c], c \in hung_up, k)
  <2>1. /\ DOMAIN k = ConnFields /\ k.pc = "kill" /\ k.parser = conn[c].parser
        /\ k.kill_shard = 0 /\ k.pause = conn[c].pause
    BY <1>3, Zenon DEF ConnFields
  <2> HIDE DEF k
  <2> QED BY <1>3, <2>1, VcpuAssumption DEF FiberOK, Places, AtRest
<1>7. FiberOK(input[c], c \in hung_up, p)
  <2>1. new \in 0 .. Int64Max /\ g_pause_until_ms \in Int
    BY PauseAssumption DEF FInv, ClocksOK
  <2> HIDE DEF new
  <2>2. /\ DOMAIN p = ConnFields /\ p.pc = "pause" /\ p.parser = conn[c].parser
        /\ p.kill_shard = conn[c].kill_shard /\ p.pause = [old |-> g_pause_until_ms, new |-> new]
    BY <1>3 DEF ConnFields
  <2> HIDE DEF p
  <2> QED BY <1>3, <2>1, <2>2 DEF FiberOK, Places, AtRest
<1> HIDE DEF a, k, p
<1> QED BY <1>2, <1>4, <1>5, <1>6, <1>7

LEMMA ForwardedKeeps == ASSUME FInv, NEW c \in Conn, Forwarded(c) PROVE FInv'
<1>1. At(c, "await") /\ Continue(c, Reply(conn[c])) /\ CountStray(c)
    BY Zenon DEF Forwarded
<1>2. FiberOK(input[c], c \in hung_up, Reply(conn[c])) /\ Reply(conn[c]).pc = "threshold"
    BY <1>1, FiberOf, ReplyOK
<1>3. Alone(c, Reply(conn[c])) /\ Completes(c, Reply(conn[c]))
    BY <1>1, <1>2, ContinueIsAlone, Zenon DEF Completes, Admitted, At
<1> QED BY <1>2, <1>3, AloneKeeps

LEMMA KillKeeps == ASSUME FInv, NEW c \in Conn, Kill(c) PROVE FInv'
<1> DEFINE v == Victim[c]
           hit == VcpuOf[v] = conn[c].kill_shard /\ conn[v].pc \notin {"new", "closed"}
<1>1. /\ At(c, "kill") /\ v \in Conn /\ UNCHANGED <<input, hung_up, g_pause_until_ms, now>>
      /\ FiberOK(input[c], c \in hung_up, conn[c])
    BY FiberOf, VcpuAssumption DEF Kill
<1>2. CASE conn[c].kill_shard < NumVcpus
  <2>1. /\ conn' = [conn EXCEPT ![c].kill_shard = @ + 1, ![v].close_requested = @ \/ hit]
        /\ UNCHANGED stray
    BY <1>2, Zenon DEF Kill
  <2>2. \A d \in Conn : DOMAIN conn[d] = ConnFields
    BY Zenon DEF FInv, FiberOK
  <2>3. DOMAIN conn = Conn
    BY Zenon DEF FInv
  <2> HIDE DEF v, hit
  <2>4. ASSUME NEW d \in Conn
        PROVE  /\ DOMAIN conn'[d] = ConnFields /\ conn'[d].pc = conn[d].pc
               /\ conn'[d].parser = conn[d].parser /\ conn'[d].pause = conn[d].pause
               /\ conn'[d].write_buffer = conn[d].write_buffer
               /\ conn'[d].kill_shard = IF d = c THEN conn[c].kill_shard + 1 ELSE conn[d].kill_shard
    <3> DEFINE one == [conn EXCEPT ![c].kill_shard = @ + 1]
    <3>1. conn' = [one EXCEPT ![v].close_requested = @ \/ hit]
        BY <2>1
    <3>2. DOMAIN one = Conn /\ one[d] = IF d = c THEN [conn[d] EXCEPT !.kill_shard = @ + 1] ELSE conn[d]
        BY <2>3
    <3>3. /\ DOMAIN one[d] = ConnFields /\ one[d].pc = conn[d].pc
          /\ one[d].parser = conn[d].parser /\ one[d].pause = conn[d].pause
          /\ one[d].write_buffer = conn[d].write_buffer
          /\ one[d].kill_shard = IF d = c THEN conn[c].kill_shard + 1 ELSE conn[d].kill_shard
      <4> HIDE DEF one
      <4>1. CASE d = c
        <5>1. one[d] = [conn[d] EXCEPT !.kill_shard = @ + 1]
            BY <3>2, <4>1
        <5> QED BY <2>2, <4>1, <5>1 DEF ConnFields
      <4>2. CASE d # c
        BY <2>2, <3>2, <4>2
      <4> QED BY <4>1, <4>2
    <3> HIDE DEF one
    <3>4. conn'[d] = IF d = v THEN [one[d] EXCEPT !.close_requested = @ \/ hit] ELSE one[d]
        BY <3>1, <3>2
    <3>5. CASE d = v
      <4>1. conn'[d] = [one[d] EXCEPT !.close_requested = @ \/ hit]
        BY <3>4, <3>5
      <4> QED BY <3>3, <4>1 DEF ConnFields
    <3>6. CASE d # v
      <4>1. conn'[d] = one[d]
        BY <3>4, <3>6
      <4> QED BY <3>3, <4>1
    <3> QED BY <3>5, <3>6
  <2>5. conn[c].kill_shard + 1 \in 0 .. NumVcpus
    BY <1>1, <1>2, VcpuAssumption DEF FiberOK
  <2>6. ASSUME NEW d \in Conn
        PROVE  InputOK(input'[d]) /\ FiberOK(input'[d], d \in hung_up', conn'[d])
    <3>1. InputOK(input[d]) /\ FiberOK(input[d], d \in hung_up, conn[d])
        BY Zenon DEF FInv
    <3> QED BY <1>1, <2>4, <2>5, <3>1, Zenon DEF FiberOK
  <2>7. ClocksOK' /\ (Paused' <=> Paused)
    BY <1>1 DEF FInv, ClocksOK, Paused
  <2>8. StrayOK'
    BY <2>1, <2>4, <2>7 DEF FInv, StrayOK
  <2>9. DOMAIN conn' = Conn
    BY <2>1, <2>3
  <2> QED BY <1>1, <2>6, <2>7, <2>8, <2>9 DEF FInv
<1>3. CASE ~(conn[c].kill_shard < NumVcpus)
  <2>1. conn' = [conn EXCEPT ![c] = Reply(conn[c])] /\ CountStray(c)
    BY <1>3, Zenon DEF Kill
  <2>2. FiberOK(input[c], c \in hung_up, Reply(conn[c])) /\ Reply(conn[c]).pc = "threshold"
    BY <1>1, ReplyOK
  <2>3. Alone(c, Reply(conn[c])) /\ Completes(c, Reply(conn[c]))
    BY <1>1, <2>1, <2>2 DEF Alone, Completes, Admitted, At
  <2> QED BY <2>2, <2>3, AloneKeeps
<1> QED BY <1>2, <1>3

\* The deadline only grows, so that a pause that is in force stays so.
LEMMA PauseClientsKeeps == ASSUME FInv, NEW c \in Conn, PauseClients(c) PROVE FInv'
<1> DEFINE p == conn[c].pause
           s == IF p.old >= p.new \/ g_pause_until_ms = p.old THEN Reply(conn[c])
                ELSE [conn[c] EXCEPT !.pause.old = g_pause_until_ms]
<1>1. /\ At(c, "pause") /\ conn' = [conn EXCEPT ![c] = s] /\ UNCHANGED <<input, hung_up, now, stray>>
      /\ g_pause_until_ms' = IF p.old < p.new /\ g_pause_until_ms = p.old THEN p.new ELSE g_pause_until_ms
    BY Zenon DEF PauseClients
<1>2. FiberOK(input[c], c \in hung_up, conn[c]) /\ DOMAIN conn[c] = ConnFields /\ conn[c].pc = "pause"
    BY <1>1, FiberOf
<1>3. p \in [old : Int, new : 0 .. Int64Max]
    BY <1>2, Zenon DEF FiberOK
<1>4. p.new \in 0 .. Int64Max /\ p.old \in Int
    BY <1>3, Zenon
<1>5. FiberOK(input[c], c \in hung_up, s)
  <2>1. FiberOK(input[c], c \in hung_up, Reply(conn[c]))
    BY <1>2, ReplyOK
  <2> DEFINE t == [conn[c] EXCEPT !.pause.old = g_pause_until_ms]
  <2>2. FiberOK(input[c], c \in hung_up, t)
    <3>1. t = [conn[c] EXCEPT !.pause = [p EXCEPT !.old = g_pause_until_ms]]
        BY Zenon
    <3>2. [p EXCEPT !.old = g_pause_until_ms] \in [old : Int, new : 0 .. Int64Max]
        BY <1>3 DEF FInv, ClocksOK
    <3> DEFINE u == [p EXCEPT !.old = g_pause_until_ms]
    <3> HIDE DEF u
    <3>3. /\ DOMAIN t = ConnFields /\ t.pc = "pause" /\ t.parser = conn[c].parser
          /\ t.kill_shard = conn[c].kill_shard /\ t.pause = u
        BY <1>2, <3>1, Zenon DEF ConnFields, u
    <3> HIDE DEF t
    <3> QED BY <1>2, <3>2, <3>3 DEF FiberOK, AtRest, u
  <2> HIDE DEF t
  <2> QED BY <2>1, <2>2, Zenon DEF t
<1>6. g_pause_until_ms' \in 0 .. Int64Max /\ g_pause_until_ms' >= g_pause_until_ms
    BY <1>1, <1>4 DEF FInv, ClocksOK
<1> HIDE DEF s, p
<1>7. DOMAIN conn = Conn /\ DOMAIN conn' = Conn /\ conn'[c] = s /\ \A d \in Conn : d # c => conn'[d] = conn[d]
    BY <1>1 DEF FInv
<1>8. \A d \in Conn : InputOK(input'[d]) /\ FiberOK(input'[d], d \in hung_up', conn'[d])
    BY <1>1, <1>5, <1>7 DEF FInv
<1>9. ClocksOK' /\ (Paused => Paused')
    BY <1>1, <1>6 DEF FInv, ClocksOK, Paused
<1>10. StrayOK'
    BY <1>1, <1>2, <1>7, <1>9 DEF FInv, StrayOK, Admitted
<1> QED BY <1>1, <1>7, <1>8, <1>9, <1>10 DEF FInv

LEMMA ThresholdKeeps == ASSUME FInv, NEW c \in Conn, Threshold(c) PROVE FInv'
<1> DEFINE full == Len(conn[c].write_buffer) >= FlushThreshold
           next == IF conn[c].should_close THEN "flush" ELSE "more"
           s == IF full THEN Flush(conn[c]) ELSE conn[c]
<1>1. /\ At(c, "threshold") /\ UNCHANGED stray
      /\ Continue(c, Goto(s, next)) \/ (c \in hung_up /\ Continue(c, Goto(conn[c], "closed")))
    BY Zenon DEF Threshold
<1>2. FiberOK(input[c], c \in hung_up, conn[c])
    BY <1>1, FiberOf
<1>3. FiberOK(input[c], c \in hung_up, s)
    BY <1>2, FlushOK
<1>4. next \in Places \ {"new"} /\ next \notin AtRest /\ next \notin Admitted
    BY Zenon DEF Places, AtRest, Admitted
<1> HIDE DEF s, next
<1>5. CASE Continue(c, Goto(s, next))
  <2>1. FiberOK(input[c], c \in hung_up, Goto(s, next)) /\ Goto(s, next).pc = next
    BY <1>3, <1>4, GotoOK
  <2>2. Alone(c, Goto(s, next)) /\ Pauses(c, Goto(s, next))
    BY <1>1, <1>4, <1>5, <2>1, ContinueIsAlone, Zenon DEF Pauses
  <2> QED BY <2>1, <2>2, AloneKeeps
<1>6. CASE c \in hung_up /\ Continue(c, Goto(conn[c], "closed"))
  <2>1. FiberOK(input[c], c \in hung_up, Goto(conn[c], "closed")) /\ Goto(conn[c], "closed").pc = "closed"
    BY <1>2, <1>6, GotoOK DEF Places
  <2>2. Alone(c, Goto(conn[c], "closed")) /\ Pauses(c, Goto(conn[c], "closed"))
    BY <1>1, <1>6, <2>1, ContinueIsAlone, Zenon DEF Pauses, Admitted
  <2> QED BY <2>1, <2>2, AloneKeeps
<1> QED BY <1>1, <1>5, <1>6

LEMMA MoreKeeps == ASSUME FInv, NEW c \in Conn, More(c) PROVE FInv'
<1> DEFINE r == TryParseCommandNoRead(input[c], Resumed(conn[c].parser))
           result == TryParseResult(r)
           s == [conn[c] EXCEPT !.pc = IF result = "OK" THEN "loop" ELSE "flush",
                    !.parser = Window(r), !.args = r.args, !.parse_error = result = "ERROR",
                    !.desync = @ \/ (result = "OK" /\ r.no_read_need_more)]
<1>1. At(c, "more") /\ Continue(c, s) /\ UNCHANGED stray
    BY Zenon DEF More
<1>2. FiberOK(input[c], c \in hung_up, conn[c]) /\ InputOK(input[c]) /\ DOMAIN conn[c] = ConnFields
    BY <1>1, FiberOf
<1>3. WindowOK(input[c], Window(r))
  <2>1. ParserOK(input[c], Resumed(conn[c].parser), Resumed(conn[c].parser))
    BY <1>2, ResumedOK DEF FiberOK
  <2> QED BY <1>2, <2>1, TryParseOK
<1> HIDE DEF r, result
<1>4. /\ DOMAIN s = ConnFields /\ s.pc \in {"loop", "flush"} /\ s.parser = Window(r)
      /\ s.kill_shard = conn[c].kill_shard /\ s.pause = conn[c].pause
    BY <1>2 DEF ConnFields
<1> HIDE DEF s
<1>5. s.pc \in Places /\ s.pc # "new" /\ s.pc \notin Admitted /\ s.pc \notin AtRest
    BY <1>4 DEF Places, Admitted, AtRest
<1>6. FiberOK(input[c], c \in hung_up, s)
    BY <1>2, <1>3, <1>4, <1>5 DEF FiberOK
<1>7. Alone(c, s) /\ Pauses(c, s)
    BY <1>1, <1>5, ContinueIsAlone DEF Pauses
<1> QED BY <1>6, <1>7, AloneKeeps

LEMMA EndOfTurnKeeps == ASSUME FInv, NEW c \in Conn, EndOfTurn(c) PROVE FInv'
<1> DEFINE s == conn[c]
           w == IF s.should_close \/ s.parse_error \/ s.close_requested THEN "closed" ELSE "top"
<1>1. /\ At(c, "flush") /\ UNCHANGED stray
      /\ Continue(c, Goto(Flush(s), w)) \/ (c \in hung_up /\ Continue(c, Goto(s, "closed")))
    BY Zenon DEF EndOfTurn
<1>2. FiberOK(input[c], c \in hung_up, s)
    BY <1>1, FiberOf
<1>3. FiberOK(input[c], c \in hung_up, Flush(s)) /\ Flush(s).write_buffer = <<>>
    BY <1>2, FlushOK
<1>4. w \in Places \ {"new"} /\ w \notin Admitted
    BY Zenon DEF Places, Admitted
<1> HIDE DEF s, w
<1>5. CASE Continue(c, Goto(Flush(s), w))
  <2>1. FiberOK(input[c], c \in hung_up, Goto(Flush(s), w)) /\ Goto(Flush(s), w).pc = w
    BY <1>3, <1>4, GotoOK
  <2>2. Alone(c, Goto(Flush(s), w)) /\ Pauses(c, Goto(Flush(s), w))
    BY <1>1, <1>4, <1>5, <2>1, ContinueIsAlone DEF Pauses
  <2> QED BY <2>1, <2>2, AloneKeeps
<1>6. CASE c \in hung_up /\ Continue(c, Goto(s, "closed"))
  <2>1. FiberOK(input[c], c \in hung_up, Goto(s, "closed")) /\ Goto(s, "closed").pc = "closed"
    <3>1. "closed" \in Places \ {"new"}
        BY Zenon DEF Places
    <3> QED BY <1>2, <1>6, <3>1, GotoOK
  <2>2. Alone(c, Goto(s, "closed")) /\ Pauses(c, Goto(s, "closed"))
    BY <1>1, <1>6, <2>1, ContinueIsAlone DEF Pauses, Admitted
  <2> QED BY <2>1, <2>2, AloneKeeps
<1> QED BY <1>1, <1>5, <1>6

-----------------------------------------------------------------------------
(* Clients, the clock and the stop of the pool.                            *)

LEMMA AcceptKeeps == ASSUME FInv, NEW c \in Conn, Accept(c) PROVE FInv'
<1>1. /\ At(c, "new") /\ UNCHANGED <<hung_up, g_pause_until_ms, now, stray>>
      /\ conn' = [conn EXCEPT ![c].pc = "top"]
    BY Zenon DEF Accept
<1>2. PICK i \in Input[c] : input' = [input EXCEPT ![c] = i]
    BY DEF Accept
<1>3. InputOK(i)
    BY InputAssumption DEF InputOK
<1>4. /\ FiberOK(input[c], c \in hung_up, conn[c]) /\ DOMAIN conn[c] = ConnFields /\ conn[c].pc = "new"
      /\ (c \notin hung_up => conn[c].write_buffer = <<>>)
    BY <1>1, FiberOf DEF AtRest
<1>5. /\ DOMAIN conn' = Conn /\ conn'[c] = Goto(conn[c], "top") /\ \A d \in Conn : d # c => conn'[d] = conn[d]
      /\ DOMAIN input' = Conn /\ input'[c] = i /\ \A d \in Conn : d # c => input'[d] = input[d]
    BY <1>1, <1>2 DEF FInv, Goto
<1>6. FiberOK(i, c \in hung_up, conn[c])
  <2>1. WindowOK(i, conn[c].parser)
    BY <1>3, <1>4 DEF FiberOK, WindowOK, InputOK
  <2> QED BY <1>4, <2>1 DEF FiberOK
<1>7. FiberOK(i, c \in hung_up, Goto(conn[c], "top")) /\ Goto(conn[c], "top").pc = "top"
    BY <1>4, <1>6, GotoOK DEF Places
<1>8. \A d \in Conn : InputOK(input'[d]) /\ FiberOK(input'[d], d \in hung_up', conn'[d])
    BY <1>1, <1>3, <1>5, <1>7 DEF FInv
<1>9. ClocksOK' /\ (Paused' <=> Paused)
    BY <1>1 DEF FInv, ClocksOK, Paused
<1>10. StrayOK'
    BY <1>1, <1>5, <1>7, <1>9 DEF FInv, StrayOK, Admitted
<1> QED BY <1>1, <1>5, <1>8, <1>9, <1>10 DEF FInv

LEMMA HangUpKeeps == ASSUME FInv, NEW c \in Conn, HangUp(c) PROVE FInv'
<1>1. hung_up' = hung_up \cup {c} /\ UNCHANGED <<input, conn, g_pause_until_ms, now, stray>>
    BY DEF HangUp
<1>2. \A d \in Conn : InputOK(input'[d]) /\ FiberOK(input'[d], d \in hung_up', conn'[d])
    BY <1>1 DEF FInv, FiberOK
<1>3. ClocksOK' /\ StrayOK'
    BY <1>1 DEF FInv, ClocksOK, StrayOK, Paused
<1> QED BY <1>1, <1>2, <1>3 DEF FInv

LEMMA TickKeeps == ASSUME FInv, Tick PROVE FInv'
<1>1. /\ now' = now + 1 /\ UNCHANGED <<input, conn, hung_up, g_pause_until_ms>>
      /\ stray' = IF g_pause_until_ms > now' THEN stray ELSE [c \in Conn |-> 0]
    BY Zenon DEF Tick
<1>2. \A d \in Conn : InputOK(input'[d]) /\ FiberOK(input'[d], d \in hung_up', conn'[d])
    BY <1>1 DEF FInv
<1>3. ClocksOK'
    BY <1>1 DEF FInv, ClocksOK
<1>4. StrayOK'
  <2>1. CASE g_pause_until_ms > now'
    BY <1>1, <2>1 DEF FInv, StrayOK, Paused
  <2>2. CASE ~(g_pause_until_ms > now')
    BY <1>1, <2>2 DEF StrayOK
  <2> QED BY <2>1, <2>2
<1> QED BY <1>1, <1>2, <1>3, <1>4 DEF FInv

LEMMA UnchangedKeeps ==
    ASSUME FInv, UNCHANGED <<input, conn, hung_up, g_pause_until_ms, now, stray>> PROVE FInv'
BY Zenon DEF FInv, ClocksOK, StrayOK, Paused

LEMMA FStep == FInv /\ [Next]_vars => FInv'
<1> SUFFICES ASSUME FInv, [Next]_vars PROVE FInv'
    BY Zenon
<1>1. ASSUME NEW c \in Conn, Step(c) PROVE FInv'
    BY <1>1, TopKeeps, WakeUpKeeps, RecvKeeps, LoopKeeps, CommandClosedKeeps, CommandLocalKeeps,
       CommandStartsKeeps, ForwardedKeeps, KillKeeps, PauseClientsKeeps, ThresholdKeeps, MoreKeeps,
       EndOfTurnKeeps DEF Step
<1>2. CASE Stop \/ UNCHANGED vars
    BY <1>2, UnchangedKeeps DEF Stop, vars
<1> QED BY <1>1, <1>2, AcceptKeeps, HangUpKeeps, TickKeeps DEF Next

-----------------------------------------------------------------------------
(* The results.                                                            *)

\* The invariant holds in every state.
THEOREM FrontendInvariant == Spec => []FInv
BY FInit, FStep, PTL DEF Spec

\* However recv() cuts what a client sends, and whatever that is, the parser of
\* a connection stays inside its buffer and the buffer inside what was sent; the
\* deadline of a pause does not overflow.
THEOREM FrontendTypes == Spec => []TypeOK
<1>1. FInv => TypeOK
    BY DEF FInv, TypeOK, ClocksOK, FiberOK, WindowOK, Places
<1> QED BY <1>1, FrontendInvariant, PTL

\* A connection that closes has sent all its replies, unless its client left.
THEOREM NoReplyDropped == Spec => []NothingDropped
<1>1. FInv => NothingDropped
    BY Zenon DEF FInv, NothingDropped, FiberOK, At, AtRest
<1> QED BY <1>1, FrontendInvariant, PTL

\* A connection completes at most one command while a pause is in force.
THEOREM PauseIsKept == Spec => []PauseHolds
<1>1. FInv => PauseHolds
    BY DEF FInv, PauseHolds, StrayOK
<1> QED BY <1>1, FrontendInvariant, PTL

\* Whatever CLIENT PAUSEs race, none of them shortens a pause.
THEOREM NoPauseShortened == Spec => PauseNeverShortened
<1>1. FInv /\ [Next]_vars => [g_pause_until_ms' >= g_pause_until_ms]_vars
  <2> SUFFICES ASSUME FInv, [Next]_vars PROVE g_pause_until_ms' >= g_pause_until_ms
    BY Zenon
  <2>1. g_pause_until_ms \in Int
    BY DEF FInv, ClocksOK
  <2>2. ASSUME NEW c \in Conn, PauseClients(c) PROVE g_pause_until_ms' >= g_pause_until_ms
    <3> DEFINE p == conn[c].pause
    <3>1. p \in [old : Int, new : 0 .. Int64Max]
        BY Zenon DEF FInv, FiberOK
    <3>2. p.old \in Int /\ p.new \in Int
        BY <3>1
    <3>3. g_pause_until_ms' = IF p.old < p.new /\ g_pause_until_ms = p.old THEN p.new ELSE g_pause_until_ms
        BY <2>2 DEF PauseClients
    <3> HIDE DEF p
    <3> QED BY <2>1, <3>2, <3>3
  <2>3. CASE UNCHANGED g_pause_until_ms
    BY <2>1, <2>3
  <2> QED BY <2>2, <2>3 DEF Next, Step, vars, Accept, Top, WakeUp, Recv, Loop, CommandClosed, CommandLocal,
             CommandStarts, Forwarded, Kill, Threshold, More, EndOfTurn, HangUp, Tick, Stop, Continue
<1> QED BY <1>1, FrontendInvariant, PTL DEF Spec, PauseNeverShortened
=============================================================================
