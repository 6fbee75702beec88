----------------------------- MODULE RespParser -----------------------------
(* The RESP request parser (src/protocol/resp_parser.cc) as a pure function  *)
(* of what one connection receives.                                          *)
(*                                                                           *)
(* An input is [bytes, cuts]: the bytes the client writes, and the places    *)
(* where one recv() ends and the next one starts.  The receive buffer is a   *)
(* window base+1 .. size of the bytes, and pos is the last byte consumed;    *)
(* recv() replaces the window, it never extends it.  A byte is "CR", "LF",   *)
(* "SP", one of the marks and digits of the protocol, or a letter.           *)
EXTENDS Integers, Sequences, SequencesExt, FiniteSetsExt

Digit == {"0", "1", "2"}
DigitValue == [d \in Digit |-> CASE d = "0" -> 0 [] d = "1" -> 1 [] d = "2" -> 2]

\* A parser with an empty buffer that may read from its socket.
NewParser == [base |-> 0, pos |-> 0, size |-> 0, allow_socket_read |-> TRUE,
              no_read_need_more |-> FALSE, starved |-> FALSE, stale |-> FALSE,
              ok |-> TRUE, char |-> "NUL", line |-> <<>>, args |-> <<>>]

Failed(s) == [s EXCEPT !.ok = FALSE]

(* FillBuffer, repeated by its callers until byte number b is in the buffer. *)
(* A no-read parser only notes that it needs more; a reading one replaces    *)
(* its window by the fragment that holds b, and is starved when the client   *)
(* has sent no such byte.                                                    *)
FillBuffer(in, s, b) ==
    IF b <= s.size THEN [s EXCEPT !.ok = TRUE]
    ELSE IF ~s.allow_socket_read
         THEN [Failed(s) EXCEPT !.no_read_need_more = TRUE]
    ELSE IF b > Len(in.bytes) THEN [Failed(s) EXCEPT !.starved = TRUE]
    ELSE [s EXCEPT !.ok = TRUE,
                   !.base = Max({0} \cup {c \in in.cuts : c < b}),
                   !.size = Min({Len(in.bytes)} \cup {c \in in.cuts : c >= b})]

\* Faulty variant: the position moves even when there is nothing to read.
ReadCharUnchecked(in, s) ==
    LET f == FillBuffer(in, s, s.pos + 1)
    IN  [f EXCEPT !.pos = @ + 1,
                  !.char = IF f.ok THEN in.bytes[s.pos + 1] ELSE "NUL"]

ReadChar(in, s) ==
    LET f == FillBuffer(in, s, s.pos + 1)
    IN  IF f.ok THEN [f EXCEPT !.pos = @ + 1, !.char = in.bytes[s.pos + 1]]
                ELSE [f EXCEPT !.char = "NUL"]

\* The first CR or LF after byte number i; one past the input when there is none.
FindTerminator(in, i) ==
    Min({Len(in.bytes) + 1} \cup
        {j \in (i + 1) .. Len(in.bytes) : in.bytes[j] \in {"CR", "LF"}})

(* After a line that ended in CR, a following LF is skipped.  The result of  *)
(* the read is ignored: the line has been accepted already.                  *)
ConsumeCRLF(in, s) ==
    IF in.bytes[s.pos] # "CR" THEN s
    ELSE LET f == FillBuffer(in, s, s.pos + 1)
         IN  IF f.ok /\ in.bytes[f.pos + 1] = "LF"
             THEN [f EXCEPT !.pos = @ + 1]
             ELSE [f EXCEPT !.ok = TRUE]

(* What a view of the bytes i .. j shows, which lay in the window f, when    *)
(* the buffer holds the window g: recv() has written over its front.         *)
View(in, f, g, i, j) ==
    [n \in 1 .. (j - i + 1) |->
        LET offset == i + n - 1 - f.base
        IN  IF g.base # f.base /\ g.base + offset <= g.size
            THEN in.bytes[g.base + offset] ELSE in.bytes[f.base + offset]]

(* The end of the two functions below: a line that starts at byte i and ends *)
(* in front of the terminator t.  A line that took several reads has been    *)
(* copied; any other is a view, and stale when it no longer shows what the   *)
(* client sent, sent.                                                        *)
EndOfLine(in, f, copied, i, t, sent) ==
    LET g == ConsumeCRLF(in, [f EXCEPT !.pos = t])
        line == IF copied THEN sent ELSE View(in, f, g, i, t - 1)
    IN  [g EXCEPT !.line = line, !.stale = @ \/ line # sent]

\* The line from the current position, collected in scratch_line if need be.
ReadLineView(in, s) ==
    LET t == FindTerminator(in, s.pos)
        f == FillBuffer(in, s, t)
        copied == FillBuffer(in, s, s.pos + 1).base # f.base
    IN  IF ~f.ok THEN f
        ELSE EndOfLine(in, f, copied, s.pos + 1, t, SubSeq(in.bytes, s.pos + 1, t - 1))

(* The line whose first character has just been read.  first_ptr points into *)
(* the buffer as it was before FillBuffer: when the first character was the  *)
(* last of its buffer and the line ends in the next one, the view starts at  *)
(* that offset of the new bytes.  It has no bytes when that is behind the    *)
(* terminator (end = first_ptr + the negative length).                       *)
ReadInlineLineView(in, s) ==
    LET t == FindTerminator(in, s.pos)
        f == FillBuffer(in, s, t)
        copied == FillBuffer(in, s, s.pos + 1).base # f.base
    IN  IF ~f.ok THEN f
        ELSE EndOfLine(in, f, copied, f.base + s.pos - s.base, t,
                       SubSeq(in.bytes, s.pos, t - 1))

\* Len bytes, then the CRLF after them: two ReadChars whose failure is ignored.
ReadBulkStringInto(in, s, len) ==
    LET f == IF len <= 0 THEN [s EXCEPT !.ok = TRUE] ELSE FillBuffer(in, s, s.pos + len)
        body == [f EXCEPT !.pos = s.pos + len,
                          !.args = Append(@, SubSeq(in.bytes, s.pos + 1, s.pos + len))]
    IN  IF len < 0 THEN [f EXCEPT !.args = Append(@, <<>>)]
        ELSE IF ~f.ok THEN f
        ELSE [ReadChar(in, ReadChar(in, body)) EXCEPT !.ok = TRUE]

\* String2ll on the lines that occur here: one digit, or minus one.
IsNumber(line) == line = <<"-", "1">> \/ (Len(line) = 1 /\ line[1] \in Digit)
Number(line) == IF line = <<"-", "1">> THEN -1 ELSE DigitValue[line[1]]

\* One element of the array: a bulk string, or the rest of a line.
ParseElement(in, s) ==
    LET first == ReadChar(in, s)
        c == IF first.char \in {"CR", "LF"} THEN ReadChar(in, first) ELSE first
        l == ReadLineView(in, c)
    IN  IF c.char \notin {"$", "+", ":", "-"} THEN Failed(c)
        ELSE IF ~l.ok THEN l
        ELSE IF c.char # "$" THEN [l EXCEPT !.args = Append(@, l.line)]
        ELSE IF ~IsNumber(l.line) THEN Failed(l)
        ELSE ReadBulkStringInto(in, l, Number(l.line))

\* What count applications of op make of s.
Repeat(op(_), s, count) ==
    LET after[n \in 0 .. count] == IF n = 0 THEN s ELSE op(after[n - 1])
    IN  after[count]

\* The loop over the elements, which an element that fails ends.
ParseElements(in, s, count) ==
    IF count <= 0 THEN s
    ELSE Repeat(LAMBDA x : IF x.ok THEN ParseElement(in, x) ELSE x, s, count)

ParseArray(in, s) ==
    LET l == ReadLineView(in, s)
    IN  IF ~l.ok THEN l
        ELSE IF ~IsNumber(l.line) THEN Failed(l)
        ELSE ParseElements(in, l, Number(l.line))

\* The words of the line; a line without one is a parse error.
ParseInlineCommand(s) ==
    LET line == s.line
        starts == {i \in DOMAIN line :
                      line[i] # "SP" /\ (i = 1 \/ line[i - 1] = "SP")}
        end(i) == Min({Len(line) + 1} \cup {j \in i .. Len(line) : line[j] = "SP"})
        words == [n \in 1 .. Cardinality(starts) |->
                     LET i == SetToSortSeq(starts, <)[n]
                     IN  SubSeq(line, i, end(i) - 1)]
    IN  [s EXCEPT !.ok = starts # {}, !.args = words]

\* ParseCommand: the outcome is in ok, and the command in args.
ParseCommand(in, s0) ==
    LET s == [s0 EXCEPT !.args = <<>>, !.no_read_need_more = FALSE,
                       !.starved = FALSE, !.stale = FALSE]
        c == ReadChar(in, s)
        l == ReadInlineLineView(in, c)
    IN  IF c.char = "NUL" THEN Failed(c)
        ELSE IF c.char = "*" THEN ParseArray(in, c)
        ELSE IF ~l.ok THEN l ELSE ParseInlineCommand(l)

\* Faulty variant: what a failed attempt consumed is not put back.
TryParseConsuming(in, s) ==
    LET r == ParseCommand(in, [s EXCEPT !.allow_socket_read = FALSE])
        done == [r EXCEPT !.allow_socket_read = s.allow_socket_read]
    IN  IF r.ok THEN done ELSE [done EXCEPT !.args = <<>>]

(* TryParseCommandNoRead: only what the buffer holds; a failure puts the     *)
(* position back.                                                            *)
TryParseCommandNoRead(in, s) ==
    LET r == ParseCommand(in, [s EXCEPT !.allow_socket_read = FALSE])
        done == [r EXCEPT !.allow_socket_read = s.allow_socket_read]
    IN  IF r.ok THEN done
        ELSE [done EXCEPT !.pos = s.pos, !.size = s.size, !.args = <<>>]

\* Faulty variant: an incomplete command is an error.
TryParseResultStrict(r) == IF r.ok THEN "OK" ELSE "ERROR"

TryParseResult(r) ==
    IF r.ok THEN "OK" ELSE IF r.no_read_need_more THEN "NEED_MORE" ELSE "ERROR"

=============================================================================
