------------------------------ MODULE Frontend ------------------------------
(* Connections: ProactorPool::HandleConnection with the parser, the write    *)
(* buffer, CLIENT PAUSE, CLIENT KILL and the stop of the pool.               *)
(*                                                                           *)
(* Every connection is a fiber of its own and its field pc is where it       *)
(* stands; a step ends where the fiber may be suspended, or where another    *)
(* thread may write what it reads next.  A command is one word, and the      *)
(* reply to a command is the command.                                        *)
EXTENDS RespParser

CONSTANTS
    Conn,               \* connections
    NumVcpus,           \* vCPUs, and so shards, numbered from 0
    VcpuOf,             \* the vCPU that accepted each connection
    ShardOf,            \* the shard of the key each keyed command names
    Victim,             \* the connection each connection's CLIENT KILL names
    Input,              \* what each client may send: [script, bytes, cuts]
    MayHangUp,          \* the clients that may leave before they are answered
    FlushThreshold,     \* kPipelineFlushThresholdBytes, in replies
    PauseMs,            \* the timeout of CLIENT PAUSE
    Int64Max,           \* largest int64_t
    MaxNow              \* bound on the clock, pauses excepted

ASSUME VcpuAssumption == NumVcpus \in Nat /\ Victim \in [Conn -> Conn]
ASSUME PauseAssumption == PauseMs \in Nat /\ Int64Max \in Nat
ASSUME InputAssumption ==
    \A c \in Conn : \A i \in Input[c] : Len(i.bytes) \in Nat /\ i.cuts \subseteq Nat

Vcpu == 0 .. NumVcpus - 1

\* What the client writes for one command: a RESP array, or an inline command.
Encode(m) ==
    IF m.form = "inline" THEN <<m.word, "CR", "LF">>
    ELSE <<"*", "1", "CR", "LF", "$", "1", "CR", "LF", m.word, "CR", "LF">>

BytesOf(script) == FlattenSeq([i \in DOMAIN script |-> Encode(script[i])])

\* The commands of a script, as the parser should deliver them.
CommandsOf(script) == [i \in DOMAIN script |-> <<<<script[i].word>>>>]

VARIABLES
    input,              \* what each client sends, and how recv() splits it
    conn,               \* the state of each connection's fiber
    hung_up,            \* the clients that have closed their end
    g_pause_until_ms,   \* the deadline of CLIENT PAUSE
    now,                \* the steady clock
    running,            \* ProactorPool::running
    stray               \* history: effects of each connection in this pause

vars == <<input, conn, hung_up, g_pause_until_ms, now, running, stray>>

NoInput == [script |-> <<>>, bytes |-> <<>>, cuts |-> {}]

\* Between two calls a parser is its window and its position.
Window(r) == [base |-> r.base, pos |-> r.pos, size |-> r.size]
Resumed(w) == [NewParser EXCEPT !.base = w.base, !.pos = w.pos, !.size = w.size]

\* A connection before it is accepted.
NewConnection ==
    [pc |-> "new", parser |-> Window(NewParser), args |-> <<>>,
     should_close |-> FALSE, parse_error |-> FALSE,
     write_buffer |-> <<>>, sent |-> <<>>, close_requested |-> FALSE,
     kill_shard |-> 0, pause |-> [old |-> 0, new |-> 0],
     desync |-> FALSE]

Init ==
    /\ input = [c \in Conn |-> NoInput]
    /\ conn = [c \in Conn |-> NewConnection]
    /\ hung_up = {}
    /\ g_pause_until_ms = 0
    /\ now = 0
    /\ running = TRUE
    /\ stray = [c \in Conn |-> 0]

At(c, where) == conn[c].pc = where
Paused == g_pause_until_ms > now

\* The fiber of c goes on with its state changed to s; nothing else changes.
Continue(c, s) ==
    /\ conn' = [conn EXCEPT ![c] = s]
    /\ UNCHANGED <<input, hung_up, g_pause_until_ms, now, running>>

Goto(s, where) == [s EXCEPT !.pc = where]

(***************************************************************************)
(* The outer loop: pause, close request, blocking parse                      *)
(***************************************************************************)
\* A client connects and its fiber registers the connection with its vCPU.
Accept(c) ==
    /\ At(c, "new") /\ running
    /\ input' \in {[input EXCEPT ![c] = i] : i \in Input[c]}
    /\ conn' = [conn EXCEPT ![c].pc = "top"]
    /\ UNCHANGED <<hung_up, g_pause_until_ms, now, running, stray>>

\* Faulty variant: the outer loop does not look at the close request.
UnpausedIgnoringKill(s) == Goto(s, "recv")

\* Behind PauseIfNeeded a connection that is to be closed ends, others parse.
Unpaused(s) == Goto(s, IF s.close_requested THEN "closed" ELSE "recv")

\* while (running) { PauseIfNeeded(); ... }
Top(c) ==
    /\ At(c, "top")
    /\ Continue(c, IF ~running THEN Goto(conn[c], "closed")
                   ELSE IF Paused THEN Goto(conn[c], "sleep_top")
                   ELSE Unpaused(conn[c]))
    /\ UNCHANGED stray

(* The sleep in PauseIfNeeded ends with the pause.  Nobody looks again       *)
(* whether the pool is still running.                                        *)
WakeUp(c) ==
    /\ ~Paused
    /\ \/ At(c, "sleep_top") /\ Continue(c, Unpaused(conn[c]))
       \/ At(c, "sleep_loop") /\ Continue(c, Goto(conn[c], "command"))
    /\ UNCHANGED stray

(* ParseCommand.  A parser that runs out of input waits in recv(), where a   *)
(* close request does not reach it, until the client hangs up.               *)
Starved(c) == ParseCommand(input[c], Resumed(conn[c].parser)).starved /\ c \notin hung_up

Recv(c) ==
    LET r == ParseCommand(input[c], Resumed(conn[c].parser))
    IN  /\ At(c, "recv")
        /\ ~Starved(c)
        /\ Continue(c, [conn[c] EXCEPT
              !.pc = IF r.ok THEN "loop" ELSE "closed", !.parser = Window(r),
              !.args = r.args, !.desync = @ \/ r.stale])
        /\ UNCHANGED stray

(***************************************************************************)
(* The inner loop: one command per turn                                      *)
(***************************************************************************)
\* Faulty variant: the pause is checked before the parse only.
LoopUnpaused(c) ==
    /\ At(c, "loop")
    /\ Continue(c, Goto(conn[c], IF ~running THEN "flush"
                                 ELSE IF conn[c].args = <<>> THEN "threshold"
                                 ELSE "command"))
    /\ UNCHANGED stray

\* while (running) { if (!args.empty()) PauseIfNeeded(); ... }
Loop(c) ==
    /\ At(c, "loop")
    /\ Continue(c, Goto(conn[c], IF ~running THEN "flush"
                                 ELSE IF conn[c].args = <<>> THEN "threshold"
                                 ELSE IF Paused THEN "sleep_loop"
                                 ELSE "command"))
    /\ UNCHANGED stray

Is(c, word) == conn[c].args[1] = <<word>>

\* Keyed commands go to the shard of their key, all others stay.
TargetShard(c) ==
    IF \E w \in DOMAIN ShardOf : Is(c, w)
    THEN ShardOf[conn[c].args[1][1]] ELSE VcpuOf[c]

\* The command has run and its reply is appended to the write buffer.
Reply(s) == [s EXCEPT !.write_buffer = Append(@, s.args), !.pc = "threshold"]

CountStray(c) == stray' = [stray EXCEPT ![c] = IF Paused THEN @ + 1 ELSE 0]

\* Faulty variant: a close request returns at once.
CommandClosedAtOnce(c) ==
    /\ At(c, "command") /\ conn[c].close_requested
    /\ Continue(c, Goto(conn[c], "closed"))
    /\ UNCHANGED stray

\* A close request seen here ends the loop; what is buffered is still sent.
CommandClosed(c) ==
    /\ At(c, "command") /\ conn[c].close_requested
    /\ Continue(c, [conn[c] EXCEPT !.should_close = TRUE, !.pc = "flush"])
    /\ UNCHANGED stray

\* QUIT, and the commands that run on this vCPU without waiting.
CommandLocal(c) ==
    /\ At(c, "command") /\ ~conn[c].close_requested
    /\ TargetShard(c) = VcpuOf[c] /\ ~Is(c, "p") /\ ~Is(c, "k")
    /\ Continue(c, [Reply(conn[c]) EXCEPT !.should_close = Is(c, "q")])
    /\ CountStray(c)

\* The others leave the vCPU, or take several steps of their own.
CommandStarts(c) ==
    /\ At(c, "command") /\ ~conn[c].close_requested
    /\ \/ /\ TargetShard(c) # VcpuOf[c]
          /\ Continue(c, Goto(conn[c], "await"))
       \/ /\ Is(c, "k")
          /\ Continue(c, [conn[c] EXCEPT !.kill_shard = 0, !.pc = "kill"])
       \/ /\ Is(c, "p")
          /\ Continue(c, [conn[c] EXCEPT !.pc = "pause",
                 !.pause = [old |-> g_pause_until_ms,
                            new |-> IF PauseMs > Int64Max - now THEN Int64Max
                                    ELSE now + PauseMs]])
    /\ UNCHANGED stray

\* The forwarded closure runs on the owner of the key, and Await returns.
Forwarded(c) ==
    /\ At(c, "await")
    /\ Continue(c, Reply(conn[c]))
    /\ CountStray(c)

(* CLIENT KILL asks one shard after the other; the one that has the victim   *)
(* registered sets its close flag.                                           *)
Kill(c) ==
    LET v == Victim[c]
        hit == VcpuOf[v] = conn[c].kill_shard /\ conn[v].pc \notin {"new", "closed"}
        asked == [conn EXCEPT ![c].kill_shard = @ + 1,
                              ![v].close_requested = @ \/ hit]
    IN  /\ At(c, "kill")
        /\ conn' = IF conn[c].kill_shard < NumVcpus THEN asked
                   ELSE [conn EXCEPT ![c] = Reply(conn[c])]
        /\ IF conn[c].kill_shard < NumVcpus THEN UNCHANGED stray ELSE CountStray(c)
        /\ UNCHANGED <<input, hung_up, g_pause_until_ms, now, running>>

\* Faulty variant: a load and a store, no compare-and-swap.
PauseClientsBlindly(c) ==
    LET p == conn[c].pause
    IN  /\ At(c, "pause")
        /\ g_pause_until_ms' = IF p.old < p.new THEN p.new ELSE g_pause_until_ms
        /\ conn' = [conn EXCEPT ![c] = Reply(conn[c])]
        /\ UNCHANGED <<input, hung_up, now, running, stray>>

\* CLIENT PAUSE: the compare-and-swap loop that only ever raises the deadline.
PauseClients(c) ==
    LET p == conn[c].pause
        done == p.old >= p.new \/ g_pause_until_ms = p.old
    IN  /\ At(c, "pause")
        /\ g_pause_until_ms' =
              IF p.old < p.new /\ g_pause_until_ms = p.old THEN p.new
              ELSE g_pause_until_ms
        /\ conn' = [conn EXCEPT ![c] =
              IF done THEN Reply(conn[c])
              ELSE [conn[c] EXCEPT !.pause.old = g_pause_until_ms]]
        /\ UNCHANGED <<input, hung_up, now, running, stray>>

(***************************************************************************)
(* Sending, and the next command                                             *)
(***************************************************************************)
\* Flush: the socket takes everything, or the client is gone and send() fails.
Flush(s) == [s EXCEPT !.sent = @ \o s.write_buffer, !.write_buffer = <<>>]

\* A long write buffer is sent at once; a failure closes the connection.
Threshold(c) ==
    LET full == Len(conn[c].write_buffer) >= FlushThreshold
        next == IF conn[c].should_close THEN "flush" ELSE "more"
    IN  /\ At(c, "threshold")
        /\ \/ Continue(c, Goto(IF full THEN Flush(conn[c]) ELSE conn[c], next))
           \/ full /\ c \in hung_up /\ Continue(c, Goto(conn[c], "closed"))
        /\ UNCHANGED stray

(* TryParseCommandNoRead.  A command it accepts although it ran out of input *)
(* has left the end of that command behind (desync).                         *)
More(c) ==
    LET r == TryParseCommandNoRead(input[c], Resumed(conn[c].parser))
        result == TryParseResult(r)
    IN  /\ At(c, "more")
        /\ Continue(c, [conn[c] EXCEPT
              !.pc = IF result = "OK" THEN "loop" ELSE "flush",
              !.parser = Window(r), !.args = r.args,
              !.parse_error = result = "ERROR",
              !.desync = @ \/ (result = "OK" /\ r.no_read_need_more)])
        /\ UNCHANGED stray

\* The end of a turn: flush, then close or wait for more.
EndOfTurn(c) ==
    LET s == conn[c]
        leave == s.should_close \/ s.parse_error \/ s.close_requested
    IN  /\ At(c, "flush")
        /\ \/ Continue(c, Goto(Flush(s), IF leave THEN "closed" ELSE "top"))
           \/ /\ c \in hung_up /\ s.write_buffer # <<>>
              /\ Continue(c, Goto(s, "closed"))
        /\ UNCHANGED stray

(***************************************************************************)
(* The environment                                                           *)
(***************************************************************************)
\* The client closes its socket.
HangUp(c) ==
    /\ c \in MayHangUp \ hung_up /\ ~At(c, "new")
    /\ hung_up' = hung_up \cup {c}
    /\ UNCHANGED <<input, conn, g_pause_until_ms, now, running, stray>>

\* Time passes; a pause in force always runs out.
Tick ==
    /\ now < MaxNow \/ Paused
    /\ now' = now + 1
    /\ stray' = IF g_pause_until_ms > now' THEN stray ELSE [c \in Conn |-> 0]
    /\ UNCHANGED <<input, conn, hung_up, g_pause_until_ms, running>>

\* ProactorPool::Stop.
Stop ==
    /\ running
    /\ running' = FALSE
    /\ UNCHANGED <<input, conn, hung_up, g_pause_until_ms, now, stray>>

Step(c) ==
    \/ Top(c) \/ WakeUp(c) \/ Recv(c) \/ Loop(c)
    \/ CommandClosed(c) \/ CommandLocal(c) \/ CommandStarts(c)
    \/ Forwarded(c) \/ Kill(c) \/ PauseClients(c)
    \/ Threshold(c) \/ More(c) \/ EndOfTurn(c)

Next == \/ \E c \in Conn : Accept(c) \/ Step(c) \/ HangUp(c)
        \/ Tick \/ Stop

Spec == Init /\ [][Next]_vars

\* The fiber of c is neither finished, nor asleep in a pause, nor in recv().
CanRun(c) ==
    /\ conn[c].pc \notin {"new", "closed"}
    /\ At(c, "sleep_top") \/ At(c, "sleep_loop") => ~Paused
    /\ At(c, "recv") => ~Starved(c)

(* The clock goes on, and a fiber that can run is run in the end: weak       *)
(* fairness of Step(c), with CanRun(c) written out for ENABLED Step(c).      *)
FairSpec ==
    /\ Spec
    /\ WF_vars(Tick)
    /\ \A c \in Conn : []<>~CanRun(c) \/ []<><<Step(c)>>_vars

(***************************************************************************)
(* Properties                                                                *)
(***************************************************************************)
\* The commands of c that the server has to answer: all up to a QUIT.
Due(c) ==
    LET all == CommandsOf(input[c].script)
        quits == {i \in DOMAIN all : all[i] = <<<<"q">>>>}
    IN  SubSeq(all, 1, Min({Len(all)} \cup quits))

Answered(c) == conn[c].sent \o conn[c].write_buffer

TypeOK ==
    /\ \A c \in Conn :
          /\ conn[c].pc \in {"new", "top", "sleep_top", "recv", "loop", "sleep_loop",
                            "command", "await", "kill", "pause", "threshold", "more", "flush", "closed"}
          /\ 0 <= conn[c].parser.base
          /\ conn[c].parser.base <= conn[c].parser.pos
          /\ conn[c].parser.pos <= conn[c].parser.size
          /\ conn[c].parser.size <= Len(input[c].bytes)
          /\ conn[c].kill_shard \in 0 .. NumVcpus
    /\ g_pause_until_ms \in 0 .. Int64Max
    /\ hung_up \subseteq Conn

(* Pipelining: what a connection has answered, sent or still buffered, is    *)
(* what its client asked, in the order it asked, however recv() cut the      *)
(* bytes (HandleConnection, proactor_pool.cc:328-431), as long as no command *)
(* was accepted with its end missing.                                        *)
RepliesInOrder ==
    \A c \in Conn : ~conn[c].desync => IsPrefix(Answered(c), Due(c))

(* The same with no exception: "Handle CRLF across recv() boundaries"        *)
(* (resp_parser.cc:79).                                                      *)
FragmentationIsInvisible == \A c \in Conn : IsPrefix(Answered(c), Due(c))

(* A connection closes with unsent replies only if its client is gone: QUIT, *)
(* a parse error, a close request and a stop of the pool all flush first     *)
(* (proactor_pool.cc:430-442).                                               *)
NothingDropped ==
    \A c \in Conn : At(c, "closed") /\ c \notin hung_up
                      => conn[c].write_buffer = <<>>

(* CLIENT PAUSE: while a pause is in force, a connection completes at most   *)
(* the one command it had already let through (proactor_pool.cc:330).        *)
PauseHolds == \A c \in Conn : stray[c] <= 1

\* Racing CLIENT PAUSEs never shorten a pause (proactor_pool.cc:183-186).
PauseNeverShortened == [][g_pause_until_ms' >= g_pause_until_ms]_vars

(* Every client that stays gets the answers due to it, pauses included,      *)
(* unless it is killed, the pool stops or the parser lost its place.         *)
AllAnswered ==
    \A c \in Conn : ~At(c, "new") ~>
                        (\/ conn[c].sent = Due(c)
                         \/ conn[c].desync \/ conn[c].close_requested
                         \/ c \in hung_up \/ ~running)

(* CLIENT KILL: a connection that is asked to close while it is not waiting  *)
(* in recv() never waits there again, and is closed in the end; one that is  *)
(* there already is not woken (proactor_pool.cc:168-175, 318, 331, 440).     *)
KilledIsClosed ==
    \A c \in Conn : conn[c].close_requested /\ ~At(c, "recv") ~> At(c, "closed")

=============================================================================
