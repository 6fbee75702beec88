----------------------------- MODULE TaskQueue -----------------------------
(***************************************************************************)
(* One shard's TaskQueue (core/task_queue.h, core/task_queue.cc): the ring *)
(* buffer that producers on other OS threads fill with closures, and the   *)
(* consumer fibers of the shard's vCPU that run them.                      *)
(*                                                                         *)
(* One action is one access to shared memory, since producers interleave   *)
(* anywhere.  The consumers and Shutdown are fibers of one vCPU: they      *)
(* switch only where they yield or block, which `turn' records.            *)
(***************************************************************************)
EXTENDS Integers, Sequences, FiniteSets

CONSTANTS
    Producer,       \* threads that submit closures
    Awaiter,        \* those of them that call Await; the others call Add
    Consumer,       \* consumer fibers, num_consumers of them
    Capacity,       \* slots of the ring
    MaxBatch,       \* kMaxBatch
    MaxCalls,       \* bound: calls that each producer makes
    MayShutdown,    \* whether Shutdown is ever called
    Empty,          \* a slot with no closure in its storage
    Free            \* no fiber of the vCPU is running

\* RoundUpPowerOfTwo returns at least kMinCapacity; pos & buffer_mask is then
\* pos % Capacity.
ASSUME CapacityAssumption == Capacity \in Nat /\ Capacity >= 2
ASSUME BatchAssumption == MaxBatch \in Nat \ {0}
ASSUME CallsAssumption == MaxCalls \in Nat
ASSUME ThreadAssumption == Awaiter \subseteq Producer /\ Producer \cap Consumer = {}
ASSUME ConsumerAssumption == /\ IsFiniteSet(Consumer) /\ Cardinality(Consumer) \in Nat
                             /\ Free \notin Consumer
ASSUME EmptyAssumption == Empty \notin Producer \X Nat

VARIABLES
    sequence,       \* Cell::sequence
    storage,        \* Cell::storage
    enqueue_pos,
    dequeue_pos,
    pull_sem,       \* the semaphore idle consumers wait on
    idler,          \* consumers in the idle phase
    wake_pending,   \* a wakeup has been issued
    is_closed,
    pc,             \* per thread: the next statement
    pos,            \* per thread: local variable pos of TryEnqueue, TryDequeue
    func,           \* per consumer: the closure TryDequeue moved out
    phase,          \* per consumer: the loop of Run it is in
    processed,      \* per consumer: closures run in this batch
    turn,           \* the fiber that holds the vCPU
    calls,          \* per producer: calls made so far
    ran,            \* closures that have been run
    owed            \* history: closures in the ring when it was closed

ring == <<sequence, storage, enqueue_pos, dequeue_pos>>
wakeup == <<pull_sem, idler, wake_pending>>
vars == <<ring, wakeup, is_closed, pc, pos, func, phase, processed, turn, calls, ran, owed>>

Thread == Producer \cup Consumer
Slot(p) == p % Capacity
Closure == Producer \X Nat

\* The closure that producer x is submitting.
Mine(x) == <<x, calls[x]>>

Init ==
    /\ sequence = [i \in 0 .. Capacity - 1 |-> i]
    /\ storage = [i \in 0 .. Capacity - 1 |-> Empty]
    /\ enqueue_pos = 0 /\ dequeue_pos = 0
    /\ pull_sem = 0 /\ idler = 0 /\ wake_pending = FALSE
    /\ is_closed = FALSE
    /\ pc = [t \in Thread |-> IF t \in Producer THEN "ready" ELSE "top"]
    /\ pos = [t \in Thread |-> 0]
    /\ func = [c \in Consumer |-> Empty]
    /\ phase = [c \in Consumer |-> "batch"]
    /\ processed = [c \in Consumer |-> 0]
    /\ turn = Free
    /\ calls = [x \in Producer |-> 0]
    /\ ran = {} /\ owed = {}

Goto(t, label) == pc' = [pc EXCEPT ![t] = label]

-----------------------------------------------------------------------------
(* Producers.                                                              *)

\* The caller of Add goes on; the caller of Await waits for its closure.
Added(x) == IF x \in Awaiter THEN "wait" ELSE "ready"

Submit(x) ==
    /\ pc[x] = "ready" /\ calls[x] < MaxCalls
    /\ calls' = [calls EXCEPT ![x] = @ + 1]
    /\ Goto(x, "load")
    /\ UNCHANGED <<ring, wakeup, is_closed, pos, func, phase, processed, turn, ran, owed>>

\* TryEnqueue.
EnqLoad(x) ==
    /\ pc[x] = "load"
    /\ pos' = [pos EXCEPT ![x] = enqueue_pos]
    /\ Goto(x, "check")
    /\ UNCHANGED <<ring, wakeup, is_closed, func, phase, processed, turn, calls, ran, owed>>

\* Faulty variant: a slot that is still occupied passes for a free one.
EnqCheckNeverFull(x) ==
    /\ pc[x] = "check"
    /\ Goto(x, IF sequence[Slot(pos[x])] <= pos[x] THEN "claim" ELSE "load")
    /\ UNCHANGED <<ring, wakeup, is_closed, pos, func, phase, processed, turn, calls, ran, owed>>

EnqCheck(x) ==
    /\ pc[x] = "check"
    /\ LET dif == sequence[Slot(pos[x])] - pos[x]
       IN  Goto(x, CASE dif = 0 -> "claim" [] dif < 0 -> "full" [] dif > 0 -> "load")
    /\ UNCHANGED <<ring, wakeup, is_closed, pos, func, phase, processed, turn, calls, ran, owed>>

\* Faulty variant: a plain store instead of the compare-and-swap.
EnqClaimBlindly(x) ==
    /\ pc[x] = "claim"
    /\ enqueue_pos' = pos[x] + 1
    /\ Goto(x, "write")
    /\ UNCHANGED <<sequence, storage, dequeue_pos, wakeup, is_closed, pos, func, phase,
                   processed, turn, calls, ran, owed>>

\* The compare-and-swap; a failed one goes round again.  (A weak one that fails
\* for no reason only repeats the two loads.)
EnqClaim(x) ==
    /\ pc[x] = "claim"
    /\ IF enqueue_pos = pos[x]
       THEN enqueue_pos' = pos[x] + 1 /\ Goto(x, "write")
       ELSE UNCHANGED enqueue_pos /\ Goto(x, "load")
    /\ UNCHANGED <<sequence, storage, dequeue_pos, wakeup, is_closed, pos, func, phase,
                   processed, turn, calls, ran, owed>>

EnqWrite(x) ==
    /\ pc[x] = "write"
    /\ storage' = [storage EXCEPT ![Slot(pos[x])] = Mine(x)]
    /\ Goto(x, "publish")
    /\ UNCHANGED <<sequence, enqueue_pos, dequeue_pos, wakeup, is_closed, pos, func, phase,
                   processed, turn, calls, ran, owed>>

EnqPublish(x) ==
    /\ pc[x] = "publish"
    /\ sequence' = [sequence EXCEPT ![Slot(pos[x])] = pos[x] + 1]
    /\ Goto(x, "wake")
    /\ UNCHANGED <<storage, enqueue_pos, dequeue_pos, wakeup, is_closed, pos, func, phase,
                   processed, turn, calls, ran, owed>>

\* TryAdd after a successful TryEnqueue: is there an idle consumer, ...  Nothing
\* orders this load after the release store of the publication, so that it may
\* miss a consumer that has just gone idle.
Wake(x) ==
    /\ pc[x] = "wake"
    /\ Goto(x, Added(x)) \/ (idler # 0 /\ Goto(x, "exchange"))
    /\ UNCHANGED <<ring, wakeup, is_closed, pos, func, phase, processed, turn, calls, ran, owed>>

\* ... has nobody woken it yet, ...
Exchange(x) ==
    /\ pc[x] = "exchange"
    /\ wake_pending' = TRUE
    /\ Goto(x, IF wake_pending THEN Added(x) ELSE "signal")
    /\ UNCHANGED <<ring, pull_sem, idler, is_closed, pos, func, phase, processed, turn, calls, ran, owed>>

\* ... then wake it.
Signal(x) ==
    /\ pc[x] = "signal"
    /\ pull_sem' = pull_sem + 1
    /\ Goto(x, Added(x))
    /\ UNCHANGED <<ring, idler, wake_pending, is_closed, pos, func, phase, processed, turn, calls, ran, owed>>

\* Faulty variant: the closure is given up when the ring is full.
FullGivesUp(x) ==
    /\ pc[x] = "full"
    /\ Goto(x, "ready")
    /\ UNCHANGED <<ring, wakeup, is_closed, pos, func, phase, processed, turn, calls, ran, owed>>

\* Add on a full ring: give up if the queue is closed, else sleep and try again.
\* Await does not look at what Add returned.
Full(x) ==
    /\ pc[x] = "full"
    /\ Goto(x, IF is_closed THEN Added(x) ELSE "load")
    /\ UNCHANGED <<ring, wakeup, is_closed, pos, func, phase, processed, turn, calls, ran, owed>>

\* done_sem, which the closure signals when it has run.
AwaitDone(x) ==
    /\ pc[x] = "wait" /\ Mine(x) \in ran
    /\ Goto(x, "ready")
    /\ UNCHANGED <<ring, wakeup, is_closed, pos, func, phase, processed, turn, calls, ran, owed>>

-----------------------------------------------------------------------------
(* Consumers.                                                              *)

\* c runs: it holds the vCPU or finds it free.
Running(c) == turn \in {c, Free}
Keep(c) == turn' = c
Yield == turn' = Free

\* Faulty variant: no drain behind the outer loop.
TopNotDraining(c) ==
    /\ pc[c] = "top" /\ Running(c) /\ Keep(c)
    /\ phase' = [phase EXCEPT ![c] = IF is_closed THEN "drain" ELSE "batch"]
    /\ processed' = [processed EXCEPT ![c] = 0]
    /\ Goto(c, IF is_closed THEN "none" ELSE "load")
    /\ UNCHANGED <<ring, wakeup, is_closed, pos, func, calls, ran, owed>>

\* The outer loop of Run.
Top(c) ==
    /\ pc[c] = "top" /\ Running(c) /\ Keep(c)
    /\ phase' = [phase EXCEPT ![c] = IF is_closed THEN "drain" ELSE "batch"]
    /\ processed' = [processed EXCEPT ![c] = 0]
    /\ Goto(c, "load")
    /\ UNCHANGED <<ring, wakeup, is_closed, pos, func, calls, ran, owed>>

\* TryDequeue.
DeqLoad(c) ==
    /\ pc[c] = "load" /\ Running(c) /\ Keep(c)
    /\ pos' = [pos EXCEPT ![c] = dequeue_pos]
    /\ Goto(c, "check")
    /\ UNCHANGED <<ring, wakeup, is_closed, func, phase, processed, calls, ran, owed>>

DeqCheck(c) ==
    /\ pc[c] = "check" /\ Running(c) /\ Keep(c)
    /\ LET dif == sequence[Slot(pos[c])] - (pos[c] + 1)
       IN  Goto(c, CASE dif = 0 -> "claim" [] dif < 0 -> "none" [] dif > 0 -> "load")
    /\ UNCHANGED <<ring, wakeup, is_closed, pos, func, phase, processed, calls, ran, owed>>

DeqClaim(c) ==
    /\ pc[c] = "claim" /\ Running(c) /\ Keep(c)
    /\ IF dequeue_pos = pos[c]
       THEN dequeue_pos' = pos[c] + 1 /\ Goto(c, "move")
       ELSE UNCHANGED dequeue_pos /\ Goto(c, "load")
    /\ UNCHANGED <<sequence, storage, enqueue_pos, wakeup, is_closed, pos, func, phase,
                   processed, calls, ran, owed>>

DeqMove(c) ==
    /\ pc[c] = "move" /\ Running(c) /\ Keep(c)
    /\ func' = [func EXCEPT ![c] = storage[Slot(pos[c])]]
    /\ storage' = [storage EXCEPT ![Slot(pos[c])] = Empty]
    /\ Goto(c, "release")
    /\ UNCHANGED <<sequence, enqueue_pos, dequeue_pos, wakeup, is_closed, pos, phase,
                   processed, calls, ran, owed>>

DeqRelease(c) ==
    /\ pc[c] = "release" /\ Running(c) /\ Keep(c)
    /\ sequence' = [sequence EXCEPT ![Slot(pos[c])] = pos[c] + Capacity]
    /\ Goto(c, IF phase[c] = "idle" THEN "idle got" ELSE "run")
    /\ UNCHANGED <<storage, enqueue_pos, dequeue_pos, wakeup, is_closed, pos, func, phase,
                   processed, calls, ran, owed>>

\* Faulty variant: one closure more than kMaxBatch.
RunOneMore(c) ==
    /\ pc[c] = "run" /\ Running(c) /\ Keep(c)
    /\ ran' = ran \cup {func[c]}
    /\ processed' = IF phase[c] = "batch" THEN [processed EXCEPT ![c] = @ + 1] ELSE processed
    /\ Goto(c, CASE phase[c] = "idle"  -> "unidle"
                 [] phase[c] = "drain" -> "load"
                 [] phase[c] = "batch" -> IF processed[c] < MaxBatch THEN "load" ELSE "none")
    /\ UNCHANGED <<ring, wakeup, is_closed, pos, func, phase, calls, owed>>

\* func(): the closure runs to its end, ...
Run(c) ==
    /\ pc[c] = "run" /\ Running(c) /\ Keep(c)
    /\ ran' = ran \cup {func[c]}
    /\ processed' = IF phase[c] = "batch" THEN [processed EXCEPT ![c] = @ + 1] ELSE processed
    /\ Goto(c, CASE phase[c] = "idle"  -> "unidle"
                 [] phase[c] = "drain" -> "load"
                 [] phase[c] = "batch" -> IF processed[c] + 1 < MaxBatch THEN "load" ELSE "none")
    /\ UNCHANGED <<ring, wakeup, is_closed, pos, func, phase, calls, owed>>

\* ... unless it first suspends its fiber, as one that does I/O.
Suspend(c) ==
    /\ pc[c] = "run" /\ turn = c /\ Yield
    /\ UNCHANGED <<ring, wakeup, is_closed, pc, pos, func, phase, processed, calls, ran, owed>>

\* The batch is over: after some work the fiber lets others run and begins anew, ...
BatchDone(c) ==
    /\ pc[c] = "none" /\ phase[c] = "batch" /\ processed[c] # 0 /\ Running(c) /\ Yield
    /\ wake_pending' = FALSE
    /\ Goto(c, "top")
    /\ UNCHANGED <<ring, pull_sem, idler, is_closed, pos, func, phase, processed, calls, ran, owed>>

\* ... after none it goes idle.
BatchEmpty(c) ==
    /\ pc[c] = "none" /\ phase[c] = "batch" /\ processed[c] = 0 /\ Running(c) /\ Yield
    /\ phase' = [phase EXCEPT ![c] = "idle"]
    /\ Goto(c, "idler")
    /\ UNCHANGED <<ring, wakeup, is_closed, pos, func, processed, calls, ran, owed>>

\* Faulty variant: the idle loop does not look at is_closed.
IdleLoopUnending(c) == Goto(c, "load")

\* The condition of the idle loop, up to TryDequeue.
IdleLoop(c) == Goto(c, IF is_closed THEN "unidle" ELSE "load")

\* IdlerGuard's constructor.
EnterIdle(c) ==
    /\ pc[c] = "idler" /\ Running(c) /\ Keep(c)
    /\ idler' = idler + 1
    /\ IdleLoop(c)
    /\ UNCHANGED <<ring, pull_sem, wake_pending, is_closed, pos, func, phase, processed, calls, ran, owed>>

\* Nothing to dequeue: yield a few times (kMaxYieldTurn, kMaxYieldUsec), ...
IdleYield(c) ==
    /\ pc[c] = "none" /\ phase[c] = "idle" /\ Running(c) /\ Yield
    /\ Goto(c, "idle")
    /\ UNCHANGED <<ring, wakeup, is_closed, pos, func, phase, processed, calls, ran, owed>>

IdleAgain(c) ==
    /\ pc[c] = "idle" /\ Running(c) /\ Keep(c)
    /\ IdleLoop(c)
    /\ UNCHANGED <<ring, wakeup, is_closed, pos, func, phase, processed, calls, ran, owed>>

\* ... then take back the wakeup and wait for the next one ...
IdleReset(c) ==
    /\ pc[c] = "none" /\ phase[c] = "idle" /\ Running(c) /\ Keep(c)
    /\ wake_pending' = FALSE
    /\ Goto(c, "sem")
    /\ UNCHANGED <<ring, pull_sem, idler, is_closed, pos, func, phase, processed, calls, ran, owed>>

SemBlock(c) ==
    /\ pc[c] = "sem" /\ Running(c) /\ pull_sem = 0 /\ Yield
    /\ Goto(c, "blocked")
    /\ UNCHANGED <<ring, wakeup, is_closed, pos, func, phase, processed, calls, ran, owed>>

SemTake(c) ==
    /\ pc[c] \in {"sem", "blocked"} /\ Running(c) /\ pull_sem > 0 /\ Keep(c)
    /\ pull_sem' = pull_sem - 1
    /\ IdleLoop(c)
    /\ UNCHANGED <<ring, idler, wake_pending, is_closed, pos, func, phase, processed, calls, ran, owed>>

\* Faulty variant: a wait without a time limit.
SemTimeoutNever(c) == FALSE /\ UNCHANGED vars

\* ... for at most kWaitUsec.
SemTimeout(c) ==
    /\ pc[c] = "blocked" /\ Running(c) /\ Keep(c)
    /\ IdleLoop(c)
    /\ UNCHANGED <<ring, wakeup, is_closed, pos, func, phase, processed, calls, ran, owed>>

\* The closure that ended the idle loop is run, unless the queue has been closed.
IdleGot(c) ==
    /\ pc[c] = "idle got" /\ Running(c) /\ Keep(c)
    /\ IF is_closed THEN UNCHANGED wake_pending /\ Goto(c, "unidle")
                    ELSE wake_pending' = FALSE /\ Goto(c, "run")
    /\ UNCHANGED <<ring, pull_sem, idler, is_closed, pos, func, phase, processed, calls, ran, owed>>

\* IdlerGuard's destructor.
LeaveIdle(c) ==
    /\ pc[c] = "unidle" /\ Running(c) /\ Keep(c)
    /\ idler' = idler - 1
    /\ Goto(c, "top")
    /\ UNCHANGED <<ring, pull_sem, wake_pending, is_closed, pos, func, phase, processed, calls, ran, owed>>

\* The drain loop finds nothing more: Run returns.
Drained(c) ==
    /\ pc[c] = "none" /\ phase[c] = "drain" /\ Running(c) /\ Yield
    /\ Goto(c, "exited")
    /\ UNCHANGED <<ring, wakeup, is_closed, pos, func, phase, processed, calls, ran, owed>>

\* Positions whose closure is in the ring and published.
Published == {p \in dequeue_pos .. enqueue_pos - 1 : sequence[Slot(p)] = p + 1}

\* Faulty variant: Shutdown called from another thread.
ShutdownPreempting ==
    /\ MayShutdown /\ ~is_closed
    /\ is_closed' = TRUE
    /\ pull_sem' = pull_sem + Cardinality(Consumer)
    /\ owed' = {storage[Slot(p)] : p \in Published}
    /\ UNCHANGED <<ring, idler, wake_pending, pc, pos, func, phase, processed, turn, calls, ran>>

\* Shutdown, up to the join.
Shutdown ==
    /\ MayShutdown /\ ~is_closed /\ turn = Free
    /\ is_closed' = TRUE
    /\ pull_sem' = pull_sem + Cardinality(Consumer)
    /\ owed' = {storage[Slot(p)] : p \in Published}
    /\ UNCHANGED <<ring, idler, wake_pending, pc, pos, func, phase, processed, turn, calls, ran>>

-----------------------------------------------------------------------------
Enqueue(x) == EnqLoad(x) \/ EnqCheck(x) \/ EnqClaim(x) \/ EnqWrite(x) \/ EnqPublish(x)
Produce(x) == Enqueue(x) \/ Wake(x) \/ Exchange(x) \/ Signal(x) \/ Full(x) \/ AwaitDone(x)

Dequeue(c) == DeqLoad(c) \/ DeqCheck(c) \/ DeqClaim(c) \/ DeqMove(c) \/ DeqRelease(c)
Idle(c) == \/ EnterIdle(c) \/ IdleYield(c) \/ IdleAgain(c) \/ IdleReset(c)
           \/ SemBlock(c) \/ SemTake(c) \/ SemTimeout(c) \/ IdleGot(c) \/ LeaveIdle(c)
Consume(c) == Top(c) \/ Dequeue(c) \/ Run(c) \/ Suspend(c) \/ BatchDone(c) \/ BatchEmpty(c)
              \/ Idle(c) \/ Drained(c)

Next == \/ \E x \in Producer : Submit(x) \/ Produce(x)
        \/ \E c \in Consumer : Consume(c)
        \/ Shutdown

Spec == Init /\ [][Next]_vars

\* Threads that can go on do, and the timed wait of a consumer ends; nobody has
\* to call Add, Await or Shutdown.
FairSpec == /\ Spec
            /\ \A x \in Producer : WF_vars(Produce(x))
            /\ \A c \in Consumer : WF_vars(Consume(c))

-----------------------------------------------------------------------------
(* Properties.                                                             *)

Labels == {"ready", "load", "check", "claim", "write", "publish", "wake", "exchange", "signal",
           "full", "wait", "top", "move", "release", "run", "none", "idler", "idle", "sem",
           "blocked", "idle got", "unidle", "exited"}

RingType ==
    /\ sequence \in [0 .. Capacity - 1 -> Nat]
    /\ storage \in [0 .. Capacity - 1 -> Closure \cup {Empty}]
    /\ enqueue_pos \in Nat /\ dequeue_pos \in Nat
WakeupType ==
    /\ pull_sem \in Nat /\ idler \in Int
    /\ wake_pending \in BOOLEAN /\ is_closed \in BOOLEAN
ThreadType ==
    /\ pc \in [Thread -> Labels]
    /\ pos \in [Thread -> Nat]
    /\ func \in [Consumer -> Closure \cup {Empty}]
    /\ phase \in [Consumer -> {"batch", "idle", "drain"}]
    /\ processed \in [Consumer -> 0 .. MaxBatch]
    /\ turn \in Consumer \cup {Free}
    /\ calls \in [Producer -> 0 .. MaxCalls]
    /\ ran \subseteq Closure \cup {Empty} /\ owed \subseteq Closure \cup {Empty}

\* The variables keep their types; in particular a batch never exceeds kMaxBatch.
TypeOK == RingType /\ WakeupType /\ ThreadType

\* Threads inside a slot: a producer between its claim and its publication, a
\* consumer between its claim and its release.
Inside(t) == pc[t] \in IF t \in Producer THEN {"write", "publish"} ELSE {"move", "release"}

\* No slot is used by two threads at once; a closure is never built over one
\* that is still there, and never moved out of a slot that holds none.
NoSlotClash ==
    /\ \A t, u \in Thread : t # u /\ Inside(t) /\ Inside(u) => Slot(pos[t]) # Slot(pos[u])
    /\ \A x \in Producer : pc[x] = "write" => storage[Slot(pos[x])] = Empty
    /\ \A c \in Consumer : pc[c] = "move" => storage[Slot(pos[c])] # Empty

\* The closure at ring position p, which its producer may not have written yet.
ClosureAt(p) ==
    IF \E x \in Producer : pc[x] = "write" /\ pos[x] = p
    THEN Mine(CHOOSE x \in Producer : pc[x] = "write" /\ pos[x] = p)
    ELSE storage[Slot(p)]

\* The closure a consumer has claimed and not yet run.
InHand(c) == CASE pc[c] = "move"                           -> {storage[Slot(pos[c])]}
               [] pc[c] \in {"release", "idle got", "run"} -> {func[c]}
               [] OTHER                                    -> {}

\* The ring is a bounded FIFO channel: closures leave in the order of the
\* claims, none is lost, duplicated or dropped after it was taken out.
Channel == INSTANCE TaskChannel WITH
    Closure <- Producer \X (1 .. MaxCalls),
    Bound   <- Capacity,
    pending <- [i \in 1 .. enqueue_pos - dequeue_pos |-> ClosureAt(dequeue_pos + i - 1)],
    taken   <- UNION {InHand(c) : c \in Consumer},
    done    <- ran
ImplementsChannel == Channel!CSpec

\* Every Add and every Await returns, although the ring may be full again and
\* again and wakeups are coalesced.
CallsReturn == \A x \in Producer : pc[x] # "ready" ~> pc[x] = "ready"

\* Every closure submitted is run.
ClosuresRun == \A x \in Producer, n \in 1 .. MaxCalls : calls[x] >= n ~> <<x, n>> \in ran

\* Shutdown's join returns: all consumers leave Run.
ShutdownEnds == is_closed ~> \A c \in Consumer : pc[c] = "exited"

\* Shutdown drains the queue: when the consumers are gone, every closure that
\* was in the ring when it was closed has been run.  The code achieves this for
\* one producer; with several, the drain stops in front of a position that one
\* of them has claimed and not yet published.
ShutdownDrains == (\A c \in Consumer : pc[c] = "exited") => owed \subseteq ran
=============================================================================
