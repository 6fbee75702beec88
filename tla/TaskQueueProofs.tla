-------------------------- MODULE TaskQueueProofs --------------------------
(***************************************************************************)
(* For every number of producers and consumers and every capacity of two   *)
(* or more: the variables of a TaskQueue keep their types, no two threads  *)
(* are ever in the same slot, and the ring is a bounded FIFO channel; and  *)
(* Shutdown drains the queue of a single producer.                         *)
(***************************************************************************)
EXTENDS TaskQueue, TLAPS

-----------------------------------------------------------------------------
(* Types.  What they take beyond themselves is that a batch is not overrun. *)

\* A consumer that may still run a closure of its batch has not filled it.
BatchOpen ==
    \A c \in Consumer :
        phase[c] = "batch" /\ pc[c] \in {"load", "check", "claim", "move", "release", "run"}
            => processed[c] < MaxBatch

\* The idle phase is the idle phase.
IdlePhase ==
    \A c \in Consumer :
        pc[c] \in {"idler", "idle", "sem", "blocked", "idle got", "unidle"} => phase[c] = "idle"

\* pos & buffer_mask is an index of the buffer.
LEMMA SlotType == ASSUME NEW p \in Nat PROVE Slot(p) \in 0 .. Capacity - 1
BY CapacityAssumption DEF Slot

\* Moving one thread's program counter leaves the others where they are.
LEMMA GotoOne ==
    ASSUME TypeOK, NEW t \in Thread, NEW l, Goto(t, l)
    PROVE  pc'[t] = l /\ \A u \in Thread : u # t => pc'[u] = pc[u]
BY Zenon DEF TypeOK, RingType, ThreadType, Goto

\* Producers and consumers are different threads.
LEMMA Disjoint ==
    /\ Producer \subseteq Thread /\ Consumer \subseteq Thread
    /\ \A x \in Producer, c \in Consumer : x # c
BY ThreadAssumption, Zenon DEF Thread

-----------------------------------------------------------------------------
(* Types.                                                                  *)

\* The initial state has the types, and no batch has begun.
LEMMA TypeInit == ASSUME Init PROVE TypeOK /\ BatchOpen /\ IdlePhase
<1>1. RingType
    BY CapacityAssumption DEF Init, RingType
<1>2. WakeupType
  <2>1. wake_pending \in BOOLEAN /\ is_closed \in BOOLEAN
    BY Zenon DEF Init
  <2> QED BY <2>1 DEF Init, WakeupType
<1>3. ThreadType
    BY BatchAssumption, CallsAssumption DEF Init, ThreadType, Labels
<1>4. BatchOpen
    BY BatchAssumption DEF Init, BatchOpen
<1>5. IdlePhase
    BY Disjoint, Zenon DEF Init, IdlePhase
<1> QED BY <1>1, <1>2, <1>3, <1>4, <1>5, Zenon DEF TypeOK

\* A thread's next statement is a statement.
LEMMA GotoType ==
    ASSUME ThreadType, NEW t \in Thread, NEW l \in Labels, Goto(t, l)
    PROVE  pc' \in [Thread -> Labels]
BY Zenon DEF ThreadType, Goto

\* A producer's step keeps the types.
LEMMA ProducerType ==
    ASSUME TypeOK, NEW x \in Producer, Submit(x) \/ Produce(x)
    PROVE  TypeOK'
<1> USE Disjoint
<1>1. CASE Submit(x)
  <2>1. PICK l \in Labels : Goto(x, l)
    BY <1>1, ZenonT(30) DEF Submit, Labels
  <2>2. pc' \in [Thread -> Labels] /\ calls' \in [Producer -> 0 .. MaxCalls]
    BY <1>1, <2>1, GotoType, CallsAssumption DEF TypeOK, ThreadType, Submit
  <2> QED BY <1>1, <2>2, Zenon DEF TypeOK, RingType, WakeupType, ThreadType, Submit, ring, wakeup
<1>2. CASE EnqLoad(x)
  <2>1. PICK l \in Labels : Goto(x, l)
    BY <1>2, ZenonT(30) DEF EnqLoad, Labels
  <2>2. pc' \in [Thread -> Labels] /\ pos' \in [Thread -> Nat]
    BY <1>2, <2>1, GotoType, Zenon DEF TypeOK, RingType, ThreadType, EnqLoad
  <2> QED BY <1>2, <2>2, Zenon DEF TypeOK, RingType, WakeupType, ThreadType, EnqLoad, ring, wakeup
<1>3. CASE EnqCheck(x)
  <2>1. sequence[Slot(pos[x])] \in Nat /\ pos[x] \in Nat
    BY SlotType, Zenon DEF TypeOK, RingType, ThreadType
  <2> DEFINE dif == sequence[Slot(pos[x])] - pos[x]
             l == CASE dif = 0 -> "claim" [] dif < 0 -> "full" [] dif > 0 -> "load"
  <2>2. Goto(x, l)
    BY <1>3, Zenon DEF EnqCheck
  <2>3. l \in Labels
    <3>1. l \in {"claim", "full", "load"}
      BY <2>1
    <3> HIDE DEF l
    <3> QED BY <3>1, Zenon DEF Labels
  <2> HIDE DEF l
  <2>4. pc' \in [Thread -> Labels]
    BY <2>2, <2>3, GotoType, Zenon DEF TypeOK
  <2> QED BY <1>3, <2>4, Zenon DEF TypeOK, RingType, WakeupType, ThreadType, EnqCheck, ring, wakeup
<1>4. CASE EnqClaim(x)
  <2>1. PICK l \in Labels : Goto(x, l)
    BY <1>4, ZenonT(30) DEF EnqClaim, Labels
  <2>2. pc' \in [Thread -> Labels] /\ enqueue_pos' \in Nat
    BY <1>4, <2>1, GotoType, SMTT(30) DEF TypeOK, RingType, ThreadType, EnqClaim
  <2> QED BY <1>4, <2>2, Zenon DEF TypeOK, RingType, WakeupType, ThreadType, EnqClaim, wakeup
<1>5. CASE EnqWrite(x)
  <2>1. Mine(x) \in Closure
    BY SMTT(30) DEF TypeOK, ThreadType, Mine, Closure
  <2>2. storage' \in [0 .. Capacity - 1 -> Closure \cup {Empty}]
    BY <1>5, <2>1, ZenonT(30) DEF TypeOK, RingType, EnqWrite
  <2>3. pc' \in [Thread -> Labels]
    BY <1>5, GotoType, Zenon DEF TypeOK, EnqWrite, Labels
  <2> QED BY <1>5, <2>2, <2>3, Zenon DEF TypeOK, RingType, WakeupType, ThreadType, EnqWrite, wakeup
<1>6. CASE EnqPublish(x)
  <2>1. sequence' \in [0 .. Capacity - 1 -> Nat]
    <3>1. pos[x] + 1 \in Nat /\ sequence \in [0 .. Capacity - 1 -> Nat]
      BY SMTT(30) DEF TypeOK, RingType, ThreadType
    <3> QED BY <1>6, <3>1, Zenon DEF EnqPublish
  <2>2. pc' \in [Thread -> Labels]
    BY <1>6, GotoType, Zenon DEF TypeOK, EnqPublish, Labels
  <2> QED BY <1>6, <2>1, <2>2, Zenon DEF TypeOK, RingType, WakeupType, ThreadType, EnqPublish, wakeup
<1>7. CASE Wake(x) \/ Exchange(x) \/ Signal(x) \/ Full(x) \/ AwaitDone(x)
  <2>1. PICK l \in Labels : Goto(x, l)
    BY <1>7, Zenon DEF Wake, Exchange, Signal, Full, AwaitDone, Added, Labels
  <2>2. pc' \in [Thread -> Labels]
    BY <2>1, GotoType, Zenon DEF TypeOK
  <2>3. RingType'
    BY <1>7, Zenon DEF Wake, Exchange, Signal, Full, AwaitDone, TypeOK, RingType, ring
  <2>4. ThreadType'
    BY <1>7, <2>2, Zenon DEF Wake, Exchange, Signal, Full, AwaitDone, TypeOK, ThreadType
  <2>5. WakeupType'
    <3>1. wake_pending' \in BOOLEAN /\ is_closed' \in BOOLEAN /\ idler' = idler
      BY <1>7, Zenon DEF Wake, Exchange, Signal, Full, AwaitDone, TypeOK, WakeupType, wakeup
    <3>2. pull_sem' \in Nat
      BY <1>7 DEF Wake, Exchange, Signal, Full, AwaitDone, TypeOK, WakeupType, wakeup
    <3> QED BY <3>1, <3>2, Zenon DEF TypeOK, WakeupType
  <2> QED BY <2>3, <2>4, <2>5, Zenon DEF TypeOK
<1> QED BY <1>1, <1>2, <1>3, <1>4, <1>5, <1>6, <1>7, Zenon DEF Produce, Enqueue

\* The steps of a consumer move it to a statement.
LEMMA ConsumerGoto ==
    ASSUME TypeOK, NEW c \in Consumer, Consume(c), ~Suspend(c)
    PROVE  pc' \in [Thread -> Labels]
<1> USE Disjoint
<1>1. ASSUME NEW l \in Labels, Goto(c, l) PROVE pc' \in [Thread -> Labels]
    BY <1>1, GotoType, Zenon DEF TypeOK
<1>2. IdleLoop(c) => pc' \in [Thread -> Labels]
  <2>1. IdleLoop(c) => Goto(c, "unidle") \/ Goto(c, "load")
    BY Zenon DEF IdleLoop
  <2> QED BY <1>1, <2>1, Zenon DEF Labels
<1>3. CASE Top(c) \/ DeqLoad(c) \/ DeqMove(c) \/ BatchDone(c) \/ BatchEmpty(c) \/ Drained(c)
    BY <1>1, <1>3, Zenon DEF Top, DeqLoad, DeqMove, BatchDone, BatchEmpty, Drained, Labels
<1>4. CASE DeqCheck(c)
  <2>1. sequence[Slot(pos[c])] \in Nat /\ pos[c] \in Nat
    BY SlotType, Zenon DEF TypeOK, RingType, ThreadType
  <2> DEFINE dif == sequence[Slot(pos[c])] - (pos[c] + 1)
             l == CASE dif = 0 -> "claim" [] dif < 0 -> "none" [] dif > 0 -> "load"
  <2>2. Goto(c, l)
    BY <1>4, Zenon DEF DeqCheck
  <2>3. l \in {"claim", "none", "load"}
    BY <2>1
  <2> HIDE DEF l
  <2> QED BY <1>1, <2>2, <2>3, ZenonT(30) DEF Labels
<1>5. CASE DeqClaim(c)
  <2>1. Goto(c, "move") \/ Goto(c, "load")
    BY <1>5, Zenon DEF DeqClaim
  <2> QED BY <1>1, <2>1, ZenonT(30) DEF Labels
<1>6. CASE DeqRelease(c)
  <2>1. Goto(c, "idle got") \/ Goto(c, "run")
    BY <1>6, Zenon DEF DeqRelease
  <2> QED BY <1>1, <2>1, ZenonT(30) DEF Labels
<1>7. CASE Run(c)
  <2>1. phase[c] \in {"batch", "idle", "drain"}
    BY Zenon DEF TypeOK, ThreadType
  <2>2. CASE phase[c] = "batch"
    <3>1. Goto(c, "load") \/ Goto(c, "none")
      BY <1>7, <2>2, Zenon DEF Run
    <3> QED BY <1>1, <3>1, Zenon DEF Labels
  <2>3. CASE phase[c] = "idle"
    <3>1. Goto(c, "unidle")
      BY <1>7, <2>3, Zenon DEF Run
    <3> QED BY <1>1, <3>1, Zenon DEF Labels
  <2>4. CASE phase[c] = "drain"
    <3>1. Goto(c, "load")
      BY <1>7, <2>4, Zenon DEF Run
    <3> QED BY <1>1, <3>1, Zenon DEF Labels
  <2> QED BY <2>1, <2>2, <2>3, <2>4, Zenon
<1>8. CASE EnterIdle(c) \/ IdleAgain(c) \/ SemTake(c) \/ SemTimeout(c)
    BY <1>2, <1>8, Zenon DEF EnterIdle, IdleAgain, SemTake, SemTimeout
<1>9. CASE IdleYield(c) \/ IdleReset(c) \/ SemBlock(c) \/ LeaveIdle(c)
    BY <1>1, <1>9, Zenon DEF IdleYield, IdleReset, SemBlock, LeaveIdle, Labels
<1>10. CASE IdleGot(c)
  <2>1. Goto(c, "unidle") \/ Goto(c, "run")
    BY <1>10, Zenon DEF IdleGot
  <2> QED BY <1>1, <2>1, Zenon DEF Labels
<1> QED BY <1>3, <1>4, <1>5, <1>6, <1>7, <1>8, <1>9, <1>10, Zenon DEF Consume, Dequeue, Idle

\* A consumer's step keeps the types of its own variables.
LEMMA ConsumerThreadType ==
    ASSUME TypeOK, BatchOpen, NEW c \in Consumer, Consume(c)
    PROVE  ThreadType'
<1>1. pc' \in [Thread -> Labels]
    BY ConsumerGoto, Zenon DEF Suspend, TypeOK, ThreadType
<1>2. turn' \in Consumer \cup {Free}
  <2>1. turn' = c \/ turn' = Free
    BY ZenonT(30) DEF Consume, Top, Dequeue, DeqLoad, DeqCheck, DeqClaim, DeqMove, DeqRelease, Run, Suspend,
           BatchDone, BatchEmpty, Idle, EnterIdle, IdleYield, IdleAgain, IdleReset, SemBlock,
           SemTake, SemTimeout, IdleGot, LeaveIdle, Drained, Keep, Yield
  <2> QED BY <2>1, Zenon
<1>3. calls' = calls /\ owed' = owed
    BY ZenonT(30) DEF Consume, Top, Dequeue, DeqLoad, DeqCheck, DeqClaim, DeqMove, DeqRelease, Run, Suspend,
           BatchDone, BatchEmpty, Idle, EnterIdle, IdleYield, IdleAgain, IdleReset, SemBlock,
           SemTake, SemTimeout, IdleGot, LeaveIdle, Drained
<1>4. CASE Top(c)
  <2>1. /\ phase' \in [Consumer -> {"batch", "idle", "drain"}]
        /\ processed' \in [Consumer -> 0 .. MaxBatch]
    BY <1>4, BatchAssumption DEF Top, TypeOK, ThreadType
  <2> QED BY <1>1, <1>2, <1>3, <1>4, <2>1, Zenon DEF Top, TypeOK, ThreadType
<1>5. CASE DeqLoad(c)
  <2>1. pos' \in [Thread -> Nat]
    BY <1>5, Disjoint, Zenon DEF DeqLoad, TypeOK, RingType, ThreadType
  <2> QED BY <1>1, <1>2, <1>3, <1>5, <2>1, Zenon DEF DeqLoad, TypeOK, ThreadType
<1>6. CASE DeqMove(c)
  <2>1. storage[Slot(pos[c])] \in Closure \cup {Empty}
    BY SlotType, Disjoint, Zenon DEF TypeOK, RingType, ThreadType
  <2>2. func' \in [Consumer -> Closure \cup {Empty}]
    BY <1>6, <2>1, Zenon DEF DeqMove, TypeOK, ThreadType
  <2> QED BY <1>1, <1>2, <1>3, <1>6, <2>2, Zenon DEF DeqMove, TypeOK, ThreadType
<1>7. CASE Run(c)
  <2>1. processed' \in [Consumer -> 0 .. MaxBatch]
    BY <1>7, BatchAssumption DEF Run, BatchOpen, TypeOK, ThreadType
  <2>2. ran' \subseteq Closure \cup {Empty}
    BY <1>7, Zenon DEF Run, TypeOK, ThreadType
  <2> QED BY <1>1, <1>2, <1>3, <1>7, <2>1, <2>2, Zenon DEF Run, TypeOK, ThreadType
<1>8. CASE BatchEmpty(c)
  <2>1. phase' \in [Consumer -> {"batch", "idle", "drain"}]
    BY <1>8, Zenon DEF BatchEmpty, TypeOK, ThreadType
  <2> QED BY <1>1, <1>2, <1>3, <1>8, <2>1, Zenon DEF BatchEmpty, TypeOK, ThreadType
<1>9. CASE \/ DeqCheck(c) \/ DeqClaim(c) \/ DeqRelease(c) \/ Suspend(c) \/ BatchDone(c)
           \/ Idle(c) \/ Drained(c)
  <2>1. UNCHANGED <<pos, func, phase, processed, ran>>
    BY <1>9, Zenon DEF DeqCheck, DeqClaim, DeqRelease, Suspend, BatchDone, Idle, EnterIdle, IdleYield,
           IdleAgain, IdleReset, SemBlock, SemTake, SemTimeout, IdleGot, LeaveIdle, Drained
  <2> QED BY <1>1, <1>2, <1>3, <2>1, Zenon DEF TypeOK, ThreadType
<1> QED BY <1>4, <1>5, <1>6, <1>7, <1>8, <1>9, Zenon DEF Consume, Dequeue

\* A consumer's step keeps the types of the ring.
LEMMA ConsumerRingType ==
    ASSUME TypeOK, NEW c \in Consumer, Consume(c)
    PROVE  RingType'
<1>1. CASE DeqClaim(c)
    BY <1>1, Disjoint, SMTT(30) DEF DeqClaim, TypeOK, RingType, ThreadType
<1>2. CASE DeqMove(c)
    BY <1>2, ZenonT(30) DEF DeqMove, TypeOK, RingType
<1>3. CASE DeqRelease(c)
  <2>1. pos[c] + Capacity \in Nat
    BY CapacityAssumption, Disjoint DEF TypeOK, ThreadType
  <2> QED BY <1>3, <2>1, ZenonT(30) DEF DeqRelease, TypeOK, RingType
<1>4. CASE ~(DeqClaim(c) \/ DeqMove(c) \/ DeqRelease(c))
  <2>1. UNCHANGED ring
    BY <1>4, Zenon DEF Consume, Top, Dequeue, DeqLoad, DeqCheck, Run, Suspend, BatchDone, BatchEmpty, Idle,
           EnterIdle, IdleYield, IdleAgain, IdleReset, SemBlock, SemTake, SemTimeout, IdleGot,
           LeaveIdle, Drained
  <2> QED BY <2>1, Zenon DEF TypeOK, RingType, ring
<1> QED BY <1>1, <1>2, <1>3, <1>4, Zenon

\* A consumer's step keeps the types of the wakeup variables.
LEMMA ConsumerWakeupType ==
    ASSUME TypeOK, NEW c \in Consumer, Consume(c)
    PROVE  WakeupType'
<1>1. is_closed' = is_closed
    BY Zenon DEF Consume, Top, Dequeue, DeqLoad, DeqCheck, DeqClaim, DeqMove, DeqRelease, Run, Suspend,
           BatchDone, BatchEmpty, Idle, EnterIdle, IdleYield, IdleAgain, IdleReset, SemBlock,
           SemTake, SemTimeout, IdleGot, LeaveIdle, Drained
<1>2. wake_pending' = wake_pending \/ wake_pending' = FALSE
    BY Zenon DEF Consume, Top, Dequeue, DeqLoad, DeqCheck, DeqClaim, DeqMove, DeqRelease, Run,
           Suspend, BatchDone, BatchEmpty, Idle, EnterIdle, IdleYield, IdleAgain, IdleReset,
           SemBlock, SemTake, SemTimeout, IdleGot, LeaveIdle, Drained, wakeup
<1>3. wake_pending' \in BOOLEAN /\ is_closed' \in BOOLEAN
    BY <1>1, <1>2, Zenon DEF TypeOK, WakeupType
<1>4. pull_sem' \in Nat /\ idler' \in Int
  <2>1. CASE EnterIdle(c) \/ SemTake(c) \/ LeaveIdle(c)
    BY <2>1 DEF EnterIdle, SemTake, LeaveIdle, TypeOK, WakeupType
  <2>2. CASE ~(EnterIdle(c) \/ SemTake(c) \/ LeaveIdle(c))
    <3>1. pull_sem' = pull_sem /\ idler' = idler
      BY <2>2, Zenon DEF Consume, Top, Dequeue, DeqLoad, DeqCheck, DeqClaim, DeqMove, DeqRelease, Run,
             Suspend, BatchDone, BatchEmpty, Idle, IdleYield, IdleAgain, IdleReset, SemBlock,
             SemTimeout, IdleGot, Drained, wakeup
    <3> QED BY <3>1, Zenon DEF TypeOK, WakeupType
  <2> QED BY <2>1, <2>2, Zenon
<1> QED BY <1>3, <1>4, Zenon DEF WakeupType

\* Closing the queue keeps the types.
LEMMA ShutdownType == ASSUME TypeOK, Shutdown PROVE TypeOK'
<1>1. owed' \subseteq Closure \cup {Empty}
  <2>1. \A p \in Published : storage[Slot(p)] \in Closure \cup {Empty}
    <3>1. Published \subseteq Nat
      BY DEF Published, TypeOK, RingType
    <3>2. storage \in [0 .. Capacity - 1 -> Closure \cup {Empty}]
      BY Zenon DEF TypeOK, RingType
    <3> QED BY <3>1, <3>2, SlotType, Zenon
  <2> QED BY <2>1, Zenon DEF Shutdown
<1>2. pull_sem' \in Nat
    BY ConsumerAssumption DEF Shutdown, TypeOK, WakeupType
<1>3. is_closed' \in BOOLEAN /\ wake_pending' \in BOOLEAN /\ idler' = idler
    BY Zenon DEF Shutdown, TypeOK, WakeupType
<1>4. RingType'
    BY Zenon DEF Shutdown, TypeOK, RingType, ring
<1>5. ThreadType'
    BY <1>1, Zenon DEF Shutdown, TypeOK, ThreadType
<1> QED BY <1>2, <1>3, <1>4, <1>5, Zenon DEF TypeOK, WakeupType

\* A consumer does not run more than its batch, nor idle outside the idle phase.
LEMMA BatchStep ==
    ASSUME TypeOK, BatchOpen, IdlePhase, [Next]_vars
    PROVE  BatchOpen' /\ IdlePhase'
<1>1. ASSUME UNCHANGED <<phase, processed>>, \A d \in Consumer : pc'[d] = pc[d]
      PROVE  BatchOpen' /\ IdlePhase'
    BY <1>1, Zenon DEF BatchOpen, IdlePhase
<1>2. ASSUME NEW x \in Producer, Submit(x) \/ Produce(x) PROVE BatchOpen' /\ IdlePhase'
  <2>1. \E l : Goto(x, l)
    BY <1>2, Zenon DEF Submit, Produce, Enqueue, EnqLoad, EnqCheck, EnqClaim, EnqWrite, EnqPublish, Wake,
           Exchange, Signal, Full, AwaitDone
  <2>2. \A d \in Consumer : pc'[d] = pc[d]
    BY <2>1, GotoOne, Disjoint, Zenon
  <2>3. UNCHANGED <<phase, processed>>
    BY <1>2, Zenon DEF Submit, Produce, Enqueue, EnqLoad, EnqCheck, EnqClaim, EnqWrite, EnqPublish, Wake,
           Exchange, Signal, Full, AwaitDone
  <2> QED BY <1>1, <2>2, <2>3, Zenon
<1>3. ASSUME NEW c \in Consumer, Consume(c) PROVE BatchOpen' /\ IdlePhase'
  <2> DEFINE Active == {"load", "check", "claim", "move", "release", "run"}
             Idling == {"idler", "idle", "sem", "blocked", "idle got", "unidle"}
  <2>1. ASSUME \A d \in Consumer : d # c =>
                  pc'[d] = pc[d] /\ phase'[d] = phase[d] /\ processed'[d] = processed[d],
               phase'[c] = "batch" /\ pc'[c] \in Active => processed'[c] < MaxBatch,
               pc'[c] \in Idling => phase'[c] = "idle"
        PROVE  BatchOpen' /\ IdlePhase'
    BY <2>1, Zenon DEF BatchOpen, IdlePhase
  <2>2. ASSUME NEW l, Goto(c, l)
        PROVE  pc'[c] = l /\ \A d \in Consumer : d # c => pc'[d] = pc[d]
    BY <2>2, GotoOne, Disjoint, Zenon
  <2>3. ASSUME UNCHANGED <<phase, processed>>, NEW l, Goto(c, l),
               phase[c] = "batch" /\ l \in Active => pc[c] \in Active,
               l \in Idling => phase[c] = "idle"
        PROVE  BatchOpen' /\ IdlePhase'
    <3>1. phase[c] = "batch" /\ pc[c] \in Active => processed[c] < MaxBatch
      BY Zenon DEF BatchOpen
    <3> QED BY <2>1, <2>2, <2>3, <3>1, ZenonT(30)
  <2>4. CASE Top(c)
    <3>1. /\ pc'[c] = "load" /\ processed'[c] = 0
          /\ \A d \in Consumer : d # c =>
                pc'[d] = pc[d] /\ phase'[d] = phase[d] /\ processed'[d] = processed[d]
      BY <2>2, <2>4, Zenon DEF Top, TypeOK, ThreadType
    <3> QED BY <2>1, <3>1, BatchAssumption
  <2>5. CASE DeqLoad(c) \/ DeqMove(c) \/ BatchDone(c) \/ Drained(c)
    BY <2>3, <2>5, ZenonT(30) DEF DeqLoad, DeqMove, BatchDone, Drained
  <2>6. CASE DeqCheck(c)
    <3>1. \E l : Goto(c, l) /\ l \notin Idling
      <4>1. sequence[Slot(pos[c])] \in Nat /\ pos[c] \in Nat
        BY SlotType, Disjoint, Zenon DEF TypeOK, RingType, ThreadType
      <4> DEFINE dif == sequence[Slot(pos[c])] - (pos[c] + 1)
                 l == CASE dif = 0 -> "claim" [] dif < 0 -> "none" [] dif > 0 -> "load"
      <4>2. Goto(c, l)
        BY <2>6, ZenonT(30) DEF DeqCheck
      <4>3. l \in {"claim", "none", "load"}
        BY <4>1
      <4> HIDE DEF l
      <4> QED BY <4>2, <4>3, ZenonT(30)
    <3>2. pc[c] \in Active /\ UNCHANGED <<phase, processed>>
      BY <2>6, Zenon DEF DeqCheck
    <3> QED BY <2>3, <3>1, <3>2, Zenon
  <2>7. CASE DeqClaim(c)
    <3>1. pc[c] \in Active /\ UNCHANGED <<phase, processed>> /\ (Goto(c, "move") \/ Goto(c, "load"))
      BY <2>7, ZenonT(30) DEF DeqClaim
    <3> QED BY <2>3, <3>1, ZenonT(30)
  <2>8. CASE DeqRelease(c)
    <3>1. /\ pc[c] \in Active /\ UNCHANGED <<phase, processed>>
          /\ (phase[c] = "idle" /\ Goto(c, "idle got")) \/ Goto(c, "run")
      BY <2>8, Zenon DEF DeqRelease
    <3> QED BY <2>3, <3>1, ZenonT(30)
  <2>9. CASE Run(c)
    <3>1. /\ phase' = phase /\ phase[c] \in {"batch", "idle", "drain"}
          /\ processed[c] \in Nat /\ MaxBatch \in Nat
      BY <2>9, BatchAssumption DEF Run, TypeOK, ThreadType
    <3>2. \A d \in Consumer : d # c => processed'[d] = processed[d]
      BY <2>9, Zenon DEF Run, TypeOK, ThreadType
    <3>3. CASE phase[c] = "batch"
      <4>1. /\ processed'[c] = processed[c] + 1
            /\ \/ processed[c] + 1 < MaxBatch /\ Goto(c, "load")
               \/ Goto(c, "none")
        BY <2>9, <3>3, Zenon DEF Run, TypeOK, ThreadType
      <4>2. \A d \in Consumer : d # c => pc'[d] = pc[d]
        BY <2>2, <4>1, Zenon
      <4>3. CASE processed[c] + 1 < MaxBatch /\ Goto(c, "load")
        <5>1. pc'[c] = "load" /\ processed'[c] < MaxBatch
          BY <2>2, <4>1, <4>3, Zenon
        <5> QED BY <2>1, <3>1, <3>2, <4>2, <5>1, Zenon
      <4>4. CASE Goto(c, "none")
        <5>1. pc'[c] = "none"
          BY <2>2, <4>4, Zenon
        <5> QED BY <2>1, <3>1, <3>2, <4>2, <5>1, Zenon
      <4> QED BY <4>1, <4>3, <4>4, Zenon
    <3>4. CASE phase[c] # "batch"
      <4>1. Goto(c, "load") \/ (phase[c] = "idle" /\ Goto(c, "unidle"))
        BY <2>9, <3>1, <3>4, Zenon DEF Run
      <4>2. \A d \in Consumer : d # c => pc'[d] = pc[d]
        BY <2>2, <4>1, Zenon
      <4>3. pc'[c] = "load" \/ (phase[c] = "idle" /\ pc'[c] = "unidle")
        BY <2>2, <4>1, Zenon
      <4> QED BY <2>1, <3>1, <3>2, <3>4, <4>2, <4>3, Zenon
    <3> QED BY <3>3, <3>4, Zenon
  <2>10. CASE Suspend(c)
    BY <2>10, <1>1, Zenon DEF Suspend
  <2>11. CASE BatchEmpty(c)
    <3>1. /\ pc'[c] = "idler" /\ phase'[c] = "idle" /\ processed' = processed
          /\ \A d \in Consumer : d # c => pc'[d] = pc[d] /\ phase'[d] = phase[d]
      BY <2>2, <2>11, Zenon DEF BatchEmpty, TypeOK, ThreadType
    <3> QED BY <2>1, <3>1, Zenon
  <2>12. CASE Idle(c)
    <3>1. phase[c] = "idle" /\ UNCHANGED <<phase, processed>>
      BY <2>12, Zenon DEF Idle, EnterIdle, IdleYield, IdleAgain, IdleReset, SemBlock, SemTake, SemTimeout,
             IdleGot, LeaveIdle, IdlePhase
    <3>2. IdleLoop(c) => \E l : Goto(c, l)
      BY Zenon DEF IdleLoop
    <3>3. IdleGot(c) => \E l : Goto(c, l)
      BY Zenon DEF IdleGot
    <3>4. \E l : Goto(c, l)
      BY <2>12, <3>2, <3>3, ZenonT(30) DEF Idle, EnterIdle, IdleYield, IdleAgain, IdleReset, SemBlock, SemTake,
             SemTimeout, LeaveIdle
    <3> QED BY <2>3, <3>1, <3>4, Zenon
  <2> QED BY <1>3, <2>4, <2>5, <2>6, <2>7, <2>8, <2>9, <2>10, <2>11, <2>12, Zenon DEF Consume, Dequeue
<1>4. CASE Shutdown
    BY <1>1, <1>4, Zenon DEF Shutdown
<1>5. CASE UNCHANGED vars
    BY <1>1, <1>5, Zenon DEF vars
<1> QED BY <1>2, <1>3, <1>4, <1>5, Zenon DEF Next

-----------------------------------------------------------------------------
(* The inductive invariant.                                                *)

\* A producer between its claim and its publication, a consumer between its
\* claim and its release.
Writing(x) == pc[x] \in {"write", "publish"}
Reading(c) == pc[c] \in {"move", "release"}

\* The positions of the ring: [dequeue_pos, enqueue_pos) are filled or being
\* filled, [enqueue_pos, dequeue_pos + Capacity) are vacant or being vacated.
Window == dequeue_pos <= enqueue_pos /\ enqueue_pos <= dequeue_pos + Capacity

\* What a producer in a slot finds there.
Writers ==
    \A x \in Producer : Writing(x) =>
        /\ dequeue_pos <= pos[x] /\ pos[x] < enqueue_pos
        /\ sequence[Slot(pos[x])] = pos[x]
        /\ pc[x] = "write" => storage[Slot(pos[x])] = Empty
        /\ pc[x] = "publish" => storage[Slot(pos[x])] # Empty

\* What a consumer in a slot finds there.
Readers ==
    \A c \in Consumer : Reading(c) =>
        /\ pos[c] < dequeue_pos /\ enqueue_pos <= pos[c] + Capacity
        /\ sequence[Slot(pos[c])] = pos[c] + 1
        /\ pc[c] = "move" => storage[Slot(pos[c])] # Empty
        /\ pc[c] = "release" => storage[Slot(pos[c])] = Empty

\* A position has one writer and one reader.
OneWriter == \A x, y \in Producer : Writing(x) /\ Writing(y) /\ pos[x] = pos[y] => x = y
OneReader == \A c, d \in Consumer : Reading(c) /\ Reading(d) /\ pos[c] = pos[d] => c = d

\* A filled position is being written or holds a published closure.
Filled ==
    \A p \in Nat : dequeue_pos <= p /\ p < enqueue_pos =>
        \/ \E x \in Producer : Writing(x) /\ pos[x] = p
        \/ sequence[Slot(p)] = p + 1 /\ storage[Slot(p)] # Empty

\* A vacant position is free, or the closure of a lap ago is being moved out.
Vacant ==
    \A p \in Nat : enqueue_pos <= p /\ p < dequeue_pos + Capacity =>
        \/ \E c \in Consumer : Reading(c) /\ pos[c] + Capacity = p
        \/ sequence[Slot(p)] = p /\ storage[Slot(p)] = Empty

\* What a thread read before its compare-and-swap still holds if that succeeds.
Contenders ==
    /\ \A x \in Producer : pc[x] \in {"check", "claim"} => pos[x] <= enqueue_pos
    /\ \A x \in Producer : pc[x] = "claim" /\ pos[x] = enqueue_pos =>
            sequence[Slot(pos[x])] = pos[x]
    /\ \A c \in Consumer : pc[c] \in {"check", "claim"} => pos[c] <= dequeue_pos
    /\ \A c \in Consumer : pc[c] = "claim" /\ pos[c] = dequeue_pos =>
            sequence[Slot(pos[c])] = pos[c] + 1

RingInv == Window /\ Writers /\ Readers /\ OneWriter /\ OneReader /\ Filled /\ Vacant /\ Contenders
-----------------------------------------------------------------------------
(* Slots.                                                                  *)

\* A multiple of the capacity that lies less than one capacity away is zero.
LEMMA NoMultiple ==
    ASSUME NEW n \in Nat \ {0}, NEW k \in Int, 0 < n * k, n * k < n
    PROVE  FALSE
<1>1. CASE k <= 0
  <2>1. n * k <= 0
    BY <1>1
  <2> QED BY <2>1
<1>2. CASE k >= 1
  <2>1. n * k >= n
    BY <1>2
  <2> QED BY <2>1
<1> QED BY <1>1, <1>2

\* Positions less than a lap apart are in different slots.
LEMMA SlotsDiffer ==
    ASSUME NEW p \in Nat, NEW q \in Nat, p < q, q < p + Capacity
    PROVE  Slot(p) # Slot(q)
<1> SUFFICES ASSUME Slot(p) = Slot(q) PROVE FALSE
    BY Zenon
<1> DEFINE a == p \div Capacity
           b == q \div Capacity
<1>1. a \in Int /\ b \in Int /\ p = Capacity * a + Slot(p) /\ q = Capacity * b + Slot(q)
    BY CapacityAssumption DEF Slot
<1> HIDE DEF a, b
<1>2. q - p = Capacity * (b - a)
    BY <1>1, SlotType, CapacityAssumption
<1>3. 0 < Capacity * (b - a) /\ Capacity * (b - a) < Capacity
    BY <1>2, CapacityAssumption
<1> QED BY <1>3, <1>1, NoMultiple, CapacityAssumption

\* Positions a lap apart are in the same slot.
LEMMA SlotLap == ASSUME NEW p \in Nat PROVE Slot(p + Capacity) = Slot(p)
<1> DEFINE q == p + Capacity
           a == p \div Capacity
           b == q \div Capacity
<1>1. q \in Nat
    BY CapacityAssumption
<1>2. a \in Int /\ b \in Int /\ p = Capacity * a + Slot(p) /\ q = Capacity * b + Slot(q)
    BY <1>1, CapacityAssumption DEF Slot
<1>3. Slot(p) \in 0 .. Capacity - 1 /\ Slot(q) \in 0 .. Capacity - 1 /\ q - p = Capacity
    BY <1>1, SlotType, CapacityAssumption
<1> HIDE DEF a, b, q
<1>4. /\ Capacity * (b - a - 1) = Capacity * b - Capacity * a - Capacity
      /\ Capacity * (a + 1 - b) = Capacity * a + Capacity - Capacity * b
    BY <1>2, CapacityAssumption
<1>5. ASSUME Slot(q) < Slot(p) PROVE FALSE
  <2>1. Slot(p) - Slot(q) = Capacity * (b - a - 1)
    BY <1>1, <1>2, <1>3, <1>4, CapacityAssumption
  <2>2. 0 < Capacity * (b - a - 1) /\ Capacity * (b - a - 1) < Capacity
    BY <2>1, <1>3, <1>5, CapacityAssumption
  <2> QED BY <2>2, <1>2, NoMultiple, CapacityAssumption
<1>6. ASSUME Slot(p) < Slot(q) PROVE FALSE
  <2>1. Slot(q) - Slot(p) = Capacity * (a + 1 - b)
    BY <1>1, <1>2, <1>3, <1>4, CapacityAssumption
  <2>2. 0 < Capacity * (a + 1 - b) /\ Capacity * (a + 1 - b) < Capacity
    BY <2>1, <1>3, <1>6, CapacityAssumption
  <2> QED BY <2>2, <1>2, NoMultiple, CapacityAssumption
<1> QED BY <1>3, <1>5, <1>6, CapacityAssumption DEF q

\* The first lap.
LEMMA SlotFirst == ASSUME NEW p \in 0 .. Capacity - 1 PROVE Slot(p) = p
BY CapacityAssumption DEF Slot

-----------------------------------------------------------------------------
(* What the invariant says of a state.                                     *)

\* The positions of the window are in different slots.
LEMMA WindowSlots ==
    ASSUME NEW p \in Nat, NEW q \in Nat, NEW low \in Nat, p # q,
           low <= p, p < low + Capacity, low <= q, q < low + Capacity
    PROVE  Slot(p) # Slot(q)
<1>1. CASE p < q
    BY <1>1, SlotsDiffer, CapacityAssumption
<1>2. CASE q < p
    BY <1>2, SlotsDiffer, CapacityAssumption
<1> QED BY <1>1, <1>2

\* A writer is in a slot of its own.
LEMMA WriterApart ==
    ASSUME TypeOK, RingInv, NEW x \in Producer, Writing(x)
    PROVE  /\ \A p \in Nat : /\ dequeue_pos <= p /\ p < dequeue_pos + Capacity /\ p # pos[x]
                             => Slot(p) # Slot(pos[x])
           /\ \A c \in Consumer : Reading(c) => Slot(pos[c]) # Slot(pos[x])
           /\ \A y \in Producer : Writing(y) /\ y # x => Slot(pos[y]) # Slot(pos[x])
<1>1. /\ pos[x] \in Nat /\ dequeue_pos \in Nat /\ enqueue_pos \in Nat /\ Capacity \in Nat
      /\ dequeue_pos <= pos[x] /\ pos[x] < enqueue_pos /\ enqueue_pos <= dequeue_pos + Capacity
    BY CapacityAssumption, Zenon DEF TypeOK, RingType, ThreadType, Thread, RingInv, Writers, Window
<1>2. \A p \in Nat : /\ dequeue_pos <= p /\ p < dequeue_pos + Capacity /\ p # pos[x]
                     => Slot(p) # Slot(pos[x])
    BY <1>1, WindowSlots, SMTT(30)
<1>3. ASSUME NEW c \in Consumer, Reading(c) PROVE Slot(pos[c]) # Slot(pos[x])
  <2>1. pos[c] \in Nat /\ pos[c] < dequeue_pos /\ enqueue_pos <= pos[c] + Capacity
    BY <1>3, Zenon DEF TypeOK, RingType, ThreadType, Thread, RingInv, Readers
  <2> QED BY <2>1, <1>1, SlotsDiffer
<1>4. ASSUME NEW y \in Producer, Writing(y), y # x PROVE Slot(pos[y]) # Slot(pos[x])
  <2>1. /\ pos[y] \in Nat /\ dequeue_pos <= pos[y] /\ pos[y] < dequeue_pos + Capacity
        /\ pos[y] # pos[x]
    BY <1>1, <1>4 DEF TypeOK, RingType, ThreadType, Thread, RingInv, Writers, OneWriter
  <2> QED BY <2>1, <1>2, Zenon
<1> QED BY <1>2, <1>3, <1>4, Zenon

\* A reader is in a slot of its own, the one of its position of the next lap.
LEMMA ReaderApart ==
    ASSUME TypeOK, RingInv, NEW c \in Consumer, Reading(c)
    PROVE  /\ Slot(pos[c] + Capacity) = Slot(pos[c])
           /\ \A p \in Nat : /\ dequeue_pos <= p /\ p < dequeue_pos + Capacity
                             /\ p # pos[c] + Capacity
                             => Slot(p) # Slot(pos[c])
           /\ \A d \in Consumer : Reading(d) /\ d # c => Slot(pos[d]) # Slot(pos[c])
<1>1. /\ pos[c] \in Nat /\ dequeue_pos \in Nat /\ enqueue_pos \in Nat /\ Capacity \in Nat
      /\ pos[c] < dequeue_pos /\ dequeue_pos <= enqueue_pos /\ enqueue_pos <= pos[c] + Capacity
    BY CapacityAssumption, Zenon DEF TypeOK, RingType, ThreadType, Thread, RingInv, Readers, Window
<1>2. Slot(pos[c] + Capacity) = Slot(pos[c])
    BY <1>1, SlotLap, Zenon
<1>3. \A p \in Nat : /\ dequeue_pos <= p /\ p < dequeue_pos + Capacity /\ p # pos[c] + Capacity
                     => Slot(p) # Slot(pos[c] + Capacity)
  <2> DEFINE q == pos[c] + Capacity
  <2>1. q \in Nat /\ dequeue_pos <= q /\ q < dequeue_pos + Capacity
    BY <1>1
  <2> HIDE DEF q
  <2>2. \A p \in Nat : /\ dequeue_pos <= p /\ p < dequeue_pos + Capacity /\ p # q
                       => Slot(p) # Slot(q)
    BY <2>1, <1>1, WindowSlots, Zenon
  <2> QED BY <2>2, Zenon DEF q
<1>4. ASSUME NEW d \in Consumer, Reading(d), d # c PROVE Slot(pos[d]) # Slot(pos[c])
  <2>1. /\ pos[d] \in Nat /\ pos[d] < dequeue_pos /\ enqueue_pos <= pos[d] + Capacity
        /\ pos[d] # pos[c]
    BY <1>4, Zenon DEF TypeOK, RingType, ThreadType, Thread, RingInv, Readers, OneReader
  <2>2. CASE pos[d] < pos[c]
    BY <2>1, <2>2, <1>1, SlotsDiffer
  <2>3. CASE pos[c] < pos[d]
    BY <2>1, <2>3, <1>1, SlotsDiffer
  <2> QED BY <2>1, <2>2, <2>3, <1>1
<1> QED BY <1>2, <1>3, <1>4, Zenon

\* A producer about to claim the next position: the ring is not full, and the
\* slot is free.
LEMMA ClaimFindsFree ==
    ASSUME TypeOK, RingInv, NEW x \in Producer, pc[x] = "claim", pos[x] = enqueue_pos
    PROVE  /\ enqueue_pos < dequeue_pos + Capacity
           /\ \A c \in Consumer : Reading(c) => pos[c] + Capacity # enqueue_pos
           /\ storage[Slot(enqueue_pos)] = Empty
<1>1. /\ dequeue_pos \in Nat /\ enqueue_pos \in Nat /\ Capacity \in Nat /\ Capacity >= 2
      /\ dequeue_pos <= enqueue_pos /\ enqueue_pos <= dequeue_pos + Capacity
      /\ sequence[Slot(enqueue_pos)] = enqueue_pos
    BY CapacityAssumption, Zenon DEF TypeOK, RingType, ThreadType, RingInv, Window, Contenders
<1>2. ASSUME enqueue_pos = dequeue_pos + Capacity PROVE FALSE
  <2>1. Slot(enqueue_pos) = Slot(dequeue_pos)
    BY <1>1, <1>2, SlotLap, Zenon
  <2>2. sequence[Slot(dequeue_pos)] \in {dequeue_pos, dequeue_pos + 1}
    BY <1>1, <1>2 DEF RingInv, Filled, Writers
  <2> QED BY <2>1, <2>2, <1>1, <1>2
<1>3. ASSUME NEW c \in Consumer, Reading(c), pos[c] + Capacity = enqueue_pos PROVE FALSE
  <2>1. pos[c] \in Nat /\ sequence[Slot(pos[c])] = pos[c] + 1
    BY <1>3, Zenon DEF TypeOK, RingType, ThreadType, Thread, RingInv, Readers
  <2>2. Slot(pos[c]) = Slot(enqueue_pos)
    BY <1>3, ReaderApart, Zenon
  <2> QED BY <2>1, <2>2, <1>1, <1>3
<1>4. storage[Slot(enqueue_pos)] = Empty
    BY <1>1, <1>2, <1>3 DEF RingInv, Vacant
<1> QED BY <1>1, <1>2, <1>3, <1>4

\* A consumer about to claim the next position: the ring is not empty, and the
\* closure has been published.
LEMMA ClaimFindsClosure ==
    ASSUME TypeOK, RingInv, NEW c \in Consumer, pc[c] = "claim", pos[c] = dequeue_pos
    PROVE  /\ dequeue_pos < enqueue_pos
           /\ \A x \in Producer : Writing(x) => pos[x] # dequeue_pos
           /\ storage[Slot(dequeue_pos)] # Empty
<1>1. /\ dequeue_pos \in Nat /\ enqueue_pos \in Nat /\ Capacity \in Nat /\ Capacity >= 2
      /\ dequeue_pos <= enqueue_pos /\ enqueue_pos <= dequeue_pos + Capacity
      /\ sequence[Slot(dequeue_pos)] = dequeue_pos + 1
    BY CapacityAssumption, Zenon DEF TypeOK, RingType, ThreadType, RingInv, Window, Contenders
<1>2. ASSUME dequeue_pos = enqueue_pos PROVE FALSE
  <2>1. CASE sequence[Slot(dequeue_pos)] = dequeue_pos
    BY <1>1, <2>1
  <2>2. ASSUME NEW d \in Consumer, Reading(d), pos[d] + Capacity = dequeue_pos PROVE FALSE
    <3>1. pos[d] \in Nat /\ sequence[Slot(pos[d])] = pos[d] + 1
      BY <2>2, Zenon DEF TypeOK, RingType, ThreadType, Thread, RingInv, Readers
    <3>2. Slot(pos[d]) = Slot(dequeue_pos)
      BY <2>2, ReaderApart, Zenon
    <3> QED BY <3>1, <3>2, <2>2, <1>1
  <2> QED BY <1>1, <1>2, <2>1, <2>2 DEF RingInv, Vacant
<1>3. ASSUME NEW x \in Producer, Writing(x), pos[x] = dequeue_pos PROVE FALSE
    BY <1>1, <1>3 DEF RingInv, Writers
<1>4. storage[Slot(dequeue_pos)] # Empty
    BY <1>1, <1>2, <1>3 DEF RingInv, Filled
<1> QED BY <1>1, <1>2, <1>3, <1>4

-----------------------------------------------------------------------------
(* The steps of TryEnqueue and TryDequeue.                                 *)

\* Where a thread stands in its window.
Busy == {"check", "claim", "write", "publish", "move", "release"}

\* A step outside TryEnqueue and TryDequeue.
LEMMA Elsewhere ==
    ASSUME TypeOK, RingInv, UNCHANGED ring, UNCHANGED pos,
           NEW t \in Thread, pc[t] \notin Busy, NEW l, l \notin Busy, Goto(t, l)
    PROVE  RingInv'
<1>1. pc'[t] = l /\ \A u \in Thread : u # t => pc'[u] = pc[u]
    BY GotoOne, Zenon
<1>2. /\ \A u \in Thread : Writing(u)' = Writing(u) /\ Reading(u)' = Reading(u)
      /\ \A u \in Thread : pc'[u] \in Busy => pc'[u] = pc[u]
    BY <1>1 DEF Writing, Reading, Busy
<1>3. /\ sequence' = sequence /\ storage' = storage
      /\ enqueue_pos' = enqueue_pos /\ dequeue_pos' = dequeue_pos
    BY Zenon DEF ring
<1>4. Window' /\ OneWriter' /\ OneReader' /\ Filled' /\ Vacant'
    BY <1>2, <1>3, Disjoint, Zenon DEF RingInv, Window, OneWriter, OneReader, Filled, Vacant
<1>5. Writers' /\ Readers'
    BY <1>2, <1>3, Disjoint DEF RingInv, Writers, Readers, Writing, Reading, Busy
<1>6. Contenders'
    BY <1>2, <1>3, Disjoint, Zenon DEF RingInv, Contenders, Busy
<1> QED BY <1>4, <1>5, <1>6, Zenon DEF RingInv

\* A step of TryEnqueue or TryDequeue that changes no shared memory.
LEMMA LoadOrCheck ==
    ASSUME TypeOK, RingInv, UNCHANGED ring,
           NEW t \in Thread, pc[t] \in {"load", "check", "claim"},
           pc'[t] \notin {"write", "publish", "move", "release"},
           \A u \in Thread : u # t => pc'[u] = pc[u] /\ pos'[u] = pos[u],
           Contenders'
    PROVE  RingInv'
<1>1. /\ \A u \in Thread : Writing(u)' = Writing(u) /\ Reading(u)' = Reading(u)
      /\ \A u \in Thread : Writing(u) \/ Reading(u) => pos'[u] = pos[u] /\ pc'[u] = pc[u]
    BY DEF Writing, Reading
<1>2. /\ sequence' = sequence /\ storage' = storage
      /\ enqueue_pos' = enqueue_pos /\ dequeue_pos' = dequeue_pos
    BY Zenon DEF ring
<1>3. Window' /\ OneWriter' /\ OneReader'
    BY <1>1, <1>2, Disjoint, Zenon DEF RingInv, Window, OneWriter, OneReader
<1>4. Filled' /\ Vacant'
    BY <1>1, <1>2, Disjoint DEF RingInv, Filled, Vacant
<1>5. Writers' /\ Readers'
    BY <1>1, <1>2, Disjoint DEF RingInv, Writers, Readers
<1> QED BY <1>3, <1>4, <1>5, Zenon DEF RingInv

\* TryEnqueue reads enqueue_pos.
LEMMA EnqLoadStep == ASSUME TypeOK, RingInv, NEW x \in Producer, EnqLoad(x) PROVE RingInv'
<1>1. /\ UNCHANGED ring /\ pc[x] = "load" /\ pc'[x] = "check" /\ pos'[x] = enqueue_pos
      /\ \A u \in Thread : u # x => pc'[u] = pc[u] /\ pos'[u] = pos[u]
    BY GotoOne, Disjoint, Zenon DEF EnqLoad, TypeOK, RingType, ThreadType
<1>2. enqueue_pos \in Nat
    BY Zenon DEF TypeOK, RingType, ThreadType
<1>3. Contenders'
    BY <1>1, <1>2, Disjoint DEF RingInv, Contenders, ring
<1> QED BY <1>1, <1>3, LoadOrCheck, Disjoint, Zenon

\* TryEnqueue looks at the slot.
LEMMA EnqCheckStep == ASSUME TypeOK, RingInv, NEW x \in Producer, EnqCheck(x) PROVE RingInv'
<1> DEFINE l == CASE sequence[Slot(pos[x])] - pos[x] = 0 -> "claim"
                  [] sequence[Slot(pos[x])] - pos[x] < 0 -> "full"
                  [] sequence[Slot(pos[x])] - pos[x] > 0 -> "load"
<1>1. UNCHANGED ring /\ UNCHANGED pos /\ pc[x] = "check" /\ Goto(x, l)
    BY Zenon DEF EnqCheck
<1>2. /\ pos[x] \in Nat /\ sequence[Slot(pos[x])] \in Nat
    BY Disjoint, SlotType, Zenon DEF TypeOK, RingType, ThreadType
<1>3. l \in {"claim", "full", "load"} /\ (l = "claim" => sequence[Slot(pos[x])] = pos[x])
    BY <1>2
<1> HIDE DEF l
<1>4. pc'[x] = l /\ \A u \in Thread : u # x => pc'[u] = pc[u] /\ pos'[u] = pos[u]
    BY <1>1, GotoOne, Disjoint, Zenon
<1>5. Contenders'
    BY <1>1, <1>3, <1>4, Disjoint, Zenon DEF RingInv, Contenders, ring
<1> QED BY <1>1, <1>3, <1>4, <1>5, LoadOrCheck, Disjoint, Zenon

\* TryDequeue reads dequeue_pos.
LEMMA DeqLoadStep == ASSUME TypeOK, RingInv, NEW c \in Consumer, DeqLoad(c) PROVE RingInv'
<1>1. /\ UNCHANGED ring /\ pc[c] = "load" /\ pc'[c] = "check" /\ pos'[c] = dequeue_pos
      /\ \A u \in Thread : u # c => pc'[u] = pc[u] /\ pos'[u] = pos[u]
    BY GotoOne, Disjoint DEF DeqLoad, TypeOK, RingType, ThreadType
<1>2. dequeue_pos \in Nat
    BY Zenon DEF TypeOK, RingType, ThreadType
<1>3. Contenders'
    BY <1>1, <1>2, Disjoint DEF RingInv, Contenders, ring
<1> QED BY <1>1, <1>3, LoadOrCheck, Disjoint, Zenon

\* TryDequeue looks at the slot.
LEMMA DeqCheckStep == ASSUME TypeOK, RingInv, NEW c \in Consumer, DeqCheck(c) PROVE RingInv'
<1> DEFINE l == CASE sequence[Slot(pos[c])] - (pos[c] + 1) = 0 -> "claim"
                  [] sequence[Slot(pos[c])] - (pos[c] + 1) < 0 -> "none"
                  [] sequence[Slot(pos[c])] - (pos[c] + 1) > 0 -> "load"
<1>1. UNCHANGED ring /\ UNCHANGED pos /\ pc[c] = "check" /\ Goto(c, l)
    BY Zenon DEF DeqCheck
<1>2. /\ pos[c] \in Nat /\ sequence[Slot(pos[c])] \in Nat
    BY Disjoint, SlotType, Zenon DEF TypeOK, RingType, ThreadType
<1>3. l \in {"claim", "none", "load"} /\ (l = "claim" => sequence[Slot(pos[c])] = pos[c] + 1)
    BY <1>2
<1> HIDE DEF l
<1>4. pc'[c] = l /\ \A u \in Thread : u # c => pc'[u] = pc[u] /\ pos'[u] = pos[u]
    BY <1>1, GotoOne, Disjoint, Zenon
<1>5. Contenders'
    BY <1>1, <1>3, <1>4, Disjoint, Zenon DEF RingInv, Contenders, ring
<1> QED BY <1>1, <1>3, <1>4, <1>5, LoadOrCheck, Disjoint, Zenon

\* A producer claims a position.
LEMMA EnqClaimStep == ASSUME TypeOK, RingInv, NEW x \in Producer, EnqClaim(x) PROVE RingInv'
<1>1. CASE enqueue_pos # pos[x]
  <2>1. /\ UNCHANGED ring /\ UNCHANGED pos /\ pc[x] = "claim" /\ pc'[x] = "load"
        /\ \A u \in Thread : u # x => pc'[u] = pc[u] /\ pos'[u] = pos[u]
    BY <1>1, GotoOne, Disjoint, Zenon DEF EnqClaim, ring
  <2>2. Contenders'
    BY <2>1, Disjoint DEF RingInv, Contenders, ring
  <2> QED BY <2>1, <2>2, LoadOrCheck, Disjoint, Zenon
<1>2. CASE enqueue_pos = pos[x]
  <2>1. /\ sequence' = sequence /\ storage' = storage /\ dequeue_pos' = dequeue_pos
        /\ pos' = pos /\ enqueue_pos' = enqueue_pos + 1
        /\ pc[x] = "claim" /\ pc'[x] = "write" /\ \A u \in Thread : u # x => pc'[u] = pc[u]
    BY <1>2, GotoOne, Disjoint, Zenon DEF EnqClaim
  <2>2. /\ enqueue_pos < dequeue_pos + Capacity
        /\ \A c \in Consumer : Reading(c) => pos[c] + Capacity # enqueue_pos
        /\ storage[Slot(enqueue_pos)] = Empty
    BY <1>2, <2>1, ClaimFindsFree, Zenon
  <2>3. /\ enqueue_pos \in Nat /\ dequeue_pos \in Nat /\ Capacity \in Nat
        /\ \A u \in Thread : pos[u] \in Nat
    BY CapacityAssumption, Zenon DEF TypeOK, RingType, ThreadType
  <2>4. /\ ~Writing(x) /\ Writing(x)'
        /\ \A y \in Producer : y # x => Writing(y)' = Writing(y)
        /\ \A c \in Consumer : Reading(c)' = Reading(c)
    BY <2>1, Disjoint, Zenon DEF Writing, Reading
  <2>5. Window'
    BY <2>1, <2>2, <2>3 DEF RingInv, Window
  <2>6. Writers'
    <3> SUFFICES ASSUME NEW y \in Producer, Writing(y)'
                 PROVE  /\ dequeue_pos <= pos[y] /\ pos[y] < enqueue_pos + 1
                        /\ sequence[Slot(pos[y])] = pos[y]
                        /\ pc'[y] = "write" => storage[Slot(pos[y])] = Empty
                        /\ pc'[y] = "publish" => storage[Slot(pos[y])] # Empty
      BY <2>1, Zenon DEF Writers
    <3>1. CASE y = x
      BY <3>1, <1>2, <2>1, <2>2, <2>3 DEF RingInv, Window, Contenders
    <3>2. CASE y # x
      BY <3>2, <2>1, <2>3, <2>4, Disjoint DEF RingInv, Writers
    <3> QED BY <3>1, <3>2, Zenon
  <2>7. Readers'
    BY <2>1, <2>2, <2>3, <2>4, Disjoint DEF RingInv, Readers
  <2>8. OneWriter'
    BY <1>2, <2>1, <2>3, <2>4, Disjoint DEF RingInv, Writers, OneWriter
  <2>9. OneReader'
    BY <2>1, <2>4, Zenon DEF RingInv, OneReader
  <2>10. Filled'
    BY <1>2, <2>1, <2>3, <2>4 DEF RingInv, Filled
  <2>11. Vacant'
    BY <2>1, <2>3, <2>4 DEF RingInv, Vacant
  <2>12. Contenders'
    BY <2>1, <2>3, Disjoint DEF RingInv, Contenders
  <2> QED BY <2>5, <2>6, <2>7, <2>8, <2>9, <2>10, <2>11, <2>12, Zenon DEF RingInv
<1> QED BY <1>1, <1>2, Zenon

\* A consumer claims a position.
LEMMA DeqClaimStep == ASSUME TypeOK, RingInv, NEW c \in Consumer, DeqClaim(c) PROVE RingInv'
<1>1. CASE dequeue_pos # pos[c]
  <2>1. /\ UNCHANGED ring /\ UNCHANGED pos /\ pc[c] = "claim" /\ pc'[c] = "load"
        /\ \A u \in Thread : u # c => pc'[u] = pc[u] /\ pos'[u] = pos[u]
    BY <1>1, GotoOne, Disjoint, Zenon DEF DeqClaim, ring
  <2>2. Contenders'
    BY <2>1, Disjoint, Zenon DEF RingInv, Contenders, ring
  <2> QED BY <2>1, <2>2, LoadOrCheck, Disjoint, Zenon
<1>2. CASE dequeue_pos = pos[c]
  <2>1. /\ sequence' = sequence /\ storage' = storage /\ enqueue_pos' = enqueue_pos
        /\ pos' = pos /\ dequeue_pos' = dequeue_pos + 1
        /\ pc[c] = "claim" /\ pc'[c] = "move" /\ \A u \in Thread : u # c => pc'[u] = pc[u]
    BY <1>2, GotoOne, Disjoint, Zenon DEF DeqClaim
  <2>2. /\ dequeue_pos < enqueue_pos
        /\ \A x \in Producer : Writing(x) => pos[x] # dequeue_pos
        /\ storage[Slot(dequeue_pos)] # Empty
    BY <1>2, <2>1, ClaimFindsClosure, Zenon
  <2>3. /\ enqueue_pos \in Nat /\ dequeue_pos \in Nat /\ Capacity \in Nat
        /\ \A u \in Thread : pos[u] \in Nat
    BY CapacityAssumption, Zenon DEF TypeOK, RingType, ThreadType
  <2>4. /\ ~Reading(c) /\ Reading(c)'
        /\ \A d \in Consumer : d # c => Reading(d)' = Reading(d)
        /\ \A x \in Producer : Writing(x)' = Writing(x)
    BY <2>1, Disjoint, Zenon DEF Writing, Reading
  <2>5. Window'
    BY <2>1, <2>2, <2>3 DEF RingInv, Window
  <2>6. Readers'
    <3> SUFFICES ASSUME NEW d \in Consumer, Reading(d)'
                 PROVE  /\ pos[d] < dequeue_pos + 1 /\ enqueue_pos <= pos[d] + Capacity
                        /\ sequence[Slot(pos[d])] = pos[d] + 1
                        /\ pc'[d] = "move" => storage[Slot(pos[d])] # Empty
                        /\ pc'[d] = "release" => storage[Slot(pos[d])] = Empty
      BY <2>1, Zenon DEF Readers
    <3>1. CASE d = c
      BY <3>1, <1>2, <2>1, <2>2, <2>3 DEF RingInv, Window, Contenders
    <3>2. CASE d # c
      BY <3>2, <2>1, <2>3, <2>4, Disjoint DEF RingInv, Readers
    <3> QED BY <3>1, <3>2, Zenon
  <2>7. Writers'
    BY <2>1, <2>2, <2>3, <2>4, Disjoint DEF RingInv, Writers
  <2>8. OneReader'
    BY <1>2, <2>1, <2>3, <2>4, Disjoint DEF RingInv, Readers, OneReader
  <2>9. OneWriter'
    BY <2>1, <2>4, Zenon DEF RingInv, OneWriter
  <2>10. Vacant'
    BY <1>2, <2>1, <2>3, <2>4 DEF RingInv, Vacant
  <2>11. Filled'
    BY <2>1, <2>3, <2>4 DEF RingInv, Filled
  <2>12. Contenders'
    BY <2>1, <2>3, Disjoint DEF RingInv, Contenders
  <2> QED BY <2>5, <2>6, <2>7, <2>8, <2>9, <2>10, <2>11, <2>12, Zenon DEF RingInv
<1> QED BY <1>1, <1>2, Zenon

\* A producer builds its closure in the slot.
LEMMA EnqWriteStep == ASSUME TypeOK, RingInv, NEW x \in Producer, EnqWrite(x) PROVE RingInv'
<1> DEFINE i == Slot(pos[x])
<1>1. /\ sequence' = sequence /\ enqueue_pos' = enqueue_pos /\ dequeue_pos' = dequeue_pos
      /\ pos' = pos /\ storage' = [storage EXCEPT ![i] = Mine(x)]
      /\ pc[x] = "write" /\ pc'[x] = "publish" /\ \A u \in Thread : u # x => pc'[u] = pc[u]
    BY GotoOne, Disjoint, Zenon DEF EnqWrite
<1>2. /\ enqueue_pos \in Nat /\ dequeue_pos \in Nat /\ Capacity \in Nat
      /\ \A u \in Thread : pos[u] \in Nat
    BY CapacityAssumption, Zenon DEF TypeOK, RingType, ThreadType
<1>3. /\ storage'[i] # Empty
      /\ \A p \in Nat : Slot(p) # i => storage'[Slot(p)] = storage[Slot(p)]
  <2>1. Mine(x) # Empty
    BY EmptyAssumption DEF TypeOK, RingType, ThreadType, Mine
  <2>2. i \in DOMAIN storage /\ \A p \in Nat : Slot(p) \in DOMAIN storage
    BY <1>2, SlotType, Disjoint, ZenonT(30) DEF TypeOK, RingType, ThreadType
  <2> HIDE DEF i
  <2> QED BY <1>1, <2>1, <2>2, Zenon
<1>4. \A u \in Thread : Writing(u)' = Writing(u) /\ Reading(u)' = Reading(u)
    BY <1>1 DEF Writing, Reading
<1>5. Writing(x)
    BY <1>1, Zenon DEF Writing
<1>6. /\ \A p \in Nat : /\ dequeue_pos <= p /\ p < dequeue_pos + Capacity /\ p # pos[x]
                        => Slot(p) # i
      /\ \A c \in Consumer : Reading(c) => Slot(pos[c]) # i
      /\ \A y \in Producer : Writing(y) /\ y # x => Slot(pos[y]) # i
    BY <1>5, WriterApart, Zenon
<1>7. /\ dequeue_pos <= pos[x] /\ pos[x] < enqueue_pos /\ sequence[i] = pos[x]
      /\ enqueue_pos <= dequeue_pos + Capacity /\ dequeue_pos <= enqueue_pos
    BY <1>5, Zenon DEF RingInv, Writers, Window
<1> HIDE DEF i
<1>8. Writers'
  <2> SUFFICES ASSUME NEW y \in Producer, Writing(y)'
               PROVE  /\ dequeue_pos <= pos[y] /\ pos[y] < enqueue_pos
                      /\ sequence[Slot(pos[y])] = pos[y]
                      /\ pc'[y] = "write" => storage'[Slot(pos[y])] = Empty
                      /\ pc'[y] = "publish" => storage'[Slot(pos[y])] # Empty
    BY <1>1, Zenon DEF Writers
  <2>1. CASE y = x
    BY <2>1, <1>1, <1>3, <1>7, Zenon DEF i
  <2>2. CASE y # x
    BY <2>2, <1>1, <1>2, <1>3, <1>4, <1>6, Disjoint, Zenon DEF RingInv, Writers
  <2> QED BY <2>1, <2>2, Zenon
<1>9. Readers'
    BY <1>1, <1>2, <1>3, <1>4, <1>6, Disjoint, SMTT(30) DEF RingInv, Readers
<1>10. OneWriter' /\ OneReader' /\ Window'
  <2>1. OneWriter'
    BY <1>1, <1>4, Disjoint, Zenon DEF RingInv, OneWriter
  <2>2. OneReader'
    BY <1>1, <1>4, Disjoint, Zenon DEF RingInv, OneReader
  <2>3. Window'
    BY <1>1, <1>4, Disjoint, Zenon DEF RingInv, Window
  <2> QED BY <2>1, <2>2, <2>3, Zenon
<1>11. Filled'
    BY <1>1, <1>2, <1>3, <1>4, <1>5, <1>6, <1>7, Disjoint, Zenon DEF RingInv, Filled
<1>12. Vacant'
    BY <1>1, <1>2, <1>3, <1>4, <1>6, <1>7, Disjoint, SMTT(30) DEF RingInv, Vacant
<1>13. Contenders'
    BY <1>1, Disjoint, Zenon DEF RingInv, Contenders
<1> QED BY <1>8, <1>9, <1>10, <1>11, <1>12, <1>13, Zenon DEF RingInv

\* A producer publishes its closure.
LEMMA EnqPublishStep == ASSUME TypeOK, RingInv, NEW x \in Producer, EnqPublish(x) PROVE RingInv'
<1> DEFINE i == Slot(pos[x])
<1>1. /\ storage' = storage /\ enqueue_pos' = enqueue_pos /\ dequeue_pos' = dequeue_pos
      /\ pos' = pos /\ sequence' = [sequence EXCEPT ![i] = pos[x] + 1]
      /\ pc[x] = "publish" /\ pc'[x] = "wake" /\ \A u \in Thread : u # x => pc'[u] = pc[u]
    BY GotoOne, Disjoint, Zenon DEF EnqPublish
<1>2. /\ enqueue_pos \in Nat /\ dequeue_pos \in Nat /\ Capacity \in Nat
      /\ \A u \in Thread : pos[u] \in Nat
    BY CapacityAssumption, Zenon DEF TypeOK, RingType, ThreadType
<1>3. /\ sequence'[i] = pos[x] + 1
      /\ \A p \in Nat : Slot(p) # i => sequence'[Slot(p)] = sequence[Slot(p)]
  <2>1. i \in DOMAIN sequence /\ \A p \in Nat : Slot(p) \in DOMAIN sequence
    BY <1>2, SlotType, Disjoint, ZenonT(30) DEF TypeOK, RingType, ThreadType
  <2> HIDE DEF i
  <2> QED BY <1>1, <2>1, Zenon
<1>4. /\ Writing(x) /\ ~Writing(x)'
      /\ \A y \in Producer : y # x => Writing(y)' = Writing(y)
      /\ \A c \in Consumer : Reading(c)' = Reading(c)
    BY <1>1, Disjoint, Zenon DEF Writing, Reading
<1>5. /\ \A p \in Nat : /\ dequeue_pos <= p /\ p < dequeue_pos + Capacity /\ p # pos[x]
                        => Slot(p) # i
      /\ \A c \in Consumer : Reading(c) => Slot(pos[c]) # i
      /\ \A y \in Producer : Writing(y) /\ y # x => Slot(pos[y]) # i
    BY <1>4, WriterApart, Zenon
<1>6. /\ dequeue_pos <= pos[x] /\ pos[x] < enqueue_pos /\ sequence[i] = pos[x]
      /\ enqueue_pos <= dequeue_pos + Capacity /\ dequeue_pos <= enqueue_pos
      /\ storage[i] # Empty
    BY <1>1, <1>4, Zenon DEF RingInv, Writers, Window
<1> HIDE DEF i
<1>7. Writers' /\ Readers'
    BY <1>1, <1>2, <1>3, <1>4, <1>5, Disjoint, SMTT(30) DEF RingInv, Writers, Readers
<1>8. OneWriter' /\ OneReader' /\ Window'
  <2>1. OneWriter'
    BY <1>1, <1>4, Disjoint, Zenon DEF RingInv, OneWriter
  <2>2. OneReader'
    BY <1>1, <1>4, Disjoint, Zenon DEF RingInv, OneReader
  <2>3. Window'
    BY <1>1, <1>4, Disjoint, Zenon DEF RingInv, Window
  <2> QED BY <2>1, <2>2, <2>3, Zenon
<1>9. Filled'
  <2> SUFFICES ASSUME NEW p \in Nat, dequeue_pos <= p, p < enqueue_pos
               PROVE  \/ \E y \in Producer : Writing(y)' /\ pos[y] = p
                      \/ sequence'[Slot(p)] = p + 1 /\ storage[Slot(p)] # Empty
    BY <1>1, Zenon DEF Filled
  <2>1. CASE p = pos[x]
    BY <2>1, <1>3, <1>6, Zenon DEF i
  <2>2. CASE p # pos[x]
    BY <2>2, <1>2, <1>3, <1>4, <1>5, <1>6, SMTT(30) DEF RingInv, Filled
  <2> QED BY <2>1, <2>2, Zenon
<1>10. Vacant'
    BY <1>1, <1>2, <1>3, <1>4, <1>5, <1>6, Disjoint, Zenon DEF RingInv, Vacant
<1>11. Contenders'
  <2>1. ASSUME NEW y \in Producer, pc'[y] = "claim", pos[y] = enqueue_pos
        PROVE  sequence'[Slot(pos[y])] = pos[y]
    <3>1. pc[y] = "claim" /\ sequence[Slot(pos[y])] = pos[y] /\ pos[y] \in Nat
      BY <2>1, <1>1, <1>2, Disjoint, Zenon DEF RingInv, Contenders
    <3>2. enqueue_pos < dequeue_pos + Capacity
      BY <2>1, <3>1, ClaimFindsFree, Zenon
    <3>3. Slot(pos[y]) # i
      BY <2>1, <3>1, <3>2, <1>2, <1>5, <1>6
    <3> QED BY <3>1, <3>3, <1>3, Zenon
  <2>2. ASSUME NEW c \in Consumer, pc'[c] = "claim", pos[c] = dequeue_pos
        PROVE  sequence'[Slot(pos[c])] = pos[c] + 1
    <3>1. pc[c] = "claim" /\ sequence[Slot(pos[c])] = pos[c] + 1 /\ pos[c] \in Nat
      BY <2>2, <1>1, <1>2, Disjoint, Zenon DEF RingInv, Contenders
    <3>2. pos[x] # dequeue_pos
      BY <2>2, <3>1, <1>4, ClaimFindsClosure, Zenon
    <3>3. Slot(pos[c]) # i
      BY <2>2, <3>1, <3>2, <1>2, <1>5, <1>6, SMTT(30)
    <3> QED BY <3>1, <3>3, <1>3, Zenon
  <2> QED BY <2>1, <2>2, <1>1, Disjoint, Zenon DEF RingInv, Contenders
<1> QED BY <1>7, <1>8, <1>9, <1>10, <1>11, Zenon DEF RingInv

\* A consumer moves the closure out of the slot.
LEMMA DeqMoveStep == ASSUME TypeOK, RingInv, NEW c \in Consumer, DeqMove(c) PROVE RingInv'
<1> DEFINE i == Slot(pos[c])
<1>1. /\ sequence' = sequence /\ enqueue_pos' = enqueue_pos /\ dequeue_pos' = dequeue_pos
      /\ pos' = pos /\ storage' = [storage EXCEPT ![i] = Empty]
      /\ pc[c] = "move" /\ pc'[c] = "release" /\ \A u \in Thread : u # c => pc'[u] = pc[u]
    BY GotoOne, Disjoint, Zenon DEF DeqMove
<1>2. /\ enqueue_pos \in Nat /\ dequeue_pos \in Nat /\ Capacity \in Nat
      /\ \A u \in Thread : pos[u] \in Nat
    BY CapacityAssumption, Zenon DEF TypeOK, RingType, ThreadType
<1>3. /\ storage'[i] = Empty
      /\ \A p \in Nat : Slot(p) # i => storage'[Slot(p)] = storage[Slot(p)]
  <2>1. i \in DOMAIN storage /\ \A p \in Nat : Slot(p) \in DOMAIN storage
    BY <1>2, SlotType, Disjoint, Zenon DEF TypeOK, RingType, ThreadType
  <2> HIDE DEF i
  <2> QED BY <1>1, <2>1, Zenon
<1>4. \A u \in Thread : Writing(u)' = Writing(u) /\ Reading(u)' = Reading(u)
    BY <1>1 DEF Writing, Reading
<1>5. Reading(c)
    BY <1>1, Zenon DEF Reading
<1>6. /\ \A p \in Nat : /\ dequeue_pos <= p /\ p < dequeue_pos + Capacity /\ p # pos[c] + Capacity
                        => Slot(p) # i
      /\ \A d \in Consumer : Reading(d) /\ d # c => Slot(pos[d]) # i
    BY <1>5, ReaderApart, Zenon
<1>7. /\ pos[c] < dequeue_pos /\ enqueue_pos <= pos[c] + Capacity /\ sequence[i] = pos[c] + 1
      /\ enqueue_pos <= dequeue_pos + Capacity /\ dequeue_pos <= enqueue_pos
    BY <1>5, Zenon DEF RingInv, Readers, Window
<1>8. \A x \in Producer : Writing(x) => Slot(pos[x]) # i
    BY <1>5, WriterApart, Zenon
<1> HIDE DEF i
<1>9. Writers'
    BY <1>1, <1>2, <1>3, <1>4, <1>8, Disjoint, SMTT(30) DEF RingInv, Writers
<1>10. Readers'
  <2> SUFFICES ASSUME NEW d \in Consumer, Reading(d)'
               PROVE  /\ pos[d] < dequeue_pos /\ enqueue_pos <= pos[d] + Capacity
                      /\ sequence[Slot(pos[d])] = pos[d] + 1
                      /\ pc'[d] = "move" => storage'[Slot(pos[d])] # Empty
                      /\ pc'[d] = "release" => storage'[Slot(pos[d])] = Empty
    BY <1>1, Zenon DEF Readers
  <2>1. CASE d = c
    BY <2>1, <1>1, <1>3, <1>7, Zenon DEF i
  <2>2. CASE d # c
    BY <2>2, <1>1, <1>2, <1>3, <1>4, <1>6, Disjoint, Zenon DEF RingInv, Readers
  <2> QED BY <2>1, <2>2, Zenon
<1>11. OneWriter' /\ OneReader' /\ Window'
  <2>1. OneWriter'
    BY <1>1, <1>4, Disjoint, Zenon DEF RingInv, OneWriter
  <2>2. OneReader'
    BY <1>1, <1>4, Disjoint, Zenon DEF RingInv, OneReader
  <2>3. Window'
    BY <1>1, <1>4, Disjoint, Zenon DEF RingInv, Window
  <2> QED BY <2>1, <2>2, <2>3, Zenon
<1>12. Filled'
    BY <1>1, <1>2, <1>3, <1>4, <1>6, <1>7, Disjoint, SMTT(30) DEF RingInv, Filled
<1>13. Vacant'
    BY <1>1, <1>2, <1>3, <1>4, <1>5, <1>6, <1>7, Disjoint, Zenon DEF RingInv, Vacant
<1>14. Contenders'
    BY <1>1, Disjoint, Zenon DEF RingInv, Contenders
<1> QED BY <1>9, <1>10, <1>11, <1>12, <1>13, <1>14, Zenon DEF RingInv

\* A consumer gives the slot back for the next lap.
LEMMA DeqReleaseStep == ASSUME TypeOK, RingInv, NEW c \in Consumer, DeqRelease(c) PROVE RingInv'
<1> DEFINE i == Slot(pos[c])
<1>1. /\ storage' = storage /\ enqueue_pos' = enqueue_pos /\ dequeue_pos' = dequeue_pos
      /\ pos' = pos /\ sequence' = [sequence EXCEPT ![i] = pos[c] + Capacity]
      /\ pc[c] = "release" /\ pc'[c] \in {"idle got", "run"}
      /\ \A u \in Thread : u # c => pc'[u] = pc[u]
    BY GotoOne, Disjoint, Zenon DEF DeqRelease
<1>2. /\ enqueue_pos \in Nat /\ dequeue_pos \in Nat /\ Capacity \in Nat
      /\ \A u \in Thread : pos[u] \in Nat
    BY CapacityAssumption, Zenon DEF TypeOK, RingType, ThreadType
<1>3. /\ sequence'[i] = pos[c] + Capacity
      /\ \A p \in Nat : Slot(p) # i => sequence'[Slot(p)] = sequence[Slot(p)]
  <2>1. i \in DOMAIN sequence /\ \A p \in Nat : Slot(p) \in DOMAIN sequence
    BY <1>2, SlotType, Disjoint, Zenon DEF TypeOK, RingType, ThreadType
  <2> HIDE DEF i
  <2> QED BY <1>1, <2>1, Zenon
<1>4. /\ Reading(c) /\ ~Reading(c)'
      /\ \A d \in Consumer : d # c => Reading(d)' = Reading(d)
      /\ \A x \in Producer : Writing(x)' = Writing(x)
    BY <1>1, Disjoint, Zenon DEF Writing, Reading
<1>5. /\ Slot(pos[c] + Capacity) = i
      /\ \A p \in Nat : /\ dequeue_pos <= p /\ p < dequeue_pos + Capacity /\ p # pos[c] + Capacity
                        => Slot(p) # i
      /\ \A d \in Consumer : Reading(d) /\ d # c => Slot(pos[d]) # i
    BY <1>4, ReaderApart, Zenon
<1>6. /\ pos[c] < dequeue_pos /\ enqueue_pos <= pos[c] + Capacity /\ storage[i] = Empty
      /\ enqueue_pos <= dequeue_pos + Capacity /\ dequeue_pos <= enqueue_pos
    BY <1>1, <1>4, Zenon DEF RingInv, Readers, Window
<1>7. \A x \in Producer : Writing(x) => Slot(pos[x]) # i
    BY <1>4, WriterApart, Zenon
<1> HIDE DEF i
<1>8. Writers' /\ Readers'
  <2>1. Writers'
    BY <1>1, <1>2, <1>3, <1>4, <1>7, Disjoint, ZenonT(30) DEF RingInv, Writers
  <2>2. Readers'
    BY <1>1, <1>2, <1>3, <1>4, <1>5, Disjoint, ZenonT(30) DEF RingInv, Readers
  <2> QED BY <2>1, <2>2, Zenon
<1>9. OneWriter' /\ OneReader' /\ Window'
    BY <1>1, <1>4, Disjoint, ZenonT(30) DEF RingInv, OneWriter, OneReader, Window
<1>10. Filled'
    BY <1>1, <1>2, <1>3, <1>4, <1>5, <1>6, Disjoint, ZenonT(30) DEF RingInv, Filled
<1>11. Vacant'
  <2> SUFFICES ASSUME NEW p \in Nat, enqueue_pos <= p, p < dequeue_pos + Capacity
               PROVE  \/ \E d \in Consumer : Reading(d)' /\ pos[d] + Capacity = p
                      \/ sequence'[Slot(p)] = p /\ storage[Slot(p)] = Empty
    BY <1>1, ZenonT(30) DEF Vacant
  <2>1. CASE p = pos[c] + Capacity
    BY <2>1, <1>3, <1>5, <1>6, Zenon
  <2>2. CASE p # pos[c] + Capacity
    BY <2>2, <1>2, <1>3, <1>4, <1>5, <1>6, SMTT(30) DEF RingInv, Vacant
  <2> QED BY <2>1, <2>2, Zenon
<1>12. Contenders'
  <2>1. ASSUME NEW x \in Producer, pc'[x] = "claim", pos[x] = enqueue_pos
        PROVE  sequence'[Slot(pos[x])] = pos[x]
    <3>1. pc[x] = "claim" /\ sequence[Slot(pos[x])] = pos[x] /\ pos[x] \in Nat
      BY <2>1, <1>1, <1>2, Disjoint, ZenonT(30) DEF RingInv, Contenders
    <3>2. enqueue_pos < dequeue_pos + Capacity /\ pos[c] + Capacity # enqueue_pos
      BY <2>1, <3>1, <1>4, ClaimFindsFree, Zenon
    <3>3. Slot(pos[x]) # i
      BY <2>1, <3>1, <3>2, <1>2, <1>5, <1>6, Zenon
    <3> QED BY <3>1, <3>3, <1>3, Zenon
  <2>2. ASSUME NEW d \in Consumer, pc'[d] = "claim", pos[d] = dequeue_pos
        PROVE  sequence'[Slot(pos[d])] = pos[d] + 1
    <3>1. pc[d] = "claim" /\ sequence[Slot(pos[d])] = pos[d] + 1 /\ pos[d] \in Nat
      BY <2>2, <1>1, <1>2, Disjoint, ZenonT(30) DEF RingInv, Contenders
    <3>2. dequeue_pos < enqueue_pos
      BY <2>2, <3>1, ClaimFindsClosure, Zenon
    <3>3. Slot(pos[d]) # i
      BY <2>2, <3>1, <3>2, <1>2, <1>5, <1>6
    <3> QED BY <3>1, <3>3, <1>3, Zenon
  <2> QED BY <2>1, <2>2, <1>1, Disjoint, ZenonT(30) DEF RingInv, Contenders
<1> QED BY <1>8, <1>9, <1>10, <1>11, <1>12, Zenon DEF RingInv

-----------------------------------------------------------------------------
(* All the steps.                                                          *)

\* The steps of a producer outside TryEnqueue.
LEMMA ProducerElsewhere ==
    ASSUME TypeOK, RingInv, NEW x \in Producer,
           Submit(x) \/ Wake(x) \/ Exchange(x) \/ Signal(x) \/ Full(x) \/ AwaitDone(x)
    PROVE  RingInv'
<1>1. PICK l : Goto(x, l) /\ l \notin Busy
    BY DEF Submit, Wake, Exchange, Signal, Full, AwaitDone, Added, Busy
<1>2. UNCHANGED ring /\ UNCHANGED pos /\ pc[x] \notin Busy
    BY Zenon DEF Submit, Wake, Exchange, Signal, Full, AwaitDone, Busy
<1> QED BY <1>1, <1>2, Elsewhere, Disjoint, Zenon

\* The steps of a consumer outside TryDequeue.
LEMMA ConsumerElsewhere ==
    ASSUME TypeOK, RingInv, NEW c \in Consumer,
           \/ Top(c) \/ Run(c) \/ BatchDone(c) \/ BatchEmpty(c) \/ Idle(c) \/ Drained(c)
    PROVE  RingInv'
<1>1. UNCHANGED ring /\ UNCHANGED pos /\ pc[c] \notin Busy
    BY Zenon DEF Top, Run, BatchDone, BatchEmpty, Idle, EnterIdle, IdleYield, IdleAgain, IdleReset,
           SemBlock, SemTake, SemTimeout, IdleGot, LeaveIdle, Drained, Busy
<1>2. ASSUME Idle(c) PROVE \E l : Goto(c, l) /\ l \notin Busy
  <2>1. IdleLoop(c) => \E l : Goto(c, l) /\ l \notin Busy
    BY DEF IdleLoop, Busy
  <2>2. CASE EnterIdle(c) \/ IdleAgain(c) \/ SemTake(c) \/ SemTimeout(c)
    BY <2>1, <2>2, Zenon DEF EnterIdle, IdleAgain, SemTake, SemTimeout
  <2>3. CASE IdleYield(c) \/ IdleReset(c) \/ SemBlock(c) \/ LeaveIdle(c)
    BY <2>3 DEF IdleYield, IdleReset, SemBlock, LeaveIdle, Busy
  <2>4. CASE IdleGot(c)
    <3>1. Goto(c, "unidle") \/ Goto(c, "run")
      BY <2>4, Zenon DEF IdleGot
    <3> QED BY <3>1 DEF Busy
  <2> QED BY <1>2, <2>2, <2>3, <2>4, Zenon DEF Idle
<1>3. ASSUME Run(c) PROVE \E l : Goto(c, l) /\ l \notin Busy
  <2>1. phase[c] \in {"batch", "idle", "drain"}
    BY Zenon DEF TypeOK, RingType, ThreadType
  <2>2. CASE phase[c] = "batch"
    BY <1>3, <2>2 DEF Run, Busy
  <2>3. CASE phase[c] = "idle"
    BY <1>3, <2>3 DEF Run, Busy
  <2>4. CASE phase[c] = "drain"
    BY <1>3, <2>4 DEF Run, Busy
  <2> QED BY <2>1, <2>2, <2>3, <2>4, Zenon
<1>4. ASSUME Top(c) \/ BatchDone(c) \/ BatchEmpty(c) \/ Drained(c)
      PROVE  \E l : Goto(c, l) /\ l \notin Busy
    BY <1>4 DEF Top, BatchDone, BatchEmpty, Drained, Busy
<1>5. PICK l : Goto(c, l) /\ l \notin Busy
    BY <1>2, <1>3, <1>4, Zenon
<1> QED BY <1>1, <1>5, Elsewhere, Disjoint, Zenon

\* A step that moves no thread and no slot.
LEMMA RingStutter ==
    ASSUME RingInv, UNCHANGED <<ring, pc, pos>>
    PROVE  RingInv'
BY ZenonT(30) DEF RingInv, ring, Window, Writers, Readers, OneWriter, OneReader, Filled, Vacant, Contenders,
       Writing, Reading

\* Every step keeps the ring in order.
LEMMA RingStep == ASSUME TypeOK, RingInv, [Next]_vars PROVE RingInv'
<1>1. ASSUME NEW x \in Producer, Submit(x) \/ Produce(x) PROVE RingInv'
    BY <1>1, EnqLoadStep, EnqCheckStep, EnqClaimStep, EnqWriteStep, EnqPublishStep,
       ProducerElsewhere, Zenon DEF Produce, Enqueue
<1>2. ASSUME NEW c \in Consumer, Consume(c) PROVE RingInv'
  <2>1. CASE Suspend(c)
    BY <2>1, RingStutter, Zenon DEF Suspend
  <2>2. CASE ~Suspend(c)
    BY <1>2, <2>2, DeqLoadStep, DeqCheckStep, DeqClaimStep, DeqMoveStep, DeqReleaseStep,
       ConsumerElsewhere, Zenon DEF Consume, Dequeue
  <2> QED BY <2>1, <2>2, Zenon
<1>3. CASE Shutdown
    BY <1>3, RingStutter, Zenon DEF Shutdown
<1>4. CASE UNCHANGED vars
    BY <1>4, RingStutter, Zenon DEF vars
<1> QED BY <1>1, <1>2, <1>3, <1>4, Zenon DEF Next

\* The ring starts in order.
LEMMA RingInit == ASSUME Init PROVE RingInv
<1>1. /\ enqueue_pos = 0 /\ dequeue_pos = 0 /\ Capacity \in Nat
      /\ \A t \in Thread : pc[t] \in {"ready", "top"}
    BY CapacityAssumption, Zenon DEF Init
<1>2. \A t \in Thread : ~Writing(t) /\ ~Reading(t)
    BY <1>1, Zenon DEF Writing, Reading
<1>3. \A p \in 0 .. Capacity - 1 : sequence[Slot(p)] = p /\ storage[Slot(p)] = Empty
    BY SlotFirst, Zenon DEF Init
<1>4. Window /\ Filled
    BY <1>1 DEF Window, Filled
<1>5. Vacant
    BY <1>1, <1>3, SMTT(30) DEF Vacant
<1>6. Writers /\ Readers /\ OneWriter /\ OneReader /\ Contenders
    BY <1>1, <1>2, Disjoint, Zenon DEF Writers, Readers, OneWriter, OneReader, Contenders
<1> QED BY <1>4, <1>5, <1>6, Zenon DEF RingInv

\* A ring in order has no clash.
LEMMA RingImpliesNoClash == ASSUME TypeOK, RingInv PROVE NoSlotClash
<1>1. \A x \in Producer : Inside(x) <=> Writing(x)
    BY Zenon DEF Inside, Writing
<1>2. \A c \in Consumer : Inside(c) <=> Reading(c)
    BY Disjoint, Zenon DEF Inside, Reading
<1>3. ASSUME NEW t \in Thread, NEW u \in Thread, t # u, Inside(t), Inside(u)
      PROVE  Slot(pos[t]) # Slot(pos[u])
  <2>1. CASE t \in Producer /\ u \in Producer
    BY <1>1, <1>3, <2>1, WriterApart, Zenon
  <2>2. CASE t \in Producer /\ u \in Consumer
    BY <1>1, <1>2, <1>3, <2>2, WriterApart, Zenon
  <2>3. CASE t \in Consumer /\ u \in Producer
    BY <1>1, <1>2, <1>3, <2>3, WriterApart, Zenon
  <2>4. CASE t \in Consumer /\ u \in Consumer
    BY <1>2, <1>3, <2>4, ReaderApart, Zenon
  <2> QED BY <2>1, <2>2, <2>3, <2>4, Zenon DEF Thread
<1>4. \A x \in Producer : pc[x] = "write" => storage[Slot(pos[x])] = Empty
    BY Zenon DEF RingInv, Writers, Writing
<1>5. \A c \in Consumer : pc[c] = "move" => storage[Slot(pos[c])] # Empty
    BY Zenon DEF RingInv, Readers, Reading
<1> QED BY <1>3, <1>4, <1>5, Zenon DEF NoSlotClash

-----------------------------------------------------------------------------
(* The theorems.                                                           *)

\* The inductive invariant holds of every reachable state.
THEOREM QueueInvariant == Spec => [](TypeOK /\ BatchOpen /\ IdlePhase /\ RingInv)
<1>1. Init => TypeOK /\ BatchOpen /\ IdlePhase /\ RingInv
    BY TypeInit, RingInit, Zenon
<1>2. ASSUME TypeOK, BatchOpen, [Next]_vars PROVE TypeOK'
  <2>1. CASE UNCHANGED vars
    <3>1. RingType' /\ ThreadType'
      BY <1>2, <2>1, Zenon DEF vars, ring, TypeOK, RingType, ThreadType
    <3>2. WakeupType'
      BY <1>2, <2>1, Zenon DEF vars, wakeup, TypeOK, WakeupType
    <3> QED BY <3>1, <3>2, Zenon DEF TypeOK
  <2> QED BY <1>2, <2>1, ProducerType, ConsumerThreadType, ConsumerRingType, ConsumerWakeupType,
             ShutdownType, Zenon DEF Next, TypeOK
<1>3. TypeOK /\ BatchOpen /\ IdlePhase /\ RingInv /\ [Next]_vars
        => (TypeOK /\ BatchOpen /\ IdlePhase /\ RingInv)'
    BY <1>2, BatchStep, RingStep, Zenon
<1> QED BY <1>1, <1>3, PTL DEF Spec

\* Type correctness; in particular no consumer runs more than MaxBatch closures
\* in a batch.
THEOREM QueueTypes == Spec => []TypeOK
BY QueueInvariant, PTL

\* Mutual exclusion in the slots, for any number of threads and any capacity
\* that RoundUpPowerOfTwo can return: TryEnqueue never builds a closure over one
\* that is there and TryDequeue never moves one out of an empty slot.
THEOREM NoClash == Spec => []NoSlotClash
<1>1. TypeOK /\ RingInv => NoSlotClash
    BY RingImpliesNoClash, Zenon
<1> QED BY <1>1, QueueInvariant, PTL

-----------------------------------------------------------------------------
(* The ring as a channel.                                                  *)

\* A call that has not yet got its closure into the ring.
Trying == {"load", "check", "claim", "full"}

\* A closure that has got into the ring.
Submitted(f) ==
    \E x \in Producer, n \in 1 .. MaxCalls :
        f = <<x, n>> /\ n <= calls[x] /\ (n = calls[x] => pc[x] \notin Trying)

Positions == dequeue_pos .. enqueue_pos - 1

\* What is in the ring, in a consumer's hands or run has been submitted.
AllSubmitted ==
    /\ \A x \in Producer : pc[x] # "ready" => calls[x] >= 1
    /\ \A p \in Positions : Submitted(ClosureAt(p))
    /\ \A c \in Consumer : \A f \in InHand(c) : Submitted(f)
    /\ \A f \in ran : Submitted(f)

\* A closure is in one place only.
OnePlace ==
    /\ \A p, q \in Positions : p # q => ClosureAt(p) # ClosureAt(q)
    /\ \A p \in Positions, c \in Consumer : ClosureAt(p) \notin InHand(c)
    /\ \A c, d \in Consumer : c # d => \A f \in InHand(c) : f \notin InHand(d)

\* A consumer fiber holds the vCPU between the statements at which it yields.
Holding == {"load", "check", "claim", "move", "release", "none", "sem", "idle got", "unidle"}
Held == \A c \in Consumer : pc[c] \in Holding => turn = c

\* An idle consumer that dequeues has found the queue open, and it still is.
Dequeuing == {"load", "check", "claim", "move", "release", "idle got"}
IdleOpen == \A c \in Consumer : phase[c] = "idle" /\ pc[c] \in Dequeuing => ~is_closed

ChannelInv == AllSubmitted /\ OnePlace /\ Held /\ IdleOpen

\* What a step does to the channel: nothing, a producer's closure is accepted, a
\* consumer takes the oldest one, or it runs the one it has taken.
SameAt(ps) == \A p \in ps : ClosureAt(p)' = ClosureAt(p)
SameHands(cs) == \A c \in cs : InHand(c)' = InHand(c)
Stutters ==
    /\ enqueue_pos' = enqueue_pos /\ dequeue_pos' = dequeue_pos /\ SameAt(Positions)
    /\ SameHands(Consumer) /\ ran' = ran
Accepts(x) ==
    /\ pc[x] = "claim" /\ pc'[x] = "write" /\ enqueue_pos < dequeue_pos + Capacity
    /\ enqueue_pos' = enqueue_pos + 1 /\ dequeue_pos' = dequeue_pos /\ SameAt(Positions)
    /\ \A p \in Nat : p = enqueue_pos => ClosureAt(p)' = Mine(x)
    /\ SameHands(Consumer) /\ ran' = ran
Takes(c) ==
    /\ dequeue_pos < enqueue_pos
    /\ enqueue_pos' = enqueue_pos /\ dequeue_pos' = dequeue_pos + 1
    /\ SameAt(Positions \ {dequeue_pos})
    /\ InHand(c) = {} /\ InHand(c)' = {ClosureAt(dequeue_pos)} /\ SameHands(Consumer \ {c})
    /\ ran' = ran
Executes(c) ==
    /\ enqueue_pos' = enqueue_pos /\ dequeue_pos' = dequeue_pos /\ SameAt(Positions)
    /\ InHand(c) = {func[c]} /\ InHand(c)' = {} /\ SameHands(Consumer \ {c})
    /\ ran' = ran \cup {func[c]}

\* The only writer of a position is the one that ClosureAt chooses.
LEMMA OnlyWriter ==
    ASSUME NEW label, NEW at, NEW p, NEW x \in Producer, label[x] = "write" /\ at[x] = p,
           \A y \in Producer : label[y] = "write" /\ at[y] = p => y = x
    PROVE  (CHOOSE y \in Producer : label[y] = "write" /\ at[y] = p) = x
BY Zenon

LEMMA ClosureStays ==
    ASSUME OneWriter, OneWriter', NEW p,
           \A y \in Producer : pc'[y] = "write" /\ pos'[y] = p <=> pc[y] = "write" /\ pos[y] = p,
           \A y \in Producer : pc[y] = "write" => calls'[y] = calls[y],
           storage'[Slot(p)] = storage[Slot(p)]
    PROVE  ClosureAt(p)' = ClosureAt(p)
<1>1. CASE \E x \in Producer : pc[x] = "write" /\ pos[x] = p
  <2>1. PICK x \in Producer : pc[x] = "write" /\ pos[x] = p
    BY <1>1, Zenon
  <2>2. \A y \in Producer : pc[y] = "write" /\ pos[y] = p => y = x
    BY <2>1, Zenon DEF OneWriter, Writing
  <2>3. pc'[x] = "write" /\ pos'[x] = p /\ \A y \in Producer : pc'[y] = "write" /\ pos'[y] = p => y = x
    BY <2>1, <2>2, Zenon
  <2>4. (CHOOSE y \in Producer : pc[y] = "write" /\ pos[y] = p) = x
    BY <2>1, <2>2, OnlyWriter, Zenon
  <2>5. (CHOOSE y \in Producer : pc'[y] = "write" /\ pos'[y] = p) = x
    BY <2>3, OnlyWriter, Zenon
  <2> QED BY <2>1, <2>3, <2>4, <2>5, Zenon DEF ClosureAt, Mine
<1>2. CASE ~\E x \in Producer : pc[x] = "write" /\ pos[x] = p
  <2>1. ~\E x \in Producer : pc'[x] = "write" /\ pos'[x] = p
    BY <1>2, Zenon
  <2>2. ClosureAt(p) = storage[Slot(p)]
    BY <1>2, Zenon DEF ClosureAt
  <2>3. ClosureAt(p)' = storage'[Slot(p)]
    BY <2>1, Zenon DEF ClosureAt
  <2> QED BY <2>2, <2>3, Zenon
<1> QED BY <1>1, <1>2, Zenon

LEMMA PositionType ==
    ASSUME TypeOK
    PROVE  /\ \A p \in Positions : p \in Nat /\ dequeue_pos <= p /\ p < enqueue_pos
           /\ \A p \in Nat : dequeue_pos <= p /\ p < enqueue_pos => p \in Positions
BY DEF Positions, TypeOK, RingType

\* A producer's step that neither starts nor ends the writing of a closure.
LEMMA ProducerQuiet ==
    ASSUME RingInv, RingInv', NEW x \in Producer, pc[x] # "write", pc'[x] # "write",
           UNCHANGED <<storage, enqueue_pos, dequeue_pos, func, ran>>,
           \A y \in Thread : y # x => pc'[y] = pc[y] /\ pos'[y] = pos[y],
           \A y \in Producer : y # x => calls'[y] = calls[y]
    PROVE  Stutters
<1>1. ASSUME NEW p \in Positions PROVE ClosureAt(p)' = ClosureAt(p)
  <2>1. \A y \in Producer : pc'[y] = "write" /\ pos'[y] = p <=> pc[y] = "write" /\ pos[y] = p
    BY Disjoint, Zenon
  <2>2. \A y \in Producer : pc[y] = "write" => calls'[y] = calls[y]
    BY Zenon
  <2> QED BY <2>1, <2>2, ClosureStays, Zenon DEF RingInv
<1>2. ASSUME NEW c \in Consumer PROVE InHand(c)' = InHand(c)
  <2>1. pc'[c] = pc[c] /\ pos'[c] = pos[c]
    BY Disjoint, Zenon
  <2> QED BY <2>1, Zenon DEF InHand
<1> QED BY <1>1, <1>2, Zenon DEF Stutters, SameAt, SameHands

LEMMA EnqWriteQuiet ==
    ASSUME TypeOK, RingInv, RingInv', NEW x \in Producer, EnqWrite(x)
    PROVE  Stutters
<1>1. /\ pc[x] = "write" /\ pc'[x] = "publish" /\ \A u \in Thread : u # x => pc'[u] = pc[u]
      /\ UNCHANGED <<enqueue_pos, dequeue_pos, pos, func, calls, ran>>
      /\ storage' = [storage EXCEPT ![Slot(pos[x])] = Mine(x)]
    BY GotoOne, Disjoint, Zenon DEF EnqWrite
<1>2. pos[x] \in Nat /\ storage \in [0 .. Capacity - 1 -> Closure \cup {Empty}]
    BY Disjoint, Zenon DEF TypeOK, RingType, ThreadType
<1>3. storage'[Slot(pos[x])] = Mine(x) /\ \A i : i \in 0 .. Capacity - 1 /\ i # Slot(pos[x]) => storage'[i] = storage[i]
    BY <1>1, <1>2, SlotType, Zenon
<1>4. Writing(x)
    BY <1>1, Zenon DEF Writing
<1>5. /\ \A p \in Nat : dequeue_pos <= p /\ p < dequeue_pos + Capacity /\ p # pos[x] => Slot(p) # Slot(pos[x])
      /\ \A c \in Consumer : Reading(c) => Slot(pos[c]) # Slot(pos[x])
    BY <1>4, WriterApart, Zenon
<1>6. ASSUME NEW p \in Positions, p # pos[x] PROVE ClosureAt(p)' = ClosureAt(p)
  <2>1. p \in Nat /\ Slot(p) # Slot(pos[x]) /\ Slot(p) \in 0 .. Capacity - 1
    <3>1. p \in Nat /\ dequeue_pos <= p /\ p < dequeue_pos + Capacity
        BY PositionType, CapacityAssumption DEF RingInv, Window, TypeOK, RingType
    <3> QED BY <1>5, <1>6, <3>1, SlotType, Zenon
  <2>2. storage'[Slot(p)] = storage[Slot(p)]
    BY <1>3, <2>1, Zenon
  <2>3. \A y \in Producer : pc'[y] = "write" /\ pos'[y] = p <=> pc[y] = "write" /\ pos[y] = p
    BY <1>1, <1>6, Disjoint, Zenon
  <2>4. \A y \in Producer : pc[y] = "write" => calls'[y] = calls[y]
    BY <1>1, Zenon
  <2> QED BY <2>2, <2>3, <2>4, ClosureStays, Zenon DEF RingInv
<1>7. ASSUME NEW p, p = pos[x] PROVE ClosureAt(p)' = ClosureAt(p)
  <2>1. \A y \in Producer : pc[y] = "write" /\ pos[y] = p => y = x
    BY <1>4, <1>7, Zenon DEF RingInv, OneWriter, Writing
  <2>2. ClosureAt(p) = Mine(x)
    <3>1. (CHOOSE y \in Producer : pc[y] = "write" /\ pos[y] = p) = x
        BY <1>1, <1>7, <2>1, OnlyWriter, Zenon
    <3> QED BY <1>1, <1>7, <3>1, Zenon DEF ClosureAt
  <2>3. ~\E y \in Producer : pc'[y] = "write" /\ pos'[y] = p
    BY <1>1, <2>1, Disjoint, Zenon
  <2>4. ClosureAt(p)' = storage'[Slot(p)]
    BY <2>3, Zenon DEF ClosureAt
  <2> QED BY <1>3, <1>7, <2>2, <2>4, Zenon
<1>8. ASSUME NEW c \in Consumer PROVE InHand(c)' = InHand(c)
  <2>1. pc'[c] = pc[c] /\ pos'[c] = pos[c] /\ func' = func /\ pos[c] \in Nat
    BY <1>1, Disjoint, Zenon DEF TypeOK, ThreadType
  <2>2. pc[c] = "move" => storage'[Slot(pos[c])] = storage[Slot(pos[c])]
    BY <1>3, <1>5, <2>1, SlotType, Zenon DEF Reading
  <2> QED BY <2>1, <2>2, Zenon DEF InHand
<1> QED BY <1>1, <1>6, <1>7, <1>8, Zenon DEF Stutters, SameAt, SameHands

LEMMA EnqClaimAccepts ==
    ASSUME TypeOK, RingInv, RingInv', NEW x \in Producer, EnqClaim(x), enqueue_pos = pos[x]
    PROVE  Accepts(x)
<1>1. /\ pc[x] = "claim" /\ pc'[x] = "write" /\ \A u \in Thread : u # x => pc'[u] = pc[u]
      /\ UNCHANGED <<storage, dequeue_pos, pos, func, calls, ran>> /\ enqueue_pos' = enqueue_pos + 1
    BY GotoOne, Disjoint, Zenon DEF EnqClaim
<1>2. enqueue_pos < dequeue_pos + Capacity
    BY <1>1, ClaimFindsFree, Zenon
<1>3. ASSUME NEW p \in Positions PROVE ClosureAt(p)' = ClosureAt(p)
  <2>1. p # enqueue_pos
    BY PositionType DEF TypeOK, RingType
  <2>2. \A y \in Producer : pc'[y] = "write" /\ pos'[y] = p <=> pc[y] = "write" /\ pos[y] = p
    BY <1>1, <2>1, Disjoint, Zenon
  <2>3. \A y \in Producer : pc[y] = "write" => calls'[y] = calls[y]
    BY <1>1, Zenon
  <2> QED BY <1>1, <2>2, <2>3, ClosureStays, Zenon DEF RingInv
<1>4. ASSUME NEW p, p = enqueue_pos PROVE ClosureAt(p)' = Mine(x)
  <2>1. pc'[x] = "write" /\ pos'[x] = p
    BY <1>1, <1>4, Zenon
  <2>2. \A y \in Producer : pc'[y] = "write" /\ pos'[y] = p => y = x
    BY <2>1, Zenon DEF RingInv, OneWriter, Writing
  <2>3. (CHOOSE y \in Producer : pc'[y] = "write" /\ pos'[y] = p) = x
    BY <2>1, <2>2, OnlyWriter, Zenon
  <2> QED BY <1>1, <2>1, <2>3, Zenon DEF ClosureAt, Mine
<1>5. ASSUME NEW c \in Consumer PROVE InHand(c)' = InHand(c)
  <2>1. pc'[c] = pc[c] /\ pos'[c] = pos[c]
    BY <1>1, Disjoint, Zenon
  <2> QED BY <1>1, <2>1, Zenon DEF InHand
<1> QED BY <1>1, <1>2, <1>3, <1>4, <1>5, Zenon DEF Accepts, SameAt, SameHands

\* Every step of a producer.
LEMMA ProducerEffect ==
    ASSUME TypeOK, RingInv, RingInv', NEW x \in Producer, Submit(x) \/ Produce(x)
    PROVE  Stutters \/ Accepts(x)
<1> USE Disjoint
<1>1. CASE EnqWrite(x)
    BY <1>1, EnqWriteQuiet, Zenon
<1>2. CASE EnqClaim(x)
  <2>1. CASE enqueue_pos = pos[x]
    BY <1>2, <2>1, EnqClaimAccepts, Zenon
  <2>2. CASE enqueue_pos # pos[x]
    <3>1. /\ pc[x] = "claim" /\ pc'[x] = "load" /\ \A u \in Thread : u # x => pc'[u] = pc[u]
          /\ UNCHANGED <<storage, enqueue_pos, dequeue_pos, pos, func, calls, ran>>
        BY <1>2, <2>2, GotoOne, Zenon DEF EnqClaim
    <3> QED BY <3>1, ProducerQuiet, Zenon
  <2> QED BY <2>1, <2>2, Zenon
<1>3. CASE EnqCheck(x)
  <2>1. sequence[Slot(pos[x])] \in Nat /\ pos[x] \in Nat
    BY SlotType, Zenon DEF TypeOK, RingType, ThreadType
  <2>2. PICK l \in {"claim", "full", "load"} : Goto(x, l)
    BY <1>3, <2>1 DEF EnqCheck
  <2>3. /\ pc[x] = "check" /\ pc'[x] = l /\ \A u \in Thread : u # x => pc'[u] = pc[u]
        /\ UNCHANGED <<storage, enqueue_pos, dequeue_pos, pos, func, calls, ran>>
    BY <1>3, <2>2, GotoOne, Zenon DEF EnqCheck, ring
  <2> QED BY <2>2, <2>3, ProducerQuiet, Zenon
<1>4. CASE Submit(x)
  <2>1. /\ pc[x] = "ready" /\ pc'[x] = "load" /\ \A u \in Thread : u # x => pc'[u] = pc[u]
        /\ UNCHANGED <<storage, enqueue_pos, dequeue_pos, pos, func, ran>>
        /\ \A y \in Producer : y # x => calls'[y] = calls[y]
    BY <1>4, GotoOne, Zenon DEF Submit, ring, TypeOK, ThreadType
  <2> QED BY <2>1, ProducerQuiet, Zenon
<1>5. CASE EnqLoad(x)
  <2>1. /\ pc[x] = "load" /\ pc'[x] = "check" /\ \A u \in Thread : u # x => pc'[u] = pc[u] /\ pos'[u] = pos[u]
        /\ UNCHANGED <<storage, enqueue_pos, dequeue_pos, func, calls, ran>>
    BY <1>5, GotoOne, Zenon DEF EnqLoad, ring, TypeOK, ThreadType
  <2> QED BY <2>1, ProducerQuiet, Zenon
<1>6. CASE EnqPublish(x) \/ Wake(x) \/ Exchange(x) \/ Signal(x) \/ Full(x) \/ AwaitDone(x)
  <2>1. PICK l \in {"wake", "wait", "ready", "exchange", "signal", "load"} : Goto(x, l)
    BY <1>6, Zenon DEF EnqPublish, Wake, Exchange, Signal, Full, AwaitDone, Added
  <2>2. /\ pc[x] # "write" /\ UNCHANGED <<storage, enqueue_pos, dequeue_pos, pos, func, calls, ran>>
    BY <1>6, Zenon DEF EnqPublish, Wake, Exchange, Signal, Full, AwaitDone, ring
  <2>3. pc'[x] = l /\ \A u \in Thread : u # x => pc'[u] = pc[u]
    BY <2>1, GotoOne, Zenon
  <2> QED BY <2>1, <2>2, <2>3, ProducerQuiet, Zenon
<1> QED BY <1>1, <1>2, <1>3, <1>4, <1>5, <1>6, Zenon DEF Produce, Enqueue

\* The consumer's closures that a step of another thread leaves alone.
LEMMA HandsStay ==
    ASSUME NEW c \in Consumer, NEW d \in Consumer, d # c,
           pc'[d] = pc[d], pos'[d] = pos[d], func'[d] = func[d],
           pc[d] = "move" => storage'[Slot(pos[d])] = storage[Slot(pos[d])]
    PROVE  InHand(d)' = InHand(d)
BY Zenon DEF InHand

\* A consumer's step that touches neither the closures in the ring nor the one
\* in its hand.
LEMMA ConsumerQuiet ==
    ASSUME RingInv, RingInv', NEW c \in Consumer, InHand(c)' = InHand(c),
           UNCHANGED <<storage, enqueue_pos, dequeue_pos, calls, ran>>,
           \A u \in Thread : u # c => pc'[u] = pc[u] /\ pos'[u] = pos[u],
           \A d \in Consumer : d # c => func'[d] = func[d]
    PROVE  Stutters
<1>1. ASSUME NEW p \in Positions PROVE ClosureAt(p)' = ClosureAt(p)
  <2>1. \A y \in Producer : pc'[y] = "write" /\ pos'[y] = p <=> pc[y] = "write" /\ pos[y] = p
    BY Disjoint, Zenon
  <2> QED BY <2>1, ClosureStays, Zenon DEF RingInv
<1>2. ASSUME NEW d \in Consumer, d # c PROVE InHand(d)' = InHand(d)
    BY <1>2, HandsStay, Disjoint, Zenon
<1> QED BY <1>1, <1>2, Zenon DEF Stutters, SameAt, SameHands

LEMMA DeqClaimTakes ==
    ASSUME TypeOK, RingInv, RingInv', NEW c \in Consumer, DeqClaim(c), dequeue_pos = pos[c]
    PROVE  Takes(c)
<1>1. /\ pc[c] = "claim" /\ pc'[c] = "move" /\ \A u \in Thread : u # c => pc'[u] = pc[u]
      /\ UNCHANGED <<storage, enqueue_pos, pos, func, calls, ran>> /\ dequeue_pos' = dequeue_pos + 1
    BY GotoOne, Disjoint, Zenon DEF DeqClaim
<1>2. dequeue_pos < enqueue_pos /\ \A x \in Producer : Writing(x) => pos[x] # dequeue_pos
    BY <1>1, ClaimFindsClosure, Zenon
<1>3. ASSUME NEW p PROVE ClosureAt(p)' = ClosureAt(p)
  <2>1. \A y \in Producer : pc'[y] = "write" /\ pos'[y] = p <=> pc[y] = "write" /\ pos[y] = p
    BY <1>1, Disjoint, Zenon
  <2> QED BY <1>1, <2>1, ClosureStays, Zenon DEF RingInv
<1>4. InHand(c) = {} /\ InHand(c)' = {storage[Slot(dequeue_pos)]}
    BY <1>1, Zenon DEF InHand
<1>5. ClosureAt(dequeue_pos) = storage[Slot(dequeue_pos)]
  <2>1. ~\E x \in Producer : pc[x] = "write" /\ pos[x] = dequeue_pos
    BY <1>2, Zenon DEF Writing
  <2> QED BY <2>1, Zenon DEF ClosureAt
<1>6. ASSUME NEW d \in Consumer, d # c PROVE InHand(d)' = InHand(d)
    BY <1>1, <1>6, HandsStay, Disjoint, Zenon
<1> QED BY <1>1, <1>2, <1>3, <1>4, <1>5, <1>6, Zenon DEF Takes, SameAt, SameHands

LEMMA DeqMoveQuiet ==
    ASSUME TypeOK, RingInv, RingInv', NEW c \in Consumer, DeqMove(c)
    PROVE  Stutters
<1>1. /\ pc[c] = "move" /\ pc'[c] = "release" /\ \A u \in Thread : u # c => pc'[u] = pc[u]
      /\ UNCHANGED <<enqueue_pos, dequeue_pos, pos, calls, ran>>
      /\ storage' = [storage EXCEPT ![Slot(pos[c])] = Empty]
      /\ func' = [func EXCEPT ![c] = storage[Slot(pos[c])]]
    BY GotoOne, Disjoint, Zenon DEF DeqMove
<1>2. /\ pos[c] \in Nat /\ storage \in [0 .. Capacity - 1 -> Closure \cup {Empty}]
      /\ DOMAIN func = Consumer
    BY Disjoint, Zenon DEF TypeOK, RingType, ThreadType
<1>3. /\ \A i : i \in 0 .. Capacity - 1 /\ i # Slot(pos[c]) => storage'[i] = storage[i]
      /\ func'[c] = storage[Slot(pos[c])] /\ \A d \in Consumer : d # c => func'[d] = func[d]
    BY <1>1, <1>2, SlotType, Zenon
<1>4. Reading(c)
    BY <1>1, Zenon DEF Reading
<1>5. /\ \A p \in Nat : dequeue_pos <= p /\ p < dequeue_pos + Capacity /\ p # pos[c] + Capacity
                        => Slot(p) # Slot(pos[c])
      /\ \A d \in Consumer : Reading(d) /\ d # c => Slot(pos[d]) # Slot(pos[c])
    BY <1>4, ReaderApart, Zenon
<1>6. ASSUME NEW p \in Positions PROVE ClosureAt(p)' = ClosureAt(p)
  <2>1. p \in Nat /\ Slot(p) # Slot(pos[c]) /\ Slot(p) \in 0 .. Capacity - 1
    <3>1. p \in Nat /\ dequeue_pos <= p /\ p < enqueue_pos /\ dequeue_pos \in Nat /\ enqueue_pos \in Nat
        BY PositionType, Zenon DEF TypeOK, RingType
    <3>2. enqueue_pos <= pos[c] + Capacity /\ enqueue_pos <= dequeue_pos + Capacity
        BY <1>4, Zenon DEF RingInv, Readers, Window
    <3>3. p < dequeue_pos + Capacity /\ p # pos[c] + Capacity
        BY <1>2, <3>1, <3>2, CapacityAssumption
    <3> QED BY <1>5, <3>1, <3>3, SlotType, Zenon
  <2>2. storage'[Slot(p)] = storage[Slot(p)]
    BY <1>3, <2>1, Zenon
  <2>3. \A y \in Producer : pc'[y] = "write" /\ pos'[y] = p <=> pc[y] = "write" /\ pos[y] = p
    BY <1>1, Disjoint, Zenon
  <2>4. \A y \in Producer : pc[y] = "write" => calls'[y] = calls[y]
    BY <1>1, Zenon
  <2> QED BY <2>2, <2>3, <2>4, ClosureStays, Zenon DEF RingInv
<1>7. InHand(c)' = InHand(c)
    BY <1>1, <1>3, Zenon DEF InHand
<1>8. ASSUME NEW d \in Consumer, d # c PROVE InHand(d)' = InHand(d)
  <2>1. pc[d] = "move" => storage'[Slot(pos[d])] = storage[Slot(pos[d])]
    BY <1>3, <1>5, <1>8, SlotType, Disjoint DEF Reading, TypeOK, ThreadType
  <2>2. pc'[d] = pc[d] /\ pos'[d] = pos[d] /\ func'[d] = func[d]
    BY <1>1, <1>3, <1>8, Disjoint, Zenon
  <2> QED BY <1>8, <2>1, <2>2, HandsStay, Zenon
<1> QED BY <1>1, <1>6, <1>7, <1>8, Zenon DEF Stutters, SameAt, SameHands

LEMMA RunExecutes ==
    ASSUME TypeOK, RingInv, RingInv', NEW c \in Consumer, Run(c)
    PROVE  Executes(c)
<1>1. PICK l \in {"unidle", "load", "none"} : Goto(c, l)
  <2>1. phase[c] \in {"batch", "idle", "drain"}
    BY Zenon DEF TypeOK, ThreadType
  <2> QED BY <2>1, Zenon DEF Run
<1>2. /\ pc[c] = "run" /\ pc'[c] = l /\ \A u \in Thread : u # c => pc'[u] = pc[u]
      /\ UNCHANGED <<storage, enqueue_pos, dequeue_pos, pos, func, calls>> /\ ran' = ran \cup {func[c]}
    BY <1>1, GotoOne, Disjoint, Zenon DEF Run, ring
<1>3. ASSUME NEW p PROVE ClosureAt(p)' = ClosureAt(p)
  <2>1. \A y \in Producer : pc'[y] = "write" /\ pos'[y] = p <=> pc[y] = "write" /\ pos[y] = p
    BY <1>2, Disjoint, Zenon
  <2> QED BY <1>2, <2>1, ClosureStays, Zenon DEF RingInv
<1>4. InHand(c) = {func[c]} /\ InHand(c)' = {}
    BY <1>1, <1>2, Zenon DEF InHand
<1>5. ASSUME NEW d \in Consumer, d # c PROVE InHand(d)' = InHand(d)
    BY <1>2, <1>5, HandsStay, Disjoint, Zenon
<1> QED BY <1>2, <1>3, <1>4, <1>5, Zenon DEF Executes, SameAt, SameHands

\* Every step of a consumer.
LEMMA ConsumerEffect ==
    ASSUME TypeOK, IdlePhase, RingInv, RingInv', Held, IdleOpen, NEW c \in Consumer, Consume(c)
    PROVE  Stutters \/ Takes(c) \/ Executes(c)
<1> USE Disjoint
<1> DEFINE Laden == {"move", "release", "idle got", "run"}
<1>1. ASSUME pc[c] \notin Laden, NEW l, l \notin Laden, Goto(c, l), UNCHANGED <<ring, func, calls, ran>>,
             \A u \in Thread : u # c => pos'[u] = pos[u]
      PROVE  Stutters
  <2>1. pc'[c] = l /\ \A u \in Thread : u # c => pc'[u] = pc[u]
    BY <1>1, GotoOne, Zenon
  <2>2. InHand(c) = {}
    BY <1>1, Zenon DEF InHand
  <2>3. InHand(c)' = {}
    BY <1>1, <2>1, Zenon DEF InHand
  <2> QED BY <1>1, <2>1, <2>2, <2>3, ConsumerQuiet, Zenon DEF ring
<1>2. CASE Run(c)
    BY <1>2, RunExecutes, Zenon
<1>3. CASE DeqMove(c)
    BY <1>3, DeqMoveQuiet, Zenon
<1>4. CASE DeqClaim(c)
  <2>1. CASE dequeue_pos = pos[c]
    BY <1>4, <2>1, DeqClaimTakes, Zenon
  <2>2. CASE dequeue_pos # pos[c]
    BY <1>1, <1>4, <2>2, Zenon DEF DeqClaim, ring
  <2> QED BY <2>1, <2>2, Zenon
<1>5. CASE DeqCheck(c)
  <2>1. sequence[Slot(pos[c])] \in Nat /\ pos[c] \in Nat
    BY SlotType, Zenon DEF TypeOK, RingType, ThreadType
  <2>2. PICK l \in {"claim", "none", "load"} : Goto(c, l)
    BY <1>5, <2>1 DEF DeqCheck
  <2> QED BY <1>1, <1>5, <2>2, Zenon DEF DeqCheck
<1>6. CASE DeqLoad(c)
  <2>1. \A u \in Thread : u # c => pos'[u] = pos[u]
    BY <1>6, Zenon DEF DeqLoad, TypeOK, ThreadType
  <2> QED BY <1>1, <1>6, <2>1, Zenon DEF DeqLoad
<1>7. CASE DeqRelease(c)
  <2>1. PICK l \in {"idle got", "run"} : Goto(c, l)
    BY <1>7, Zenon DEF DeqRelease
  <2>2. /\ pc[c] = "release" /\ pc'[c] = l /\ \A u \in Thread : u # c => pc'[u] = pc[u]
        /\ UNCHANGED <<storage, enqueue_pos, dequeue_pos, pos, func, calls, ran>>
    BY <1>7, <2>1, GotoOne, Zenon DEF DeqRelease
  <2>3. InHand(c)' = InHand(c)
    BY <2>1, <2>2, Zenon DEF InHand
  <2> QED BY <2>2, <2>3, ConsumerQuiet, Zenon
<1>8. CASE IdleGot(c)
  <2>1. pc[c] = "idle got" /\ phase[c] = "idle" /\ ~is_closed
    BY <1>8, Zenon DEF IdleGot, IdlePhase, IdleOpen, Dequeuing
  <2>2. /\ pc'[c] = "run" /\ \A u \in Thread : u # c => pc'[u] = pc[u]
        /\ UNCHANGED <<storage, enqueue_pos, dequeue_pos, pos, func, calls, ran>>
    BY <1>8, <2>1, GotoOne, Zenon DEF IdleGot, ring
  <2>3. InHand(c)' = InHand(c)
    BY <2>1, <2>2, Zenon DEF InHand
  <2> QED BY <2>2, <2>3, ConsumerQuiet, Zenon
<1>9. CASE Suspend(c)
  <2>1. UNCHANGED <<storage, enqueue_pos, dequeue_pos, pc, pos, func, calls, ran>>
    BY <1>9, Zenon DEF Suspend, ring
  <2>2. InHand(c)' = InHand(c)
    BY <2>1, Zenon DEF InHand
  <2> QED BY <2>1, <2>2, ConsumerQuiet, Zenon
<1>10. CASE Top(c) \/ BatchDone(c) \/ BatchEmpty(c) \/ Drained(c)
    BY <1>1, <1>10, Zenon DEF Top, BatchDone, BatchEmpty, Drained
<1>11. CASE EnterIdle(c) \/ IdleYield(c) \/ IdleAgain(c) \/ IdleReset(c)
    BY <1>1, <1>11, Zenon DEF EnterIdle, IdleYield, IdleAgain, IdleReset, IdleLoop
<1>12. CASE SemBlock(c) \/ SemTake(c) \/ SemTimeout(c) \/ LeaveIdle(c)
    BY <1>1, <1>12, Zenon DEF SemBlock, SemTake, SemTimeout, LeaveIdle, IdleLoop
<1> QED BY <1>2, <1>3, <1>4, <1>5, <1>6, <1>7, <1>8, <1>9, <1>10, <1>11, <1>12 DEF Consume, Dequeue, Idle

\* Every step of the queue.
LEMMA Effect ==
    ASSUME TypeOK, IdlePhase, RingInv, RingInv', Held, IdleOpen, [Next]_vars
    PROVE  Stutters \/ (\E x \in Producer : Accepts(x)) \/ \E c \in Consumer : Takes(c) \/ Executes(c)
<1>1. CASE Shutdown \/ UNCHANGED vars
  <2>1. UNCHANGED <<storage, enqueue_pos, dequeue_pos, pc, pos, func, calls, ran>>
    BY <1>1, Zenon DEF Shutdown, vars, ring
  <2>2. ASSUME NEW p PROVE ClosureAt(p)' = ClosureAt(p)
    BY <2>1, ClosureStays, Zenon DEF RingInv
  <2>3. ASSUME NEW c \in Consumer PROVE InHand(c)' = InHand(c)
    BY <2>1, Zenon DEF InHand
  <2> QED BY <2>1, <2>2, <2>3, Zenon DEF Stutters, SameAt, SameHands
<1> QED BY <1>1, ProducerEffect, ConsumerEffect, Zenon DEF Next

-----------------------------------------------------------------------------
(* The fibers of the vCPU take turns.                                      *)

\* A consumer's step: it gives the vCPU away only where it yields, and it does
\* not dequeue in the idle phase once the queue is closed.
LEMMA ConsumerTurn ==
    ASSUME TypeOK, IdlePhase, IdleOpen, NEW c \in Consumer, Consume(c)
    PROVE  /\ turn \in {c, Free} /\ UNCHANGED <<is_closed, owed, calls>>
           /\ \A u \in Thread : u # c => pc'[u] = pc[u]
           /\ \A d \in Consumer : d # c => phase'[d] = phase[d]
           /\ turn' = c \/ pc'[c] \notin Holding
           /\ phase'[c] = "idle" /\ pc'[c] \in Dequeuing => ~is_closed
<1> USE Disjoint
<1> DEFINE Goal == /\ turn \in {c, Free} /\ UNCHANGED <<is_closed, owed, calls>>
                   /\ \A u \in Thread : u # c => pc'[u] = pc[u]
                   /\ \A d \in Consumer : d # c => phase'[d] = phase[d]
                   /\ turn' = c \/ pc'[c] \notin Holding
                   /\ phase'[c] = "idle" /\ pc'[c] \in Dequeuing => ~is_closed
<1>1. ASSUME turn \in {c, Free}, UNCHANGED <<is_closed, owed, calls, phase>>, NEW l, Goto(c, l),
             turn' = c \/ l \notin Holding, phase[c] = "idle" /\ l \in Dequeuing => ~is_closed
      PROVE  Goal
    BY <1>1, GotoOne, Zenon
<1> SUFFICES Goal
    BY Zenon
<1> HIDE DEF Goal
<1>2. phase[c] = "idle" /\ pc[c] \in Dequeuing => ~is_closed
    BY Zenon DEF IdleOpen, Dequeuing
<1>3. CASE Top(c)
  <2>1. phase'[c] # "idle" /\ \A d \in Consumer : d # c => phase'[d] = phase[d]
    BY <1>3, Zenon DEF Top, TypeOK, ThreadType
  <2> QED BY <1>3, <2>1, GotoOne, Zenon DEF Top, Running, Keep, Goal
<1>4. CASE DeqLoad(c) \/ DeqMove(c)
  <2>1. PICK l \in {"check", "release"} : Goto(c, l)
    BY <1>4, Zenon DEF DeqLoad, DeqMove
  <2> QED BY <1>1, <1>2, <1>4, <2>1, Zenon DEF DeqLoad, DeqMove, Running, Keep, Dequeuing
<1>5. CASE DeqCheck(c)
  <2>1. \E l : Goto(c, l)
    BY <1>5, Zenon DEF DeqCheck
  <2>2. PICK l : Goto(c, l)
    BY <2>1, Zenon
  <2> QED BY <1>1, <1>2, <1>5, <2>2, Zenon DEF DeqCheck, Running, Keep, Dequeuing
<1>6. CASE DeqClaim(c) \/ DeqRelease(c)
  <2>1. PICK l : Goto(c, l)
    BY <1>6, Zenon DEF DeqClaim, DeqRelease
  <2> QED BY <1>1, <1>2, <1>6, <2>1, Zenon DEF DeqClaim, DeqRelease, Running, Keep, Dequeuing
<1>7. CASE Run(c)
  <2>1. phase[c] \in {"batch", "idle", "drain"}
    BY Zenon DEF TypeOK, ThreadType
  <2>2. PICK l : Goto(c, l) /\ (phase[c] = "idle" => l = "unidle")
    BY <1>7, <2>1, Zenon DEF Run
  <2> QED BY <1>1, <1>7, <2>2, Zenon DEF Run, Running, Keep, Dequeuing
<1>8. CASE Suspend(c)
    BY <1>8, Zenon DEF Suspend, Yield, Holding, Dequeuing, Goal
<1>9. CASE BatchDone(c) \/ Drained(c)
    BY <1>1, <1>9, Zenon DEF BatchDone, Drained, Running, Yield, Holding, Dequeuing
<1>10. CASE BatchEmpty(c)
  <2>1. \A d \in Consumer : d # c => phase'[d] = phase[d]
    BY <1>10, Zenon DEF BatchEmpty, TypeOK, ThreadType
  <2>2. pc'[c] = "idler" /\ \A u \in Thread : u # c => pc'[u] = pc[u]
    BY <1>10, GotoOne, Zenon DEF BatchEmpty
  <2>3. turn \in {c, Free} /\ UNCHANGED <<is_closed, owed, calls>>
    BY <1>10, Zenon DEF BatchEmpty, Running
  <2>4. pc'[c] \notin Holding /\ pc'[c] \notin Dequeuing
    BY <2>2, Zenon DEF Holding, Dequeuing
  <2> QED BY <2>1, <2>2, <2>3, <2>4, Zenon DEF Goal
<1>11. CASE EnterIdle(c) \/ IdleAgain(c) \/ SemTake(c) \/ SemTimeout(c)
  <2>1. PICK l : Goto(c, l) /\ (l \in Dequeuing => ~is_closed)
    <3>1. IdleLoop(c)
        BY <1>11, Zenon DEF EnterIdle, IdleAgain, SemTake, SemTimeout
    <3>2. (is_closed /\ Goto(c, "unidle")) \/ (~is_closed /\ Goto(c, "load"))
        BY <3>1, Zenon DEF IdleLoop
    <3>3. "unidle" \notin Dequeuing
        BY Zenon DEF Dequeuing
    <3> QED BY <3>2, <3>3, Zenon
  <2> QED BY <1>1, <1>11, <2>1, Zenon DEF EnterIdle, IdleAgain, SemTake, SemTimeout, Running, Keep
<1>12. CASE IdleYield(c) \/ SemBlock(c)
    BY <1>1, <1>12, Zenon DEF IdleYield, SemBlock, Running, Yield, Holding, Dequeuing
<1>13. CASE IdleReset(c) \/ LeaveIdle(c)
    BY <1>1, <1>13, Zenon DEF IdleReset, LeaveIdle, Running, Keep, Dequeuing
<1>14. CASE IdleGot(c)
  <2>1. PICK l \in {"unidle", "run"} : Goto(c, l)
    BY <1>14, Zenon DEF IdleGot
  <2>2. l \notin Dequeuing
    BY Zenon DEF Dequeuing
  <2> QED BY <1>1, <1>14, <2>1, <2>2, Zenon DEF IdleGot, Running, Keep
<1> QED
    BY <1>3, <1>4, <1>5, <1>6, <1>7, <1>8, <1>9, <1>10, <1>11, <1>12, <1>13, <1>14
       DEF Consume, Dequeue, Idle

\* A producer's step leaves the fibers alone.
LEMMA ProducerApart ==
    ASSUME TypeOK, NEW x \in Producer, Submit(x) \/ Produce(x)
    PROVE  /\ UNCHANGED <<turn, phase, is_closed, owed>> /\ \A u \in Thread : u # x => pc'[u] = pc[u]
           /\ pc[x] = "ready" => Submit(x)
<1> USE Disjoint
<1>1. \E l : Goto(x, l)
  <2>1. EnqCheck(x) => \E l : Goto(x, l)
    BY Zenon DEF EnqCheck
  <2>2. EnqClaim(x) \/ Wake(x) \/ Exchange(x) \/ Full(x) => \E l : Goto(x, l)
    BY Zenon DEF EnqClaim, Wake, Exchange, Full
  <2>3. Submit(x) \/ EnqLoad(x) \/ EnqWrite(x) \/ EnqPublish(x) \/ Signal(x) \/ AwaitDone(x) => \E l : Goto(x, l)
    BY Zenon DEF Submit, EnqLoad, EnqWrite, EnqPublish, Signal, AwaitDone
  <2> QED BY <2>1, <2>2, <2>3, Zenon DEF Produce, Enqueue
<1>2. UNCHANGED <<turn, phase, is_closed, owed>> /\ (pc[x] = "ready" => Submit(x))
    BY Zenon DEF Produce, Enqueue, Submit, EnqLoad, EnqCheck, EnqClaim, EnqWrite, EnqPublish, Wake, Exchange, Signal,
           Full, AwaitDone
<1> QED BY <1>1, <1>2, GotoOne, Zenon

LEMMA TurnStep ==
    ASSUME TypeOK, IdlePhase, Held, IdleOpen, [Next]_vars
    PROVE  Held' /\ IdleOpen'
<1> USE Disjoint
<1>1. ASSUME NEW x \in Producer, Submit(x) \/ Produce(x) PROVE Held' /\ IdleOpen'
  <2>1. UNCHANGED <<turn, phase, is_closed>> /\ \A c \in Consumer : pc'[c] = pc[c]
    BY <1>1, ProducerApart, Zenon
  <2> QED BY <2>1, Zenon DEF Held, IdleOpen
<1>2. ASSUME NEW c \in Consumer, Consume(c) PROVE Held' /\ IdleOpen'
  <2>1. /\ turn \in {c, Free} /\ is_closed' = is_closed
        /\ \A d \in Consumer : d # c => pc'[d] = pc[d] /\ phase'[d] = phase[d]
        /\ turn' = c \/ pc'[c] \notin Holding
        /\ phase'[c] = "idle" /\ pc'[c] \in Dequeuing => ~is_closed
    BY <1>2, ConsumerTurn, Zenon
  <2>2. \A d \in Consumer : d # c => pc[d] \notin Holding
    BY <2>1, ConsumerAssumption, Zenon DEF Held
  <2> QED BY <2>1, <2>2, Zenon DEF Held, IdleOpen
<1>3. CASE Shutdown
  <2>1. turn = Free /\ UNCHANGED <<turn, pc, phase>>
    BY <1>3, Zenon DEF Shutdown
  <2>2. \A d \in Consumer : pc[d] \notin Holding
    BY <2>1, ConsumerAssumption, Zenon DEF Held
  <2> QED BY <2>1, <2>2, Zenon DEF Held, IdleOpen, Holding, Dequeuing
<1>4. CASE UNCHANGED vars
    BY <1>4, Zenon DEF vars, Held, IdleOpen
<1> QED BY <1>1, <1>2, <1>3, <1>4, Zenon DEF Next

-----------------------------------------------------------------------------
(* Closures.                                                               *)

\* A call that is not finished keeps its number.
LEMMA CallsStep ==
    ASSUME TypeOK, IdlePhase, IdleOpen, [Next]_vars
    PROVE  \A x \in Producer :
              /\ calls[x] \in Nat /\ calls'[x] \in Nat /\ calls[x] <= calls'[x] /\ calls[x] <= MaxCalls
              /\ calls'[x] = calls[x] /\ pc'[x] \in Trying => pc[x] \in Trying
              /\ pc'[x] # "ready" => pc[x] # "ready" \/ calls'[x] >= 1
<1> USE Disjoint
<1>1. \A x \in Producer : calls[x] \in Nat /\ calls[x] <= MaxCalls
    BY CallsAssumption DEF TypeOK, ThreadType
<1>2. ASSUME calls' = calls, \A x \in Producer : pc'[x] = pc[x]
      PROVE  \A x \in Producer :
              /\ calls'[x] \in Nat /\ calls[x] <= calls'[x]
              /\ calls'[x] = calls[x] /\ pc'[x] \in Trying => pc[x] \in Trying
              /\ pc'[x] # "ready" => pc[x] # "ready" \/ calls'[x] >= 1
    BY <1>1, <1>2
<1>3. ASSUME NEW x \in Producer, Submit(x)
      PROVE  \A y \in Producer :
              /\ calls'[y] \in Nat /\ calls[y] <= calls'[y]
              /\ calls'[y] = calls[y] /\ pc'[y] \in Trying => pc[y] \in Trying
              /\ pc'[y] # "ready" => pc[y] # "ready" \/ calls'[y] >= 1
  <2>1. /\ calls'[x] = calls[x] + 1 /\ \A y \in Producer : y # x => calls'[y] = calls[y]
        /\ \A y \in Producer : y # x => pc'[y] = pc[y]
    BY <1>3, GotoOne, Zenon DEF Submit, TypeOK, ThreadType
  <2> QED BY <1>1, <2>1
<1>4. ASSUME NEW x \in Producer, Produce(x)
      PROVE  \A y \in Producer :
              /\ calls'[y] \in Nat /\ calls[y] <= calls'[y]
              /\ calls'[y] = calls[y] /\ pc'[y] \in Trying => pc[y] \in Trying
              /\ pc'[y] # "ready" => pc[y] # "ready" \/ calls'[y] >= 1
  <2>1. calls' = calls /\ pc[x] # "ready"
    BY <1>4, Zenon DEF Produce, Enqueue, EnqLoad, EnqCheck, EnqClaim, EnqWrite, EnqPublish, Wake, Exchange, Signal,
           Full, AwaitDone
  <2>2. pc[x] \in Trying \/ \E l : Goto(x, l) /\ l \notin Trying
    <3>1. EnqLoad(x) \/ EnqCheck(x) \/ EnqClaim(x) \/ Full(x) => pc[x] \in Trying
        BY Zenon DEF EnqLoad, EnqCheck, EnqClaim, Full, Trying
    <3>2. EnqWrite(x) \/ EnqPublish(x) \/ Signal(x) \/ AwaitDone(x) \/ Wake(x) \/ Exchange(x)
            => \E l : Goto(x, l) /\ l \notin Trying
        BY DEF EnqWrite, EnqPublish, Signal, AwaitDone, Wake, Exchange, Added, Trying
    <3> QED BY <1>4, <3>1, <3>2, Zenon DEF Produce, Enqueue
  <2>3. \A y \in Producer : y # x => pc'[y] = pc[y]
    BY <1>4, ProducerApart, Zenon
  <2>4. pc'[x] \in Trying => pc[x] \in Trying
    BY <2>2, GotoOne, Zenon
  <2> QED BY <1>1, <2>1, <2>3, <2>4
<1>5. ASSUME NEW c \in Consumer, Consume(c) PROVE calls' = calls /\ \A y \in Producer : pc'[y] = pc[y]
    BY <1>5, ConsumerTurn, Zenon
<1>6. CASE Shutdown \/ UNCHANGED vars
    BY <1>1, <1>2, <1>6, Zenon DEF Shutdown, vars
<1> QED BY <1>1, <1>2, <1>3, <1>4, <1>5, <1>6 DEF Next

\* What was submitted stays so.
LEMMA SubmittedStays == ASSUME TypeOK, IdlePhase, IdleOpen, [Next]_vars, NEW f, Submitted(f) PROVE Submitted(f)'
<1>1. PICK x \in Producer, n \in 1 .. MaxCalls :
        f = <<x, n>> /\ n <= calls[x] /\ (n = calls[x] => pc[x] \notin Trying)
    BY Zenon DEF Submitted
<1>2. /\ calls[x] \in Nat /\ calls'[x] \in Nat /\ calls[x] <= calls'[x]
      /\ calls'[x] = calls[x] /\ pc'[x] \in Trying => pc[x] \in Trying
    BY CallsStep, Zenon
<1>3. n <= calls'[x] /\ (n = calls'[x] => pc'[x] \notin Trying)
    BY <1>1, <1>2, CallsAssumption
<1> QED BY <1>1, <1>3, Zenon DEF Submitted

\* The closure of a call that is still trying is new.
LEMMA MineIsNew == ASSUME NEW x \in Producer, pc[x] \in Trying PROVE ~Submitted(Mine(x))
<1> SUFFICES ASSUME NEW y \in Producer, NEW n \in 1 .. MaxCalls, Mine(x) = <<y, n>>,
                    n = calls[y] => pc[y] \notin Trying
             PROVE  FALSE
    BY Zenon DEF Submitted
<1> QED BY Zenon DEF Mine


\* The numbers of the positions after a step.
LEMMA PositionsAfter ==
    ASSUME TypeOK
    PROVE  /\ Stutters => Positions' = Positions
           /\ \A x : Accepts(x) => \A p \in Positions' : p \in Positions \/ p = enqueue_pos
           /\ \A c : Takes(c) => \A p \in Positions' : p \in Positions \ {dequeue_pos}
           /\ \A c : Executes(c) => Positions' = Positions
           /\ \A c : Takes(c) => dequeue_pos \in Positions
           /\ enqueue_pos \in Nat /\ enqueue_pos \notin Positions
BY DEF Positions, Stutters, Accepts, Takes, Executes, TypeOK, RingType

LEMMA AllSubmittedStep ==
    ASSUME TypeOK, IdlePhase, RingInv, RingInv', ChannelInv, [Next]_vars
    PROVE  AllSubmitted'
<1>1. \A f : Submitted(f) => Submitted(f)'
    BY SubmittedStays, Zenon DEF ChannelInv
<1>2. ASSUME NEW x \in Producer, pc'[x] # "ready" PROVE calls'[x] >= 1
  <2>1. /\ calls[x] \in Nat /\ calls'[x] \in Nat /\ calls[x] <= calls'[x]
        /\ pc[x] # "ready" \/ calls'[x] >= 1
    BY <1>2, CallsStep, Zenon DEF ChannelInv
  <2> QED BY <2>1 DEF ChannelInv, AllSubmitted
<1>3. /\ \A p \in Positions : Submitted(ClosureAt(p))
      /\ \A c \in Consumer : \A f \in InHand(c) : Submitted(f)
      /\ \A f \in ran : Submitted(f)
    BY Zenon DEF ChannelInv, AllSubmitted
<1> DEFINE InPlace == /\ \A p \in Positions' : Submitted(ClosureAt(p))'
                      /\ \A c \in Consumer : \A f \in InHand(c)' : Submitted(f)'
                      /\ \A f \in ran' : Submitted(f)'
<1> SUFFICES InPlace
    BY <1>2, Zenon DEF AllSubmitted
<1>4. ASSUME NEW p, NEW f, ClosureAt(p)' = f, Submitted(f)' PROVE Submitted(ClosureAt(p))'
    BY <1>4, Zenon DEF Submitted
<1>5. CASE Stutters
  <2>1. Positions' = Positions /\ ran' = ran
    BY <1>5, PositionsAfter, Zenon DEF Stutters
  <2>2. \A p \in Positions' : Submitted(ClosureAt(p))'
    BY <1>1, <1>3, <1>4, <1>5, <2>1, Zenon DEF Stutters, SameAt
  <2>3. \A c \in Consumer : \A f \in InHand(c)' : Submitted(f)'
    BY <1>1, <1>3, <1>5, Zenon DEF Stutters, SameHands
  <2> QED BY <1>1, <1>3, <2>1, <2>2, <2>3, Zenon
<1>6. ASSUME NEW x \in Producer, Accepts(x) PROVE InPlace
  <2>1. (\A p \in Positions' : p \in Positions \/ p = enqueue_pos) /\ ran' = ran /\ enqueue_pos \in Nat
    BY <1>6, PositionsAfter, Zenon DEF Accepts
  <2>2. PICK f : f = Mine(x)
    BY Zenon
  <2>3. Submitted(f)'
    <3>1. pc[x] = "claim" /\ pc'[x] = "write"
        BY <1>6, Zenon DEF Accepts
    <3>2. calls[x] \in 1 .. MaxCalls /\ calls'[x] = calls[x]
      <4>1. calls[x] >= 1
        BY <3>1, Zenon DEF ChannelInv, AllSubmitted
      <4>2. ~\E y \in Producer : Submit(y) /\ y = x
        BY <3>1, Zenon DEF Submit
      <4>3. calls'[x] = calls[x]
        <5>1. ASSUME NEW y \in Producer, Submit(y) PROVE calls'[x] = calls[x]
            BY <4>2, <5>1, Zenon DEF Submit, TypeOK, ThreadType
        <5>2. ASSUME NEW y \in Producer, Produce(y) PROVE calls'[x] = calls[x]
            BY <5>2 DEF Produce, Enqueue, EnqLoad, EnqCheck, EnqClaim, EnqWrite, EnqPublish, Wake, Exchange,
                   Signal, Full, AwaitDone
        <5>3. ASSUME NEW c \in Consumer, Consume(c) PROVE calls'[x] = calls[x]
            BY <5>3, ConsumerTurn DEF ChannelInv
        <5> QED BY <5>1, <5>2, <5>3, Zenon DEF Next, Shutdown, vars
      <4> QED BY <4>1, <4>3, CallsAssumption DEF TypeOK, ThreadType
    <3>3. pc'[x] \notin Trying
        BY <3>1, Zenon DEF Trying
    <3>4. \E n \in 1 .. MaxCalls : f = <<x, n>> /\ n <= calls'[x] /\ (n = calls'[x] => pc'[x] \notin Trying)
        BY <2>2, <3>2, <3>3 DEF Mine
    <3> QED BY <3>4, Zenon DEF Submitted
  <2>4. \A p \in Positions' : Submitted(ClosureAt(p))'
    BY <1>1, <1>3, <1>4, <1>6, <2>1, <2>2, <2>3 DEF Accepts, SameAt
  <2>5. \A c \in Consumer : \A g \in InHand(c)' : Submitted(g)'
    BY <1>1, <1>3, <1>6 DEF Accepts, SameHands
  <2> QED BY <1>1, <1>3, <2>1, <2>4, <2>5
<1>7. ASSUME NEW c \in Consumer, Takes(c) PROVE InPlace
  <2>1. (\A p \in Positions' : p \in Positions \ {dequeue_pos}) /\ ran' = ran /\ dequeue_pos \in Positions
    BY <1>7, PositionsAfter, Zenon DEF Takes
  <2>2. \A p \in Positions' : Submitted(ClosureAt(p))'
    BY <1>1, <1>3, <1>4, <1>7, <2>1 DEF Takes, SameAt
  <2>3. ASSUME NEW d \in Consumer, NEW f \in InHand(d)' PROVE Submitted(f)'
    <3>1. CASE d = c
        BY <1>1, <1>3, <1>7, <2>1, <2>3, <3>1 DEF Takes
    <3>2. CASE d # c
        BY <1>1, <1>3, <1>7, <2>3, <3>2, Zenon DEF Takes, SameHands
    <3> QED BY <3>1, <3>2, Zenon
  <2> QED BY <1>1, <1>3, <2>1, <2>2, <2>3, Zenon
<1>8. ASSUME NEW c \in Consumer, Executes(c) PROVE InPlace
  <2>1. Positions' = Positions /\ ran' = ran \cup {func[c]} /\ InHand(c) = {func[c]}
    BY <1>8, PositionsAfter, Zenon DEF Executes
  <2>2. \A p \in Positions' : Submitted(ClosureAt(p))'
    BY <1>1, <1>3, <1>4, <1>8, <2>1, Zenon DEF Executes, SameAt
  <2>3. ASSUME NEW d \in Consumer, NEW f \in InHand(d)' PROVE Submitted(f)'
    <3>1. d # c
        BY <1>8, <2>3, Zenon DEF Executes
    <3> QED BY <1>1, <1>3, <1>8, <2>3, <3>1, Zenon DEF Executes, SameHands
  <2> QED BY <1>1, <1>3, <2>1, <2>2, <2>3, Zenon
<1> HIDE DEF InPlace
<1> QED BY <1>5, <1>6, <1>7, <1>8, Effect, Zenon DEF ChannelInv

LEMMA OnePlaceStep ==
    ASSUME TypeOK, IdlePhase, RingInv, RingInv', ChannelInv, [Next]_vars
    PROVE  OnePlace'
<1>1. /\ \A p, q \in Positions : p # q => ClosureAt(p) # ClosureAt(q)
      /\ \A p \in Positions, c \in Consumer : ClosureAt(p) \notin InHand(c)
      /\ \A c, d \in Consumer : c # d => \A f \in InHand(c) : f \notin InHand(d)
    BY Zenon DEF ChannelInv, OnePlace
<1> DEFINE Apart == /\ \A p, q \in Positions' : p # q => ClosureAt(p)' # ClosureAt(q)'
                    /\ \A p \in Positions', c \in Consumer : ClosureAt(p)' \notin InHand(c)'
                    /\ \A c, d \in Consumer : c # d => \A f \in InHand(c)' : f \notin InHand(d)'
<1> SUFFICES Apart
    BY Zenon DEF OnePlace
<1>2. CASE Stutters
    BY <1>1, <1>2, PositionsAfter DEF Stutters, SameAt, SameHands
<1>3. ASSUME NEW x \in Producer, Accepts(x) PROVE Apart
  <2>1. (\A p \in Positions' : p \in Positions \/ p = enqueue_pos) /\ enqueue_pos \in Nat
    BY <1>3, PositionsAfter, Zenon
  <2>2. pc[x] \in Trying
    BY <1>3, Zenon DEF Accepts, Trying
  <2>3. /\ \A p \in Positions : ClosureAt(p) # Mine(x)
        /\ \A c \in Consumer : Mine(x) \notin InHand(c)
    BY <2>2, MineIsNew, Zenon DEF ChannelInv, AllSubmitted
  <2>4. /\ \A p \in Positions : ClosureAt(p)' = ClosureAt(p)
        /\ \A p \in Nat : p = enqueue_pos => ClosureAt(p)' = Mine(x)
        /\ \A c \in Consumer : InHand(c)' = InHand(c)
    BY <1>3, Zenon DEF Accepts, SameAt, SameHands
  <2> QED BY <1>1, <2>1, <2>3, <2>4
<1>4. ASSUME NEW c \in Consumer, Takes(c) PROVE Apart
  <2>1. (\A p \in Positions' : p \in Positions \ {dequeue_pos}) /\ dequeue_pos \in Positions
    BY <1>4, PositionsAfter, Zenon
  <2>2. /\ \A p \in Positions \ {dequeue_pos} : ClosureAt(p)' = ClosureAt(p)
        /\ InHand(c)' = {ClosureAt(dequeue_pos)}
        /\ \A d \in Consumer \ {c} : InHand(d)' = InHand(d)
    BY <1>4, Zenon DEF Takes, SameAt, SameHands
  <2> QED BY <1>1, <2>1, <2>2
<1>5. ASSUME NEW c \in Consumer, Executes(c) PROVE Apart
  <2>1. /\ Positions' = Positions /\ \A p \in Positions : ClosureAt(p)' = ClosureAt(p)
        /\ InHand(c)' = {} /\ \A d \in Consumer \ {c} : InHand(d)' = InHand(d)
    BY <1>5, PositionsAfter, Zenon DEF Executes, SameAt, SameHands
  <2> QED BY <1>1, <2>1
<1> HIDE DEF Apart
<1> QED BY <1>2, <1>3, <1>4, <1>5, Effect, Zenon DEF ChannelInv

LEMMA ChannelInit == ASSUME Init PROVE ChannelInv
<1>1. /\ \A x \in Producer : pc[x] = "ready"
      /\ \A c \in Consumer : pc[c] = "top" /\ phase[c] = "batch"
    BY Disjoint, ThreadAssumption, Zenon DEF Init
<1>2. Positions = {} /\ ran = {}
    BY DEF Init, Positions
<1>3. \A c \in Consumer : InHand(c) = {}
    BY <1>1, Zenon DEF InHand
<1>4. AllSubmitted /\ OnePlace
    BY <1>1, <1>2, <1>3, Zenon DEF AllSubmitted, OnePlace
<1>5. Held /\ IdleOpen
    BY <1>1, Zenon DEF Held, IdleOpen, Holding, Dequeuing
<1> QED BY <1>4, <1>5, Zenon DEF ChannelInv

-----------------------------------------------------------------------------
(* The refinement.                                                         *)

Pending == [i \in 1 .. enqueue_pos - dequeue_pos |-> ClosureAt(dequeue_pos + i - 1)]
Taken == UNION {InHand(c) : c \in Consumer}
Submissions == Producer \X (1 .. MaxCalls)

LEMMA SubmittedType == ASSUME NEW f, Submitted(f) PROVE f \in Submissions
BY DEF Submitted, Submissions

\* Sequences are equal when their elements are.
LEMMA SameSeq ==
    ASSUME NEW S, NEW s \in Seq(S), NEW t \in Seq(S), Len(s) = Len(t),
           \A i \in 1 .. Len(s) : s[i] = t[i]
    PROVE  s = t
OBVIOUS

\* A function on 1 .. n is a sequence of length n.
LEMMA FunctionIsSeq ==
    ASSUME NEW S, NEW n \in Nat, NEW s \in [1 .. n -> S]
    PROVE  s \in Seq(S) /\ Len(s) = n
OBVIOUS

LEMMA PendingType ==
    ASSUME TypeOK, RingInv, ChannelInv
    PROVE  /\ Pending \in Seq(Submissions) /\ Len(Pending) = enqueue_pos - dequeue_pos
           /\ Len(Pending) \in Nat
           /\ \A i \in 1 .. Len(Pending) : /\ Pending[i] = ClosureAt(dequeue_pos + i - 1)
                                           /\ dequeue_pos + i - 1 \in Positions
<1> DEFINE n == enqueue_pos - dequeue_pos
<1>1. n \in Nat /\ dequeue_pos \in Nat /\ enqueue_pos \in Nat
    BY DEF TypeOK, RingType, RingInv, Window
<1>2. ASSUME NEW i \in 1 .. n PROVE ClosureAt(dequeue_pos + i - 1) \in Submissions /\ dequeue_pos + i - 1 \in Positions
  <2>1. dequeue_pos + i - 1 \in Positions
    BY <1>1 DEF Positions
  <2> QED BY <2>1, SubmittedType, Zenon DEF ChannelInv, AllSubmitted
<1>3. Pending \in [1 .. n -> Submissions]
    BY <1>2, Zenon DEF Pending
<1>4. Pending \in Seq(Submissions) /\ Len(Pending) = n
  <2> HIDE DEF n
  <2> QED BY <1>1, <1>3, FunctionIsSeq, Zenon
<1>5. \A i \in 1 .. n : Pending[i] = ClosureAt(dequeue_pos + i - 1)
    BY Zenon DEF Pending
<1> QED BY <1>1, <1>2, <1>4, <1>5, Zenon

LEMMA AppendAs ==
    ASSUME NEW S, NEW s \in Seq(S), NEW e \in S, NEW n \in Nat, n = Len(s),
           NEW t, t = [i \in 1 .. n + 1 |-> t[i]], \A i \in 1 .. n : t[i] = s[i], t[n + 1] = e
    PROVE  t = Append(s, e)
<1>1. t \in [1 .. n + 1 -> S]
  <2>1. ASSUME NEW i \in 1 .. n + 1 PROVE t[i] \in S
    <3>1. i \in 1 .. Len(s) \/ i = n + 1
        OBVIOUS
    <3>2. \A m \in 1 .. Len(s) : s[m] \in S
        OBVIOUS
    <3> QED BY <3>1, <3>2, Zenon
  <2> QED BY <2>1, Zenon
<1>2. t \in Seq(S) /\ Len(t) = n + 1
    BY <1>1, FunctionIsSeq
<1>3. /\ Append(s, e) \in Seq(S) /\ Len(Append(s, e)) = n + 1
      /\ \A i \in 1 .. n : Append(s, e)[i] = s[i]
      /\ Append(s, e)[n + 1] = e
    OBVIOUS
<1>4. \A i \in 1 .. n + 1 : t[i] = Append(s, e)[i]
    BY <1>3
<1> QED BY <1>2, <1>3, <1>4, SameSeq, Zenon

LEMMA TailAs ==
    ASSUME NEW S, NEW s \in Seq(S), NEW n \in Nat, Len(s) = n + 1,
           NEW t, t = [i \in 1 .. n |-> t[i]], \A i \in 1 .. n : t[i] = s[i + 1]
    PROVE  s # <<>> /\ Head(s) = s[1] /\ t = Tail(s)
<1>1. t \in [1 .. n -> S]
    OBVIOUS
<1>2. t \in Seq(S) /\ Len(t) = n
    BY <1>1, FunctionIsSeq, Zenon
<1>3. s # <<>> /\ Head(s) = s[1]
    OBVIOUS
<1>4. /\ Tail(s) \in Seq(S) /\ Len(Tail(s)) = n
      /\ \A i \in 1 .. n : Tail(s)[i] = s[i + 1]
    BY <1>3
<1> QED BY <1>2, <1>3, <1>4, SameSeq, Zenon

\* The sequence after a step.
LEMMA PendingAfter ==
    /\ Pending' = [i \in 1 .. enqueue_pos' - dequeue_pos' |-> Pending'[i]]
    /\ \A i \in 1 .. enqueue_pos' - dequeue_pos' : \A q : q = dequeue_pos' + i - 1 => Pending'[i] = ClosureAt(q)'
<1>1. Pending' = [i \in 1 .. enqueue_pos' - dequeue_pos' |-> ClosureAt(dequeue_pos + i - 1)']
    BY Zenon DEF Pending
<1>2. ASSUME NEW i \in 1 .. enqueue_pos' - dequeue_pos', NEW q, q = dequeue_pos' + i - 1
      PROVE  ClosureAt(dequeue_pos + i - 1)' = ClosureAt(q)'
    BY <1>2, Zenon DEF ClosureAt
<1> QED BY <1>1, <1>2, Zenon

LEMMA RefinementStep ==
    ASSUME TypeOK, IdlePhase, RingInv, RingInv', ChannelInv, [Next]_vars
    PROVE  [Channel!CNext]_(Channel!cVars)
<1>1. /\ Pending \in Seq(Submissions) /\ Len(Pending) = enqueue_pos - dequeue_pos /\ Len(Pending) \in Nat
      /\ \A i \in 1 .. Len(Pending) : Pending[i] = ClosureAt(dequeue_pos + i - 1) /\ dequeue_pos + i - 1 \in Positions
    BY PendingType, Zenon
<1>2. dequeue_pos \in Nat /\ enqueue_pos \in Nat
    BY Zenon DEF TypeOK, RingType
<1>3. CASE Stutters
  <2>1. enqueue_pos' = enqueue_pos /\ dequeue_pos' = dequeue_pos /\ ran' = ran
    BY <1>3, Zenon DEF Stutters
  <2>2. \A i \in 1 .. Len(Pending) : Pending'[i] = Pending[i]
    BY <1>1, <1>2, <1>3, <2>1, PendingAfter DEF Stutters, SameAt
  <2>3. Pending = [i \in 1 .. Len(Pending) |-> Pending[i]]
    BY <1>1
  <2>4. Pending' = Pending
    BY <1>1, <2>1, <2>2, <2>3, PendingAfter, Zenon
  <2>5. Taken' = Taken
    BY <1>3, Zenon DEF Stutters, SameHands, Taken
  <2> QED BY <2>1, <2>4, <2>5 DEF Channel!cVars, Pending, Taken
<1>4. ASSUME NEW x \in Producer, Accepts(x)
      PROVE  \E f \in Submissions : Channel!Accept(f)
  <2>1. PICK f : f = Mine(x)
    BY Zenon
  <2>2. f \in Submissions
    <3>1. calls[x] \in 1 .. MaxCalls
        BY <1>4, CallsAssumption DEF Accepts, ChannelInv, AllSubmitted, TypeOK, ThreadType
    <3> QED BY <2>1, <3>1, Zenon DEF Mine, Submissions
  <2>3. ~Submitted(f)
    BY <1>4, <2>1, MineIsNew, Zenon DEF Accepts, Trying
  <2>4. f \notin Taken \cup ran
    BY <2>3, Zenon DEF Taken, ChannelInv, AllSubmitted
  <2>5. \A i \in 1 .. Len(Pending) : Pending[i] # f
    BY <1>1, <2>3, Zenon DEF ChannelInv, AllSubmitted
  <2>6. Len(Pending) < Capacity
    BY <1>1, <1>2, <1>4, CapacityAssumption DEF Accepts
  <2>7. enqueue_pos' - dequeue_pos' = Len(Pending) + 1 /\ dequeue_pos' = dequeue_pos
    BY <1>1, <1>2, <1>4 DEF Accepts
  <2>8. \A i \in 1 .. Len(Pending) : Pending'[i] = Pending[i]
    BY <1>1, <1>2, <1>4, <2>7, PendingAfter DEF Accepts, SameAt
  <2>9. Pending'[Len(Pending) + 1] = f
    <3>1. Len(Pending) + 1 \in 1 .. enqueue_pos' - dequeue_pos' /\ enqueue_pos = dequeue_pos' + (Len(Pending) + 1) - 1
        BY <1>1, <1>2, <2>7
    <3>3. PICK q \in Nat : q = enqueue_pos
        BY <1>2, Zenon
    <3>4. Pending'[Len(Pending) + 1] = ClosureAt(q)'
        BY <3>1, <3>3, PendingAfter, Zenon
    <3> QED BY <1>4, <2>1, <3>3, <3>4, Zenon DEF Accepts
  <2>10. Pending' = Append(Pending, f)
    BY <1>1, <2>2, <2>7, <2>8, <2>9, PendingAfter, AppendAs
  <2>11. Taken' = Taken /\ ran' = ran
    BY <1>4, Zenon DEF Accepts, SameHands, Taken
  <2> QED BY <2>2, <2>4, <2>5, <2>6, <2>10, <2>11, Zenon DEF Channel!Accept, Channel!New, Pending, Taken
<1>5. ASSUME NEW c \in Consumer, Takes(c) PROVE Channel!Take
  <2>1. PICK n \in Nat : Len(Pending) = n + 1
    BY <1>1, <1>2, <1>5 DEF Takes
  <2>2. enqueue_pos' - dequeue_pos' = n /\ dequeue_pos' = dequeue_pos + 1
    BY <1>1, <1>2, <1>5, <2>1 DEF Takes
  <2>3. ASSUME NEW i \in 1 .. n PROVE Pending'[i] = Pending[i + 1]
    <3>1. PICK q : q = dequeue_pos + i
        BY Zenon
    <3>2. Pending'[i] = ClosureAt(q)'
        BY <1>2, <2>2, <3>1, PendingAfter
    <3>3. Pending[i + 1] = ClosureAt(q) /\ q \in Positions \ {dequeue_pos}
      <4>1. i + 1 \in 1 .. Len(Pending) /\ q = dequeue_pos + (i + 1) - 1 /\ q # dequeue_pos
        BY <1>2, <2>1, <3>1
      <4> QED BY <1>1, <4>1, Zenon
    <3> QED BY <1>5, <3>2, <3>3, Zenon DEF Takes, SameAt
  <2>4. Pending # <<>> /\ Head(Pending) = Pending[1] /\ Pending' = Tail(Pending)
    BY <1>1, <2>1, <2>2, <2>3, PendingAfter, TailAs
  <2>5. Pending[1] = ClosureAt(dequeue_pos)
    BY <1>1, <1>2, <2>1
  <2>6. Taken' = Taken \cup {Pending[1]}
    BY <1>5, <2>5 DEF Takes, SameHands, Taken
  <2>7. ran' = ran
    BY <1>5, Zenon DEF Takes
  <2> QED BY <2>4, <2>6, <2>7, Zenon DEF Channel!Take, Pending, Taken
<1>6. ASSUME NEW c \in Consumer, Executes(c)
      PROVE  \E f \in Submissions : Channel!Execute(f)
  <2>1. enqueue_pos' = enqueue_pos /\ dequeue_pos' = dequeue_pos /\ ran' = ran \cup {func[c]} /\ InHand(c) = {func[c]}
    BY <1>6, Zenon DEF Executes
  <2>2. \A i \in 1 .. Len(Pending) : Pending'[i] = Pending[i]
    BY <1>1, <1>2, <1>6, <2>1, PendingAfter, Zenon DEF Executes, SameAt
  <2>3. Pending = [i \in 1 .. Len(Pending) |-> Pending[i]]
    BY <1>1
  <2>4. Pending' = Pending
    BY <1>1, <2>1, <2>2, <2>3, PendingAfter, Zenon
  <2>5. func[c] \in Taken /\ Taken' = Taken \ {func[c]}
    BY <1>6, <2>1 DEF Executes, SameHands, Taken, ChannelInv, OnePlace
  <2>6. func[c] \in Submissions
    BY <2>1, SubmittedType, Zenon DEF ChannelInv, AllSubmitted
  <2> QED BY <2>1, <2>4, <2>5, <2>6 DEF Channel!Execute, Pending, Taken
<1> QED BY <1>3, <1>4, <1>5, <1>6, Effect, Zenon DEF Channel!CNext, Submissions, ChannelInv

LEMMA RefinementInit == ASSUME Init PROVE Channel!CInit
<1>1. Pending = <<>>
    BY DEF Init, Pending
<1>2. Taken = {}
  <2>1. \A c \in Consumer : pc[c] = "top"
    BY Disjoint, ThreadAssumption, Zenon DEF Init
  <2> QED BY <2>1, Zenon DEF Taken, InHand
<1> QED BY <1>1, <1>2 DEF Init, Channel!CInit, Pending, Taken

-----------------------------------------------------------------------------
(* Shutdown.                                                               *)

\* What was in the ring when it was closed has been run, is in hand or is still there.
NoneLost == \A f \in owed : \/ f \in ran
                            \/ \E c \in Consumer : f \in InHand(c)
                            \/ \E p \in Positions : f = ClosureAt(p)

\* None of it is in the slot of a producer that writes, and a consumer of the
\* drain loop that has found nothing has left nothing of it.
Owing ==
    /\ NoneLost /\ (~is_closed => owed = {})
    /\ \A x \in Producer : Writing(x) => ClosureAt(pos[x]) \notin owed
    /\ \A c \in Consumer : (pc[c] = "exited" => phase[c] = "drain") /\ (phase[c] = "drain" => is_closed)
    /\ (\E c \in Consumer : phase[c] = "drain" /\ pc[c] \in {"none", "exited"})
         => \A p \in Positions : ClosureAt(p) \notin owed

\* Consumers look at the head of the ring, and the only producer writes at its end.
Ends ==
    /\ \A c \in Consumer : pc[c] = "check" => pos[c] = dequeue_pos
    /\ \A x \in Producer : Writing(x) => enqueue_pos = pos[x] + 1

\* What a consumer's step does that the drain depends on.
LEMMA ConsumerMoves ==
    ASSUME TypeOK, NEW c \in Consumer, Consume(c)
    PROVE  /\ enqueue_pos' = enqueue_pos /\ \A u \in Thread : u # c => pos'[u] = pos[u]
           /\ pc'[c] = "check" => DeqLoad(c)
           /\ pc'[c] = "exited" => phase'[c] = "drain"
           /\ phase'[c] = "drain" => phase[c] = "drain" \/ is_closed
           /\ phase'[c] = "drain" /\ pc'[c] \in {"none", "exited"} =>
                phase[c] = "drain" /\ (pc[c] = "none" \/ (DeqCheck(c) /\ pc'[c] = "none"))
<1> USE Disjoint
<1> DEFINE Goal == /\ enqueue_pos' = enqueue_pos /\ \A u \in Thread : u # c => pos'[u] = pos[u]
                   /\ pc'[c] = "check" => DeqLoad(c)
                   /\ pc'[c] = "exited" => phase'[c] = "drain"
                   /\ phase'[c] = "drain" => phase[c] = "drain" \/ is_closed
                   /\ phase'[c] = "drain" /\ pc'[c] \in {"none", "exited"} =>
                        phase[c] = "drain" /\ (pc[c] = "none" \/ (DeqCheck(c) /\ pc'[c] = "none"))
<1>1. ASSUME enqueue_pos' = enqueue_pos, \A u \in Thread : u # c => pos'[u] = pos[u], phase' = phase,
             NEW l, Goto(c, l), l \notin {"check", "none", "exited"}
      PROVE  Goal
  <2>1. pc'[c] = l
    BY <1>1, GotoOne, Zenon
  <2> QED BY <1>1, <2>1, Zenon
<1> SUFFICES Goal
    BY Zenon
<1> HIDE DEF Goal
<1>2. CASE Top(c)
  <2>1. pc'[c] = "load" /\ phase'[c] = IF is_closed THEN "drain" ELSE "batch"
    BY <1>2, GotoOne DEF Top, TypeOK, ThreadType
  <2>2. enqueue_pos' = enqueue_pos /\ pos' = pos
    BY <1>2, Zenon DEF Top, ring
  <2>3. phase'[c] = "drain" => is_closed
    BY <2>1, Zenon
  <2> QED BY <2>1, <2>2, <2>3 DEF Goal
<1>3. CASE DeqLoad(c)
  <2>1. /\ pc'[c] = "check" /\ phase' = phase /\ enqueue_pos' = enqueue_pos
        /\ \A u \in Thread : u # c => pos'[u] = pos[u]
    BY <1>3, GotoOne DEF DeqLoad, ring, TypeOK, ThreadType
  <2> QED BY <1>3, <2>1, Zenon DEF Goal
<1>4. CASE DeqCheck(c)
  <2>1. sequence[Slot(pos[c])] \in Nat /\ pos[c] \in Nat
    BY SlotType, Zenon DEF TypeOK, RingType, ThreadType
  <2>2. PICK l \in {"claim", "none", "load"} : Goto(c, l)
    BY <1>4, <2>1 DEF DeqCheck
  <2>3. pc'[c] = l /\ phase' = phase /\ pos' = pos /\ enqueue_pos' = enqueue_pos
    BY <1>4, <2>2, GotoOne, Zenon DEF DeqCheck, ring
  <2> QED BY <1>4, <2>2, <2>3 DEF Goal
<1>5. CASE DeqClaim(c) \/ DeqMove(c) \/ DeqRelease(c)
  <2>1. PICK l \in {"move", "load", "release", "idle got", "run"} : Goto(c, l)
    BY <1>5, Zenon DEF DeqClaim, DeqMove, DeqRelease
  <2>2. enqueue_pos' = enqueue_pos /\ pos' = pos /\ phase' = phase
    BY <1>5, Zenon DEF DeqClaim, DeqMove, DeqRelease
  <2> QED BY <1>1, <2>1, <2>2, Zenon
<1>6. CASE Run(c)
  <2>1. phase[c] \in {"batch", "idle", "drain"}
    BY Zenon DEF TypeOK, ThreadType
  <2>2. PICK l \in {"unidle", "load", "none"} : Goto(c, l) /\ (phase[c] = "drain" => l = "load")
    BY <1>6, <2>1, Zenon DEF Run
  <2>3. pc'[c] = l /\ phase' = phase /\ pos' = pos /\ enqueue_pos' = enqueue_pos
    BY <1>6, <2>2, GotoOne DEF Run, ring
  <2> QED BY <2>2, <2>3 DEF Goal
<1>7. CASE Suspend(c)
  <2>1. pc'[c] = "run" /\ phase' = phase /\ pos' = pos /\ enqueue_pos' = enqueue_pos
    BY <1>7, Zenon DEF Suspend, ring
  <2> QED BY <2>1, Zenon DEF Goal
<1>8. CASE Drained(c)
  <2>1. /\ pc[c] = "none" /\ pc'[c] = "exited" /\ phase[c] = "drain" /\ phase' = phase /\ pos' = pos
        /\ enqueue_pos' = enqueue_pos
    BY <1>8, GotoOne DEF Drained, ring
  <2> QED BY <2>1, Zenon DEF Goal
<1>9. CASE BatchEmpty(c)
  <2>1. /\ pc'[c] = "idler" /\ phase'[c] = "idle" /\ pos' = pos /\ enqueue_pos' = enqueue_pos
    BY <1>9, GotoOne DEF BatchEmpty, ring, TypeOK, ThreadType
  <2> QED BY <2>1, Zenon DEF Goal
<1>10. CASE BatchDone(c)
  <2>1. enqueue_pos' = enqueue_pos /\ pos' = pos /\ phase' = phase /\ Goto(c, "top")
    BY <1>10, Zenon DEF BatchDone, ring
  <2> QED BY <1>1, <2>1, Zenon
<1>11. CASE Idle(c)
  <2>1. IdleLoop(c) => \E l \in {"unidle", "load"} : Goto(c, l)
    BY Zenon DEF IdleLoop
  <2>2. IdleGot(c) => \E l \in {"unidle", "run"} : Goto(c, l)
    BY Zenon DEF IdleGot
  <2>3. PICK l \in {"unidle", "load", "run", "idle", "sem", "blocked", "top"} : Goto(c, l)
    BY <1>11, <2>1, <2>2, Zenon DEF Idle, EnterIdle, IdleYield, IdleAgain, IdleReset, SemBlock, SemTake, SemTimeout, LeaveIdle
  <2>4. enqueue_pos' = enqueue_pos /\ pos' = pos /\ phase' = phase
    BY <1>11, Zenon DEF Idle, EnterIdle, IdleYield, IdleAgain, IdleReset, SemBlock, SemTake, SemTimeout, LeaveIdle,
           IdleGot, ring
  <2> QED BY <1>1, <2>3, <2>4
<1> QED BY <1>2, <1>3, <1>4, <1>5, <1>6, <1>7, <1>8, <1>9, <1>10, <1>11 DEF Consume, Dequeue

\* What a producer's step does that the drain depends on.
LEMMA ProducerMoves ==
    ASSUME TypeOK, NEW x \in Producer, Submit(x) \/ Produce(x)
    PROVE  /\ dequeue_pos' = dequeue_pos /\ \A u \in Thread : u # x => pos'[u] = pos[u]
           /\ Writing(x)' => (Writing(x) /\ pos'[x] = pos[x] /\ enqueue_pos' = enqueue_pos)
                             \/ (EnqClaim(x) /\ enqueue_pos = pos[x] /\ pos'[x] = pos[x] /\ enqueue_pos' = enqueue_pos + 1)
<1> USE Disjoint
<1>1. CASE EnqClaim(x)
  <2>1. enqueue_pos = pos[x] => enqueue_pos' = enqueue_pos + 1
    BY <1>1, Zenon DEF EnqClaim
  <2>2. enqueue_pos # pos[x] => pc'[x] = "load"
    BY <1>1, GotoOne, Zenon DEF EnqClaim
  <2>3. pos' = pos /\ dequeue_pos' = dequeue_pos
    BY <1>1, Zenon DEF EnqClaim
  <2> QED BY <1>1, <2>1, <2>2, <2>3 DEF Writing
<1>2. CASE EnqWrite(x) \/ EnqPublish(x)
    BY <1>2, GotoOne DEF EnqWrite, EnqPublish, Writing
<1>3. CASE EnqLoad(x)
    BY <1>3, GotoOne DEF EnqLoad, ring, Writing, TypeOK, ThreadType
<1>4. CASE EnqCheck(x)
  <2>1. sequence[Slot(pos[x])] \in Nat /\ pos[x] \in Nat
    BY SlotType, Zenon DEF TypeOK, RingType, ThreadType
  <2>2. PICK l \in {"claim", "full", "load"} : Goto(x, l)
    BY <1>4, <2>1 DEF EnqCheck
  <2> QED BY <1>4, <2>2, GotoOne, Zenon DEF EnqCheck, ring, Writing
<1>5. CASE Submit(x) \/ Wake(x) \/ Exchange(x) \/ Signal(x) \/ Full(x) \/ AwaitDone(x)
  <2>1. PICK l \in {"wait", "ready", "exchange", "signal", "load"} : Goto(x, l)
    BY <1>5, Zenon DEF Submit, Wake, Exchange, Signal, Full, AwaitDone, Added
  <2>2. pos' = pos /\ dequeue_pos' = dequeue_pos
    BY <1>5, Zenon DEF Submit, Wake, Exchange, Signal, Full, AwaitDone, ring
  <2> QED BY <2>1, <2>2, GotoOne, Zenon DEF Writing
<1> QED BY <1>1, <1>2, <1>3, <1>4, <1>5 DEF Produce, Enqueue

\* No other producer claims while one writes, and no other consumer moves the
\* head of the ring while one looks at it.
LEMMA EndsStep ==
    ASSUME \A x, y \in Producer : x = y, TypeOK, IdlePhase, IdleOpen, Held, Ends, [Next]_vars
    PROVE  Ends'
<1> USE Disjoint
<1>1. CASE \E x \in Producer : Submit(x) \/ Produce(x)
  <2>1. PICK x \in Producer : Submit(x) \/ Produce(x)
    BY <1>1, Zenon
  <2>2. /\ dequeue_pos' = dequeue_pos /\ \A c \in Consumer : pos'[c] = pos[c] /\ pc'[c] = pc[c]
        /\ Writing(x)' => (Writing(x) /\ pos'[x] = pos[x] /\ enqueue_pos' = enqueue_pos)
                          \/ (enqueue_pos = pos[x] /\ pos'[x] = pos[x] /\ enqueue_pos' = enqueue_pos + 1)
    BY <2>1, ProducerMoves, ProducerApart, Zenon
  <2> QED BY <2>2, Zenon DEF Ends
<1>2. CASE \E c \in Consumer : Consume(c)
  <2>1. PICK c \in Consumer : Consume(c)
    BY <1>2, Zenon
  <2>2. /\ enqueue_pos' = enqueue_pos /\ \A u \in Thread : u # c => pos'[u] = pos[u] /\ pc'[u] = pc[u]
        /\ turn \in {c, Free} /\ (pc'[c] = "check" => DeqLoad(c))
    BY <2>1, ConsumerMoves, ConsumerTurn
  <2>3. DeqLoad(c) => pos'[c] = dequeue_pos /\ dequeue_pos' = dequeue_pos
    BY Zenon DEF DeqLoad, ring, TypeOK, ThreadType
  <2>4. \A d \in Consumer : d # c => pc[d] # "check"
    BY <2>2, ConsumerAssumption, Zenon DEF Held, Holding
  <2>5. \A d \in Consumer : pc'[d] = "check" => pos'[d] = dequeue_pos'
    BY <2>2, <2>3, <2>4, Zenon
  <2>6. \A x \in Producer : Writing(x)' => enqueue_pos' = pos'[x] + 1
    BY <2>2, Zenon DEF Ends, Writing
  <2> QED BY <2>5, <2>6, Zenon DEF Ends
<1>3. CASE Shutdown \/ UNCHANGED vars
    BY <1>3, Zenon DEF Shutdown, vars, ring, Ends, Writing
<1> QED BY <1>1, <1>2, <1>3, Zenon DEF Next

\* With one producer, a consumer that finds nothing at the head of the ring has
\* left nothing that is owed.
LEMMA HeadEmpty ==
    ASSUME TypeOK, RingInv, Owing, Ends, NEW c \in Consumer, DeqCheck(c), pc'[c] = "none"
    PROVE  \A p \in Positions : ClosureAt(p) \notin owed
<1> SUFFICES ASSUME NEW p \in Positions PROVE ClosureAt(p) \notin owed
    BY Zenon
<1>1. /\ pc[c] = "check" /\ pos[c] = dequeue_pos /\ dequeue_pos \in Nat /\ enqueue_pos \in Nat
      /\ p \in Nat /\ dequeue_pos <= p /\ p < enqueue_pos
    BY PositionType, Zenon DEF DeqCheck, Ends, TypeOK, RingType
<1>2. sequence[Slot(dequeue_pos)] \in Nat
    BY <1>1, SlotType, Zenon DEF TypeOK, RingType
<1>3. sequence[Slot(dequeue_pos)] # dequeue_pos + 1
  <2> SUFFICES ASSUME sequence[Slot(dequeue_pos)] = dequeue_pos + 1 PROVE FALSE
    BY Zenon
  <2>1. Goto(c, "claim")
    BY <1>1 DEF DeqCheck
  <2> QED BY <2>1, GotoOne, Disjoint
<1>4. PICK x \in Producer : Writing(x) /\ pos[x] = dequeue_pos
    BY <1>1, <1>3 DEF RingInv, Filled
<1>5. p = pos[x]
    BY <1>1, <1>4 DEF Ends
<1> QED BY <1>4, <1>5, Zenon DEF Owing

\* What is owed has been submitted, so that a new closure is not owed.
LEMMA OwedSubmitted == ASSUME AllSubmitted, Owing, NEW f \in owed PROVE Submitted(f)
BY Zenon DEF AllSubmitted, Owing, NoneLost

\* A position in the ring that is no producer's is published.
LEMMA OwedAtShutdown ==
    ASSUME TypeOK, RingInv, NEW p \in Published
    PROVE  p \in Positions /\ ClosureAt(p) = storage[Slot(p)] /\ \A x \in Producer : Writing(x) => pos[x] # p
<1>1. p \in Positions /\ p \in Nat /\ sequence[Slot(p)] = p + 1
    BY DEF Published, Positions, TypeOK, RingType
<1>2. \A x \in Producer : Writing(x) => pos[x] # p
    BY <1>1 DEF RingInv, Writers
<1>3. ~\E x \in Producer : pc[x] = "write" /\ pos[x] = p
    BY <1>2, Zenon DEF Writing
<1> QED BY <1>1, <1>2, <1>3, Zenon DEF ClosureAt

\* Nothing that is owed gets lost.
LEMMA NoneLostStep ==
    ASSUME TypeOK, IdlePhase, RingInv, RingInv', ChannelInv, [Next]_vars, NoneLost, owed' = owed
    PROVE  NoneLost'
<1> SUFFICES ASSUME NEW f \in owed
             PROVE  \/ f \in ran'
                    \/ \E c \in Consumer : f \in InHand(c)'
                    \/ \E p \in Positions' : f = ClosureAt(p)'
    BY Zenon DEF NoneLost
<1>1. f \in ran \/ (\E c \in Consumer : f \in InHand(c)) \/ \E p \in Positions : f = ClosureAt(p)
    BY Zenon DEF NoneLost
<1>2. CASE Stutters
    BY <1>1, <1>2, PositionsAfter DEF Stutters, SameAt, SameHands
<1>3. ASSUME NEW x \in Producer, Accepts(x)
      PROVE  f \in ran' \/ (\E c \in Consumer : f \in InHand(c)') \/ \E p \in Positions' : f = ClosureAt(p)'
  <2>1. \A p \in Positions : p \in Positions' /\ ClosureAt(p)' = ClosureAt(p)
    BY <1>3 DEF Accepts, SameAt, Positions, TypeOK, RingType
  <2> QED BY <1>1, <1>3, <2>1 DEF Accepts, SameHands
<1>4. ASSUME NEW c \in Consumer, Takes(c)
      PROVE  f \in ran' \/ (\E d \in Consumer : f \in InHand(d)') \/ \E p \in Positions' : f = ClosureAt(p)'
  <2>1. \A p \in Positions : p = dequeue_pos \/ (p \in Positions' /\ ClosureAt(p)' = ClosureAt(p))
    BY <1>4 DEF Takes, SameAt, Positions, TypeOK, RingType
  <2>2. \A p \in Positions : p = dequeue_pos => ClosureAt(p) \in InHand(c)'
    BY <1>4, Zenon DEF Takes
  <2>3. \A d \in Consumer : \A g \in InHand(d) : g \in InHand(d)'
    BY <1>4, Zenon DEF Takes, SameHands
  <2>4. ran' = ran
    BY <1>4, Zenon DEF Takes
  <2> QED BY <1>1, <2>1, <2>2, <2>3, <2>4, Zenon
<1>5. ASSUME NEW c \in Consumer, Executes(c)
      PROVE  f \in ran' \/ (\E d \in Consumer : f \in InHand(d)') \/ \E p \in Positions' : f = ClosureAt(p)'
    BY <1>1, <1>5, PositionsAfter, Zenon DEF Executes, SameAt, SameHands
<1> QED BY <1>2, <1>3, <1>4, <1>5, Effect DEF ChannelInv

\* A closure in the ring after a step was there before it or is new.
LEMMA NewInRing ==
    ASSUME TypeOK, IdlePhase, RingInv, RingInv', ChannelInv, Owing, [Next]_vars, NEW p \in Positions',
           ClosureAt(p)' \in owed
    PROVE  p \in Positions /\ ClosureAt(p)' = ClosureAt(p)
<1>1. CASE Stutters
    BY <1>1, PositionsAfter, Zenon DEF Stutters, SameAt
<1>2. ASSUME NEW x \in Producer, Accepts(x) PROVE p \in Positions /\ ClosureAt(p)' = ClosureAt(p)
  <2>1. Mine(x) \notin owed
    BY <1>2, OwedSubmitted, MineIsNew, Zenon DEF ChannelInv, Accepts, Trying
  <2>2. p \in Positions \/ (p = enqueue_pos /\ p \in Nat)
    BY <1>2, PositionsAfter, Zenon
  <2> QED BY <1>2, <2>1, <2>2, Zenon DEF Accepts, SameAt
<1>3. ASSUME NEW c \in Consumer, Takes(c) PROVE p \in Positions /\ ClosureAt(p)' = ClosureAt(p)
    BY <1>3, PositionsAfter, Zenon DEF Takes, SameAt
<1>4. ASSUME NEW c \in Consumer, Executes(c) PROVE p \in Positions /\ ClosureAt(p)' = ClosureAt(p)
    BY <1>4, PositionsAfter, Zenon DEF Executes, SameAt
<1> QED BY <1>1, <1>2, <1>3, <1>4, Effect DEF ChannelInv

LEMMA OwingShutdown ==
    ASSUME TypeOK, IdlePhase, RingInv, RingInv', ChannelInv, Owing, Shutdown
    PROVE  Owing'
<1>1. /\ ~is_closed /\ is_closed' /\ owed' = {storage[Slot(p)] : p \in Published}
      /\ UNCHANGED <<pc, pos, phase, storage, enqueue_pos, dequeue_pos, func, calls, ran>>
    BY Zenon DEF Shutdown, ring
<1>2. \A p : ClosureAt(p)' = ClosureAt(p)
    BY <1>1, ClosureStays, Zenon DEF RingInv
<1>3. Positions' = Positions /\ \A c \in Consumer : InHand(c)' = InHand(c)
    BY <1>1, Zenon DEF Positions, InHand
<1>4. \A f \in owed' : \E p \in Published : f = ClosureAt(p)
    BY <1>1, OwedAtShutdown, Zenon
<1>5. NoneLost'
    BY <1>2, <1>3, <1>4, OwedAtShutdown, Zenon DEF NoneLost
<1>6. ASSUME NEW x \in Producer, Writing(x) PROVE ClosureAt(pos[x]) \notin owed'
  <2>1. pos[x] \in Positions
    BY <1>6, Disjoint DEF RingInv, Writers, Positions, TypeOK, RingType, ThreadType
  <2>2. \A p \in Published : p \in Positions /\ pos[x] # p
    BY <1>6, OwedAtShutdown, Zenon
  <2> QED BY <1>4, <2>1, <2>2, Zenon DEF ChannelInv, OnePlace
<1>7. \A x \in Producer : Writing(x)' => ClosureAt(pos[x])' \notin owed'
  <2> SUFFICES ASSUME NEW x \in Producer, Writing(x)' PROVE ClosureAt(pos[x])' \notin owed'
    BY Zenon
  <2>1. PICK q : q = pos[x]
    BY Zenon
  <2>2. Writing(x) /\ pos'[x] = q
    BY <1>1, <2>1, Zenon DEF Writing
  <2>3. ClosureAt(pos[x])' = ClosureAt(q)'
    BY <2>2, Zenon DEF ClosureAt
  <2> QED BY <1>2, <1>6, <2>1, <2>2, <2>3, Zenon
<1>8. \A c \in Consumer : phase[c] # "drain" /\ pc[c] # "exited"
    BY <1>1, Zenon DEF Owing
<1> QED BY <1>1, <1>5, <1>7, <1>8, Zenon DEF Owing

LEMMA Between ==
    ASSUME NEW a \in Nat, NEW b \in Nat, NEW q \in Nat, a <= q, q < b
    PROVE  q \in a .. b - 1
OBVIOUS

LEMMA OwingStep ==
    ASSUME \A x, y \in Producer : x = y,
           TypeOK, IdlePhase, RingInv, RingInv', ChannelInv, Owing, Ends, [Next]_vars
    PROVE  Owing'
<1> USE Disjoint
<1> SUFFICES ASSUME ~Shutdown PROVE Owing'
    BY OwingShutdown, Zenon
<1>1. owed' = owed /\ is_closed' = is_closed
  <2>1. ASSUME NEW x \in Producer, Submit(x) \/ Produce(x) PROVE owed' = owed /\ is_closed' = is_closed
    BY <2>1, ProducerApart, Zenon
  <2>2. ASSUME NEW c \in Consumer, Consume(c) PROVE owed' = owed /\ is_closed' = is_closed
    BY <2>2, ConsumerTurn, Zenon DEF ChannelInv
  <2>3. CASE UNCHANGED vars
    BY <2>3, Zenon DEF vars
  <2> QED BY <2>1, <2>2, <2>3, Zenon DEF Next
<1>2. NoneLost'
    BY <1>1, NoneLostStep, Zenon DEF Owing
<1>3. \A x \in Producer : Writing(x)' => ClosureAt(pos[x])' \notin owed'
  <2> SUFFICES ASSUME NEW x \in Producer, Writing(x)', ClosureAt(pos[x])' \in owed PROVE FALSE
    BY <1>1, Zenon
  <2>1. PICK q : q = pos'[x]
    BY Zenon
  <2>2. ClosureAt(pos[x])' = ClosureAt(q)'
    BY <2>1, Zenon DEF ClosureAt
  <2>3. q \in Positions'
    <3>1. dequeue_pos' <= q /\ q < enqueue_pos' /\ q \in Nat
      <4>1. dequeue_pos' <= pos'[x] /\ pos'[x] < enqueue_pos'
        BY Zenon DEF RingInv, Writers
      <4>2. pos'[x] \in Nat
        <5>1. ASSUME NEW y \in Producer, Submit(y) \/ Produce(y) PROVE pos'[x] = pos[x]
            BY <5>1, ProducerMoves, Zenon
        <5>2. ASSUME NEW c \in Consumer, Consume(c) PROVE pos'[x] = pos[x]
            BY <5>2, ConsumerMoves, Zenon
        <5>3. ASSUME UNCHANGED vars PROVE pos'[x] = pos[x]
            BY <5>3, Zenon DEF vars
        <5>4. pos'[x] = pos[x]
            BY <5>1, <5>2, <5>3, Zenon DEF Next
        <5> QED BY <5>4, Zenon DEF TypeOK, ThreadType
      <4> QED BY <2>1, <4>1, <4>2, Zenon
    <3>2. dequeue_pos' \in Nat /\ enqueue_pos' \in Nat
      <4>1. enqueue_pos' \in {enqueue_pos, enqueue_pos + 1} /\ dequeue_pos' \in {dequeue_pos, dequeue_pos + 1}
        BY Effect, Zenon DEF ChannelInv, Stutters, Accepts, Takes, Executes
      <4> QED BY <4>1 DEF TypeOK, RingType
    <3>3. PICK a \in Nat, b \in Nat : a = dequeue_pos' /\ b = enqueue_pos'
        BY <3>2, Zenon
    <3>4. Positions' = a .. b - 1
        BY <3>3, Zenon DEF Positions
    <3>5. q \in a .. b - 1
        BY <3>1, <3>3, Between, Zenon
    <3> QED BY <3>4, <3>5, Zenon
  <2>4. q \in Positions /\ ClosureAt(q) \in owed
    BY <2>2, <2>3, NewInRing, Zenon
  <2>5. ASSUME Writing(x), pos'[x] = pos[x] PROVE FALSE
    BY <2>1, <2>4, <2>5, Zenon DEF Owing
  <2>6. ASSUME NEW y \in Producer, Submit(y) \/ Produce(y) PROVE FALSE
    <3>1. x = y /\ enqueue_pos \notin Positions
        BY PositionsAfter, Zenon
    <3> QED BY <2>1, <2>4, <2>5, <2>6, <3>1, ProducerMoves
  <2>7. ASSUME NEW c \in Consumer, Consume(c) PROVE FALSE
    <3>1. pc'[x] = pc[x] /\ pos'[x] = pos[x]
        BY <2>7, ConsumerMoves, ConsumerTurn DEF ChannelInv
    <3> QED BY <2>5, <3>1, Zenon DEF Writing
  <2>8. CASE UNCHANGED vars
    BY <2>5, <2>8, Zenon DEF vars, Writing
  <2> QED BY <2>6, <2>7, <2>8, Zenon DEF Next
<1> DEFINE Done(c) == phase[c] = "drain" /\ pc[c] \in {"none", "exited"}
           DoneNext(c) == phase'[c] = "drain" /\ pc'[c] \in {"none", "exited"}
<1>4. ASSUME NEW c \in Consumer
      PROVE  /\ pc'[c] = "exited" => phase'[c] = "drain"
             /\ phase'[c] = "drain" => phase[c] = "drain" \/ is_closed
             /\ DoneNext(c) => Done(c) \/ (DeqCheck(c) /\ pc'[c] = "none")
  <2>1. ASSUME pc'[c] = pc[c], phase'[c] = phase[c]
        PROVE  /\ pc'[c] = "exited" => phase'[c] = "drain"
               /\ phase'[c] = "drain" => phase[c] = "drain" \/ is_closed
               /\ DoneNext(c) => Done(c) \/ (DeqCheck(c) /\ pc'[c] = "none")
    BY <2>1, Zenon DEF Owing
  <2>2. ASSUME NEW x \in Producer, Submit(x) \/ Produce(x) PROVE pc'[c] = pc[c] /\ phase'[c] = phase[c]
    BY <2>2, ProducerApart, Zenon
  <2>3. ASSUME NEW d \in Consumer, d # c, Consume(d) PROVE pc'[c] = pc[c] /\ phase'[c] = phase[c]
    BY <2>3, ConsumerTurn, Zenon DEF ChannelInv
  <2>4. ASSUME Consume(c)
        PROVE  /\ pc'[c] = "exited" => phase'[c] = "drain"
               /\ phase'[c] = "drain" => phase[c] = "drain" \/ is_closed
               /\ DoneNext(c) => Done(c) \/ (DeqCheck(c) /\ pc'[c] = "none")
    BY <2>4, ConsumerMoves, Zenon
  <2>5. CASE UNCHANGED vars
    BY <2>1, <2>5, Zenon DEF vars
  <2> QED BY <2>1, <2>2, <2>3, <2>4, <2>5 DEF Next
<1>5. \A c \in Consumer : (pc'[c] = "exited" => phase'[c] = "drain") /\ (phase'[c] = "drain" => is_closed')
    BY <1>1, <1>4, Zenon DEF Owing
<1>6. ASSUME NEW c \in Consumer, DoneNext(c) PROVE \A p \in Positions' : ClosureAt(p)' \notin owed'
  <2>1. \A p \in Positions : ClosureAt(p) \notin owed
    <3>1. CASE Done(c)
        BY <3>1, Zenon DEF Owing
    <3>2. CASE DeqCheck(c) /\ pc'[c] = "none"
        BY <3>2, HeadEmpty, Zenon
    <3> QED BY <1>4, <1>6, <3>1, <3>2, Zenon
  <2> QED BY <1>1, <2>1, NewInRing, Zenon
<1>7. ~is_closed' => owed' = {}
    BY <1>1, Zenon DEF Owing
<1> QED BY <1>2, <1>3, <1>5, <1>6, <1>7 DEF Owing

-----------------------------------------------------------------------------
(* The theorems about the channel.                                         *)

QueueInv == TypeOK /\ BatchOpen /\ IdlePhase /\ RingInv

\* Together with the invariant of the ring: every closure is in one place, and
\* the fibers of the vCPU take turns.
THEOREM ChannelInvariant == Spec => []ChannelInv
<1>1. Init => ChannelInv
    BY ChannelInit, Zenon
<1>2. QueueInv /\ QueueInv' /\ ChannelInv /\ [Next]_vars => ChannelInv'
    BY AllSubmittedStep, OnePlaceStep, TurnStep, Zenon DEF QueueInv, ChannelInv
<1>3. Spec => []QueueInv
    BY QueueInvariant, Zenon DEF QueueInv
<1> QED BY <1>1, <1>2, <1>3, PTL DEF Spec

\* The ring is a bounded FIFO channel, whatever threads use it and however their
\* accesses interleave: closures leave in the order of the claims, and none is
\* lost, duplicated or dropped between TryDequeue and its run.
THEOREM RingImplementsChannel == Spec => ImplementsChannel
<1>1. Init => Channel!CInit
    BY RefinementInit, Zenon
<1>2. QueueInv /\ QueueInv' /\ ChannelInv /\ [Next]_vars => [Channel!CNext]_(Channel!cVars)
    BY RefinementStep, Zenon DEF QueueInv
<1>3. Spec => []QueueInv
    BY QueueInvariant, Zenon DEF QueueInv
<1> QED BY <1>1, <1>2, <1>3, ChannelInvariant, PTL DEF Spec, ImplementsChannel, Channel!CSpec

\* Shutdown drains the queue of a single producer: once every consumer has left
\* Run, what was published in the ring when it was closed has been run.
THEOREM OneProducerDrains ==
    ASSUME \A x, y \in Producer : x = y, Consumer # {}
    PROVE  Spec => []ShutdownDrains
<1>1. Init => Owing /\ Ends
  <2> SUFFICES ASSUME Init PROVE Owing /\ Ends
    BY Zenon
  <2>1. owed = {} /\ \A c \in Consumer : pc[c] = "top" /\ phase[c] = "batch"
    BY Disjoint, ThreadAssumption, Zenon DEF Init
  <2>2. \A x \in Producer : pc[x] = "ready"
    BY Disjoint, Zenon DEF Init
  <2> QED BY <2>1, <2>2, Zenon DEF Owing, NoneLost, Ends, Writing
<1>2. QueueInv /\ QueueInv' /\ ChannelInv /\ Owing /\ Ends /\ [Next]_vars => Owing' /\ Ends'
    BY OwingStep, EndsStep, Zenon DEF QueueInv, ChannelInv
<1>3. Owing => ShutdownDrains
  <2> SUFFICES ASSUME Owing, \A c \in Consumer : pc[c] = "exited", NEW f \in owed PROVE f \in ran
    BY Zenon DEF ShutdownDrains
  <2>1. \A c \in Consumer : InHand(c) = {}
    BY Zenon DEF InHand
  <2>2. \A p \in Positions : ClosureAt(p) \notin owed
    BY Zenon DEF Owing
  <2> QED BY <2>1, <2>2, Zenon DEF Owing, NoneLost
<1>4. Spec => []QueueInv
    BY QueueInvariant, Zenon DEF QueueInv
<1> QED BY <1>1, <1>2, <1>3, <1>4, ChannelInvariant, PTL DEF Spec
=============================================================================
