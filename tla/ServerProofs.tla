---------------------------- MODULE ServerProofs ----------------------------
(* The pool, for any number of vCPUs, and the process as a whole: it keeps   *)
(* what the pool promises, and what a dump and a restart promise.            *)
EXTENDS Server, SnapshotProofs

-----------------------------------------------------------------------------
(* Start and Stop of the pool, for any number of vCPUs and crashes.        *)

\* The vCPUs that stand at one of the places P.
Within(P) == {v \in Vcpu : vpc[v] \in P}

Reported == {"note_ok", "note_fail", "start_loop", "loop", "clear", "delete", "dead"}
Told == Reported \ {"note_ok", "note_fail"}
Up == {"start_loop", "loop"}

Types ==
    /\ vpc \in [Vcpu -> VcpuPc]
    /\ server \in [Vcpu -> {"none", "live", "cleared", "deleted"}]
    /\ terminated \subseteq Vcpu
    /\ init_done_vcpus \in Nat /\ init_ok_vcpus \in Nat
    /\ init_failed \in BOOLEAN /\ running \in BOOLEAN
    /\ main \in MainPc
    /\ stop \in [by : StopCaller, at : 0 .. NumVcpus, held : BOOLEAN, from : MainPc]

(* The counters are what they say: exactly for the vCPUs that are done, and  *)
(* for those that are well as long as nobody has begun to stop them.         *)
Counts ==
    /\ init_done_vcpus = Cardinality(Within(Reported))
    /\ init_ok_vcpus <= Cardinality(Within(Told))
    /\ running => init_ok_vcpus = Cardinality(Within(Up))

\* A server lives from its creation until its vCPU is on its way out.
Servers ==
    \A v \in Vcpu : vpc[v] \in {"listen", "report_ok", "note_ok"} \cup Up => server[v] = "live"

(* Who stops, and since when: the flag goes down with the first stop, Run    *)
(* stands still during a stop, and a stop of a serving process finds every   *)
(* vCPU that it has not told yet in or before its loop.                      *)
Phases ==
    /\ running => stop.by = "nobody" /\ terminated = {} /\ main \in {"poll", "check", "load", "serve"}
    /\ ~running => stop.by # "nobody" \/ main \in {"exit", "fail", "undefined"}
    /\ running /\ main \in {"load", "serve"} => \A v \in Vcpu : vpc[v] \in Up
    /\ stop.by # "nobody" /\ main # "undefined" => stop.from = main
    /\ stop.by = "start" => main \in {"check", "undefined"}
    /\ stop.by = "term" /\ main = "serve" =>
          \A v \in Vcpu : v >= stop.at => vpc[v] \in Up /\ v \notin terminated
    /\ main = "undefined" => stop.from # "serve"

IInv == Types /\ Counts /\ Servers /\ Phases

-----------------------------------------------------------------------------
\* The vCPUs are NumVcpus many.
LEMMA VcpusCounted == IsFiniteSet(Vcpu) /\ Cardinality(Vcpu) = NumVcpus
BY FS_Interval, NumVcpusAssumption DEF Vcpu

\* Every set of vCPUs can be counted, and only the set of all has them all.
LEMMA WithinCounted ==
    ASSUME NEW P
    PROVE  /\ Cardinality(Within(P)) \in 0 .. NumVcpus
           /\ Cardinality(Within(P)) = NumVcpus => Within(P) = Vcpu
<1>1. Within(P) \in SUBSET Vcpu
  BY Zenon DEF Within
<1>2. IsFiniteSet(Within(P)) /\ Cardinality(Within(P)) <= Cardinality(Vcpu)
      /\ (Cardinality(Vcpu) = Cardinality(Within(P)) => Vcpu = Within(P))
  BY <1>1, VcpusCounted, FS_Subset, Zenon
<1>3. Cardinality(Within(P)) \in Nat
  BY <1>2, FS_CardinalityType, Zenon
<1>4. QED
  BY <1>2, <1>3, VcpusCounted, NumVcpusAssumption

\* A vCPU that moves changes the count of P when it enters P, and not when it
\* stays inside or outside.
LEMMA MoveCounted ==
    ASSUME vpc \in [Vcpu -> VcpuPc], NEW v \in Vcpu, NEW q \in VcpuPc, NEW P,
           vpc' = [vpc EXCEPT ![v] = q]
    PROVE  /\ (vpc[v] \in P <=> q \in P) => Cardinality(Within(P)') = Cardinality(Within(P))
           /\ vpc[v] \notin P /\ q \in P =>
                 Cardinality(Within(P)') = Cardinality(Within(P)) + 1
<1>1. ASSUME vpc[v] \in P <=> q \in P PROVE Within(P)' = Within(P)
  BY <1>1, Zenon DEF Within
<1>2. ASSUME vpc[v] \notin P, q \in P
      PROVE  Cardinality(Within(P)') = Cardinality(Within(P)) + 1
  <2>1. Within(P)' = Within(P) \cup {v} /\ v \notin Within(P)
    BY <1>2, Zenon DEF Within
  <2>2. IsFiniteSet(Within(P))
    BY VcpusCounted, FS_Subset, Within(P) \in SUBSET Vcpu, Zenon DEF Within
  <2>3. QED
    BY <2>1, <2>2, FS_AddElement, Zenon
<1>3. QED
  BY <1>1, <1>2, Zenon

(* The move of one vCPU keeps the invariant if it never goes back behind a   *)
(* report, counts what it reports, keeps its server while it needs it, and   *)
(* leaves its loop only when told to.                                        *)
LEMMA MoveKeepsInv ==
    ASSUME IInv, NEW v \in Vcpu, NEW q \in VcpuPc,
           NEW r \in {"none", "live", "cleared", "deleted"},
           vpc' = [vpc EXCEPT ![v] = q], server' = [server EXCEPT ![v] = r],
           UNCHANGED <<terminated, running, main, stop>>, init_failed' \in BOOLEAN,
           vpc[v] \in Reported => q \in Reported,
           vpc[v] \in Told => q \in Told,
           init_done_vcpus' = IF vpc[v] \notin Reported /\ q \in Reported
                              THEN init_done_vcpus + 1 ELSE init_done_vcpus,
           init_ok_vcpus' = IF q = "start_loop" THEN init_ok_vcpus + 1 ELSE init_ok_vcpus,
           q = "start_loop" <=> vpc[v] = "note_ok",
           q \in {"listen", "report_ok", "note_ok"} \cup Up => r = "live",
           vpc[v] \notin Up /\ q \in Up => q = "start_loop",
           vpc[v] \in Up /\ q \notin Up => v \in terminated /\ ~running
    PROVE  IInv'
<1>0. Types /\ Counts /\ Servers /\ Phases
  BY Zenon DEF IInv
<1>1. Types'
  BY <1>0 DEF Types
<1>2. Counts'
  <2>1. \A P : Cardinality(Within(P)) \in Nat
    BY WithinCounted
  <2>2. init_done_vcpus' = Cardinality(Within(Reported)')
    BY <1>0, <2>1, MoveCounted, Zenon DEF Types, Counts
  <2>3. init_ok_vcpus' <= Cardinality(Within(Told)')
    <3>1. CASE vpc[v] \in Told
      <4>1. q \in Told /\ q # "start_loop"
        BY <3>1, Zenon DEF Told, Reported
      <4>2. Cardinality(Within(Told)') = Cardinality(Within(Told))
        BY <1>0, <3>1, <4>1, MoveCounted, Zenon DEF Types
      <4>3. QED
        BY <1>0, <4>1, <4>2, Zenon DEF Counts
    <3>2. CASE vpc[v] \notin Told /\ q \in Told
      <4>1. Cardinality(Within(Told)') = Cardinality(Within(Told)) + 1
        BY <1>0, <3>2, MoveCounted, Zenon DEF Types
      <4>2. QED
        BY <1>0, <2>1, <4>1 DEF Types, Counts
    <3>3. CASE vpc[v] \notin Told /\ q \notin Told
      BY <1>0, <2>1, <3>3, MoveCounted, Zenon DEF Types, Counts, Told, Reported
    <3>4. QED
      BY <3>1, <3>2, <3>3, Zenon
  <2>4. ASSUME running' PROVE init_ok_vcpus' = Cardinality(Within(Up)')
    <3>1. CASE q = "start_loop"
      <4>1. vpc[v] \notin Up /\ q \in Up
        BY <3>1, Zenon DEF Up
      <4>2. QED
        BY <1>0, <2>4, <3>1, <4>1, MoveCounted, Zenon DEF Types, Counts
    <3>2. CASE q # "start_loop"
      <4>1. vpc[v] \in Up <=> q \in Up
        BY <2>4, <3>2, Zenon
      <4>2. QED
        BY <1>0, <2>4, <3>2, <4>1, MoveCounted, Zenon DEF Types, Counts
    <3>3. QED
      BY <3>1, <3>2, Zenon
  <2>5. QED
    BY <2>2, <2>3, <2>4, Zenon DEF Counts
<1>3. Servers'
  BY <1>0, Zenon DEF Types, Servers
<1>4. Phases'
  <2>1. ASSUME running', main' \in {"load", "serve"}, NEW u \in Vcpu PROVE vpc'[u] \in Up
    BY <1>0, <2>1, Zenon DEF Types, Phases
  <2>2. ASSUME stop'.by = "term", main' = "serve", NEW u \in Vcpu, u >= stop'.at
        PROVE  vpc'[u] \in Up /\ u \notin terminated'
    BY <1>0, <2>2, Zenon DEF Types, Phases
  <2>3. QED
    BY <1>0, <2>1, <2>2, Zenon DEF Phases
<1>5. QED
  BY <1>1, <1>2, <1>3, <1>4, Zenon DEF IInv

-----------------------------------------------------------------------------
\* A record made of the four parts of a stop is the record of a stop.
LEMMA StopTyped ==
    ASSUME NEW b \in StopCaller, NEW i \in 0 .. NumVcpus, NEW h \in BOOLEAN, NEW f \in MainPc
    PROVE  [by |-> b, at |-> i, held |-> h, from |-> f]
              \in [by : StopCaller, at : 0 .. NumVcpus, held : BOOLEAN, from : MainPc]
BY Zenon

\* So is the one of no stop.
LEMMA NoStopTyped ==
    NoStop \in [by : StopCaller, at : 0 .. NumVcpus, held : BOOLEAN, from : MainPc]
<1>1. 0 \in 0 .. NumVcpus
  BY NumVcpusAssumption
<1>2. FALSE \in BOOLEAN /\ "nobody" \in StopCaller /\ "poll" \in MainPc
  BY Zenon DEF StopCaller, MainPc
<1>3. QED
  BY <1>1, <1>2, StopTyped, Zenon DEF NoStop

\* A process that begins has no vCPU anywhere but at its beginning.
LEMMA StartHasInv == PInit => IInv
<1> SUFFICES ASSUME PInit PROVE IInv
  BY Zenon
<1>1. Types
  BY NoStopTyped, Zenon DEF PInit, Types, VcpuPc, MainPc
<1>2. Counts
  <2>1. Within(Reported) = {} /\ Within(Told) = {} /\ Within(Up) = {}
    BY Zenon DEF PInit, Within, Reported, Told, Up
  <2>2. QED
    BY <2>1, FS_EmptySet DEF PInit, Counts
<1>3. Servers /\ Phases
  BY Zenon DEF PInit, Servers, Phases, Up, NoStop
<1>4. QED
  BY <1>1, <1>2, <1>3, Zenon DEF IInv

\* The same for a process that follows a crashed one.
LEMMA RestartHasInv == PStarted => IInv'
<1> SUFFICES ASSUME PStarted PROVE IInv'
  BY Zenon
<1>1. Types'
  BY NoStopTyped, Zenon DEF PStarted, Types, VcpuPc, MainPc
<1>2. Counts'
  <2>1. Within(Reported)' = {} /\ Within(Told)' = {} /\ Within(Up)' = {}
    BY Zenon DEF PStarted, Within, Reported, Told, Up
  <2>2. QED
    BY <2>1, FS_EmptySet DEF PStarted, Counts
<1>3. Servers' /\ Phases'
  BY Zenon DEF PStarted, Servers, Phases, Up, NoStop
<1>4. QED
  BY <1>1, <1>2, <1>3, Zenon DEF IInv

\* VcpuMain keeps the invariant: every step of it is a move of one vCPU.
LEMMA VcpuKeepsInv == ASSUME IInv, NEW v \in Vcpu, VcpuStep(v) PROVE IInv'
<1>0. Types /\ Counts /\ Servers /\ Phases /\ vpc[v] \in VcpuPc
      /\ server[v] \in {"none", "live", "cleared", "deleted"}
      /\ server = [server EXCEPT ![v] = server[v]]
  BY Zenon DEF IInv, Types
<1> USE DEF Advance, MainUnchanged, CountersUnchanged, Reported, Told, Up, VcpuPc
<1>1. CASE InitPhoton(v)
  <2>1. PICK q \in {"create", "report_fail"} : vpc[v] = "init" /\ vpc' = [vpc EXCEPT ![v] = q]
    BY <1>1, Zenon DEF InitPhoton
  <2>2. QED
    BY <1>0, <1>1, <2>1, MoveKeepsInv, ZenonT(30) DEF InitPhoton, Types
<1>2. CASE CreateServer(v)
  <2>1. CASE Advance(v, "create", "listen") /\ server' = [server EXCEPT ![v] = "live"]
    BY <1>0, <1>2, <2>1, MoveKeepsInv, ZenonT(30) DEF CreateServer, Types
  <2>2. CASE Advance(v, "create", "report_fail") /\ UNCHANGED server
    BY <1>0, <1>2, <2>2, MoveKeepsInv, ZenonT(30) DEF CreateServer, Types
  <2>3. QED
    BY <1>2, <2>1, <2>2, Zenon DEF CreateServer
<1>3. CASE Listen(v)
  <2>1. PICK q \in {"report_ok", "report_fail"} : vpc[v] = "listen" /\ vpc' = [vpc EXCEPT ![v] = q]
    BY <1>3, Zenon DEF Listen
  <2>2. server[v] = "live"
    BY <1>0, <2>1, Zenon DEF Servers
  <2>3. QED
    BY <1>0, <1>3, <2>1, <2>2, MoveKeepsInv, Zenon DEF Listen, Types
<1>4. CASE ReportDone(v)
  <2>1. CASE Advance(v, "report_ok", "note_ok")
    <3>1. server[v] = "live"
      BY <1>0, <2>1, Zenon DEF Servers
    <3>2. QED
      BY <1>0, <1>4, <2>1, <3>1, MoveKeepsInv, Zenon DEF ReportDone, Types
  <2>2. CASE Advance(v, "report_fail", "note_fail")
    BY <1>0, <1>4, <2>2, MoveKeepsInv, Zenon DEF ReportDone, Types
  <2>3. QED
    BY <1>4, <2>1, <2>2, SMTT(30) DEF ReportDone
<1>5. CASE ReportOutcome(v)
  <2>1. CASE Advance(v, "note_ok", "start_loop") /\ init_ok_vcpus' = init_ok_vcpus + 1
             /\ UNCHANGED init_failed
    <3>1. server[v] = "live"
      BY <1>0, <2>1, Zenon DEF Servers
    <3>2. QED
      BY <1>0, <1>5, <2>1, <3>1, MoveKeepsInv, Zenon DEF ReportOutcome, Types
  <2>2. CASE Advance(v, "note_fail", "clear") /\ init_failed' = TRUE /\ UNCHANGED init_ok_vcpus
    BY <1>0, <1>5, <2>2, MoveKeepsInv, ZenonT(30) DEF ReportOutcome, Types
  <2>3. QED
    BY <1>5, <2>1, <2>2, Zenon DEF ReportOutcome
<1>6. CASE StartLoop(v)
  <2>1. server[v] = "live"
    BY <1>0, <1>6, Zenon DEF StartLoop, Servers
  <2>2. QED
    BY <1>0, <1>6, <2>1, MoveKeepsInv, Zenon DEF StartLoop, Types
<1>7. CASE EndLoop(v)
  BY <1>0, <1>7, MoveKeepsInv, ZenonT(30) DEF EndLoop, Types
<1>8. CASE ClearServer(v)
  BY <1>0, <1>8, MoveKeepsInv, ZenonT(30) DEF ClearServer, Types
<1>9. CASE DeleteServer(v)
  BY <1>0, <1>9, MoveKeepsInv, Zenon DEF DeleteServer, Types
<1>10. QED
  BY <1>1, <1>2, <1>3, <1>4, <1>5, <1>6, <1>7, <1>8, <1>9 DEF VcpuStep

\* Stop and Join keep the invariant.  A stop that began while Run was serving
\* meets only servers whose vCPU is still in or before its loop.
LEMMA StopKeepsInv == ASSUME IInv, StopStep PROVE IInv'
<1>0. Types /\ Counts /\ Servers /\ Phases
  BY Zenon DEF IInv
<1>1. Stopping /\ ~running /\ stop.by # "nobody" /\ main # "undefined" /\ stop.from = main
  BY <1>0, Zenon DEF StopStep, ReadServer, Terminate, Join, Stopping, Types, Phases
<1>2. stop.at \in 0 .. NumVcpus /\ NumVcpus \in Nat
  BY <1>0, NumVcpusAssumption, Zenon DEF Types
<1>3. ASSUME UNCHANGED <<vpc, init_done_vcpus, init_ok_vcpus, running, server>>
      PROVE  Counts' /\ Servers'
  BY <1>0, <1>3, Zenon DEF Counts, Servers, Within
<1> DEFINE StopState == [by : StopCaller, at : 0 .. NumVcpus, held : BOOLEAN, from : MainPc]
<1>typed. ASSUME stop.at < NumVcpus, NextServer PROVE stop' \in StopState
  <2>1. stop' = [by |-> stop.by, at |-> stop.at + 1, held |-> FALSE, from |-> stop.from]
    BY <1>0, <1>typed, Zenon DEF NextServer, Types
  <2>2. stop.at + 1 \in 0 .. NumVcpus
    BY <1>2, <1>typed
  <2>3. stop.by \in StopCaller /\ stop.from \in MainPc /\ FALSE \in BOOLEAN
    BY <1>0, Zenon DEF Types
  <2>4. QED
    BY <2>1, <2>2, <2>3, StopTyped, Zenon
<1>next. ASSUME NextServer
      PROVE  /\ stop'.by = stop.by /\ stop'.from = stop.from
             /\ \A v \in Vcpu : v >= stop'.at => v >= stop.at /\ v # stop.at
  <2>1. stop'.by = stop.by /\ stop'.from = stop.from /\ stop'.at = stop.at + 1
    BY <1>0, <1>next, Zenon DEF NextServer, Types
  <2>2. QED
    BY <1>2, <2>1 DEF Vcpu
<1>held. ASSUME stop' = [stop EXCEPT !.held = TRUE]
       PROVE  stop' \in StopState /\ stop'.by = stop.by /\ stop'.from = stop.from /\ stop'.at = stop.at
  BY <1>0, <1>held, Zenon DEF Types
<1>4. CASE ReadServer
  <2>1. Types'
    <3>1. stop' \in StopState
      BY <1>4, <1>typed, <1>held, Zenon DEF ReadServer
    <3>2. QED
      BY <1>0, <1>4, <3>1, Zenon DEF ReadServer, vcpuVars, Types
  <2>2. Phases'
    <3>1. /\ stop'.by = stop.by /\ stop'.from = stop.from
          /\ \A v \in Vcpu : v >= stop'.at => v >= stop.at
      BY <1>4, <1>next, <1>held, Zenon DEF ReadServer
    <3>2. QED
      BY <1>0, <1>1, <1>4, <3>1, Zenon DEF ReadServer, vcpuVars, Phases
  <2>3. QED
    BY <1>3, <1>4, <2>1, <2>2, Zenon DEF ReadServer, vcpuVars, IInv
<1>5. CASE Terminate
  <2>1. stop.at \in Vcpu
    BY <1>2, <1>5 DEF Terminate, Vcpu
  <2>2. CASE server[stop.at] = "deleted"
    <3>1. Types'
      BY <1>0, <1>5, <2>2, Zenon DEF Terminate, CountersUnchanged, Types, MainPc
    <3>2. main # "serve"
      <4>1. SUFFICES ASSUME main = "serve" PROVE FALSE
        BY Zenon
      <4>2. stop.by = "term"
        BY <1>0, <1>1, <4>1, Zenon DEF Types, Phases, StopCaller
      <4>3. vpc[stop.at] \in Up
        BY <1>0, <1>2, <2>1, <4>1, <4>2 DEF Phases
      <4>4. QED
        BY <1>0, <2>1, <2>2, <4>3, Zenon DEF Servers
    <3>3. Phases'
      BY <1>0, <1>1, <1>5, <2>2, <3>2 DEF Terminate, Phases
    <3>4. QED
      BY <1>3, <1>5, <3>1, <3>3 DEF Terminate, CountersUnchanged, IInv
  <2>3. CASE server[stop.at] # "deleted"
    <3>1. Types'
      <4>1. stop' \in StopState
        BY <1>5, <1>typed, <2>3, Zenon DEF Terminate
      <4>2. QED
        BY <1>0, <1>5, <2>1, <2>3, <4>1 DEF Terminate, CountersUnchanged, Types
    <3>2. Phases'
      <4>1. /\ stop'.by = stop.by /\ stop'.from = stop.from
            /\ \A v \in Vcpu : v >= stop'.at => v >= stop.at /\ v # stop.at
        BY <1>5, <1>next, <2>3, Zenon DEF Terminate
      <4>2. QED
        BY <1>0, <1>1, <1>5, <2>3, <4>1 DEF Terminate, Phases
    <3>3. QED
      BY <1>3, <1>5, <3>1, <3>2, Zenon DEF Terminate, CountersUnchanged, IInv
  <2>4. QED
    BY <2>2, <2>3, Zenon
<1>6. CASE Join
  <2>1. Types'
    BY <1>0, <1>6, Zenon DEF Join, vcpuVars, Types, MainPc, StopCaller
  <2>2. Phases'
    BY <1>0, <1>1, <1>6, Zenon DEF Join, vcpuVars, Types, Phases, StopCaller
  <2>3. QED
    BY <1>3, <1>6, <2>1, <2>2 DEF Join, vcpuVars, IInv
<1>7. QED
  BY <1>4, <1>5, <1>6, Zenon DEF StopStep

\* Run and the signal keep the invariant.  When Start sees that all are well,
\* the vCPUs that are in or before their loop are all there are.
LEMMA RunKeepsInv == ASSUME IInv, Poll \/ Check \/ Loaded \/ Signal PROVE IInv'
<1>0. Types /\ Counts /\ Servers /\ Phases
  BY Zenon DEF IInv
<1>1. UNCHANGED vcpuVars /\ running /\ stop.by = "nobody" /\ terminated = {}
      /\ main \in {"poll", "check", "load", "serve"}
  BY <1>0, Zenon DEF Poll, Check, Loaded, Signal, Stopping, Types, Phases
<1>2. Servers'
  BY <1>0, <1>1, Zenon DEF vcpuVars, Servers
<1>3. Counts'
  BY <1>0, <1>1, Zenon DEF vcpuVars, Counts, Within
<1>begin. ASSUME NEW b \in {"term", "start"}, BeginStop(b)
      PROVE  stop' \in [by : StopCaller, at : 0 .. NumVcpus, held : BOOLEAN, from : MainPc]
  <2>1. 0 \in 0 .. NumVcpus
    BY NumVcpusAssumption
  <2>2. FALSE \in BOOLEAN /\ b \in StopCaller /\ main \in MainPc
    BY <1>0, Zenon DEF StopCaller, Types
  <2>3. QED
    BY <1>begin, <2>1, <2>2, StopTyped, Zenon DEF BeginStop
<1>4. CASE Poll
  BY <1>0, <1>1, <1>2, <1>3, <1>4, Zenon DEF Poll, vcpuVars, Types, Phases, MainPc, IInv
<1>5. CASE Check
  <2>1. CASE UNCHANGED main /\ BeginStop("start")
    <3>1. Types'
      BY <1>0, <1>1, <1>begin, <2>1, Zenon DEF BeginStop, vcpuVars, Types
    <3>2. Phases'
      BY <1>0, <1>1, <1>5, <2>1 DEF Check, BeginStop, vcpuVars, Phases
    <3>3. QED
      BY <1>2, <1>3, <3>1, <3>2, Zenon DEF IInv
  <2>2. CASE main' = "load" /\ UNCHANGED <<running, stop>> /\ init_ok_vcpus = NumVcpus
    <3>1. Types'
      BY <1>0, <1>1, <2>2 DEF vcpuVars, Types, MainPc
    <3>2. Within(Up) = Vcpu
      BY <1>0, <1>1, <2>2, WithinCounted, Zenon DEF Counts
    <3>3. Phases'
      BY <1>0, <1>1, <2>2, <3>2, Zenon DEF vcpuVars, Phases, Within
    <3>4. QED
      BY <1>2, <1>3, <3>1, <3>3, Zenon DEF IInv
  <2>3. QED
    BY <1>5, <2>1, <2>2, Zenon DEF Check
<1>6. CASE Loaded
  BY <1>0, <1>1, <1>2, <1>3, <1>6 DEF Loaded, vcpuVars, Types, Phases, MainPc, IInv
<1>7. CASE Signal
  <2>1. Types'
    BY <1>0, <1>1, <1>7, <1>begin, Zenon DEF Signal, BeginStop, vcpuVars, Types
  <2>2. Phases'
    BY <1>0, <1>1, <1>7, Zenon DEF Signal, BeginStop, vcpuVars, Phases
  <2>3. QED
    BY <1>2, <1>3, <2>1, <2>2, Zenon DEF IInv
<1>8. QED
  BY <1>4, <1>5, <1>6, <1>7

\* The invariant is inductive.
LEMMA NextKeepsInv == IInv /\ [PNext]_pvars => IInv'
<1> SUFFICES ASSUME IInv, [PNext]_pvars PROVE IInv'
  BY Zenon
<1>1. CASE UNCHANGED pvars
  BY <1>1 DEF pvars, IInv, Types, Counts, Servers, Phases, Within
<1>2. CASE PNext
  BY <1>2, VcpuKeepsInv, StopKeepsInv, RunKeepsInv, RestartHasInv, Zenon DEF PNext
<1>3. QED
  BY <1>1, <1>2, Zenon

-----------------------------------------------------------------------------
\* Start's counters, its flag and Stop's place in its loop stay in their ranges,
\* however many vCPUs there are.
THEOREM PoolTyped == PSpec => []PTypeOK
<1>1. IInv => PTypeOK
  <2> SUFFICES ASSUME IInv PROVE PTypeOK
    BY Zenon
  <2>1. init_done_vcpus \in 0 .. NumVcpus /\ init_ok_vcpus \in 0 .. NumVcpus
    BY WithinCounted, NumVcpusAssumption DEF IInv, Types, Counts
  <2>2. QED
    BY <2>1, Zenon DEF IInv, Types, PTypeOK
<1>2. QED
  BY <1>1, StartHasInv, NextKeepsInv, PTL DEF PSpec

\* Once Start has returned true, and until a stop, every vCPU serves.
THEOREM StartedPoolServes == PSpec => []StartMeansServing
<1>1. IInv => StartMeansServing
  BY Zenon DEF IInv, Types, Phases, StartMeansServing, Stopping, Up
<1>2. QED
  BY <1>1, StartHasInv, NextKeepsInv, PTL DEF PSpec

\* A stop of a serving process never uses what has been destroyed.
THEOREM ServingPoolStopsSafely == PSpec => []ServingStopsSafely
<1>1. IInv => ServingStopsSafely
  BY Zenon DEF IInv, Phases, ServingStopsSafely
<1>2. QED
  BY <1>1, StartHasInv, NextKeepsInv, PTL DEF PSpec

-----------------------------------------------------------------------------
(* The whole process.                                                      *)

\* Every step of the process is a step of the pool or leaves the pool alone.
LEMMA ServerStepIsPoolStep == [Next]_vars => [PNext]_pvars
<1> SUFFICES ASSUME [Next]_vars PROVE [PNext]_pvars
  BY Zenon
<1>1. CASE UNCHANGED vars
  BY <1>1, Zenon DEF vars
<1>2. ASSUME NEW v \in Vcpu, RunVcpu(v) PROVE PNext
  BY <1>2, Zenon DEF RunVcpu, PNext
<1>3. CASE Stop
  BY <1>3, Zenon DEF Stop, PoolOnly, PNext
<1>4. CASE Start \/ Serve \/ SendSignal
  BY <1>4, Zenon DEF Start, Serve, SendSignal, PoolOnly, PNext
<1>5. CASE Load \/ Client \/ PassTime
  BY <1>5, Zenon DEF Load, Client, PassTime, DataOnly
<1>6. ASSUME NEW s \in Shard, ExpireKeys(s) PROVE UNCHANGED pvars
  BY <1>6, Zenon DEF ExpireKeys, DataOnly
<1>7. ASSUME NEW j \in Job, AskForSave(j) \/ Saving(j) PROVE UNCHANGED pvars
  BY <1>7, Zenon DEF AskForSave, Saving, DataOnly
<1>8. CASE Restart
  BY <1>8, Zenon DEF Restart, PNext
<1>9. QED
  BY <1>1, <1>2, <1>3, <1>4, <1>5, <1>6, <1>7, <1>8, SMTT(30) DEF Next

\* The process implements its pool: what clients, saves, the load and the expiry
\* fibers do never lets the pool take a step that it would not take alone.
THEOREM ServerImplementsPool == Spec => PSpec
<1>1. Init => PInit
  BY Zenon DEF Init
<1>2. QED
  BY <1>1, ServerStepIsPoolStep, PTL DEF Spec, PSpec

\* In the whole process, too, every vCPU serves once Start has returned true.
THEOREM ServerServes == Spec => []StartMeansServing
BY ServerImplementsPool, StartedPoolServes, PTL

\* In the whole process, too, the stop of a serving pool is safe.
THEOREM ServerStopsSafely == Spec => []ServingStopsSafely
BY ServerImplementsPool, ServingPoolStopsSafely, PTL

\* Every step of the process is a step of the saves, the load and the tables,
\* or leaves them alone.
LEMMA ServerStepIsDataStep == [Next]_vars => [SNext]_state
<1> SUFFICES ASSUME [Next]_vars PROVE [SNext]_state
  BY Zenon
<1>1. CASE UNCHANGED vars
  BY <1>1, Zenon DEF vars, svars, state
<1>2. ASSUME NEW v \in Vcpu, RunVcpu(v) PROVE UNCHANGED state
  BY <1>2, Zenon DEF RunVcpu, Data, state
<1>3. CASE Stop \/ Start \/ Serve \/ SendSignal
  BY <1>3, Zenon DEF Stop, Start, Serve, SendSignal, PoolOnly, svars, Data, state
<1>4. CASE Load \/ Client \/ PassTime
  BY <1>4, Zenon DEF Load, Client, PassTime, DataOnly, SNext, Command
<1>5. ASSUME NEW s \in Shard, ExpireKeys(s) PROVE SNext
  BY <1>5, Zenon DEF ExpireKeys, DataOnly, SNext
<1>6. ASSUME NEW j \in Job, AskForSave(j) \/ Saving(j) PROVE SNext
  <2>1. SaveStep(j)
    BY <1>6, Zenon DEF AskForSave, Saving, VisitShard, DataOnly, SaveStep
  <2> QED BY <2>1, Zenon DEF SNext
<1>7. CASE Restart
  BY <1>7, Zenon DEF Restart, Reboot, SNext
<1>8. QED
  BY <1>1, <1>2, <1>3, <1>4, <1>5, <1>6, <1>7, Zenon DEF Next

\* The process implements its saves and its load: the pool never lets them take
\* a step that they would not take alone.
THEOREM ServerImplementsSnapshots == Spec => SSpec
<1>1. Init => SInit
  BY Zenon DEF Init
<1>2. QED
  BY <1>1, ServerStepIsDataStep, PTL DEF Spec, SSpec

\* In the whole process, too, a BGSAVE that alone has the temporary file passes
\* over no segment.
THEOREM ServerSkipsNothing == Spec => []BgSaveSkipsNothing
BY ServerImplementsSnapshots, SnapshotsSkipNothing, PTL

\* In the whole process, too, the dump that a save has left is whole and holds
\* exactly what the save has seen.
THEOREM ServerDumpsCuts == Spec => []DumpIsCut
BY ServerImplementsSnapshots, DumpsAreCuts, PTL

\* In the whole process, too, every string whose key is a string is back after a
\* restart.
THEOREM ServerBringsStringsBack == Spec => []StringsAreBack
BY ServerImplementsSnapshots, LoadedStringsAreBack, PTL

\* All of the process's state stays in its ranges.
THEOREM ServerTyped == Spec => []TypeOK
BY ServerImplementsPool, PoolTyped, ServerImplementsSnapshots, SnapshotsTyped, PTL DEF TypeOK
=============================================================================
