-------------------------------- MODULE Pool --------------------------------
(* The life of the process: ShardedServer::Run and Term, ProactorPool::Start,*)
(* Stop and Join, and VcpuMain.                                              *)
(*                                                                           *)
(* A vCPU is an OS thread.  The main thread has two fibers: Run, and the     *)
(* signal handler, which gets its turn only while Run sleeps or waits.       *)
(* Stop and Join never yield, so whoever calls them keeps the main thread.   *)
EXTENDS Naturals, FiniteSets

CONSTANT NumVcpus   \* num_vcpus, which is also the number of shards

ASSUME NumVcpusAssumption == NumVcpus \in Nat \ {0}

Vcpu == 0 .. NumVcpus - 1

VARIABLES
    vpc,        \* where the thread of each vCPU stands in VcpuMain
    server,     \* servers[v] and the object: none, live, cleared or deleted
    terminated, \* the servers that have taken notice of terminate()
    init_done_vcpus, init_ok_vcpus, init_failed,
    running,    \* ProactorPool::running
    main,       \* where Run stands
    stop        \* ProactorPool::Stop: its caller, its loop index, its pointer,
                \* and (history) where Run stood when it was called

pvars == <<vpc, server, terminated, init_done_vcpus, init_ok_vcpus, init_failed,
           running, main, stop>>

vcpuVars == <<vpc, server, terminated, init_done_vcpus, init_ok_vcpus, init_failed>>

VcpuPc == {"init", "create", "listen", "report_ok", "note_ok", "report_fail",
           "note_fail", "start_loop", "loop", "clear", "delete", "dead"}

\* Run polls in Start, checks the counters, loads the dump, serves, returns 0
\* or -1; "undefined" is the use of an object that has been destroyed.
MainPc == {"poll", "check", "load", "serve", "exit", "fail", "undefined"}

\* Nobody is in Stop, or the signal handler (Term) is, or Start itself.
StopCaller == {"nobody", "term", "start"}

NoStop == [by |-> "nobody", at |-> 0, held |-> FALSE, from |-> "poll"]

\* ProactorPool::Start up to its polling loop.
PInit ==
    /\ vpc = [v \in Vcpu |-> "init"]
    /\ server = [v \in Vcpu |-> "none"]
    /\ terminated = {}
    /\ init_done_vcpus = 0 /\ init_ok_vcpus = 0 /\ init_failed = FALSE
    /\ running = TRUE
    /\ main = "poll"
    /\ stop = NoStop

\* The same in a process that follows another one.
PStarted ==
    /\ vpc' = [v \in Vcpu |-> "init"]
    /\ server' = [v \in Vcpu |-> "none"]
    /\ terminated' = {}
    /\ init_done_vcpus' = 0 /\ init_ok_vcpus' = 0 /\ init_failed' = FALSE
    /\ running' = TRUE
    /\ main' = "poll"
    /\ stop' = NoStop

(***************************************************************************)
(* VcpuMain                                                                  *)
(***************************************************************************)
Advance(v, from, to) == vpc[v] = from /\ vpc' = [vpc EXCEPT ![v] = to]

MainUnchanged == UNCHANGED <<running, main, stop>>
CountersUnchanged == UNCHANGED <<init_done_vcpus, init_ok_vcpus, init_failed>>

\* photon::init, with io_uring or else with epoll.
InitPhoton(v) ==
    /\ Advance(v, "init", "create") \/ Advance(v, "init", "report_fail")
    /\ UNCHANGED <<server, terminated>> /\ CountersUnchanged /\ MainUnchanged

\* A new socket server, put into servers[v].
CreateServer(v) ==
    /\ \/ /\ Advance(v, "create", "listen")
          /\ server' = [server EXCEPT ![v] = "live"]
       \/ Advance(v, "create", "report_fail") /\ UNCHANGED server
    /\ UNCHANGED terminated /\ CountersUnchanged /\ MainUnchanged

\* Faulty variant: a failed bind returns without a report.
ListenSilently(v) ==
    /\ Advance(v, "listen", "report_ok") \/ Advance(v, "listen", "clear")
    /\ UNCHANGED <<server, terminated>> /\ CountersUnchanged /\ MainUnchanged

\* setsockopt, bind and listen; then the task queue and the expiry fiber.
Listen(v) ==
    /\ Advance(v, "listen", "report_ok") \/ Advance(v, "listen", "report_fail")
    /\ UNCHANGED <<server, terminated>> /\ CountersUnchanged /\ MainUnchanged

\* report_init counts first that the vCPU is done ...
ReportDone(v) ==
    /\ Advance(v, "report_ok", "note_ok") \/ Advance(v, "report_fail", "note_fail")
    /\ init_done_vcpus' = init_done_vcpus + 1
    /\ UNCHANGED <<server, terminated, init_ok_vcpus, init_failed>> /\ MainUnchanged

\* Faulty variant: a success is counted as done once more.
ReportOutcomeTwice(v) ==
    /\ \/ /\ Advance(v, "note_ok", "start_loop")
          /\ init_ok_vcpus' = init_ok_vcpus + 1 /\ UNCHANGED init_failed
          /\ init_done_vcpus' = init_done_vcpus + 1
       \/ /\ Advance(v, "note_fail", "clear")
          /\ init_failed' = TRUE /\ UNCHANGED <<init_ok_vcpus, init_done_vcpus>>
    /\ UNCHANGED <<server, terminated>> /\ MainUnchanged

\* ... and then how it went.
ReportOutcome(v) ==
    /\ \/ /\ Advance(v, "note_ok", "start_loop")
          /\ init_ok_vcpus' = init_ok_vcpus + 1 /\ UNCHANGED init_failed
       \/ /\ Advance(v, "note_fail", "clear")
          /\ init_failed' = TRUE /\ UNCHANGED init_ok_vcpus
    /\ UNCHANGED <<server, terminated, init_done_vcpus>> /\ MainUnchanged

StartLoop(v) ==
    /\ Advance(v, "start_loop", "loop")
    /\ UNCHANGED <<server, terminated>> /\ CountersUnchanged /\ MainUnchanged

\* Faulty variant: start_loop(false), which does not wait for terminate().
EndLoopUnasked(v) ==
    /\ ~running
    /\ Advance(v, "loop", "clear")
    /\ UNCHANGED <<server, terminated>> /\ CountersUnchanged /\ MainUnchanged

\* start_loop returns; the task queue is shut down and the expiry fiber joined,
\* which loops while the pool is running.
EndLoop(v) ==
    /\ v \in terminated /\ ~running
    /\ Advance(v, "loop", "clear")
    /\ UNCHANGED <<server, terminated>> /\ CountersUnchanged /\ MainUnchanged

\* The deferred statements: servers[v] = nullptr, ...
ClearServer(v) ==
    /\ Advance(v, "clear", "delete")
    /\ server' = [server EXCEPT ![v] = IF @ = "live" THEN "cleared" ELSE @]
    /\ UNCHANGED terminated /\ CountersUnchanged /\ MainUnchanged

\* ... delete server, and the thread ends.
DeleteServer(v) ==
    /\ Advance(v, "delete", "dead")
    /\ server' = [server EXCEPT ![v] = IF @ = "cleared" THEN "deleted" ELSE @]
    /\ UNCHANGED terminated /\ CountersUnchanged /\ MainUnchanged

VcpuStep(v) ==
    \/ InitPhoton(v) \/ CreateServer(v) \/ Listen(v) \/ ReportDone(v)
    \/ ReportOutcome(v) \/ StartLoop(v) \/ EndLoop(v) \/ ClearServer(v)
    \/ DeleteServer(v)

(***************************************************************************)
(* Stop and Join                                                             *)
(***************************************************************************)
Stopping == stop.by # "nobody" /\ main # "undefined"

\* Faulty variant: the flag stays up, and the expiry fibers with it.
BeginStopStillRunning(by) ==
    /\ running' = running
    /\ stop' = [by |-> by, at |-> 0, held |-> FALSE, from |-> main]

\* running = false and the first index; Term and Start both get here.
BeginStop(by) ==
    /\ running' = FALSE
    /\ stop' = [by |-> by, at |-> 0, held |-> FALSE, from |-> main]

NextServer == stop' = [stop EXCEPT !.at = @ + 1, !.held = FALSE]

\* server = servers[i]; a null pointer is passed over.
ReadServer ==
    /\ Stopping /\ stop.at < NumVcpus /\ ~stop.held
    /\ IF server[stop.at] = "live"
       THEN stop' = [stop EXCEPT !.held = TRUE]
       ELSE NextServer
    /\ UNCHANGED <<vcpuVars, running, main>>

(* server->terminate().  A server that is not in its loop yet may forget     *)
(* about it; one that has been deleted must not be called.                   *)
Terminate ==
    /\ Stopping /\ stop.at < NumVcpus /\ stop.held
    /\ IF server[stop.at] = "deleted"
       THEN main' = "undefined" /\ UNCHANGED <<terminated, stop>>
       ELSE /\ NextServer /\ UNCHANGED main
            /\ \/ terminated' = terminated \cup {stop.at}
               \/ vpc[stop.at] # "loop" /\ UNCHANGED terminated
    /\ UNCHANGED <<vpc, server, running>> /\ CountersUnchanged

(* Join returns when every thread has ended.  Start then gives up, and Run   *)
(* calls Term, which finds nothing left to stop.  Term destroys the pool;    *)
(* Run goes on behind it, and is well only if it does not use the pool.      *)
Join ==
    /\ Stopping /\ stop.at = NumVcpus
    /\ \A v \in Vcpu : vpc[v] = "dead"
    /\ main' = CASE stop.by = "start" -> "fail"
                 [] stop.by = "term" /\ main = "serve" -> "exit"
                 [] OTHER -> "undefined"
    /\ stop' = [stop EXCEPT !.by = "nobody"]
    /\ UNCHANGED <<vcpuVars, running>>

(***************************************************************************)
(* Run                                                                       *)
(***************************************************************************)
\* Start polls once a millisecond.
Poll ==
    /\ main = "poll" /\ ~Stopping /\ init_done_vcpus = NumVcpus
    /\ main' = "check"
    /\ UNCHANGED <<vcpuVars, running, stop>>

\* Faulty variant: only the failures are looked at, not the successes.
CheckFailuresOnly ==
    /\ main = "check" /\ ~Stopping
    /\ IF init_failed
       THEN BeginStop("start") /\ UNCHANGED main
       ELSE main' = "load" /\ UNCHANGED <<running, stop>>
    /\ UNCHANGED vcpuVars

\* The counters decide whether Start succeeds.
Check ==
    /\ main = "check" /\ ~Stopping
    /\ IF init_failed \/ init_ok_vcpus # NumVcpus
       THEN BeginStop("start") /\ UNCHANGED main
       ELSE main' = "load" /\ UNCHANGED <<running, stop>>
    /\ UNCHANGED vcpuVars

\* LoadFromFile has returned, with or without an error.
Loaded ==
    /\ main = "load" /\ ~Stopping
    /\ main' = "serve"
    /\ UNCHANGED <<vcpuVars, running, stop>>

\* HandleTerm calls Term, whatever Run is waiting for.
Signal ==
    /\ main \in {"poll", "load", "serve"} /\ ~Stopping
    /\ BeginStop("term")
    /\ UNCHANGED <<vcpuVars, main>>

StopStep == ReadServer \/ Terminate \/ Join

\* The process may also crash at any point, and another one be started.
PNext ==
    \/ \E v \in Vcpu : VcpuStep(v)
    \/ StopStep \/ Poll \/ Check \/ Loaded \/ Signal
    \/ PStarted

PSpec == PInit /\ [][PNext]_pvars

-----------------------------------------------------------------------------
PTypeOK ==
    /\ vpc \in [Vcpu -> VcpuPc]
    /\ server \in [Vcpu -> {"none", "live", "cleared", "deleted"}]
    /\ terminated \subseteq Vcpu
    /\ init_done_vcpus \in 0 .. NumVcpus /\ init_ok_vcpus \in 0 .. NumVcpus
    /\ init_failed \in BOOLEAN /\ running \in BOOLEAN
    /\ main \in MainPc
    /\ stop \in [by : StopCaller, at : 0 .. NumVcpus, held : BOOLEAN, from : MainPc]

(* Once Start has returned true every vCPU listens and its task queue is     *)
(* started, so that LoadFromFile may Await on every shard, although the      *)
(* counters are read while the vCPUs still count.                            *)
StartMeansServing ==
    main \in {"load", "serve"} /\ ~Stopping => \A v \in Vcpu : vpc[v] \in {"start_loop", "loop"}

(* A stop of a serving process touches no destroyed object: a server is live *)
(* until its own loop has been told to end, and Run does not look at the     *)
(* pool again.  A stop during Start or during the load has no such promise.  *)
ServingStopsSafely == main = "undefined" => stop.from # "serve"

\* A vCPU that Stop has passed without effect, in a loop that nobody ends.
Overlooked(v) == v < stop.at /\ vpc[v] = "loop" /\ v \notin terminated

(* Start decides: however the vCPUs fare, all of them report, and Run comes  *)
(* to serve or is told to stop.                                              *)
StartDecides == (main = "poll") ~> (main = "serve" \/ Stopping \/ main = "undefined")

(* Stop and Join come to an end: only a vCPU that was told to terminate      *)
(* before it had a loop to leave can keep Join waiting.                      *)
StopEnds == Stopping ~> (~Stopping \/ \E v \in Vcpu : Overlooked(v))
=============================================================================
