------------------------------- MODULE Server -------------------------------
(* The process as a whole: the pool and its vCPUs, the shards, the saves and *)
(* the load, with crashes and restarts.                                      *)
EXTENDS Pool, Snapshots

ASSUME ShardsAssumption == NumShards = NumVcpus     \* each vCPU owns a shard

vars == <<pvars, svars>>

Init == PInit /\ SInit

\* All variables of Snapshots but the bounds.
Data == <<dbs, version, home, snapshot_epoch, bg_save_in_progress, job, tmp, dump, load,
          now, touched>>

(* The queue of a shard runs closures from before its vCPU reports until the *)
(* accept loop has ended.  A connection needs a vCPU in its loop; as a bound *)
(* on the model, clients come when Start has returned, before a stop begins. *)
Alive == main \notin {"exit", "fail", "undefined"}
Serves(s) == Alive /\ vpc[s] \in {"report_ok", "note_ok", "start_loop", "loop"}
Accepts == main \in {"load", "serve"} /\ ~Stopping /\ \E v \in Vcpu : vpc[v] = "loop"

PoolOnly(A) == A /\ UNCHANGED svars
DataOnly(A) == A /\ UNCHANGED pvars

\* A vCPU that fails to start takes a fault from the budget.
RunVcpu(v) ==
    /\ Alive /\ VcpuStep(v) /\ UNCHANGED Data
    /\ IF vpc'[v] = "report_fail" THEN Spend("faults") ELSE UNCHANGED budget

Stop == PoolOnly(StopStep)
Start == PoolOnly(Poll \/ Check)
Serve == PoolOnly(load.pc = "done" /\ Loaded)
SendSignal == Signal /\ Spend("signals") /\ UNCHANGED Data

\* Run loads the dump while the shards already serve clients.
Load == DataOnly(main = "load" /\ ~Stopping /\ LoadStep)

Client ==
    \E w \in Writes :
        /\ Accepts /\ Serves(home[w.key])
        /\ DataOnly(Store(w) \/ Create(w) \/ Delete(w.key, w.db))

ExpireKeys(s) == DataOnly(running /\ Serves(s) /\ ExpireCycle(s))

\* Which of the idle fibers runs a save makes no difference.
AskForSave(j) ==
    /\ \A i \in Job : At(i, "idle") => j <= i
    /\ DataOnly(Accepts /\ (Save(j) \/ BgCheck(j)))

\* What a save does on a shard, and elsewhere, whether it succeeds or fails.
VisitShard(j, s) == Serves(s) /\ (SaveVisit(j, s) \/ BgVisit(j, s) \/ AbandonVisit(j, s))

Saving(j) ==
    DataOnly(\/ \E s \in Shard : VisitShard(j, s)
             \/ Alive /\ (\/ BgMark(j) \/ Open(j) \/ Footer(j) \/ Rename(j) \/ BgClear(j)
                         \/ RenameFails(j) \/ AbandonElsewhere(j)))

PassTime == DataOnly(Tick)

\* The process ends, by itself or by a crash, and another one is started.  What
\* it had in memory is gone; its files stay.
Restart ==
    /\ Spend("restarts")
    /\ PStarted /\ Booted
    /\ tmp' = [tmp EXCEPT !.writers = {}]
    /\ UNCHANGED <<dump, now>>

Next ==
    \/ \E v \in Vcpu : RunVcpu(v)
    \/ Stop \/ Start \/ Serve \/ SendSignal
    \/ Load \/ Client
    \/ \E s \in Shard : ExpireKeys(s)
    \/ \E j \in Job : AskForSave(j) \/ Saving(j)
    \/ PassTime \/ Restart

Spec == Init /\ [][Next]_vars

-----------------------------------------------------------------------------
(* Fairness.  Each state predicate says when a step is enabled, so that      *)
(* fairness need not be computed from the actions.                           *)

CanRun(v) == Alive /\ vpc[v] # "dead" /\ (vpc[v] = "loop" => v \in terminated /\ ~running)

CanStop == Stopping /\ (stop.at < NumVcpus \/ \A v \in Vcpu : vpc[v] = "dead")

CanStart ==
    /\ ~Stopping
    /\ \/ main = "poll" /\ init_done_vcpus = NumVcpus
       \/ main = "check"
       \/ main = "load" /\ load.pc = "done"

CanLoad == main = "load" /\ ~Stopping /\ load.pc # "done"

CanSave(j) == Alive /\ ~At(j, "idle") /\ (At(j, "visit") => Serves(job[j].at % NumShards))

(* Threads are scheduled and fibers get their turn.  Nothing obliges clients *)
(* to come, signals to be sent, or a process to crash.                       *)
FairSpec ==
    /\ Spec
    /\ \A v \in Vcpu : []<>~CanRun(v) \/ []<><<RunVcpu(v)>>_vars
    /\ []<>~CanStop \/ []<><<Stop>>_vars
    /\ []<>~CanStart \/ []<><<Start \/ Serve>>_vars
    /\ []<>~CanLoad \/ []<><<Load>>_vars
    /\ \A j \in Job : []<>~CanSave(j) \/ []<><<Saving(j)>>_vars

-----------------------------------------------------------------------------
TypeOK == PTypeOK /\ STypeOK

(* A BGSAVE that has announced itself takes its announcement back, whatever  *)
(* fails on its way, unless the process stops: the next one is not refused   *)
(* for ever.                                                                 *)
BgSaveEnds == bg_save_in_progress ~> (~bg_save_in_progress \/ Stopping \/ ~Alive)
=============================================================================
