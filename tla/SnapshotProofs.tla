--------------------------- MODULE SnapshotProofs ---------------------------
(* What a dump and a restart promise, for any number of shards, databases,   *)
(* saves and crashes: a BGSAVE that has its file for itself passes over      *)
(* nothing, the dump holds what its save has seen, and a load brings every   *)
(* string back.  The invariant says where each save, the two files and the   *)
(* loader stand; its steps rest on the lemmas of FileProofs.                 *)
EXTENDS FileProofs

-----------------------------------------------------------------------------
(* The saves, the load, clients and expiry fibers by themselves: as far as   *)
(* this module goes each may take its step at any time, and so may a restart. *)

SaveStep(j) ==
    \/ Save(j) \/ BgCheck(j) \/ BgMark(j) \/ Open(j) \/ Footer(j) \/ Rename(j) \/ BgClear(j)
    \/ RenameFails(j) \/ AbandonElsewhere(j)
    \/ \E s \in Shard : SaveVisit(j, s) \/ BgVisit(j, s) \/ AbandonVisit(j, s)

Command == \E w \in Writes : Store(w) \/ Create(w) \/ Delete(w.key, w.db)

\* What was in memory is gone; the files stay.
Reboot == Booted /\ tmp' = [tmp EXCEPT !.writers = {}] /\ UNCHANGED <<dump, now>>

SNext ==
    \/ \E j \in Job : SaveStep(j)
    \/ LoadStep \/ Command \/ (\E s \in Shard : ExpireCycle(s)) \/ Tick \/ Reboot

\* All variables but the bounds.
state == <<dbs, version, home, snapshot_epoch, bg_save_in_progress, job, tmp, dump, load, now,
           touched>>

SSpec == SInit /\ [][SNext]_state

-----------------------------------------------------------------------------
(* The epochs of the saves.                                                  *)

\* The fields of a file.
IsFile(f) == f = [exists |-> f.exists, torn |-> f.torn, tokens |-> f.tokens, cut |-> f.cut,
                  writers |-> f.writers]

Snapshotting(j) == At(j, "visit") /\ IsBg(j)

Typed ==
    /\ snapshot_epoch \in Nat
    /\ version \in [Shard -> [DB -> Nat]]
    /\ job = [j \in Job |-> job[j]]
    /\ \A j \in Job : job[j].epoch \in Nat /\ job[j].at \in Nat
    /\ IsFile(tmp) /\ tmp.writers \subseteq Job

\* No two snapshots under way have the same epoch, and no segment is younger
\* than the last one.
Epochs ==
    /\ \A s \in Shard, i \in DB : version[s][i] <= snapshot_epoch
    /\ \A j \in Job : job[j].epoch <= snapshot_epoch
    /\ \A i, j \in Job : Snapshotting(i) /\ Snapshotting(j) /\ i # j => job[i].epoch # job[j].epoch

\* Only the last snapshot can have the temporary file for itself, and what it
\* has still to visit is older.
Alone ==
    \A j \in tmp.writers : Snapshotting(j) /\ ~tmp.torn =>
        /\ job[j].epoch = snapshot_epoch
        /\ \A s \in Shard, i \in DB : s >= job[j].at => version[s][i] < job[j].epoch

EInv == Typed /\ Epochs /\ Alone

\* An epoch that is not the last one is before it.
LEMMA Earlier == ASSUME NEW e \in Nat, NEW last \in Nat, e <= last, e # last PROVE e < last
OBVIOUS

\* A step of save j that opens no file keeps the invariant: j stamps at most
\* the shard it stands at, and goes on to the next one or ends its visits.
LEMMA SaveKeepsEpochs ==
    ASSUME EInv, NEW j \in Job, NEW r, job' = [job EXCEPT ![j] = r],
           r.epoch \in 0 .. snapshot_epoch, r.at \in Nat,
           r.pc = "visit" => /\ At(j, "visit") /\ r.kind = job[j].kind
                             /\ r.epoch = job[j].epoch /\ r.at > job[j].at,
           UNCHANGED snapshot_epoch, version' \in [Shard -> [DB -> Nat]],
           \A s \in Shard, i \in DB :
               \/ version'[s][i] = version[s][i]
               \/ Snapshotting(j) /\ s = job[j].at /\ version'[s][i] = job[j].epoch,
           IsFile(tmp'), tmp'.writers \subseteq Job,
           \A i \in tmp'.writers : job'[i].pc = "visit" =>
               i \in tmp.writers /\ (tmp.torn => tmp'.torn)
    PROVE  EInv'
<1>0. Typed /\ Epochs /\ Alone
  BY Zenon DEF EInv
<1>1. /\ job'[j] = r
      /\ \A i \in Job : i # j => job'[i] = job[i]
      /\ job' = [i \in Job |-> job'[i]]
  BY <1>0, Zenon DEF Typed
<1>2. Typed'
  BY <1>0, <1>1 DEF Typed
<1>3. \A i \in Job : Snapshotting(i)' => Snapshotting(i) /\ job'[i].epoch = job[i].epoch
  BY <1>1, Zenon DEF Snapshotting, At, IsBg
<1>4. Epochs'
  BY <1>0, <1>1, <1>3, SMTT(30) DEF Typed, Epochs
<1>5. Alone'
  <2> SUFFICES ASSUME NEW i \in tmp'.writers, Snapshotting(i)', ~tmp'.torn
               PROVE  /\ job'[i].epoch = snapshot_epoch
                      /\ \A s \in Shard, d \in DB : s >= job'[i].at => version'[s][d] < job'[i].epoch
    BY Zenon DEF Alone
  <2>1. /\ i \in Job /\ i \in tmp.writers /\ ~tmp.torn
        /\ Snapshotting(i) /\ job'[i].epoch = job[i].epoch
    BY <1>2, <1>3, Zenon DEF Typed, Snapshotting, At
  <2>2. job[i].epoch = snapshot_epoch
        /\ \A s \in Shard, d \in DB : s >= job[i].at => version[s][d] < job[i].epoch
    BY <1>0, <2>1, Zenon DEF Alone
  <2>3. ASSUME NEW s \in Shard, NEW d \in DB, s >= job'[i].at PROVE version'[s][d] < job[i].epoch
    <3>1. s >= job[i].at /\ (i = j => s # job[j].at)
      <4>1. s \in Nat /\ job[i].at \in Nat /\ r.at \in Nat
        BY <1>0, <2>1, NumShardsAssumption, SMTT(30) DEF Typed, Shard
      <4>2. CASE i = j
        <5>1. r.pc = "visit" /\ s >= r.at
          BY <1>1, <2>3, <4>2, Zenon DEF Snapshotting, At
        <5>2. QED
          BY <4>1, <4>2, <5>1, SMTT(30)
      <4>3. CASE i # j
        BY <1>1, <2>1, <2>3, <4>3, Zenon
      <4>4. QED
        BY <4>2, <4>3, Zenon
    <3>2. ASSUME Snapshotting(j), i # j PROVE job[j].epoch < job[i].epoch
      <4>1. job[j].epoch # job[i].epoch
        BY <1>0, <2>1, <3>2, Zenon DEF Epochs
      <4>2. job[j].epoch \in Nat /\ snapshot_epoch \in Nat /\ job[j].epoch <= snapshot_epoch
        BY <1>0, Zenon DEF Typed, Epochs
      <4>3. job[i].epoch = snapshot_epoch
        BY <2>2, Zenon
      <4>4. QED
        BY <4>1, <4>2, <4>3, Earlier, Zenon
    <3>3. QED
      BY <2>2, <3>1, <3>2, Zenon
  <2>4. QED
    BY <2>1, <2>2, <2>3, Zenon
<1>6. QED
  BY <1>2, <1>4, <1>5, Zenon DEF EInv

\* A save that opens the file tears it from whoever writes it, and a BGSAVE
\* takes an epoch that no segment and no other snapshot has.
LEMMA OpenKeepsEpochs == ASSUME EInv, NEW j \in Job, Open(j) PROVE EInv'
<1>0. Typed /\ Epochs /\ Alone
  BY Zenon DEF EInv
<1> DEFINE e == IF IsBg(j) THEN snapshot_epoch' ELSE 0
           r == [pc |-> "visit", kind |-> job[j].kind, epoch |-> e, at |-> 0,
                 serializer |-> SaveHeader(NewSerializer), cut |-> {}]
           others == {o \in tmp.writers : Busy(o)}
<1>1. snapshot_epoch' = IF IsBg(j) THEN snapshot_epoch + 1 ELSE snapshot_epoch
  BY Zenon DEF Open
<1>2. job' = [job EXCEPT ![j] = r]
  BY Zenon DEF Open, SetJob
<1>3. tmp' = [exists |-> TRUE, torn |-> others # {}, tokens |-> <<>>, cut |-> {},
              writers |-> others \cup {j}]
  BY Zenon DEF Open, OpenTmp
<1>4. UNCHANGED version
  BY Zenon DEF Open
<1> HIDE DEF r, e
<1>5. /\ job'[j] = r
      /\ \A i \in Job : i # j => job'[i] = job[i]
      /\ job' = [i \in Job |-> job'[i]]
  BY <1>0, <1>2, Zenon DEF Typed
<1>6. /\ r.epoch = e /\ r.at = 0 /\ r.kind = job[j].kind
      /\ e \in Nat /\ e <= snapshot_epoch' /\ snapshot_epoch' \in Nat
      /\ snapshot_epoch <= snapshot_epoch' /\ (IsBg(j) => e > snapshot_epoch /\ e = snapshot_epoch')
  BY <1>0, <1>1 DEF Typed, r, e
<1>7. Typed'
  <2>1. IsFile(tmp')
    BY <1>3, Zenon DEF IsFile
  <2>2. tmp'.writers \subseteq Job
    BY <1>0, <1>3, Zenon DEF Typed
  <2>3. QED
    BY <1>0, <1>4, <1>5, <1>6, <2>1, <2>2, SMTT(30) DEF Typed
<1>8. Epochs'
  <2>1. \A i \in Job : i # j /\ Snapshotting(i)' => Snapshotting(i) /\ job'[i].epoch <= snapshot_epoch
    BY <1>0, <1>5, Zenon DEF Snapshotting, At, IsBg, Epochs
  <2>2. Snapshotting(j)' => job'[j].epoch > snapshot_epoch
    BY <1>5, <1>6, Zenon DEF Snapshotting, IsBg
  <2>3. QED
    BY <1>0, <1>4, <1>5, <1>6, <2>1, <2>2, SMTT(30) DEF Typed, Epochs
<1>9. Alone'
  <2> SUFFICES ASSUME NEW i \in tmp'.writers, Snapshotting(i)', ~tmp'.torn
               PROVE  /\ job'[i].epoch = snapshot_epoch'
                      /\ \A s \in Shard, d \in DB : s >= job'[i].at => version'[s][d] < job'[i].epoch
    BY Zenon DEF Alone
  <2>1. i = j /\ IsBg(j)
    BY <1>3, <1>5, <1>6, Zenon DEF Snapshotting, IsBg
  <2>2. QED
    BY <1>0, <1>4, <1>5, <1>6, <2>1, SMTT(30) DEF Typed, Epochs
<1>10. QED
  BY <1>7, <1>8, <1>9, Zenon DEF EInv

\* The stamps of snapshot j stay on the shard where it stands.
LEMMA StampedHere ==
    ASSUME Typed, NEW j \in Job, NEW s \in Shard, NEW n, s = job[j].at, Stamp(j, s, n)
    PROVE  /\ version' \in [Shard -> [DB -> Nat]]
           /\ \A t \in Shard, i \in DB :
                 \/ version'[t][i] = version[t][i]
                 \/ t = job[j].at /\ version'[t][i] = job[j].epoch
<1> DEFINE row == [i \in DB |-> IF i <= n /\ Due(j, s, i) THEN job[j].epoch ELSE version[s][i]]
<1>1. version \in [Shard -> [DB -> Nat]] /\ job[j].epoch \in Nat
  BY Zenon DEF Typed
<1>2. version' = [version EXCEPT ![s] = row]
  BY Zenon DEF Stamp
<1>3. row \in [DB -> Nat] /\ \A i \in DB : row[i] \in {version[s][i], job[j].epoch}
  BY <1>1, Zenon
<1> HIDE DEF row
<1>4. version' \in [Shard -> [DB -> Nat]]
  BY <1>1, <1>2, <1>3, Zenon
<1>5. version'[s] = row /\ \A t \in Shard : t # s => version'[t] = version[t]
  BY <1>1, <1>2, Zenon
<1>6. QED
  BY <1>3, <1>4, <1>5, Zenon

\* A save stamps nothing, or as a snapshot the shard where it stands.
StampsAtMost(j) ==
    \/ UNCHANGED version
    \/ Snapshotting(j) /\ \E s \in Shard : \E n : s = job[j].at /\ Stamp(j, s, n)

\* Either way the versions are numbers, and change only there.
LEMMA StampedAtMost ==
    ASSUME Typed, NEW j \in Job, StampsAtMost(j)
    PROVE  /\ version' \in [Shard -> [DB -> Nat]]
           /\ \A s \in Shard, i \in DB :
                 \/ version'[s][i] = version[s][i]
                 \/ Snapshotting(j) /\ s = job[j].at /\ version'[s][i] = job[j].epoch
<1>1. CASE UNCHANGED version
  BY <1>1, Zenon DEF Typed
<1>2. CASE Snapshotting(j) /\ \E s \in Shard : \E n : s = job[j].at /\ Stamp(j, s, n)
  BY <1>2, StampedHere, Zenon
<1>3. QED
  BY <1>1, <1>2, Zenon DEF StampsAtMost

\* A save that makes no visit next, and opens nothing, keeps the invariant.
LEMMA FreshKeepsEpochs ==
    ASSUME EInv, NEW j \in Job, NEW p, NEW k, p # "visit", job' = [job EXCEPT ![j] = Fresh(p, k)],
           UNCHANGED snapshot_epoch, StampsAtMost(j),
           IsFile(tmp'), tmp'.writers \subseteq tmp.writers,
           tmp'.writers = {} \/ (tmp.torn => tmp'.torn)
    PROVE  EInv'
<1> DEFINE r == Fresh(p, k)
<1>1. Typed
  BY Zenon DEF EInv
<1>2. r.epoch = 0 /\ r.at = 0 /\ r.pc = p
  BY Zenon DEF Fresh
<1>3. r.epoch \in 0 .. snapshot_epoch /\ r.at \in Nat /\ r.pc # "visit"
  BY <1>1, <1>2 DEF Typed
<1>4. tmp'.writers \subseteq Job
  BY <1>1, Zenon DEF Typed
<1>5. \A i \in tmp'.writers : i \in tmp.writers /\ (tmp.torn => tmp'.torn)
  BY Zenon
<1> HIDE DEF r
<1>6. job' = [job EXCEPT ![j] = r]
  BY Zenon DEF r
<1>7. QED
  BY <1>1, <1>3, <1>4, <1>5, <1>6, StampedAtMost, SaveKeepsEpochs, Zenon

\* A save that has made a visit keeps the invariant.
LEMMA VisitKeepsEpochs ==
    ASSUME EInv, NEW j \in Job, NEW n, NEW o, NEW seen, At(j, "visit"), Visited(j, n, o, seen),
           UNCHANGED <<snapshot_epoch, tmp>>, StampsAtMost(j)
    PROVE  EInv'
<1> DEFINE p == IF job[j].at + 1 = n THEN "footer" ELSE "visit"
           r == [pc |-> p, kind |-> job[j].kind, epoch |-> job[j].epoch, at |-> job[j].at + 1,
                 serializer |-> o, cut |-> job[j].cut \cup seen]
<1>1. Typed /\ Epochs
  BY Zenon DEF EInv
<1>2. job' = [job EXCEPT ![j] = r]
  BY Zenon DEF Visited, SetJob
<1>3. r.kind = job[j].kind /\ r.epoch = job[j].epoch /\ r.at = job[j].at + 1
  BY Zenon
<1> HIDE DEF r
<1>4. r.epoch \in 0 .. snapshot_epoch /\ r.at \in Nat /\ r.at > job[j].at
  BY <1>1, <1>3 DEF Typed, Epochs
<1>5. IsFile(tmp') /\ tmp'.writers \subseteq Job
      /\ \A i \in tmp'.writers : i \in tmp.writers /\ (tmp.torn => tmp'.torn)
  BY <1>1, Zenon DEF Typed
<1>6. QED
  BY <1>1, <1>2, <1>3, <1>4, <1>5, StampedAtMost, SaveKeepsEpochs, Zenon

\* Every step of a save keeps the invariant.
LEMMA StepKeepsEpochs == ASSUME EInv, NEW j \in Job, SaveStep(j) PROVE EInv'
<1>0. Typed
  BY Zenon DEF EInv
<1> USE DEF SetJob, DataUnchanged
<1>1. ASSUME UNCHANGED version PROVE StampsAtMost(j)
  BY <1>1, Zenon DEF StampsAtMost
<1>2. ASSUME UNCHANGED tmp
      PROVE  IsFile(tmp') /\ tmp'.writers \subseteq tmp.writers /\ (tmp.torn => tmp'.torn)
  BY <1>0, <1>2, Zenon DEF Typed
<1>3. CASE BgCheck(j)
  BY <1>1, <1>2, <1>3, FreshKeepsEpochs, Zenon DEF BgCheck
<1>4. CASE BgMark(j)
  BY <1>1, <1>2, <1>4, FreshKeepsEpochs, Zenon DEF BgMark
<1>5. CASE Save(j)
  BY <1>1, <1>2, <1>5, FreshKeepsEpochs, Zenon DEF Save
<1>6. CASE Open(j)
  BY <1>6, OpenKeepsEpochs, Zenon
<1>7. ASSUME NEW s \in Shard, SaveVisit(j, s) PROVE EInv'
  BY <1>1, <1>7, VisitKeepsEpochs, Zenon DEF SaveVisit
<1>8. ASSUME NEW s \in Shard, BgVisit(j, s) PROVE EInv'
  <2>1. StampsAtMost(j)
    BY <1>8, Zenon DEF BgVisit, StampsAtMost, Snapshotting
  <2>2. QED
    BY <1>8, <2>1, VisitKeepsEpochs, Zenon DEF BgVisit
<1>9. CASE Footer(j)
  <2>1. IsFile(tmp') /\ tmp'.writers = tmp.writers /\ (tmp.torn => tmp'.torn)
    <3>1. CASE UNCHANGED tmp
      BY <1>0, <3>1, Zenon DEF Typed
    <3>2. CASE /\ ~tmp.torn
               /\ tmp' = [exists |-> TRUE, torn |-> FALSE,
                          tokens |-> SaveFooter(job[j].serializer).out, cut |-> job[j].cut,
                          writers |-> tmp.writers]
      BY <3>2, Zenon DEF IsFile
    <3>3. QED
      BY <1>9, <3>1, <3>2, Zenon DEF Footer
  <2>2. QED
    BY <1>1, <1>9, <2>1, FreshKeepsEpochs, Zenon DEF Footer
<1>10. ASSUME Leave(j), UNCHANGED snapshot_epoch, StampsAtMost(j), IsFile(tmp'),
              tmp'.writers \subseteq tmp.writers, tmp'.writers = {} \/ (tmp.torn => tmp'.torn)
       PROVE  EInv'
  <2>1. CASE IsBg(j)
    BY <1>10, <2>1, FreshKeepsEpochs, Zenon DEF Leave
  <2>2. CASE ~IsBg(j)
    BY <1>10, <2>2, FreshKeepsEpochs, Zenon DEF Leave, NoJob
  <2>3. QED
    BY <2>1, <2>2, Zenon
<1>11. CASE Rename(j)
  <2>1. IsFile(tmp') /\ tmp'.writers = {}
    BY <1>11, Zenon DEF Rename, NoFile, IsFile
  <2>2. QED
    BY <1>1, <1>10, <1>11, <2>1, Zenon DEF Rename
<1>12. ASSUME Abandon(j), StampsAtMost(j) PROVE EInv'
  <2>1. IsFile(tmp') /\ tmp'.writers = tmp.writers \ {j} /\ tmp'.torn = tmp.torn
    BY <1>0, <1>12, ZenonT(30) DEF Abandon, Typed, IsFile
  <2>2. QED
    BY <1>10, <1>12, <2>1, Zenon DEF Abandon
<1>13. ASSUME NEW s \in Shard, AbandonVisit(j, s) PROVE EInv'
  <2>1. StampsAtMost(j)
    BY <1>13, Zenon DEF AbandonVisit, StampsAtMost, Snapshotting
  <2>2. QED
    BY <1>12, <1>13, <2>1, Zenon DEF AbandonVisit
<1>14. CASE AbandonElsewhere(j)
  BY <1>1, <1>12, <1>14, Zenon DEF AbandonElsewhere
<1>15. CASE RenameFails(j)
  BY <1>1, <1>2, <1>10, <1>15, Zenon DEF RenameFails
<1>16. CASE BgClear(j)
  BY <1>1, <1>2, <1>16, FreshKeepsEpochs, Zenon DEF BgClear, NoJob
<1>17. QED
  BY <1>3, <1>4, <1>5, <1>6, <1>7, <1>8, <1>9, <1>11, <1>13, <1>14, <1>15, <1>16, Zenon
     DEF SaveStep

\* A process that begins, and one that follows another, has no save under way.
LEMMA BootHasEpochs == (SInit => EInv) /\ (EInv /\ Reboot => EInv')
<1> DEFINE zero == [s \in Shard |-> [i \in DB |-> 0]]
           none == [j \in Job |-> NoJob]
<1>1. zero \in [Shard -> [DB -> Nat]] /\ \A s \in Shard, i \in DB : zero[s][i] = 0
  BY Zenon
<1>2. NoJob.epoch = 0 /\ NoJob.at = 0 /\ NoJob.pc = "idle"
  BY Zenon DEF NoJob, Fresh
<1>3. none = [j \in Job |-> none[j]] /\ \A j \in Job : none[j] = NoJob
  BY Zenon
<1> HIDE DEF zero, none
<1>4. ASSUME SInit PROVE EInv
  <2>1. version = zero /\ job = none /\ snapshot_epoch = 0 /\ tmp = NoFile
    BY <1>4, Zenon DEF SInit, zero, none
  <2>2. IsFile(tmp) /\ tmp.writers = {}
    BY <2>1, Zenon DEF NoFile, IsFile
  <2>3. Typed /\ Alone
    BY <1>1, <1>2, <1>3, <2>1, <2>2, SMTT(30) DEF Typed, Alone
  <2>4. Epochs
    BY <1>1, <1>2, <1>3, <2>1, SMTT(30) DEF Epochs, Snapshotting, At
  <2>5. QED
    BY <2>3, <2>4, Zenon DEF EInv
<1>5. ASSUME EInv, Reboot PROVE EInv'
  <2>1. version' = zero /\ job' = none /\ snapshot_epoch' = 0
    BY <1>5, Zenon DEF Reboot, Booted, zero, none
  <2>2. tmp' = [tmp EXCEPT !.writers = {}]
    BY <1>5, Zenon DEF Reboot
  <2>3. IsFile(tmp') /\ tmp'.writers = {}
    BY <1>5, <2>2, Zenon DEF EInv, Typed, IsFile
  <2>4. Typed' /\ Alone'
    BY <1>1, <1>2, <1>3, <2>1, <2>3 DEF Typed, Alone
  <2>5. Epochs'
    BY <1>1, <1>2, <1>3, <2>1, SMTT(30) DEF Epochs, Snapshotting, At
  <2>6. QED
    BY <2>4, <2>5, Zenon DEF EInv
<1>6. QED
  BY <1>4, <1>5, Zenon

\* Nothing else touches the saves.
LEMMA OthersKeepEpochs ==
    ASSUME EInv, UNCHANGED <<snapshot_epoch, version, job, tmp>> PROVE EInv'
BY Zenon DEF EInv, Typed, Epochs, Alone, Snapshotting, At, IsBg, IsFile

\* The invariant of the epochs is inductive.
LEMMA NextKeepsEpochs == EInv /\ [SNext]_state => EInv'
<1> SUFFICES ASSUME EInv, [SNext]_state PROVE EInv'
  BY Zenon
<1>1. CASE UNCHANGED state
  BY <1>1, OthersKeepEpochs, Zenon DEF state
<1>2. CASE LoadStep
  BY <1>2, OthersKeepEpochs, Zenon DEF LoadStep, LoadOpen, LoadEntry, LoadEnd, LoadTorn, LoadUnchanged
<1>3. CASE Command
  BY <1>3, OthersKeepEpochs, Zenon DEF Command, Store, Create, Delete, Touch, SavesUnchanged
<1>4. CASE (\E s \in Shard : ExpireCycle(s)) \/ Tick
  BY <1>4, OthersKeepEpochs, Zenon DEF ExpireCycle, Tick, SavesUnchanged
<1>5. QED
  BY <1>1, <1>2, <1>3, <1>4, StepKeepsEpochs, BootHasEpochs, Zenon DEF SNext

\* A BGSAVE that alone has the temporary file passes over no segment, whatever
\* the number of shards, databases and saves, and however often saves fail.
THEOREM SnapshotsSkipNothing == SSpec => []BgSaveSkipsNothing
<1>1. EInv => BgSaveSkipsNothing
  BY Zenon DEF EInv, Alone, BgSaveSkipsNothing, Snapshotting
<1>2. QED
  BY <1>1, BootHasEpochs, NextKeepsEpochs, PTL DEF SSpec

-----------------------------------------------------------------------------
(* The saves.                                                                *)

\* Entry e is of a table that save j has visited.
Behind(j, e) == IF IsBg(j) THEN home[e.key] < job[j].at
                           ELSE e.db * NumShards + home[e.key] < job[j].at

Wrote(j) ==
    /\ At(j, "visit") =>
          /\ Saved(job[j].serializer, job[j].cut)
          /\ job[j].at < IF IsBg(j) THEN NumShards ELSE NumDBs * NumShards
          /\ \A e \in job[j].cut : Behind(j, e)
    /\ At(j, "footer") => Saved(job[j].serializer, job[j].cut)
    /\ At(j, "rename") => Complete(tmp.tokens, tmp.cut)

Files ==
    /\ \A j \in Job : job[j].pc \in JobPc
    /\ tmp.writers \subseteq {j \in Job : Busy(j)}
    /\ ~tmp.exists => tmp.writers = {}
    /\ ~tmp.torn => \A j \in tmp.writers : Wrote(j) /\ tmp.writers = {j}
    /\ dump.exists /\ ~dump.torn => Complete(dump.tokens, dump.cut)

-----------------------------------------------------------------------------
(* The load of a dump.                                                       *)

\* Entry e is behind the loader.
IsRead(e) == \E p \in EntriesOf(load.reader.tokens) :
                p < load.reader.pos /\ Records(load.reader.tokens, p, e)

\* What StringsAreBack is about.
Promised(e) == e.key \in PlainKey /\ ~IsContainer(e.val) /\ e.val # NullObject

Loading ==
    /\ DOMAIN load = {"pc", "reader", "ok", "torn", "cut"} /\ IsCut(load.cut)
    /\ load.pc \in {"open", "read", "guess", "done"}
    /\ load.pc = "open" => ~load.torn /\ load.cut = {}
    /\ load.pc = "guess" => load.torn
    /\ load.pc = "read" => ~load.torn /\ IsReader(load.reader) /\ Complete(load.reader.tokens, load.cut)
    /\ load.pc \in {"open", "read"} => \A i \in DB, k \in PlainKey :
          <<i, k>> \in touched \/ (\E e \in load.cut : e.db = i /\ e.key = k /\ IsRead(e)) \/ Vacant(i, k)
    /\ load.pc = "read" => \A e \in Untouched : Promised(e) /\ IsRead(e) => IsBack(e)
    /\ load.pc = "done" /\ ~load.torn => load.ok /\ \A e \in Untouched : Promised(e) => IsBack(e)

SnapInv == Tables /\ Files /\ Loading

-----------------------------------------------------------------------------
(* The saves keep the files in order.                                        *)

\* The tables that SAVE visits, one after another.
LEMMA TableOfVisit ==
    ASSUME NEW n \in Nat, n < NumDBs * NumShards
    PROVE  /\ n \div NumShards \in DB /\ n % NumShards \in Shard
           /\ n = (n \div NumShards) * NumShards + (n % NumShards)
<1> DEFINE q == n \div NumShards
           r == n % NumShards
<1>1. NumShards \in Nat /\ NumShards > 0 /\ NumDBs \in Nat
    BY NumShardsAssumption, NumDBsAssumption
<1>2. q \in Nat /\ r \in 0 .. NumShards - 1 /\ n = q * NumShards + r
    BY <1>1
<1> HIDE DEF q, r
<1>3. q < NumDBs
  <2> SUFFICES ASSUME q >= NumDBs PROVE FALSE
    BY <1>1, <1>2
  <2>1. q * NumShards >= NumDBs * NumShards
    BY <1>1, <1>2
  <2>2. q * NumShards \in Nat /\ NumDBs * NumShards \in Nat
    BY <1>1, <1>2
  <2> QED BY <1>1, <1>2, <2>1, <2>2
<1> QED BY <1>1, <1>2, <1>3 DEF q, r, DB, Shard

\* What is true of a save depends on its own state and on the file.
LEMMA StillWrote ==
    ASSUME NEW i, Wrote(i), job'[i] = job[i], home' = home,
           tmp'.tokens = tmp.tokens, tmp'.cut = tmp.cut
    PROVE  Wrote(i)'
BY Zenon DEF Wrote, At, IsBg, Behind

\* A save that does not write the temporary file, before and after a step.
LEMMA SaveElsewhere ==
    ASSUME Files, Typed, NEW j \in Job, j \notin tmp.writers, NEW r, r.pc \in JobPc, SetJob(j, r),
           UNCHANGED <<tmp, dump, home>>
    PROVE  Files'
<1>1. job' = [job EXCEPT ![j] = r] /\ job = [i \in Job |-> job[i]]
    BY Zenon DEF SetJob, Typed
<1>2. job'[j] = r /\ \A i \in Job : i # j => job'[i] = job[i]
    BY <1>1, Zenon
<1>3. \A i \in tmp.writers : i \in Job /\ i # j /\ Busy(i) /\ job'[i] = job[i]
    BY <1>2, Zenon DEF Files
<1>4. \A i \in Job : job'[i].pc \in JobPc
    BY <1>2, Zenon DEF Files
<1>5. tmp'.writers \subseteq {i \in Job : Busy(i)'}
    BY <1>3, Zenon DEF Busy
<1>6. ~tmp'.torn => \A i \in tmp'.writers : Wrote(i)' /\ tmp'.writers = {i}
  <2> SUFFICES ASSUME ~tmp.torn, NEW i \in tmp.writers PROVE Wrote(i)' /\ tmp.writers = {i}
    BY Zenon
  <2>1. Wrote(i) /\ tmp.writers = {i}
    BY Zenon DEF Files
  <2> QED BY <1>3, <2>1, StillWrote, Zenon
<1> QED BY <1>4, <1>5, <1>6, Zenon DEF Files, Complete

\* A step of a save that writes the file, or has written it.
LEMMA SaveGoesOn ==
    ASSUME Files, Typed, NEW j \in Job, NEW r, r.pc \in {"visit", "footer", "rename"}, SetJob(j, r),
           UNCHANGED <<dump, home>>, tmp'.writers = tmp.writers, tmp.torn => tmp'.torn,
           tmp.writers # {} => tmp'.exists,
           j \notin tmp.writers \/ tmp.torn => tmp' = tmp,
           ~tmp.torn /\ tmp.writers = {j} /\ Wrote(j) => Wrote(j)'
    PROVE  Files'
<1>1. job' = [job EXCEPT ![j] = r] /\ job = [i \in Job |-> job[i]]
    BY Zenon DEF SetJob, Typed
<1>2. job'[j] = r /\ \A i \in Job : i # j => job'[i] = job[i]
    BY <1>1, Zenon
<1>3. \A i \in Job : job'[i].pc \in JobPc
    BY <1>2, Zenon DEF Files, JobPc
<1>4. tmp'.writers \subseteq {i \in Job : Busy(i)'}
  <2> SUFFICES ASSUME NEW i \in tmp.writers PROVE i \in Job /\ Busy(i)'
    BY Zenon
  <2>1. i \in Job /\ Busy(i)
    BY Zenon DEF Files
  <2> QED BY <1>2, <2>1, Zenon DEF Busy
<1>5. ASSUME ~tmp'.torn, NEW i \in tmp'.writers PROVE Wrote(i)' /\ tmp'.writers = {i}
  <2>1. Wrote(i) /\ tmp.writers = {i} /\ i \in Job
    BY <1>5, Zenon DEF Files
  <2>2. CASE i = j
    BY <1>5, <2>1, <2>2, Zenon
  <2>3. CASE i # j
    <3>1. tmp' = tmp /\ job'[i] = job[i]
      BY <1>2, <2>1, <2>3, Zenon
    <3> QED BY <2>1, <3>1, StillWrote, Zenon
  <2> QED BY <2>2, <2>3, Zenon
<1> QED BY <1>3, <1>4, <1>5, Zenon DEF Files, Complete

\* A save leaves the file alone for good.
LEMMA SaveLeaves ==
    ASSUME Files, Typed, NEW j \in Job, NEW r, r.pc \in JobPc, SetJob(j, r), UNCHANGED <<dump, home>>,
           tmp' = [tmp EXCEPT !.writers = @ \ {j}]
    PROVE  Files'
<1>1. job' = [job EXCEPT ![j] = r] /\ job = [i \in Job |-> job[i]] /\ IsFile(tmp)
    BY Zenon DEF SetJob, Typed
<1>2. job'[j] = r /\ \A i \in Job : i # j => job'[i] = job[i]
    BY <1>1, Zenon
<1>3. /\ tmp'.writers = tmp.writers \ {j} /\ tmp'.torn = tmp.torn /\ tmp'.exists = tmp.exists
      /\ tmp'.tokens = tmp.tokens /\ tmp'.cut = tmp.cut
    BY <1>1, Zenon DEF IsFile
<1>4. \A i \in Job : job'[i].pc \in JobPc
    BY <1>2, Zenon DEF Files
<1>5. tmp'.writers \subseteq {i \in Job : Busy(i)'}
    BY <1>2, <1>3, Zenon DEF Files, Busy
<1>6. ASSUME ~tmp'.torn, NEW i \in tmp'.writers PROVE Wrote(i)' /\ tmp'.writers = {i}
  <2>1. Wrote(i) /\ tmp.writers = {i} /\ i \in Job /\ i # j
    BY <1>3, <1>6, Zenon DEF Files
  <2> QED BY <1>2, <1>3, <2>1, StillWrote, Zenon
<1> QED BY <1>3, <1>4, <1>5, <1>6, Zenon DEF Files, Complete

\* Where a save stands that has no file open.
LEMMA FreshPc == \A p, k : Fresh(p, k).pc = p /\ Fresh(p, k).kind = k
BY Zenon DEF Fresh

\* A save that leaves is at a place that a save can be at.
LEMMA LeavePc ==
    ASSUME NEW j, Leave(j) PROVE \E r : SetJob(j, r) /\ r.pc \in JobPc
<1> DEFINE r == IF IsBg(j) THEN Fresh("clear", "bgsave") ELSE NoJob
<1>1. r.pc \in {"clear", "idle"}
    BY FreshPc, Zenon DEF NoJob
<1>2. SetJob(j, r)
    BY Zenon DEF Leave
<1> HIDE DEF r
<1> QED BY <1>1, <1>2, Zenon DEF JobPc

\* The header is all there is of a new file.
LEMMA NothingSaved == Saved(SaveHeader(NewSerializer), {})
<1> DEFINE t == <<<<"header">>>>
           o == SaveHeader(NewSerializer)
<1>1. o = [out |-> t, last_dbid |-> NoDb]
    BY DEF SaveHeader, NewSerializer, Write
<1>2. Begun(t)
    BY DEF Begun
<1>3. t[Len(t)][1] = "header" /\ EntriesOf(t) = {}
    BY DEF EntriesOf
<1>4. IsCut({})
    BY Zenon DEF IsCut
<1>5. Holds(t, {})
  <2> DEFINE b == [p \in {} |-> p]
  <2>1. b \in [{} -> {}] /\ (\A x, y \in {} : b[x] = b[y] => x = y) /\ \A z \in {} : \E x \in {} : b[x] = z
    BY Zenon
  <2> HIDE DEF b
  <2>2. b \in Bijection({}, {})
    BY <2>1, IsPairing, Zenon
  <2> QED BY <1>3, <2>2, Zenon DEF Holds
<1>6. o.out = t /\ o.last_dbid = NoDb
    BY <1>1
<1> HIDE DEF o, t
<1> QED BY <1>1, <1>2, <1>3, <1>4, <1>5, <1>6, Zenon DEF Saved, o

\* A save that opens the file tears it for whoever has it open, or has it alone.
LEMMA OpenKeepsFiles ==
    ASSUME Files, Typed, NEW j \in Job, Open(j) PROVE Files'
<1> DEFINE others == {o \in tmp.writers : Busy(o)}
           r == job'[j]
<1>1. job = [i \in Job |-> job[i]]
    BY Zenon DEF Typed
<1>2. /\ r.pc = "visit" /\ r.at = 0 /\ r.serializer = SaveHeader(NewSerializer) /\ r.cut = {}
      /\ \A i \in Job : i # j => job'[i] = job[i]
    BY <1>1, Zenon DEF Open, SetJob
<1>3. tmp' = [exists |-> TRUE, torn |-> others # {}, tokens |-> <<>>, cut |-> {}, writers |-> others \cup {j}]
    BY Zenon DEF Open, OpenTmp
<1>4. tmp'.exists /\ tmp'.torn = (others # {}) /\ tmp'.writers = others \cup {j}
    BY <1>3, Zenon
<1>5. UNCHANGED <<dump, home>>
    BY Zenon DEF Open, DataUnchanged
<1>6. \A o \in others : o \in Job /\ Busy(o) /\ o # j
    BY Zenon DEF Open, At, Busy, Files
<1> HIDE DEF others, r
<1>7. \A i \in Job : job'[i].pc \in JobPc
    BY <1>2, Zenon DEF Files, JobPc, r
<1>8. tmp'.writers \subseteq {i \in Job : Busy(i)'}
    BY <1>2, <1>4, <1>6, Zenon DEF Busy, r
<1>9. ASSUME ~tmp'.torn, NEW i \in tmp'.writers PROVE Wrote(i)' /\ tmp'.writers = {i}
  <2>1. i = j /\ tmp'.writers = {j}
    BY <1>4, <1>9, Zenon
  <2>2. Saved(r.serializer, r.cut)
    BY <1>2, NothingSaved, Zenon
  <2>3. r.at < IF r.kind = "bgsave" THEN NumShards ELSE NumDBs * NumShards
    <3>1. NumShards \in Nat /\ NumShards > 0 /\ NumDBs \in Nat /\ NumDBs > 0
      BY NumShardsAssumption, NumDBsAssumption
    <3>2. NumDBs * NumShards > 0
      BY <3>1
    <3> QED BY <1>2, <3>1, <3>2, Zenon
  <2>4. Wrote(j)'
    BY <1>2, <2>2, <2>3, Zenon DEF Wrote, At, IsBg, r
  <2> QED BY <2>1, <2>4, Zenon
<1> QED BY <1>4, <1>5, <1>7, <1>8, <1>9, Zenon DEF Files, Complete

\* After a visit.
LEMMA VisitedKeepsFiles ==
    ASSUME Files, Typed, NEW j \in Job, At(j, "visit"), NEW n \in Nat, NEW o, NEW seen, Visited(j, n, o, seen),
           n = (IF IsBg(j) THEN NumShards ELSE NumDBs * NumShards),
           UNCHANGED <<tmp, dump, home>>,
           ~tmp.torn /\ tmp.writers = {j} /\ Wrote(j) =>
              /\ Saved(o, job[j].cut \cup seen)
              /\ \A e \in seen : IF IsBg(j) THEN home[e.key] = job[j].at
                                            ELSE e.db * NumShards + home[e.key] = job[j].at,
           home \in [Key -> Shard]
    PROVE  Files'
<1> DEFINE r == [pc |-> IF job[j].at + 1 = n THEN "footer" ELSE "visit",
                 kind |-> job[j].kind, epoch |-> job[j].epoch, at |-> job[j].at + 1,
                 serializer |-> o, cut |-> job[j].cut \cup seen]
<1>1. SetJob(j, r)
    BY Zenon DEF Visited
<1>2. job = [i \in Job |-> job[i]] /\ job[j].at \in Nat
    BY Zenon DEF Typed
<1>3. job'[j] = r
    BY <1>1, <1>2, Zenon DEF SetJob
<1>4. /\ r.kind = job[j].kind /\ r.at = job[j].at + 1 /\ r.serializer = o /\ r.cut = job[j].cut \cup seen
      /\ r.pc = (IF job[j].at + 1 = n THEN "footer" ELSE "visit")
    BY Zenon
<1> HIDE DEF r
<1>5. r.pc \in {"visit", "footer", "rename"}
    BY <1>4, Zenon
<1>6. ASSUME ~tmp.torn, tmp.writers = {j}, Wrote(j) PROVE Wrote(j)'
  <2>1. Saved(r.serializer, r.cut)
    BY <1>4, <1>6, Zenon
  <2>2. job[j].at < n /\ \A e \in job[j].cut : Behind(j, e)
    BY <1>6, Zenon DEF Wrote
  <2>3. IsBg(j)' <=> IsBg(j)
    BY <1>3, <1>4, Zenon DEF IsBg
  <2>4. r.pc = "visit" => r.at < n
    BY <1>2, <1>4, <2>2
  <2>5. ASSUME NEW e \in r.cut PROVE Behind(j, e)'
    <3>1. e.key \in Key /\ e.db \in DB
      BY <2>1, Zenon DEF Saved, IsCut
    <3>2. home[e.key] \in Nat /\ e.db * NumShards + home[e.key] \in Nat
      BY <3>1, NumShardsAssumption, NumDBsAssumption DEF Shard, DB
    <3> DEFINE x == IF IsBg(j) THEN home[e.key] ELSE e.db * NumShards + home[e.key]
    <3>3. x \in Nat
      BY <3>2, Zenon
    <3>4. CASE e \in job[j].cut
      <4>1. x < job[j].at
        BY <2>2, <3>4, Zenon DEF Behind
      <4>2. x < job[j].at + 1
        BY <1>2, <3>3, <4>1
      <4> HIDE DEF x
      <4> QED BY <1>3, <1>4, <2>3, <4>2, Zenon DEF Behind, x
    <3>5. CASE e \in seen
      <4>1. x = job[j].at
        BY <1>6, <3>5, Zenon
      <4>2. x < job[j].at + 1
        BY <1>2, <3>3, <4>1
      <4> HIDE DEF x
      <4> QED BY <1>3, <1>4, <2>3, <4>2, Zenon DEF Behind, x
    <3> QED BY <1>4, <3>4, <3>5, Zenon
  <2>6. r.pc # "rename"
    BY <1>4, Zenon
  <2> QED BY <1>3, <2>1, <2>3, <2>4, <2>5, <2>6, Zenon DEF Wrote, At
<1>7. tmp.writers # {} => tmp'.exists
    BY Zenon DEF Files
<1> QED BY <1>1, <1>5, <1>6, <1>7, SaveGoesOn

\* SAVE's visit to a table.
LEMMA SaveVisitKeepsFiles ==
    ASSUME Files, Typed, Tables, NEW j \in Job, NEW s \in Shard, SaveVisit(j, s) PROVE Files'
<1> DEFINE a == job[j].at
           i == a \div NumShards
           o == SaveTable(job[j].serializer, dbs[s][i], i, now)
           seen == Entries(dbs[s][i], i, now)
           n == NumDBs * NumShards
           c == job[j].cut
<1>1. At(j, "visit") /\ ~IsBg(j) /\ s = a % NumShards /\ Visited(j, n, o, seen) /\ UNCHANGED <<tmp, dump, home>>
    BY Zenon DEF SaveVisit, DataUnchanged
<1>2. n \in Nat
    BY NumShardsAssumption, NumDBsAssumption
<1>3. a \in Nat
    BY Zenon DEF Typed
<1>4. ASSUME Wrote(j) PROVE Saved(o, c \cup seen) /\ \A e \in seen : e.db * NumShards + home[e.key] = a
  <2>1. Saved(job[j].serializer, c) /\ a < n /\ \A e \in c : Behind(j, e)
    BY <1>1, <1>4, Zenon DEF Wrote
  <2> HIDE DEF i
  <2>2. i \in DB /\ a = i * NumShards + s
    BY <1>1, <1>3, <2>1, TableOfVisit, Zenon DEF i
  <2> HIDE DEF a
  <2>3. IsDbOf(dbs[s][i], s)
    BY <2>2, Zenon DEF Tables
  <2>4. \A e \in seen : e.db = i /\ home[e.key] = s
    BY <2>2, <2>3, EntriesTyped, Zenon DEF IsDbOf
  <2>5. ASSUME NEW e \in seen PROVE New(e, c)
    <3> SUFFICES ASSUME NEW f \in c, f.db = e.db, f.key = e.key PROVE FALSE
      BY Zenon DEF New
    <3>1. f.db * NumShards + home[f.key] = a
      BY <2>2, <2>4, Zenon
    <3>2. f.db * NumShards + home[f.key] < a
      BY <1>1, <2>1, Zenon DEF Behind, a
    <3> QED BY <1>3, <3>1, <3>2
  <2>6. Saved(o, c \cup seen)
    BY <2>1, <2>2, <2>3, <2>5, TableSaved, Zenon DEF IsDbOf
  <2> QED BY <2>2, <2>4, <2>6, Zenon
<1>5. home \in [Key -> Shard]
    BY Zenon DEF Tables
<1> HIDE DEF o, seen, n
<1>6. n = (IF IsBg(j) THEN NumShards ELSE NumDBs * NumShards)
    BY <1>1, Zenon DEF n
<1>7. ~tmp.torn /\ tmp.writers = {j} /\ Wrote(j) =>
         /\ Saved(o, job[j].cut \cup seen)
         /\ \A e \in seen : IF IsBg(j) THEN home[e.key] = job[j].at
                                       ELSE e.db * NumShards + home[e.key] = job[j].at
    BY <1>1, <1>4, Zenon
<1> QED BY <1>1, <1>2, <1>5, <1>6, <1>7, VisitedKeepsFiles, Zenon

\* BGSAVE's visit to a shard, of which its epoch lets it pass over nothing.
LEMMA BgVisitKeepsFiles ==
    ASSUME Files, EInv, Tables, NEW j \in Job, NEW s \in Shard, BgVisit(j, s) PROVE Files'
<1> DEFINE o == SerializeAllDBs(j, s)
           seen == UNION {Entries(dbs[s][i], i, now) : i \in DB}
           c == job[j].cut
<1>1. At(j, "visit") /\ IsBg(j) /\ s = job[j].at /\ Visited(j, NumShards, o, seen) /\ UNCHANGED <<tmp, dump, home>>
    BY Zenon DEF BgVisit, DataUnchanged
<1>2. NumShards \in Nat /\ Typed /\ home \in [Key -> Shard]
    BY NumShardsAssumption, Zenon DEF EInv, Tables
<1>3. ASSUME ~tmp.torn, tmp.writers = {j}, Wrote(j) PROVE Saved(o, c \cup seen) /\ \A e \in seen : home[e.key] = s
  <2>1. Saved(job[j].serializer, c) /\ \A e \in c : Behind(j, e)
    BY <1>1, <1>3, Zenon DEF Wrote
  <2>2. \A i \in DB : version[s][i] < job[j].epoch
    <3>1. s >= s
      BY DEF Shard
    <3> QED BY <1>1, <1>3, <3>1, Zenon DEF EInv, Alone, Snapshotting
  <2>3. \A f \in c : home[f.key] # s
    <3> SUFFICES ASSUME NEW f \in c, home[f.key] = s PROVE FALSE
      BY Zenon
    <3>1. home[f.key] < s
      BY <1>1, <2>1, Zenon DEF Behind
    <3> QED BY <3>1 DEF Shard
  <2>4. Saved(o, c \cup seen)
    BY <2>1, <2>2, <2>3, AllDBsSaved, Zenon
  <2>5. ASSUME NEW e \in seen PROVE home[e.key] = s
    <3>1. PICK i \in DB : e \in Entries(dbs[s][i], i, now)
      BY Zenon
    <3>2. IsDbOf(dbs[s][i], s)
      BY Zenon DEF Tables
    <3> QED BY <3>1, <3>2, EntriesTyped, Zenon DEF IsDbOf
  <2> QED BY <2>4, <2>5, Zenon
<1> HIDE DEF o, seen
<1>4. ~tmp.torn /\ tmp.writers = {j} /\ Wrote(j) =>
         /\ Saved(o, job[j].cut \cup seen)
         /\ \A e \in seen : IF IsBg(j) THEN home[e.key] = job[j].at
                                       ELSE e.db * NumShards + home[e.key] = job[j].at
    BY <1>1, <1>3, Zenon
<1>5. NumShards = (IF IsBg(j) THEN NumShards ELSE NumDBs * NumShards)
    BY <1>1, Zenon
<1> QED BY <1>1, <1>2, <1>4, <1>5, VisitedKeepsFiles, Zenon

\* A save that alone has the file completes it.
LEMMA FooterKeepsFiles ==
    ASSUME Files, Typed, NEW j \in Job, Footer(j) PROVE Files'
<1> DEFINE r == Fresh("rename", job[j].kind)
           o == SaveFooter(job[j].serializer)
           f == [exists |-> TRUE, torn |-> FALSE, tokens |-> o.out, cut |-> job[j].cut,
                 writers |-> tmp.writers]
<1>1. /\ At(j, "footer") /\ SetJob(j, r) /\ UNCHANGED <<dump, home>>
      /\ tmp' = IF j \notin tmp.writers \/ tmp.torn THEN tmp ELSE f
    BY Zenon DEF Footer, DataUnchanged
<1>2. r.pc = "rename"
    BY FreshPc, Zenon
<1> HIDE DEF o, r
<1>3. f.exists /\ ~f.torn /\ f.tokens = o.out /\ f.cut = job[j].cut /\ f.writers = tmp.writers
    BY Zenon
<1> HIDE DEF f
<1>4. /\ tmp'.writers = tmp.writers /\ (tmp.torn => tmp'.torn) /\ (tmp.writers # {} => tmp'.exists)
      /\ (j \notin tmp.writers \/ tmp.torn => tmp' = tmp)
  <2>1. CASE j \notin tmp.writers \/ tmp.torn
    BY <1>1, <2>1, Zenon DEF Files
  <2>2. CASE ~(j \notin tmp.writers \/ tmp.torn)
    <3>1. tmp' = f
      BY <1>1, <2>2, Zenon
    <3> QED BY <1>3, <2>2, <3>1, Zenon
  <2> QED BY <2>1, <2>2, Zenon
<1>5. ASSUME ~tmp.torn, tmp.writers = {j}, Wrote(j) PROVE Wrote(j)'
  <2>1. tmp' = f
    BY <1>1, <1>5, Zenon
  <2>2. Complete(o.out, job[j].cut)
    BY <1>1, <1>5, FooterCompletes, Zenon DEF Wrote, o
  <2>3. tmp'.tokens = o.out /\ tmp'.cut = job[j].cut
    BY <1>3, <2>1, Zenon
  <2>4. Complete(tmp.tokens, tmp.cut)'
    BY <2>2, <2>3, Zenon DEF Complete
  <2>5. job'[j].pc = "rename"
    BY <1>1, <1>2, Zenon DEF Typed, SetJob
  <2> QED BY <2>4, <2>5, Zenon DEF Wrote, At
<1>6. r.pc \in {"visit", "footer", "rename"} /\ UNCHANGED <<dump, home>>
    BY <1>1, <1>2, Zenon
<1> QED BY <1>1, <1>4, <1>5, <1>6, SaveGoesOn

\* Only a file that its save has completed, or a torn one, becomes the dump.
LEMMA RenameKeepsFiles ==
    ASSUME Files, Typed, NEW j \in Job, Rename(j) PROVE Files'
<1> DEFINE torn == [NoFile EXCEPT !.exists = TRUE, !.torn = TRUE]
           whole == [tmp EXCEPT !.writers = {}]
<1>1. /\ At(j, "rename") /\ tmp' = NoFile /\ home' = home
      /\ dump' = IF tmp.torn \/ j \notin tmp.writers THEN torn ELSE whole
    BY Zenon DEF Rename, DataUnchanged
<1>2. PICK r : SetJob(j, r) /\ r.pc \in JobPc
    BY LeavePc, Zenon DEF Rename
<1>5. torn.torn /\ whole.tokens = tmp.tokens /\ whole.cut = tmp.cut
    BY Zenon DEF NoFile, Typed, IsFile
<1> HIDE DEF torn, whole
<1>6. \A i \in Job : job'[i].pc \in JobPc
    BY <1>2, Zenon DEF Typed, Files, SetJob
<1>7. tmp'.writers = {}
    BY <1>1, Zenon DEF NoFile
<1>8. dump'.exists /\ ~dump'.torn => Complete(dump.tokens, dump.cut)'
  <2>1. CASE tmp.torn \/ j \notin tmp.writers
    <3>1. dump' = torn
      BY <1>1, <2>1, Zenon
    <3> QED BY <1>5, <3>1, Zenon
  <2>2. CASE ~(tmp.torn \/ j \notin tmp.writers)
    <3>1. dump' = whole
      BY <1>1, <2>2, Zenon
    <3>2. Complete(tmp.tokens, tmp.cut)
      BY <1>1, <2>2, Zenon DEF Files, Wrote
    <3> QED BY <1>5, <3>1, <3>2, Zenon DEF Complete
  <2> QED BY <2>1, <2>2, Zenon
<1> QED BY <1>6, <1>7, <1>8, Zenon DEF Files

\* A save that fails leaves the dump alone.
LEMMA AbandonKeepsFiles ==
    ASSUME Files, Typed, NEW j \in Job, Abandon(j) PROVE Files'
<1>1. PICK r : SetJob(j, r) /\ r.pc \in JobPc
    BY LeavePc, Zenon DEF Abandon
<1>2. tmp' = [tmp EXCEPT !.writers = @ \ {j}] /\ UNCHANGED <<dump, home>>
    BY Zenon DEF Abandon, DataUnchanged
<1> QED BY <1>1, <1>2, SaveLeaves, Zenon

\* No step of a save breaks what is known of the files.
LEMMA SavingKeepsFiles ==
    ASSUME Files, EInv, Tables, NEW j \in Job, SaveStep(j) PROVE Files'
<1>1. Typed
    BY Zenon DEF EInv
<1>2. At(j, "idle") \/ At(j, "mark") \/ At(j, "clear") \/ ~tmp.exists => j \notin tmp.writers
    BY Zenon DEF Files, At, Busy
<1>3. CASE Save(j) \/ BgCheck(j)
  <2>1. PICK p, k : SetJob(j, Fresh(p, k)) /\ p \in JobPc /\ At(j, "idle") /\ UNCHANGED <<tmp, dump, home>>
    <3>1. CASE Save(j)
      BY <3>1, Zenon DEF Save, DataUnchanged, JobPc
    <3>2. CASE BgCheck(j)
      BY <3>2, Zenon DEF BgCheck, DataUnchanged, JobPc
    <3> QED BY <1>3, <3>1, <3>2, Zenon
  <2>2. Fresh(p, k).pc \in JobPc
    BY <2>1, FreshPc, Zenon
  <2> QED BY <1>1, <1>2, <2>1, <2>2, SaveElsewhere, Zenon
<1>4. CASE BgMark(j)
  <2>1. SetJob(j, Fresh("open", "bgsave")) /\ At(j, "mark") /\ UNCHANGED <<tmp, dump, home>>
    BY <1>4, Zenon DEF BgMark, DataUnchanged
  <2>2. Fresh("open", "bgsave").pc \in JobPc
    BY FreshPc, Zenon DEF JobPc
  <2> QED BY <1>1, <1>2, <2>1, <2>2, SaveElsewhere, Zenon
<1>5. CASE BgClear(j)
  <2>1. SetJob(j, NoJob) /\ At(j, "clear") /\ UNCHANGED <<tmp, dump, home>>
    BY <1>5, Zenon DEF BgClear, DataUnchanged
  <2>2. NoJob.pc \in JobPc
    BY FreshPc, Zenon DEF JobPc, NoJob
  <2> QED BY <1>1, <1>2, <2>1, <2>2, SaveElsewhere, Zenon
<1>6. CASE RenameFails(j)
  <2>1. ~tmp.exists /\ UNCHANGED <<tmp, dump, home>>
    BY <1>6, Zenon DEF RenameFails, DataUnchanged
  <2>2. PICK r : SetJob(j, r) /\ r.pc \in JobPc
    BY <1>6, LeavePc, Zenon DEF RenameFails
  <2> QED BY <1>1, <1>2, <2>1, <2>2, SaveElsewhere, Zenon
<1>7. ASSUME NEW s \in Shard, SaveVisit(j, s) \/ BgVisit(j, s) \/ AbandonVisit(j, s) PROVE Files'
    BY <1>1, <1>7, SaveVisitKeepsFiles, BgVisitKeepsFiles, AbandonKeepsFiles, Zenon DEF AbandonVisit
<1>8. CASE Open(j) \/ Footer(j) \/ Rename(j) \/ AbandonElsewhere(j)
    BY <1>1, <1>8, OpenKeepsFiles, FooterKeepsFiles, RenameKeepsFiles, AbandonKeepsFiles, Zenon
       DEF AbandonElsewhere
<1> QED BY <1>3, <1>4, <1>5, <1>6, <1>7, <1>8, Zenon DEF SaveStep

\* Nor does a crash.
LEMMA RestartKeepsFiles == ASSUME Files, Typed, Reboot PROVE Files'
<1>1. job' = [j \in Job |-> NoJob] /\ tmp' = [tmp EXCEPT !.writers = {}] /\ dump' = dump
    BY Zenon DEF Reboot, Booted
<1>2. NoJob.pc = "idle"
    BY FreshPc, Zenon DEF NoJob
<1>3. \A j \in Job : job'[j].pc \in JobPc
    BY <1>1, <1>2, Zenon DEF JobPc
<1>4. tmp'.writers = {}
    BY <1>1, Zenon DEF Typed, IsFile
<1> QED BY <1>1, <1>3, <1>4, Zenon DEF Files, Complete

\* At first there is no file.
LEMMA InitFiles == SInit => Files
<1> SUFFICES ASSUME SInit PROVE Files
    BY Zenon
<1>1. job = [j \in Job |-> NoJob] /\ tmp = NoFile /\ dump = NoFile
    BY Zenon DEF SInit
<1>2. NoJob.pc = "idle"
    BY FreshPc, Zenon DEF NoJob
<1>3. \A j \in Job : job[j].pc \in JobPc
    BY <1>1, <1>2, Zenon DEF JobPc
<1>4. NoFile.writers = {} /\ NoFile.exists = FALSE
    BY Zenon DEF NoFile
<1> QED BY <1>1, <1>3, <1>4, Zenon DEF Files

\* What others do does not concern the files.
LEMMA OthersKeepFiles == ASSUME Files, UNCHANGED <<job, tmp, dump, home>> PROVE Files'
<1>1. \A j \in tmp.writers : Wrote(j) => Wrote(j)'
    BY StillWrote, Zenon
<1> QED BY <1>1, Zenon DEF Files, Busy, Complete

-----------------------------------------------------------------------------
(* Steps while the load goes on.                                             *)

\* The entries of a cut.
LEMMA CutTyped ==
    ASSUME NEW c, IsCut(c), NEW e \in c
    PROVE  /\ e \in CutEntry /\ e.db \in DB /\ e.key \in Key
           /\ e.exp \in Deadline \cup {NoExpiry} /\ e.exp \in Nat
<1>1. e \in CutEntry
    BY Zenon DEF IsCut, CutEntry
<1>2. e.db \in DB /\ e.key \in Key /\ e.exp \in Deadline \cup {NoExpiry}
    BY <1>1, Zenon DEF CutEntry
<1> QED BY <1>1, <1>2, Int64MaxAssumption DEF Deadline, NoExpiry

\* Steps that leave the loader alone: clients take what they touch out of the
\* promise, and only what has expired is erased.
LEMMA OthersKeepLoading ==
    ASSUME Loading, Tables, load' = load, home' = home, touched \subseteq touched',
           now' \in Nat, now' >= now,
           \A i \in DB, k \in Key :
              \/ <<i, k>> \in touched'
              \/ Val(i, k)' = Val(i, k) /\ Exp(i, k)' = Exp(i, k)
              \/ Exp(i, k) # NoExpiry /\ Exp(i, k) <= now' /\ Vacant(i, k)'
    PROVE  Loading'
<1>1. \A e : IsRead(e)' <=> IsRead(e)
    BY Zenon DEF IsRead
<1>2. IsCut(load.cut) /\ now \in Nat
    BY DEF Loading, Tables
<1>3. ASSUME NEW e, e \in Untouched'
      PROVE  e \in Untouched /\ (IsBack(e) => IsBack(e)')
  <2>1. /\ e \in load.cut /\ <<e.db, e.key>> \notin touched' /\ <<e.db, e.key>> \notin touched
        /\ e.exp = NoExpiry \/ e.exp > now'
    BY <1>3, Zenon DEF Untouched
  <2>2. e.db \in DB /\ e.key \in Key /\ e.exp \in Nat
    BY <1>2, <2>1, CutTyped, Zenon
  <2>3. e \in Untouched
    BY <1>2, <2>1, <2>2 DEF Untouched
  <2>4. ASSUME IsBack(e) PROVE IsBack(e)'
    <3> DEFINE x == Exp(e.db, e.key)
    <3>1. Val(e.db, e.key) = e.val /\ IF e.exp = NoExpiry THEN x = NoExpiry ELSE x >= e.exp
      BY <2>4, Zenon DEF IsBack, Val, Exp
    <3>2. x \in Nat
      BY <2>2, DbThere, Zenon
    <3> HIDE DEF x
    <3>3. ~(x # NoExpiry /\ x <= now')
      BY <2>1, <2>2, <3>1, <3>2
    <3>4. Val(e.db, e.key)' = Val(e.db, e.key) /\ Exp(e.db, e.key)' = x
      BY <2>1, <2>2, <3>3, Zenon DEF x
    <3> QED BY <3>1, <3>4, Zenon DEF IsBack, Val, Exp
  <2> QED BY <2>3, <2>4, Zenon
<1>4. ASSUME NEW i \in DB, NEW k \in PlainKey, load.pc \in {"open", "read"}
      PROVE  \/ <<i, k>> \in touched' \/ (\E e \in load.cut : e.db = i /\ e.key = k /\ IsRead(e)')
             \/ Vacant(i, k)'
  <2>1. k \in Key
    BY PlainView, Zenon
  <2>2. \/ <<i, k>> \in touched \/ (\E e \in load.cut : e.db = i /\ e.key = k /\ IsRead(e))
        \/ Vacant(i, k)
    BY <1>4, Zenon DEF Loading
  <2>3. ASSUME Vacant(i, k), <<i, k>> \notin touched' PROVE Vacant(i, k)'
    BY <2>1, <2>3, Zenon DEF Vacant, Val, Exp
  <2> QED BY <1>1, <2>2, <2>3, Zenon
<1>5. /\ DOMAIN load' = {"pc", "reader", "ok", "torn", "cut"} /\ IsCut(load'.cut)
      /\ load'.pc \in {"open", "read", "guess", "done"}
      /\ load'.pc = "open" => ~load'.torn /\ load'.cut = {}
      /\ load'.pc = "guess" => load'.torn
      /\ load'.pc = "read" => ~load'.torn /\ IsReader(load'.reader) /\ Complete(load'.reader.tokens, load'.cut)
    BY Zenon DEF Loading
<1>6. load'.pc = "read" => \A e \in Untouched' : Promised(e) /\ IsRead(e)' => IsBack(e)'
    BY <1>1, <1>3, Zenon DEF Loading
<1>7. load'.pc = "done" /\ ~load'.torn => load'.ok /\ \A e \in Untouched' : Promised(e) => IsBack(e)'
    BY <1>3, Zenon DEF Loading
<1> QED BY <1>4, <1>5, <1>6, <1>7, Zenon DEF Loading, IsCut, Complete

\* The load begins.
LEMMA OpenKeepsLoading == ASSUME Loading, Files, LoadOpen PROVE Loading'
<1> DEFINE l == NewLoader(dump.tokens)
           c == dump.cut
           t == dump.tokens
<1>1. /\ load.pc = "open" /\ ~load.torn /\ load.cut = {} /\ UNCHANGED <<dbs, home, now, touched>>
      /\ DOMAIN load = {"pc", "reader", "ok", "torn", "cut"}
    BY Zenon DEF Loading, LoadOpen, LoadUnchanged
<1>2. \A i \in DB, k \in PlainKey : <<i, k>> \in touched' \/ Vacant(i, k)'
    BY <1>1, Zenon DEF Loading, Vacant
<1>3. CASE ~dump.exists
  <2>1. load' = [load EXCEPT !.pc = "done", !.ok = TRUE]
    BY <1>3, Zenon DEF LoadOpen
  <2>2. /\ DOMAIN load' = {"pc", "reader", "ok", "torn", "cut"}
        /\ load'.pc = "done" /\ load'.ok /\ load'.cut = {}
    BY <1>1, <2>1, Zenon
  <2>3. Untouched' = {}
    BY <2>2, Zenon DEF Untouched
  <2> QED BY <2>2, <2>3, Zenon DEF Loading, IsCut
<1>4. CASE dump.exists /\ dump.torn
  <2>1. load' = [load EXCEPT !.pc = "guess", !.torn = TRUE]
    BY <1>4, Zenon DEF LoadOpen
  <2>2. /\ DOMAIN load' = {"pc", "reader", "ok", "torn", "cut"}
        /\ load'.pc = "guess" /\ load'.torn /\ load'.cut = {}
    BY <1>1, <2>1, Zenon
  <2> QED BY <2>2, Zenon DEF Loading, IsCut
<1>5. CASE dump.exists /\ ~dump.torn
  <2>1. Complete(t, c)
    BY <1>5, Zenon DEF Files
  <2>2. PICK n : IsText(t, n)
    BY <2>1, CompleteIsText, Zenon
  <2>3. IsCut(c)
    BY <2>1, CompleteIsText, Zenon
  <2>4. /\ n \in Nat /\ n >= 1 /\ Len(t) = n + 2 /\ DOMAIN t = 1 .. n + 2
        /\ t[1] = <<"header">> /\ t # <<>>
    BY <2>2 DEF IsText
  <2>5. HeaderIsRight(l)
    BY <2>4, Zenon DEF HeaderIsRight, NewLoader
  <2> DEFINE r == LoadHeader(l)
  <2>6. DOMAIN r = {"tokens", "pos", "dbid", "expire"} /\ r.tokens = t /\ r.pos = 2 /\ r.dbid = 0
        /\ r.expire = NoExpiry
    BY Zenon DEF LoadHeader, NewLoader
  <2>7. load' = [load EXCEPT !.pc = "read", !.reader = r, !.cut = c]
    BY <1>5, <2>5, Zenon DEF LoadOpen
  <2> HIDE DEF r
  <2>8. /\ DOMAIN load' = {"pc", "reader", "ok", "torn", "cut"}
        /\ load'.pc = "read" /\ load'.reader = r /\ load'.cut = c /\ load'.torn = load.torn
    BY <1>1, <2>7, Zenon
  <2>9. IsReader(r)
    <3>1. t[1][1] = "header"
      BY <2>4
    <3>2. \A m \in 1 .. 2 - 1 : m = 1
      OBVIOUS
    <3>3. Chosen(t, 2 - 1, 0)
      BY <3>1, <3>2, Zenon DEF Chosen
    <3>4. 2 \in 2 .. Len(t) - 1 /\ 0 \in DB /\ 2 - 1 = 1
      BY <2>4, NumDBsAssumption DEF DB
    <3> QED BY <2>6, <3>1, <3>3, <3>4, Zenon DEF IsReader
  <2>10. ASSUME NEW e, IsRead(e)' PROVE FALSE
    <3>1. PICK p \in EntriesOf(t) : p < 2
      BY <2>6, <2>8, <2>10, Zenon DEF IsRead
    <3>2. p \in 1 .. n + 2 /\ t[p][1] = "entry"
      BY <2>4, Zenon DEF EntriesOf
    <3>3. p = 1
      BY <2>4, <3>1, <3>2
    <3> QED BY <2>4, <3>2, <3>3
  <2> QED BY <1>1, <1>2, <2>1, <2>3, <2>6, <2>8, <2>9, <2>10, Zenon DEF Loading, IsCut, Complete, IsReader
<1> QED BY <1>3, <1>4, <1>5, Zenon

\* The load comes to its end.
LEMMA EndKeepsLoading == ASSUME Loading, LoadEnd PROVE Loading'
<1> DEFINE l == load.reader
           c == load.cut
<1>1. /\ load.pc = "read" /\ ~load.torn /\ IsReader(l) /\ Complete(l.tokens, c)
      /\ DOMAIN load = {"pc", "reader", "ok", "torn", "cut"} /\ IsCut(c)
      /\ UNCHANGED <<dbs, home, now, touched>>
    BY Zenon DEF Loading, LoadEnd, LoadUnchanged
<1>2. ~HasEntry(ReadOpcodes(l)) /\ EndLoad(LoadFooter(ReadOpcodes(l)))
    BY Zenon DEF LoadEnd
<1>3. LoadFooter(ReadOpcodes(l)) /\ \A q \in EntriesOf(l.tokens) : q < l.pos
    BY <1>1, <1>2, NoNextEntry, Zenon
<1>4. load' = [load EXCEPT !.pc = "done", !.ok = TRUE, !.reader = NewLoader(<<>>)]
  <2> DEFINE f == LoadFooter(ReadOpcodes(l))
  <2>1. f \in BOOLEAN
    BY Zenon DEF LoadFooter
  <2>2. f = TRUE
    BY <1>3, <2>1, Zenon
  <2> QED BY <1>2, <2>2, Zenon DEF EndLoad
<1>5. /\ DOMAIN load' = {"pc", "reader", "ok", "torn", "cut"}
      /\ load'.pc = "done" /\ load'.ok /\ load'.cut = c
    BY <1>1, <1>4, Zenon
<1>6. ASSUME NEW e \in Untouched, Promised(e) PROVE IsBack(e)
  <2>1. e \in c
    BY Zenon DEF Untouched
  <2>2. PICK b \in Bijection(EntriesOf(l.tokens), c) : \A q \in EntriesOf(l.tokens) : Records(l.tokens, q, b[q])
    BY <1>1, CompleteIsText, Zenon
  <2>3. PICK q \in EntriesOf(l.tokens) : b[q] = e
    BY <2>1, <2>2, PairsUp
  <2>4. IsRead(e)
    BY <1>3, <2>2, <2>3, Zenon DEF IsRead
  <2> QED BY <1>1, <1>6, <2>4, Zenon DEF Loading
<1>7. Untouched' = Untouched /\ \A e : IsBack(e)' <=> IsBack(e)
    BY <1>1, <1>5, Zenon DEF Untouched, IsBack
<1> QED BY <1>1, <1>5, <1>6, <1>7, Zenon DEF Loading, IsCut

\* The loader has come to the next entry, at position p.
LEMMA ReadOneMore ==
    ASSUME NEW t, t = load.reader.tokens, NEW p \in EntriesOf(t), p \in Nat, load.reader.pos \in Nat,
           p >= load.reader.pos, \A q \in EntriesOf(t) : q \in Nat,
           \A q \in load.reader.pos .. p - 1 : q \notin EntriesOf(t),
           load'.reader.tokens = t, load'.reader.pos = p + 1, NEW e
    PROVE  IsRead(e)' <=> IsRead(e) \/ Records(t, p, e)
<1>1. ASSUME NEW q \in EntriesOf(t) PROVE q < p + 1 <=> q < load.reader.pos \/ q = p
  <2>1. q \notin load.reader.pos .. p - 1 /\ q \in Nat
    BY Zenon
  <2> QED BY <2>1
<1>2. IsRead(e)' <=> \E q \in EntriesOf(t) : q < p + 1 /\ Records(t, q, e)
    BY Zenon DEF IsRead, EntriesOf, Records, Selects
<1>3. IsRead(e) <=> \E q \in EntriesOf(t) : q < load.reader.pos /\ Records(t, q, e)
    BY Zenon DEF IsRead
<1> QED BY <1>1, <1>2, <1>3, Zenon

\* The next entry is stored where a client looks for it; a key that reads as the
\* empty one, and a key that a client has stored, are no concern of the promise.
LEMMA EntryKeepsLoading == ASSUME Loading, Tables, LoadEntry PROVE Loading' /\ Tables'
<1> DEFINE l == load.reader
           c == load.cut
           t == l.tokens
<1>1. /\ load.pc = "read" /\ ~load.torn /\ IsReader(l) /\ Complete(t, c)
      /\ DOMAIN load = {"pc", "reader", "ok", "torn", "cut"} /\ IsCut(c)
    BY Zenon DEF Loading, LoadEntry
<1>2. /\ HasEntry(ReadOpcodes(l)) /\ StoreLoaded(EntryRead(ReadOpcodes(l)))
      /\ load' = [load EXCEPT !.reader = EntryDone(ReadOpcodes(l))] /\ UNCHANGED <<home, touched>>
    BY Zenon DEF LoadEntry, LoadUnchanged
<1>3. PICK p \in EntriesOf(t), e \in c :
              /\ p \in Nat /\ p >= l.pos /\ Records(t, p, e)
              /\ EntryRead(ReadOpcodes(l)) = Given(e)
              /\ IsReader(EntryDone(ReadOpcodes(l)))
              /\ EntryDone(ReadOpcodes(l)).tokens = t /\ EntryDone(ReadOpcodes(l)).pos = p + 1
              /\ \A q \in l.pos .. p - 1 : q \notin EntriesOf(t)
    BY <1>1, <1>2, NextEntry, Zenon
<1> DEFINE r == EntryDone(ReadOpcodes(l))
           g == Given(e)
<1>4. /\ DOMAIN load' = {"pc", "reader", "ok", "torn", "cut"}
      /\ load'.pc = "read" /\ load'.reader = r /\ load'.cut = c /\ load'.torn = load.torn
    BY <1>1, <1>2, Zenon
<1>5. IsReader(r) /\ r.tokens = t /\ r.pos = p + 1
    BY <1>3, Zenon
<1> HIDE DEF r
<1>6. /\ g \in [db : DB, key : Key, val : Value, exp : Deadline \cup {NoExpiry}]
      /\ g.db = e.db /\ g.key = StringView(e.key) /\ g.val = Written(e.val) /\ g.exp = e.exp
      /\ e.key \in Key /\ e.db \in DB
  <2>1. e \in CutEntry /\ e.key \in Key /\ e.db \in DB /\ e.exp \in Deadline \cup {NoExpiry}
    BY <1>1, CutTyped, Zenon
  <2>2. StringView(e.key) \in Key
    BY <2>1, KeyKindsAssumption, Zenon DEF StringView
  <2>3. Written(e.val) \in Value
    BY <2>1, EmptyStrAssumption, Zenon DEF Written, CutEntry, StoredValue, Value
  <2> QED BY <2>1, <2>2, <2>3, Zenon DEF Given
<1>7. StoreLoaded(g)
    BY <1>2, <1>3, Zenon
<1> HIDE DEF g
<1>8. /\ Tables' /\ now' \in Nat /\ now' >= now
      /\ \A n \in DB, j \in Key : n # g.db \/ j # g.key => Val(n, j)' = Val(n, j) /\ Exp(n, j)' = Exp(n, j)
      /\ Vacant(g.db, g.key) /\ ~IsContainer(g.val) /\ (g.exp = NoExpiry \/ g.exp > now') =>
            /\ Val(g.db, g.key)' = g.val
            /\ IF g.exp = NoExpiry THEN Exp(g.db, g.key)' = NoExpiry ELSE Exp(g.db, g.key)' >= g.exp
    BY <1>2, <1>6, <1>7, HandlerStores, Zenon
<1>9. \A f : IsRead(f)' <=> IsRead(f) \/ Records(t, p, f)
  <2>1. \A q \in EntriesOf(t) : q \in Nat
    <3>1. PICK n : IsText(t, n)
      BY <1>1, CompleteIsText, Zenon
    <3> QED BY <3>1 DEF IsText, EntriesOf
  <2>2. l.pos \in Nat
    BY <1>1 DEF IsReader
  <2>3. load'.reader.tokens = t /\ load'.reader.pos = p + 1
    BY <1>4, <1>5, Zenon
  <2> QED BY <1>3, <2>1, <2>2, <2>3, ReadOneMore, Zenon
<1>10. ASSUME NEW i \in DB, NEW k \in PlainKey
       PROVE  \/ <<i, k>> \in touched' \/ (\E f \in c : f.db = i /\ f.key = k /\ IsRead(f)')
              \/ Vacant(i, k)'
  <2>1. \/ <<i, k>> \in touched \/ (\E f \in c : f.db = i /\ f.key = k /\ IsRead(f))
        \/ Vacant(i, k)
    BY <1>1, Zenon DEF Loading
  <2>2. k \in Key
    BY PlainView, Zenon
  <2>3. CASE i = g.db /\ k = g.key
    <3>1. e.key = k /\ e.db = i
      BY <1>6, <2>3, PlainIsWritten, Zenon
    <3> QED BY <1>3, <1>9, <3>1, Zenon
  <2>4. CASE ~(i = g.db /\ k = g.key)
    <3>1. Val(i, k)' = Val(i, k) /\ Exp(i, k)' = Exp(i, k)
      BY <1>8, <2>2, <2>4, Zenon
    <3>2. Vacant(i, k) => Vacant(i, k)'
      BY <3>1, Zenon DEF Vacant, Val, Exp
    <3> QED BY <1>2, <1>9, <2>1, <3>2, Zenon
  <2> QED BY <2>3, <2>4, Zenon
<1>11. ASSUME NEW f, f \in Untouched', Promised(f), IsRead(f)' PROVE IsBack(f)'
  <2>1. f \in c /\ <<f.db, f.key>> \notin touched /\ (f.exp = NoExpiry \/ f.exp > now')
    BY <1>2, <1>4, <1>11, Zenon DEF Untouched
  <2>2. f.db \in DB /\ f.key \in Key /\ f.exp \in Nat /\ now \in Nat
    BY <1>1, <2>1, CutTyped DEF Tables
  <2>3. f \in Untouched
    BY <1>8, <2>1, <2>2 DEF Untouched
  <2>4. f.key \in PlainKey
    BY <1>11, Zenon DEF Promised
  <2>5. CASE Records(t, p, f)
    <3>1. e = f /\ \A q \in EntriesOf(t) : Records(t, q, f) => q = p
      BY <1>1, <1>3, <2>1, <2>4, <2>5, OnePlace
    <3>2. ~IsRead(f)
      BY <1>1, <1>3, <3>1 DEF IsRead, IsReader
    <3>3. \A h \in c : h.db = f.db /\ h.key = f.key => h = f
      BY <1>1, <2>1, Zenon DEF IsCut
    <3>4. Vacant(f.db, f.key)
      BY <1>1, <2>1, <2>2, <2>4, <3>2, <3>3 DEF Loading
    <3>5. g.db = f.db /\ g.key = f.key /\ g.exp = f.exp /\ g.val = f.val
      BY <1>6, <1>11, <2>4, <3>1, PlainView, Zenon DEF Written, Promised
    <3>6. ~IsContainer(g.val)
      BY <1>11, <3>5, Zenon DEF Promised
    <3> QED BY <1>2, <1>8, <2>1, <3>4, <3>5, <3>6, Zenon DEF IsBack, Val, Exp
  <2>6. CASE ~Records(t, p, f)
    <3>1. IsRead(f)
      BY <1>9, <1>11, <2>6, Zenon
    <3>2. IsBack(f)
      BY <1>1, <1>11, <2>3, <3>1, Zenon DEF Loading
    <3>3. ~(f.db = g.db /\ f.key = g.key)
      <4> SUFFICES ASSUME f.db = g.db, f.key = g.key PROVE FALSE
        BY Zenon
      <4>1. e.key = f.key /\ e.db = f.db
        BY <1>6, <2>4, PlainIsWritten, Zenon
      <4>2. e = f
        BY <1>1, <1>3, <2>1, <4>1, Zenon DEF IsCut
      <4> QED BY <1>3, <2>6, <4>2, Zenon
    <3>4. Val(f.db, f.key)' = Val(f.db, f.key) /\ Exp(f.db, f.key)' = Exp(f.db, f.key)
      BY <1>8, <2>2, <3>3, Zenon
    <3> QED BY <3>2, <3>4, Zenon DEF IsBack, Val, Exp
  <2> QED BY <2>5, <2>6, Zenon
<1>12. ~load'.torn
    BY <1>1, <1>4, Zenon
<1> QED BY <1>1, <1>4, <1>5, <1>8, <1>10, <1>11, <1>12, Zenon DEF Loading, IsCut, Complete, IsReader

\* What a torn file yields goes by no promise.
LEMMA TornKeepsLoading == ASSUME Loading, Tables, LoadTorn PROVE Loading' /\ Tables'
<1>1. /\ load.pc = "guess" /\ load.torn /\ EndLoad(FALSE) /\ home' = home
      /\ DOMAIN load = {"pc", "reader", "ok", "torn", "cut"} /\ IsCut(load.cut)
    BY Zenon DEF Loading, LoadTorn, LoadUnchanged
<1>2. Tables'
  <2>1. CASE UNCHANGED <<dbs, now>>
    BY <1>1, <2>1, TimePasses, Zenon DEF Tables
  <2>2. CASE \E w \in Writes :
                StoreLoaded([db |-> w.db, key |-> StringView(w.key), val |-> w.val, exp |-> NoExpiry])
    <3>1. PICK w \in Writes :
                StoreLoaded([db |-> w.db, key |-> StringView(w.key), val |-> w.val, exp |-> NoExpiry])
      BY <2>2, Zenon
    <3> DEFINE g == [db |-> w.db, key |-> StringView(w.key), val |-> w.val, exp |-> NoExpiry]
    <3>2. w.db \in DB /\ w.key \in Key /\ w.val \in Value
      BY WritesAssumption, Zenon
    <3>3. StringView(w.key) \in Key
      BY <3>2, KeyKindsAssumption, Zenon DEF StringView
    <3>4. g \in [db : DB, key : Key, val : Value, exp : Deadline \cup {NoExpiry}]
      BY <3>2, <3>3, Zenon
    <3>5. StoreLoaded(g)
      BY <3>1, Zenon
    <3> HIDE DEF g
    <3> QED BY <1>1, <3>4, <3>5, HandlerStores, Zenon
  <2> QED BY <2>1, <2>2, Zenon DEF LoadTorn
<1>3. load' = [load EXCEPT !.pc = "done", !.ok = FALSE, !.reader = NewLoader(<<>>)]
    BY <1>1, Zenon DEF EndLoad
<1>4. /\ DOMAIN load' = {"pc", "reader", "ok", "torn", "cut"}
      /\ load'.pc = "done" /\ load'.torn = load.torn /\ load'.cut = load.cut
    BY <1>1, <1>3, Zenon
<1>5. load'.torn
    BY <1>1, <1>4, Zenon
<1> QED BY <1>1, <1>2, <1>4, <1>5, Zenon DEF Loading, IsCut

-----------------------------------------------------------------------------
(* The saves and the load together.                                          *)

\* A process that has just started.
LEMMA FreshStart ==
    /\ SInit => SnapInv
    /\ SnapInv /\ Typed /\ Reboot => SnapInv'
<1> DEFINE empty == [s \in Shard |-> [i \in DB |-> EmptyDB]]
<1>1. IsDb(EmptyDB) /\ Living(EmptyDB) = {} /\ \A k \in Key : EmptyDB.val[k] = Absent /\ EmptyDB.exp[k] = NoExpiry
    BY Zenon DEF EmptyDB, IsDb, Living
<1>2. IsFiniteSet(Living(EmptyDB)) /\ \A k \in Key : k \notin Living(EmptyDB)
    BY <1>1, FS_EmptySet, Zenon
<1>3. empty = [s \in Shard |-> [i \in DB |-> empty[s][i]]] /\ \A s \in Shard, i \in DB : empty[s][i] = EmptyDB
    BY Zenon
<1> HIDE DEF empty
<1>4. /\ DOMAIN NotLoaded = {"pc", "reader", "ok", "torn", "cut"}
      /\ NotLoaded.pc = "open" /\ NotLoaded.torn = FALSE /\ NotLoaded.cut = {}
    BY Zenon DEF NotLoaded
<1>5. IsCut({})
    BY Zenon DEF IsCut
<1>6. ASSUME SInit PROVE SnapInv
  <2>1. dbs = empty /\ home \in Homes /\ load = NotLoaded /\ now = 0
    BY <1>6, HomesAssumption, Zenon DEF SInit, empty
  <2>2. home \in [Key -> Shard] /\ now \in 0 .. MaxNow
    BY <2>1, HomesAssumption, MaxNowAssumption
  <2>3. \A s \in Shard, i \in DB : dbs[s][i] = EmptyDB /\ IsDbOf(dbs[s][i], s)
    BY <1>1, <1>2, <1>3, <2>1, Zenon DEF IsDbOf
  <2>4. Tables
    BY <1>3, <2>1, <2>2, <2>3, Zenon DEF Tables
  <2>5. \A i \in DB, k \in PlainKey : Vacant(i, k)
    BY <1>1, <2>2, <2>3, PlainView, Zenon DEF Vacant
  <2>6. Loading
    BY <1>4, <1>5, <2>1, <2>5, Zenon DEF Loading
  <2> QED BY <1>6, <2>4, <2>6, InitFiles, Zenon DEF SnapInv
<1>7. ASSUME SnapInv, Typed, Reboot PROVE SnapInv'
  <2>1. dbs' = empty /\ home' \in Homes /\ load' = NotLoaded /\ now' = now
    BY <1>7, Zenon DEF Reboot, Booted, empty
  <2>2. home' \in [Key -> Shard] /\ now' \in 0 .. MaxNow
    BY <1>7, <2>1, HomesAssumption, Zenon DEF SnapInv, Tables
  <2>3. \A s \in Shard, i \in DB : dbs'[s][i] = EmptyDB /\ IsDbOf(dbs[s][i], s)'
    <3>1. \A s \in Shard, i \in DB : dbs'[s][i] = EmptyDB
      BY <1>3, <2>1, Zenon
    <3> QED BY <1>1, <1>2, <3>1, Zenon DEF IsDbOf, IsDb, Living
  <2>4. Tables'
    BY <1>3, <2>1, <2>2, <2>3, Zenon DEF Tables
  <2>5. \A i \in DB, k \in PlainKey : Vacant(i, k)'
    BY <1>1, <2>2, <2>3, PlainView, Zenon DEF Vacant
  <2>6. Loading'
    BY <1>4, <1>5, <2>1, <2>5, Zenon DEF Loading, IsCut
  <2> QED BY <1>7, <2>4, <2>6, RestartKeepsFiles, Zenon DEF SnapInv
<1> QED BY <1>6, <1>7, Zenon

\* Steps that change neither the tables nor the loader.
LEMMA SameData ==
    ASSUME SnapInv, UNCHANGED <<dbs, home, load, now, touched>> PROVE Tables' /\ Loading'
<1>1. Tables' /\ now' \in Nat /\ now' >= now
    BY TimePasses DEF SnapInv, Tables
<1>2. \A i \in DB, k \in Key : Val(i, k)' = Val(i, k) /\ Exp(i, k)' = Exp(i, k)
    BY Zenon DEF Val, Exp
<1> QED BY <1>1, <1>2, OthersKeepLoading, Zenon DEF SnapInv

\* Clients, the expiry fibers and the clock.
LEMMA DataKeepsSnap ==
    ASSUME SnapInv, Command \/ (\E s \in Shard : ExpireCycle(s)) \/ Tick PROVE SnapInv'
<1>1. Tables /\ Files /\ Loading /\ now \in Nat /\ now <= MaxNow
    BY DEF SnapInv, Tables
<1>2. CASE Command
  <2>1. PICK k \in Key, i \in DB : \E d : AtKey(dbs[home[k]][i], d, k) /\ Touch(k, i, d)
    BY <1>1, <1>2, ClientTouches, Zenon DEF Command
  <2>2. PICK d : AtKey(dbs[home[k]][i], d, k) /\ Touch(k, i, d)
    BY <2>1, Zenon
  <2>3. /\ dbs' = [dbs EXCEPT ![home[k]][i] = d] /\ touched' = touched \cup {<<i, k>>}
        /\ UNCHANGED <<home, load, now, job, tmp, dump>>
    BY <2>2, Zenon DEF Touch, SavesUnchanged
  <2>4. now' \in 0 .. MaxNow
    BY <1>1, <2>3
  <2>5. /\ Tables'
        /\ \A n \in DB, j \in Key : n # i \/ j # k => Val(n, j)' = Val(n, j) /\ Exp(n, j)' = Exp(n, j)
    BY <1>1, <2>2, <2>3, <2>4, OneKeyChanged, Zenon
  <2>6. \A n \in DB, j \in Key : <<n, j>> \in touched' \/ (Val(n, j)' = Val(n, j) /\ Exp(n, j)' = Exp(n, j))
    BY <2>3, <2>5, Zenon
  <2>7. Loading'
    BY <1>1, <2>3, <2>6, OthersKeepLoading
  <2> QED BY <1>1, <2>3, <2>5, <2>7, OthersKeepFiles, Zenon DEF SnapInv
<1>3. CASE \E s \in Shard : ExpireCycle(s)
  <2>1. PICK s \in Shard : ExpireCycle(s)
    BY <1>3, Zenon
  <2>2. UNCHANGED <<home, load, now, job, tmp, dump, touched>>
    BY <2>1, Zenon DEF ExpireCycle, SavesUnchanged
  <2>3. /\ Tables'
        /\ \A i \in DB, k \in Key : \/ Val(i, k)' = Val(i, k) /\ Exp(i, k)' = Exp(i, k)
                                    \/ Exp(i, k) # NoExpiry /\ Exp(i, k) <= now /\ Vacant(i, k)'
    BY <1>1, <2>1, CycleErases, Zenon
  <2>4. Loading'
    BY <1>1, <2>2, <2>3, OthersKeepLoading
  <2> QED BY <1>1, <2>2, <2>3, <2>4, OthersKeepFiles, Zenon DEF SnapInv
<1>4. CASE Tick
  <2>1. UNCHANGED <<dbs, home, load, job, tmp, dump, touched>> /\ now < MaxNow /\ now' = now + 1
    BY <1>4, Zenon DEF Tick, SavesUnchanged
  <2>2. now' \in 0 .. MaxNow /\ now' \in Nat /\ now' >= now
    BY <1>1, <2>1, MaxNowAssumption
  <2>3. Tables'
    BY <1>1, <2>1, <2>2, TimePasses, Zenon
  <2>4. \A i \in DB, k \in Key : Val(i, k)' = Val(i, k) /\ Exp(i, k)' = Exp(i, k)
    BY <2>1, Zenon DEF Val, Exp
  <2>5. Loading'
    BY <1>1, <2>1, <2>2, <2>4, OthersKeepLoading, Zenon
  <2> QED BY <1>1, <2>1, <2>3, <2>5, OthersKeepFiles, Zenon DEF SnapInv
<1> QED BY <1>2, <1>3, <1>4, Zenon

\* The load as a whole.
LEMMA LoadKeepsSnap == ASSUME SnapInv, LoadStep PROVE SnapInv'
<1>1. Tables /\ Files /\ Loading
    BY Zenon DEF SnapInv
<1>2. UNCHANGED <<job, tmp, dump, home>>
    BY Zenon DEF LoadStep, LoadOpen, LoadEntry, LoadEnd, LoadTorn, LoadUnchanged
<1>3. Files'
    BY <1>1, <1>2, OthersKeepFiles, Zenon
<1>4. CASE LoadOpen \/ LoadEnd
  <2>1. Loading'
    BY <1>1, <1>4, OpenKeepsLoading, EndKeepsLoading, Zenon
  <2>2. dbs' = dbs /\ now' = now
    BY <1>4, Zenon DEF LoadOpen, LoadEnd
  <2>3. Tables'
    BY <1>1, <1>2, <2>2, TimePasses, Zenon DEF Tables
  <2> QED BY <1>3, <2>1, <2>3, Zenon DEF SnapInv
<1>5. CASE LoadEntry \/ LoadTorn
    BY <1>1, <1>3, <1>5, EntryKeepsLoading, TornKeepsLoading, Zenon DEF SnapInv
<1> QED BY <1>4, <1>5, Zenon DEF LoadStep

\* The invariant of the saves and the load is inductive.
LEMMA NextKeepsSnap == SnapInv /\ EInv /\ [SNext]_state => SnapInv'
<1> SUFFICES ASSUME SnapInv, EInv, [SNext]_state PROVE SnapInv'
    BY Zenon
<1>1. CASE UNCHANGED state
  <2>1. UNCHANGED <<dbs, home, load, now, touched>> /\ UNCHANGED <<job, tmp, dump, home>>
    BY <1>1, Zenon DEF state
  <2> QED BY <2>1, SameData, OthersKeepFiles, Zenon DEF SnapInv
<1>2. ASSUME NEW j \in Job, SaveStep(j) PROVE SnapInv'
  <2>1. Files'
    BY <1>2, SavingKeepsFiles, Zenon DEF SnapInv
  <2>2. UNCHANGED <<dbs, home, load, now, touched>>
    BY <1>2, Zenon DEF SaveStep, Save, BgCheck, BgMark, Open, SaveVisit, BgVisit, Footer, Rename,
       RenameFails, BgClear, AbandonVisit, AbandonElsewhere, Abandon, DataUnchanged
  <2> QED BY <2>1, <2>2, SameData, Zenon DEF SnapInv
<1> QED BY <1>1, <1>2, LoadKeepsSnap, DataKeepsSnap, FreshStart, Zenon DEF SNext, EInv

\* The invariant of the saves and the load holds throughout.
LEMMA SnapHolds == SSpec => [](SnapInv /\ EInv)
<1>1. SInit => SnapInv /\ EInv
    BY FreshStart, BootHasEpochs, Zenon
<1> QED BY <1>1, NextKeepsSnap, NextKeepsEpochs, PTL DEF SSpec

\* The dump that a save has left is whole and holds exactly what the save has
\* seen, for any number of shards, databases and saves, any order in which
\* tables are iterated, and any writes, failures and crashes in between.
THEOREM DumpsAreCuts == SSpec => []DumpIsCut
<1>1. SnapInv => DumpIsCut
    BY CompleteIsCut, Zenon DEF SnapInv, Files, DumpIsCut
<1> QED BY <1>1, SnapHolds, PTL

\* Every string whose key is a string is back after a restart, whatever the
\* shard that its key falls to in the new process, and whatever clients, the
\* expiry fibers and the clock do during the load.
THEOREM LoadedStringsAreBack == SSpec => []StringsAreBack
<1>1. SnapInv => StringsAreBack
  <2> SUFFICES ASSUME SnapInv, load.pc = "done", ~load.torn
               PROVE  /\ load.ok
                      /\ \A e \in Untouched : ~IsContainer(e.val) /\ e.val # NullObject
                             /\ e.key \notin IntKey \cup {EmptyKey} => IsBack(e)
    BY Zenon DEF StringsAreBack
  <2>1. load.ok /\ \A e \in Untouched : Promised(e) => IsBack(e)
    BY Zenon DEF SnapInv, Loading
  <2>2. ASSUME NEW e \in Untouched, ~IsContainer(e.val), e.val # NullObject,
               e.key \notin IntKey \cup {EmptyKey}
        PROVE  IsBack(e)
    <3>1. e \in load.cut /\ IsCut(load.cut)
      BY Zenon DEF Untouched, SnapInv, Loading
    <3>2. e.key \in Key
      BY <3>1, CutTyped, Zenon
    <3> QED BY <2>1, <2>2, <3>2, Zenon DEF Promised, PlainKey
  <2> QED BY <2>1, <2>2, Zenon
<1> QED BY <1>1, SnapHolds, PTL

\* The home of a process's keys and its announcement of a BGSAVE.
Statics == home \in Homes /\ bg_save_in_progress \in BOOLEAN

\* Nothing but a restart changes the homes of keys.
LEMMA NextKeepsStatics == Statics /\ [SNext]_state => Statics'
<1> SUFFICES ASSUME Statics, [SNext]_state PROVE Statics'
    BY Zenon
<1>1. UNCHANGED <<home, bg_save_in_progress>> => Statics'
    BY Zenon DEF Statics
<1>2. CASE UNCHANGED state
    BY <1>1, <1>2, Zenon DEF state
<1>3. CASE LoadStep
    BY <1>1, <1>3, Zenon DEF LoadStep, LoadOpen, LoadEntry, LoadEnd, LoadTorn, LoadUnchanged
<1>4. CASE Command
    BY <1>1, <1>4, Zenon DEF Command, Store, Create, Delete, Touch, SavesUnchanged
<1>5. CASE (\E s \in Shard : ExpireCycle(s)) \/ Tick
    BY <1>1, <1>5, Zenon DEF ExpireCycle, Tick, SavesUnchanged
<1>6. ASSUME NEW j \in Job, SaveStep(j) PROVE home' = home /\ bg_save_in_progress' \in BOOLEAN
    BY <1>6, Zenon DEF Statics, SaveStep, Save, BgCheck, BgMark, Open, SaveVisit, BgVisit, Footer,
       Rename, RenameFails, BgClear, AbandonVisit, AbandonElsewhere, Abandon, DataUnchanged
<1>7. CASE Reboot
    BY <1>7, Zenon DEF Reboot, Booted, Statics
<1> QED BY <1>2, <1>3, <1>4, <1>5, <1>6, <1>7, Zenon DEF SNext, Statics

\* All of the state stays in its ranges: no version is ahead of the
\* last epoch, and only a save under way has the temporary file open.
THEOREM SnapshotsTyped == SSpec => []STypeOK
<1>1. SnapInv /\ EInv /\ Statics => STypeOK
  <2> SUFFICES ASSUME SnapInv, EInv, Statics PROVE STypeOK
    BY Zenon
  <2>1. dbs \in [Shard -> [DB -> [val : [Key -> Value \cup {Absent, NullObject}],
                                  exp : [Key -> Deadline \cup {NoExpiry}]]]]
    <3> DEFINE D == [val : [Key -> Value \cup {Absent, NullObject}], exp : [Key -> Deadline \cup {NoExpiry}]]
    <3>1. \A s \in Shard, i \in DB : dbs[s][i] \in D
      BY Zenon DEF SnapInv, Tables, IsDbOf, IsDb
    <3> HIDE DEF D
    <3>2. dbs \in [Shard -> [DB -> D]]
      BY <3>1, Zenon DEF SnapInv, Tables
    <3> QED BY <3>2, Zenon DEF D
  <2>2. version \in [Shard -> [DB -> 0 .. snapshot_epoch]] /\ snapshot_epoch \in Nat
    <3>1. version \in [Shard -> [DB -> Nat]] /\ snapshot_epoch \in Nat
      BY Zenon DEF EInv, Typed
    <3>2. \A s \in Shard, i \in DB : version[s][i] \in 0 .. snapshot_epoch
      BY <3>1 DEF EInv, Epochs
    <3> QED BY <3>1, <3>2, Zenon
  <2>3. \A j \in Job : job[j].pc \in JobPc /\ job[j].epoch <= snapshot_epoch
    BY Zenon DEF EInv, Epochs, SnapInv, Files
  <2>4. tmp.writers \subseteq {j \in Job : Busy(j)}
    BY Zenon DEF SnapInv, Files
  <2>5. load.pc \in {"open", "read", "guess", "done"} /\ now \in 0 .. MaxNow
    BY Zenon DEF SnapInv, Loading, Tables
  <2> QED BY <2>1, <2>2, <2>3, <2>4, <2>5, Zenon DEF STypeOK, Statics
<1>2. SInit => Statics
    BY HomesAssumption, Zenon DEF SInit, Statics
<1> QED BY <1>1, <1>2, SnapHolds, NextKeepsStatics, PTL DEF SSpec
=============================================================================
