------------------------------ MODULE Snapshots ------------------------------
(* SAVE, BGSAVE and the load at start, over the databases of all shards.     *)
(*                                                                           *)
(* A save is a fiber that visits the shards by Await: what it does on one    *)
(* shard is one step, and clients, the expiry fibers and another save may    *)
(* come between two visits.  There is one file name, with its ".tmp".  There *)
(* are several shards: with a single one a save is not interrupted at all.   *)
EXTENDS Rdb

CONSTANTS
    NumShards,      \* shards, numbered from 0
    NumDBs,         \* databases of a shard, Database::kNumDBs
    Homes,          \* the ways a process may hash its keys to shards
    Job,            \* saves that may be under way at a time
    Writes,         \* what clients store: [key, db, val, ttl], ttl 0 for none
    MaxScan,        \* keys that an expiry cycle looks at
    Budgets,        \* bounds, one of which holds for a behaviour: on the writes
                    \* of clients, saves, faults, signals and restarts
    MaxNow          \* bound on the clock

ASSUME NumShardsAssumption == NumShards \in Nat \ {0, 1}
ASSUME NumDBsAssumption == NumDBs \in Nat \ {0}

Shard == 0 .. NumShards - 1
DB == 0 .. NumDBs - 1

ASSUME HomesAssumption == Homes # {} /\ Homes \subseteq [Key -> Shard]
ASSUME WritesAssumption == Writes \subseteq [key : Key, db : DB, val : Value, ttl : Nat]
ASSUME MaxNowAssumption == MaxNow \in Nat /\ MaxNow < Int64Max

VARIABLES
    dbs,            \* the databases of every shard
    version,        \* the version of the tables' segments (one per table)
    home,           \* the shard of every key, in this process
    snapshot_epoch, bg_save_in_progress,    \* statics of ServerFamily
    job,            \* the saves
    tmp, dump,      \* the temporary file and the dump
    load,           \* LoadFromFile
    now,            \* the steady clock
    touched,        \* history: what clients have written since the start
    budget          \* what is left of the bounds

svars == <<dbs, version, home, snapshot_epoch, bg_save_in_progress, job, tmp, dump,
           load, now, touched, budget>>

(* A file: its tokens, or torn when two saves have written it at once and it *)
(* may hold any mixture; cut (history) is what the save has seen; writers    *)
(* are the saves that have it open under this name.                          *)
NoFile == [exists |-> FALSE, torn |-> FALSE, tokens |-> <<>>, cut |-> {}, writers |-> {}]

\* A save that has no file open.
Fresh(pc, kind) == [pc |-> pc, kind |-> kind, epoch |-> 0, at |-> 0,
                   serializer |-> NewSerializer, cut |-> {}]

NoJob == Fresh("idle", "none")

NotLoaded == [pc |-> "open", reader |-> NewLoader(<<>>), ok |-> FALSE, torn |-> FALSE, cut |-> {}]

\* A process that has just started; the files and the clock are what they are.
Booted ==
    /\ dbs' = [s \in Shard |-> [i \in DB |-> EmptyDB]]
    /\ version' = [s \in Shard |-> [i \in DB |-> 0]]
    /\ home' \in Homes
    /\ snapshot_epoch' = 0 /\ bg_save_in_progress' = FALSE
    /\ job' = [j \in Job |-> NoJob]
    /\ load' = NotLoaded
    /\ touched' = {}

SInit ==
    /\ dbs = [s \in Shard |-> [i \in DB |-> EmptyDB]]
    /\ version = [s \in Shard |-> [i \in DB |-> 0]]
    /\ home = CHOOSE h \in Homes : TRUE
    /\ snapshot_epoch = 0 /\ bg_save_in_progress = FALSE
    /\ job = [j \in Job |-> NoJob]
    /\ tmp = NoFile /\ dump = NoFile
    /\ load = NotLoaded
    /\ now = 0
    /\ touched = {}
    /\ budget \in Budgets

(***************************************************************************)
(* Clients and the expiry fibers                                             *)
(***************************************************************************)
Spend(what) == budget[what] > 0 /\ budget' = [budget EXCEPT ![what] = @ - 1]

SavesUnchanged ==
    UNCHANGED <<version, home, snapshot_epoch, bg_save_in_progress, job, tmp, dump, load>>

Touch(k, i, d) ==
    /\ Spend("writes")
    /\ dbs' = [dbs EXCEPT ![home[k]][i] = d]
    /\ touched' = touched \cup {<<i, k>>}
    /\ SavesUnchanged /\ UNCHANGED now

\* SET, with a deadline or without one.
Store(w) ==
    LET d == Set(dbs[home[w.key]][w.db], w.key, w.val)
    IN  /\ ~IsContainer(w.val)
        /\ Touch(w.key, w.db, IF w.ttl > 0 THEN Expire(d, w.key, w.ttl, now)
                                          ELSE Persist(d, w.key, now))

\* SADD, HSET, LPUSH of a key that is not there.
Create(w) ==
    LET d == dbs[home[w.key]][w.db]
    IN  /\ IsContainer(w.val) /\ Found(d, w.key, now) = Absent
        /\ Touch(w.key, w.db, Set(Find(d, w.key, now), w.key, w.val))

Delete(k, i) ==
    /\ dbs[home[k]][i].val[k] # Absent
    /\ Touch(k, i, Del(dbs[home[k]][i], k, now))

ExpireCycle(s) ==
    /\ dbs' = [dbs EXCEPT ![s] = [i \in DB |-> ActiveExpire(@[i], MaxScan, now)]]
    /\ dbs' # dbs
    /\ SavesUnchanged /\ UNCHANGED <<now, touched, budget>>

\* Time matters from the first deadline on.
Tick ==
    /\ \/ \E s \in Shard, i \in DB, k \in Key : dbs[s][i].exp[k] # NoExpiry
       \/ \E e \in dump.cut \cup load.cut : e.exp # NoExpiry
    /\ now < MaxNow /\ now' = now + 1
    /\ SavesUnchanged /\ UNCHANGED <<dbs, touched, budget>>

(***************************************************************************)
(* SAVE and BGSAVE                                                           *)
(***************************************************************************)
DataUnchanged == UNCHANGED <<dbs, home, load, now, touched>>

SetJob(j, record) == job' = [job EXCEPT ![j] = record]
At(j, where) == job[j].pc = where
IsBg(j) == job[j].kind = "bgsave"

\* The saves that still write or rename the temporary file.
Busy(j) == job[j].pc \in {"visit", "footer", "rename"}

\* BGSAVE finds no other one in progress ...
BgCheck(j) ==
    /\ At(j, "idle") /\ ~bg_save_in_progress /\ Spend("saves")
    /\ SetJob(j, Fresh("mark", "bgsave"))
    /\ UNCHANGED <<version, snapshot_epoch, bg_save_in_progress, tmp, dump>> /\ DataUnchanged

\* ... and says so in a separate step, before it creates its fiber.
BgMark(j) ==
    /\ At(j, "mark")
    /\ bg_save_in_progress' = TRUE
    /\ SetJob(j, Fresh("open", "bgsave"))
    /\ UNCHANGED <<version, snapshot_epoch, tmp, dump, budget>> /\ DataUnchanged

\* SAVE asks nobody.
Save(j) ==
    /\ At(j, "idle") /\ Spend("saves")
    /\ SetJob(j, Fresh("open", "save"))
    /\ UNCHANGED <<version, snapshot_epoch, bg_save_in_progress, tmp, dump>> /\ DataUnchanged

\* The file is truncated under whoever has it open.
OpenTmp(j) ==
    LET others == {o \in tmp.writers : Busy(o)}
    IN  tmp' = [exists |-> TRUE, torn |-> others # {}, tokens |-> <<>>, cut |-> {},
                writers |-> others \cup {j}]

\* Faulty variant: the epoch is read and not advanced.
OpenSameEpoch(j) ==
    /\ At(j, "open")
    /\ OpenTmp(j)
    /\ snapshot_epoch' = IF IsBg(j) THEN 1 ELSE snapshot_epoch
    /\ SetJob(j, [pc |-> "visit", kind |-> job[j].kind, epoch |-> IF IsBg(j) THEN 1 ELSE 0,
                  at |-> 0, serializer |-> SaveHeader(NewSerializer), cut |-> {}])
    /\ UNCHANGED <<version, bg_save_in_progress, dump, budget>> /\ DataUnchanged

\* FileSink, the epoch of a BGSAVE, and the header.
Open(j) ==
    /\ At(j, "open")
    /\ OpenTmp(j)
    /\ snapshot_epoch' = IF IsBg(j) THEN snapshot_epoch + 1 ELSE snapshot_epoch
    /\ SetJob(j, [pc |-> "visit", kind |-> job[j].kind,
                  epoch |-> IF IsBg(j) THEN snapshot_epoch' ELSE 0,
                  at |-> 0, serializer |-> SaveHeader(NewSerializer), cut |-> {}])
    /\ UNCHANGED <<version, bg_save_in_progress, dump, budget>> /\ DataUnchanged

\* After a visit to shard s, of n visits in all.
Visited(j, n, serializer, seen) ==
    SetJob(j, [pc |-> IF job[j].at + 1 = n THEN "footer" ELSE "visit",
               kind |-> job[j].kind, epoch |-> job[j].epoch, at |-> job[j].at + 1,
               serializer |-> serializer, cut |-> job[j].cut \cup seen])

\* SAVE goes through the databases, and through the shards for each of them.
SaveVisit(j, s) ==
    LET i == job[j].at \div NumShards
    IN  /\ At(j, "visit") /\ ~IsBg(j) /\ s = job[j].at % NumShards
        /\ Visited(j, NumDBs * NumShards, SaveTable(job[j].serializer, dbs[s][i], i, now),
                   Entries(dbs[s][i], i, now))
        /\ UNCHANGED <<version, snapshot_epoch, bg_save_in_progress, tmp, dump, budget>>
        /\ DataUnchanged

\* SerializeDB passes over an empty table, and over segments that a snapshot
\* of this epoch or of a later one has stamped.
Due(j, s, i) == dbs[s][i].val # EmptyDB.val /\ version[s][i] < job[j].epoch

Stamp(j, s, upTo) ==
    version' = [version EXCEPT ![s] = [i \in DB |->
                    IF i <= upTo /\ Due(j, s, i) THEN job[j].epoch ELSE @[i]]]

SerializeAllDBs(j, s) ==
    LET upTo[n \in 0 .. NumDBs] ==
            IF n = 0 THEN job[j].serializer
            ELSE IF Due(j, s, n - 1) THEN SaveTable(upTo[n - 1], dbs[s][n - 1], n - 1, now)
            ELSE upTo[n - 1]
    IN  upTo[NumDBs]

\* BGSAVE goes through the shards, and writes all databases of one in a closure.
\* The callback that would save a segment before it changes is set and cleared
\* within that closure, and nothing changes the table meanwhile.
BgVisit(j, s) ==
    /\ At(j, "visit") /\ IsBg(j) /\ s = job[j].at
    /\ Visited(j, NumShards, SerializeAllDBs(j, s), UNION {Entries(dbs[s][i], i, now) : i \in DB})
    /\ Stamp(j, s, NumDBs - 1)
    /\ UNCHANGED <<snapshot_epoch, bg_save_in_progress, tmp, dump, budget>> /\ DataUnchanged

\* The footer; flush and close.  Only now is the file sure to have it all.
Footer(j) ==
    LET o == SaveFooter(job[j].serializer)
    IN  /\ At(j, "footer")
        /\ SetJob(j, Fresh("rename", job[j].kind))
        /\ tmp' = IF j \notin tmp.writers \/ tmp.torn THEN tmp
                  ELSE [exists |-> TRUE, torn |-> FALSE, tokens |-> o.out, cut |-> job[j].cut,
                        writers |-> tmp.writers]
        /\ UNCHANGED <<version, snapshot_epoch, bg_save_in_progress, dump, budget>>
        /\ DataUnchanged

\* Faulty variant: a failure forgets the announcement.
LeaveSilently(j) == SetJob(j, NoJob)

\* The end of a save, which a BGSAVE has still to announce.
Leave(j) == SetJob(j, IF IsBg(j) THEN Fresh("clear", "bgsave") ELSE NoJob)

(* rename(tmp, dump): whatever has the name by then.  A file that j has not  *)
(* written is some other save's, and not finished.                           *)
Rename(j) ==
    /\ At(j, "rename") /\ tmp.exists
    /\ dump' = IF tmp.torn \/ j \notin tmp.writers
               THEN [NoFile EXCEPT !.exists = TRUE, !.torn = TRUE]
               ELSE [tmp EXCEPT !.writers = {}]
    /\ tmp' = NoFile
    /\ Leave(j)
    /\ UNCHANGED <<version, snapshot_epoch, bg_save_in_progress, budget>> /\ DataUnchanged

(* Open, a write, flush or rename fails, or an object cannot be written.     *)
(* The temporary file stays.                                                 *)
Abandon(j) ==
    /\ job[j].pc \in {"open", "visit", "footer", "rename"}
    /\ Leave(j)
    /\ tmp' = [tmp EXCEPT !.writers = @ \ {j}]
    /\ Spend("faults")
    /\ UNCHANGED <<snapshot_epoch, bg_save_in_progress, dump>> /\ DataUnchanged

\* A failure within a BGSAVE's visit: the segments up to there are stamped.
AbandonVisit(j, s) ==
    /\ At(j, "visit") /\ IsBg(j) /\ s = job[j].at
    /\ \E i \in DB : Stamp(j, s, i)
    /\ Abandon(j)

AbandonElsewhere(j) == Abandon(j) /\ UNCHANGED version

\* Another save has renamed the file away.
RenameFails(j) ==
    /\ At(j, "rename") /\ ~tmp.exists
    /\ Leave(j)
    /\ UNCHANGED <<version, snapshot_epoch, bg_save_in_progress, tmp, dump, budget>>
    /\ DataUnchanged

BgClear(j) ==
    /\ At(j, "clear")
    /\ bg_save_in_progress' = FALSE
    /\ SetJob(j, NoJob)
    /\ UNCHANGED <<version, snapshot_epoch, tmp, dump, budget>> /\ DataUnchanged

(***************************************************************************)
(* LoadFromFile                                                              *)
(***************************************************************************)
LoadUnchanged ==
    UNCHANGED <<version, home, snapshot_epoch, bg_save_in_progress, job, tmp, dump, touched, budget>>

EndLoad(ok) == load' = [load EXCEPT !.pc = "done", !.ok = ok, !.reader = NewLoader(<<>>)]

\* No file is no error.
LoadOpen ==
    LET l == NewLoader(dump.tokens)
    IN  /\ load.pc = "open"
        /\ load' = IF ~dump.exists THEN [load EXCEPT !.pc = "done", !.ok = TRUE]
                   ELSE IF dump.torn THEN [load EXCEPT !.pc = "guess", !.torn = TRUE]
                   ELSE [load EXCEPT !.pc = IF HeaderIsRight(l) THEN "read" ELSE "done",
                                     !.reader = LoadHeader(l), !.cut = dump.cut]
        /\ LoadUnchanged /\ UNCHANGED <<dbs, now>>

(* The handler, on the shard of the key.  The time to live is taken from one *)
(* reading of the clock and counted from the next.                           *)
StoreLoaded(e) ==
    LET s == home[e.key]
        d == Set(dbs[s][e.db], e.key, Copied(e.val))
    IN  /\ now' \in {now, now + 1} /\ now' <= MaxNow
        /\ dbs' = IF e.exp = NoExpiry THEN [dbs EXCEPT ![s][e.db] = d]
                  ELSE IF e.exp - now <= 0 THEN dbs
                  ELSE [dbs EXCEPT ![s][e.db] = Expire(d, e.key, e.exp - now, now')]

\* Load up to the next entry, which is stored at once, before any checksum.
LoadEntry ==
    LET l == ReadOpcodes(load.reader)
    IN  /\ load.pc = "read" /\ HasEntry(l)
        /\ StoreLoaded(EntryRead(l))
        /\ load' = [load EXCEPT !.reader = EntryDone(l)]
        /\ LoadUnchanged

LoadEnd ==
    LET l == ReadOpcodes(load.reader)
    IN  /\ load.pc = "read" /\ ~HasEntry(l)
        /\ EndLoad(LoadFooter(l))
        /\ LoadUnchanged /\ UNCHANGED <<dbs, now>>

\* A torn file yields an entry, some entry, or an error.
LoadTorn ==
    /\ load.pc = "guess"
    /\ \/ \E w \in Writes :
             StoreLoaded([db |-> w.db, key |-> StringView(w.key), val |-> w.val, exp |-> NoExpiry])
       \/ UNCHANGED <<dbs, now>>
    /\ EndLoad(FALSE)
    /\ LoadUnchanged

LoadStep == LoadOpen \/ LoadEntry \/ LoadEnd \/ LoadTorn

-----------------------------------------------------------------------------
JobPc == {"idle", "mark", "open", "visit", "footer", "rename", "clear"}

STypeOK ==
    /\ dbs \in [Shard -> [DB -> [val : [Key -> Value \cup {Absent, NullObject}],
                                 exp : [Key -> Deadline \cup {NoExpiry}]]]]
    /\ version \in [Shard -> [DB -> 0 .. snapshot_epoch]]
    /\ home \in Homes
    /\ snapshot_epoch \in Nat /\ bg_save_in_progress \in BOOLEAN
    /\ \A j \in Job : job[j].pc \in JobPc /\ job[j].epoch <= snapshot_epoch
    /\ tmp.writers \subseteq {j \in Job : Busy(j)}
    /\ load.pc \in {"open", "read", "guess", "done"}
    /\ now \in 0 .. MaxNow

(* A BGSAVE that alone has the temporary file finds every segment that it    *)
(* has still to visit older than its epoch, so SerializeDB passes over none, *)
(* although snapshots that failed or were overtaken have stamped segments    *)
(* before, and two of them may be under way at once.                         *)
BgSaveSkipsNothing ==
    \A j \in tmp.writers : At(j, "visit") /\ IsBg(j) /\ ~tmp.torn =>
        \A s \in Shard, i \in DB : s >= job[j].at => version[s][i] < job[j].epoch

\* What a reader who knows the format finds in a file.
EntriesOf(t) == {p \in DOMAIN t : t[p][1] = "entry"}
DbAt(t, p) == t[Max({i \in 1 .. p : t[i][1] = "select"})][2]
DeadlineAt(t, p) == IF t[p - 1][1] = "expire" THEN t[p - 1][2] ELSE NoExpiry

IsWhole(t) ==
    /\ Len(t) > 2 /\ t[1] = <<"header">>
    /\ t[Len(t)] = <<"crc", SubSeq(t, 1, Len(t) - 1)>> /\ t[Len(t) - 1] = <<"eof">>

(* A dump that two saves have not torn is complete, and holds exactly what   *)
(* was there, shard by shard (SAVE: table by table), when the save came by:  *)
(* although clients write and keys expire between the visits, saves fail     *)
(* half way and processes crash at any point, and although a snapshot leaves *)
(* out the segments that its epoch says have been saved.                     *)
DumpIsCut ==
    dump.exists /\ ~dump.torn =>
        LET t == dump.tokens
        IN  /\ IsWhole(t)
            /\ {[db |-> DbAt(t, p), key |-> t[p][2], val |-> t[p][3], exp |-> DeadlineAt(t, p)] :
                    p \in EntriesOf(t)}
               = {[db |-> e.db, key |-> StringView(e.key), val |-> Written(e.val), exp |-> e.exp] :
                    e \in dump.cut}
            /\ Cardinality(EntriesOf(t)) = Cardinality(dump.cut)

\* Entry e of a dump is where a client looks for it, with its deadline.
IsBack(e) ==
    LET d == dbs[home[e.key]][e.db]
    IN  /\ d.val[e.key] = e.val
        /\ IF e.exp = NoExpiry THEN d.exp[e.key] = NoExpiry ELSE d.exp[e.key] >= e.exp

\* Entries that nobody has written since the start, and that still live.
Untouched == {e \in load.cut : <<e.db, e.key>> \notin touched
                                /\ (e.exp = NoExpiry \/ e.exp > now)}

(* After a restart every string whose key is a string is back: on the shard  *)
(* where the new process looks for it, in its database, with its value and   *)
(* no earlier deadline, although the shards serve clients during the load.   *)
StringsAreBack ==
    load.pc = "done" /\ ~load.torn =>
        /\ load.ok
        /\ \A e \in Untouched : ~IsContainer(e.val) /\ e.val # NullObject
                                 /\ e.key \notin IntKey \cup {EmptyKey} => IsBack(e)

(* After a restart everything is back, whatever its key and its type.        *)
EverythingIsBack == load.pc = "done" /\ ~load.torn => \A e \in Untouched : IsBack(e)
=============================================================================
