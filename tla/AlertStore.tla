----------------------------- MODULE AlertStore -----------------------------
(***************************************************************************)
(* The device's alert store (device/internal/alerts/store.go): an atomic   *)
(* snapshot file and a journal of whole transactions, each file operation  *)
(* a step that may fail, with the process killed or the power lost between *)
(* any two of them.                                                        *)
(*                                                                         *)
(* The journal is a sequence of slots, one per record: offsets count slots *)
(* instead of bytes.  A file has the content the process reads, and a set  *)
(* of contents a power loss may leave; a successful sync leaves one.       *)
(***************************************************************************)
EXTENDS Integers, Sequences, FiniteSets

CONSTANTS
    Delivered,    \* items a snapshot install replaces (occ, armed)
    Local,        \* items it leaves alone (ops, children, rings)
    Transactions, \* the transactions asked of the store
    CompactAt,    \* compactAt, in records
    FailPoints,   \* file operations that may fail
    DamageKinds,  \* what bad media may do to a record before the last
    MaxTxn,       \* bound on the transaction number
    Budget        \* bounds on file errors, kills, power losses and damage

Items == Delivered \cup Local
Operations ==
    {"write", "sync", "rollback", "rollback_sync", "rename", "sync_dir",
     "truncate", "truncate_sync", "read", "tail", "tail_sync"}
Faults == {"error", "kill", "power", "damage"}

ASSUME ItemsAssumption == Delivered \cap Local = {} /\ IsFiniteSet(Items)
ASSUME TransactionsAssumption ==
    /\ Transactions \subseteq
         [reset : BOOLEAN, del : SUBSET Items, put : SUBSET Items]
    /\ [reset |-> FALSE, del |-> {}, put |-> {}] \notin Transactions
ASSUME CompactAssumption == CompactAt \in Nat \ {0}
ASSUME FailAssumption ==
    FailPoints \subseteq Operations /\ DamageKinds \subseteq {"bad", "zero", "long"}
ASSUME BoundAssumption == MaxTxn \in Nat /\ Budget \in [Faults -> Nat]

VARIABLES
    log, logs,    \* operations.log: as read, and as power loss may leave it
    snap, snaps,  \* snapshot.json, likewise
    pc,           \* the next file operation, "idle" or "closed"
    mem,          \* the open store: state, last transaction, logSize, broken
    opening,      \* compaction is part of openStore
    cur,          \* the transaction being committed
    committed,    \* history: the state after the last successful commit, or,
                  \* after bad media, what is left of it, with the mark
    maybe,        \* history: states a write that was not synced may leave
    left          \* what is left of Budget

files == <<log, logs, snap, snaps>>
vars == <<files, pc, mem, opening, cur, committed, maybe, left>>

Takes(fault) == left[fault] > 0 /\ left' = [left EXCEPT ![fault] = @ - 1]
Fails(operation) == operation \in FailPoints /\ Takes("error")

----------------------------------------------------------------------------
(* State, records and recovery                                             *)

NewState == [items |-> {}, corrupt |-> FALSE]

\* state.apply: a reset drops what was delivered and the corrupt mark, then
\* deletes come before puts.
Apply(st, t) ==
    [items |-> ((IF t.reset THEN st.items \ Delivered ELSE st.items) \ t.del)
               \cup t.put,
     corrupt |-> st.corrupt /\ ~t.reset]

\* A slot: a whole record, zeros, or a record that fails its checksum ("bad"),
\* is cut short by the end of file ("torn") or claims to be ("long").
Slot(kind, n, t) == [kind |-> kind, n |-> n, txn |-> t]
NoTxn == [reset |-> FALSE, del |-> {}, put |-> {}]
Record(n, t) == Slot("record", n, t)
Blank(kind) == Slot(kind, 0, NoTxn)

\* The file with slot x at offset `at`: a write beyond the end leaves zeros.
Placed(file, at, x) ==
    [i \in 1..(IF Len(file) > at THEN Len(file) ELSE at + 1) |->
        IF i = at + 1 THEN x
        ELSE IF i <= Len(file) THEN file[i] ELSE Blank("zero")]

\* The file truncated or extended to n slots.
Resized(file, n) ==
    [i \in 1..n |-> IF i <= Len(file) THEN file[i] ELSE Blank("zero")]

\* A snapshot file; a missing one reads as the new state.
Snapshot(through, st) == [readable |-> TRUE, through |-> through, st |-> st]

\* Mutant: records are counted, and those the snapshot covers applied again.
ReadRecordCounted(p, slot) ==
    [p EXCEPT !.st = Apply(@, slot.txn), !.txn = @ + 1, !.end = @ + 1]

\* A whole record: one the snapshot covers is passed over, the next one is
\* applied, a later one shows that a record is missing.
ReadRecord(p, slot) ==
    IF slot.n <= p.txn THEN [p EXCEPT !.end = @ + 1]
    ELSE IF slot.n # p.txn + 1 THEN [p EXCEPT !.stop = TRUE, !.corrupt = TRUE]
    ELSE [p EXCEPT !.st = Apply(@, slot.txn), !.txn = slot.n, !.end = @ + 1]

\* Whether what is not a whole record at i is more than a torn tail.
Corrupts(file, i) ==
    CASE file[i].kind = "zero" -> \E j \in i..Len(file) : file[j].kind # "zero"
      [] file[i].kind \in {"bad", "torn"} -> i # Len(file)
      [] file[i].kind = "long" -> FALSE

\* What replay makes of slot i, unless it has stopped.
ReadSlot(p, file, i) ==
    IF p.stop THEN p
    ELSE IF file[i].kind = "record" THEN ReadRecord(p, file[i])
    ELSE [p EXCEPT !.stop = TRUE, !.corrupt = Corrupts(file, i)]

\* replay: the records after s.through, up to the first that is not whole.
Started(s) == [st |-> s.st, txn |-> s.through, end |-> 0, stop |-> FALSE, corrupt |-> FALSE]
Replay(file, s) ==
    LET after[i \in 0..Len(file)] ==
          IF i = 0 THEN Started(s) ELSE ReadSlot(after[i - 1], file, i)
    IN  after[Len(file)]

\* loadSnapshot leaves the new state when the file is unreadable.
Loaded(s) == IF s.readable THEN s ELSE Snapshot(0, NewState)

\* What openStore would find in files with these contents.
Found(file, s) ==
    LET r == Replay(file, Loaded(s))
    IN  [r EXCEPT !.corrupt = @ \/ ~s.readable,
                  !.st.corrupt = @ \/ r.corrupt \/ ~s.readable]

----------------------------------------------------------------------------
(* commit                                                                  *)

NoMem == [st |-> NewState, txn |-> 0, size |-> 0, broken |-> FALSE]

\* commit of a transaction that is not empty; a broken store refuses it.
Commit(t) ==
    /\ pc = "idle" /\ ~mem.broken
    /\ mem.txn < MaxTxn
    /\ cur' = t
    /\ pc' = "write"
    /\ UNCHANGED <<files, mem, opening, committed, maybe, left>>

\* WriteAt(rec, logSize).  A failed write may leave part of the record, a power
\* loss also zeros in its place.
Write ==
    /\ pc = "write"
    /\ LET whole == Placed(log, mem.size, Record(mem.txn + 1, cur))
           part  == {Placed(log, mem.size, Blank(kind)) : kind \in {"torn", "zero"}}
       IN  \/ /\ log' = whole
              /\ logs' = logs \cup {whole} \cup part
              /\ maybe' = maybe \cup {Apply(mem.st, cur)}
              /\ pc' = "sync"
              /\ UNCHANGED <<cur, left>>
           \/ /\ Fails("write")
              /\ log' \in {log} \cup part
              /\ logs' = logs \cup part
              /\ pc' = "rollback"
              /\ cur' = NoTxn
              /\ UNCHANGED maybe
    /\ UNCHANGED <<snap, snaps, mem, opening, committed>>

\* When commit compacts the journal.
Compacts(t, size) == t.reset \/ size >= CompactAt

\* Sync: the record is durable, and only now is it applied.
Sync ==
    /\ pc = "sync"
    /\ \/ /\ mem' = [mem EXCEPT !.st = Apply(@, cur), !.txn = @ + 1,
                                !.size = @ + 1]
          /\ logs' = {log}
          /\ committed' = mem'.st
          /\ maybe' = {}
          /\ pc' = IF Compacts(cur, mem'.size) THEN "rename" ELSE "idle"
          /\ UNCHANGED left
       \/ /\ Fails("sync")
          /\ pc' = "rollback"
          /\ UNCHANGED <<mem, logs, committed, maybe>>
    /\ cur' = NoTxn
    /\ UNCHANGED <<log, snap, snaps, opening>>

\* Mutant: a failed rollback does not stop later commits.
RollbackUnchecked ==
    /\ pc = "rollback"
    /\ \/ /\ log' = Resized(log, mem.size)
          /\ logs' = logs \cup {log'}
          /\ pc' = "rollback_sync"
          /\ UNCHANGED left
       \/ /\ Fails("rollback")
          /\ pc' = "idle"
          /\ UNCHANGED <<log, logs>>
    /\ UNCHANGED <<snap, snaps, mem, opening, cur, committed, maybe>>

\* rollback: Truncate(logSize).
Rollback ==
    /\ pc = "rollback"
    /\ \/ /\ log' = Resized(log, mem.size)
          /\ logs' = logs \cup {log'}
          /\ pc' = "rollback_sync"
          /\ UNCHANGED <<mem, left>>
       \/ /\ Fails("rollback")
          /\ mem' = [mem EXCEPT !.broken = TRUE]
          /\ pc' = "idle"
          /\ UNCHANGED <<log, logs>>
    /\ UNCHANGED <<snap, snaps, opening, cur, committed, maybe>>

\* A store whose rollback was not made durable is broken: it refuses commits.
RollbackSync ==
    /\ pc = "rollback_sync"
    /\ \/ /\ logs' = {log}
          /\ committed' = mem.st
          /\ maybe' = {}
          /\ UNCHANGED <<mem, left>>
       \/ /\ Fails("rollback_sync")
          /\ mem' = [mem EXCEPT !.broken = TRUE]
          /\ UNCHANGED <<logs, committed, maybe>>
    /\ pc' = "idle"
    /\ UNCHANGED <<log, snap, snaps, opening, cur>>

----------------------------------------------------------------------------
(* compact                                                                 *)

\* A failed compaction: commit ignores it, openStore returns it.
GiveUp ==
    /\ pc' = IF opening THEN "closed" ELSE "idle"
    /\ opening' = FALSE

\* The temporary file is written and synced, then renamed over the snapshot.
Rename ==
    /\ pc = "rename"
    /\ \/ /\ snap' = Snapshot(mem.txn, mem.st)
          /\ snaps' = snaps \cup {snap'}
          /\ pc' = "sync_dir"
          /\ UNCHANGED <<opening, left>>
       \/ /\ Fails("rename")
          /\ GiveUp
          /\ UNCHANGED <<snap, snaps>>
    /\ UNCHANGED <<log, logs, mem, cur, committed, maybe>>

\* Mutant: the journal is dropped although the directory was not synced.
SyncDirIgnored ==
    /\ pc = "sync_dir"
    /\ pc' = "truncate"
    /\ UNCHANGED <<files, mem, opening, cur, committed, maybe, left>>

\* syncDir: the new snapshot is durable.
SyncDir ==
    /\ pc = "sync_dir"
    /\ \/ /\ snaps' = {snap}
          /\ pc' = "truncate"
          /\ UNCHANGED <<opening, left>>
       \/ /\ Fails("sync_dir")
          /\ GiveUp
          /\ UNCHANGED snaps
    /\ UNCHANGED <<log, logs, snap, mem, cur, committed, maybe>>

\* Truncate(0): the journal the snapshot covers is dropped.
Truncate ==
    /\ pc = "truncate"
    /\ \/ /\ log' = <<>>
          /\ logs' = logs \cup {<<>>}
          /\ pc' = "truncate_sync"
          /\ UNCHANGED <<opening, left>>
       \/ /\ Fails("truncate")
          /\ GiveUp
          /\ UNCHANGED <<log, logs>>
    /\ UNCHANGED <<snap, snaps, mem, cur, committed, maybe>>

\* logSize is reset only when the sync succeeds, although the file is empty.
TruncateSync ==
    /\ pc = "truncate_sync"
    /\ \/ /\ logs' = {log}
          /\ mem' = [mem EXCEPT !.size = 0]
          /\ pc' = "idle"
          /\ opening' = FALSE
          /\ UNCHANGED left
       \/ /\ Fails("truncate_sync")
          /\ GiveUp
          /\ UNCHANGED <<logs, mem>>
    /\ UNCHANGED <<log, snap, snaps, cur, committed, maybe>>

----------------------------------------------------------------------------
(* openStore                                                               *)

\* Mutant: what was recovered from damaged files is not marked.
OpenedUnmarked(r) ==
    [st |-> [r.st EXCEPT !.corrupt = FALSE], txn |-> r.txn,
     size |-> IF r.corrupt THEN Len(log) ELSE r.end, broken |-> FALSE]

\* The open store: a damaged journal is still all there until compaction.
Opened(r) ==
    [st |-> r.st, txn |-> r.txn,
     size |-> IF r.corrupt THEN Len(log) ELSE r.end, broken |-> FALSE]

\* Undamaged files: a torn tail is cut off.  Damaged ones: what was recovered
\* is marked and persisted by a compaction.  A snapshot that could not be read
\* is taken for a damaged one.
Open ==
    /\ pc = "closed"
    /\ \E readable \in BOOLEAN :
          LET r == Found(log, [snap EXCEPT !.readable = @ /\ readable])
          IN  /\ IF readable THEN UNCHANGED left ELSE Fails("read")
              /\ mem' = Opened(r)
              /\ opening' = r.corrupt
              /\ pc' = IF r.corrupt THEN "rename"
                       ELSE IF r.end # Len(log) THEN "tail" ELSE "idle"
    /\ UNCHANGED <<files, cur, committed, maybe>>

\* The torn tail: Truncate(validEnd), then Sync.
CutTail ==
    /\ pc = "tail"
    /\ \/ /\ log' = Resized(log, mem.size)
          /\ logs' = logs \cup {log'}
          /\ pc' = "tail_sync"
          /\ UNCHANGED left
       \/ /\ Fails("tail")
          /\ pc' = "closed"
          /\ UNCHANGED <<log, logs>>
    /\ UNCHANGED <<snap, snaps, mem, opening, cur, committed, maybe>>

TailSync ==
    /\ pc = "tail_sync"
    /\ \/ /\ logs' = {log}
          /\ committed' = mem.st
          /\ maybe' = {}
          /\ pc' = "idle"
          /\ UNCHANGED left
       \/ /\ Fails("tail_sync")
          /\ pc' = "closed"
          /\ UNCHANGED <<logs, committed, maybe>>
    /\ UNCHANGED <<log, snap, snaps, mem, opening, cur>>

----------------------------------------------------------------------------
(* The end of the process                                                  *)

\* The process is killed: the files read as they were last written.
Kill ==
    /\ pc # "closed" /\ Takes("kill")
    /\ pc' = "closed" /\ opening' = FALSE
    /\ mem' = NoMem /\ cur' = NoTxn
    /\ UNCHANGED <<files, committed, maybe>>

\* The power fails: each file has one of the contents it may have been left
\* with, and has it for good.
PowerLoss ==
    /\ Takes("power")
    /\ pc' = "closed" /\ opening' = FALSE
    /\ mem' = NoMem /\ cur' = NoTxn
    /\ log' \in logs /\ logs' = {log'}
    /\ snap' \in snaps /\ snaps' = {snap'}
    /\ committed' = Found(log', snap').st
    /\ maybe' = {}

\* The media spoil the snapshot or a record that others follow.
Damage ==
    /\ pc = "closed" /\ Takes("damage")
    /\ logs = {log} /\ snaps = {snap}
    /\ \/ \E i, j \in DOMAIN log, kind \in DamageKinds :
             /\ i < j /\ log[i].kind = "record" /\ log[j].kind = "record"
             /\ log' = [log EXCEPT ![i] = Blank(kind)]
             /\ logs' = {log'}
             /\ UNCHANGED <<snap, snaps>>
       \/ /\ snap.through > 0
          /\ snap' = [snap EXCEPT !.readable = FALSE]
          /\ snaps' = {snap'}
          /\ UNCHANGED <<log, logs>>
    /\ committed' = [Found(log', snap').st EXCEPT !.corrupt = TRUE]
    /\ UNCHANGED <<pc, mem, opening, cur, maybe>>

Init ==
    /\ log = <<>> /\ logs = {<<>>}
    /\ snap = Snapshot(0, NewState) /\ snaps = {snap}
    /\ pc = "closed" /\ opening = FALSE
    /\ mem = NoMem
    /\ cur = NoTxn
    /\ committed = NewState /\ maybe = {}
    /\ left = Budget

Next ==
    \/ \E t \in Transactions : Commit(t)
    \/ Write \/ Sync \/ Rollback \/ RollbackSync
    \/ Rename \/ SyncDir \/ Truncate \/ TruncateSync
    \/ Open \/ CutTail \/ TailSync
    \/ Kill \/ PowerLoss \/ Damage

Spec == Init /\ [][Next]_vars

----------------------------------------------------------------------------
(* Properties                                                              *)

States == [items : SUBSET Items, corrupt : BOOLEAN]
Slots ==
    [kind : {"record", "zero", "bad", "torn", "long"}, n : 0..MaxTxn,
     txn : Transactions \cup {NoTxn}]
Snapshots == [readable : BOOLEAN, through : 0..MaxTxn, st : States]

\* The files, the open store and the history have their types, and what the
\* process reads is something a power loss may leave.
TypeOK ==
    /\ log \in Seq(Slots) /\ log \in logs /\ \A l \in logs : l \in Seq(Slots)
    /\ snap \in snaps /\ snaps \subseteq Snapshots
    /\ pc \in Operations \cup {"idle", "closed"}
    /\ mem \in [st : States, txn : 0..MaxTxn, size : Nat, broken : BOOLEAN]
    /\ opening \in BOOLEAN
    /\ cur \in Transactions \cup {NoTxn}
    /\ committed \in States /\ maybe \subseteq States
    /\ left \in [Faults -> Nat] /\ \A f \in Faults : left[f] <= Budget[f]

\* What openStore could come up with after a power loss now.
Outcomes == {Found(l, s).st : l \in logs, s \in snaps}

\* Whatever file operation failed and whenever the power goes, openStore finds
\* the state after the last successful commit, or that state with the one
\* transaction whose record was being written: no committed record is lost, none
\* is applied twice, and a record that was rolled back does not come back.
NothingCommittedIsLost ==
    \A st \in Outcomes :
        \E c \in {committed} \cup maybe : c.items = st.items

\* After damage to the snapshot or to a record before the last, every state
\* openStore could come up with carries the corrupt mark, until a snapshot from
\* the controller clears it: a reset that is committed, or is being written.
DamageIsMarked ==
    \A st \in Outcomes :
        st.corrupt \/ \E c \in {committed} \cup maybe : ~c.corrupt

\* A store that takes commits holds in memory exactly what a process started
\* in its place would read from the files, and appends where that process would.
ReopenIsIdentity ==
    pc = "idle" /\ ~mem.broken =>
        LET r == Found(log, snap)
        IN  r.st = mem.st /\ r.txn = mem.txn /\ r.end = mem.size /\ mem.size = Len(log)
=============================================================================
